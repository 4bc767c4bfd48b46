-------------------------------- MODULE MCPDF417 --------------------------------
(***************************************************************************)
(* Texts of every combination of submodes and compactions, symbols with    *)
(* the segments of other encoders, and images with rows of several         *)
(* heights, skewed, cut off, and with codewords unread or misread.         *)
(***************************************************************************)
EXTENDS PDF417

Limits(minCols, maxCols, minRows, maxRows) ==
  [minCols |-> minCols, maxCols |-> maxCols, minRows |-> minRows, maxRows |-> maxRows]
Default == Limits(2, 30, 2, 30)
ToEncode(t, level, compaction, charset, limits) ==
  [kind |-> "text", text |-> t, level |-> level, compaction |-> compaction, charset |-> charset, limits |-> limits]
Plain(t) == ToEncode(t, 1, "AUTO", "ISO8859_1", Default)
Repeated(c, n) == [i \in 1 .. n |-> c]
UpTo(set, n) == UNION {[1 .. k -> set] : k \in 0 .. n}

(* A z 5 , ; space tab @ e-acute, behind beginnings in every submode.      *)
Characters == {65, 122, 53, 44, 59, 32, 64, 233}
Beginnings == {<<>>, <<66, 66, 66>>, <<97, 98, 97>>, <<49, 50, 49>>, <<60, 91, 93, 123>>, Repeated(200, 6)}
Short == {Plain(b \o e) : b \in Beginnings, e \in UpTo(Characters, 2)}
Lengths ==
  {Plain(b \o Repeated(55, n) \o e) :
     b \in {<<>>, <<65, 97>>, <<233>>}, n \in {12, 13, 14, 44, 45, 46, 88, 89}, e \in {<<>>, <<66>>, <<233>>}}
  \cup {Plain(Repeated(c, n)) : c \in {200}, n \in 1 .. 13}
  \cup {Plain(b \o Repeated(65, n) \o Repeated(200, k)) : b \in {<<>>, <<59>>}, n \in 4 .. 6, k \in {1, 2, 6}}
Asked ==
  {ToEncode(t, 1, c, cs, Default) :
     t \in {<<49, 48, 48>>, Repeated(57, 20)}, c \in {"AUTO", "TEXT", "BYTE", "NUMERIC"}, cs \in {"ISO8859_1", "UTF8"}}
  \cup {ToEncode(t, 1, "AUTO", "UTF8", Default) : t \in {<<233>>, <<65, 233, 1080, 66>>, Repeated(1080, 7)}}
  \cup {ToEncode(Repeated(200, n), level, "AUTO", "ISO8859_1", lim) :
           n \in {1, 2, 9, 15}, level \in {0, 2, 3},
           lim \in {Default, Limits(1, 2, 3, 90), Limits(3, 4, 3, 6), Limits(1, 30, 8, 90), Limits(2, 2, 3, 5)}}
TextInputs == Short \cup Lengths \cup Asked
-----------------------------------------------------------------------------
S(kind, data) == Segment(kind, data, data)
Says(kind, data, says) == Segment(kind, data, says)
ACode(c) == Says("code", <<c>>, <<>>)
ECI(e) == Says("ECI", <<e>>, <<>>)
Part(data) == Says("part", data, <<>>)
Text == S("text", <<65, 66, 67, 100, 101, 49>>)
Bytes(n) == S("bytes", [i \in 1 .. n |-> (i * 37 + 200) % 256])
More(n) == S("more", [i \in 1 .. n |-> (i * 91 + 7) % 256])
Digits(n) == S("digits", [i \in 1 .. n |-> 48 + ((i * 7) % 10)])
Number(n) == S("number", [i \in 1 .. n |-> 48 + ((i * 3) % 10)])
Field(f, codes, says) == Says("field", <<f>> \o codes, says)
Segments ==
  {<<Text>>, <<Text, Bytes(6), Text>>, <<Bytes(1)>>, <<Bytes(5), Digits(3)>>, <<Bytes(11), Text>>, <<Digits(44), Text>>,
   <<Digits(45), Bytes(12)>>, <<Text, S("shift", <<233>>), Says("values", <<1, 28, 7, 25>>, <<49, 72, 90>>), Text>>,
   <<ECI(26), Text>>, <<Text, ECI(4), S("shift", <<200>>), Text>>, <<Bytes(6), ECI(26), More(6), Text>>,
   <<Bytes(7), ECI(5), More(1)>>, <<Digits(10), ECI(7), Number(12), Text>>, <<ECI(900), ECI(810900), Text>>,
   <<Text, ECI(1000), Says("values", <<27, 4>>, <<101>>)>>,
   <<Says("values", <<29, 0, 0, 29>>, <<59, 65>>), S("shift", <<7>>), Says("values", <<2, 2>>, <<67, 67>>)>>,
   <<ACode(READER_INIT), Text>>, <<ACode(LINKAGE_EANUCC), Text>>, <<Text, ACode(READER_INIT)>>, <<ACode(LINKAGE_OTHER), Text>>,
   <<ACode(903), Text>>, <<Says("values", <<3, 5>>, <<68, 70>>), ACode(903)>>,
   <<Text, Says("code", <<BYTE_LATCH_6, 1, 2, 3>>, <<>>), Text>>, <<Digits(5), Says("code", <<NUMERIC_LATCH, 2>>, <<>>)>>, <<Text, ACode(914)>>, <<Bytes(6), ACode(919), Text>>, <<Digits(5), ACode(LINKAGE_OTHER)>>,
   <<Text, ACode(MACRO_TERMINATOR)>>, <<Field(0, <<1>>, <<>>), Text>>, <<ECI(3)>>,
   <<Text, Part(<<0, 17, 53>>)>>, <<Text, Part(<<3, 17>>), ACode(MACRO_TERMINATOR)>>, <<Part(<<1>>)>>,
   <<Digits(20), Part(<<2, 100>>), Field(0, <<5, 66>>, <<>>), Field(SEGMENT_COUNT, <<1, 113>>, <<13>>),
     ACode(MACRO_TERMINATOR)>>,
   <<Bytes(6), Part(<<1, 5>>), Field(SEGMENT_COUNT, <<14>>, <<4>>), Field(5, <<111, 100>>, <<>>)>>,
   <<Part(<<4, 1>>), Field(7, <<1>>, <<>>)>>}
ASymbol(segments, cols, level, errors) ==
  [kind |-> "symbol", segments |-> segments, cols |-> cols, level |-> level, errors |-> errors, told |-> "rightly"]
Errors(n, positions, values_) == UNION {[q -> values_] : q \in {r \in SUBSET positions : Cardinality(r) \in n}}
SymbolInputs ==
  {[ASymbol(<<Text, Digits(20)>>, 3, 1, e) EXCEPT !.told = t] :
     t \in {"as none", "as too many"}, e \in {<<>>, (1 :> 7), (3 :> 7) @@ (4 :> 7)}} \cup
  {ASymbol(s, 3, 1, <<>>) : s \in Segments}
  \cup {ASymbol(<<Text>>, 2, 1, e) : e \in Errors({1, 2, 3}, {1, 2, 5, 9, 10}, {-1, 450, 928})}
  \cup {ASymbol(<<Text, Digits(20)>>, 3, 2, [k \in 1 .. n |-> 800 + k]) : n \in 2 .. 5}
-----------------------------------------------------------------------------
(* The rows of the symbol are from the third line of the image on.         *)
First == 3
Body == <<Text, Digits(8)>>
AnImage(cols, level, height, skew, corners, damage, lines) ==
  [kind |-> "image", segments |-> Body, told |-> "rightly", cols |-> cols, level |-> level, height |-> height, top |-> First,
   skew |-> skew, corners |-> corners, damage |-> damage, lines |-> lines]
RowsWith(cols) == CalculateNumberOfRows(Len(WrittenCodewords(Body)), NumEC(1), cols)
LastLine(cols, h) == First + h * RowsWith(cols) - 1
Sheet(cols, h) == LastLine(cols, h) + 8
Straight == <<>>
Skews(cols) == {Straight} \cup {[x \in 0 .. cols + 1 |-> slope[x + 1]] : slope \in {<<0, 1, 2, 3, 4>>, <<4, 3, 2, 1, 0>>,
                 <<0, 0, 1, 1, 1>>, <<0, 2, 4, 6, 6>>, <<0, 1, 2, 1, 0>>}}
OffsetIn(skew, x) == IF x \in DOMAIN skew THEN skew[x] ELSE 0
Around(cols, h, skew) ==
  Corners(First + OffsetIn(skew, 0), LastLine(cols, h) + OffsetIn(skew, 0),
          First + OffsetIn(skew, cols + 1), LastLine(cols, h) + OffsetIn(skew, cols + 1))
WithoutLeft(c) == [c EXCEPT !.tl = NoPoint, !.bl = NoPoint]
WithoutRight(c) == [c EXCEPT !.tr = NoPoint, !.br = NoPoint]
Cut(c, top, bottom) == [c EXCEPT !.tl = @ + top, !.bl = @ - bottom]
Clean ==
  {AnImage(cols, 1, h, skew, c, <<>>, Sheet(cols, h)) :
     <<cols, h, skew, c>> \in
       UNION {{<<cols, h, skew, c>> :
                 c \in {Around(cols, h, skew), WithoutLeft(Around(cols, h, skew)), WithoutRight(Around(cols, h, skew))}
                       \cup {Cut(Around(cols, h, skew), t, b) : t \in {0, h, h + 1}, b \in {0, h + 1}}} :
                <<cols, h, skew>> \in UNION {{<<cols, h, skew>> : h \in 1 .. 4, skew \in Skews(cols)} : cols \in 1 .. 3}}}

(* What may be read in a line of a row: nothing, or another codeword, of   *)
(* its own bucket or of that of a neighbouring row.                        *)
Wrong(y, value) == [bucket |-> BucketOf(y), value |-> value, row |-> UNKNOWN]
At_(x, y, h, k) == <<x, First + h * y + k>>
Cell(x, y, h, seen) == [q \in {At_(x, y, h, k) : k \in DOMAIN seen} |-> seen[q[2] - First - h * y]]
SeenAs(y) == {NoCodeword, Wrong(y, 200), Wrong(y, 201), Wrong(y + 1, 202)}
InLines(n, y) == UNION {[ks -> SeenAs(y)] : ks \in SUBSET (0 .. n - 1)}
Plain2(damage) == AnImage(2, 1, 3, Straight, Around(2, 3, Straight), damage, Sheet(2, 3))
OneCell == UNION {{Plain2(Cell(x, y, 3, seen)) : x \in 0 .. 3, seen \in InLines(3, y)} : y \in {0, 3, 4, 6}}
(* Row indicators lost, or telling of another symbol.                      *)
ColumnOf(x, tells(_)) == [q \in {<<x, line>> : line \in First .. LastLine(2, 3)} |-> tells((q[2] - First) \div 3)]
Lies ==
  {Plain2(ColumnOf(x, LAMBDA y : IF y \in rows THEN NoCodeword ELSE Wrong(y, LeftIndicator(y, l[1], l[2], l[3]))) @@ other) :
     x \in {0}, l \in {<<2, 7, 1>>, <<3, 7, 1>>, <<2, 5, 1>>, <<2, 7, 3>>, <<3, 8, 2>>}, rows \in {{}, {0}, {1, 4}, {2, 5, 6}},
     other \in {<<>>, ColumnOf(3, LAMBDA y : NoCodeword)}}
Tie(y, value) == (0 :> Wrong(y, value)) @@ (1 :> NoCodeword)
LostCell == [k \in 0 .. 2 |-> NoCodeword]
WrongCell(y) == [k \in 0 .. 2 |-> Wrong(y, 200)]
Doubts(y) == {Tie(y, 1), Tie(y, 125), Tie(y, 900), LostCell, WrongCell(y)}
ThreeCells(at, seen) ==
  Cell(at[1][1], at[1][2], 3, seen[1]) @@ Cell(at[2][1], at[2][2], 3, seen[2]) @@ Cell(at[3][1], at[3][2], 3, seen[3])
Several ==
  {Plain2(ThreeCells(<<<<1, 1>>, <<1, 2>>, <<2, 3>>>>, seen)) : seen \in Doubts(1) \X Doubts(2) \X Doubts(3)}
Cells4(first, second) ==                     \* two ties, with as many errors as are corrected
  Cell(1, 1, 3, first) @@ Cell(1, 2, 3, second) @@ Cell(2, 3, 3, LostCell) @@ Cell(2, 4, 3, LostCell)
TwoTies == {Plain2(Cells4(Tie(1, v), Tie(2, w))) : v, w \in {1, 125, 500, 900}}
ImageInputs == Clean \cup OneCell \cup Lies \cup Several \cup TwoTies

Everything == TextInputs \cup SymbolInputs \cup ImageInputs
=============================================================================
