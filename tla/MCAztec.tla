------------------------------- MODULE MCAztec -------------------------------
(***************************************************************************)
(* Texts of every combination of modes and binary shifts of every length   *)
(* at which a header changes, symbols with the segments of other encoders, *)
(* mode messages with errors, and every layout.                            *)
(***************************************************************************)
EXTENDS Aztec

ToEncode(t, percent, layers) == [kind |-> "text", text |-> t, percent |-> percent, layers |-> layers]
Repeated(c, n) == [i \in 1 .. n |-> c]
UpTo(set, n) == UNION {[1 .. k -> set] : k \in 0 .. n}

(* A z 5 space . , : CR LF @ ! e-acute, and beginnings in every mode.      *)
Characters == {65, 122, 53, 32, 46, 44, 13, 10, 64, 33, 233}
Beginnings ==
  {<<>>, <<66, 66>>, <<97, 98>>, <<49, 50, 51>>, <<64, 64>>, <<33, 35, 36>>, <<233, 200>>, Repeated(233, 31)}
Short == {ToEncode(b \o e, 33, 0) : b \in Beginnings, e \in UpTo(Characters, 2)}
Lengths ==
  {ToEncode(b \o Repeated(200, n) \o e, 33, 0) :
     b \in {<<>>, <<53>>, <<97>>}, n \in {1, 30, 31, 32, 61, 62, 63, 64}, e \in {<<>>, <<65>>, <<53, 53>>}}
Sized ==
  {ToEncode(Repeated(c, n), percent, 0) :
     c \in {65, 0, 255}, n \in {10, 13, 40, 90, 150}, percent \in {0, 33}}
  \cup {ToEncode(Repeated(65, 5), 33, n) : n \in {-4, -1, 1, 3, 9, 22, 23, 32, -5, 33}}
  \cup {ToEncode(Repeated(255, 64), 23, n) : n \in {-4, -3, 4, 5}}
  \cup {ToEncode(Repeated(200, 300), percent, 0) : percent \in {33, 400}} \cup {ToEncode(<<c>>, 33, 255) : c \in {0, 7, 65, 255}}
TextInputs == Short \cup Lengths \cup Sized
-----------------------------------------------------------------------------
ASymbol(segments, size, errors) ==
  [kind |-> "symbol", segments |-> segments, size |-> size, errors |-> errors]
S(kind, t) == Segment(kind, t)
AB == S("UPPER", <<65, 66>>)
Lower == S("LOWER", <<122, 32>>)
Mixed == S("MIXED", <<1, 27, 64, 127>>)
Punct == S("PUNCT", <<34, 39, 125>>)
Numbers == S("DIGIT", <<48, 57>>)
Number == S("DIGIT", <<49>>)
Letter == S("UPPER", <<90>>)
FNC1 == S("FNC1", <<>>)
ECI(e) == S("ECI", <<e>>)
Part(i, count, id) == S("PART", <<i, count>> \o id)
Binary(n) == S("BINARY", [i \in 1 .. n |-> (i * 37) % 256])
Segments ==
  {<<AB, Lower, Mixed>>, <<Punct, Numbers, AB>>, <<S("PS", <<33, 34>>), Lower>>, <<S("LOWER_US", <<65, 66>>)>>,
   <<S("DIGIT_US", <<65>>), Numbers>>, <<S("DIGIT_PS", <<43, 46>>), AB>>, <<Binary(1)>>, <<Binary(31), AB>>,
   <<Binary(32), Lower>>, <<S("LOWER_BINARY", <<0, 255>>), Numbers>>, <<S("DIGIT_US_BINARY", <<0, 255>>), AB>>,
   <<S("PAIR", <<13, 10>>), S("PAIR", <<58, 32>>)>>, <<FNC1, Numbers, FNC1, AB>>, <<Letter, FNC1, Numbers>>,
   <<Numbers, FNC1, AB>>, <<Number, FNC1, AB>>, <<AB, FNC1, AB>>, <<Lower, FNC1, Letter>>,
   <<ECI(3), AB>>, <<AB, ECI(26), Lower, ECI(999999), Numbers>>, <<ECI(26), FNC1, Numbers>>,
   <<FNC1, ECI(20), Numbers>>, <<Letter, ECI(4), FNC1, AB>>, <<AB, S("FLG7", <<>>), Lower>>, <<S("FLG7", <<>>)>>,
   <<Part(0, 4, <<>>), Letter>>, <<Part(2, 3, <<73, 68>>), AB, ECI(26), Lower>>, <<Part(25, 26, <<>>), FNC1, Numbers>>,
   <<Part(3, 2, <<>>), Letter, FNC1, AB>>, <<Part(0, 1, <<65>>), Numbers, FNC1, AB>>, <<Part(1, 2, <<73>>)>>,
   <<AB, S("BITS", Codes(<<31, 31>>))>>, <<AB, S("BITS", Codes(<<31, 0>>) \o BitsOf(2, 11))>>,
   <<AB, S("BITS", Codes(<<0, 0>>) \o BitsOf(6, 3) \o BitsOf(7, 4))>>}
Errors(n, positions, values) == UNION {[p -> values] : p \in {q \in SUBSET positions : Cardinality(q) \in n}}
SymbolInputs ==
  {ASymbol(s, size, <<>>) : s \in Segments, size \in {Size(TRUE, 4), Size(FALSE, 9), Size(FALSE, 23)}}
  \cup {ASymbol(<<AB, Lower>>, Size(TRUE, 1), e) : e \in Errors({1, 2, 3, 5}, {1, 2, 4, 9, 17}, {21})}
  \cup {ASymbol(<<AB, ECI(26), Lower>>, Size(TRUE, 3), [k \in 1 .. n |-> 90 + k]) : n \in {1, 10, 20, 25}}
  \cup {ASymbol(<<S("UPPER", Repeated(65, 60))>>, Size(TRUE, 2), e) : e \in {<<>>, <<1>>}}

(* The words of this symbol leave room for one check word.                 *)
OneCheckWord == {ASymbol(<<S("UPPER", Repeated(65, 19))>>, Size(TRUE, 1), e) : e \in {<<>>, <<1>>}}
-----------------------------------------------------------------------------
Mode(size, numWords, rune, errors) ==
  [kind |-> "mode", size |-> size, numWords |-> numWords, rune |-> rune, errors |-> errors]
ModeInputs ==
  {Mode(Size(TRUE, 2), 40, -1, e) : e \in Errors({0, 1, 2}, 1 .. 7, {1, 6, 10, 15})}
  \cup {Mode(Size(TRUE, 4), 64, -1, e) : e \in Errors({2}, 1 .. 7, {10})}
  \cup {Mode(Size(TRUE, 0), 0, r, e) : r \in {0, 25, 255}, e \in Errors({0, 1}, 1 .. 7, {3, 10})}
  \cup {Mode(Size(TRUE, 0), 0, r, <<>>) : r \in 0 .. 255}
  \cup {Mode(Size(FALSE, 21), 900, -1, e) : e \in Errors({0, 1, 3}, 1 .. 10, {5, 8})}
  \cup {Mode(Size(FALSE, 32), 1650, -1, e) : e \in Errors({3}, 1 .. 10, {15})}
LayoutInputs == {[kind |-> "layout", size |-> s] : s \in AllSizes}

Everything == TextInputs \cup SymbolInputs \cup OneCheckWord \cup ModeInputs \cup LayoutInputs
=============================================================================
