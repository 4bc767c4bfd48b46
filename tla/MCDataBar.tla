------------------------------- MODULE MCDataBar -------------------------------
(***************************************************************************)
(* Rows across printed DataBar symbols.  A character is printed as the     *)
(* pattern that stands at its value in the order of the standard.          *)
(***************************************************************************)
EXTENDS DataBar

(* A sequence whose elements are worked out once.                          *)
Made(f) == FoldLeft(Append, <<>>, f)

(* How many patterns of fewer than n widths up to widest have this sum.    *)
Compositions(n, most, widest) ==
  LET More(rows, last) ==
        LET Way(s) == Total([a \in 1 .. (IF s <= widest THEN s - 1 ELSE widest) |-> last[s - a]])
        IN  Append(rows, Made([s \in 1 .. most |-> Way(s)]))
      one == Made([s \in 1 .. most |-> IF s <= widest THEN 1 ELSE 0])
  IN  FoldLeft(LAMBDA rows, k : More(rows, Last(rows)), <<one>>, [k \in 1 .. n - 2 |-> k])
WaysOf(ways, n, sum) == IF n = 0 THEN IF sum = 0 THEN 1 ELSE 0 ELSE IF sum < n THEN 0 ELSE ways[n][sum]

RECURSIVE Ranked(_, _, _, _, _)
Ranked(ways, n, sum, needsOne, rank) ==
  IF n = 0 THEN <<>>
  ELSE LET With(a) ==
             WaysOf(ways.all, n - 1, sum - a)
               - IF needsOne /\ a > 1 THEN WaysOf(ways.wide, n - 1, sum - a - (n - 1)) ELSE 0
           before[a \in 1 .. 9] == IF a = 1 THEN 0 ELSE before[a - 1] + With(a - 1)
           a == CHOOSE a \in 1 .. 8 : before[a] <= rank /\ rank < before[a + 1]
       IN  <<a>> \o Ranked(ways, n - 1, sum - a, needsOne /\ a > 1, rank - before[a])
PatternAt(n, sum, widest, needsOne, rank) ==
  Ranked([all |-> Compositions(n, sum, widest), wide |-> Compositions(n, sum, widest - 1)], n, sum, needsOne, rank)

(* The character of group g that is the v-th there.                        *)
Member(kind, t, g, v) ==
  LET n == IF kind = "limited" THEN 7 ELSE 4
      oddSum == IF kind = "inside" THEN t.mods - t.sums[g] ELSE t.sums[g]
      oddRank == IF kind = "inside" THEN v % t.total[g] ELSE v \div t.total[g]
      evenRank == IF kind = "inside" THEN v \div t.total[g] ELSE v % t.total[g]
      needsOne == kind \in {"inside", "expanded"}
  IN  FlattenSeq(Interleave(PatternAt(n, oddSum, t.oddWidest[g], needsOne, oddRank),
                            PatternAt(n, t.mods - oddSum, 9 - t.oddWidest[g], ~needsOne, evenRank)))
GroupAt(t, value) ==
  CHOOSE j \in DOMAIN t.gsum : t.gsum[j] <= value /\ \A k \in j + 1 .. Len(t.gsum) : value < t.gsum[k]
InItsGroup(kind, t, g, value) == Member(kind, t, g, value - t.gsum[g])
Char(kind, value) == InItsGroup(kind, Subsets[kind], GroupAt(Subsets[kind], value), value)
-----------------------------------------------------------------------------
(* Rows in modules: parts between quiet zones, in pixels with this module  *)
(* size and this gain of the bars.                                         *)
Scaled(modules, size, gain) ==
  [i \in DOMAIN modules |-> size * modules[i] + IF i % 2 = 0 THEN gain ELSE -gain]
Quiet == <<12>>
Text13(digits) ==
  LET txt == [i \in 1 .. 13 |-> 48 + digits[i]] IN <<48, 49>> \o txt \o <<CheckDigit(txt)>>
Digits(hi, lo) == [i \in 1 .. 13 |-> (IF i <= 6 THEN hi \div 10^(6 - i) ELSE lo \div 10^(13 - i)) % 10]

FinderWidths ==
  <<<<3, 8, 2, 1, 1>>, <<3, 5, 5, 1, 1>>, <<3, 3, 7, 1, 1>>, <<3, 1, 9, 1, 1>>, <<2, 7, 4, 1, 1>>, <<2, 5, 6, 1, 1>>,
    <<2, 3, 8, 1, 1>>, <<1, 5, 7, 1, 1>>, <<1, 3, 9, 1, 1>>>>
Check9(widths) == Total([i \in 1 .. 8 |-> widths[i] * 9^((i - 1) \div 2) * (IF i % 2 = 1 THEN 1 ELSE 3)])

(* The two halves of a DataBar symbol; linked to a composite component if  *)
(* its value has a 1 before its 13 digits.                                 *)
CheckOf(sum) == LET k == sum + IF sum >= 8 THEN 1 ELSE 0 IN k + IF k >= 72 THEN 1 ELSE 0
WithFinders(char, check) ==
  [left |-> char[1] \o FinderWidths[check \div 9 + 1] \o Reverse(char[2]),
   right |-> char[4] \o Reverse(FinderWidths[(check % 9) + 1]) \o Reverse(char[3])]
Checked(char) == WithFinders(char, CheckOf(Total([i \in 1 .. 4 |-> 4^(i - 1) * Check9(char[i])]) % 79))
HalfChars(v) ==
  Made([i \in 1 .. 4 |-> IF i % 2 = 1 THEN Char("outside", v[(i + 1) \div 2] \div 1597) ELSE Char("inside", v[i \div 2] % 1597)])
Halves(digits, linked) ==
  Checked(HalfChars(Numbers!Padded(Numbers!InBase(4537077, 10, IF linked THEN <<1>> \o digits ELSE digits), 2)))

OmniRow(h) == <<1>> \o h.left \o h.right \o <<1, 1>>
TopRow(h) == <<1>> \o h.left \o <<1>>
BottomRow(h) == <<1, 1>> \o h.right \o <<1, 1>>
-----------------------------------------------------------------------------
(* DataBar Expanded: what is encoded, in parts of bits and of text.        *)
Field(number, n) == [i \in 1 .. n |-> (number \div 2^(n - i)) % 2]
Part(bits, txt) == [bits |-> bits, txt |-> txt]
Mode(bits) == Part(bits, <<>>)
Num(a, b) == Part(Field(11 * a + b + 8, 7), [i \in 1 .. 2 |-> LET d == <<a, b>>[i] IN IF d = 10 THEN GS ELSE 48 + d])
Nums(ds) == [i \in 1 .. Len(ds) \div 2 |-> Num(ds[2 * i - 1], ds[2 * i])]
LastNum(a) == Part(Field(a + 1, 4), <<48 + a>>)               \* in the last 4 to 6 bits
LastWithFNC1(a) == Part(Field(11 * a + 18, 7), <<48 + a>>)   \* where there is more room
Alpha(c) == Part(IF c < 58 THEN Field(c - 43, 5) ELSE Field(c - 33, 6), <<c>>)
Iso(c) == Part(IF c < 58 THEN Field(c - 43, 5) ELSE IF c < 91 THEN Field(c - 1, 7) ELSE Field(c - 7, 7), <<c>>)
FNC1Latch == Part(<<0, 1, 1, 1, 1>>, <<GS>>)
ToAlpha == Mode(<<0, 0, 0, 0>>)
ToIso == Mode(<<0, 0, 1, 0, 0>>)
ToNumeric == Mode(<<0, 0, 0>>)
AnyAIs == Mode(<<0, 0, 0, 0, 0>>)
Chars(txt) == Part(<<>>, txt)
Figures(number, n) == Part(<<>>, Decimal(number, n))
GTIN12(first, hi, lo) ==                                     \* 13 digits, of which 12 in groups
  LET digits == <<48 + first>> \o Decimal(hi, 6) \o Decimal(lo, 6)
  IN  Part(Field(hi \div 1000, 10) \o Field(hi % 1000, 10) \o Field(lo \div 1000, 10) \o Field(lo % 1000, 10),
           <<48, 49>> \o digits \o <<CheckDigit(digits)>>)

(* The symbol is filled up with a latch and the start of a latch.          *)
Filled(bits, numeric, n) ==
  LET fill == (IF numeric THEN <<0, 0, 0, 0>> ELSE <<>>) \o FlattenSeq([i \in 1 .. 60 |-> <<0, 0, 1, 0, 0>>])
  IN  bits \o SubSeq(fill, 1, 12 * n - Len(bits))
Expanded(parts, numeric, n) ==
  [bits |-> Filled(FlattenSeq([i \in DOMAIN parts |-> parts[i].bits]), numeric, n),
   txt |-> FlattenSeq([i \in DOMAIN parts |-> parts[i].txt])]

ExpandedWidths ==
  <<<<1, 8, 4, 1, 1>>, <<3, 6, 4, 1, 1>>, <<3, 4, 6, 1, 1>>, <<3, 2, 8, 1, 1>>, <<2, 6, 5, 1, 1>>, <<2, 2, 9, 1, 1>>>>
PairsOfChars(finders, all, n) ==
  LET Pair(j) ==
        all[2 * j - 1]
          \o (IF finders[j] < 0 THEN Reverse(ExpandedWidths[-finders[j]]) ELSE ExpandedWidths[finders[j]])
          \o (IF 2 * j > n + 1 THEN <<>> ELSE Reverse(all[2 * j]))
  IN  [j \in DOMAIN finders |-> Pair(j)]
WithCheck(finders, char) ==
  LET row == [i \in DOMAIN char |-> WEIGHTS[WeightRow(finders[i \div 2 + 1], i % 2 = 1)]]
      sum == Total([i \in DOMAIN char |-> Total([k \in 1 .. 8 |-> char[i][k] * row[i][k]])])
  IN  PairsOfChars(finders, <<Char("expanded", 211 * (Len(char) - 3) + (sum % 211))>> \o char, Len(char))
PairsOf(bits) ==
  LET n == Len(bits) \div 12
  IN  WithCheck(FINDER_PATTERN_SEQUENCES[(n + 2) \div 2 - 1],
                Made([i \in 1 .. n |-> Char("expanded", Peek(bits, 12 * i - 11, 12))]))

(* A row of the pairs from the one to the other; those beginning with a    *)
(* pair the other way round begin on a bar.                                *)
ExpandedRow(pairs, from, to) ==
  LET front == IF from % 2 = 1 THEN <<1>> ELSE <<1, 1>>
      row == front \o FlattenSeq(SubSeq(pairs, from, to))
  IN  row \o (IF Len(row) % 2 = 0 THEN <<1>> ELSE <<1, 1>>)
-----------------------------------------------------------------------------
(* DataBar Limited.                                                        *)
RunsOf(number) ==
  LET bits == Field(number, 18)
      Longer(runs) == [runs EXCEPT ![Len(runs)] = @ + 1]
  IN  FoldLeft(LAMBDA runs, i : IF bits[i] = bits[i - 1] THEN Longer(runs) ELSE Append(runs, 1),
               <<1>>, [i \in 1 .. 17 |-> i + 1])
Check3(widths) == Total([i \in 1 .. 14 |-> widths[i] * 3^(i - 1)])
WithCheckChar(left, right) ==
  <<1>> \o left \o RunsOf(CheckChars[((Check3(left) + 20 * (Check3(right) % 89)) % 89) + 1]) \o right \o <<1, 1>>
LimitedOf(v, linked) == WithCheckChar(Char("limited", v[1] + IF linked THEN 1000776 ELSE 0), Char("limited", v[2]))
LimitedRow(digits, linked) == LimitedOf(Numbers!Padded(Numbers!InBase(2013571, 10, digits), 2), linked)
-----------------------------------------------------------------------------
Line(y, row, size, gain) == [y |-> y, widths |-> Scaled(Quiet \o row \o Quiet, size, gain)]
Rows(rows, size, gain) == [i \in DOMAIN rows |-> Line(8 * i, rows[i], size, gain)]
Beside(a, b) == a \o Quiet \o b
UpsideDown(rows) == Reverse([i \in DOMAIN rows |-> Reverse(rows[i])])
Orders(lines) ==                               \* top down, bottom up, from the middle
  {lines, Reverse(lines)} \cup
    IF Len(lines) < 3 THEN {} ELSE {<<lines[2], lines[3], lines[1]>> \o SubSeq(lines, 4, Len(lines))}
Is(format, txt) == [format |-> format, txt |-> txt]
Read(reader, lines, printed, findable) ==
  [reader |-> reader, onlyOmni |-> FALSE, tryHarder |-> TRUE, lines |-> lines, printed |-> printed, findable |-> findable]

Prints == {<<2, 0>>, <<2, 1>>, <<3, -1>>, <<3, 1>>}    \* pixels of a module, gain of a bar

(* DataBar: all groups of characters.                                      *)
OmniData ==                                    \* 6 and 7 digits, linked
  <<<<44123, 4567890, FALSE>>, <<730514, 2662017, TRUE>>, <<0, 0, FALSE>>, <<123456, 7890123, FALSE>>, <<999999, 9999999, TRUE>>,
    <<318240, 6650008, FALSE>>, <<902877, 31415, FALSE>>, <<999999, 9999999, FALSE>>>>
Omni(digits, linked) == [halves |-> Halves(digits, linked), txt |-> Text13(digits)]
OmniSymbols == Made([i \in DOMAIN OmniData |-> Omni(Digits(OmniData[i][1], OmniData[i][2]), OmniData[i][3])])
Plain(s) == Is("DataBarOmni", s.txt)
Stacked(s) == Is("DataBarStk", s.txt)
OmniInputs(s) ==
  {Read("DataBar", Rows(rows, print[1], print[2]), {Plain(s)}, {Plain(s)}) :
     rows \in {<<OmniRow(s.halves)>>, UpsideDown(<<OmniRow(s.halves)>>)}, print \in Prints}
OmniOnlyInputs(s) ==
  {[Read("DataBar", Rows(<<OmniRow(s.halves)>>, 2, 0), {Plain(s)}, {Plain(s)}) EXCEPT !.onlyOmni = only, !.tryHarder = hard] :
     hard \in BOOLEAN, only \in BOOLEAN}
StackedRows(s) == <<TopRow(s.halves), BottomRow(s.halves)>>
StackedInputs(s) ==
  {Read("DataBar", lines, {Stacked(s)}, {Stacked(s)}) :
     lines \in Orders(Rows(StackedRows(s), 2, 0)) \cup Orders(Rows(UpsideDown(StackedRows(s)), 3, 1))}
TornInputs(s) ==
  {Read("DataBar", <<Line(8, TopRow(s.halves), 2, 0), below>>, {}, {}) :
     below \in {Line(800, BottomRow(s.halves), 2, 0), Line(16, BottomRow(s.halves), 5, 0)}}

(* Two symbols beside each other, of which the second one is not looked    *)
(* for in the row, and above each other.                                   *)
TwoInputs(a, b) ==
  LET both == {Plain(a), Plain(b)}
  IN  {Read("DataBar", Rows(<<Beside(OmniRow(a.halves), OmniRow(b.halves))>>, 2, 0), both, {Plain(a)}),
       Read("DataBar", Rows(<<Beside(OmniRow(a.halves), Reverse(OmniRow(b.halves)))>>, 2, 0), both, both),
       Read("DataBar", Rows(<<OmniRow(a.halves), OmniRow(b.halves), OmniRow(a.halves)>>, 2, 0), both, both)}
    \cup {Read("DataBar", lines, {Stacked(a), Stacked(b)}, {Stacked(a), Stacked(b)}) :
            lines \in Orders(Rows(StackedRows(a) \o StackedRows(b), 2, 0))}

(* DataBar Expanded: every encodation method, mode and number of pairs.    *)
Numeric(n) == Expanded(<<AnyAIs>> \o Nums([i \in 1 .. 2 * n |-> (7 * i) % 10]), TRUE, (7 * n + 5 + 12) \div 12)
Weighing(aiBits, gtin, weight, ai, shown) ==
  Expanded(<<Mode(aiBits), gtin, Part(Field(weight, 15), <<>>), Chars(ai), Figures(shown, 6)>>, TRUE, 5)
Dated(method, weight, date, shown, dated) ==
  Expanded(<<Mode(<<0, 0, 1, 1, 1>> \o Field(method, 3)), GTIN12(9, 1, 234567), Part(Field(weight, 20) \o Field(date, 16), <<>>),
             Chars(shown), Figures(weight % 100000, 6), Chars(dated)>>, TRUE, 7)
ExpandedSymbols ==
  {Numeric(n) : n \in {5, 7, 10, 15, 18, 21, 26, 28, 31, 34}} \cup
  {Expanded(<<AnyAIs>> \o Nums(<<2, 1, 1, 2, 3, 4, 5, 6, 7, 8, 9, 0, 1, 2>>) \o <<LastNum(3)>>, TRUE, 5),
   Expanded(<<Mode(<<0, 1, 0, 0>> \o Field(3, 4)), GTIN12(3, 12345, 678901)>> \o <<Num(2, 1), Num(10, 7), LastWithFNC1(5)>>, TRUE, 6),
   Expanded(<<AnyAIs, Num(1, 0), Num(1, 2), ToAlpha, Alpha(65), FNC1Latch, Num(4, 2), Num(2, 1), Num(2, 3)>>, TRUE, 6),
   Expanded(<<AnyAIs, Num(1, 0), ToAlpha, Alpha(90), Part(Field(58, 6), <<42>>), Alpha(52), FNC1Latch, ToNumeric, Num(2, 1),
              LastWithFNC1(7)>>, TRUE, 6),
   Expanded(<<AnyAIs, Num(1, 0), ToAlpha, ToIso, Iso(97), Iso(90), Part(Field(252, 8), <<32>>), Iso(55), FNC1Latch, Num(2, 1),
              ToAlpha, Alpha(48)>>, FALSE, 8),
   Expanded(<<AnyAIs, ToAlpha, ToIso, Iso(122), Part(Field(232, 8), <<33>>), ToIso, Alpha(66), ToNumeric, LastWithFNC1(9)>>, TRUE, 6),
   Weighing(<<0, 0, 1, 0, 0>>, GTIN12(9, 0, 1), 1750, <<51, 49, 48, 51>>, 1750),
   Weighing(<<0, 0, 1, 0, 1>>, GTIN12(9, 999999, 999999), 9999, <<51, 50, 48, 50>>, 9999),
   Weighing(<<0, 0, 1, 0, 1>>, GTIN12(9, 0, 0), 10000, <<51, 50, 48, 51>>, 0),
   Dated(0, 100234, 12 * 384 + 2 * 32 + 31, <<51, 49, 48, 49>>, <<49, 49, 49, 50, 48, 51, 51, 49>>),
   Dated(5, 999999, 38400, <<51, 50, 48, 57>>, <<>>),
   Dated(7, 20, 11 * 32, <<51, 50, 48, 48>>, <<49, 55, 48, 48, 49, 50, 48, 48>>),
   Expanded(<<Mode(<<0, 0, 1, 1, 0, 0, 0, 0>>), GTIN12(9, 1, 234567), Part(Field(2, 2), <<51, 57, 50, 50>>), Num(7, 9), Num(5, 5),
              Num(10, 2), Num(0, 1)>>, TRUE, 7),
   Expanded(<<Mode(<<0, 0, 1, 1, 0, 1, 0, 0>>), GTIN12(9, 1, 234567), Part(Field(0, 2), <<51, 57, 51, 48>>), Part(Field(12, 10), <<>>),
              Figures(12, 3), Num(1, 10), Num(2, 0), LastWithFNC1(1)>>, TRUE, 8)}
PrintedExpanded == {[pairs |-> PairsOf(s.bits), txt |-> s.txt] : s \in ExpandedSymbols}
OneRow(s) == <<ExpandedRow(s.pairs, 1, Len(s.pairs))>>

(* In rows of so many pairs; the even ones mirrored if they are an even    *)
(* number.                                                                 *)
InRowsOf(s, columns) ==
  LET n == Len(s.pairs)
      Row1(r) == ExpandedRow(s.pairs, columns * (r - 1) + 1, IF columns * r < n THEN columns * r ELSE n)
  IN  [r \in 1 .. (n + columns - 1) \div columns |-> IF columns % 2 = 0 /\ r % 2 = 0 THEN Reverse(Row1(r)) ELSE Row1(r)]
ExpandedInputs(s) ==
  {Read("Expanded", Rows(OneRow(s), print[1], print[2]), {Is("DataBarExp", s.txt)}, {Is("DataBarExp", s.txt)}) :
     print \in {<<2, 0>>, <<3, 1>>}}
Stacks(lines) == Orders(Rows(lines, 2, 0)) \cup {Rows(UpsideDown(lines), 2, 0)}
ExpandedStackedInputs(s) ==
  UNION {{Read("Expanded", lines, {Is("DataBarExpStk", s.txt)}, {Is("DataBarExpStk", s.txt)}) : lines \in Stacks(InRowsOf(s, columns))} :
         columns \in {c \in 1 .. 3 : Len(s.pairs) \in {3, 5} /\ c < Len(s.pairs)}}

(* Rows seen several times, in between those of another symbol; and        *)
(* symbols of which a row is missing.                                      *)
FivePairs == CHOOSE x \in {s \in PrintedExpanded : Len(s.pairs) = 5} \X {s \in PrintedExpanded : Len(s.pairs) = 5} : x[1] # x[2]
NoneFindable == {<<1, 1, 2, 2, -1, -3, 1>>, <<3, 3, -2, -2, 1, -1, 3>>}
OneFindable ==
  {<<1, 1, -1, 2, 2, 3, 3>>, <<-1, -1, 1, -2, -2, 2, 3>>, <<-3, 3, 3, 2, 1, 1>>, <<2, 1, 2, 1, 3, 2, 1>>, <<1, 2, 3, 1, 2, 3>>}
BothFindable == {<<1, 2, 3, -1, -2, -3>>, <<-3, -2, -1, 3, 2, 1>>, <<1, -1, 2, -2, 3, -3>>, <<-1, 3, -2, 2, 1, -3, 3, 1, 2>>}
Mixed(a, b, order) == [i \in DOMAIN order |-> IF order[i] > 0 THEN a[order[i]] ELSE b[-order[i]]]
MixedInput(a, b, order, first, second) ==
  Read("Expanded", Rows(Mixed(a, b, order), 2, 0), {first, second},
       {s \in {first, second} : order \in BothFindable \/ (order \in OneFindable /\ s = first)})
MixedInputs(a, b) ==
  {MixedInput(InRowsOf(a, 2), InRowsOf(b, 2), order, Is("DataBarExpStk", a.txt), Is("DataBarExpStk", b.txt)) :
     order \in NoneFindable \cup OneFindable \cup BothFindable}

(* DataBar Limited, also at the edge of the image and with a linkage flag. *)
LimitedData ==
  {<<0, 0, FALSE>>, <<123456, 7890123, FALSE>>, <<199999, 9999999, TRUE>>, <<150000, 31415, FALSE>>, <<87654, 3210987, TRUE>>}
Limited(digits, linked) == [row |-> LimitedRow(digits, linked), txt |-> Text13(digits)]
LimitedSymbols == {Limited(Digits(d[1], d[2]), d[3]) : d \in LimitedData}
LimitedInputs(s) ==
  {[Read("Limited", Rows(rows, print[1], print[2]), {Is("DataBarLtd", s.txt)}, {Is("DataBarLtd", s.txt)}) EXCEPT !.tryHarder = hard] :
     rows \in {<<s.row>>, UpsideDown(<<s.row>>)}, print \in Prints, hard \in BOOLEAN}

(* One edge displaced by a third of a module.                              *)
Displaced(row, i, by) == [row EXCEPT !.widths[i] = @ + by, !.widths[i + 1] = @ - by]
DisplacedInputs(reader, modules, symbol) ==
  {Read(reader, <<Displaced(Line(8, modules, 3, 0), i, by)>>, {symbol}, {}) : i \in 1 .. Len(modules) + 1, by \in {-1, 1}}

OfOmni(s) == OmniInputs(s) \cup OmniOnlyInputs(s) \cup StackedInputs(s) \cup TornInputs(s)
OfTwoOmni(symbols) ==
  TwoInputs(symbols[1], symbols[2]) \cup DisplacedInputs("DataBar", OmniRow(symbols[2].halves), Plain(symbols[2]))
OfExpanded(s) == ExpandedInputs(s) \cup ExpandedStackedInputs(s)
OfTwoExpanded(a, b) ==
  MixedInputs(a, b) \cup DisplacedInputs("Expanded", ExpandedRow(a.pairs, 1, 5), Is("DataBarExp", a.txt))
OfLimited(s) == LimitedInputs(s) \cup DisplacedInputs("Limited", s.row, Is("DataBarLtd", s.txt))
MCInputs ==
  UNION ({OfOmni(s) : s \in ToSet(OmniSymbols)} \cup {OfTwoOmni(symbols) : symbols \in {OmniSymbols}}
           \cup {OfExpanded(s) : s \in PrintedExpanded} \cup {OfTwoExpanded(x[1], x[2]) : x \in {FivePairs}}
           \cup {OfLimited(s) : s \in LimitedSymbols})
=============================================================================
