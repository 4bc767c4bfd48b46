--------------------------- MODULE DataBarCharacters ---------------------------
(***************************************************************************)
(* The data characters and finder patterns of DataBar, DataBar Expanded    *)
(* and DataBar Limited: ODDataBarCommon.h and .cpp and ReadDataCharacter   *)
(* and ParseFinderPattern of the three readers.                            *)
(*                                                                         *)
(* A view is the sequence of the widths, in pixels, of the bars and spaces *)
(* of a character.  Quotients are rounded in rational arithmetic where the *)
(* code uses floating point.                                               *)
(*                                                                         *)
(* DecodeExpandedBits (ODDataBarExpandedBitDecoder.cpp): the text of the   *)
(* bits of a DataBar Expanded symbol, as a sequence of character codes.  A *)
(* read beyond the end or of what has no meaning throws, and the text is   *)
(* empty then.                                                             *)
(***************************************************************************)
EXTENDS Integers, Sequences, FiniteSets, SequencesExt

TotalTo(f, n) == LET sum[i \in Int] == IF i <= 0 THEN 0 ELSE sum[i - 1] + f[i] IN sum[n]
Total(view) == TotalTo(view, Len(view))
Least(view) == CHOOSE n \in ToSet(view) : \A k \in ToSet(view) : n <= k
Abs(n) == IF n < 0 THEN -n ELSE n
NotNegative(n) == IF n < 0 THEN 0 ELSE n

(* The elements at odd and at even places, the first one being odd.        *)
OddOf(view) == [i \in 1 .. Len(view) \div 2 |-> view[2 * i - 1]]
EvenOf(view) == [i \in 1 .. Len(view) \div 2 |-> view[2 * i]]

(* NormalizedE2EPattern (Pattern.h): edge to similar edge, in modules.     *)
NormalizedE2E(view, mods, reversed) ==
  LET len == Len(view)
      total == Total(view)
      At(i) == IF reversed THEN len - i ELSE i
  IN  [i \in 1 .. len - 2 |-> (2 * mods * (view[At(i)] + view[At(i) + 1]) + total) \div (2 * total)]

(* NormalizedPatternFromE2E: the widths in modules.  Those at odd or those *)
(* at even places have one of a single module.                             *)
MinOddIsOne(mods) == mods \in {15, 17}
AllBut(widths, mods) == Append(widths, mods - Total(widths))
Moved(widths, by) == [i \in DOMAIN widths |-> IF i % 2 = 1 THEN widths[i] - by ELSE widths[i] + by]
WithOneOfOne(widths, mods) ==
  IF MinOddIsOne(mods) THEN Moved(widths, NotNegative(Least(OddOf(widths)) - 1))
  ELSE Moved(widths, -NotNegative(Least(EvenOf(widths)) - 1))
NormalizedFromE2E(view, mods, reversed) ==
  LET first == IF MinOddIsOne(mods) THEN 8 ELSE 1
      most == FoldLeft(LAMBDA w, e : Append(w, e - w[Len(w)]), <<first>>, NormalizedE2E(view, mods, reversed))
  IN  WithOneOfOne(AllBut(most, mods), mods)

(* ReadDataCharacterRaw's test of the sums.                                *)
SumsFit(odd, even, mods) ==
  LET inside == IF mods = 15 THEN 1 ELSE 0
  IN  /\ Total(odd) + Total(even) = mods
      /\ Total(odd) \in 4 + inside .. mods - 4 /\ Total(even) \in 4 .. mods - 4 - inside
      /\ (Total(odd) % 2 = 1) = (mods = 15) /\ (Total(even) % 2 = 1) = (mods = 17)
-----------------------------------------------------------------------------
binomial[n \in 0 .. 60, r \in 0 .. 60] ==
  IF r = 0 \/ r = n THEN 1 ELSE IF n < r THEN 0 ELSE binomial[n - 1, r - 1] + binomial[n - 1, r]
Combins(n, r) == IF n <= r THEN 1 ELSE binomial[n, r]

(* GetValue: how many patterns come before this one.  n is what is left of *)
(* the sum, w the narrower width counted.                                  *)
Counted(width) == IF width < 1 THEN 1 ELSE width
PatternsSkipped(widths, maxWidth, noNarrow, bar, w) ==
  LET n == Total(widths) - TotalTo([b \in 1 .. bar |-> Counted(widths[b])], bar - 1) - w
      after == Len(widths) - bar
      wide == \A b \in 1 .. bar - 1 : widths[b] > 1
      all == Combins(n - 1, after - 1)
      withoutNarrow == IF noNarrow /\ wide /\ w > 1 /\ n - after >= after
                         THEN Combins(n - after - 1, after - 1) ELSE 0
      wider == n - after + 1 - maxWidth
      tooWide == IF after > 1
                   THEN after * TotalTo([m \in 1 .. wider |-> Combins(n - (maxWidth + m) - 1, after - 2)], wider)
                   ELSE IF n > maxWidth THEN 1 ELSE 0
  IN  all - withoutNarrow - tooWide
GetValue(widths, maxWidth, noNarrow) ==
  LET Skipped(bar) ==
        TotalTo([w \in 1 .. widths[bar] |-> PatternsSkipped(widths, maxWidth, noNarrow, bar, w)], widths[bar] - 1)
  IN  Total([bar \in 1 .. Len(widths) - 1 |-> Skipped(bar)])

(* The characters come in groups, by the sum of the widths at odd places   *)
(* (inside characters: at even places): the widest element at odd places,  *)
(* the number of patterns that vary faster, and the first value.           *)
Subsets ==
  [outside |-> [mods |-> 16, sums |-> <<12, 10, 8, 6, 4>>, oddWidest |-> <<8, 6, 4, 3, 1>>,
                total |-> <<1, 10, 34, 70, 126>>, gsum |-> <<0, 161, 961, 2015, 2715>>],
   inside |-> [mods |-> 15, sums |-> <<10, 8, 6, 4>>, oddWidest |-> <<2, 4, 6, 8>>,
               total |-> <<4, 20, 48, 81>>, gsum |-> <<0, 336, 1036, 1516>>],
   expanded |-> [mods |-> 17, sums |-> <<12, 10, 8, 6, 4>>, oddWidest |-> <<7, 5, 4, 3, 1>>,
                 total |-> <<4, 20, 52, 104, 204>>, gsum |-> <<0, 348, 1388, 2948, 3988>>],
   limited |-> [mods |-> 26, sums |-> <<17, 13, 9, 15, 11, 19, 7>>, oddWidest |-> <<6, 5, 3, 5, 4, 8, 1>>,
                total |-> <<28, 728, 6454, 203, 2408, 1, 16632>>,
                gsum |-> <<0, 183064, 820064, 1000776, 1491021, 1979845, 1996939>>]]
OddNotAllWide(kind) == kind \in {"inside", "expanded"}
OddValue(kind, odd, g) == GetValue(odd, Subsets[kind].oddWidest[g], OddNotAllWide(kind))
EvenValue(kind, even, g) == GetValue(even, 9 - Subsets[kind].oddWidest[g], ~OddNotAllWide(kind))
GroupSum(kind, odd, even) == IF kind = "inside" THEN Total(even) ELSE Total(odd)
Group(kind, sum) == CHOOSE g \in DOMAIN Subsets[kind].sums : Subsets[kind].sums[g] = sum
Combined(kind, g, o, e) ==
  Subsets[kind].gsum[g]
    + IF kind = "inside" THEN e * Subsets[kind].total[g] + o ELSE o * Subsets[kind].total[g] + e
ValueInGroup(kind, g, odd, even) == Combined(kind, g, OddValue(kind, odd, g), EvenValue(kind, even, g))
ValueOf(kind, odd, even) == ValueInGroup(kind, Group(kind, GroupSum(kind, odd, even)), odd, even)
-----------------------------------------------------------------------------
NoCharacter == [value |-> -1, checksum |-> 0]
Weighted(widths, base) == Total([i \in DOMAIN widths |-> widths[i] * base^(i - 1)])

(* The weights of DataBar Expanded, powers of 3 modulo 211: eight for each *)
(* place a character can have beside a finder pattern.  The first place is *)
(* that of the check character itself.                                     *)
FirstWeights ==
  <<0, 1, 20, 189, 193, 62, 185, 113, 150, 46, 76, 43, 16, 109, 70, 134, 148, 6, 120, 79, 103, 161, 55, 45>>
WEIGHTS == [row \in 0 .. 23 |-> [i \in 1 .. 8 |-> (FirstWeights[row + 1] * 3^(i - 1)) % 211]]
WeightRow(finder, reversed) ==
  4 * (Abs(finder) - 1) + (IF finder < 0 THEN 2 ELSE 0) + (IF reversed THEN 1 ELSE 0)
ChecksumOf(kind, widths, weightRow) ==
  CASE kind = "limited" -> Weighted(widths, 3)
    [] kind = "expanded" -> Total([i \in DOMAIN widths |-> widths[i] * WEIGHTS[weightRow][i]])
    [] kind \in {"outside", "inside"} -> Weighted(OddOf(widths), 9) + 3 * Weighted(EvenOf(widths), 9)

Fits(kind, odd, even) ==
  IF kind = "limited" THEN Total(odd) \in ToSet(Subsets[kind].sums) ELSE SumsFit(odd, even, Subsets[kind].mods)
CharacterOf(kind, odd, even, checksum) ==
  IF Fits(kind, odd, even) THEN [value |-> ValueOf(kind, odd, even), checksum |-> checksum] ELSE NoCharacter
CharacterOfWidths(kind, widths, weightRow) ==
  CharacterOf(kind, OddOf(widths), EvenOf(widths), ChecksumOf(kind, widths, weightRow))
ReadCharacter(kind, view, reversed, weightRow) ==
  CharacterOfWidths(kind, NormalizedFromE2E(view, Subsets[kind].mods, reversed), weightRow)
-----------------------------------------------------------------------------
(* Finder patterns, by their edge to similar edge measurements.            *)
OmniFinders ==
  <<<<11, 10, 3>>, <<8, 10, 6>>, <<6, 10, 8>>, <<4, 10, 10>>, <<9, 11, 5>>, <<7, 11, 7>>, <<5, 11, 9>>,
    <<6, 11, 8>>, <<4, 12, 10>>>>
ExpandedFinders ==
  <<<<9, 12, 5>>, <<9, 10, 5>>, <<7, 10, 7>>, <<5, 10, 9>>, <<8, 11, 6>>, <<4, 11, 10>>>>

(* ParseFinderPattern: the first of the nearest ones, negative if it lies  *)
(* the other way round; 0 if none is near.                                 *)
ParseFinderPattern(view, reversed, e2ePatterns) ==
  LET e2e == NormalizedE2E(view, 15, reversed)
      error == [i \in DOMAIN e2ePatterns |-> Total([j \in 1 .. 3 |-> Abs(e2ePatterns[i][j] - e2e[j])])]
      near == {i \in DOMAIN error : error[i] <= 1 /\ \A k \in DOMAIN error : error[i] < error[k] \/ (error[i] = error[k] /\ i <= k)}
      found == IF near = {} THEN 0 ELSE CHOOSE i \in near : TRUE
  IN  IF reversed THEN -found ELSE found

(* Of five elements: could it be a finder pattern?                         *)
IsFinder(a, b, c, d, e) ==
  LET w == 2 * (b + c)
      n == d + e
  IN  w + 5 > 9 * n /\ w - 5 < 13 * n /\ a < 2 + 4 * e /\ 4 * a > n
IsGuard(a, b) == a > (b * 3) \div 4 - 2 /\ a < (b * 5) \div 4 + 2
(* Within a tenth of the size that 15 modules of a finder pattern suggest. *)
IsCharacter(width, modules, finderWidth) ==
  10 * Abs(15 * width - modules * finderWidth) < modules * finderWidth
-----------------------------------------------------------------------------
(* The bits of DataBar Expanded.                                           *)
GS == 29
NoText == <<>>

(* BitArrayView::peekBits; at is the first bit not read yet.               *)
Peek(bits, at, n) ==
  LET value[i \in 0 .. n] == IF i = 0 THEN 0 ELSE 2 * value[i - 1] + bits[at + i - 1] IN value[n]
Left(bits, at) == Len(bits) + 1 - at

(* ToString: n digits, of which there may be more.                         *)
Decimal(number, n) == [i \in 1 .. n |-> 48 + ((number \div 10^(n - i)) % 10)]
Shortest(number) == IF number < 10 THEN Decimal(number, 1) ELSE Decimal(number, 2)
CheckDigit(digits) ==                                  \* GTIN::ComputeCheckDigit
  LET len == Len(digits)
      sum[i \in 0 .. len] ==
        IF i = 0 THEN 0 ELSE sum[i - 1] + (digits[i] - 48) * (IF (len - i) % 2 = 0 THEN 3 ELSE 1)
  IN  48 + ((10 - (sum[len] % 10)) % 10)
-----------------------------------------------------------------------------
(* DecodeGeneralPurposeBits.                                               *)
Lut58to62 == <<42, 44, 45, 46, 47>>
Lut232to252 == <<33, 34, 37, 38, 39, 40, 41, 42, 43, 44, 45, 46, 47, 58, 59, 60, 61, 62, 63, 95, 32>>

Reading(at) == [mode |-> "NUMERIC", at |-> at, txt |-> <<>>, thrown |-> FALSE]
Skip(g, n) == [g EXCEPT !.at = @ + n]
Put(g, n, chars) == [g EXCEPT !.at = @ + n, !.txt = @ \o chars]
Latch(g, n, mode) == [g EXCEPT !.at = @ + n, !.mode = mode]
Throw(g) == [g EXCEPT !.thrown = TRUE]

IsPadding(bits, g) ==
  LET left == Left(bits, g.at)
  IN  IF g.mode = "NUMERIC" THEN left < 4
      ELSE left < 5 /\ Peek(bits, g.at, left) = 4 \div 2^(5 - left)

Digit(v) == IF v = 10 THEN GS ELSE 48 + v
DecodeNumeric(bits, g) ==
  LET four == Peek(bits, g.at, 4)
      seven == Peek(bits, g.at, 7) - 8
  IN  IF Left(bits, g.at) < 7
        THEN IF four > 10 THEN Throw(g) ELSE Put(g, 4, IF four > 0 THEN <<Digit(four - 1)>> ELSE <<>>)
      ELSE IF four = 0 THEN Latch(g, 4, "ALPHA")
      ELSE Put(g, 7, <<Digit(seven \div 11), Digit(seven % 11)>>)

(* A generator may put a latch to NUMERIC after the FNC1 that is one.      *)
AfterFNC1(bits, g) == IF Left(bits, g.at) >= 7 /\ Peek(bits, g.at, 7) < 8 THEN Skip(g, 3) ELSE g
Decode5Bits(bits, g) ==
  IF Left(bits, g.at) < 5 THEN Throw(g)
  ELSE LET v == Peek(bits, g.at, 5)
       IN CASE v = 4 -> Latch(g, 5, IF g.mode = "ALPHA" THEN "ISO_IEC_646" ELSE "ALPHA")
            [] v = 15 -> AfterFNC1(bits, [Put(g, 5, <<GS>>) EXCEPT !.mode = "NUMERIC"])
            [] OTHER -> Put(g, 5, <<v + 43>>)

DecodeAlpha(bits, g) ==
  LET v == Peek(bits, g.at, 6)
  IN  IF bits[g.at] = 1
        THEN IF Left(bits, g.at) < 6 THEN Throw(g)
             ELSE IF v < 58 THEN Put(g, 6, <<v + 33>>)
             ELSE IF v < 63 THEN Put(g, 6, <<Lut58to62[v - 57]>>)
             ELSE Throw(g)
      ELSE IF Peek(bits, g.at, 3) = 0 THEN Latch(g, 3, "NUMERIC")
      ELSE Decode5Bits(bits, g)

DecodeISO646(bits, g) ==
  LET left == Left(bits, g.at)
      five == Peek(bits, g.at, 5)
      seven == Peek(bits, g.at, 7)
      eight == Peek(bits, g.at, 8)
  IN  IF Peek(bits, g.at, 3) = 0 THEN Latch(g, 3, "NUMERIC")
      ELSE IF left < 5 THEN Throw(g)
      ELSE IF five < 16 THEN Decode5Bits(bits, g)
      ELSE IF five < 29
        THEN IF left < 7 THEN Throw(g) ELSE Put(g, 7, <<IF seven < 90 THEN seven + 1 ELSE seven + 7>>)
      ELSE IF left < 8 THEN Throw(g)
      ELSE IF eight \in 232 .. 252 THEN Put(g, 8, <<Lut232to252[eight - 231]>>) ELSE Throw(g)

DecodeOne(bits, g) ==
  CASE IsPadding(bits, g) -> Skip(g, Left(bits, g.at))
    [] ~IsPadding(bits, g) /\ g.mode = "NUMERIC" -> DecodeNumeric(bits, g)
    [] ~IsPadding(bits, g) /\ g.mode = "ALPHA" -> DecodeAlpha(bits, g)
    [] ~IsPadding(bits, g) /\ g.mode = "ISO_IEC_646" -> DecodeISO646(bits, g)
RECURSIVE DecodeAll(_, _)
DecodeAll(bits, g) ==
  IF g.thrown \/ Left(bits, g.at) < 3 THEN g ELSE DecodeAll(bits, DecodeOne(bits, g))

(* A trailing FNC1 may have come with the padding.                         *)
WithoutLastFNC1(txt) == IF txt # <<>> /\ Last(txt) = GS THEN Front(txt) ELSE txt
Text(txt) == [txt |-> txt, thrown |-> FALSE]
Thrown == [txt |-> NoText, thrown |-> TRUE]
DecodeGeneralPurposeBits(bits, at) ==
  LET g == DecodeAll(bits, Reading(at)) IN IF g.thrown THEN Thrown ELSE Text(WithoutLastFNC1(g.txt))
-----------------------------------------------------------------------------
(* The encodation methods.  Each part is the text of n bits, or thrown.    *)
Joined(a, b) == IF a.thrown \/ b.thrown THEN Thrown ELSE Text(a.txt \o b.txt)
Number(number, n) == IF number >= 10^n THEN Thrown ELSE Text(Decimal(number, n))

CompressedGTIN(bits, at, first) ==
  LET group == [i \in 0 .. 3 |-> Peek(bits, at + 10 * i, 10)]
      digits == <<first>> \o Decimal(group[0], 3) \o Decimal(group[1], 3) \o Decimal(group[2], 3) \o Decimal(group[3], 3)
  IN  IF Left(bits, at) < 40 THEN Thrown
      ELSE IF \E i \in 0 .. 3 : group[i] > 999 THEN Thrown
      ELSE Text(<<48, 49>> \o digits \o <<CheckDigit(digits)>>)
AI01GTIN(bits, at) == CompressedGTIN(bits, at, 57)

(* The method, its bits 1, 00 and so on behind the linkage bit, and 2 bits *)
(* of symbol size.                                                         *)
AI01AndOtherAIs(bits) ==
  IF Len(bits) < 8 THEN Thrown
  ELSE LET digit == Peek(bits, 5, 4)
       IN  IF digit < 10 THEN Joined(CompressedGTIN(bits, 9, 48 + digit), DecodeGeneralPurposeBits(bits, 49))
           ELSE LET gtin == CompressedGTIN(bits, 9, 48)         \* to_string gives two digits
                    digits == Shortest(digit) \o SubSeq(gtin.txt, 4, 15)
                IN  IF gtin.thrown THEN Thrown
                    ELSE Joined(Text(<<48, 49>> \o digits \o <<CheckDigit(digits)>>),
                                DecodeGeneralPurposeBits(bits, 49))
AnyAI(bits) == IF Len(bits) < 5 THEN Thrown ELSE DecodeGeneralPurposeBits(bits, 6)
AI013103(bits) ==
  IF Len(bits) < 60 THEN Thrown
  ELSE Joined(Joined(AI01GTIN(bits, 6), Text(<<51, 49, 48, 51>>)), Number(Peek(bits, 46, 15), 6))
AI01320x(bits) ==
  IF Len(bits) < 60 THEN Thrown
  ELSE LET weight == Peek(bits, 46, 15)
       IN  Joined(Joined(AI01GTIN(bits, 6), Text(<<51, 50, 48, IF weight < 10000 THEN 50 ELSE 51>>)),
                  Number(IF weight < 10000 THEN weight ELSE weight - 10000, 6))
AI0139yx(bits, y) ==
  LET fixed == IF y = 51 THEN 60 ELSE 50
  IN  IF Len(bits) < fixed THEN Thrown
      ELSE LET header == Joined(AI01GTIN(bits, 9), Text(<<51, 57, y, 48 + Peek(bits, 49, 2)>>))
               currency == IF y = 51 THEN Number(Peek(bits, 51, 10), 3) ELSE Text(<<>>)
               trailer == DecodeGeneralPurposeBits(bits, fixed + 1)
           IN  IF trailer.txt = <<>> THEN Thrown ELSE Joined(Joined(header, currency), trailer)
AI013x0x1x(bits, aiPrefix, dateCode) ==
  IF Len(bits) < 84 THEN Thrown
  ELSE LET weight == Peek(bits, 49, 20)
           date == Peek(bits, 69, 16)
           header == Joined(AI01GTIN(bits, 9), Text(aiPrefix \o Shortest(weight \div 100000)))
           weighed == Joined(header, Number(weight % 100000, 6))
           dated == Joined(Joined(Text(dateCode), Number(date \div 384, 2)),
                           Joined(Number(((date \div 32) % 12) + 1, 2), Number(date % 32, 2)))
       IN  IF date = 38400 THEN weighed ELSE Joined(weighed, dated)

DateCodes == <<<<49, 49>>, <<49, 51>>, <<49, 53>>, <<49, 55>>>>
DecodeExpandedBits(bits) ==
  LET seven == Peek(bits, 2, 7)
      text == IF Len(bits) < 8 THEN Thrown
              ELSE IF bits[2] = 1 THEN AI01AndOtherAIs(bits)
              ELSE IF Peek(bits, 2, 2) = 0 THEN AnyAI(bits)
              ELSE IF Peek(bits, 2, 4) = 4 THEN AI013103(bits)
              ELSE IF Peek(bits, 2, 4) = 5 THEN AI01320x(bits)
              ELSE IF Peek(bits, 2, 5) = 12 THEN AI0139yx(bits, 50)
              ELSE IF Peek(bits, 2, 5) = 13 THEN AI0139yx(bits, 51)
              ELSE IF seven >= 56
                THEN AI013x0x1x(bits, <<51, 49 + (seven % 2), 48>>, DateCodes[(seven - 56) \div 2 + 1])
              ELSE Thrown
  IN  text.txt
=============================================================================
