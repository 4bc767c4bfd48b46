-------------------------------- MODULE DataBar --------------------------------
(***************************************************************************)
(* The three DataBar readers, decodePattern of ODDataBarReader.cpp,        *)
(* ODDataBarExpandedReader.cpp and ODDataBarLimitedReader.cpp, as DoDecode *)
(* (ODReader.cpp) calls them: for each row, forwards and backwards, again  *)
(* and again where tryHarder is set.  What they know of halves and pairs   *)
(* is kept from call to call, from row to row and for both directions.     *)
(*                                                                         *)
(* A row is the sequence of its widths: white, bar, space, ..., bar, white.*)
(* p is where the view of the next call begins; it is on a bar.  How rows  *)
(* are chosen and results are counted and filtered is in LinearScan.       *)
(***************************************************************************)
EXTENDS DataBarCharacters

(* Products that need more than 32 bits, as the digits of numbers.         *)
Numbers == INSTANCE PDFArithmetic

CONSTANT Inputs  \* [reader, onlyOmni, tryHarder, lines, printed, findable]

VARIABLES
  input,
  line,          \* the row being read: its place in input.lines
  bars,          \* its widths, in the direction it is read
  backwards,
  p,             \* of the PatternView; 0 when the row is done
  leftPairs, rightPairs,   \* State of DataBarReader
  allPairs,      \* DBERState: for each finder the pairs seen, with their counts
  reports        \* what the calls returned

vars == <<input, line, bars, backwards, p, leftPairs, rightPairs, allPairs, reports>>

FULL_PAIR_SIZE == 21
HALF_PAIR_SIZE == 15
SYMBOL_LEN == 45

(* The parts of the row that a view at a, of elements counted from 0, has. *)
At(a, i) == bars[a + i]
View(a, offset, size) == SubSeq(bars, a + offset, a + offset + size - 1)
IsInside(a, size) == a + size <= Len(bars) + 1
Finder(a) == View(a, 8, 5)
LeftChar(a) == View(a, 0, 8)
RightChar(a) == View(a, 13, 8)
PixelsInFront(a) == TotalTo(bars, a - 1)
IsCharacterAt(a, offset, modules) == IsCharacter(Total(View(a, offset, 8)), modules, Total(Finder(a)))
FinderAt(a, reversed) ==
  IF reversed THEN IsFinder(At(a, 12), At(a, 11), At(a, 10), At(a, 9), At(a, 8))
  ELSE IsFinder(At(a, 8), At(a, 9), At(a, 10), At(a, 11), At(a, 12))

Remainder(n, m) == IF n < 0 THEN -((-n) % m) ELSE n % m    \* as in C++

NoPair == [finder |-> 0]
SamePair(a, b) == a.finder = b.finder /\ a.left = b.left /\ a.right = b.right
Center(pair) == (pair.xStart + pair.xStop) \div 2
IsStacked(first, last) ==
  Abs(first.y - last.y) > first.xStop - first.xStart \/ last.xStart < Center(first)
LineCount(first, last) ==
  (IF first.count < last.count THEN first.count ELSE last.count) - 1 + (IF IsStacked(first, last) THEN 1 ELSE 0)
-----------------------------------------------------------------------------
(* DataBarReader: left halves begin on a space, right halves on a bar.     *)
IsLeftPair(a) ==
  /\ FinderAt(a, FALSE) /\ IsGuard(At(a, -1), At(a, 11))
  /\ IsCharacterAt(a, 0, 16) /\ IsCharacterAt(a, 13, 15)
IsRightPair(a) ==
  /\ FinderAt(a, TRUE) /\ IsGuard(At(a, 9), At(a, 21))
  /\ IsCharacterAt(a, 0, 15) /\ IsCharacterAt(a, 13, 16)

OmniPair(a, finder, outside, inside) ==
  IF finder = 0 \/ outside = NoCharacter \/ inside = NoCharacter THEN NoPair
  ELSE [left |-> outside, right |-> inside, finder |-> finder, count |-> 1, y |-> input.lines[line].y,
        xStart |-> PixelsInFront(a) - At(a, -1), xStop |-> PixelsInFront(a + 22) - 1 + 2 * At(a, 21)]
ReadOmniPair(a, rightPair) ==
  OmniPair(a, ParseFinderPattern(Finder(a), rightPair, OmniFinders),
           ReadCharacter("outside", IF rightPair THEN RightChar(a) ELSE LeftChar(a), rightPair, 0),
           ReadCharacter("inside", IF rightPair THEN LeftChar(a) ELSE RightChar(a), ~rightPair, 0))
PairAt(a, rightPair) ==
  IF IsInside(a, 22) /\ (IF rightPair THEN IsRightPair(a) ELSE IsLeftPair(a)) THEN ReadOmniPair(a, rightPair) ELSE NoPair

(* Value, of 13 digits at most once the linkage flag is taken off.         *)
HalfValue(pair) == 1597 * pair.left.value + pair.right.value
ValueDigits(l, r) ==
  LET digits == Numbers!InBase(10, 4537077, <<HalfValue(l), HalfValue(r)>>)
  IN  IF Len(digits) < 14 THEN digits
      ELSE IF digits[1] = 1 THEN Tail(digits) ELSE <<digits[1] - 1>> \o Tail(digits)
HalfChecksum(pair) == pair.left.checksum + 4 * pair.right.checksum
ChecksumIsValid(l, r) ==
  LET b == 9 * (Abs(l.finder) - 1) + Abs(r.finder) - 1
      skipped == b - (IF b > 72 THEN 1 ELSE 0)
  IN  /\ Remainder(HalfChecksum(l) + 16 * HalfChecksum(r), 79) = skipped - (IF skipped > 8 THEN 1 ELSE 0)
      /\ Len(ValueDigits(l, r)) <= 13
PositionOfEqualWidths(l, r) ==                   \* mutant: however far away from each other
  LET wl == l.xStop - l.xStart
      wr == r.xStop - r.xStart
  IN  wl > wr \div 2 /\ wr > wl \div 2
PositionIsPlausible(l, r) ==
  LET wl == l.xStop - l.xStart
      wr == r.xStop - r.xStart
      h == Abs(l.y - r.y)
  IN  h < wl /\ h < wr /\ wl > wr \div 2 /\ wr > wl \div 2

(* "01", 13 digits and the check digit.                                    *)
GTINText(digits) ==
  LET txt == [i \in 1 .. 13 |-> 48 + Numbers!Padded(digits, 13)[i]] IN <<48, 49>> \o txt \o <<CheckDigit(txt)>>

InsertPair(pairs, pair) ==                       \* an equal pair keeps its place
  IF pair = NoPair \/ \E q \in pairs : SamePair(q, pair) THEN pairs ELSE pairs \cup {pair}

(* The halves in the row from a on.  Behind a right half the next one      *)
(* looked for is a left half that begins on a bar.                         *)
BehindLeft(a, l) == a + 1 + (IF l = NoPair THEN 0 ELSE FULL_PAIR_SIZE - 1)
BehindRight(b, r) == b + 1 + (IF r = NoPair THEN 0 ELSE FULL_PAIR_SIZE + 2)
RECURSIVE ScanHalves(_, _, _, _)
ScanHalves(a, rightPair, lefts, rights) ==
  IF ~IsInside(a, 22) /\ ~rightPair THEN [at |-> a, lefts |-> lefts, rights |-> rights]
  ELSE LET pair == PairAt(a, rightPair)
       IN  IF rightPair THEN ScanHalves(BehindRight(a, pair), FALSE, lefts, InsertPair(rights, pair))
           ELSE ScanHalves(BehindLeft(a, pair), TRUE, InsertPair(lefts, pair), rights)

(* The non-stacked version: the right half has to follow the left one.     *)
RECURSIVE ScanForBoth(_, _)
ScanForBoth(a, left) ==                          \* left is NoPair until one was found
  IF ~IsInside(a, 22) /\ left = NoPair THEN [at |-> 0]
  ELSE LET pair == PairAt(a, left # NoPair)
       IN  IF left = NoPair THEN ScanForBoth(a + (IF pair = NoPair THEN 2 ELSE FULL_PAIR_SIZE), pair)
           ELSE IF pair # NoPair /\ ChecksumIsValid(left, pair) THEN [at |-> a, left |-> left, right |-> pair]
           ELSE ScanForBoth(a + 2, NoPair)
-----------------------------------------------------------------------------
(* DataBarExpandedReader: pairs laid out left to right begin on a space,   *)
(* the others on a bar.                                                    *)
FINDER_PATTERN_SEQUENCES ==
  <<<<1, -1>>, <<1, -2, 2>>, <<1, -3, 2, -4>>, <<1, -5, 2, -4, 3>>, <<1, -5, 2, -4, 4, -6>>,
    <<1, -5, 2, -4, 5, -6, 6>>, <<1, -1, 2, -2, 3, -3, 4, -4>>, <<1, -1, 2, -2, 3, -3, 4, -5, 5>>,
    <<1, -1, 2, -2, 3, -3, 4, -5, 6, -6>>, <<1, -1, 2, -2, 3, -4, 4, -5, 5, -6, 6>>>>
FINDER_A == 1
VALID_HALF_PAIRS == {-1, 2, -4, 3, -6, 6, 5}

IsL2RPair(a) == FinderAt(a, FALSE) /\ At(a, 10) > 3 * At(a, 12) /\ IsCharacterAt(a, 0, 17)
IsR2LPair(a) == FinderAt(a, TRUE) /\ At(a, 10) > 3 * At(a, 8) /\ IsCharacterAt(a, 0, 17)
SequenceIndex(first) == (first.value \div 211 + 5) \div 2 - 2
ExpandedPair(a, finder, left, right) ==
  LET stop == a + (IF right = NoCharacter THEN 13 ELSE FULL_PAIR_SIZE)
  IN  IF finder = 0 \/ left = NoCharacter THEN NoPair
      ELSE IF finder = FINDER_A /\ SequenceIndex(left) \notin 0 .. 9 THEN NoPair
      ELSE IF right = NoCharacter /\ finder \notin VALID_HALF_PAIRS THEN NoPair
      ELSE [left |-> left, right |-> right, finder |-> finder, count |-> 1, y |-> input.lines[line].y,
            xStart |-> PixelsInFront(a), xStop |-> PixelsInFront(stop) - 1]
PairBeside(a, finder) ==
  ExpandedPair(a, finder, ReadCharacter("expanded", LeftChar(a), FALSE, WeightRow(finder, FALSE)),
               IF IsInside(a + 13, 8) /\ IsCharacterAt(a, 13, 17)
                 THEN ReadCharacter("expanded", RightChar(a), TRUE, WeightRow(finder, TRUE)) ELSE NoCharacter)
ReadExpandedPair(a, reversed) == PairBeside(a, ParseFinderPattern(Finder(a), reversed, ExpandedFinders))

(* The first pair of a row.  One rejected for its guard stays in pair and  *)
(* is taken if none comes after it.                                        *)
IsExpandedPair(a, reversed) == IF reversed THEN IsR2LPair(a) ELSE IsL2RPair(a)
IsTaken(a, reversed, pair) ==
  pair # NoPair /\ (reversed \/ pair.finder # FINDER_A \/ IsGuard(At(a, -1), At(a, 11)))
RECURSIVE FirstPair(_, _, _)
FirstPair(a, reversed, pair) ==
  IF ~IsInside(a, HALF_PAIR_SIZE) THEN [at |-> IF reversed THEN a + 1 ELSE a, pair |-> pair]
  ELSE IF ~IsExpandedPair(a, reversed) THEN FirstPair(a + 1, ~reversed, pair)
  ELSE LET here == ReadExpandedPair(a, reversed)
       IN  IF IsTaken(a, reversed, here) THEN [at |-> a, pair |-> here] ELSE FirstPair(a + 1, ~reversed, here)

(* ReadRowOfPairs from the first pair on; finders alternate in direction.  *)
EndsInGuard(a, pair) == IsGuard(At(a, IF pair.finder < 0 THEN 9 ELSE 11), At(a, 13))
EndsRow(b, pair) == pair = NoPair \/ (pair.right = NoCharacter /\ ~EndsInGuard(b, pair))
RECURSIVE RestOfPairs(_, _)
RestOfPairs(a, pairs) ==
  IF Last(pairs).right = NoCharacter THEN [at |-> a, pairs |-> pairs]
  ELSE LET b == a + FULL_PAIR_SIZE
           next == IF IsInside(b, HALF_PAIR_SIZE) THEN ReadExpandedPair(b, Last(pairs).finder > 0) ELSE NoPair
       IN  IF EndsRow(b, next) THEN [at |-> b, pairs |-> pairs] ELSE RestOfPairs(b, Append(pairs, next))

(* Insert: the lists are kept in the order of how often a pair was seen.   *)
ListOf(all, finder) == IF finder \in DOMAIN all THEN all[finder] ELSE <<>>
WithList(all, finder, list) == [f \in DOMAIN all \cup {finder} |-> IF f = finder THEN list ELSE all[f]]
PlaceIn(list, pair) ==
  IF \E i \in DOMAIN list : SamePair(list[i], pair) THEN CHOOSE i \in DOMAIN list : SamePair(list[i], pair) ELSE 0
SeenAgain(list, i) ==
  LET counted == [list[i] EXCEPT !.count = @ + 1]
      j == CHOOSE j \in 1 .. i :
             /\ \A k \in j .. i - 1 : list[k].count < counted.count
             /\ j = 1 \/ list[j - 1].count >= counted.count
  IN  SubSeq(list, 1, j - 1) \o <<counted>> \o SubSeq(list, j, i - 1) \o SubSeq(list, i + 1, Len(list))
InsertAgain(all, pair) ==                        \* mutant: a pair seen again is a new one
  WithList(all, pair.finder, Append(ListOf(all, pair.finder), pair))
InsertExpanded(all, pair) ==
  LET list == ListOf(all, pair.finder)
      i == PlaceIn(list, pair)
  IN  WithList(all, pair.finder, IF i = 0 THEN Append(list, pair) ELSE SeenAgain(list, i))

(* FindValidSequence: the first, of the two most common ones of each       *)
(* finder, that the check character of the first pair accepts.             *)
ExpandedChecksumIsValid(pairs) ==
  LET sum == Total([i \in DOMAIN pairs |-> pairs[i].left.checksum + pairs[i].right.checksum])
      missing == IF Last(pairs).right = NoCharacter THEN 1 ELSE 0
  IN  pairs[1].left.value = Remainder(sum, 211) + 211 * (2 * Len(pairs) - 4 - missing)
MostCommon(all, finder) == SubSeq(all[finder], 1, IF Len(all[finder]) < 2 THEN Len(all[finder]) ELSE 2)
FirstOf(stacks) ==
  LET found == {k \in DOMAIN stacks : stacks[k] # <<>>}
  IN  IF found = {} THEN <<>> ELSE stacks[CHOOSE k \in found : \A j \in found : k <= j]
RECURSIVE Complete(_, _, _)
Complete(all, stack, rest) ==
  IF rest = <<>> THEN IF ExpandedChecksumIsValid(stack) THEN stack ELSE <<>>
  ELSE IF Head(rest) \notin DOMAIN all THEN <<>>
  ELSE LET tried == SelectSeq(MostCommon(all, Head(rest)), LAMBDA q : q.right # NoCharacter \/ Len(rest) = 1)
       IN  FirstOf([k \in DOMAIN tried |-> Complete(all, Append(stack, tried[k]), Tail(rest))])
FindValidSequence(all) ==
  LET EnoughSeen(first) == Cardinality(DOMAIN all) >= SequenceIndex(first.left) + 2
      From(first) ==
        IF EnoughSeen(first)
          THEN Complete(all, <<first>>, Tail(FINDER_PATTERN_SEQUENCES[SequenceIndex(first.left) + 1])) ELSE <<>>
  IN  FirstOf([i \in DOMAIN all[FINDER_A] |-> From(all[FINDER_A][i])])

RemovePair(all, pair) ==
  LET list == all[pair.finder]
      i == PlaceIn(list, pair)
  IN  IF i = 0 THEN all
      ELSE [all EXCEPT ![pair.finder] =
              IF list[i].count = 1 THEN RemoveAt(list, i) ELSE [list EXCEPT ![i].count = @ - 1]]

Bits12(value) == [i \in 1 .. 12 |-> (value \div 2^(12 - i)) % 2]
BitsOf(pair) == Bits12(pair.left.value) \o (IF pair.right = NoCharacter THEN <<>> ELSE Bits12(pair.right.value))
BuildBitArray(pairs) ==
  Bits12(pairs[1].right.value) \o FlattenSeq([i \in 1 .. Len(pairs) - 1 |-> BitsOf(pairs[i + 1])])
-----------------------------------------------------------------------------
(* DataBarLimitedReader: the whole symbol at once, no state.               *)
CHAR_LEN == 14
CheckChars ==
  <<\h2AAE2, \h2AA72, \h2AA3A, \h2A972, \h2A93A, \h2A8BA, \h2A572, \h2A53A, \h2A4BA,
    \h2A2BA, \h29572, \h2953A, \h294BA, \h292BA, \h28ABA, \h25572, \h2553A, \h254BA,
    \h252BA, \h24ABA, \h22ABA, \h2AB62, \h2AB32, \h2AB1A, \h2A9B2, \h2A99A, \h2A8DA,
    \h2A5B2, \h2A59A, \h2A4DA, \h2A2DA, \h295B2, \h2959A, \h294DA, \h292DA, \h28ADA,
    \h255B2, \h2559A, \h254DA, \h252DA, \h24ADA, \h22ADA, \h2ABA2, \h2AB92, \h2A9D2,
    \h295D2, \h255D2, \h2AD62, \h2AD32, \h2AD1A, \h2ACB2, \h296B2, \h2969A, \h2965A,
    \h2935A, \h28B5A, \h256B2, \h2569A, \h24B5A, \h2B562, \h2B532, \h2B51A, \h2B4B2,
    \h2B49A, \h2B2B2, \h25AB2, \h25A9A, \h25A5A, \h2595A, \h24D5A, \h22D5A, \h2D562,
    \h2D532, \h2D51A, \h2D4B2, \h2D49A, \h2D45A, \h2D2B2, \h2D29A, \h2CAB2, \h35532,
    \h3551A, \h354B2, \h3549A, \h3545A, \h3529A, \h3525A, \h34A9A, \h35592>>

Has26to18Ratio(v26, v18) == 495 * v26 > 676 * v18 /\ 441 * v26 < 676 * v18

(* ToInt: the elements as a binary number that begins with a bar.          *)
ToInt(widths) ==
  LET Bits(i) == IF i % 2 = 1 THEN 2^widths[i] - 1 ELSE 0
      bits == FoldLeft(LAMBDA n, i : n * 2^widths[i] + Bits(i), 0, [i \in DOMAIN widths |-> i])
  IN  IF \E i \in DOMAIN widths : widths[i] < 0 THEN -1 ELSE bits

(* Quiet zones may be cut off by the edge of the image.                    *)
QuietInFront(a, size) == a = 2 \/ At(a, -1) >= size
QuietBehind(a, size) == a + SYMBOL_LEN = Len(bars) \/ At(a, SYMBOL_LEN) >= size
LimitedFrame(a) ==
  LET spaceSize == (At(a, 27) + At(a, 43)) \div 2
      edges == {At(a, 0), At(a, 28), At(a, 44)}
      narrow == CHOOSE m \in edges : \A n \in edges : m <= n
  IN  /\ IsGuard(At(a, 27), At(a, 43))
      /\ QuietInFront(a, spaceSize) /\ QuietBehind(a, 4 * spaceSize)
      /\ \A n \in edges : n <= (narrow * 4) \div 3 + 1
LimitedWidths(a) ==
  LET total == Total(View(a, 1, 3 * CHAR_LEN))              \* of 70 modules
      checkWidth == Total(View(a, 15, CHAR_LEN))
  IN  /\ Has26to18Ratio(Total(View(a, 1, CHAR_LEN)), checkWidth)
      /\ Has26to18Ratio(Total(View(a, 29, CHAR_LEN)), checkWidth)
      /\ a = 2 \/ 70 * At(a, -1) >= total
      /\ a + SYMBOL_LEN = Len(bars) \/ 70 * At(a, SYMBOL_LEN) >= 5 * total

LimitedText(l, r) ==                             \* without the linkage flag
  GTINText(Numbers!InBase(10, 2013571, <<IF l.value >= 1000776 THEN l.value - 1000776 ELSE l.value, r.value>>))
CheckedText(check, left, right) ==
  IF /\ left # NoCharacter /\ right # NoCharacter
     /\ \E i \in DOMAIN CheckChars :
          CheckChars[i] = check /\ Remainder(left.checksum + 20 * right.checksum, 89) = i - 1
    THEN LimitedText(left, right) ELSE NoText
LimitedAt(a) ==
  IF LimitedFrame(a) /\ LimitedWidths(a)
    THEN CheckedText(ToInt(NormalizedFromE2E(View(a, 15, CHAR_LEN), 18, FALSE)),
                     ReadCharacter("limited", View(a, 1, CHAR_LEN), FALSE, 0),
                     ReadCharacter("limited", View(a, 29, CHAR_LEN), FALSE, 0))
    ELSE NoText
RECURSIVE ScanLimited(_)
ScanLimited(a) ==
  IF ~IsInside(a, SYMBOL_LEN) THEN [at |-> 0]
  ELSE LET txt == LimitedAt(a) IN IF txt = NoText THEN ScanLimited(a + 2) ELSE [at |-> a, txt |-> txt]
-----------------------------------------------------------------------------
Row(n) == input.lines[n].widths
Init ==
  /\ input \in Inputs
  /\ line = 1 /\ bars = Row(1) /\ backwards = FALSE /\ p = 2
  /\ leftPairs = {} /\ rightPairs = {} /\ allPairs = [f \in {} |-> <<>>]
  /\ reports = {}

(* Behind a call that ended at a, DoDecode goes on at the next bar.        *)
GoesOnAt(a) ==
  LET next == a + 2 - (a % 2)
  IN  p' = IF a = 0 \/ ~input.tryHarder \/ next > Len(bars) THEN 0 ELSE next
Report(format, txt, lineCount) == reports' = reports \cup {[format |-> format, txt |-> txt, lineCount |-> lineCount]}
Call(reader) == p # 0 /\ input.reader = reader /\ UNCHANGED <<input, line, bars, backwards>>
HalvesUnchanged == UNCHANGED <<leftPairs, rightPairs>>

(* The halves are kept in sets without an order: any two that fit are      *)
(* taken.                                                                  *)
OmniFormat(l, r) == IF Center(l) < r.xStart THEN "DataBarOmni" ELSE "DataBarStk"
TakeHalves(s) ==
  \E l \in s.lefts, r \in s.rights :
    /\ ChecksumIsValid(l, r) /\ PositionIsPlausible(l, r)
    /\ leftPairs' = s.lefts \ {l} /\ rightPairs' = s.rights \ {r}
    /\ Report(OmniFormat(l, r), GTINText(ValueDigits(l, r)), LineCount(l, r))
    /\ GoesOnAt(s.at)
NoHalvesFit(s) ==
  /\ \A l \in s.lefts, r \in s.rights : ChecksumIsValid(l, r) => ~PositionIsPlausible(l, r)
  /\ leftPairs' = s.lefts /\ rightPairs' = s.rights
  /\ GoesOnAt(0) /\ UNCHANGED reports
NonStacked == input.onlyOmni /\ ~input.tryHarder
ReadDataBar ==
  /\ Call("DataBar") /\ ~NonStacked
  /\ \E s \in {ScanHalves(p + 1, FALSE, leftPairs, rightPairs)} : TakeHalves(s) \/ NoHalvesFit(s)
  /\ UNCHANGED allPairs
ReadOmniOnly ==
  /\ Call("DataBar") /\ NonStacked
  /\ \E s \in {ScanForBoth(p + 1, NoPair)} :
       /\ GoesOnAt(s.at)
       /\ IF s.at = 0 THEN UNCHANGED reports ELSE Report("DataBarOmni", GTINText(ValueDigits(s.left, s.right)), 0)
  /\ HalvesUnchanged /\ UNCHANGED allPairs

(* A row of pairs is inserted; the text that any of the pairs seen so far  *)
(* make is taken out.                                                      *)
RowOfPairs(s) == IF s.pair = NoPair THEN [at |-> 0, pairs |-> <<>>] ELSE RestOfPairs(s.at, <<s.pair>>)
WithRow(all, pairs) == LET with == FoldLeft(InsertExpanded, all, pairs) IN WithList(with, FINDER_A, ListOf(with, FINDER_A))
ExpandedFormat(pairs) ==
  IF \E i \in 2 .. Len(pairs) : pairs[i].xStart < Center(pairs[1]) THEN "DataBarExpStk" ELSE "DataBarExp"
TakeSequence(all, pairs, txt) ==
  IF txt = NoText THEN allPairs' = all /\ UNCHANGED reports
  ELSE /\ allPairs' = FoldLeft(RemovePair, all, pairs)
       /\ Report(ExpandedFormat(pairs), txt, LineCount(pairs[1], Last(pairs)))
ReadExpanded ==
  /\ Call("Expanded")
  /\ \E row \in {RowOfPairs(FirstPair(p + 1, FALSE, NoPair))} :
       /\ GoesOnAt(row.at)
       /\ IF row.pairs = <<>> THEN UNCHANGED <<allPairs, reports>>
          ELSE \E all \in {WithRow(allPairs, row.pairs)} : \E pairs \in {FindValidSequence(all)} :
                 TakeSequence(all, pairs, IF pairs = <<>> THEN NoText ELSE DecodeExpandedBits(BuildBitArray(pairs)))
  /\ HalvesUnchanged

ReadLimited ==
  /\ Call("Limited")
  /\ \E s \in {ScanLimited(p)} :
       /\ GoesOnAt(s.at)
       /\ IF s.at = 0 THEN UNCHANGED reports ELSE Report("DataBarLtd", s.txt, 0)
  /\ HalvesUnchanged /\ UNCHANGED allPairs

TurnRow ==
  /\ p = 0 /\ ~backwards
  /\ backwards' = TRUE /\ bars' = Reverse(bars) /\ p' = 2
  /\ UNCHANGED <<input, line, leftPairs, rightPairs, allPairs, reports>>
NextRow ==
  /\ p = 0 /\ backwards /\ line < Len(input.lines)
  /\ line' = line + 1 /\ bars' = Row(line + 1) /\ backwards' = FALSE /\ p' = 2
  /\ UNCHANGED <<input, leftPairs, rightPairs, allPairs, reports>>

Next == ReadDataBar \/ ReadOmniOnly \/ ReadExpanded \/ ReadLimited \/ TurnRow \/ NextRow
Spec == Init /\ [][Next]_vars
-----------------------------------------------------------------------------
Done == p = 0 /\ backwards /\ line = Len(input.lines)
IsReported(s) == \E r \in reports : r.format = s.format /\ r.txt = s.txt

(* What is reported was printed, with this text and in this form: halves   *)
(* and pairs of different symbols, or of a symbol torn apart, seen in      *)
(* different rows and directions, are not put together.                    *)
OnlyPrinted == \A r \in reports : \E s \in input.printed : r.format = s.format /\ r.txt = s.txt

(* When every row has been read in both directions, each symbol that the   *)
(* rows show completely has been reported, whatever the order of the rows  *)
(* and whatever else was seen before its last part.                        *)
PrintedRead == Done => \A s \in input.findable : IsReported(s)
=============================================================================
