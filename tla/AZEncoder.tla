------------------------------ MODULE AZEncoder ------------------------------
(***************************************************************************)
(* The text of an Aztec symbol becomes bits and these a symbol.            *)
(*                                                                         *)
(* HighLevelEncoder::Encode (AZHighLevelEncoder.cpp, AZToken.cpp): for     *)
(* every prefix of the text a list of encodings is kept, each with the     *)
(* mode it ends in, the length of an unfinished binary shift and the       *)
(* number of bits; those another one is better than are dropped.           *)
(*                                                                         *)
(* The symbol as the encoder (AZEncoder.cpp) makes it and as the detector  *)
(* and decoder (AZDetector.cpp, AZDecoder.cpp) see it: the words the bits  *)
(* are stuffed into, the sizes, the mode message and the places of all of  *)
(* them.                                                                   *)
(***************************************************************************)
EXTENDS Integers, Sequences, FiniteSets, SequencesExt, ReedSolomon

VARIABLES
  text,
  index,            \* characters encoded
  states,           \* the encodings of this prefix
  bits              \* those of the shortest one, at the end
encoderVars == <<text, index, states, bits>>

BitsOf(value, n) == [i \in 1 .. n |-> (value \div 2^(n - i)) % 2]
Sum(s) == FoldLeft(LAMBDA sum, n : sum + n, 0, s)
-----------------------------------------------------------------------------
(* The tables.  A token is a value of -count bits, or a binary shift of    *)
(* count characters from `value` on.                                       *)
MODES == <<"UPPER", "LOWER", "DIGIT", "MIXED", "PUNCT">>
SizeIn(mode) == IF mode = "DIGIT" THEN 4 ELSE 5
Simple(value, n) == [value |-> value, count |-> -n]
BinaryShift(first, n) == [value |-> first, count |-> n]

LatchVia(from, codes) ==                     \* modes and the codes that leave them
  [k \in DOMAIN codes |-> Simple(codes[k], SizeIn(from[k]))]
LATCH_TABLE ==
  LET U == "UPPER"  L == "LOWER"  D == "DIGIT"  M == "MIXED"  P == "PUNCT"
      From(u, l, d, m, p) == [UPPER |-> u, LOWER |-> l, DIGIT |-> d, MIXED |-> m, PUNCT |-> p]
      here == <<>>
  IN  [UPPER |-> From(here, LatchVia(<<U>>, <<28>>), LatchVia(<<U>>, <<30>>),
                      LatchVia(<<U>>, <<29>>), LatchVia(<<U, M>>, <<29, 30>>)),
       LOWER |-> From(LatchVia(<<L, D>>, <<30, 14>>), here, LatchVia(<<L>>, <<30>>),
                      LatchVia(<<L>>, <<29>>), LatchVia(<<L, M>>, <<29, 30>>)),
       DIGIT |-> From(LatchVia(<<D>>, <<14>>), LatchVia(<<D, U>>, <<14, 28>>), here,
                      LatchVia(<<D, U>>, <<14, 29>>), LatchVia(<<D, U, M>>, <<14, 29, 30>>)),
       MIXED |-> From(LatchVia(<<M>>, <<29>>), LatchVia(<<M>>, <<28>>), LatchVia(<<M, U>>, <<29, 30>>),
                      here, LatchVia(<<M>>, <<30>>)),
       PUNCT |-> From(LatchVia(<<P>>, <<31>>), LatchVia(<<P, U>>, <<31, 28>>), LatchVia(<<P, U>>, <<31, 30>>),
                      LatchVia(<<P, U>>, <<31, 29>>), here)]
BitCountOf(tokens) == Sum([k \in DOMAIN tokens |-> -tokens[k].count])

(* Shifts, from a mode to another one.                                     *)
SHIFTS == [UPPER |-> [PUNCT |-> 0], LOWER |-> [PUNCT |-> 0, UPPER |-> 28],
           MIXED |-> [PUNCT |-> 0], DIGIT |-> [PUNCT |-> 0, UPPER |-> 15], PUNCT |-> <<>>]

MixedTable == <<0, 32, 1, 2, 3, 4, 5, 6, 7, 8, 9, 10, 11, 12, 13, 27, 28, 29, 30, 31,
                64, 92, 94, 95, 96, 124, 126, 127>>
PunctTable == <<0, 13, 0, 0, 0, 0, 33, 39, 35, 36, 37, 38, 39, 40, 41, 42, 43, 44, 45, 46,
                47, 58, 59, 60, 61, 62, 63, 91, 93, 123, 125>>
LastAt(table, c) ==                          \* the last entry counts
  LET at == {i \in DOMAIN table : table[i] = c /\ c > 0}
  IN  IF at = {} THEN 0 ELSE (CHOOSE i \in at : \A j \in at : j <= i) - 1
CHAR_MAP ==
  [mode \in ToSet(MODES) |-> [c \in 0 .. 255 |->
     CASE mode = "MIXED" -> LastAt(MixedTable, c)
       [] mode = "PUNCT" -> LastAt(PunctTable, c)
       [] mode # "MIXED" /\ mode # "PUNCT" /\ c = 32 -> 1
       [] mode = "UPPER" /\ c \in 65 .. 90 -> c - 63
       [] mode = "LOWER" /\ c \in 97 .. 122 -> c - 95
       [] mode = "DIGIT" /\ c \in 48 .. 57 -> c - 46
       [] mode = "DIGIT" /\ c = 44 -> 12
       [] mode = "DIGIT" /\ c = 46 -> 13
       [] OTHER -> 0]]
-----------------------------------------------------------------------------
(* EncodingState and the ways to go on from one.                           *)
StartState == [tokens |-> <<>>, mode |-> "UPPER", binaryShiftByteCount |-> 0, bitCount |-> 0]

LatchTo(s, mode) ==
  [s EXCEPT !.tokens = @ \o LATCH_TABLE[s.mode][mode], !.mode = mode,
            !.bitCount = @ + BitCountOf(LATCH_TABLE[s.mode][mode])]
LatchAndAppend(s, mode, value) ==
  LET there == LatchTo(s, mode)
  IN  [there EXCEPT !.tokens = Append(@, Simple(value, SizeIn(mode))),
                    !.binaryShiftByteCount = 0, !.bitCount = @ + SizeIn(mode)]

ShiftAndAppend(s, mode, value) ==
  [s EXCEPT !.tokens = @ \o <<Simple(SHIFTS[s.mode][mode], SizeIn(s.mode)), Simple(value, 5)>>,
            !.binaryShiftByteCount = 0, !.bitCount = @ + SizeIn(s.mode) + 5]

EndBinaryShift(s, i) ==
  IF s.binaryShiftByteCount = 0 THEN s
  ELSE [s EXCEPT !.tokens = Append(@, BinaryShift(i - s.binaryShiftByteCount, s.binaryShiftByteCount)),
                 !.binaryShiftByteCount = 0]

(* One header of 10 bits up to 31 characters, a second up to 62, one of 21 *)
(* for more.                                                               *)
BinaryDelta(n) == IF n \in {0, 31} THEN 18 ELSE IF n = 62 THEN 9 ELSE 8

AddBinaryShiftChar(s, i) ==
  LET there == IF s.mode \in {"PUNCT", "DIGIT"} THEN LatchTo(s, "UPPER") ELSE s
      longer == [there EXCEPT !.binaryShiftByteCount = @ + 1,
                              !.bitCount = @ + BinaryDelta(s.binaryShiftByteCount)]
  IN  IF longer.binaryShiftByteCount = 2047 + 31 THEN EndBinaryShift(longer, i + 1) ELSE longer

CalculateBinaryShiftCost(s) ==
  CASE s.binaryShiftByteCount > 62 -> 21
    [] s.binaryShiftByteCount \in 32 .. 62 -> 20
    [] s.binaryShiftByteCount \in 1 .. 31 -> 10
    [] s.binaryShiftByteCount = 0 -> 0

IsBetterThanOrEqualTo(s, other) ==
  LET n == s.binaryShiftByteCount
      m == other.binaryShiftByteCount
      extra == IF n < m THEN CalculateBinaryShiftCost(other) - CalculateBinaryShiftCost(s)
               ELSE IF n > m /\ m > 0 THEN 10 ELSE 0
  IN  s.bitCount + BitCountOf(LATCH_TABLE[s.mode][other.mode]) + extra <= other.bitCount

(* Those it is better than are erased up to the first one better than it.  *)
AddState(list, s) ==
  LET better == {k \in DOMAIN list : IsBetterThanOrEqualTo(list[k], s)}
      first == IF better = {} THEN Len(list) + 1 ELSE CHOOSE k \in better : \A j \in better : k <= j
      Kept(o) == ~IsBetterThanOrEqualTo(s, o)
  IN  SelectSeq(SubSeq(list, 1, first - 1), Kept) \o SubSeq(list, first, Len(list))
      \o IF better = {} THEN <<s>> ELSE <<>>
SimplifyStates(list) == FoldLeft(AddState, <<>>, list)
-----------------------------------------------------------------------------
(* UpdateStateForChar, UpdateStateForPair; i characters come before.       *)
If(condition, s) == IF condition THEN <<s>> ELSE <<>>

ForChar(s, i) ==
  LET c == text[i + 1]
      inCurrent == CHAR_MAP[s.mode][c] > 0
      ended == EndBinaryShift(s, i)
      InMode(mode) ==
        IF CHAR_MAP[mode][c] = 0 THEN <<>>
        ELSE If(~inCurrent \/ mode \in {s.mode, "DIGIT"}, LatchAndAppend(ended, mode, CHAR_MAP[mode][c]))
             \o IF ~inCurrent /\ mode \in DOMAIN SHIFTS[s.mode]
                  THEN <<ShiftAndAppend(ended, mode, CHAR_MAP[mode][c])>> ELSE <<>>
  IN  InMode("UPPER") \o InMode("LOWER") \o InMode("DIGIT") \o InMode("MIXED") \o InMode("PUNCT")
      \o If(s.binaryShiftByteCount > 0 \/ ~inCurrent, AddBinaryShiftChar(s, i))

ForPair(s, i, pairCode) ==
  LET ended == EndBinaryShift(s, i)
  IN  <<LatchAndAppend(ended, "PUNCT", pairCode)>>
      \o (IF s.mode # "PUNCT" THEN <<ShiftAndAppend(ended, "PUNCT", pairCode)>> ELSE <<>>)
      \o If(pairCode \in {3, 4},
            LatchAndAppend(LatchAndAppend(ended, "DIGIT", 16 - pairCode), "DIGIT", 1))
      \o If(s.binaryShiftByteCount > 0, AddBinaryShiftChar(AddBinaryShiftChar(s, i), i + 1))

PairCode(i) ==
  IF i + 2 > Len(text) THEN 0
  ELSE CASE <<text[i + 1], text[i + 2]>> = <<13, 10>> -> 2
         [] <<text[i + 1], text[i + 2]>> = <<46, 32>> -> 3
         [] <<text[i + 1], text[i + 2]>> = <<44, 32>> -> 4
         [] <<text[i + 1], text[i + 2]>> = <<58, 32>> -> 5
         [] OTHER -> 0
-----------------------------------------------------------------------------
(* Token::appendTo.                                                        *)
HeaderAt(i, n) ==                            \* before character i of n
  CASE i = 0 /\ n > 62 -> BitsOf(31, 5) \o BitsOf(n - 31, 16)
    [] i = 0 /\ n <= 62 -> BitsOf(31, 5) \o BitsOf(IF n < 31 THEN n ELSE 31, 5)
    [] i = 31 /\ n <= 62 -> BitsOf(31, 5) \o BitsOf(n - 31, 5)
    [] OTHER -> <<>>
AppendTo(sofar, token) ==
  IF token.count < 0 THEN sofar \o BitsOf(token.value, -token.count)
  ELSE FoldLeft(LAMBDA b, i : b \o HeaderAt(i - 1, token.count) \o BitsOf(text[token.value + i], 8),
                sofar, [i \in 1 .. token.count |-> i])
ToBitArray(s) == FoldLeft(AppendTo, <<>>, EndBinaryShift(s, Len(text)).tokens)

EncoderInit == index = 0 /\ states = <<StartState>> /\ bits = <<>>

EncodePair ==
  /\ index < Len(text) /\ PairCode(index) > 0
  /\ states' = SimplifyStates(FlattenSeq([k \in DOMAIN states |-> ForPair(states[k], index, PairCode(index))]))
  /\ index' = index + 2 /\ UNCHANGED <<text, bits>>

EncodeChar ==
  /\ index < Len(text) /\ PairCode(index) = 0
  /\ states' = SimplifyStates(FlattenSeq([k \in DOMAIN states |-> ForChar(states[k], index)]))
  /\ index' = index + 1 /\ UNCHANGED <<text, bits>>

(* The first of the shortest.                                              *)
IsShortest(k) ==
  \A j \in DOMAIN states :
    IF j < k THEN states[k].bitCount < states[j].bitCount ELSE states[k].bitCount <= states[j].bitCount
TakeShortest ==
  /\ index = Len(text)
  /\ \E k \in DOMAIN states : IsShortest(k) /\ states' = <<states[k]>> /\ bits' = ToBitArray(states[k])
  /\ UNCHANGED <<text, index>>
-----------------------------------------------------------------------------
(* From the bits to the words of a symbol.                                 *)
ToInt(bs) == FoldLeft(LAMBDA v, b : 2 * v + b, 0, bs)
Words(bs, size) ==                           \* ToInts
  [k \in 1 .. Len(bs) \div size |-> ToInt(SubSeq(bs, (k - 1) * size + 1, k * size))]
-----------------------------------------------------------------------------
(* Sizes.                                                                  *)
WORD_SIZE == <<6, 6, 8, 8, 8, 8, 8, 8, 10, 10, 10, 10, 10, 10, 10, 10,
               10, 10, 10, 10, 10, 10, 12, 12, 12, 12, 12, 12, 12, 12, 12, 12>>
TotalBitsInLayer(layers, compact) == ((IF compact THEN 88 ELSE 112) + 16 * layers) * layers
MAX_NB_BITS == 32
MAX_NB_BITS_COMPACT == 4
DEFAULT_AZTEC_LAYERS == 0
AZTEC_RUNE_LAYERS == 255
Size(compact, layers) == [compact |-> compact, layers |-> layers]
Candidate(i) == IF i <= 3 THEN Size(TRUE, i + 1) ELSE Size(FALSE, i)
AllSizes == {Size(TRUE, n) : n \in 1 .. 4} \cup {Size(FALSE, n) : n \in 1 .. 32}
TotalBits(s) == TotalBitsInLayer(s.layers, s.compact)
UsableBits(s) == TotalBits(s) - (TotalBits(s) % WORD_SIZE[s.layers])
EccBits(n, percent) == (n * percent) \div 100 + 11

(* StuffBits: a word whose first bits are all equal ends with the other    *)
(* bit, which is no bit of the text; the last one is filled with ones.     *)
StuffedFrom(bs, size, i, taken) ==           \* the word after i bits, and the bits it takes
  LET Bit(k) == IF i + k <= Len(bs) THEN bs[i + k] ELSE 1
      AllAre(bit) == \A k \in 1 .. size - 1 : Bit(k) = bit
  IN  CASE AllAre(1) -> [word |-> 2^size - 2, bits |-> taken]
        [] AllAre(0) -> [word |-> 1, bits |-> taken]
        [] OTHER -> [word |-> ToInt([k \in 1 .. size |-> Bit(k)]), bits |-> size]
StuffFromWhole(bs, size, i) == StuffedFrom(bs, size, i, size)     \* mutant: the bit replaced is lost
StuffFrom(bs, size, i) == StuffedFrom(bs, size, i, size - 1)
StuffWord(bs, size, s) ==
  IF s.taken >= Len(bs) THEN s
  ELSE LET next == StuffFrom(bs, size, s.taken)
       IN  [taken |-> s.taken + next.bits, words |-> Append(s.words, next.word)]
StuffBits(bs, size) ==
  FoldLeft(LAMBDA s, k : StuffWord(bs, size, s), [taken |-> 0, words |-> <<>>],
           [k \in 1 .. Len(bs) \div (size - 1) + 1 |-> k]).words

(* Encode's choice for bits of this length; sizes not smaller in compact   *)
(* form are skipped.                                                       *)
Fits(bs, percent, s) ==
  LET n == Len(StuffBits(bs, WORD_SIZE[s.layers])) * WORD_SIZE[s.layers]
  IN  /\ s.compact => n <= WORD_SIZE[s.layers] * 64
      /\ n + EccBits(Len(bs), percent) <= UsableBits(s)
Suits(bs, percent, i) ==
  /\ Len(bs) + EccBits(Len(bs), percent) <= TotalBits(Candidate(i))
  /\ Fits(bs, percent, Candidate(i))
FirstSuiting(bs, percent) ==                 \* a set of at most one size
  FoldLeft(LAMBDA found, i : IF found = {} /\ Suits(bs, percent, i) THEN {Candidate(i)} ELSE found,
           {}, [i \in 1 .. MAX_NB_BITS + 1 |-> i - 1])
Legal(s) == s.layers <= (IF s.compact THEN MAX_NB_BITS_COMPACT ELSE MAX_NB_BITS)
-----------------------------------------------------------------------------
(* The decoder's own word sizes and its unstuffing; a word of equal bits   *)
(* gives the whole message up.                                             *)
CodewordSize(layers) ==
  CASE layers <= 2 -> 6 [] layers \in 3 .. 8 -> 8 [] layers \in 9 .. 22 -> 10 [] layers > 22 -> 12
NumCodewords(s) == TotalBits(s) \div CodewordSize(s.layers)

Unstuffed(word, size) ==
  CASE word = 1 -> [k \in 1 .. size - 1 |-> 0]
    [] word = 2^size - 2 -> [k \in 1 .. size - 1 |-> 1]
    [] OTHER -> BitsOf(word, size)
IsUniform(word, size) == word \in {0, 2^size - 1}
CorrectedBits(words, size) ==
  IF \E k \in DOMAIN words : IsUniform(words[k], size) THEN <<>>
  ELSE FoldLeft(LAMBDA b, w : b \o Unstuffed(w, size), <<>>, words)
-----------------------------------------------------------------------------
(* The mode message.                                                       *)
NumModeWords(compact) == IF compact THEN 7 ELSE 10
NumModeData(compact) == IF compact THEN 2 ELSE 4
WithCheckWords(data, compact) ==             \* GenerateCheckWords, of words of 4 bits
  ReedSolomonEncode(AztecParam, Words(data, 4), NumModeWords(compact) - NumModeData(compact))
GenerateModeMessage(s, numWords) ==
  WithCheckWords(IF s.compact THEN BitsOf(s.layers - 1, 2) \o BitsOf(numWords - 1, 6)
                 ELSE BitsOf(s.layers - 1, 5) \o BitsOf(numWords - 1, 11), s.compact)
Flipped(words) == FoldLeft(LAMBDA flipped, w : Append(flipped, XOR(w, 10)), <<>>, words)
GenerateRuneMessage(byte) == Flipped(WithCheckWords(BitsOf(byte, 8), TRUE))

(* ModeMessage and ExtractParameters; compact ones may be those of a rune. *)
DataOfMode(message, compact) ==
  FoldLeft(LAMBDA v, w : 16 * v + w, 0, SubSeq(message, 1, NumModeData(compact)))
NoMode == [read |-> FALSE, size |-> Size(TRUE, 0), numWords |-> 0, readerInit |-> FALSE, rune |-> -1]
ExtractParameters(message, compact) ==
  LET unit == IF compact THEN 64 ELSE 2048   \* of the number of layers
      layers == message \div unit + 1
      words == message % unit
      init == words >= unit \div 2 /\ layers <= (IF compact THEN 1 ELSE 22)
  IN  [read |-> TRUE, size |-> Size(compact, layers), readerInit |-> init, rune |-> -1,
       numWords |-> (IF init THEN words - unit \div 2 ELSE words) + 1]
FromRune(rune) ==
  IF rune.outcome = "corrected" THEN [NoMode EXCEPT !.read = TRUE, !.rune = DataOfMode(rune.message, TRUE)]
  ELSE NoMode
FromPlain(plain, compact) ==                 \* a rune is tried with the words as they were left
  IF plain.outcome = "corrected" THEN ExtractParameters(DataOfMode(plain.message, compact), compact)
  ELSE IF compact THEN FromRune(ReedSolomonDecode(AztecParam, Flipped(plain.message), 5))
  ELSE NoMode
ModeMessage(words, compact) ==
  FromPlain(ReedSolomonDecode(AztecParam, words, NumModeWords(compact) - NumModeData(compact)), compact)
-----------------------------------------------------------------------------
(* The layout: places are <<column, row>>, as matrix.set(x, y).            *)
BaseMatrixSize(s) == (IF s.compact THEN 11 ELSE 14) + s.layers * 4
MatrixSize(s) ==
  IF s.compact THEN BaseMatrixSize(s)
  ELSE BaseMatrixSize(s) + 1 + 2 * ((BaseMatrixSize(s) \div 2 - 1) \div 15)
SampledSize(s) ==                            \* dim in Detect
  IF s.compact THEN 4 * s.layers + 11 ELSE 4 * s.layers + 2 * ((2 * s.layers + 6) \div 15) + 15
Center(s) == MatrixSize(s) \div 2

AlignmentMapBy16(s) ==                       \* mutant: lines counted as modules
  LET half == BaseMatrixSize(s) \div 2
      Offset(i) == i + i \div 16
  IN  [n \in 0 .. BaseMatrixSize(s) - 1 |->
         IF s.compact THEN n
         ELSE IF n < half THEN Center(s) - Offset(half - n - 1) - 1
                          ELSE Center(s) + Offset(n - half) + 1]
AlignmentMap(s) ==
  LET half == BaseMatrixSize(s) \div 2
      Offset(i) == i + i \div 15
  IN  [n \in 0 .. BaseMatrixSize(s) - 1 |->
         IF s.compact THEN n
         ELSE IF n < half THEN Center(s) - Offset(half - n - 1) - 1
                          ELSE Center(s) + Offset(n - half) + 1]
RowSize(s, i) == (s.layers - i) * 4 + (IF s.compact THEN 9 ELSE 12)

(* The module bit `side * 2 * rowSize + 2 * j + k` of layer i is drawn at, *)
(* and the one ExtractBits takes it from.                                  *)
DrawnAt(s, map, i, side, j, k) ==
  LET last == BaseMatrixSize(s) - 1
  IN  CASE side = 0 -> <<map[i * 2 + k], map[i * 2 + j]>>
        [] side = 1 -> <<map[i * 2 + j], map[last - i * 2 - k]>>
        [] side = 2 -> <<map[last - i * 2 - k], map[last - i * 2 - j]>>
        [] side = 3 -> <<map[last - i * 2 - j], map[i * 2 + k]>>
ExtractedAt(s, map, i, side, j, k) ==
  LET low == i * 2
      high == BaseMatrixSize(s) - 1 - low
  IN  CASE side = 0 -> <<map[low + k], map[low + j]>>
        [] side = 1 -> <<map[low + j], map[high - k]>>
        [] side = 2 -> <<map[high - k], map[high - j]>>
        [] side = 3 -> <<map[high - j], map[low + k]>>
Places(s) == {p \in (0 .. s.layers - 1) \X (0 .. 3) \X (0 .. RowSize(s, 0) - 1) \X {0, 1} :
                p[3] < RowSize(s, p[1])}

(* Bit n of the mode message, drawn by DrawModeMessage and read around     *)
(* the corners by ModeMessage.                                             *)
ModeSide(s) == IF s.compact THEN 7 ELSE 10
ModeDrawnAt(s, n) ==
  LET c == Center(s)
      r == IF s.compact THEN 5 ELSE 7
      side == n \div ModeSide(s)
      i == IF side < 2 THEN n % ModeSide(s) ELSE ModeSide(s) - 1 - (n % ModeSide(s))
      offset == IF s.compact THEN c - 3 + i ELSE c - 5 + i + i \div 5
  IN  CASE side = 0 -> <<offset, c - r>> [] side = 1 -> <<c + r, offset>>
        [] side = 2 -> <<offset, c + r>> [] side = 3 -> <<c - r, offset>>
ModeReadAt(s, n) ==
  LET r == IF s.compact THEN 5 ELSE 7
      d == << <<-1, -1>>, <<1, -1>>, <<1, 1>>, <<-1, 1>> >>[n \div ModeSide(s) + 1]
      next == IF d[1] = d[2] THEN <<-d[1], 0>> ELSE <<0, -d[2]>>
      at == (n % ModeSide(s)) + 2
      step == IF ~s.compact /\ at >= 7 THEN at + 1 ELSE at
  IN  <<Center(s) + r * d[1] + step * next[1], Center(s) + r * d[2] + step * next[2]>>

(* DrawBullsEye and the alignment marks.                                   *)
Distance(s, p) ==
  LET Abs(n) == IF n < 0 THEN -n ELSE n
      dx == Abs(p[1] - Center(s))
      dy == Abs(p[2] - Center(s))
  IN  IF dx > dy THEN dx ELSE dy
CoreRadius(s) == IF s.compact THEN 5 ELSE 7
Square(s) == (0 .. MatrixSize(s) - 1) \X (0 .. MatrixSize(s) - 1)
Rings(s) == {p \in Square(s) : Distance(s, p) % 2 = 0 /\ Distance(s, p) < CoreRadius(s)}
OrientationMarks(s) ==
  LET c == Center(s)  r == CoreRadius(s)
  IN  {<<c - r, c - r>>, <<c - r + 1, c - r>>, <<c - r, c - r + 1>>,
       <<c + r, c - r>>, <<c + r, c - r + 1>>, <<c + r, c + r - 1>>}
LeftOut(s) ==                                \* by the map, as distances from the center
  IF s.compact THEN {} ELSE {16 * n : n \in 0 .. (BaseMatrixSize(s) \div 2 - 1) \div 15}
GridLines(s) ==                              \* those with marks
  IF s.compact THEN {} ELSE {16 * n : n \in 0 .. (BaseMatrixSize(s) \div 2 - 2) \div 15}
OnGrid(s, p) ==
  \E j \in LeftOut(s) : \E q \in {p[1], p[2]} : q \in {Center(s) - j, Center(s) + j}
AlignmentMarks(s) ==
  {p \in Square(s) :
     \E j \in GridLines(s) :
       \/ p[1] \in {Center(s) - j, Center(s) + j} /\ p[2] % 2 = Center(s) % 2
       \/ p[2] \in {Center(s) - j, Center(s) + j} /\ p[1] % 2 = Center(s) % 2}
=============================================================================
