------------------------- MODULE PDFHighLevelEncoder -------------------------
(***************************************************************************)
(* HighLevelEncoder::EncodeHighLevel (PDFHighLevelEncoder.cpp): the text   *)
(* is cut into runs of digits, of text and of bytes, each of which is      *)
(* compacted in its own way behind a latch where the mode changes.         *)
(***************************************************************************)
EXTENDS PDFArithmetic

VARIABLES
  msg,              \* the characters to encode
  p,                \* those encoded
  encodingMode, textSubMode,
  highLevel
encoderVars == <<msg, p, encodingMode, textSubMode, highLevel>>

LATCH_TO_TEXT == 900
LATCH_TO_BYTE_PADDED == 901
LATCH_TO_NUMERIC == 902
SHIFT_TO_BYTE == 913
LATCH_TO_BYTE == 924
ECI_USER_DEFINED == 925
ECI_GENERAL_PURPOSE == 926
ECI_CHARSET == 927

(* The numbers of two submodes, and what has none.                         *)
MIXED_CODES == <<48, 49, 50, 51, 52, 53, 54, 55, 56, 57, 38, 13, 9, 44, 58, 35, 45, 46, 36, 47, 43, 37, 42, 61, 94,
                 0, 32>>
PUNCTUATION_CODES == <<59, 60, 62, 64, 91, 92, 93, 95, 96, 126, 33, 13, 9, 44, 58, 10, 45, 46, 36, 47, 34, 124, 42,
                       40, 41, 63, 123, 125, 39>>
Inverse7(codes) ==
  [ch \in 0 .. 127 |-> IF ch # 0 /\ ch \in ToSet(codes) THEN (CHOOSE i \in DOMAIN codes : codes[i] = ch) - 1 ELSE -1]
MIXED == Inverse7(MIXED_CODES)
PUNCTUATION == Inverse7(PUNCTUATION_CODES)

IsDigit(ch) == ch \in 48 .. 57
IsAlphaUpper(ch) == ch = 32 \/ ch \in 65 .. 90
IsAlphaLower(ch) == ch = 32 \/ ch \in 97 .. 122
IsMixed(ch) == ch \in 0 .. 127 /\ MIXED[ch] # -1
IsPunctuation(ch) == ch \in 0 .. 127 /\ PUNCTUATION[ch] # -1
IsText(ch) == ch \in {9, 10, 13} \cup 32 .. 126

EncodingECI(eci) ==
  CASE eci < 900 -> <<ECI_CHARSET, eci>>
    [] eci >= 900 /\ eci < 810900 -> <<ECI_GENERAL_PURPOSE, eci \div 900 - 1, eci % 900>>
    [] eci >= 810900 -> <<ECI_USER_DEFINED, eci - 810900>>
-----------------------------------------------------------------------------
(* EncodeText.  One turn of its loop either takes the character or only    *)
(* changes the submode.                                                    *)
Taken(s, values) == [s EXCEPT !.values = @ \o values, !.taken = TRUE]
Latched(s, mode, value) == [s EXCEPT !.values = Append(@, value), !.mode = mode]
Turn(s, ch, latchPunctuation) ==
  LET Shifted == Taken(s, <<29, PUNCTUATION[ch]>>)
  IN  CASE s.mode = "ALPHA" ->
             (CASE IsAlphaUpper(ch) -> Taken(s, <<IF ch = 32 THEN 26 ELSE ch - 65>>)
                [] ~IsAlphaUpper(ch) /\ IsAlphaLower(ch) -> Latched(s, "LOWER", 27)
                [] ~IsAlphaUpper(ch) /\ IsMixed(ch) -> Latched(s, "MIXED", 28)
                [] OTHER -> Shifted)
        [] s.mode = "LOWER" ->
             (CASE IsAlphaLower(ch) -> Taken(s, <<IF ch = 32 THEN 26 ELSE ch - 97>>)
                [] ~IsAlphaLower(ch) /\ IsAlphaUpper(ch) -> Taken(s, <<27, ch - 65>>)
                [] ~IsAlphaLower(ch) /\ IsMixed(ch) -> Latched(s, "MIXED", 28)
                [] OTHER -> Shifted)
        [] s.mode = "MIXED" ->
             (CASE IsMixed(ch) -> Taken(s, <<MIXED[ch]>>)
                [] ~IsMixed(ch) /\ IsAlphaUpper(ch) -> Latched(s, "ALPHA", 28)
                [] ~IsMixed(ch) /\ IsAlphaLower(ch) -> Latched(s, "LOWER", 27)
                [] OTHER -> IF latchPunctuation THEN Latched(s, "PUNCTUATION", 25) ELSE Shifted)
        [] s.mode = "PUNCTUATION" ->
             IF IsPunctuation(ch) THEN Taken(s, <<PUNCTUATION[ch]>>) ELSE Latched(s, "ALPHA", 29)
Again(s, ch, latchPunctuation) == IF s.taken THEN s ELSE Turn(s, ch, latchPunctuation)
Character(s, ch, latchPunctuation) ==        \* at most two latches before it is taken
  IF ~s.taken THEN s
  ELSE Again(Again(Turn([s EXCEPT !.taken = FALSE], ch, latchPunctuation), ch, latchPunctuation), ch, latchPunctuation)

(* Whether the next character exists is asked with an index into the       *)
(* message on the one side and the length of the run on the other.         *)
PunctuationFollows(t, startpos, count, idx) ==
  startpos + idx + 1 < count /\ IsPunctuation(t[startpos + idx + 2])
TextValues(t, startpos, count, submode) ==
  FoldLeft(LAMBDA s, idx : Character(s, t[startpos + idx + 1], PunctuationFollows(t, startpos, count, idx)),
           [mode |-> submode, values |-> <<>>, taken |-> TRUE], [i \in 1 .. count |-> i - 1])
Pairs(values) ==
  [k \in 1 .. (Len(values) + 1) \div 2 |->
     30 * values[2 * k - 1] + IF 2 * k <= Len(values) THEN values[2 * k] ELSE 29]
-----------------------------------------------------------------------------
(* EncodeBinary.                                                           *)
SixBytes(bytes, k) == Padded(InBase(900, 256, SubSeq(bytes, 6 * k - 5, 6 * k)), 5)
BytesCompacted(bytes) ==
  FoldLeft(LAMBDA out, k : out \o SixBytes(bytes, k), <<>>, [i \in 1 .. Len(bytes) \div 6 |-> i])
  \o SubSeq(bytes, 6 * (Len(bytes) \div 6) + 1, Len(bytes))
BinaryLatchShifted(count, startmode) ==      \* mutant: a shift out of any compaction
  IF count = 1 THEN SHIFT_TO_BYTE ELSE IF count % 6 = 0 THEN LATCH_TO_BYTE ELSE LATCH_TO_BYTE_PADDED
BinaryLatch(count, startmode) ==
  IF count = 1 /\ startmode = "TEXT" THEN SHIFT_TO_BYTE
  ELSE IF count % 6 = 0 THEN LATCH_TO_BYTE ELSE LATCH_TO_BYTE_PADDED
EncodeBinary(bytes, startmode) == <<BinaryLatch(Len(bytes), startmode)>> \o BytesCompacted(bytes)

(* EncodeNumeric.                                                          *)
Upto44(n) == IF n > 44 THEN 44 ELSE n
DigitValues(t, first, n) == [i \in 1 .. n |-> t[first + i] - 48]
EncodeNumeric(t, startpos, count) ==
  FoldLeft(LAMBDA out, k :
             out \o InBase(900, 10, <<1>> \o DigitValues(t, startpos + 44 * k, Upto44(count - 44 * k))),
           <<>>, [i \in 1 .. (count + 43) \div 44 |-> i - 1])
-----------------------------------------------------------------------------
(* The length of the run of digits, of text and of bytes from startpos on. *)
MinOf(set) == CHOOSE n \in set : \A k \in set : n <= k
DigitsFrom(t, pos) ==
  MinOf({n \in 0 .. Len(t) - pos : pos + n = Len(t) \/ ~IsDigit(t[pos + n + 1])})
DetermineConsecutiveDigitCount(t, startpos) == DigitsFrom(t, startpos)
LongRun(t, pos) == DigitsFrom(t, pos) >= 13
DetermineConsecutiveTextCount(t, startpos) ==
  MinOf({n \in 0 .. Len(t) - startpos :
           \/ startpos + n = Len(t)
           \/ LongRun(t, startpos + n) \/ ~IsText(t[startpos + n + 1])})
DetermineConsecutiveBinaryCount(t, startpos) ==
  MinOf({n \in 0 .. Len(t) - startpos : startpos + n = Len(t) \/ LongRun(t, startpos + n)})

(* TextEncoder::FromUnicode, of Latin-1 and of UTF-8 up to two bytes.      *)
Utf8(ch) == IF ch < 128 THEN <<ch>> ELSE <<192 + ch \div 64, 128 + (ch % 64)>>
FromUnicode(t, charset) ==
  IF charset = "UTF8" THEN FoldLeft(LAMBDA b, ch : b \o Utf8(ch), <<>>, t) ELSE t
-----------------------------------------------------------------------------
EncoderInit(charset) ==
  /\ p = 0 /\ encodingMode = "TEXT" /\ textSubMode = "ALPHA"
  /\ highLevel = (IF charset = "ISO8859_1" THEN <<>> ELSE EncodingECI(26))

(* The compaction asked for.                                               *)
EncodeAll(compaction, charset) ==
  /\ p < Len(msg) /\ p' = Len(msg)
  /\ highLevel' = highLevel \o
       (CASE compaction = "TEXT" -> Pairs(TextValues(msg, 0, Len(msg), "ALPHA").values)
          [] compaction = "BYTE" -> EncodeBinary(FromUnicode(msg, charset), "BYTE")
          [] compaction = "NUMERIC" -> <<LATCH_TO_NUMERIC>> \o EncodeNumeric(msg, 0, Len(msg)))
  /\ UNCHANGED <<msg, encodingMode, textSubMode>>

(* The turns of the loop of AUTO.                                          *)
Count == DetermineConsecutiveDigitCount(msg, p)
TextCount == DetermineConsecutiveTextCount(msg, p)
TakesText == Count < 13 /\ (TextCount >= 5 \/ Count = Len(msg))
EncodeDigits ==
  /\ p < Len(msg) /\ Count >= 13
  /\ highLevel' = highLevel \o <<LATCH_TO_NUMERIC>> \o EncodeNumeric(msg, p, Count)
  /\ p' = p + Count /\ encodingMode' = "NUMERIC" /\ textSubMode' = "ALPHA" /\ UNCHANGED msg

EncodeText ==
  /\ p < Len(msg) /\ TakesText
  /\ \E s \in {TextValues(msg, p, TextCount, IF encodingMode = "TEXT" THEN textSubMode ELSE "ALPHA")} :
       /\ highLevel' = highLevel \o (IF encodingMode = "TEXT" THEN <<>> ELSE <<LATCH_TO_TEXT>>) \o Pairs(s.values)
       /\ textSubMode' = s.mode
  /\ p' = p + TextCount /\ encodingMode' = "TEXT" /\ UNCHANGED msg

EncodeBytes(charset) ==
  /\ p < Len(msg) /\ Count < 13 /\ ~TakesText
  /\ \E b \in {DetermineConsecutiveBinaryCount(msg, p)} :
       \E bytes \in {FromUnicode(SubSeq(msg, p + 1, p + b), charset)} :
         /\ highLevel' = highLevel \o EncodeBinary(bytes, encodingMode)
         /\ IF Len(bytes) = 1 /\ encodingMode = "TEXT" THEN UNCHANGED <<encodingMode, textSubMode>>
            ELSE encodingMode' = "BYTE" /\ textSubMode' = "ALPHA"
         /\ p' = p + b
  /\ UNCHANGED msg
=============================================================================
