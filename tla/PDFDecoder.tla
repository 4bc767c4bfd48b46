------------------------------ MODULE PDFDecoder ------------------------------
(***************************************************************************)
(* Decode of the codewords of a PDF417 symbol (PDFDecoder.cpp): a loop     *)
(* over latches, each of which is followed by a compaction of its own, by  *)
(* ECIs and by the control block of a macro symbol.  What is thrown is     *)
(* returned as an error.                                                   *)
(***************************************************************************)
EXTENDS PDFArithmetic

VARIABLES
  reading,          \* "no", "content" or "done"
  codewords,        \* the first says how many of them are data
  codeIndex,        \* counts from 0, as in the code
  content, customData, readerInit, sai, error
decoderVars == <<reading, codewords, codeIndex, content, customData, readerInit, sai, error>>

C == INSTANCE Content WITH
       Bytes <- 0 .. 255, ECIs <- Int, CharacterSets <- {-1}, Backslash <- 92,
       ISO8859_1 <- 3, Unknown <- -1, NoSwitch <- -2,
       EraseCalls <- {}, Headers <- {}, InsertCalls <- {},
       MaxBytes <- 0, MaxEncodings <- 0,
       merged <- content, cut <- content

TEXT_LATCH == 900
BYTE_LATCH == 901
NUMERIC_LATCH == 902
MODE_SHIFT_TO_BYTE == 913
LINKAGE_OTHER == 918
LINKAGE_EANUCC == 920
READER_INIT == 921
MACRO_TERMINATOR == 922
OPTIONAL_FIELD == 923
BYTE_LATCH_6 == 924
USER_DEFINED == 925
GENERAL_PURPOSE == 926
CHARSET == 927
MACRO_CONTROL_BLOCK == 928
MAX_NUMERIC_CODEWORDS == 15

IsECI(code) == code \in USER_DEFINED .. CHARSET
Latches == {TEXT_LATCH, BYTE_LATCH, NUMERIC_LATCH, BYTE_LATCH_6}
MacroCodes == {MACRO_CONTROL_BLOCK, OPTIONAL_FIELD, MACRO_TERMINATOR}
TerminatesCompaction(code) == code \in Latches \cup MacroCodes

(* What a compaction leads to: the index it ends at and the content.       *)
Read(i, c) == [i |-> i, c |-> c, ok |-> TRUE]
FormatError(i, c) == [i |-> i, c |-> c, ok |-> FALSE]

(* ProcessECI: a code at i - 1, of the cw of which the first n count.      *)
ProcessECI(cw, i, n, code, c) ==
  IF i < n /\ IsECI(code)
    THEN IF code = CHARSET THEN Read(i + 1, C!SwitchEncoding(c, cw[i + 1], TRUE))
         ELSE Read(i + (IF code = GENERAL_PURPOSE THEN 2 ELSE 1), c)
    ELSE Read(i, c)
-----------------------------------------------------------------------------
(* DecodeTextCompaction.                                                   *)
PUNCT_CHARS ==
  <<59, 60, 62, 64, 91, 92, 93, 95, 96, 126, 33, 13, 9, 44, 58, 10, 45, 46, 36, 47, 34, 124, 42, 40, 41, 63, 123,
    125, 39>>
MIXED_CHARS ==
  <<48, 49, 50, 51, 52, 53, 54, 55, 56, 57, 38, 13, 9, 44, 58, 35, 45, 46, 36, 47, 43, 37, 42, 61, 94>>

TextState(i, sub, prior, c) == [i |-> i, sub |-> sub, prior |-> prior, c |-> c]
Char(s, ch) == [s EXCEPT !.i = @ + 1, !.c = C!PushBack(@, ch)]
To(s, sub) == [s EXCEPT !.i = @ + 1, !.sub = sub]
ShiftTo(s, sub) == [s EXCEPT !.i = @ + 1, !.sub = sub, !.prior = s.sub]
(* The shift to punctuation is padding at the end and before a byte.       *)
PunctShift(s, data) ==
  IF s.i + 1 < Len(data) /\ data[s.i + 2] # MODE_SHIFT_TO_BYTE THEN ShiftTo(s, "PUNCT_SHIFT") ELSE To(s, s.sub)
Restored(s) == [s EXCEPT !.sub = s.prior]

InAlphaOrLower(s, v, data) ==
  CASE v < 26 -> Char(s, v + IF s.sub = "ALPHA" THEN 65 ELSE 97)
    [] v = 26 -> Char(s, 32)
    [] v = 27 /\ s.sub = "ALPHA" -> To(s, "LOWER")
    [] v = 27 /\ s.sub = "LOWER" -> ShiftTo(s, "ALPHA_SHIFT")
    [] v = 28 -> To(s, "MIXED")
    [] v > 28 -> PunctShift(s, data)
InMixed(s, v, data) ==
  CASE v < 25 -> Char(s, MIXED_CHARS[v + 1])
    [] v = 25 -> To(s, "PUNCT") [] v = 26 -> Char(s, 32) [] v = 27 -> To(s, "LOWER") [] v = 28 -> To(s, "ALPHA")
    [] v > 28 -> PunctShift(s, data)
InPunct(s, v) == IF v < 29 THEN Char(s, PUNCT_CHARS[v + 1]) ELSE To(s, "ALPHA")
InAlphaShift(s, v) ==
  CASE v < 26 -> Char(s, 65 + v) [] v = 26 -> Char(s, 32) [] v > 26 -> To(s, s.sub)
TextValue(s, v, data) ==
  CASE s.sub \in {"ALPHA", "LOWER"} -> InAlphaOrLower(s, v, data)
    [] s.sub = "MIXED" -> InMixed(s, v, data)
    [] s.sub = "PUNCT" -> InPunct(s, v)
    [] s.sub = "ALPHA_SHIFT" -> InAlphaShift(Restored(s), v)
    [] s.sub = "PUNCT_SHIFT" -> InPunct(Restored(s), v)

AfterECIs(data, i, c) ==
  LET f[k \in 0 .. Len(data)] ==                 \* the k ECIs that follow one another
        IF k = 0 THEN Read(i, c)
        ELSE IF f[k - 1].i < Len(data) /\ IsECI(data[f[k - 1].i + 1])
          THEN ProcessECI(data, f[k - 1].i + 1, Len(data), data[f[k - 1].i + 1], f[k - 1].c)
          ELSE f[k - 1]
  IN  f[Len(data) \div 2]
ShiftedByte(s, data) ==
  LET e == AfterECIs(data, s.i + 1, s.c)
  IN  IF e.i < Len(data) THEN [s EXCEPT !.i = e.i + 1, !.c = C!PushBack(e.c, data[e.i + 1] % 256)]
      ELSE [s EXCEPT !.i = e.i, !.c = e.c]
TextECI(s, data) ==
  LET e == ProcessECI(data, s.i + 1, Len(data), data[s.i + 1], s.c)
  IN  [s EXCEPT !.i = e.i, !.c = e.c]

RECURSIVE DecodeText(_, _)
DecodeText(data, s) ==
  IF s.i >= Len(data) THEN s.c
  ELSE DecodeText(data,
         LET v == data[s.i + 1]
         IN  IF IsECI(v) THEN TextECI(s, data)
             ELSE IF v = MODE_SHIFT_TO_BYTE THEN ShiftedByte(s, data) ELSE TextValue(s, v, data))

(* TextCompaction: two values of each codeword, and of the others only     *)
(* ECIs and the byte shifted to.                                           *)
ECICodewords(cw, i) ==                       \* of the ECI at i
  LET wanted == i + (IF cw[i + 1] = GENERAL_PURPOSE THEN 3 ELSE 2)
  IN  SubSeq(cw, i + 1, IF wanted > cw[1] THEN cw[1] ELSE wanted)
RECURSIVE Collected(_, _, _, _)
Collected(cw, i, data, afterShift) ==
  IF i >= cw[1] THEN [i |-> i, data |-> data, ok |-> TRUE]
  ELSE LET code == cw[i + 1]
       IN  IF IsECI(code) THEN Collected(cw, i + Len(ECICodewords(cw, i)), data \o ECICodewords(cw, i), afterShift)
           ELSE IF afterShift THEN Collected(cw, i + 1, Append(data, code), FALSE)
           ELSE IF code < 900 THEN Collected(cw, i + 1, data \o <<code \div 30, code % 30>>, FALSE)
           ELSE IF code = MODE_SHIFT_TO_BYTE THEN Collected(cw, i + 1, Append(data, code), TRUE)
           ELSE [i |-> i, data |-> data, ok |-> TerminatesCompaction(code)]
TextCompactionFrom(text, c) ==
  IF text.ok THEN Read(text.i, DecodeText(text.data, TextState(0, "ALPHA", "ALPHA", c))) ELSE FormatError(text.i, c)
TextCompaction(cw, i, c) == TextCompactionFrom(Collected(cw, i, <<>>, FALSE), c)
-----------------------------------------------------------------------------
(* CountByteBatches: codewords up to what terminates the compaction, the   *)
(* ECIs between them not counted.                                          *)
RECURSIVE ByteCount(_, _, _, _)
ByteCount(mode, cw, i, count) ==
  LET code == cw[i + 1]
      torn == mode = BYTE_LATCH_6 /\ count % 5 # 0
  IN  CASE i > cw[1] -> -1
        [] i = cw[1] -> count
        [] i < cw[1] ->
             IF code < 900 THEN ByteCount(mode, cw, i + 1, count + 1)
             ELSE IF torn \/ ~(IsECI(code) \/ TerminatesCompaction(code)) THEN -1
             ELSE IF IsECI(code) THEN ByteCount(mode, cw, i + (IF code = GENERAL_PURPOSE THEN 3 ELSE 2), count)
             ELSE count
CountOf(mode, n) == IF mode = BYTE_LATCH_6 /\ n % 5 # 0 THEN -1 ELSE n
CountByteBatches(mode, cw, i) == CountOf(mode, ByteCount(mode, cw, i, 0))
Trailing(mode, count) ==
  IF mode = BYTE_LATCH_6 \/ count = 0 THEN 0 ELSE IF count % 5 = 0 THEN 5 ELSE count % 5
Batches(mode, count) == (count - Trailing(mode, count)) \div 5

(* ProcessByteECIs.                                                        *)
RECURSIVE ProcessByteECIs(_, _)
ProcessByteECIs(cw, s) ==
  IF s.i < cw[1] /\ cw[s.i + 1] >= 900 /\ ~TerminatesCompaction(cw[s.i + 1])
    THEN ProcessByteECIs(cw, ProcessECI(cw, s.i + 1, cw[1], cw[s.i + 1], s.c))
    ELSE s

(* ByteCompaction: six bytes of five codewords at a time, which an ECI     *)
(* among them does not interrupt, then one of each.                        *)
LastSix(digits) == LET d == Padded(digits, 6) IN SubSeq(d, Len(d) - 5, Len(d))
SixBytesOf(five) == LastSix(InBase(256, 900, five))
Appended(c, bytes) == [c EXCEPT !.bytes = @ \o bytes]
Batch(cw, s) == ProcessByteECIs(cw, Read(s.i + 5, Appended(s.c, SixBytesOf(SubSeq(cw, s.i + 1, s.i + 5)))))
OneByte(cw, s) == ProcessByteECIs(cw, Read(s.i + 1, C!PushBack(s.c, cw[s.i + 1] % 256)))
Turns(n) == [k \in 1 .. n |-> k]
ByteCompactionOf(mode, cw, i, c, count) ==
  IF count = -1 THEN FormatError(i, c)
  ELSE FoldLeft(LAMBDA s, k : OneByte(cw, s),
                FoldLeft(LAMBDA s, k : Batch(cw, s), ProcessByteECIs(cw, Read(i, c)), Turns(Batches(mode, count))),
                Turns(Trailing(mode, count)))
ByteCompaction(mode, cw, i, c) == ByteCompactionOf(mode, cw, i, c, CountByteBatches(mode, cw, i))
-----------------------------------------------------------------------------
(* DecodeBase900toBase10: the digits behind the first, which is a 1.       *)
Digits10(cw, i, count) == InBase(10, 900, SubSeq(cw, i - count + 1, i))
BeginsWithOne(digits) == digits # <<>> /\ digits[1] = 1
Ascii(digits) == [k \in 1 .. Len(digits) - 1 |-> 48 + digits[k + 1]]

(* NumericCompaction: a number ends after 15 codewords, at the end and     *)
(* before any other code.                                                  *)
Flushed(c, digits) == [c |-> Appended(c, Ascii(digits)), ok |-> BeginsWithOne(digits)]
RECURSIVE Numeric(_, _, _, _)
Numeric(cw, i, count, c) ==
  IF i >= cw[1] THEN Read(i, c)
  ELSE LET code == cw[i + 1]
           number == code < 900
           n == IF number THEN count + 1 ELSE count
           next == IF number THEN i + 1 ELSE i
           ends == n > 0 /\ (n = MAX_NUMERIC_CODEWORDS \/ next = cw[1] \/ ~number)
           f == IF ends THEN Flushed(c, Digits10(cw, next, n)) ELSE [c |-> c, ok |-> TRUE]
       IN  IF ~f.ok THEN FormatError(next, c)
           ELSE IF number THEN Numeric(cw, next, IF ends THEN 0 ELSE n, f.c)
           ELSE IF IsECI(code) THEN
             LET e == ProcessECI(cw, i + 1, cw[1], code, f.c) IN Numeric(cw, e.i, 0, e.c)
           ELSE IF TerminatesCompaction(code) THEN Read(i, f.c) ELSE FormatError(i, c)
NumericCompaction(cw, i, c) == Numeric(cw, i, 0, c)
-----------------------------------------------------------------------------
(* DecodeMacroBlock.  Optional fields are held by the codes they have; an  *)
(* unset number is -1.  The texts are what has been read, not yet in UTF-8.*)
TextFields == {0, 3, 4}                      \* FILE_NAME, SENDER, ADDRESSEE
SEGMENT_COUNT == 1
TIME_STAMP == 2
FILE_SIZE == 5
CHECKSUM == 6
NumericFields == {SEGMENT_COUNT, TIME_STAMP, FILE_SIZE, CHECKSUM}
NoFields == [f \in TextFields \cup NumericFields |-> <<>>]
NoMacro == [segmentIndex |-> -1, fileId |-> <<>>, isLastSegment |-> FALSE, fields |-> NoFields, optionalData |-> <<>>]
Macro(i, data) == [i |-> i, data |-> data, ok |-> TRUE]
BadMacro(i, data) == [i |-> i, data |-> data, ok |-> FALSE]

ValueOf(digits) == FoldLeft(LAMBDA n, d : 10 * n + d, 0, digits)
Significant(ascii) ==
  LET nonZero == {k \in DOMAIN ascii : ascii[k] # 48}
  IN  IF nonZero = {} THEN <<48>>
      ELSE SubSeq(ascii, CHOOSE k \in nonZero : \A j \in nonZero : k <= j, Len(ascii))
MaxOf(field) ==                              \* int or 64 bits
  IF field \in {SEGMENT_COUNT, CHECKSUM} THEN <<50, 49, 52, 55, 52, 56, 51, 54, 52, 55>>
  ELSE <<57, 50, 50, 51, 51, 55, 50, 48, 51, 54, 56, 53, 52, 55, 55, 53, 56, 48, 55>>
Below(s, t) ==
  \/ Len(s) < Len(t)
  \/ Len(s) = Len(t) /\ \/ s = t
                         \/ \E k \in DOMAIN s : s[k] < t[k] /\ \A j \in 1 .. k - 1 : s[j] = t[j]
(* std::from_chars of a number.                                            *)
Converts(field, ascii) == ascii # <<>> /\ Below(Significant(ascii), MaxOf(field))

OptionalField(cw, i, data) ==                \* i is behind the designator
  LET field == cw[i]
      text == TextCompaction(cw, i, C!Empty)
      number == NumericCompaction(cw, i, C!Empty)
  IN  CASE field \in TextFields ->
             IF text.ok THEN Macro(text.i, [data EXCEPT !.fields[field] = text.c.bytes]) ELSE BadMacro(i, data)
        [] field \in NumericFields ->
             IF number.ok /\ Converts(field, number.c.bytes)
               THEN Macro(number.i, [data EXCEPT !.fields[field] = Significant(number.c.bytes)])
               ELSE BadMacro(i, data)
        [] field \notin TextFields \cup NumericFields -> BadMacro(i, data)
RECURSIVE OptionalFields(_, _)
OptionalFields(cw, s) ==
  IF ~s.ok \/ s.i >= cw[1] THEN s
  ELSE OptionalFields(cw,
         CASE cw[s.i + 1] = OPTIONAL_FIELD ->
                IF s.i + 1 >= cw[1] THEN Macro(s.i + 1, s.data) ELSE OptionalField(cw, s.i + 2, s.data)
           [] cw[s.i + 1] = MACRO_TERMINATOR -> Macro(s.i + 1, [s.data EXCEPT !.isLastSegment = TRUE])
           [] OTHER -> BadMacro(s.i, s.data))

FileIdEnd(cw, i) ==
  CHOOSE k \in i .. cw[1] :
    /\ k = cw[1] \/ cw[k + 1] \in {MACRO_TERMINATOR, OPTIONAL_FIELD}
    /\ \A j \in i .. k - 1 : cw[j + 1] \notin {MACRO_TERMINATOR, OPTIONAL_FIELD}
(* What follows the first field designator, but for one codeword if a      *)
(* terminator was seen, which stands at the end.                           *)
OptionalData(cw, start, end, isLast) ==
  IF start >= cw[1] \/ cw[start + 1] # OPTIONAL_FIELD THEN <<>>
  ELSE SubSeq(cw, start + 2, IF isLast THEN end - 1 ELSE end)
WithFields(cw, start, s) ==
  IF s.ok THEN Macro(s.i, [s.data EXCEPT !.optionalData = OptionalData(cw, start, s.i, s.data.isLastSegment)]) ELSE s
MacroFrom(cw, i, data, digits) ==            \* the segment index has been read, one without digits is thrown
  IF ~BeginsWithOne(digits) \/ Len(digits) = 1 THEN BadMacro(i, data)
  ELSE LET start == FileIdEnd(cw, i)
           segment == [data EXCEPT !.segmentIndex = ValueOf(Tail(digits)), !.fileId = SubSeq(cw, i + 1, start)]
       IN  WithFields(cw, start, OptionalFields(cw, Macro(start, segment)))
DecodeMacroBlock(cw, i, data) ==
  IF i + 2 > cw[1] THEN BadMacro(i, data) ELSE MacroFrom(cw, i + 2, data, Digits10(cw, i + 2, 2))
-----------------------------------------------------------------------------
(* Decode.                                                                 *)
NoPart == [index |-> -1, count |-> -1, id |-> <<>>]
DecoderInit ==
  /\ reading = "no" /\ codewords = <<>> /\ codeIndex = 1
  /\ content = C!Empty /\ customData = NoMacro /\ readerInit = FALSE /\ sai = NoPart /\ error = "None"
Decode(cw) ==
  /\ reading' = "content" /\ codewords' = cw /\ codeIndex' = 1
  /\ UNCHANGED <<content, customData, readerInit, sai, error>>

Turning == reading = "content" /\ codeIndex < codewords[1]
Code == codewords[codeIndex + 1]
Fail(e) ==
  /\ reading' = "done" /\ error' = e
  /\ UNCHANGED <<codewords, codeIndex, content, customData, readerInit, sai>>
Continue(result) ==                          \* with what a compaction has read
  IF result.ok
    THEN /\ codeIndex' = result.i /\ content' = result.c
         /\ UNCHANGED <<reading, codewords, customData, readerInit, sai, error>>
    ELSE Fail("Format")

ReadText ==
  /\ Turning /\ Code = TEXT_LATCH
  /\ \E r \in {TextCompaction(codewords, codeIndex + 1, content)} : Continue(r)
ReadDefaultText ==                           \* without a latch
  /\ Turning /\ (Code < 900 \/ Code = MODE_SHIFT_TO_BYTE)
  /\ \E r \in {TextCompaction(codewords, codeIndex, content)} : Continue(r)
ReadBytes ==
  /\ Turning /\ Code \in {BYTE_LATCH, BYTE_LATCH_6}
  /\ \E r \in {ByteCompaction(Code, codewords, codeIndex + 1, content)} : Continue(r)
ReadNumber ==
  /\ Turning /\ Code = NUMERIC_LATCH
  /\ \E r \in {NumericCompaction(codewords, codeIndex + 1, content)} : Continue(r)
ReadECI ==
  /\ Turning /\ IsECI(Code)
  /\ \E r \in {ProcessECI(codewords, codeIndex + 1, codewords[1], Code, content)} : Continue(r)
ReadMacro ==
  /\ Turning /\ Code = MACRO_CONTROL_BLOCK
  /\ \E m \in {DecodeMacroBlock(codewords, codeIndex + 1, customData)} :
       IF m.ok
         THEN /\ codeIndex' = m.i /\ customData' = m.data
              /\ UNCHANGED <<reading, codewords, content, readerInit, sai, error>>
         ELSE Fail("Format")
ReadFirst ==                                 \* READER_INIT, LINKAGE_EANUCC
  /\ Turning /\ Code \in {READER_INIT, LINKAGE_EANUCC}
  /\ IF codeIndex = 1
       THEN /\ codeIndex' = codeIndex + 1 /\ readerInit' = (readerInit \/ Code = READER_INIT)
            /\ UNCHANGED <<reading, codewords, content, customData, sai, error>>
       ELSE Fail("Format")
ReadOutOfPlace == Turning /\ Code \in {OPTIONAL_FIELD, MACRO_TERMINATOR} /\ Fail("Format")
ReadReserved ==
  /\ Turning /\ Code \in {LINKAGE_OTHER, 919} \cup 903 .. 912 \cup 914 .. 917
  /\ Fail("Unsupported")

SegmentCount(data) ==
  IF data.fields[SEGMENT_COUNT] # <<>>
    THEN ValueOf([k \in DOMAIN data.fields[SEGMENT_COUNT] |-> data.fields[SEGMENT_COUNT][k] - 48])
    ELSE IF data.isLastSegment THEN data.segmentIndex + 1 ELSE 0
ReadEnd ==
  /\ reading = "content" /\ codeIndex >= codewords[1]
  /\ IF content.bytes = <<>> /\ customData.segmentIndex = -1 THEN Fail("Format")
     ELSE /\ reading' = "done"
          /\ sai' = IF customData.segmentIndex = -1 THEN NoPart
                    ELSE [index |-> customData.segmentIndex, count |-> SegmentCount(customData),
                          id |-> customData.fileId]
          /\ UNCHANGED <<codewords, codeIndex, content, customData, readerInit, error>>

DecoderNext ==
  \/ ReadText \/ ReadDefaultText \/ ReadBytes \/ ReadNumber \/ ReadECI \/ ReadMacro \/ ReadFirst
  \/ ReadOutOfPlace \/ ReadReserved \/ ReadEnd
=============================================================================
