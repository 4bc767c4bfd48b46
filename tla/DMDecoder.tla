------------------------------ MODULE DMDecoder ------------------------------
(***************************************************************************)
(* DecodedBitStreamParser::Decode (DMDecoder.cpp): the data codewords of a *)
(* symbol are read one by one; a latch begins a segment that is read by    *)
(* triples (C40, Text, X12), by four characters in three bytes (EDIFACT)   *)
(* or at once (Base 256).  What readBits cannot read is thrown as          *)
(* std::out_of_range, which Decode does not catch.                         *)
(***************************************************************************)
EXTENDS Integers, Sequences, Functions, SequencesExt

VARIABLES
  reading,          \* "no", a segment, "done" or "leaked"
  bytes, isDMRE,    \* the arguments of Decode
  pos,              \* bytes read
  content,
  shift, upper,     \* of a C40 or Text segment
  upperShift,       \* of ASCII
  symbology, sai, readerInit,
  firstFNC1Position, trailer,
  error
segmentVars == <<shift, upper>>
headerVars == <<symbology, sai, readerInit, firstFNC1Position, trailer>>
decoderVars == <<reading, bytes, isDMRE, pos, content, segmentVars, upperShift, headerVars, error>>

C == INSTANCE Content WITH
       Bytes <- 0 .. 255, ECIs <- Nat, CharacterSets <- {-1}, Backslash <- 92,
       ISO8859_1 <- 3, Unknown <- -1, NoSwitch <- -2,
       EraseCalls <- {}, Headers <- {}, InsertCalls <- {},
       MaxBytes <- 0, MaxEncodings <- 0,
       merged <- content, cut <- content

GS == 29
Header(digit) == <<91, 41, 62, 30, 48, digit, GS>>
Trailer == <<30, 4>>
NoPart == [index |-> -1, count |-> -1, id |-> -1]

DecoderInit ==
  /\ reading = "no" /\ bytes = <<>> /\ isDMRE = FALSE /\ pos = 0 /\ content = C!Empty
  /\ shift = 0 /\ upper = FALSE /\ upperShift = FALSE
  /\ symbology = [modifier |-> 1, aiFlag |-> "None"] /\ sai = NoPart /\ readerInit = FALSE
  /\ firstFNC1Position = 1 /\ trailer = <<>> /\ error = "None"

Decode(codewords, dmre) ==
  /\ reading' = "ASCII" /\ bytes' = codewords /\ isDMRE' = dmre
  /\ UNCHANGED <<pos, content, segmentVars, upperShift, headerVars, error>>

Added(c, s) == [c EXCEPT !.bytes = @ \o s]
Available == Len(bytes) - pos
OneByte == bytes[pos + 1]
FirstError == IF error = "None" THEN "Format" ELSE error
HeaderUnchanged == UNCHANGED <<bytes, isDMRE>>

(* What is done after the loop.                                            *)
Finished(c, e) ==
  /\ reading' = "done" /\ error' = e
  /\ content' = Added(c, trailer)
  /\ symbology' = [modifier |-> symbology.modifier + (IF isDMRE THEN 6 ELSE 0),
                   aiFlag |-> IF symbology.modifier = 2 THEN "GS1" ELSE "None"]
  /\ UNCHANGED <<sai, readerInit, firstFNC1Position, trailer, upperShift, segmentVars>>
  /\ HeaderUnchanged
-----------------------------------------------------------------------------
(* ASCII.                                                                  *)
ReadingByte(values) == reading = "ASCII" /\ Available >= 1 /\ OneByte \in values
KeepsReading == UNCHANGED <<reading, segmentVars>> /\ HeaderUnchanged

EndOfData ==
  /\ reading = "ASCII" /\ (Available >= 1 => OneByte = 129)
  /\ pos' = pos + (IF Available = 0 THEN 0 ELSE 1)
  /\ Finished(content, error)

(* An unlatch as the very last codeword is let pass.                       *)
ReadInvalid ==
  /\ ReadingByte({0} \cup (242 .. 255)) /\ pos' = pos + 1
  /\ error' = IF OneByte = 254 /\ Available = 1 THEN error ELSE FirstError
  /\ KeepsReading /\ UNCHANGED <<content, upperShift, headerVars>>

ReadCharacter ==
  /\ ReadingByte(1 .. 128) /\ pos' = pos + 1
  /\ content' = Added(content, <<(OneByte + (IF upperShift THEN 128 ELSE 0) - 1) % 256>>)
  /\ upperShift' = FALSE
  /\ KeepsReading /\ UNCHANGED <<headerVars, error>>

ReadTwoDigits ==
  /\ ReadingByte(130 .. 229) /\ pos' = pos + 1
  /\ content' = Added(content, <<48 + (OneByte - 130) \div 10, 48 + ((OneByte - 130) % 10)>>)
  /\ KeepsReading /\ UNCHANGED <<upperShift, headerVars, error>>

ReadUpperShift ==
  /\ ReadingByte({235}) /\ pos' = pos + 1 /\ upperShift' = TRUE
  /\ KeepsReading /\ UNCHANGED <<content, headerVars, error>>

(* Told from the position of the codeword, not of a character.             *)
ReadFNC1 ==
  /\ ReadingByte({232}) /\ pos' = pos + 1
  /\ IF pos + 1 \in {firstFNC1Position, firstFNC1Position + 1}
       THEN /\ symbology' = [symbology EXCEPT !.modifier =
                               IF pos + 1 = firstFNC1Position THEN 2 ELSE 3]
            /\ UNCHANGED content
       ELSE content' = Added(content, <<GS>>) /\ UNCHANGED symbology
  /\ KeepsReading /\ UNCHANGED <<upperShift, sai, readerInit, firstFNC1Position, trailer, error>>

ReadMacro ==
  /\ ReadingByte({236, 237}) /\ pos' = pos + 1
  /\ content' = Added(content, Header(IF OneByte = 236 THEN 53 ELSE 54))
  /\ trailer' = Trailer \o trailer
  /\ KeepsReading /\ UNCHANGED <<upperShift, symbology, sai, readerInit, firstFNC1Position, error>>

ReadReaderProgramming ==
  /\ ReadingByte({234}) /\ pos' = pos + 1 /\ readerInit' = TRUE
  /\ error' = IF pos = 0 THEN error ELSE FirstError
  /\ KeepsReading /\ UNCHANGED <<content, upperShift, symbology, sai, firstFNC1Position, trailer>>

(* readBits(8) after the last byte throws std::out_of_range.               *)
Leak ==
  /\ reading' = "leaked"
  /\ UNCHANGED <<pos, content, segmentVars, upperShift, headerVars, error>> /\ HeaderUnchanged

(* A count that makes no sense is unknown, 0.                              *)
SequenceIndicatorUnchecked(b) ==              \* mutant: any count
  [index |-> b \div 16, count |-> 17 - (b % 16)]
SequenceIndicator(b) ==
  LET count == 17 - (b % 16)
  IN  [index |-> b \div 16, count |-> IF count = 17 \/ count <= b \div 16 THEN 0 ELSE count]
ReadStructuredAppend ==
  /\ ReadingByte({233})
  /\ IF Available < 4 THEN Leak
     ELSE LET s == SequenceIndicator(bytes[pos + 2])
          IN  /\ sai' = [index |-> s.index, count |-> s.count,
                         id |-> 256 * bytes[pos + 3] + bytes[pos + 4]]
              /\ firstFNC1Position' = 5 /\ pos' = pos + 4
              /\ error' = IF pos = 0 THEN error ELSE FirstError
              /\ KeepsReading /\ UNCHANGED <<content, upperShift, symbology, readerInit, trailer>>

ECILength(b) == IF b <= 127 THEN 1 ELSE IF b <= 191 THEN 2 ELSE 3
ECIValue(b) ==
  CASE b[1] <= 127 -> b[1] - 1
    [] b[1] \in 128 .. 191 -> (b[1] - 128) * 254 + 127 + b[2] - 1
    [] OTHER -> (b[1] - 192) * 64516 + 16383 + (b[2] - 1) * 254 + b[3] - 1
ReadECI ==
  /\ ReadingByte({241})
  /\ IF Available < 2 \/ Available < 1 + ECILength(bytes[pos + 2]) THEN Leak
     ELSE /\ content' = C!SwitchEncoding(content,
                          ECIValue(SubSeq(bytes, pos + 2, pos + 1 + ECILength(bytes[pos + 2]))), TRUE)
          /\ pos' = pos + 1 + ECILength(bytes[pos + 2])
          /\ KeepsReading /\ UNCHANGED <<upperShift, headerVars, error>>

SegmentOf == [b \in {230, 238, 239, 240} |->
                CASE b = 230 -> "C40" [] b = 238 -> "X12" [] b = 239 -> "TEXT" [] b = 240 -> "EDIFACT"]
ReadLatch ==
  /\ ReadingByte(DOMAIN SegmentOf) /\ pos' = pos + 1
  /\ reading' = SegmentOf[OneByte] /\ shift' = 0 /\ upper' = FALSE
  /\ HeaderUnchanged /\ UNCHANGED <<content, upperShift, headerVars, error>>
-----------------------------------------------------------------------------
(* Triples of values; the bytes 0 0 are the value -1.                      *)
EndsTriples == Available >= 2 => OneByte = 254
Triple ==
  LET n == 256 * OneByte + bytes[pos + 2] - 1
  IN  IF n = -1 THEN <<0, 0, -1>> ELSE <<n \div 1600, (n % 1600) \div 40, n % 40>>

EndSegment ==
  /\ reading \in {"C40", "TEXT", "X12"} /\ EndsTriples
  /\ pos' = pos + (IF Available < 2 THEN 0 ELSE 1)
  /\ reading' = "ASCII" /\ UNCHANGED <<content, segmentVars, upperShift, headerVars, error>>
  /\ HeaderUnchanged

BasicCharacter(v) ==
  CASE v = 3 -> 32 [] v \in 4 .. 13 -> v + 44
    [] OTHER -> v + (IF reading = "TEXT" THEN 83 ELSE 51)
Shift2Character(v) ==
  CASE v <= 14 -> v + 33 [] v \in 15 .. 21 -> v + 43 [] v \in 22 .. 26 -> v + 69 [] OTHER -> GS
Shift3Character(v) ==
  IF reading = "C40" \/ v = 0 THEN v + 96 ELSE IF v <= 26 THEN v + 64 ELSE v + 96

(* One value: s holds the shift, the upper shift, what was read and        *)
(* whether a value was invalid.                                            *)
Pushed(s, b) ==
  [s EXCEPT !.text = Append(@, (b + (IF s.upper THEN 128 ELSE 0)) % 256),
            !.upper = FALSE, !.shift = 0]
Failed(s) == [s EXCEPT !.failed = TRUE]
ReadValue(s, v) ==
  CASE s.failed -> s
    [] ~s.failed /\ s.shift = 0 ->
         IF v < 3 THEN [s EXCEPT !.shift = v + 1]
         ELSE IF v < 40 THEN Pushed(s, BasicCharacter(v)) ELSE Failed(s)
    [] ~s.failed /\ s.shift = 1 -> Pushed(s, v)
    [] ~s.failed /\ s.shift = 2 ->
         CASE v <= 27 -> Pushed(s, Shift2Character(v))
           [] v = 30 -> [s EXCEPT !.upper = TRUE, !.shift = 0]
           [] OTHER -> Failed(s)
    [] ~s.failed /\ s.shift = 3 ->
         IF reading = "C40" \/ v < 32 THEN Pushed(s, Shift3Character(v)) ELSE Failed(s)

ReadX12Value(s, v) ==
  CASE s.failed \/ v \notin 0 .. 39 -> Failed(s)
    [] ~s.failed /\ v \in 0 .. 39 -> Pushed(s, IF v < 4 THEN <<13, 42, 62, 32>>[v + 1]
                                              ELSE v + (IF v < 14 THEN 44 ELSE 51))

ReadTriple ==
  /\ reading \in {"C40", "TEXT", "X12"} /\ ~EndsTriples
  /\ \E first \in {[shift |-> shift, upper |-> upper, text |-> <<>>, failed |-> FALSE]} :
     \E last \in {IF reading = "X12" THEN FoldLeft(ReadX12Value, first, Triple)
                  ELSE FoldLeft(ReadValue, first, Triple)} :
       /\ pos' = pos + 2
       /\ IF last.failed THEN Finished(Added(content, last.text), FirstError)
          ELSE /\ content' = Added(content, last.text)
               /\ shift' = last.shift /\ upper' = last.upper
               /\ UNCHANGED <<reading, upperShift, headerVars, error>> /\ HeaderUnchanged
-----------------------------------------------------------------------------
(* EDIFACT: an unlatch skips the rest of its byte.                         *)
Sixes ==
  LET a == OneByte
      b == bytes[pos + 2]
      c == bytes[pos + 3]
  IN  <<a \div 4, 16 * (a % 4) + b \div 16, 4 * (b % 16) + c \div 64, c % 64>>
BytesUpTo == <<1, 2, 3, 3>>
EDIFACTCharacter(v) == IF v < 32 THEN v + 64 ELSE v

EDIFACTUnchanged ==
  HeaderUnchanged /\ UNCHANGED <<segmentVars, upperShift, headerVars, error>>
EndEDIFACT ==
  /\ reading = "EDIFACT" /\ Available < 3
  /\ reading' = "ASCII" /\ UNCHANGED <<pos, content>> /\ EDIFACTUnchanged
ReadEDIFACT ==
  /\ reading = "EDIFACT" /\ Available >= 3 /\ EDIFACTUnchanged
  /\ LET unlatches == {k \in 1 .. 4 : Sixes[k] = 31}
         end == IF unlatches = {} THEN 5 ELSE CHOOSE k \in unlatches : \A j \in unlatches : k <= j
     IN  /\ content' = Added(content, [k \in 1 .. end - 1 |-> EDIFACTCharacter(Sixes[k])])
         /\ pos' = pos + (IF end = 5 THEN 3 ELSE BytesUpTo[end])
         /\ reading' = IF end = 5 THEN "EDIFACT" ELSE "ASCII"
-----------------------------------------------------------------------------
(* Base 256.                                                               *)
Unrandomize255State(b, n) == (b - ((149 * n) % 255) - 1) % 256
Plain(n) == Unrandomize255State(bytes[n], n)

(* Bytes that were read before the end are kept out of a leak's result.    *)
ReadBase256 ==
  /\ ReadingByte({231})
  /\ IF Available < 2 \/ (Plain(pos + 2) >= 250 /\ Available < 3) THEN Leak
     ELSE LET d1 == Plain(pos + 2)
              from == pos + (IF d1 >= 250 THEN 3 ELSE 2)
              count == CASE d1 = 0 -> Len(bytes) - from
                         [] d1 \in 1 .. 249 -> d1
                         [] OTHER -> 250 * (d1 - 249) + Plain(pos + 3)
          IN  IF from + count > Len(bytes) THEN Leak
              ELSE /\ content' = Added(content, [k \in 1 .. count |-> Plain(from + k)])
                   /\ pos' = from + count
                   /\ KeepsReading /\ UNCHANGED <<upperShift, headerVars, error>>

DecoderNext ==
  \/ EndOfData \/ ReadInvalid \/ ReadCharacter \/ ReadTwoDigits \/ ReadUpperShift
  \/ ReadFNC1 \/ ReadMacro \/ ReadReaderProgramming \/ ReadStructuredAppend \/ ReadECI
  \/ ReadLatch \/ EndSegment \/ ReadTriple \/ EndEDIFACT \/ ReadEDIFACT \/ ReadBase256
=============================================================================
