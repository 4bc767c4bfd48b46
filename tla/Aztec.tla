-------------------------------- MODULE Aztec --------------------------------
(***************************************************************************)
(* An Aztec symbol from the text to the symbol and back: Encoder::Encode   *)
(* (AZEncoder.cpp) encodes a text, stuffs the bits into words, chooses a   *)
(* size and writes the mode message; Detect (AZDetector.cpp) reads the     *)
(* mode message, Decode (AZDecoder.cpp) corrects and unstuffs the words    *)
(* and reads the bits.                                                     *)
(*                                                                         *)
(* An input is a text, a symbol with the segments some other encoder wrote *)
(* into it, a mode message with errors, or a size whose layout is looked   *)
(* at.                                                                     *)
(***************************************************************************)
EXTENDS AZEncoder, AZDecoder

CONSTANT Inputs

ASSUME InputsAssumption ==
  \A in \in Inputs :
    /\ in.kind \in {"text", "symbol", "mode", "layout"}
    /\ in.kind = "text" => in.text \in Seq(0 .. 255) /\ in.percent \in Nat
    /\ in.kind = "symbol" /\ in.errors # <<>> => in.size.layers <= 8    \* words XOR has
    /\ in.kind \in {"symbol", "mode", "layout"} => in.size \in AllSizes \cup {Size(TRUE, 0)}

VARIABLES input, stage, symbol, detected
vars == <<encoderVars, decoderVars, input, stage, symbol, detected>>

NotPrinted == [size |-> Size(TRUE, 0), words |-> <<>>, mode |-> <<>>]
Start(in) ==
  CASE in.kind = "text" -> "encode" [] in.kind = "symbol" -> "segments"
    [] in.kind = "mode" -> "mode" [] in.kind = "layout" -> "over"
Init ==
  /\ input \in Inputs /\ stage = Start(input)
  /\ text = (IF input.kind = "text" THEN input.text ELSE <<>>)
  /\ EncoderInit /\ DecoderInit
  /\ symbol = NotPrinted /\ detected = NoMode
-----------------------------------------------------------------------------
Encode ==
  /\ stage = "encode" /\ (EncodePair \/ EncodeChar)
  /\ UNCHANGED <<decoderVars, input, stage, symbol, detected>>
EncodeEnd ==
  /\ stage = "encode" /\ TakeShortest /\ stage' = "print"
  /\ UNCHANGED <<decoderVars, input, symbol, detected>>

(* The size: that of a rune, the one asked for, or the first that suits.   *)
UserSize == Size(input.layers < 0, IF input.layers < 0 THEN -input.layers ELSE input.layers)
Sizes ==
  IF input.layers # DEFAULT_AZTEC_LAYERS
    THEN {s \in {UserSize} : Legal(s) /\ Fits(bits, input.percent, s)}
    ELSE FirstSuiting(bits, input.percent)
Printed(s, bs) ==
  LET words == StuffBits(bs, WORD_SIZE[s.layers])
  IN  [size |-> s, words |-> words, mode |-> GenerateModeMessage(s, Len(words))]

PrintRune ==
  /\ stage = "print" /\ input.layers = AZTEC_RUNE_LAYERS
  /\ symbol' = [NotPrinted EXCEPT !.mode = GenerateRuneMessage(text[1])] /\ stage' = "detect"
  /\ UNCHANGED <<encoderVars, decoderVars, input, detected>>
PrintText ==
  /\ stage = "print" /\ input.layers # AZTEC_RUNE_LAYERS
  /\ \E sizes \in {Sizes} :
       IF sizes = {} THEN stage' = "refused" /\ UNCHANGED symbol
       ELSE stage' = "detect" /\ \E s \in sizes : symbol' = Printed(s, bits)
  /\ UNCHANGED <<encoderVars, decoderVars, input, detected>>
-----------------------------------------------------------------------------
(* What other encoders write: segments that begin and end in UPPER.        *)
Segment(kind, chars) == [kind |-> kind, text |-> chars]
CodeOf(table, chars) ==
  (CHOOSE i \in DOMAIN TABLES[table] :
     TABLES[table][i].kind = "chars" /\ TABLES[table][i].chars = chars) - 1
Codes(s) == FoldLeft(LAMBDA b, c : b \o BitsOf(c, 5), <<>>, s)
InTable(table, chars) ==
  FoldLeft(LAMBDA b, c : b \o BitsOf(CodeOf(table, <<c>>), SizeIn(table)), <<>>, chars)
Shifted(shift, table, chars) ==              \* each of them
  FoldLeft(LAMBDA b, c : b \o shift \o BitsOf(CodeOf(table, <<c>>), 5), <<>>, chars)
Bytes8(chars) == FoldLeft(LAMBDA b, c : b \o BitsOf(c, 8), <<>>, chars)
BinaryOf(chars) ==
  Codes(<<31>>) \o (IF Len(chars) <= 31 THEN BitsOf(Len(chars), 5)
                    ELSE BitsOf(0, 5) \o BitsOf(Len(chars) - 31, 11)) \o Bytes8(chars)
DecimalDigits(e) ==
  LET n == CHOOSE k \in 1 .. 6 : e < 10^k /\ (k > 1 => e >= 10^(k - 1))
  IN  [i \in 1 .. n |-> (e \div 10^(n - i)) % 10]

InSegment(s) ==
  CASE s.kind = "UPPER" -> InTable("UPPER", s.text)
    [] s.kind = "LOWER" -> Codes(<<28>>) \o InTable("LOWER", s.text) \o Codes(<<30>>) \o BitsOf(14, 4)
    [] s.kind = "MIXED" -> Codes(<<29>>) \o InTable("MIXED", s.text) \o Codes(<<29>>)
    [] s.kind = "PUNCT" -> Codes(<<29, 30>>) \o InTable("PUNCT", s.text) \o Codes(<<31>>)
    [] s.kind = "DIGIT" -> Codes(<<30>>) \o InTable("DIGIT", s.text) \o BitsOf(14, 4)
    [] s.kind = "PS" -> Shifted(Codes(<<0>>), "PUNCT", s.text)
    [] s.kind = "LOWER_US" ->
         Codes(<<28>>) \o Shifted(Codes(<<28>>), "UPPER", s.text) \o Codes(<<30>>) \o BitsOf(14, 4)
    [] s.kind = "DIGIT_US" -> Codes(<<30>>) \o Shifted(BitsOf(15, 4), "UPPER", s.text) \o BitsOf(14, 4)
    [] s.kind = "DIGIT_PS" -> Codes(<<30>>) \o Shifted(BitsOf(0, 4), "PUNCT", s.text) \o BitsOf(14, 4)
    [] s.kind = "BINARY" -> BinaryOf(s.text)
    [] s.kind = "LOWER_BINARY" -> Codes(<<28>>) \o BinaryOf(s.text) \o Codes(<<30>>) \o BitsOf(14, 4)
    [] s.kind = "DIGIT_US_BINARY" ->         \* returns to UPPER
         Codes(<<30>>) \o BitsOf(15, 4) \o BinaryOf(s.text)
    [] s.kind = "PAIR" -> Codes(<<0>>) \o BitsOf(CodeOf("PUNCT", s.text), 5)
    [] s.kind = "FNC1" -> Codes(<<0, 0>>) \o BitsOf(0, 3)
    [] s.kind = "FLG7" -> Codes(<<0, 0>>) \o BitsOf(7, 3)
    [] s.kind = "ECI" ->
         LET d == DecimalDigits(s.text[1])
         IN  Codes(<<0, 0>>) \o BitsOf(Len(d), 3)
             \o FoldLeft(LAMBDA b, n : b \o BitsOf(n + 2, 4), <<>>, d)
    [] s.kind = "PART" ->                    \* index, count and the identifier
         Codes(<<29, 29>>)
         \o InTable("UPPER", (IF Len(s.text) = 2 THEN <<>> ELSE <<32>> \o SubSeq(s.text, 3, Len(s.text)) \o <<32>>)
                             \o <<65 + s.text[1], 64 + s.text[2]>>)
    [] s.kind = "BITS" -> s.text
SegmentBits(segments) == FoldLeft(LAMBDA b, s : b \o InSegment(s), <<>>, segments)

PrintSegments ==
  /\ stage = "segments"
  /\ \E bs \in {SegmentBits(input.segments)} : symbol' = Printed(input.size, bs)
  /\ stage' = "detect" /\ UNCHANGED <<encoderVars, decoderVars, input, detected>>

(* A mode message with the errors of the input, a function on its words.   *)
PrintMode ==
  /\ stage = "mode"
  /\ \E m \in {IF input.rune # -1 THEN GenerateRuneMessage(input.rune)
               ELSE GenerateModeMessage(input.size, input.numWords)} :
       symbol' = [size |-> input.size, words |-> <<>>,
                  mode |-> [k \in DOMAIN m |-> IF k \in DOMAIN input.errors THEN XOR(m[k], input.errors[k]) ELSE m[k]]]
  /\ stage' = "detect" /\ UNCHANGED <<encoderVars, decoderVars, input, detected>>
-----------------------------------------------------------------------------
(* Detect and Decode(DetectorResult).                                      *)
Detect ==
  /\ stage = "detect"
  /\ \E m \in {ModeMessage(symbol.mode, symbol.size.compact)} :
       /\ detected' = m
       /\ stage' = IF ~m.read \/ input.kind = "mode" THEN "over" ELSE "correct"
  /\ UNCHANGED <<encoderVars, decoderVars, input, symbol>>

DecodeRune ==                                \* three decimal digits
  /\ stage = "correct" /\ detected.rune # -1
  /\ content' = [C!Empty EXCEPT !.bytes =
       <<48 + detected.rune \div 100, 48 + ((detected.rune \div 10) % 10), 48 + (detected.rune % 10)>>]
  /\ reading' = "done" /\ stage' = "over"
  /\ UNCHANGED <<encoderVars, allBits, remBits, tableVars, haveFNC1, outcomeVars, input, symbol, detected>>

(* CorrectBits.  Check words are computed only where words are damaged; of *)
(* what the decoder throws only an Error is caught.                        *)
NumEC == NumCodewords(detected.size) - detected.numWords
DataField == IF detected.size.layers <= 2 THEN AztecData6 ELSE DataMatrixField256
DamagedWords == IF input.kind = "symbol" THEN DOMAIN input.errors ELSE {}
Received ==                                  \* with the words of the message first
  LET sent == ReedSolomonEncode(DataField, symbol.words, NumEC)
  IN  SubSeq([k \in DOMAIN sent |-> IF k \in DamagedWords THEN XOR(sent[k], input.errors[k]) ELSE sent[k]],
             1, Len(sent))
CorrectedWords ==
  IF DamagedWords = {} THEN Result("corrected", symbol.words)
  ELSE ReedSolomonDecode(DataField, Received, NumEC)
DataBits(words) ==
  CorrectedBits(SubSeq(words, 1, detected.numWords), CodewordSize(detected.size.layers))

TooManyWords ==
  /\ stage = "correct" /\ detected.rune = -1 /\ NumEC < 0
  /\ reading' = "done" /\ error' = "Format" /\ stage' = "over"
  /\ UNCHANGED <<encoderVars, allBits, remBits, tableVars, content, haveFNC1, modifier, aiFlag, sai,
                 input, symbol, detected>>

CorrectBits ==
  /\ stage = "correct" /\ detected.rune = -1 /\ NumEC >= 0
  /\ \E result \in {CorrectedWords} :
       \/ /\ result.outcome = "corrected"
          /\ \E bs \in {DataBits(result.message)} : Decode(bs)
          /\ stage' = "decode"
       \/ /\ result.outcome = "failed"
          /\ reading' = "done" /\ error' = "Checksum" /\ stage' = "over"
          /\ UNCHANGED <<allBits, remBits, tableVars, content, haveFNC1, modifier, aiFlag, sai>>
       \/ /\ result.outcome = "thrown" /\ stage' = "thrown" /\ UNCHANGED decoderVars
  /\ UNCHANGED <<encoderVars, input, symbol, detected>>

ReadContent ==
  /\ stage = "decode" /\ DecoderNext
  /\ stage' = (IF reading' = "done" THEN "over" ELSE "decode")
  /\ UNCHANGED <<encoderVars, input, symbol, detected>>

AllDone == stage \in {"over", "refused", "thrown"} /\ UNCHANGED vars

Next ==
  \/ Encode \/ EncodeEnd \/ PrintRune \/ PrintText \/ PrintSegments \/ PrintMode
  \/ Detect \/ DecodeRune \/ TooManyWords \/ CorrectBits \/ ReadContent \/ AllDone
Spec == Init /\ [][Next]_vars
-----------------------------------------------------------------------------
(* The text is read back from the symbol it was written to, a rune as its  *)
(* three digits (test/unit/aztec/AZEncodeDecodeTest.cpp); an empty text is *)
(* written with a mode message that is not its own.                        *)
Answered == stage \in {"over", "thrown"}
Decimal(n) == <<48 + n \div 100, 48 + ((n \div 10) % 10), 48 + (n % 10)>>
ReadBack ==
  Answered /\ input.kind = "text" /\ text # <<>> =>
    /\ content = [C!Empty EXCEPT !.bytes =
                    IF input.layers = AZTEC_RUNE_LAYERS THEN Decimal(text[1]) ELSE text]
    /\ error = "None" /\ sai = NoPart /\ modifier = 0 /\ aiFlag = "None"
    /\ ~detected.readerInit /\ detected.size = symbol.size

-----------------------------------------------------------------------------
(* What a symbol means, told from its segments.                            *)
Spoken ==
  {"UPPER", "LOWER", "MIXED", "PUNCT", "DIGIT", "PS", "LOWER_US", "DIGIT_US", "DIGIT_PS", "BINARY",
   "LOWER_BINARY", "DIGIT_US_BINARY", "PAIR"}
Of(segments, kinds) == {k \in DOMAIN segments : segments[k].kind \in kinds}
LastOf(places) == CHOOSE n \in places : \A k \in places : k <= n
TextBefore(segments, k) ==
  FoldLeft(LAMBDA t, s : t \o IF s.kind \in Spoken THEN s.text ELSE <<>>, <<>>, SubSeq(segments, 1, k - 1))
Role(segments) ==                            \* of the first FNC1
  LET fnc1 == Of(segments, {"FNC1"})
      before == TextBefore(segments, FirstOf(fnc1))
  IN  CASE fnc1 = {} -> "None"
        [] fnc1 # {} /\ before = <<>> -> "GS1"
        [] \/ fnc1 # {} /\ Len(before) = 1 /\ ToSet(before) \subseteq Upper
           \/ fnc1 # {} /\ Len(before) = 2 /\ ToSet(before) \subseteq Digits -> "AIM"
        [] OTHER -> "None"
Said(segments, k) ==
  CASE segments[k].kind \in Spoken -> segments[k].text
    [] segments[k].kind = "FNC1" ->
         IF Role(segments) # "None" /\ k = FirstOf(Of(segments, {"FNC1"})) THEN <<>> ELSE <<GS>>
    [] OTHER -> <<>>
MarkOf(segments, k) ==
  LET before == {j \in Of(segments, {"ECI"}) : j < k}
  IN  IF before = {} THEN -2 ELSE segments[LastOf(before)].text[1]
MeantText(segments) ==
  FoldLeft(LAMBDA t, k : t \o [i \in DOMAIN Said(segments, k) |-> <<Said(segments, k)[i], MarkOf(segments, k)>>],
           <<>>, [k \in DOMAIN segments |-> k])
MeantPart(segments) ==
  IF Of(segments, {"PART"}) = {} THEN NoPart
  ELSE LET s == segments[LastOf(Of(segments, {"PART"}))].text
       IN  [index |-> s[1], count |-> IF s[2] > s[1] /\ s[2] # 1 THEN s[2] ELSE 0, id |-> SubSeq(s, 3, Len(s))]
MeantError(segments) ==
  IF Of(segments, {"BITS"}) # {} \/ MeantText(segments) = <<>> THEN "Format" ELSE "None"

AsMeant(segments) ==
  /\ C!StreamOf(content) = [text |-> MeantText(segments), current |-> MarkOf(segments, Len(segments) + 1),
                            eci |-> Of(segments, {"ECI"}) # {}]
  /\ sai = MeantPart(segments) /\ aiFlag = Role(segments)
  /\ modifier = (CASE Role(segments) = "None" -> 0 [] Role(segments) = "GS1" -> 1 [] Role(segments) = "AIM" -> 2)
                + IF sai = NoPart THEN 0 ELSE 6

(* A symbol is read as it was meant, whoever encoded it and with half as   *)
(* many words damaged as it has check words, or the error is told; so is   *)
(* that it has no room for the words it announces.                         *)
ReadAsMeant ==
  Answered /\ input.kind = "symbol" =>
    CASE NumEC < 0 -> error = "Format"
      [] NumEC >= 0 /\ Cardinality(DamagedWords) <= NumEC \div 2 ->
           /\ error = MeantError(input.segments)
           /\ error = "None" => AsMeant(input.segments)
      [] OTHER -> TRUE

-----------------------------------------------------------------------------
(* A mode message with as many wrong words as half its check words, that   *)
(* of a rune with one wrong word, is read as it was written, and neither a *)
(* symbol nor a rune is taken for the other.                               *)
CorrectableErrors == (NumModeWords(symbol.size.compact) - NumModeData(symbol.size.compact)) \div 2
WrongWords == Cardinality(DOMAIN input.errors)
Written ==
  IF input.rune # -1 THEN [NoMode EXCEPT !.read = TRUE, !.rune = input.rune]
  ELSE [read |-> TRUE, size |-> input.size, numWords |-> input.numWords, readerInit |-> FALSE, rune |-> -1]
ModeMessageRead ==
  input.kind = "mode" /\ stage = "over"
    /\ WrongWords <= (IF input.rune # -1 THEN 1 ELSE CorrectableErrors) => detected = Written

(* Every module of a symbol belongs to one bit of the message, one of the  *)
(* mode message, the finder or the alignment grid; bits are read where     *)
(* they were drawn and the marks leave the others' modules alone.          *)
LayoutSound ==
  input.kind = "layout" =>
    \E map \in {AlignmentMap(input.size)} : \E places \in {Places(input.size)} :
    LET s == input.size
        drawn == {DrawnAt(s, map, p[1], p[2], p[3], p[4]) : p \in places}
        mode == {ModeDrawnAt(s, n) : n \in 0 .. 4 * ModeSide(s) - 1}
        core == {p \in Square(s) : Distance(s, p) <= CoreRadius(s)}
        grid == {p \in Square(s) : OnGrid(s, p)}
    IN  /\ SampledSize(s) = MatrixSize(s)
        /\ Cardinality(places) = TotalBits(s) /\ Cardinality(drawn) = TotalBits(s)
        /\ \A p \in places : DrawnAt(s, map, p[1], p[2], p[3], p[4]) = ExtractedAt(s, map, p[1], p[2], p[3], p[4])
        /\ drawn \cap (core \cup grid) = {} /\ drawn \cup core \cup grid = Square(s)
        /\ \A n \in 0 .. 4 * ModeSide(s) - 1 : ModeDrawnAt(s, n) = ModeReadAt(s, n)
        /\ Cardinality(mode) = 4 * ModeSide(s) /\ mode \subseteq core \ (OrientationMarks(s) \cup grid)
        /\ \A p \in AlignmentMarks(s) :
             OnGrid(s, p) /\ (Distance(s, p) < CoreRadius(s) => p \in Rings(s))

=============================================================================
