------------------------------ MODULE DataMatrix ------------------------------
(***************************************************************************)
(* A Data Matrix symbol from the text to the symbol and back: Writer       *)
(* (DMWriter.cpp) encodes a text, looks up the symbol its codewords fill,  *)
(* interleaves the blocks and places the codewords; Decode (DMDecoder.cpp) *)
(* finds the version by the dimensions, separates and corrects the blocks  *)
(* and parses the data, and tries once more with the symbol mirrored.      *)
(*                                                                         *)
(* An input is a text, a symbol with the segments some other encoder wrote *)
(* into it, or an area whose modules are visited.                          *)
(***************************************************************************)
EXTENDS DMHighLevelEncoder, DMDecoder

CONSTANT Inputs

ASSUME InputsAssumption ==
  \A in \in Inputs :
    /\ in.kind \in {"text", "symbol", "layout"}
    /\ in.kind = "text" => in.text \in Seq(0 .. 255) /\ in.shape \in Shapes
    /\ in.kind = "symbol" => in.version \in DOMAIN AllVersions
    /\ in.kind = "layout" => in.version \in DOMAIN AllVersions

VARIABLES
  input,
  symbol,         \* height, width, codewords of the symbol and its data
  attempt,        \* of Decode: 0, 1, or 2 for the mirrored symbol
  fix259,
  isMirrored,
  result,         \* the DecoderResult that is returned
  area, row, col, sweep, visits
placing == <<area, row, col, sweep, visits>>
reader == <<attempt, fix259, isMirrored, result>>
vars == <<encoderVars, decoderVars, input, symbol, reader, placing>>

P == INSTANCE DMPlacement

NotPrinted == [height |-> 0, width |-> 0, codewords |-> <<>>, data |-> <<>>]
None == "None"
NoResult == [error |-> None, content |-> C!Empty, symbology |-> [modifier |-> 1, aiFlag |-> None],
             sai |-> NoPart, readerInit |-> FALSE]
Call(in) ==
  IF in.kind = "text" THEN [text |-> in.text, shape |-> in.shape, limits |-> in.limits]
  ELSE [text |-> <<>>, shape |-> "NONE", limits |-> NoLimits]
Rows(in) == DataHeight(AllVersions[in.version])
Cols(in) == DataWidth(AllVersions[in.version])

Init ==
  /\ input \in Inputs /\ call = Call(input) /\ EncoderInit /\ DecoderInit
  /\ symbol = NotPrinted /\ attempt = 0 /\ fix259 = FALSE /\ isMirrored = FALSE
  /\ result = NoResult
  /\ IF input.kind = "layout" THEN P!Start(Rows(input), Cols(input))
     ELSE area = [rows |-> 0, cols |-> 0] /\ row = 0 /\ col = 0 /\ sweep = "done" /\ visits = <<>>
-----------------------------------------------------------------------------
Place ==
  /\ input.kind = "layout" /\ P!Next
  /\ UNCHANGED <<encoderVars, decoderVars, input, symbol, reader>>

Encode ==
  /\ input.kind = "text" /\ symbol = NotPrinted /\ EncoderNext
  /\ UNCHANGED <<decoderVars, input, symbol, reader, placing>>

(* The writer looks the symbol up again, by the number of codewords.       *)
PrintText ==
  /\ phase = "encoded" /\ symbol = NotPrinted
  /\ \E i \in {Lookup(Len(codewords), call.shape, call.limits)} :
       LET s == PROD_SYMBOLS[i]
       IN  symbol' = [height |-> SymbolHeight(s), width |-> SymbolWidth(s),
                      codewords |-> EncodeECC200(s), data |-> codewords]
  /\ UNCHANGED <<encoderVars, decoderVars, input, reader, placing>>
-----------------------------------------------------------------------------
(* What other encoders write.                                              *)
Segment(kind, text) == [kind |-> kind, text |-> text]
Concatenated(Of(_), n) ==
  LET f[k \in 0 .. n] == IF k = 0 THEN <<>> ELSE f[k - 1] \o Of(k) IN f[n]
FilledUp(values) == values \o [k \in 1 .. (-Len(values)) % 3 |-> 0]
OfECI(e) ==
  CASE e <= 126 -> <<e + 1>>
    [] e \in 127 .. 16382 -> <<(e - 127) \div 254 + 128, ((e - 127) % 254) + 1>>
    [] OTHER -> <<(e - 16383) \div 64516 + 192, (((e - 16383) \div 254) % 254) + 1,
                  ((e - 16383) % 254) + 1>>
Fours(values) ==
  LET Four(k) == EDIFACTCodewords(SubSeq(values, 4 * k - 3, IF 4 * k < Len(values) THEN 4 * k ELSE Len(values)))
  IN  Concatenated(Four, (Len(values) + 3) \div 4)

InSegment(s, n) ==                           \* after n codewords
  LET Character(k) == InASCII(s.text[k])
      Pair(k) == <<130 + 10 * (s.text[2 * k - 1] - 48) + s.text[2 * k] - 48>>
      CharValues(k) == Values(s.kind, s.text[k])
      XValue(k) == <<X12Value(s.text[k])>>
  IN  CASE s.kind = "ASCII" -> Concatenated(Character, Len(s.text))
        [] s.kind = "DIGITS" -> Concatenated(Pair, Len(s.text) \div 2)
        [] s.kind \in {"C40", "TEXT"} ->
             <<LATCHES[s.kind]>> \o Triplets(FilledUp(Concatenated(CharValues, Len(s.text)))) \o <<UNLATCH>>
        [] s.kind = "X12" ->
             <<LATCHES["X12"]>> \o Triplets(Concatenated(XValue, Len(s.text))) \o <<UNLATCH>>
        [] s.kind = "EDIFACT" ->
             <<LATCHES["EDIFACT"]>> \o Fours(Append(s.text, EDIFACTUnlatch))
        [] s.kind = "BASE256" ->
             LET plain == LengthField(Len(s.text), FALSE) \o s.text
             IN  <<LATCHES["BASE256"]>>
                 \o [k \in DOMAIN plain |-> Randomize255State(plain[k], n + 1 + k)]
        [] s.kind = "FNC1" -> <<232>>
        [] s.kind = "ECI" -> <<241>> \o OfECI(s.text[1])
        [] s.kind = "PART" -> <<233, 16 * s.text[1] + 17 - s.text[2], s.text[3], s.text[4]>>
        [] s.kind = "INIT" -> <<234>>
        [] s.kind = "MACRO" -> <<IF s.text = <<53>> THEN 236 ELSE 237>>
        [] s.kind \in {"CODEWORDS", "NOISE"} -> s.text
SegmentCodewords(segments) ==
  LET f[k \in 0 .. Len(segments)] ==
        IF k = 0 THEN <<>> ELSE f[k - 1] \o InSegment(segments[k], Len(f[k - 1]))
  IN  f

(* A symbol of version v that holds them, or as much as fits; the blocks   *)
(* of 144 x 144 may be interleaved as the retry expects.                   *)
DataCodewords(v) == TotalCodewords(v) - v.ec * NumBlocks(v)
StandardOrder(v, turned) ==
  [n \in 1 .. TotalCodewords(v) |->
     LET d == DataCodewords(v)
         turn == (n - d - 1) % NumBlocks(v)
         j == IF n <= d THEN ((n - 1) % NumBlocks(v)) + 1
              ELSE IF turned THEN ((turn + 8) % NumBlocks(v)) + 1 ELSE turn + 1
     IN  IF n <= d THEN Codeword(j, (n - 1) \div NumBlocks(v) + 1)
         ELSE Codeword(j, DataOf(v, j) + (n - d - 1) \div NumBlocks(v) + 1)]

PrintSegments ==
  /\ input.kind = "symbol" /\ symbol = NotPrinted
  /\ \E written \in {SegmentCodewords(input.segments)[Len(input.segments)]} :
       LET v == AllVersions[input.version]
           d == DataCodewords(v)
       IN  symbol' = [height |-> v.height, width |-> v.width, codewords |-> StandardOrder(v, input.turned),
                      data |-> IF Len(written) < d THEN Padded(written, d) ELSE SubSeq(written, 1, d)]
  /\ UNCHANGED <<encoderVars, decoderVars, input, reader, placing>>
-----------------------------------------------------------------------------
(* DoDecode.  A damaged block, one with the EC codewords of another and    *)
(* those of a symbol seen from its back cannot be corrected.               *)
Mirrored == input.kind = "symbol" /\ input.mirrored
Damaged == input.kind = "symbol" /\ input.damage = "beyond"
SeenFromFront == IF Mirrored THEN attempt = 2 ELSE attempt = 1
Correctable(blocks) ==
  /\ ~Damaged /\ SeenFromFront
  /\ \A j \in DOMAIN blocks : \A i \in DOMAIN blocks[j] :
       symbol.codewords[blocks[j][i]].block = j

Turned(h, w) == IF attempt = 2 THEN <<w, h>> ELSE <<h, w>>   \* FlippedL
VersionsNow ==
  VersionForDimensions(Turned(symbol.height, symbol.width)[1], Turned(symbol.height, symbol.width)[2])

(* Deinterleaved: the places of the data in the order of the result.       *)
ResultOrder(v, blocks) ==
  [n \in 1 .. DataCodewords(v) |->
     blocks[((n - 1) % NumBlocks(v)) + 1][(n - 1) \div NumBlocks(v) + 1]]

StartDecode ==
  /\ attempt = 0 /\ symbol # NotPrinted
  /\ attempt' = 1 /\ UNCHANGED <<encoderVars, decoderVars, input, symbol, fix259, isMirrored, result, placing>>

(* The second attempt is made if the first has an error, and counts unless *)
(* it ends in a checksum error.                                            *)
Return(res) ==
  IF attempt = 1
    THEN /\ result' = res
         /\ attempt' = IF res.error = None THEN 3 ELSE 2
         /\ fix259' = FALSE /\ UNCHANGED isMirrored
    ELSE /\ attempt' = 3 /\ UNCHANGED fix259
         /\ isMirrored' = (res.error # "Checksum")
         /\ result' = IF res.error # "Checksum" THEN res ELSE result
Only(e) == [NoResult EXCEPT !.error = e]

Attempting == attempt \in {1, 2} /\ reading = "no"
BlocksOf(i) == GetDataBlocks(AllVersions[i], fix259, Len(symbol.codewords))
NoBlocks ==
  /\ Attempting /\ (\A i \in VersionsNow : BlocksOf(i) = <<>>) /\ Return(Only("Format"))
  /\ UNCHANGED <<encoderVars, decoderVars, input, symbol, placing>>

(* The data bytes follow the result's order; the retry is for 144 x 144.   *)
CorrectErrors ==
  /\ Attempting
  /\ \E i \in VersionsNow :
     \E blocks \in {BlocksOf(i)} \ {<<>>} :
       IF Correctable(blocks)
         THEN /\ \E order \in {ResultOrder(AllVersions[i], blocks)} :
                   Decode([n \in DOMAIN order |-> symbol.data[order[n]]], IsDMRE(AllVersions[i]))
              /\ UNCHANGED reader
         ELSE IF AllVersions[i].number = 24 /\ ~fix259
           THEN fix259' = TRUE /\ UNCHANGED <<decoderVars, attempt, isMirrored, result>>
           ELSE Return(Only("Checksum")) /\ UNCHANGED decoderVars
  /\ UNCHANGED <<encoderVars, input, symbol, placing>>

Parse ==
  /\ reading \notin {"no", "done", "leaked"} /\ DecoderNext
  /\ UNCHANGED <<encoderVars, input, symbol, reader, placing>>

(* The parser's result is returned and its variables are gone.             *)
Parsed ==
  /\ reading = "done"
  /\ Return([error |-> error, content |-> content, symbology |-> symbology, sai |-> sai,
             readerInit |-> readerInit])
  /\ reading' = "no" /\ bytes' = <<>> /\ isDMRE' = FALSE /\ pos' = 0 /\ content' = C!Empty
  /\ shift' = 0 /\ upper' = FALSE /\ upperShift' = FALSE
  /\ symbology' = [modifier |-> 1, aiFlag |-> None] /\ sai' = NoPart /\ readerInit' = FALSE
  /\ firstFNC1Position' = 1 /\ trailer' = <<>> /\ error' = None
  /\ UNCHANGED <<encoderVars, input, symbol, placing>>

Over ==
  \/ attempt = 3 \/ phase = "thrown" \/ reading = "leaked"
  \/ input.kind = "layout" /\ sweep = "done"
Returned == Over /\ UNCHANGED vars

Next ==
  \/ Place \/ Encode \/ PrintText \/ PrintSegments
  \/ StartDecode \/ NoBlocks \/ CorrectErrors \/ Parse \/ Parsed
  \/ Returned
Spec == Init /\ [][Next]_vars
-----------------------------------------------------------------------------
(* The history of what the encoder gets wrong without notice: values of    *)
(* other characters removed while backtracking, or an unlatch omitted for  *)
(* a symbol that grew afterwards.                                          *)
FaultFree ==
  /\ ~history.lost
  /\ history.omittedAt = 0 \/ Capacity(symbolInfo) - history.omittedAt <= history.room

(* The text is read back from the symbol it was written to (test/unit/     *)
(* datamatrix/DMEncodeDecodeTest.cpp).                                     *)
Answered == attempt = 3 \/ reading = "leaked"
AsWritten ==
  /\ reading # "leaked" /\ result.error = None /\ result.content = [C!Empty EXCEPT !.bytes = call.text]
  /\ result.sai = NoPart /\ ~result.readerInit /\ ~isMirrored
ReadBackAlways == Answered /\ input.kind = "text" => AsWritten

(* ... unless the encoder met one of the faults above.                     *)
ReadBack == Answered /\ input.kind = "text" /\ FaultFree => AsWritten

(* The symbol is the first that has room for the codewords, whatever room  *)
(* was looked up, and given up by backtracking, on the way; the writer     *)
(* finds it again by the number of codewords (DMWriter.cpp).               *)
SmallestSymbol ==
  [][(phase = "encode" /\ phase' = "encoded") =>
       /\ symbolInfo' = Lookup(Len(codewords), call.shape, call.limits)
       /\ Lookup(Len(codewords'), call.shape, call.limits) = symbolInfo']_vars
-----------------------------------------------------------------------------
(* A layout visits every module once, but for the corner with the fixed    *)
(* pattern, and as many times eight as the symbol has codewords; and the   *)
(* reader takes the modules of the data regions from where the writer puts *)
(* them between the finder patterns.                                       *)
WrittenSymbols(v) ==
  {s \in {PROD_SYMBOLS[i] : i \in DOMAIN PROD_SYMBOLS} :
     SymbolHeight(s) = v.height /\ SymbolWidth(s) = v.width}
ModulesVisitedOnce ==
  input.kind = "layout" /\ sweep = "done" =>
    LET v == AllVersions[input.version]
    IN  /\ Len(visits) = TotalCodewords(v)
        /\ P!Unvisited \in {{}, P!LowerRight}
        /\ Cardinality(P!Visited) = 8 * Len(visits)
        /\ \A s \in WrittenSymbols(v) :
             /\ \A x \in 0 .. DataWidth(v) - 1 : PlacedAt(x, s.width) = ExtractedFrom(x, v.blockWidth)
             /\ \A y \in 0 .. DataHeight(v) - 1 : PlacedAt(y, s.height) = ExtractedFrom(y, v.blockHeight)

(* The blocks of a symbol are of the codewords they were made of.          *)
BlocksAsMade ==
  LET v == AllVersions[CHOOSE i \in VersionsNow : TRUE]
      blocks == BlocksOf(CHOOSE i \in VersionsNow : TRUE)
  IN  /\ \A j \in DOMAIN blocks : \A i \in DOMAIN blocks[j] :
           symbol.codewords[blocks[j][i]] = Codeword(j, i)
      /\ bytes = symbol.data
-----------------------------------------------------------------------------
(* What a symbol means, told from its segments.                            *)
Text == {"ASCII", "DIGITS", "C40", "TEXT", "X12", "EDIFACT", "BASE256"}
Of(segments, kinds) == {k \in DOMAIN segments : segments[k].kind \in kinds}
LastOf(indices) == CHOOSE n \in indices : \A k \in indices : k <= n
IsFirst(segments, k) == \A j \in 1 .. k - 1 : segments[j].kind = "PART"
IsSecond(segments, k) ==
  LET n == [j \in 0 .. k - 1 |-> Len(SegmentCodewords(segments)[j])]
  IN  \E j \in 1 .. k - 1 : IsFirst(segments, j) /\ n[k - 1] = n[j - 1] + 1
FNC1s(segments, Is(_, _)) == {k \in Of(segments, {"FNC1"}) : Is(segments, k)}

Said(segments, k) ==
  CASE segments[k].kind \in Text -> segments[k].text
    [] segments[k].kind = "FNC1" /\ ~IsFirst(segments, k) /\ ~IsSecond(segments, k) -> <<GS>>
    [] segments[k].kind = "MACRO" -> Header(segments[k].text[1])
    [] OTHER -> <<>>
MarkOf(segments, k) ==
  LET before == {j \in Of(segments, {"ECI"}) : j < k}
  IN  IF before = {} THEN -2 ELSE segments[LastOf(before)].text[1]
Marked(text, mark) == [i \in DOMAIN text |-> <<text[i], mark>>]

Meaning(segments) ==
  LET MarkedAt(k) == Marked(Said(segments, k), MarkOf(segments, k))
      last == MarkOf(segments, Len(segments) + 1)
      first == FNC1s(segments, IsFirst)
      second == FNC1s(segments, IsSecond)
      parts == Of(segments, {"PART"})
      modifier == IF second # {} THEN 3 ELSE IF first # {} THEN 2 ELSE 1
  IN  [stream |-> [text |-> Concatenated(MarkedAt, Len(segments))
                            \o Marked(IF Of(segments, {"MACRO"}) = {} THEN <<>> ELSE Trailer, last),
                   current |-> last, eci |-> Of(segments, {"ECI"}) # {}],
       symbology |-> [modifier |-> modifier + (IF IsDMRE(AllVersions[input.version]) THEN 6 ELSE 0),
                      aiFlag |-> IF modifier = 2 THEN "GS1" ELSE None],
       sai |-> IF parts = {} THEN NoPart
               ELSE LET s == segments[LastOf(parts)].text
                    IN  [index |-> s[1], count |-> IF s[2] \in s[1] + 1 .. 16 THEN s[2] ELSE 0,
                         id |-> 256 * s[3] + s[4]],
       readerInit |-> Of(segments, {"INIT"}) # {},
       error |-> IF \/ \E k \in Of(segments, {"PART", "INIT"}) : k > 1
                    \/ Of(segments, {"CODEWORDS"}) # {} THEN "Format" ELSE None]

(* A symbol is read as it was meant, whoever encoded it, mirrored or not,  *)
(* from the blocks it was made of, also where the encoder rotated the EC   *)
(* codewords of 144 x 144 (the retry of DoDecode).                         *)
(* The error of a rectangular symbol is replaced by that of its mirror     *)
(* image, which has no version.                                            *)
HasNoise == Of(input.segments, {"NOISE"}) # {}
IsCut == Len(symbol.data) < Len(SegmentCodewords(input.segments)[Len(input.segments)])
Rectangular == symbol.height # symbol.width
MeantAs(meaning) ==
  CASE Damaged -> result.error = IF Rectangular THEN "Format" ELSE "Checksum"
    [] ~Damaged /\ Rectangular /\ meaning.error # None -> result = Only("Format")
    [] OTHER ->
         /\ isMirrored = Mirrored
         /\ meaning = [stream |-> C!StreamOf(result.content), symbology |-> result.symbology,
                       sai |-> result.sai, readerInit |-> result.readerInit, error |-> result.error]
ReadAsMeant ==
  /\ reading = "ASCII" /\ pos = 0 => BlocksAsMade
  /\ Answered /\ input.kind = "symbol" /\ ~IsCut /\ ~HasNoise =>
       reading # "leaked" /\ MeantAs(Meaning(input.segments))
=============================================================================
