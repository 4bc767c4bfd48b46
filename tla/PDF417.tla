-------------------------------- MODULE PDF417 --------------------------------
(***************************************************************************)
(* A PDF417 symbol from the text to the symbol and back.  The encoder      *)
(* (PDFEncoder.cpp) compacts a text, chooses the columns and rows and adds *)
(* error correction.  ScanningDecoder::Decode (PDFScanningDecoder.cpp)     *)
(* reads the row indicators in an image, the columns between them, finds   *)
(* the rows of their codewords, lets those of a place vote, and corrects   *)
(* and decodes what has been voted for, once for each choice between       *)
(* values with as many votes.                                              *)
(*                                                                         *)
(* An input is a text, or a symbol with the segments some other encoder    *)
(* wrote into it, the codewords of which are handed to DecodeCodewords, as *)
(* DecodePure does, or seen in an image.                                   *)
(***************************************************************************)
EXTENDS PDFHighLevelEncoder, PDFArithmetic, PDFRows, PDFDecoder

CONSTANT Inputs

ASSUME InputsAssumption ==
  \A in \in Inputs :
    /\ in.kind \in {"text", "symbol", "image"}
    /\ in.level \in 0 .. 4
    /\ in.kind = "text" =>
         /\ in.text \in Seq(0 .. 2047) /\ in.charset \in {"ISO8859_1", "UTF8"}
         /\ in.compaction \in {"AUTO", "TEXT", "BYTE", "NUMERIC"}
    /\ in.kind = "image" => in.height \in Nat \ {0} /\ CanCreate(in.corners)

VARIABLES
  input, stage,
  symbol,           \* its columns, rows, level and codewords
  box, left, right, \* the bounding box, the row indicator columns
  grown,            \* whether the box has been
  metadata,
  columns,          \* by number, from 0 to that of the right indicators
  unadjusted,
  values,           \* what each place of the symbol may hold
  received, choice, tries
scanVars == <<box, left, right, grown, metadata, columns, unadjusted>>
tryVars == <<values, received, choice, tries>>
vars == <<encoderVars, decoderVars, input, stage, symbol, scanVars, tryVars>>

NotPrinted == [cols |-> 0, rows |-> 0, level |-> 0, codewords |-> <<>>]
NumEC(level) == GetErrorCorrectionCodewordCount(level)
Init ==
  /\ input \in Inputs /\ stage = (IF input.kind = "text" THEN "encode" ELSE "segments")
  /\ msg = (IF input.kind = "text" THEN input.text ELSE <<>>)
  /\ EncoderInit(IF input.kind = "text" THEN input.charset ELSE "ISO8859_1") /\ DecoderInit
  /\ symbol = NotPrinted /\ box = NoBox /\ left = NoColumn /\ right = NoColumn /\ grown = FALSE
  /\ metadata = NoMetadata /\ columns = <<>> /\ unadjusted = MAX_CODEWORDS_IN_BARCODE
  /\ values = <<>> /\ received = <<>> /\ choice = <<>> /\ tries = 100
-----------------------------------------------------------------------------
(* generateBarcodeLogic.                                                   *)
Encode ==
  /\ stage = "encode"
  /\ IF input.compaction = "AUTO" THEN EncodeDigits \/ EncodeText \/ EncodeBytes(input.charset)
     ELSE EncodeAll(input.compaction, input.charset)
  /\ UNCHANGED <<decoderVars, input, stage, symbol, scanVars, tryVars>>

Laid(dimensions, level) ==
  \E d \in dimensions :
    symbol' = [cols |-> d.cols, rows |-> d.rows, level |-> level,
               codewords |-> Codewords(highLevel, level, d.cols, d.rows)]
TooMany == Len(highLevel) + NumEC(input.level) + 1 > NUMBER_OF_CODEWORDS
PrintText ==
  /\ stage = "encode" /\ p = Len(msg)
  /\ \E ds \in {DetermineDimensions(input.limits, Len(highLevel), NumEC(input.level))} :
       IF ds = {} \/ TooMany THEN stage' = "refused" /\ UNCHANGED symbol
       ELSE stage' = "locate" /\ Laid(ds, input.level)
  /\ UNCHANGED <<encoderVars, decoderVars, input, scanVars, tryVars>>
-----------------------------------------------------------------------------
(* What other encoders write: segments that begin with a latch, but for a  *)
(* first one of text.                                                      *)
Segment(kind, data, says) == [kind |-> kind, data |-> data, says |-> says]
ByteLatchFor(bytes) == IF Len(bytes) % 6 = 0 THEN BYTE_LATCH_6 ELSE BYTE_LATCH
InSegment(s) ==
  CASE s.kind = "text" -> <<TEXT_LATCH>> \o Pairs(TextValues(s.data, 0, Len(s.data), "ALPHA").values)
    [] s.kind = "values" -> Pairs(s.data)    \* of the text compaction going on
    [] s.kind = "shift" -> <<MODE_SHIFT_TO_BYTE>> \o s.data
    [] s.kind = "bytes" -> <<ByteLatchFor(s.data)>> \o BytesCompacted(s.data)
    [] s.kind = "more" -> BytesCompacted(s.data)
    [] s.kind = "digits" -> <<NUMERIC_LATCH>> \o EncodeNumeric(s.data, 0, Len(s.data))
    [] s.kind = "number" -> EncodeNumeric(s.data, 0, Len(s.data))
    [] s.kind = "ECI" -> EncodingECI(s.data[1])
    [] s.kind = "part" ->
         <<MACRO_CONTROL_BLOCK>> \o Padded(InBase(900, 10, <<1>> \o Padded(InBase(10, 900, <<s.data[1]>>), 5)), 2)
         \o Tail(s.data)
    [] s.kind = "field" -> <<OPTIONAL_FIELD>> \o s.data
    [] s.kind = "code" -> s.data
WrittenCodewords(segments) == FoldLeft(LAMBDA cws, s : cws \o InSegment(s), <<>>, segments)
(* The padding stands before the control block of a part.                  *)
Of(segments, kinds) == {k \in DOMAIN segments : segments[k].kind \in kinds}
BeforePart(segments) ==
  LET parts == Of(segments, {"part"}) IN IF parts = {} THEN Len(segments) ELSE MinOf(parts) - 1
PaddedCodewords(segments, pad) ==
  LET n == BeforePart(segments)
  IN  WrittenCodewords(SubSeq(segments, 1, n)) \o [i \in 1 .. pad |-> PAD]
      \o WrittenCodewords(SubSeq(segments, n + 1, Len(segments)))

LengthTold(told, n) == CASE told = "rightly" -> n [] told = "as none" -> 0 [] told = "as too many" -> 900

PrintSegments ==
  /\ stage = "segments" /\ stage' = (IF input.kind = "image" THEN "locate" ELSE "corrupt")
  /\ \E m \in {Len(WrittenCodewords(input.segments))} :
       \E k \in {NumEC(input.level)} :
         \E rows \in {GreatestOf(CalculateNumberOfRows(m, k, input.cols), MIN_ROWS_IN_BARCODE)} :
           symbol' = [cols |-> input.cols, rows |-> rows, level |-> input.level,
                      codewords |-> GenerateErrorCorrection(
                        <<LengthTold(input.told, input.cols * rows - k)>>
                        \o PaddedCodewords(input.segments, GetNumberOfPadCodewords(m, k, input.cols, rows)), input.level)]
  /\ UNCHANGED <<encoderVars, decoderVars, input, scanVars, tryVars>>

(* DecodePure: the codewords of a symbol, of which some may be unread (-1) *)
(* or read as others.                                                      *)
Clamped(n) == GreatestOf(0, LeastOf(n, MAX_CODEWORDS_IN_BARCODE))
ReadPure ==
  /\ stage = "corrupt" /\ stage' = "try"
  /\ received' = [k \in DOMAIN symbol.codewords |->
                    Clamped(IF k \in DOMAIN input.errors THEN input.errors[k] ELSE symbol.codewords[k])]
  /\ values' = [k \in DOMAIN received' |-> <<received'[k]>>]
  /\ metadata' = [NoMetadata EXCEPT !.columns = symbol.cols, !.level = symbol.level]
  /\ UNCHANGED <<encoderVars, decoderVars, input, symbol, box, left, right, grown, columns, unadjusted, choice, tries>>
-----------------------------------------------------------------------------
(* The image: what DetectCodeword finds in one of its rows where a column  *)
(* of the symbol is.  A column may begin lower than the others.  The image *)
(* of a text is the one the writer makes.                                  *)
Height == IF input.kind = "text" THEN 4 ELSE input.height
TopOf(x) == IF input.kind = "text" THEN 2 ELSE input.top + (IF x \in DOMAIN input.skew THEN input.skew[x] ELSE 0)
Lines == IF input.kind = "text" THEN 4 * symbol.rows + 4 ELSE input.lines
CornersSeen ==
  IF input.kind = "text" THEN Corners(2, Lines - 3, 2, Lines - 3) ELSE input.corners
TrueRow(x, line) == (line - TopOf(x)) \div Height
IsPrinted(x, line) == x \in 0 .. symbol.cols + 1 /\ line >= TopOf(x) /\ TrueRow(x, line) < symbol.rows
Damage == IF input.kind = "image" THEN input.damage ELSE <<>>
SeenAt(pages, x, line) ==                    \* pages: all columns as printed
  IF ~IsPrinted(x, line) THEN NoCodeword
  ELSE IF <<x, line>> \in DOMAIN Damage THEN Damage[<<x, line>>]
  ELSE [bucket |-> BucketOf(TrueRow(x, line)), value |-> pages[x][TrueRow(x, line)], row |-> UNKNOWN]
Pages == Printed(symbol.codewords, symbol.cols, symbol.rows, symbol.level)
ColumnSeen(pages, x, b) == SubSeq([i \in 1 .. MaxY(b) - MinY(b) + 1 |-> SeenAt(pages, x, MinY(b) + i - 1)],
                                  1, MaxY(b) - MinY(b) + 1)

(* ScanningDecoder::Decode.                                                *)
Locate ==
  /\ stage = "locate" /\ stage' = "indicators" /\ box' = Box(CornersSeen)
  /\ UNCHANGED <<encoderVars, decoderVars, input, symbol, left, right, grown, metadata, columns, unadjusted, tryVars>>

GetRowIndicatorColumns ==
  /\ stage = "indicators" /\ stage' = "merge"
  /\ \E pages \in {Pages} :
       /\ left' = IF CornersSeen.tl = NoPoint THEN NoColumn ELSE ColumnSeen(pages, 0, box)
       /\ right' = IF CornersSeen.tr = NoPoint THEN NoColumn ELSE ColumnSeen(pages, symbol.cols + 1, box)
  /\ UNCHANGED <<encoderVars, decoderVars, input, symbol, box, grown, metadata, columns, unadjusted, tryVars>>

(* Merge.  The box may grow once, and the indicators are then read again.  *)
Grows(b) == ~grown /\ b # NoBox /\ (MinY(b) < MinY(box) \/ MaxY(b) > MaxY(box))
Merge ==
  /\ stage = "merge"
  /\ \E t \in {GetBarcodeMetadata(left, right)} :
       IF ~t.ok THEN stage' = "nothing" /\ UNCHANGED scanVars
       ELSE \E l \in {AdjustBoundingBox(TRUE, Telling(TRUE, t.left), box, Lines)} :
            \E r \in {AdjustBoundingBox(FALSE, Telling(FALSE, t.right), box, Lines)} :
              /\ left' = l.col /\ right' = r.col /\ metadata' = t.m
              /\ IF Grows(MergedBox(l.box, r.box))
                   THEN stage' = "indicators" /\ box' = MergedBox(l.box, r.box) /\ grown' = TRUE
                   ELSE stage' = "columns" /\ UNCHANGED <<box, grown>>
              /\ UNCHANGED <<columns, unadjusted>>
  /\ UNCHANGED <<encoderVars, decoderVars, input, symbol, tryVars>>

(* Columns are counted from the side the indicators of which were found.   *)
ColumnAt(x) == IF left # NoColumn THEN x ELSE symbol.cols - metadata.columns + x
ReadColumns ==
  /\ stage = "columns" /\ stage' = "number"
  /\ \E pages \in {Pages} :
       columns' = [x \in 0 .. metadata.columns + 1 |->
                     CASE x = 0 /\ left # NoColumn -> left
                       [] x = metadata.columns + 1 /\ right # NoColumn -> right
                       [] OTHER -> ColumnSeen(pages, ColumnAt(x), box)]
  /\ UNCHANGED <<encoderVars, decoderVars, input, symbol, box, left, right, grown, metadata, unadjusted, tryVars>>

AdjustIndicatorColumns ==
  /\ stage = "number" /\ stage' = "rows"
  /\ columns' = [columns EXCEPT ![0] = AdjustedComplete(TRUE, @, metadata, box),
                                ![metadata.columns + 1] = AdjustedComplete(FALSE, @, metadata, box)]
  /\ UNCHANGED <<encoderVars, decoderVars, input, symbol, box, left, right, grown, metadata, unadjusted, tryVars>>

AdjustRows ==                                \* one turn of the loop of allColumns
  /\ stage = "rows"
  /\ \E a \in {AdjustRowNumbers(AdjustRowNumbersByRow(columns))} :
       /\ columns' = a.cols /\ unadjusted' = a.unadjusted
       /\ stage' = IF a.unadjusted > 0 /\ a.unadjusted < unadjusted THEN "rows" ELSE "vote"
  /\ UNCHANGED <<encoderVars, decoderVars, input, symbol, box, left, right, grown, metadata, tryVars>>
-----------------------------------------------------------------------------
(* CreateDecoderResult.                                                    *)
Ambiguous(vs) == SetToSortSeq({n \in DOMAIN vs : Len(vs[n]) > 1}, LAMBDA i, j : i < j)
CreateDecoderResult ==
  /\ stage = "vote"
  /\ \E vs \in {<<>> \o Candidates(columns, metadata, NumEC(metadata.level))} :
       IF vs[1] = <<>> THEN stage' = "nothing" /\ UNCHANGED tryVars
       ELSE /\ stage' = "try" /\ values' = vs
            /\ received' = [n \in DOMAIN vs |-> IF Len(vs[n]) = 1 THEN vs[n][1] ELSE 0]
            /\ choice' = [k \in DOMAIN Ambiguous(vs) |-> 1]
            /\ UNCHANGED tries
  /\ UNCHANGED <<encoderVars, decoderVars, input, symbol, scanVars>>

(* CreateDecoderResultFromAmbiguousValues.                                 *)
Chosen(cws, places) ==
  FoldLeft(LAMBDA c, k : [c EXCEPT ![places[k]] = values[places[k]][choice[k]]], cws, [k \in DOMAIN places |-> k])
NextWithoutReset(places) ==                  \* mutant: the lower ones keep their last value
  LET more == {k \in DOMAIN places : choice[k] < Len(values[places[k]])}
      k == CHOOSE n \in more : \A j \in more : n <= j
  IN  IF more = {} THEN {} ELSE {[choice EXCEPT ![k] = @ + 1]}
NextChoice(places) ==                        \* {} after the last
  LET more == {k \in DOMAIN places : choice[k] < Len(values[places[k]])}
      k == CHOOSE n \in more : \A j \in more : n <= j
  IN  IF more = {} THEN {} ELSE {[j \in DOMAIN choice |-> IF j < k THEN 1 ELSE IF j = k THEN choice[j] + 1 ELSE choice[j]]}
Erasures == {n \in DOMAIN values : values[n] = <<>>}

(* VerifyCodewordCount.                                                    *)
VerifiedAsTold(cws, k) ==                    \* mutant: without the reset
  IF Len(cws) < 4 \/ cws[1] > Len(cws) \/ (cws[1] + k # Len(cws) /\ k >= Len(cws)) THEN {} ELSE {cws}
Verified(cws, k) ==
  IF Len(cws) < 4 \/ cws[1] > Len(cws) \/ (cws[1] + k # Len(cws) /\ k >= Len(cws)) THEN {}
  ELSE {[cws EXCEPT ![1] = Len(cws) - k]}

GiveUp(e) ==
  /\ stage' = "over" /\ reading' = "done" /\ error' = e
  /\ UNCHANGED <<codewords, codeIndex, content, customData, readerInit, sai, choice>>
TryDecoding(places, result, k) ==
  /\ received' = result.codewords /\ tries' = tries - 1
  /\ CASE result.ok /\ Verified(result.codewords, k) = {} -> GiveUp("Format")
       [] result.ok /\ Verified(result.codewords, k) # {} ->
            /\ stage' = "decode" /\ UNCHANGED choice
            /\ \E cws \in Verified(result.codewords, k) : Decode(cws)
       [] ~result.ok /\ (tries = 1 \/ NextChoice(places) = {}) -> GiveUp("Checksum")
       [] ~result.ok /\ tries > 1 /\ NextChoice(places) # {} ->
            /\ stage' = "try" /\ choice' \in NextChoice(places) /\ UNCHANGED decoderVars
Try ==
  /\ stage = "try"
  /\ \E places \in {Ambiguous(values)} :
       \E k \in {NumEC(metadata.level)} :
         \E result \in {CorrectErrors(Chosen(received, places), Cardinality(Erasures), k)} :
           TryDecoding(places, result, k)
  /\ UNCHANGED <<encoderVars, input, symbol, scanVars, values>>

ReadContent ==
  /\ stage = "decode" /\ DecoderNext /\ stage' = (IF reading' = "done" THEN "over" ELSE "decode")
  /\ UNCHANGED <<encoderVars, input, symbol, scanVars, tryVars>>

AllDone == stage \in {"over", "refused", "nothing"} /\ UNCHANGED vars

Next ==
  \/ Encode \/ PrintText \/ PrintSegments \/ ReadPure \/ Locate \/ GetRowIndicatorColumns \/ Merge \/ ReadColumns
  \/ AdjustIndicatorColumns \/ AdjustRows \/ CreateDecoderResult \/ Try \/ ReadContent \/ AllDone
Spec == Init /\ [][Next]_vars
-----------------------------------------------------------------------------
(* The text is read back from the symbol it was written to, unless it has  *)
(* two rows only, which the writer is allowed to choose by default and     *)
(* the reader does not read (MIN_ROWS_IN_BARCODE).                         *)
ECIMark == IF input.charset = "UTF8" THEN 26 ELSE -2
Marked(bytes, mark) == [k \in DOMAIN bytes |-> <<bytes[k], mark>>]
Answered == stage \in {"over", "nothing"}
ReadBack ==
  Answered /\ input.kind = "text" /\ symbol.rows >= MIN_ROWS_IN_BARCODE =>
    /\ error = (IF msg = <<>> THEN "Format" ELSE "None")
    /\ C!StreamOf(content).text = Marked(FromUnicode(msg, input.charset), ECIMark)
    /\ sai = NoPart /\ ~readerInit /\ received = symbol.codewords
-----------------------------------------------------------------------------
(* What a symbol means, told from its segments.                            *)
MarkOf(segments, k) ==
  LET before == {j \in Of(segments, {"ECI"}) : j < k /\ segments[j].data[1] < 900}
  IN  IF before = {} THEN -2 ELSE segments[MaxOfSet(before)].data[1]
MeantText(segments) ==
  FoldLeft(LAMBDA t, k : IF segments[k].kind = "field" THEN t ELSE t \o Marked(segments[k].says, MarkOf(segments, k)),
           <<>>, Up(Len(segments)))
CountField(segments) == {k \in Of(segments, {"field"}) : segments[k].data[1] = SEGMENT_COUNT}
Ended(segments) == \E k \in Of(segments, {"code"}) : segments[k].data = <<MACRO_TERMINATOR>>
MeantPart(segments) ==
  IF Of(segments, {"part"}) = {} THEN NoPart
  ELSE LET s == segments[MaxOfSet(Of(segments, {"part"}))].data
       IN  [index |-> s[1], id |-> Tail(s),
            count |-> IF CountField(segments) # {} THEN segments[MaxOfSet(CountField(segments))].says[1]
                      ELSE IF Ended(segments) THEN s[1] + 1 ELSE 0]
(* Codes have a place: these two the first, those of a macro symbol a part *)
(* before them, and what is reserved has none.                             *)
FirstOnly == {READER_INIT, LINKAGE_EANUCC}
Misplaced(segments, k) ==
  /\ segments[k].kind \in {"code", "field"}
  /\ CASE segments[k].kind = "code" /\ segments[k].data[1] \in FirstOnly -> k # 1
       [] segments[k].kind = "field" \/ segments[k].data[1] = MACRO_TERMINATOR ->
            Of(SubSeq(segments, 1, k - 1), {"part"}) = {}
       [] OTHER -> TRUE
Reserved(s) ==
  \/ s.kind = "code" /\ s.data[1] \notin FirstOnly \cup {MACRO_TERMINATOR}
  \/ s.kind = "field" /\ s.data[1] \notin TextFields \cup NumericFields
MeantErrors(segments) ==
  IF \E k \in DOMAIN segments : Misplaced(segments, k) \/ Reserved(segments[k]) THEN {"Format", "Unsupported"}
  ELSE IF MeantText(segments) = <<>> /\ Of(segments, {"part"}) = {} THEN {"Format"} ELSE {"None"}

AsMeant(segments) ==
  /\ C!StreamOf(content).text = MeantText(segments) /\ sai = MeantPart(segments)
  /\ readerInit = (segments[1].data = <<READER_INIT>>)

(* The codewords of a symbol that are not read as they were printed.  In   *)
(* an image a codeword is read as often as its row is high, in the lines   *)
(* that are in the box.                                                    *)
LinesOf(x, y) == {line \in MinY(box) .. MaxY(box) : IsPrinted(x, line) /\ TrueRow(x, line) = y}
Misread(x, y) ==
  LET wrong == {line \in LinesOf(x, y) : <<x, line>> \in DOMAIN Damage}
      other == {line \in wrong : Damage[<<x, line>>] # NoCodeword}
  IN  Cardinality(LinesOf(x, y) \ wrong) <= Cardinality(other)
Damaged ==
  IF input.kind = "symbol" THEN DOMAIN input.errors
  ELSE {n \in 1 .. symbol.cols * symbol.rows :
          Misread(((n - 1) % symbol.cols) + 1, (n - 1) \div symbol.cols)}
Correctable == Cardinality(Damaged) <= NumEC(symbol.level) \div 2
WellTold ==
  input.kind = "image" =>
    metadata.columns = symbol.cols /\ RowCount(metadata) = symbol.rows /\ metadata.level = symbol.level
(* Neighbouring columns are less than a row apart, and so is every column  *)
(* from one of the outer ones or from what is between them: where the row  *)
(* indicators of both sides agree, codewords of other rows are removed.    *)
Gentle ==
  input.kind = "image" =>
    LET first == TopOf(0)
        last == TopOf(symbol.cols + 1)
    IN  \A x \in 1 .. symbol.cols + 1 :
          /\ TopOf(x) - TopOf(x - 1) \in 1 - Height .. Height - 1
          /\ TopOf(x) \in LeastOf(first, last) + 1 - Height .. GreatestOf(first, last) + Height - 1

(* A symbol is read as it was meant, whoever encoded it and with half as   *)
(* many codewords unread or misread as there are for error correction; it  *)
(* need not tell the number of its codewords rightly (VerifyCodewordCount).*)
ReadAsMeant ==
  Answered /\ input.kind \in {"symbol", "image"} /\ WellTold /\ Correctable /\ Gentle =>
    /\ stage = "over" /\ error \in IF input.told = "as too many" THEN {"Format"} ELSE MeantErrors(input.segments)
    /\ error = "None" => AsMeant(input.segments)

(* No codeword is taken for one of another row than that it was printed    *)
(* in, however the lines of the image run across the rows.                 *)
RowsRecovered ==
  stage = "vote" /\ Gentle =>
    \A x \in Inner(columns) : \A i \in Seen(columns[x]) :
      columns[x][i].row # UNKNOWN /\ <<ColumnAt(x), MinY(box) + i - 1>> \notin DOMAIN Damage
        => columns[x][i].row = TrueRow(ColumnAt(x), MinY(box) + i - 1)

(* Of the values that have as many votes, all are tried ("We try decode    *)
(* using the first value, and if that fails, we use another"): with the    *)
(* right ones among them, and not more of them than tries, the symbol is   *)
(* given up only if a try that failed has left its repairs of other        *)
(* codewords to the tries after it.                                        *)
TriesNeeded == FoldLeft(LAMBDA n, vs : IF vs = <<>> THEN n ELSE n * Len(vs), 1, values)
RightAmong ==
  /\ Len(values) = Len(symbol.codewords) /\ TriesNeeded <= 100
  /\ Cardinality({n \in DOMAIN values : symbol.codewords[n] \notin ToSet(values[n])}) <= NumEC(symbol.level) \div 2
AmbiguityResolved ==
  stage = "over" /\ input.kind = "image" /\ WellTold /\ RightAmong /\ error = "Checksum" =>
    \E n \in DOMAIN values : Len(values[n]) = 1 /\ received[n] # values[n][1]
=============================================================================
