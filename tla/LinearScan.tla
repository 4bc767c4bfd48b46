------------------------------ MODULE LinearScan ------------------------------
(***************************************************************************)
(* OneD::Reader::read() of core/src/oned/ODReader.cpp and the DoDecode()   *)
(* it calls for the image and for the image turned by 90 degrees: the rows *)
(* are read from the middle outwards, each in both directions by every row *)
(* reader; what they find is merged over the rows, counted and filtered.   *)
(*                                                                         *)
(* A reading is what a row reader makes of a symbol: its format, content   *)
(* and error, and where it starts and ends in the row.  The scene says in  *)
(* which rows each reading is made.  Positions are kept as the rows of the *)
(* first and the last two corners of the quadrilateral.                    *)
(***************************************************************************)
EXTENDS Integers, Sequences, FiniteSets

CONSTANTS
  Height,             \* of the image, which is square
  ReadingCount,       \* numbered by row reader and in the order it meets them
  Kind,               \* the row reader that makes a reading
  Stateful,           \* the row readers that keep a DecodingState (DataBar)
  Reversed,           \* readings made when the row is read backwards
  Vertical,           \* readings made in the rows of the rotated image
  Columns,            \* the part of the row a reading covers
  HalfLength,         \* of a symbol, in rows
  Options,            \* the arguments of read() and the ReaderOptions
  Scenes,             \* the images
  Fine, Medium, Coarse,  \* 512, 256 and 32, as far as Height is scaled down
  QuickLines          \* 15, likewise

Rows == 0 .. Height - 1
Readings == 1 .. ReadingCount
ASSUME ReadingsAssumption ==
  /\ Height \in Nat \ {0} /\ HalfLength \in Nat /\ ReadingCount \in Nat
  /\ Reversed \subseteq Readings /\ Vertical \subseteq Readings
  /\ DOMAIN Kind = Readings /\ DOMAIN Columns = Readings
ASSUME OptionsAssumption ==
  /\ \A o \in Options :
       /\ {o.tryHarder, o.tryRotate, o.isPure} \subseteq BOOLEAN
       /\ o.maxSymbols \in Nat /\ o.minLineCount \in 0 .. 255
  /\ {Fine, Medium, Coarse, QuickLines} \subseteq Nat \ {0}
ASSUME ScenesAssumption ==
  \A s \in Scenes : s.made \in [Readings -> SUBSET Rows] /\ s.contrast \subseteq Rows

VARIABLES
  scene, opts,        \* the arguments
  rotate, maxSymbols, \* those of this call of DoDecode
  pc, i,              \* i of the loop over the rows
  row, isCheckRow, checkRows,
  todo,               \* what the readers are still going to report of the row
  state,              \* the readers that have a DecodingState
  res,                \* the results of this call so far
  a, b,               \* the iterators of the overlap filter
  resH,               \* the results of the first call
  scanned             \* history: how often each row was read

call == <<scene, opts, rotate, maxSymbols, resH>>
loop == <<row, isCheckRow, checkRows, todo, state>>
filter == <<a, b>>
vars == <<call, pc, i, loop, res, filter, scanned>>

Larger(m, n) == IF m > n THEN m ELSE n
Smaller(m, n) == IF m < n THEN m ELSE n
Distance(m, n) == IF m > n THEN m - n ELSE n - m
-----------------------------------------------------------------------------
Middle == Height \div 2
RowStep ==
  LET parts == IF opts.tryHarder /\ ~opts.isPure
                 THEN IF maxSymbols = 1 THEN Medium ELSE Fine
                 ELSE Coarse
  IN  Larger(1, Height \div parts)
MaxLines == IF opts.tryHarder THEN Height ELSE QuickLines
MinLineCount == IF opts.isPure THEN 1 ELSE Smaller(opts.minLineCount, Height)

BaseRowOneSide(n) == Middle + RowStep * n           \* mutant: only one side
BaseRow(n) ==
  LET steps == (n + 1) \div 2
  IN  Middle + RowStep * IF n % 2 = 0 THEN steps ELSE -steps

(* The readers asked in this row, and the readings each direction of the   *)
(* row yields.  Without tryHarder a reader only reports the first it finds.*)
Asked(n) ==
  {k \in {Kind[c] : c \in Readings} : ~opts.isPure \/ n = 0 \/ k \in state}
MadeIn(r, n, backwards) ==
  LET all == {c \in Readings : /\ r \in scene.made[c] /\ Kind[c] \in Asked(n)
                               /\ (c \in Reversed) = backwards /\ (c \in Vertical) = rotate}
  IN  {c \in all : opts.tryHarder \/ \A d \in all : Kind[d] = Kind[c] => c <= d}
ReadingsOf(r, n) == MadeIn(r, n, FALSE) \cup MadeIn(r, n, TRUE)

(* Forwards first, then the row reversed; each reader after the other.     *)
ReadNext(c) ==
  /\ c \in todo
  /\ \A d \in todo : IF (c \in Reversed) = (d \in Reversed) THEN c <= d ELSE d \in Reversed
-----------------------------------------------------------------------------
Init ==
  /\ scene \in Scenes /\ opts \in Options /\ resH = <<>>
  /\ rotate = FALSE /\ maxSymbols = opts.maxSymbols
  /\ pc = "row" /\ i = 0
  /\ row = 0 /\ isCheckRow = FALSE /\ checkRows = <<>> /\ todo = {} /\ state = {}
  /\ res = <<>> /\ a = 1 /\ b = 2 /\ scanned = [r \in Rows |-> 0]

MoreRows == pc = "row" /\ i < MaxLines /\ BaseRow(i) \in Rows

ReadRow(r) ==
  /\ pc' = "decode" /\ row' = r /\ todo' = ReadingsOf(r, i)
  /\ state' = state \cup (Asked(i) \cap Stateful)
  /\ scanned' = [scanned EXCEPT ![r] = @ + 1]

NextRowStuck ==                                     \* mutant: continue past the increment
  /\ MoreRows /\ checkRows = <<>> /\ isCheckRow' = FALSE
  /\ IF BaseRow(i) \in scene.contrast
       THEN ReadRow(BaseRow(i)) /\ i' = i
       ELSE UNCHANGED <<i, pc, row, todo, state, scanned>>
  /\ UNCHANGED <<call, checkRows, res, filter>>

(* The next row outwards, unless getPatternRow finds nothing in it.        *)
NextRow ==
  /\ MoreRows /\ checkRows = <<>> /\ isCheckRow' = FALSE
  /\ IF BaseRow(i) \in scene.contrast
       THEN ReadRow(BaseRow(i)) /\ i' = i
       ELSE i' = i + 1 /\ UNCHANGED <<pc, row, todo, state, scanned>>
  /\ UNCHANGED <<call, checkRows, res, filter>>

(* i stays: it is decremented here and incremented by the loop.            *)
NextCheckRow ==
  /\ MoreRows /\ checkRows # <<>> /\ isCheckRow' = TRUE
  /\ checkRows' = SubSeq(checkRows, 1, Len(checkRows) - 1)
  /\ IF checkRows[Len(checkRows)] \in Rows \cap scene.contrast
       THEN ReadRow(checkRows[Len(checkRows)])
       ELSE UNCHANGED <<pc, row, todo, state, scanned>>
  /\ UNCHANGED <<call, i, res, filter>>

(* The outermost row or the last line: check rows still to do are dropped. *)
LastRow ==
  /\ pc = "row" /\ (i >= MaxLines \/ BaseRow(i) \notin Rows)
  /\ pc' = "drop" /\ UNCHANGED <<call, i, loop, res, filter, scanned>>
-----------------------------------------------------------------------------
(* BarcodeData::operator== for a single line.                              *)
Same(r, c) ==
  r.reading = c /\ Smaller(Distance(r.top, row), Distance(r.bottom, row)) < HalfLength

MergedWithTie(r) ==                                 \* mutant: rows at equal distance go up
  LET up == Distance(r.top, row) <= Distance(r.bottom, row)
  IN  [r EXCEPT !.top = IF up THEN row ELSE @, !.bottom = IF up THEN @ ELSE row,
                !.lineCount = @ + 1, !.lines = @ \cup {row}]

MergedInPlace(r) ==                                 \* mutant: position not extended
  [r EXCEPT !.lineCount = @ + 1, !.lines = @ \cup {row}]

MergedWith(r) ==
  LET dTop == Distance(r.top, row)
      dBot == Distance(r.bottom, row)
      up == dTop < dBot \/ (dTop = dBot /\ rotate # (r.top > row))
  IN  [reading |-> r.reading,
       top |-> IF up THEN row ELSE r.top, bottom |-> IF up THEN r.bottom ELSE row,
       lineCount |-> r.lineCount + 1, lines |-> r.lines \cup {row}]

(* The rows next to that of a new reading, in the order they are read in.  *)
CheckRowsFor(r) ==
  IF isCheckRow \/ MinLineCount <= 1 \/ RowStep <= 1 THEN checkRows
  ELSE IF RowStep > 2 THEN <<r - 1, r + 1, r - 2, r + 2>>
  ELSE <<r - 1, r + 1>>

HasEnough(r) == r.lineCount >= MinLineCount
Enough(list) == {k \in DOMAIN list : HasEnough(list[k])}

AfterReading(c, list) ==
  IF maxSymbols # 0 /\ Cardinality(Enough(list)) = maxSymbols
    THEN pc' = "drop" /\ todo' = {}
    ELSE pc' = pc /\ todo' = todo \ {c}

KnownAs(c) == {k \in DOMAIN res : Same(res[k], c)}

Merge(c) ==
  /\ pc = "decode" /\ ReadNext(c)
  /\ \E k \in KnownAs(c) :                          \* the first one
       /\ \A m \in KnownAs(c) : k <= m
       /\ res' = [res EXCEPT ![k] = MergedWith(@)]
  /\ AfterReading(c, res')
  /\ UNCHANGED <<call, i, row, isCheckRow, checkRows, state, filter, scanned>>

(* The count DataBar estimates itself is left out: every reading is one.   *)
AddNew(c) ==
  /\ pc = "decode" /\ ReadNext(c) /\ KnownAs(c) = {}
  /\ res' = Append(res, [reading |-> c, top |-> row, bottom |-> row,
                         lineCount |-> 1, lines |-> {row}])
  /\ checkRows' = CheckRowsFor(row)
  /\ AfterReading(c, res')
  /\ UNCHANGED <<call, i, row, isCheckRow, state, filter, scanned>>

RowDone ==
  /\ pc = "decode" /\ todo = {}
  /\ pc' = "row" /\ i' = IF isCheckRow THEN i ELSE i + 1
  /\ UNCHANGED <<call, loop, res, filter, scanned>>
-----------------------------------------------------------------------------
(* HaveIntersectingBoundingBoxes; a default BarcodeData is the origin.     *)
Results ==
  [reading : {0} \cup Readings, top : Rows, bottom : Rows, lineCount : Nat, lines : SUBSET Rows]
NoReading == [reading |-> 0, top |-> 0, bottom |-> 0, lineCount |-> 0, lines |-> {}]
ColumnsOf(r) == IF r.reading = 0 THEN {0} ELSE Columns[r.reading]
Extent(r) == Smaller(r.top, r.bottom) .. Larger(r.top, r.bottom)
Overlap(r, s) ==
  /\ Extent(r) \cap Extent(s) # {}
  /\ ColumnsOf(r) \cap ColumnsOf(s) # {}

(* std::erase_if closes one gap after the other: first those with too few  *)
(* lines, after the filter those it has replaced by a default BarcodeData. *)
Without(s, k) == [j \in 1 .. Len(s) - 1 |-> IF j < k THEN s[j] ELSE s[j + 1]]

Drop(k) ==
  /\ pc = "drop" /\ ~HasEnough(res[k])
  /\ \A j \in 1 .. k - 1 : HasEnough(res[j])
  /\ res' = Without(res, k)
  /\ UNCHANGED <<call, pc, i, loop, filter, scanned>>
BeginFilter ==
  /\ pc = "drop" /\ \A k \in DOMAIN res : HasEnough(res[k])
  /\ pc' = "filter" /\ a' = 1 /\ b' = 2
  /\ UNCHANGED <<call, i, loop, res, scanned>>

(* A pair of the overlap filter: the one with fewer lines is overwritten.  *)
FilterPair ==
  /\ pc = "filter" /\ b <= Len(res)
  /\ LET victim == IF res[a].lineCount < res[b].lineCount THEN a ELSE b
     IN  res' = IF Overlap(res[a], res[b]) THEN [res EXCEPT ![victim] = NoReading] ELSE res
  /\ b' = b + 1
  /\ UNCHANGED <<call, pc, i, loop, a, scanned>>
FilterNext ==
  /\ pc = "filter" /\ b > Len(res) /\ a < Len(res)
  /\ a' = a + 1 /\ b' = a + 2
  /\ UNCHANGED <<call, pc, i, loop, res, scanned>>

Erase(k) ==
  /\ pc = "filter" /\ a >= Len(res)
  /\ res[k].reading = 0 /\ \A j \in 1 .. k - 1 : res[j].reading # 0
  /\ res' = Without(res, k)
  /\ UNCHANGED <<call, pc, i, loop, filter, scanned>>
EndFilter ==
  /\ pc = "filter" /\ a >= Len(res) /\ \A k \in DOMAIN res : res[k].reading # 0
  /\ pc' = "return"
  /\ UNCHANGED <<call, i, loop, res, filter, scanned>>

(* Without a limit the second call gets a negative one.                    *)
RoomFor(list) == opts.maxSymbols = 0 \/ Len(list) < opts.maxSymbols
RotateSameLimit ==                                  \* mutant: the limit of the first call
  /\ pc = "return" /\ ~rotate /\ RoomFor(res) /\ opts.tryRotate
  /\ rotate' = TRUE /\ maxSymbols' = maxSymbols /\ resH' = res
  /\ pc' = "row" /\ i' = 0
  /\ row' = 0 /\ isCheckRow' = FALSE /\ checkRows' = <<>> /\ todo' = {} /\ state' = {}
  /\ res' = <<>> /\ scanned' = [r \in Rows |-> 0]
  /\ UNCHANGED <<scene, opts, filter>>
Rotate ==
  /\ pc = "return" /\ ~rotate /\ RoomFor(res) /\ opts.tryRotate
  /\ rotate' = TRUE /\ maxSymbols' = maxSymbols - Len(res) /\ resH' = res
  /\ pc' = "row" /\ i' = 0
  /\ row' = 0 /\ isCheckRow' = FALSE /\ checkRows' = <<>> /\ todo' = {} /\ state' = {}
  /\ res' = <<>> /\ scanned' = [r \in Rows |-> 0]
  /\ UNCHANGED <<scene, opts, filter>>

Return ==
  /\ pc = "return" /\ (rotate \/ ~RoomFor(res) \/ ~opts.tryRotate)
  /\ pc' = "done" /\ res' = resH \o res
  /\ UNCHANGED <<call, i, loop, filter, scanned>>

Next ==
  \/ NextRow \/ NextCheckRow \/ LastRow
  \/ (\E c \in todo : Merge(c) \/ AddNew(c)) \/ RowDone
  \/ (\E k \in DOMAIN res : Drop(k)) \/ BeginFilter
  \/ FilterPair \/ FilterNext \/ (\E k \in DOMAIN res : Erase(k)) \/ EndFilter
  \/ Rotate \/ Return
Spec == Init /\ [][Next]_vars /\ WF_vars(Next)
-----------------------------------------------------------------------------
TypeOK ==
  /\ scene \in Scenes /\ opts \in Options
  /\ rotate \in BOOLEAN /\ maxSymbols \in Int /\ resH \in Seq(Results)
  /\ pc \in {"row", "decode", "drop", "filter", "return", "done"} /\ i \in 0 .. Larger(Height, QuickLines)
  /\ row \in Rows /\ isCheckRow \in BOOLEAN /\ checkRows \in Seq(Int)
  /\ todo \subseteq Readings /\ state \subseteq Stateful
  /\ res \in Seq(Results) /\ a \in Nat \ {0} /\ b \in Nat \ {0} /\ scanned \in [Rows -> Nat]

(* "Look at the whole image, not just the center": tryHarder reads every   *)
(* row of an image that is not scaled down exactly once.                   *)
WholeImage ==
  [][LastRow /\ opts.tryHarder /\ RowStep = 1 =>
       \A r \in scene.contrast : scanned[r] = 1]_vars

(* A symbol without gaps that nothing else overlaps is found, in its whole *)
(* extent, wherever it lies and in whatever order its rows are read.       *)
MadeRows(c) == scene.made[c] \cap scene.contrast
Alone(c) ==
  \A d \in Readings \ {c} :
    scene.made[d] = {} \/ Columns[c] \cap Columns[d] = {} \/ ((c \in Vertical) # (d \in Vertical))
Contiguous(s) == \A r, t \in s : r .. t \subseteq s
SymbolsFound ==
  pc = "done" /\ opts.tryHarder /\ opts.tryRotate /\ ~opts.isPure /\ opts.maxSymbols = 0 /\ RowStep = 1 =>
    \A c \in Readings :
      /\ Cardinality(MadeRows(c)) >= Larger(1, MinLineCount)
      /\ Contiguous(MadeRows(c)) /\ Alone(c)
      => \E k \in DOMAIN res :
           res[k].reading = c /\ res[k].lines = MadeRows(c) /\ Extent(res[k]) = MadeRows(c)

(* Rows are merged to the nearer edge, so that the edges never cross; an   *)
(* image turned by 90 degrees has its first corner in the last row.        *)
EdgesInOrder ==
  pc \in {"row", "decode", "drop"} =>
    \A k \in DOMAIN res :
      IF rotate THEN res[k].bottom <= res[k].top ELSE res[k].top <= res[k].bottom

(* No more symbols than asked for, over both directions of the image.      *)
LimitKept ==
  opts.maxSymbols # 0 =>
    Cardinality(Enough(res)) + (IF pc = "done" THEN 0 ELSE Len(resH)) <= opts.maxSymbols

(* Check rows turn the loop counter back; the scan of both directions ends *)
(* all the same, under weak fairness of its steps.                         *)
Termination == <>(pc = "done")
=============================================================================
