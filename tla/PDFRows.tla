-------------------------------- MODULE PDFRows --------------------------------
(***************************************************************************)
(* From the codewords seen in the rows of an image to those of a symbol:   *)
(* DetectionResultColumn and DetectionResult (PDFDetectionResultColumn,    *)
(* PDFDetectionResult.cpp), the BoundingBox, and the parts of              *)
(* PDFScanningDecoder.cpp that use them.                                   *)
(*                                                                         *)
(* A codeword is seen with its value and the bucket its bars belong to,    *)
(* which leaves three rows to choose from, one in three.  The codewords of *)
(* the two outer columns, the row indicators, say which row they are in.   *)
(* A column has one place for every row of the image within the box, in    *)
(* which a codeword has been read or not.                                  *)
(***************************************************************************)
EXTENDS Integers, Sequences, FiniteSets, SequencesExt

UNKNOWN == -1
NoCodeword == [bucket |-> -1, value |-> -1, row |-> UNKNOWN]
IsValidRowNumber(cw, row) == row # UNKNOWN /\ cw.bucket = 3 * (row % 3)
HasValidRowNumber(cw) == IsValidRowNumber(cw, cw.row)
AsRowIndicator(cw) == [cw EXCEPT !.row = 3 * (cw.value \div 30) + cw.bucket \div 3]
SetRowNumbers(col) == [i \in DOMAIN col |-> IF col[i] = NoCodeword THEN NoCodeword ELSE AsRowIndicator(col[i])]
Seen(col) == {i \in DOMAIN col : col[i] # NoCodeword}

(* BarcodeValue: those most often set, in order.                           *)
MaxOfSet(set) == CHOOSE n \in set : \A k \in set : k <= n
MostVoted(votes) ==
  LET most == {v \in DOMAIN votes : \A w \in DOMAIN votes : votes[w] <= votes[v]}
  IN  SetToSortSeq(most, LAMBDA v, w : v < w)
VotesOf(valueAt) == [v \in Range(valueAt) |-> Cardinality({i \in DOMAIN valueAt : valueAt[i] = v})]
-----------------------------------------------------------------------------
(* A row indicator tells, in turns, one part of what there is to know of   *)
(* the symbol; the right one is two rows ahead.                            *)
NoMetadata == [columns |-> 0, upper |-> 0, lower |-> 0, level |-> 0]
RowCount(m) == m.upper + m.lower
MIN_ROWS_IN_BARCODE == 3
MAX_ROWS_IN_BARCODE == 90

PartTold(isLeft, cw) == (cw.row + IF isLeft THEN 0 ELSE 2) % 3
Told(cw) == cw.value % 30
(* getBarcodeMetadata, which also removes what does not match.             *)
Removed(isLeft, col, m) ==                   \* RemoveIncorrectCodewords
  LET matches(cw) ==
        /\ cw.row <= RowCount(m)
        /\ CASE PartTold(isLeft, cw) = 0 -> 3 * Told(cw) + 1 = m.upper
             [] PartTold(isLeft, cw) = 1 -> Told(cw) \div 3 = m.level /\ Told(cw) % 3 = m.lower
             [] PartTold(isLeft, cw) = 2 -> Told(cw) + 1 = m.columns
  IN  [i \in DOMAIN col |-> IF col[i] # NoCodeword /\ matches(col[i]) THEN col[i] ELSE NoCodeword]
Winners(isLeft, col) ==
  LET part(k) == {i \in Seen(col) : PartTold(isLeft, col[i]) = k}
      upper == [i \in part(0) |-> 3 * Told(col[i]) + 1]
      level == [i \in part(1) |-> Told(col[i]) \div 3]
      lower == [i \in part(1) |-> Told(col[i]) % 3]
      columns == [i \in part(2) |-> Told(col[i]) + 1]
  IN  IF \E k \in 0 .. 2 : part(k) = {} THEN {}
      ELSE {[columns |-> MostVoted(VotesOf(columns))[1], upper |-> MostVoted(VotesOf(upper))[1],
             lower |-> MostVoted(VotesOf(lower))[1], level |-> MostVoted(VotesOf(level))[1]]}
TellsOf(isLeft, col, winners) ==
  LET legal == {m \in winners : RowCount(m) \in MIN_ROWS_IN_BARCODE .. MAX_ROWS_IN_BARCODE}
  IN  IF legal = {} THEN [ok |-> FALSE, m |-> NoMetadata, col |-> col]
      ELSE [ok |-> TRUE, m |-> CHOOSE m \in legal : TRUE, col |-> Removed(isLeft, col, CHOOSE m \in legal : TRUE)]
TellsFrom(isLeft, numbered) == TellsOf(isLeft, numbered, Winners(isLeft, numbered))
ColumnMetadata(isLeft, col) == TellsFrom(isLeft, SetRowNumbers(col))

(* GetBarcodeMetadata of two columns, of which either may be missing.      *)
NoColumn == <<>>
Contradict(m, n) == m.columns # n.columns /\ m.level # n.level /\ RowCount(m) # RowCount(n)
BothTell(l, r) ==
  CASE ~l.ok -> [ok |-> r.ok, left |-> l.col, right |-> r.col, m |-> r.m]
    [] l.ok -> [ok |-> ~r.ok \/ ~Contradict(l.m, r.m), left |-> l.col, right |-> r.col, m |-> l.m]
Telling(isLeft, col) ==
  IF col = NoColumn THEN [ok |-> FALSE, m |-> NoMetadata, col |-> NoColumn] ELSE ColumnMetadata(isLeft, col)
GetBarcodeMetadata(left, right) == BothTell(Telling(TRUE, left), Telling(FALSE, right))
-----------------------------------------------------------------------------
(* The bounding box: the rows of the image its corners are in.             *)
LeastOf(a, b) == IF a < b THEN a ELSE b
GreatestOf(a, b) == IF a > b THEN a ELSE b
NoPoint == -1
Corners(tl, bl, tr, br) == [tl |-> tl, bl |-> bl, tr |-> tr, br |-> br]
NoBox == Corners(NoPoint, NoPoint, NoPoint, NoPoint)
Box(c) ==                                    \* Create: a missing side is level with the other
  CASE c.tl = NoPoint -> Corners(c.tr, c.br, c.tr, c.br)
    [] c.tl # NoPoint /\ c.tr = NoPoint -> Corners(c.tl, c.bl, c.tl, c.bl)
    [] OTHER -> c
CanCreate(c) ==
  /\ c.tl # NoPoint \/ c.tr # NoPoint
  /\ c.tl = NoPoint <=> c.bl = NoPoint
  /\ c.tr = NoPoint <=> c.br = NoPoint
MinY(box) == LeastOf(box.tl, box.tr)
MaxY(box) == GreatestOf(box.bl, box.br)
MergedBox(l, r) ==
  CASE l = NoBox -> r [] l # NoBox /\ r = NoBox -> l [] OTHER -> Corners(l.tl, l.bl, r.tr, r.br)
AddMissingRows(box, start, end, isLeft, height) ==
  LET up(y) == IF start > 0 THEN GreatestOf(y - start, 0) ELSE y
      down(y) == IF end > 0 THEN LeastOf(y + end, height - 1) ELSE y
  IN  IF isLeft THEN Corners(up(box.tl), down(box.bl), box.tr, box.br)
      ELSE Corners(box.tl, box.bl, up(box.tr), down(box.br))

(* The places of a column between its corners, the last one left out.      *)
Between(isLeft, box) ==
  LET first == (IF isLeft THEN box.tl ELSE box.tr) - MinY(box)
      last == (IF isLeft THEN box.bl ELSE box.br) - MinY(box)
  IN  [k \in 1 .. last - first |-> first + k]

(* getRowHeights: the rows of the image each row of the symbol was seen in.*)
Plausible(m, state, cw) == cw.row - state.barcodeRow \in {0, 1} \/ cw.row < RowCount(m)
Incomplete(m, state, i) ==                   \* adjustIncompleteIndicatorColumnRowNumbers
  IF state.col[i] = NoCodeword THEN state
  ELSE LET cw == AsRowIndicator(state.col[i])
       IN  IF Plausible(m, state, cw) THEN [col |-> [state.col EXCEPT ![i] = cw], barcodeRow |-> cw.row]
           ELSE [state EXCEPT !.col[i] = NoCodeword]
AdjustedIncomplete(isLeft, col, m, box) ==
  FoldLeft(LAMBDA s, i : Incomplete(m, s, i), [col |-> col, barcodeRow |-> -1], Between(isLeft, box)).col
Heights(col, m) == [y \in 1 .. RowCount(m) |-> Cardinality({i \in Seen(col) : col[i].row = y - 1})]

(* AdjustBoundingBox: rows as high as the highest should have been seen,   *)
(* above the first row and below the last one found in the box.            *)
MissingFrom(heights, order) ==
  LET highest == MaxOfSet(ToSet(heights))
  IN  FoldLeft(LAMBDA s, y : IF s.done THEN s
                             ELSE [missing |-> s.missing + highest - heights[y], done |-> heights[y] > 0],
               [missing |-> 0, done |-> FALSE], order).missing
Unseen(col, order) ==                        \* places before the first seen
  LET seen == {k \in DOMAIN order : col[order[k]] # NoCodeword}
  IN  IF seen = {} THEN Len(order) ELSE (CHOOSE k \in seen : \A j \in seen : k <= j) - 1
Up(n) == [k \in 1 .. n |-> k]
Down(n) == [k \in 1 .. n |-> n + 1 - k]
StillMissing(heights, col, rows, places) ==
  GreatestOf(MissingFrom(heights, rows) - Unseen(col, places), 0)
GrownBox(isLeft, col, heights, box, height) ==
  AddMissingRows(box, StillMissing(heights, col, Up(Len(heights)), Up(Len(col))),
                 StillMissing(heights, col, Down(Len(heights)), Down(Len(col))), isLeft, height)
AdjustBoundingBox(isLeft, t, box, height) == \* t is what the column tells
  IF ~t.ok THEN [col |-> t.col, box |-> NoBox]
  ELSE LET col == AdjustedIncomplete(isLeft, t.col, t.m, box)
       IN  [col |-> col, box |-> GrownBox(isLeft, col, Heights(col, t.m), box, height)]
-----------------------------------------------------------------------------
(* adjustCompleteIndicatorColumnRowNumbers: going down the column, a row   *)
(* number must follow the last one, or leave as many places unread as the  *)
(* rows it leaves out should have; else its codeword is dropped.  A column *)
(* that begins with the last row is upside down.                           *)
Turned(m, s, cw) ==
  IF s.barcodeRow = -1 /\ cw.row = RowCount(m) - 1 THEN [s EXCEPT !.increment = -1, !.barcodeRow = RowCount(m)] ELSE s
CheckedRows(s, difference) == IF s.maxHeight > 2 THEN (s.maxHeight - 2) * difference ELSE difference
CloseFound(s, i, checked) ==                 \* i - 1 places are before it
  checked >= i - 1 \/ \E k \in 1 .. checked : s.col[i - k] # NoCodeword
Follow(m, s, i, cw) ==
  LET difference == cw.row - s.barcodeRow
      dropped == [s EXCEPT !.col[i] = NoCodeword]
      next == [s EXCEPT !.barcodeRow = cw.row, !.height = 1]
  IN  CASE difference = 0 -> [s EXCEPT !.height = @ + 1]
        [] difference = s.increment -> [next EXCEPT !.maxHeight = GreatestOf(s.maxHeight, s.height)]
        [] difference \notin {0, s.increment} ->
             IF difference < 0 \/ cw.row >= RowCount(m) \/ difference > i - 1
                  \/ CloseFound(s, i, CheckedRows(s, difference))
               THEN dropped ELSE next
Complete(m, s, i) == IF s.col[i] = NoCodeword THEN s ELSE Follow(m, Turned(m, s, s.col[i]), i, s.col[i])
AdjustedComplete(isLeft, col, m, box) ==
  FoldLeft(LAMBDA s, i : Complete(m, s, i),
           [col |-> Removed(isLeft, SetRowNumbers(col), m), barcodeRow |-> -1, maxHeight |-> 1, height |-> 0,
            increment |-> 1],
           Between(isLeft, box)).col

(* AdjustRowNumbersFromBothRI.  cols holds the columns by number.          *)
Inner(cols) == {x \in DOMAIN cols : x # 0 /\ x + 1 \in DOMAIN cols}
LastColumn(cols) == MaxOfSet(DOMAIN cols)
Numbered(cw, row) ==
  IF cw = NoCodeword \/ ~IsValidRowNumber(cw, row) THEN NoCodeword ELSE [cw EXCEPT !.row = row]
FromBothRI(cols) ==
  LET left == cols[0]
      right == cols[LastColumn(cols)]
      agreed(i) == left[i] # NoCodeword /\ right[i] # NoCodeword /\ left[i].row = right[i].row
  IN  [x \in DOMAIN cols |->
         IF x \in Inner(cols)
           THEN [i \in DOMAIN left |-> IF agreed(i) THEN Numbered(cols[x][i], left[i].row) ELSE cols[x][i]]
           ELSE cols[x]]

(* AdjustRowNumbersFromLRI and RRI: along a row of the image, until two in *)
(* a row cannot have the number of the indicator.                          *)
ADJUST_ROW_NUMBER_SKIP == 2
Along(line, indicator) ==                    \* line: its codewords by column, what is unadjusted
  IF indicator = NoCodeword THEN line
  ELSE FoldLeft(LAMBDA s, x :
                  LET cw == s.cells[x]
                  IN  IF s.invalid = ADJUST_ROW_NUMBER_SKIP \/ cw = NoCodeword \/ HasValidRowNumber(cw) THEN s
                      ELSE IF IsValidRowNumber(cw, indicator.row)
                        THEN [s EXCEPT !.cells[x].row = indicator.row, !.invalid = 0]
                        ELSE [s EXCEPT !.invalid = @ + 1, !.unadjusted = @ + 1],
                [line EXCEPT !.invalid = 0], Up(LastColumn(line.cells) - 1))
LineOf(cols, i) ==
  Along(Along([cells |-> [x \in DOMAIN cols |-> cols[x][i]], invalid |-> 0, unadjusted |-> 0], cols[0][i]),
        cols[LastColumn(cols)][i])
ByLine(cols, lines) ==
  [cols |-> [x \in DOMAIN cols |->
               IF x \in Inner(cols) THEN SubSeq([i \in DOMAIN lines |-> lines[i].cells[x]], 1, Len(lines)) ELSE cols[x]],
   unadjusted |-> FoldLeft(LAMBDA n, line : n + line.unadjusted, 0, lines)]
ByRow(cols) == ByLine(cols, SubSeq([i \in DOMAIN cols[0] |-> LineOf(cols, i)], 1, Len(cols[0])))
AdjustRowNumbersByRow(cols) == ByRow(FromBothRI(cols))

(* AdjustRowNumbers of what is left: from the first neighbour of the same  *)
(* bucket that has one.                                                    *)
Neighbours(cols, x, i) ==
  LET at(y, k) == IF k \in DOMAIN cols[x] THEN cols[y][k] ELSE NoCodeword
  IN  <<at(x, i - 1), at(x, i + 1), at(x - 1, i), at(x + 1, i), at(x - 1, i - 1), at(x + 1, i - 1),
        at(x - 1, i + 1), at(x + 1, i + 1), at(x, i - 2), at(x, i + 2), at(x - 1, i - 2), at(x + 1, i - 2),
        at(x - 1, i + 2), at(x + 1, i + 2)>>
FromAnyNeighbour(cw, others) ==              \* mutant: of any bucket
  LET fit == SelectSeq(others, LAMBDA o : o # NoCodeword /\ HasValidRowNumber(o))
  IN  IF fit = <<>> THEN cw ELSE [cw EXCEPT !.row = fit[1].row]
FromNeighbour(cw, others) ==
  LET fit == SelectSeq(others, LAMBDA o : o # NoCodeword /\ HasValidRowNumber(o) /\ o.bucket = cw.bucket)
  IN  IF fit = <<>> THEN cw ELSE [cw EXCEPT !.row = fit[1].row]
FromNeighbours(cols, x) ==
  FoldLeft(LAMBDA cs, i :
             IF cs[x][i] = NoCodeword \/ HasValidRowNumber(cs[x][i]) THEN cs
             ELSE [cs EXCEPT ![x][i] = FromNeighbour(@, Neighbours(cs, x, i))],
           cols, Up(Len(cols[x])))
AdjustRowNumbers(byRow) ==                   \* what AdjustRowNumbersByRow has led to
  IF byRow.unadjusted = 0 THEN byRow
  ELSE [byRow EXCEPT !.cols = FoldLeft(FromNeighbours, @, Up(LastColumn(@) - 1))]
-----------------------------------------------------------------------------
(* CreateBarcodeMatrix: the codewords at a place of the symbol.  The first *)
(* one should tell how many there are; as the columns and rows are known,  *)
(* so is that number, which gets one more vote (AdjustCodewordCount).      *)
Cells(cols, x, y) == {i \in DOMAIN cols[x] : cols[x][i] # NoCodeword /\ cols[x][i].row = y}
VotesAt(cols, x, y) == VotesOf([i \in Cells(cols, x, y) |-> cols[x][i].value])
MAX_CODEWORDS_IN_BARCODE == 928
CalculatedCount(m, numEC) ==
  LET n == m.columns * RowCount(m) - numEC
  IN  IF n \in 1 .. MAX_CODEWORDS_IN_BARCODE THEN n ELSE 0
Voted(votes, n) ==
  [v \in DOMAIN votes \cup {n} |-> (IF v \in DOMAIN votes THEN votes[v] ELSE 0) + (IF v = n THEN 1 ELSE 0)]
CountVotes(votes, calculated) ==
  IF calculated # 0 /\ (DOMAIN votes = {} \/ MostVoted(votes)[1] # calculated) THEN Voted(votes, calculated) ELSE votes
ValuesAt(cols, m, numEC, x, y) ==
  LET votes == VotesAt(cols, x, y)
  IN  MostVoted(IF x = 1 /\ y = 0 THEN CountVotes(votes, CalculatedCount(m, numEC)) ELSE votes)
(* The values of all places, by the index they have in the codewords.      *)
Candidates(cols, m, numEC) ==
  [n \in 1 .. m.columns * RowCount(m) |->
     ValuesAt(cols, m, numEC, ((n - 1) % m.columns) + 1, (n - 1) \div m.columns)]
=============================================================================
