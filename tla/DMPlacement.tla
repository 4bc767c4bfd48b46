----------------------------- MODULE DMPlacement -----------------------------
(***************************************************************************)
(* VisitMatrix (DMBitLayout.cpp): the order in which writer and reader     *)
(* visit the modules of the mapping matrix of a symbol, eight at a time,   *)
(* sweeping up and down the diagonals.  A module visited twice would be    *)
(* overwritten by another codeword.                                        *)
(***************************************************************************)
EXTENDS Integers, Sequences, FiniteSets

VARIABLES
  area,           \* numRows, numCols
  row, col,
  sweep,          \* what the loop does next
  visits          \* the modules visited, one sequence of eight per codeword
vars == <<area, row, col, sweep, visits>>

Corner1 == <<<<-1, 0>>, <<-1, 1>>, <<-1, 2>>, <<0, -2>>, <<0, -1>>, <<1, -1>>, <<2, -1>>, <<3, -1>>>>
Corner2Shifted ==                            \* mutant: row -2 for -1
  <<<<-3, 0>>, <<-2, 0>>, <<-2, 0>>, <<0, -4>>, <<0, -3>>, <<0, -2>>, <<0, -1>>, <<1, -1>>>>
Corner2 == <<<<-3, 0>>, <<-2, 0>>, <<-1, 0>>, <<0, -4>>, <<0, -3>>, <<0, -2>>, <<0, -1>>, <<1, -1>>>>
Corner3 == <<<<-1, 0>>, <<-1, -1>>, <<0, -3>>, <<0, -2>>, <<0, -1>>, <<1, -3>>, <<1, -2>>, <<1, -1>>>>
Corner4 == <<<<-3, 0>>, <<-2, 0>>, <<-1, 0>>, <<0, -2>>, <<0, -1>>, <<1, -1>>, <<2, -1>>, <<3, -1>>>>
Utah == <<<<-2, -2>>, <<-2, -1>>, <<-1, -2>>, <<-1, -1>>, <<-1, 0>>, <<0, -2>>, <<0, -1>>, <<0, 0>>>>

Clamp(i, size) == IF i < 0 THEN i + size ELSE i
AtCorner(corner) ==
  [k \in 1 .. 8 |-> <<Clamp(corner[k][1], area.rows), Clamp(corner[k][2], area.cols)>>]

(* Past the upper edge, then the left one, then the lower one.             *)
BelowTop(r, c) ==
  IF r < 0 THEN <<r + area.rows, c + 4 - ((area.rows + 4) % 8)>> ELSE <<r, c>>
RightOfLeft(p) ==
  IF p[2] < 0 THEN <<p[1] + 4 - ((area.cols + 4) % 8), p[2] + area.cols>> ELSE p
AboveBottom(p) == IF p[1] >= area.rows THEN <<p[1] - area.rows, p[2]>> ELSE p
AtUtah(r, c) ==
  [k \in 1 .. 8 |-> AboveBottom(RightOfLeft(BelowTop(r + Utah[k][1], c + Utah[k][2])))]

Cells(visit) == {visit[k] : k \in 1 .. 8}
Visited == UNION {Cells(visits[n]) : n \in DOMAIN visits}
IsVisited(cell) == \E n \in DOMAIN visits : \E k \in 1 .. 8 : visits[n][k] = cell

Visit(modules) == visits' = Append(visits, modules)
VisitUtah(inArea) ==
  IF inArea /\ ~IsVisited(<<row, col>>) THEN Visit(AtUtah(row, col)) ELSE UNCHANGED visits
-----------------------------------------------------------------------------
Start(rows, cols) ==
  /\ area = [rows |-> rows, cols |-> cols]
  /\ row = 4 /\ col = 0 /\ sweep = "corners" /\ visits = <<>>

Corners ==
  /\ sweep = "corners"
  /\ CASE row = area.rows /\ col = 0 -> Visit(AtCorner(Corner1))
       [] row = area.rows - 2 /\ col = 0 /\ area.cols % 4 # 0 -> Visit(AtCorner(Corner2))
       [] row = area.rows + 4 /\ col = 2 /\ area.cols % 8 = 0 -> Visit(AtCorner(Corner3))
       [] row = area.rows - 2 /\ col = 0 /\ area.cols % 8 = 4 -> Visit(AtCorner(Corner4))
       [] OTHER -> UNCHANGED visits
  /\ sweep' = "up" /\ UNCHANGED <<area, row, col>>

(* A turn at the end of a diagonal is part of its last step.               *)
Turns(stays, again, next, dr, dc, turn) ==
  IF stays THEN sweep' = again /\ row' = row + dr /\ col' = col + dc
  ELSE sweep' = next /\ row' = row + dr + turn[1] /\ col' = col + dc + turn[2]

UpRight ==
  /\ sweep = "up" /\ UNCHANGED area
  /\ VisitUtah(row < area.rows /\ col >= 0)
  /\ Turns(row - 2 >= 0 /\ col + 2 < area.cols, "up", "down", -2, 2, <<1, 3>>)

DownLeft ==
  /\ sweep = "down" /\ UNCHANGED area
  /\ VisitUtah(row >= 0 /\ col < area.cols)
  /\ Turns(row + 2 < area.rows /\ col - 2 >= 0, "down",
           IF row + 5 < area.rows \/ col - 1 < area.cols THEN "corners" ELSE "done",
           2, -2, <<3, 1>>)

Next == Corners \/ UpRight \/ DownLeft

(* The corner the sweeps leave out is filled with a fixed pattern.         *)
LowerRight == {<<area.rows - 2, area.cols - 2>>, <<area.rows - 2, area.cols - 1>>,
               <<area.rows - 1, area.cols - 2>>, <<area.rows - 1, area.cols - 1>>}
Unvisited == ((0 .. area.rows - 1) \X (0 .. area.cols - 1)) \ Visited
=============================================================================
