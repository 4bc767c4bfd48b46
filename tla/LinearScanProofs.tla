--------------------------- MODULE LinearScanProofs ---------------------------
(* The scan for linear symbols for every image, every height, every row    *)
(* step and every combination of options: the edges of a symbol never      *)
(* cross, the limit is kept, the whole image is looked at and every symbol *)
(* that stands alone is found in its whole extent.                         *)
EXTENDS LinearScan, FiniteSetTheorems, SequenceTheorems, TLAPS

(* A result of one more row is a record of the same kind.                  *)
Upwards(r) ==
  \/ Distance(r.top, row) < Distance(r.bottom, row)
  \/ Distance(r.top, row) = Distance(r.bottom, row) /\ rotate # (r.top > row)
LEMMA MergedRecord ==
  ASSUME NEW r
  PROVE  MergedWith(r) =
         [reading |-> r.reading, top |-> IF Upwards(r) THEN row ELSE r.top,
          bottom |-> IF Upwards(r) THEN r.bottom ELSE row,
          lineCount |-> r.lineCount + 1, lines |-> r.lines \cup {row}]
  BY Zenon DEF MergedWith, Upwards

LEMMA MergedType ==
  ASSUME row \in Rows, NEW r \in Results
  PROVE  MergedWith(r) \in Results
<1>1. r.reading \in {0} \cup Readings /\ r.top \in Rows /\ r.bottom \in Rows
      /\ r.lineCount \in Nat /\ r.lines \in SUBSET Rows
  BY DEF Results
<1> QED BY <1>1, MergedRecord DEF Results

(* The entry a reading makes that is not known yet.                        *)
New(c) == [reading |-> c, top |-> row, bottom |-> row, lineCount |-> 1, lines |-> {row}]
LEMMA NewType ==
  ASSUME row \in Rows, NEW c \in Readings
  PROVE  New(c) \in Results
BY DEF New, Results

LEMMA NoReadingType == NoReading \in Results
BY ReadingsAssumption DEF NoReading, Results, Rows

LEMMA ReplacedType ==
  ASSUME NEW S, NEW s \in Seq(S), NEW e \in S, NEW k \in Nat
  PROVE  [s EXCEPT ![k] = e] \in Seq(S)
<1>1. CASE k \in 1 .. Len(s)
  BY <1>1
<1>2. CASE k \notin 1 .. Len(s)
  <2>1. [s EXCEPT ![k] = e] = s
    BY <1>2
  <2> QED BY <2>1
<1> QED BY <1>1, <1>2

(* std::erase_if keeps the order of what stays.                            *)
LEMMA WithoutType ==
  ASSUME NEW S, NEW s \in Seq(S), NEW k \in DOMAIN s
  PROVE  /\ Without(s, k) \in Seq(S)
         /\ Len(Without(s, k)) = Len(s) - 1
         /\ DOMAIN Without(s, k) = 1 .. Len(s) - 1
         /\ \A j \in 1 .. Len(s) - 1 :
              Without(s, k)[j] = IF j < k THEN s[j] ELSE s[j + 1]
<1>1. Len(s) \in Nat /\ k \in 1 .. Len(s) /\ \A j \in 1 .. Len(s) : s[j] \in S
  OBVIOUS
<1>2. Len(s) - 1 \in Nat
  BY <1>1
<1>3. \A j \in 1 .. Len(s) - 1 : (IF j < k THEN s[j] ELSE s[j + 1]) \in S
  BY <1>1
<1> DEFINE w == [j \in 1 .. Len(s) - 1 |-> IF j < k THEN s[j] ELSE s[j + 1]]
<1>4. w \in Seq(S) /\ Len(w) = Len(s) - 1 /\ DOMAIN w = 1 .. Len(s) - 1
  BY <1>2, <1>3
<1> QED BY <1>4 DEF Without
-----------------------------------------------------------------------------
(* What a step leaves alone, and the few that change the results.          *)
LEMMA CallFixed ==
  ASSUME [Next]_vars
  PROVE  scene' = scene /\ opts' = opts
BY DEF Next, vars, call, NextRow, NextCheckRow, LastRow, Merge, AddNew, RowDone, Drop,
       BeginFilter, FilterPair, FilterNext, Erase, EndFilter, Rotate, Return

(* A row is only read while the loop has lines left.                       *)
TypeInv == TypeOK /\ (pc = "decode" => i < MaxLines)

LEMMA InitTyped == Init => TypeInv
<1> SUFFICES ASSUME Init PROVE TypeInv  OBVIOUS
<1> USE DEF Init
<1>1. maxSymbols \in Int
  BY ScenesAssumption, OptionsAssumption
<1>2. 0 \in Rows /\ 0 \in 0 .. Larger(Height, QuickLines)
  BY ReadingsAssumption, OptionsAssumption DEF Rows, Larger
<1>3. scanned \in [Rows -> Nat]
  OBVIOUS
<1> QED BY <1>1, <1>2, <1>3 DEF TypeOK, TypeInv

LEMMA MaxLinesBound ==
         MaxLines \in Nat /\ MaxLines <= Larger(Height, QuickLines)
<1>1. Height \in Nat /\ QuickLines \in Nat
  BY ReadingsAssumption, OptionsAssumption
<1> QED BY <1>1 DEF MaxLines, Larger

LEMMA ReadRowTyped ==
  ASSUME TypeOK, NEW r \in Rows, ReadRow(r)
  PROVE  /\ pc' = "decode" /\ row' \in Rows /\ todo' \subseteq Readings
         /\ state' \subseteq Stateful /\ scanned' \in [Rows -> Nat]
<1>1. todo' \subseteq Readings
  BY DEF ReadRow, ReadingsOf, MadeIn
<1>2. state' \subseteq Stateful
  BY DEF ReadRow, TypeOK
<1>3. scanned' \in [Rows -> Nat]
  BY DEF ReadRow, TypeOK
<1> QED BY <1>1, <1>2, <1>3 DEF ReadRow

LEMMA NextTyped == TypeInv /\ [Next]_vars => TypeOK'
<1> SUFFICES ASSUME TypeOK, pc = "decode" => i < MaxLines, [Next]_vars PROVE TypeOK'
  BY DEF TypeInv
<1>f. /\ scene' = scene /\ opts' = opts
      /\ scene' \in Scenes /\ opts' \in Options
  BY CallFixed DEF TypeOK
<1>m. MaxLines \in Nat /\ MaxLines <= Larger(Height, QuickLines) /\ Larger(Height, QuickLines) \in Nat
  BY MaxLinesBound, ReadingsAssumption, OptionsAssumption DEF Larger
<1>1. CASE NextRow
  <2>1. BaseRow(i) \in Rows /\ i < MaxLines /\ i \in Nat
    BY <1>1 DEF NextRow, MoreRows, TypeOK
  <2>2. /\ pc' \in {"row", "decode"} /\ row' \in Rows /\ todo' \subseteq Readings
        /\ state' \subseteq Stateful /\ scanned' \in [Rows -> Nat]
    <3>1. CASE BaseRow(i) \in scene.contrast
      BY <1>1, <2>1, <3>1, ReadRowTyped DEF NextRow
    <3>2. CASE BaseRow(i) \notin scene.contrast
      BY <1>1, <3>2 DEF NextRow, MoreRows, TypeOK
    <3> QED BY <3>1, <3>2
  <2>3. i' \in 0 .. Larger(Height, QuickLines)
    BY <1>1, <1>m, <2>1 DEF NextRow
  <2>4. UNCHANGED <<call, checkRows, res, filter>> /\ isCheckRow' = FALSE
    BY <1>1 DEF NextRow
  <2> QED BY <1>f, <2>2, <2>3, <2>4 DEF TypeOK, call, filter
<1>2. CASE NextCheckRow
  <2>1. checkRows' \in Seq(Int)
    BY <1>2 DEF NextCheckRow, TypeOK
  <2>2. /\ pc' \in {"row", "decode"} /\ row' \in Rows /\ todo' \subseteq Readings
        /\ state' \subseteq Stateful /\ scanned' \in [Rows -> Nat]
    <3>1. CASE checkRows[Len(checkRows)] \in Rows \cap scene.contrast
      BY <1>2, <3>1, ReadRowTyped DEF NextCheckRow
    <3>2. CASE checkRows[Len(checkRows)] \notin Rows \cap scene.contrast
      BY <1>2, <3>2 DEF NextCheckRow, MoreRows, TypeOK
    <3> QED BY <3>1, <3>2
  <2>3. UNCHANGED <<call, i, res, filter>> /\ isCheckRow' = TRUE
    BY <1>2 DEF NextCheckRow
  <2> QED BY <1>f, <2>1, <2>2, <2>3 DEF TypeOK, call, filter
<1>3. CASE LastRow
  BY <1>3, <1>f DEF LastRow, TypeOK, call, loop, filter
<1>4. ASSUME NEW c \in todo, Merge(c) PROVE TypeOK'
  <2>1. PICK k \in DOMAIN res : res' = [res EXCEPT ![k] = MergedWith(res[k])]
    BY <1>4 DEF Merge, KnownAs
  <2>2. res \in Seq(Results) /\ res[k] \in Results
    BY <2>1 DEF TypeOK
  <2>3. res' \in Seq(Results)
    BY <2>1, <2>2, MergedType DEF TypeOK
  <2>4. /\ UNCHANGED <<call, i, row, isCheckRow, checkRows, state, filter, scanned>>
        /\ pc' \in {"decode", "drop"} /\ todo' \subseteq Readings
    BY <1>4 DEF Merge, AfterReading, TypeOK
  <2> QED BY <1>f, <2>3, <2>4 DEF TypeOK, call, filter
<1>5. ASSUME NEW c \in todo, AddNew(c) PROVE TypeOK'
  <2>1. res' = Append(res, New(c)) /\ New(c) \in Results
    BY <1>5, NewType DEF AddNew, New, TypeOK
  <2>2. res' \in Seq(Results)
    BY <2>1 DEF TypeOK
  <2>3. checkRows' \in Seq(Int)
    <3>1. row \in Int
      BY ReadingsAssumption DEF TypeOK, Rows
    <3> QED BY <1>5, <3>1 DEF AddNew, CheckRowsFor, TypeOK
  <2>4. /\ UNCHANGED <<call, i, row, isCheckRow, state, filter, scanned>>
        /\ pc' \in {"decode", "drop"} /\ todo' \subseteq Readings
    BY <1>5 DEF AddNew, AfterReading, TypeOK
  <2> QED BY <1>f, <2>2, <2>3, <2>4 DEF TypeOK, call, filter
<1>6. CASE RowDone
  <2>1. i' \in 0 .. Larger(Height, QuickLines)
    <3>1. i \in Nat /\ i < MaxLines /\ i' \in {i, i + 1}
      BY <1>6 DEF RowDone, TypeOK
    <3> QED BY <1>m, <3>1
  <2> QED BY <1>6, <1>f, <2>1 DEF RowDone, TypeOK, call, loop, filter
<1>7. ASSUME NEW k \in DOMAIN res, Drop(k) \/ Erase(k) PROVE TypeOK'
  <2>1. res' \in Seq(Results) /\ UNCHANGED <<call, pc, i, loop, filter, scanned>>
    BY <1>7, WithoutType DEF Drop, Erase, TypeOK
  <2> QED BY <1>f, <2>1 DEF TypeOK, call, loop, filter
<1>8. CASE BeginFilter \/ FilterNext
  BY <1>8, <1>f DEF BeginFilter, FilterNext, TypeOK, call, loop, filter
<1>9. CASE FilterPair
  <2>1. res' \in Seq(Results)
    <3>1. \A k \in Nat : [res EXCEPT ![k] = NoReading] \in Seq(Results)
      BY NoReadingType, ReplacedType DEF TypeOK
    <3>2. a \in Nat /\ b \in Nat /\ res \in Seq(Results)
      BY DEF TypeOK
    <3> QED BY <1>9, <3>1, <3>2 DEF FilterPair
  <2> QED BY <1>9, <1>f, <2>1 DEF FilterPair, TypeOK, call, loop, filter
<1>10. CASE EndFilter
  BY <1>10, <1>f DEF EndFilter, TypeOK, call, loop, filter
<1>11. CASE Rotate
  <2>1. 0 \in Rows /\ 0 \in 0 .. Larger(Height, QuickLines)
    BY <1>m, ReadingsAssumption DEF Rows
  <2>2. maxSymbols' \in Int /\ resH' \in Seq(Results)
    BY <1>11 DEF Rotate, TypeOK
  <2>3. scanned' \in [Rows -> Nat]
    BY <1>11 DEF Rotate
  <2>4. /\ rotate' = TRUE /\ pc' = "row" /\ i' = 0 /\ row' = 0 /\ isCheckRow' = FALSE
        /\ checkRows' = <<>> /\ todo' = {} /\ state' = {} /\ res' = <<>>
        /\ a' = a /\ b' = b
    BY <1>11 DEF Rotate, filter
  <2>5. checkRows' \in Seq(Int) /\ res' \in Seq(Results)
    BY <2>4
  <2> QED BY <1>f, <2>1, <2>2, <2>3, <2>4, <2>5 DEF TypeOK
<1>12. CASE Return
  <2>1. res' \in Seq(Results)
    BY <1>12 DEF Return, TypeOK
  <2> QED BY <1>12, <1>f, <2>1 DEF Return, TypeOK, call, loop, filter
<1>13. CASE UNCHANGED vars
  BY <1>13 DEF vars, TypeOK, call, loop, filter
<1> QED BY <1>1, <1>2, <1>3, <1>4, <1>5, <1>6, <1>7, <1>8, <1>9, <1>10, <1>11, <1>12, <1>13
        DEF Next

LEMMA LoopKept == TypeInv /\ [Next]_vars => (pc = "decode" => i < MaxLines)'
<1> SUFFICES ASSUME TypeInv, [Next]_vars, pc' = "decode" PROVE i' < MaxLines'
  OBVIOUS
<1>1. MaxLines' = MaxLines
  BY CallFixed DEF MaxLines
<1>2. i' < MaxLines
  BY DEF Next, vars, loop, NextRow, NextCheckRow, MoreRows, LastRow, Merge, AddNew, RowDone,
         Drop, BeginFilter, FilterPair, FilterNext, Erase, EndFilter, Rotate, Return, TypeInv
<1> QED BY <1>1, <1>2

LEMMA TypeInvariant == Spec => []TypeInv
BY InitTyped, NextTyped, LoopKept, PTL DEF Spec, TypeInv

(* Reader::read: the results are always records of readings in rows of the *)
(* image, and what is left of the limit is a number.                       *)
THEOREM ScanTypeCorrect == Spec => []TypeOK
BY TypeInvariant, PTL DEF TypeInv
-----------------------------------------------------------------------------
(* The corner a row is merged into is the nearer one; moving it to the row *)
(* does not make the edges cross.                                          *)
Ordered(turned, r) == IF turned THEN r.bottom <= r.top ELSE r.top <= r.bottom

LEMMA NearerEdge ==
  ASSUME NEW lo \in Int, NEW hi \in Int, NEW x \in Int, lo <= hi
  PROVE  /\ Distance(lo, x) < Distance(hi, x) => x <= hi
         /\ Distance(lo, x) > Distance(hi, x) => lo <= x
         /\ Distance(lo, x) = Distance(hi, x) /\ lo > x => x <= hi
         /\ Distance(lo, x) = Distance(hi, x) /\ ~(lo > x) => lo <= x
         /\ Distance(lo, x) = Distance(hi, x) /\ hi > x => x <= hi
         /\ Distance(lo, x) = Distance(hi, x) /\ ~(hi > x) => lo <= x
  BY DEF Distance

LEMMA MergedOrdered ==
  ASSUME row \in Rows, rotate \in BOOLEAN, NEW r \in Results, Ordered(rotate, r)
  PROVE  Ordered(rotate, MergedWith(r))
<1> DEFINE top == r.top  bot == r.bottom
<1>1. top \in Int /\ bot \in Int /\ row \in Int
  BY ReadingsAssumption DEF Results, Rows
<1>2. Distance(top, row) \in Int /\ Distance(bot, row) \in Int
  BY <1>1 DEF Distance
<1>3. MergedWith(r).top = (IF Upwards(r) THEN row ELSE top)
      /\ MergedWith(r).bottom = (IF Upwards(r) THEN bot ELSE row)
  BY MergedRecord
<1>4. CASE ~rotate
  <2>1. top <= bot
    BY <1>4 DEF Ordered
  <2>2. Upwards(r) => row <= bot
    BY <1>1, <1>2, <1>4, <2>1, NearerEdge DEF Upwards
  <2>3. ~Upwards(r) => top <= row
    BY <1>1, <1>2, <1>4, <2>1, NearerEdge DEF Upwards
  <2> QED BY <1>3, <1>4, <2>2, <2>3 DEF Ordered
<1>5. CASE rotate
  <2>1. bot <= top
    BY <1>5 DEF Ordered
  <2>0. Upwards(r) <=> \/ Distance(top, row) < Distance(bot, row)
                       \/ Distance(top, row) = Distance(bot, row) /\ ~(top > row)
    BY <1>5, Zenon DEF Upwards
  <2>2. Upwards(r) => bot <= row
    BY <1>1, <1>2, <2>0, <2>1, NearerEdge
  <2>3. ~Upwards(r) => row <= top
    BY <1>1, <1>2, <2>0, <2>1, NearerEdge
  <2> QED BY <1>3, <1>5, <2>2, <2>3 DEF Ordered
<1> QED BY <1>4, <1>5

LEMMA InitInOrder == Init => EdgesInOrder
BY DEF Init, EdgesInOrder

LEMMA NextInOrder == TypeInv /\ EdgesInOrder /\ [Next]_vars => EdgesInOrder'
<1> SUFFICES ASSUME TypeOK, EdgesInOrder, [Next]_vars, pc' \in {"row", "decode", "drop"}
             PROVE  \A k \in DOMAIN res' : Ordered(rotate', res'[k])
  BY DEF TypeInv, EdgesInOrder, Ordered
<1>t. row \in Rows /\ rotate \in BOOLEAN /\ res \in Seq(Results)
  BY DEF TypeOK
<1>o. pc \in {"row", "decode", "drop"} => \A k \in DOMAIN res : Ordered(rotate, res[k])
  BY DEF EdgesInOrder, Ordered
<1>1. ASSUME NEW c \in todo, Merge(c) PROVE \A k \in DOMAIN res' : Ordered(rotate', res'[k])
  <2>1. PICK k \in DOMAIN res : res' = [res EXCEPT ![k] = MergedWith(res[k])]
    BY <1>1 DEF Merge, KnownAs
  <2>2. rotate' = rotate /\ pc = "decode"
    BY <1>1 DEF Merge, call
  <2>3. Ordered(rotate, MergedWith(res[k]))
    BY <1>t, <1>o, <2>1, <2>2, MergedOrdered
  <2>4. \A m \in DOMAIN res' : Ordered(rotate, res'[m])
    BY <1>t, <1>o, <2>1, <2>2, <2>3
  <2> QED BY <2>2, <2>4
<1>2. ASSUME NEW c \in todo, AddNew(c) PROVE \A k \in DOMAIN res' : Ordered(rotate', res'[k])
  <2>1. rotate' = rotate /\ pc = "decode" /\ res' = Append(res, New(c))
    BY <1>2 DEF AddNew, New, call
  <2>2. Ordered(rotate, New(c))
    BY <1>t, ReadingsAssumption DEF Ordered, New, Rows
  <2>3. \A m \in DOMAIN res' : Ordered(rotate, res'[m])
    BY <1>t, <1>o, <2>1, <2>2
  <2> QED BY <2>1, <2>3
<1>3. ASSUME NEW k \in DOMAIN res, Drop(k) PROVE \A m \in DOMAIN res' : Ordered(rotate', res'[m])
  <2>1. rotate' = rotate /\ pc = "drop" /\ res' = Without(res, k)
    BY <1>3 DEF Drop, call
  <2>2. \A m \in DOMAIN res' : Ordered(rotate, res'[m])
    <3>1. /\ DOMAIN res = 1 .. Len(res) /\ Len(res) \in Nat /\ k \in 1 .. Len(res)
          /\ DOMAIN res' = 1 .. Len(res) - 1
      BY <1>t, <2>1, WithoutType, LenProperties
    <3>2. \A m \in 1 .. Len(res) - 1 : res'[m] = IF m < k THEN res[m] ELSE res[m + 1]
      BY <1>t, <2>1, WithoutType
    <3>3. \A m \in 1 .. Len(res) : Ordered(rotate, res[m])
      BY <1>o, <2>1, <3>1
    <3> HIDE DEF Ordered
    <3> QED BY <3>1, <3>2, <3>3
  <2> QED BY <2>1, <2>2
<1>4. ASSUME NEW k \in DOMAIN res, Erase(k) PROVE FALSE
  BY <1>4 DEF Erase
<1>5. CASE NextRow \/ NextCheckRow \/ LastRow \/ RowDone \/ UNCHANGED vars
  <2>1. rotate' = rotate /\ res' = res /\ pc \in {"row", "decode", "drop"}
    BY <1>5 DEF NextRow, NextCheckRow, MoreRows, LastRow, RowDone, vars, call
  <2> QED BY <1>o, <2>1
<1>6. CASE BeginFilter \/ FilterPair \/ FilterNext \/ EndFilter \/ Return
  BY <1>6 DEF BeginFilter, FilterPair, FilterNext, EndFilter, Return
<1>7. CASE Rotate
  BY <1>7 DEF Rotate
<1> QED BY <1>1, <1>2, <1>3, <1>4, <1>5, <1>6, <1>7 DEF Next

(* DoDecode: whatever rows a symbol is found in, and in whatever order they *)
(* are read, its first corner stays above its last one, or behind it in a   *)
(* rotated image.                                                           *)
THEOREM EdgesNeverCross == Spec => []EdgesInOrder
BY TypeInvariant, InitInOrder, NextInOrder, PTL DEF Spec
-----------------------------------------------------------------------------
(* A reading changes a single entry, so that the entries with enough lines *)
(* are at most one more; erasing one with too few leaves as many.          *)
LEMMA IntervalSize ==
  ASSUME NEW n \in Nat
  PROVE  IsFiniteSet(1 .. n) /\ Cardinality(1 .. n) = n
<1>1. /\ IsFiniteSet(1 .. n)
      /\ Cardinality(1 .. n) = IF 1 > n THEN 0 ELSE n - 1 + 1
  BY FS_Interval
<1> QED BY <1>1

LEMMA EnoughSize ==
  ASSUME NEW s \in Seq(Results)
  PROVE  /\ IsFiniteSet(Enough(s)) /\ Cardinality(Enough(s)) \in Nat
         /\ Cardinality(Enough(s)) <= Len(s)
<1>1. Enough(s) \subseteq 1 .. Len(s) /\ Len(s) \in Nat
  BY DEF Enough
<1>2. IsFiniteSet(1 .. Len(s)) /\ Cardinality(1 .. Len(s)) = Len(s)
  BY <1>1, IntervalSize
<1> QED BY <1>1, <1>2, FS_Subset, FS_CardinalityType

LEMMA OneMore ==
  ASSUME NEW s \in Seq(Results), NEW t \in Seq(Results), NEW k \in Nat,
         \A m \in DOMAIN t \ {k} : m \in DOMAIN s /\ t[m] = s[m]
  PROVE  Cardinality(Enough(t)) <= Cardinality(Enough(s)) + 1
<1>1. Enough(t) \subseteq Enough(s) \cup {k}
  BY DEF Enough
<1>2. /\ IsFiniteSet(Enough(s) \cup {k})
      /\ Cardinality(Enough(s) \cup {k}) <= Cardinality(Enough(s)) + 1
  <2> DEFINE E == Enough(s)
  <2>1. IsFiniteSet(E) /\ Cardinality(E) \in Nat
    BY EnoughSize
  <2> HIDE DEF E
  <2>2. IsFiniteSet(E \cup {k}) /\ Cardinality(E \cup {k}) <= Cardinality(E) + 1
    <3>1. /\ IsFiniteSet(E \cup {k})
          /\ Cardinality(E \cup {k}) = IF k \in E THEN Cardinality(E) ELSE Cardinality(E) + 1
      BY <2>1, FS_AddElement, Zenon
    <3> QED BY <2>1, <3>1
  <2> QED BY <2>2 DEF E
<1>3. Cardinality(Enough(t)) <= Cardinality(Enough(s) \cup {k})
  BY <1>1, <1>2, FS_Subset
<1> QED BY <1>2, <1>3, EnoughSize, FS_CardinalityType

LEMMA EraseSize ==
  ASSUME NEW s \in Seq(Results), NEW k \in DOMAIN s
  PROVE  Cardinality(Enough(Without(s, k))) <= Cardinality(Enough(s))
<1> DEFINE w == Without(s, k)
           f == [m \in Enough(w) |-> IF m < k THEN m ELSE m + 1]
<1>1. /\ Len(s) \in Nat /\ k \in 1 .. Len(s) /\ DOMAIN w = 1 .. Len(s) - 1
      /\ \A m \in 1 .. Len(s) - 1 : w[m] = IF m < k THEN s[m] ELSE s[m + 1]
  BY WithoutType, LenProperties
<1>2. Enough(w) \subseteq 1 .. Len(s) - 1
  BY <1>1 DEF Enough
<1>3. \A m \in Enough(w) : (IF m < k THEN m ELSE m + 1) \in Enough(s)
  <2> SUFFICES ASSUME NEW m \in Enough(w)
               PROVE  (IF m < k THEN m ELSE m + 1) \in Enough(s)
    OBVIOUS
  <2>1. m \in 1 .. Len(s) - 1 /\ HasEnough(w[m])
    BY <1>2 DEF Enough
  <2>2. CASE m < k
    BY <1>1, <2>1, <2>2 DEF Enough
  <2>3. CASE ~(m < k)
    <3>1. m + 1 \in 1 .. Len(s) /\ w[m] = s[m + 1]
      BY <1>1, <2>1, <2>3
    <3> QED BY <2>1, <2>3, <3>1 DEF Enough
  <2> QED BY <2>2, <2>3
<1>4. \A m, n \in Enough(w) :
        (IF m < k THEN m ELSE m + 1) = (IF n < k THEN n ELSE n + 1) => m = n
  BY <1>1, <1>2
<1> HIDE DEF w
<1>5. f \in Injection(Enough(w), Enough(s))
  BY <1>3, <1>4 DEF Injection, IsInjective
<1>6. IsFiniteSet(Enough(s))
  BY EnoughSize
<1>7. Cardinality(Enough(w)) <= Cardinality(Enough(s))
  BY <1>5, <1>6, FS_Injection
<1> QED BY <1>7 DEF w

LEMMA AllEnough ==
  ASSUME NEW s \in Seq(Results), \A k \in DOMAIN s : HasEnough(s[k])
  PROVE  Cardinality(Enough(s)) = Len(s)
<1>1. Enough(s) = 1 .. Len(s) /\ Len(s) \in Nat
  BY DEF Enough
<1> QED BY <1>1, IntervalSize

LEMMA EnoughFixed ==
  ASSUME [Next]_vars
  PROVE  /\ MinLineCount' = MinLineCount
         /\ \A s : HasEnough(s)' <=> HasEnough(s)
         /\ \A s : Enough(s)' = Enough(s)
BY CallFixed DEF MinLineCount, HasEnough, Enough

(* The limit of a call is what the first call has left of it, and the loop *)
(* goes on only while fewer symbols than that have enough lines.           *)
LimitInv ==
  /\ rotate = FALSE => resH = <<>>
  /\ maxSymbols = opts.maxSymbols - Len(resH)
  /\ opts.maxSymbols # 0 =>
       /\ pc \in {"row", "decode"} => Cardinality(Enough(res)) < maxSymbols
       /\ pc = "drop" => Cardinality(Enough(res)) <= maxSymbols
       /\ pc \in {"filter", "return"} => Len(res) <= maxSymbols
       /\ pc = "done" => Len(res) <= opts.maxSymbols

LEMMA InitLimit == Init => LimitInv
<1> SUFFICES ASSUME Init PROVE LimitInv  OBVIOUS
<1>1. opts.maxSymbols \in Nat
  BY OptionsAssumption DEF Init
<1>2. Enough(<<>>) = {}
  BY DEF Enough
<1>3. /\ rotate = FALSE /\ resH = <<>> /\ maxSymbols = opts.maxSymbols /\ pc = "row"
      /\ res = <<>>
  BY DEF Init
<1>4. Cardinality(Enough(res)) = 0 /\ Len(resH) = 0
  BY <1>2, <1>3, FS_EmptySet
<1> QED BY <1>1, <1>3, <1>4 DEF LimitInv

(* After a reading: the loop is left as soon as the limit is reached.      *)
LEMMA ReadingLimit ==
  ASSUME TypeOK, LimitInv, [Next]_vars, pc = "decode", res' \in Seq(Results), NEW c,
         AfterReading(c, res'), UNCHANGED <<call, i>>, NEW k \in Nat,
         \A m \in DOMAIN res' \ {k} : m \in DOMAIN res /\ res'[m] = res[m]
  PROVE  LimitInv'
<1>1. CASE opts.maxSymbols = 0
  BY <1>1 DEF LimitInv, call
<1>2. CASE opts.maxSymbols # 0
  <2> DEFINE before == Cardinality(Enough(res))  after == Cardinality(Enough(res'))
  <2>1. before \in Nat /\ after \in Nat /\ after <= before + 1
    BY EnoughSize, OneMore DEF TypeOK
  <2>2. before < maxSymbols /\ maxSymbols \in Int
    BY <1>2 DEF LimitInv, TypeOK
  <2>3. Cardinality(Enough(res)') = after
    BY EnoughFixed
  <2>4. IF after = maxSymbols THEN pc' = "drop" ELSE pc' = "decode"
    <3> HIDE DEF before
    <3> QED BY <2>1, <2>2 DEF AfterReading
  <2> HIDE DEF before, after
  <2>5. after <= maxSymbols /\ (pc' = "decode" => after < maxSymbols) /\ pc' \in {"decode", "drop"}
    BY <2>1, <2>2, <2>4
  <2> QED BY <1>2, <2>3, <2>5 DEF LimitInv, call
<1> QED BY <1>1, <1>2

LEMMA NextLimit == TypeInv /\ LimitInv /\ [Next]_vars => LimitInv'
<1> SUFFICES ASSUME TypeOK, LimitInv, [Next]_vars PROVE LimitInv'
  BY DEF TypeInv
<1>t. res \in Seq(Results) /\ resH \in Seq(Results) /\ opts.maxSymbols \in Nat /\ Len(res) \in Nat
  BY OptionsAssumption DEF TypeOK
<1>c. opts' = opts
  BY CallFixed
<1>e. \A s : Enough(s)' = Enough(s)
  BY EnoughFixed
<1>1. CASE NextRow \/ NextCheckRow \/ LastRow \/ RowDone \/ UNCHANGED vars
  <2>1. UNCHANGED <<call, res>> /\ (pc' = pc \/ (pc \in {"row", "decode"} /\ pc' \in {"row", "decode", "drop"}))
    BY <1>1 DEF NextRow, NextCheckRow, ReadRow, MoreRows, LastRow, RowDone, vars
  <2>2. Enough(res)' = Enough(res)
    BY <1>e, <2>1
  <2>3. Cardinality(Enough(res)) \in Nat /\ maxSymbols \in Int
    BY <1>t, EnoughSize DEF TypeOK
  <2> QED BY <2>1, <2>2, <2>3 DEF LimitInv, call
<1>2. ASSUME NEW c \in todo, Merge(c) PROVE LimitInv'
  <2>1. PICK k \in DOMAIN res : res' = [res EXCEPT ![k] = MergedWith(res[k])]
    BY <1>2 DEF Merge, KnownAs
  <2>2. k \in Nat /\ \A m \in DOMAIN res' \ {k} : m \in DOMAIN res /\ res'[m] = res[m]
    BY <1>t, <2>1
  <2>3. res' \in Seq(Results)
    BY <1>t, <2>1, MergedType DEF TypeOK
  <2>4. pc = "decode" /\ AfterReading(c, res') /\ UNCHANGED <<call, i>>
    BY <1>2 DEF Merge
  <2> QED BY <2>2, <2>3, <2>4, ReadingLimit
<1>3. ASSUME NEW c \in todo, AddNew(c) PROVE LimitInv'
  <2>1. res' = Append(res, New(c)) /\ New(c) \in Results
    BY <1>3, NewType DEF AddNew, New, TypeOK
  <2> DEFINE k == Len(res) + 1
  <2>2. k \in Nat /\ \A m \in DOMAIN res' \ {k} : m \in DOMAIN res /\ res'[m] = res[m]
    BY <1>t, <2>1
  <2>3. res' \in Seq(Results)
    BY <1>t, <2>1
  <2>4. pc = "decode" /\ AfterReading(c, res') /\ UNCHANGED <<call, i>>
    BY <1>3 DEF AddNew
  <2> QED BY <2>2, <2>3, <2>4, ReadingLimit
<1>4. ASSUME NEW k \in DOMAIN res, Drop(k) PROVE LimitInv'
  <2>1. UNCHANGED call /\ pc = "drop" /\ pc' = "drop" /\ res' = Without(res, k)
    BY <1>4 DEF Drop
  <2>2. Enough(res)' = Enough(Without(res, k))
    BY <1>e, <2>1
  <2>3. /\ Cardinality(Enough(res)') <= Cardinality(Enough(res))
        /\ Cardinality(Enough(res)') \in Nat /\ Cardinality(Enough(res)) \in Nat
    BY <1>t, <2>2, EnoughSize, EraseSize, WithoutType
  <2>4. opts.maxSymbols # 0 => Cardinality(Enough(res)) <= maxSymbols /\ maxSymbols \in Int
    BY <2>1 DEF LimitInv, TypeOK
  <2> QED BY <2>1, <2>3, <2>4 DEF LimitInv, call
<1>5. CASE BeginFilter
  <2>1. UNCHANGED <<call, res>> /\ pc = "drop" /\ pc' = "filter" /\ \A k \in DOMAIN res : HasEnough(res[k])
    BY <1>5 DEF BeginFilter
  <2>2. Cardinality(Enough(res)) = Len(res)
    BY <1>t, <2>1, AllEnough
  <2> QED BY <2>1, <2>2 DEF LimitInv, call
<1>6. CASE FilterPair \/ FilterNext \/ EndFilter
  <2>1. UNCHANGED call /\ pc = "filter" /\ pc' \in {"filter", "return"} /\ Len(res') = Len(res)
    BY <1>6, <1>t DEF FilterPair, FilterNext, EndFilter
  <2> QED BY <2>1 DEF LimitInv, call
<1>7. ASSUME NEW k \in DOMAIN res, Erase(k) PROVE LimitInv'
  <2>1. UNCHANGED call /\ pc = "filter" /\ pc' = "filter" /\ Len(res') = Len(res) - 1
    BY <1>7, <1>t, WithoutType DEF Erase
  <2>2. opts.maxSymbols # 0 => Len(res) <= maxSymbols /\ maxSymbols \in Int
    BY <2>1 DEF LimitInv, TypeOK
  <2> QED BY <1>t, <2>1, <2>2 DEF LimitInv, call
<1>8. CASE Rotate
  <2>1. /\ rotate = FALSE /\ rotate' = TRUE /\ maxSymbols' = maxSymbols - Len(res) /\ resH' = res
        /\ pc' = "row" /\ res' = <<>> /\ RoomFor(res)
    BY <1>8 DEF Rotate
  <2>2. maxSymbols = opts.maxSymbols
    BY <1>t, <2>1 DEF LimitInv
  <2>3. Cardinality(Enough(res)') = 0
    <3>1. Enough(res)' = Enough(<<>>)
      BY <1>e, <2>1
    <3> QED BY <3>1, FS_EmptySet DEF Enough
  <2>4. opts.maxSymbols # 0 => Len(res) < opts.maxSymbols
    BY <2>1 DEF RoomFor
  <2> QED BY <1>t, <1>c, <2>1, <2>2, <2>3, <2>4 DEF LimitInv
<1>9. CASE Return
  <2>1. UNCHANGED call /\ pc = "return" /\ pc' = "done" /\ res' = resH \o res
    BY <1>9 DEF Return
  <2>2. Len(res') = Len(resH) + Len(res) /\ Len(resH) \in Nat
    BY <1>t, <2>1, ConcatProperties
  <2> QED BY <1>t, <2>1, <2>2 DEF LimitInv, call
<1> QED BY <1>1, <1>2, <1>3, <1>4, <1>5, <1>6, <1>7, <1>8, <1>9 DEF Next

(* Reader::read: over both directions of the image, no more symbols have   *)
(* enough lines than were asked for, at any moment of the scan.            *)
THEOREM LimitIsKept == Spec => []LimitKept
<1>1. TypeInv /\ LimitInv => LimitKept
  <2> SUFFICES ASSUME TypeOK, LimitInv, opts.maxSymbols # 0
               PROVE  Cardinality(Enough(res)) + (IF pc = "done" THEN 0 ELSE Len(resH))
                        <= opts.maxSymbols
    BY DEF TypeInv, LimitKept
  <2>1. /\ Cardinality(Enough(res)) \in Nat /\ Cardinality(Enough(res)) <= Len(res)
        /\ Len(res) \in Nat /\ Len(resH) \in Nat /\ opts.maxSymbols \in Nat
    BY EnoughSize, OptionsAssumption DEF TypeOK
  <2>2. pc \in {"row", "decode", "drop", "filter", "return", "done"}
    BY DEF TypeOK
  <2> QED BY <2>1, <2>2 DEF LimitInv
<1> QED BY <1>1, TypeInvariant, InitLimit, NextLimit, PTL DEF Spec
-----------------------------------------------------------------------------
(* With a step of one row the scan covers one row after the other, above   *)
(* and below the middle in turn.                                           *)
LEMMA Halves ==
  ASSUME NEW n \in Nat
  PROVE  /\ n \div 2 \in Nat /\ (n + 1) \div 2 \in Nat /\ n % 2 \in {0, 1}
         /\ n % 2 = 0 => n = 2 * (n \div 2) /\ (n + 1) \div 2 = n \div 2
                         /\ (n + 2) \div 2 = n \div 2 + 1
         /\ n % 2 = 1 => n = 2 * (n \div 2) + 1 /\ (n + 1) \div 2 = n \div 2 + 1
                         /\ (n + 2) \div 2 = n \div 2 + 1
OBVIOUS

Covered(n) == Middle - n \div 2 .. Middle + (n + 1) \div 2 - 1

LEMMA MiddleRow == Middle \in Nat /\ (Height = 2 * Middle \/ Height = 2 * Middle + 1)
<1>1. Height \in Nat
  BY ReadingsAssumption
<1> QED BY <1>1, Halves DEF Middle

LEMMA Outwards ==
  ASSUME NEW n \in Nat, RowStep = 1
  PROVE  /\ BaseRow(n) \in Int
         /\ BaseRow(n) = Middle - n \div 2 - 1 \/ BaseRow(n) = Middle + (n + 1) \div 2
         /\ BaseRow(n) \notin Covered(n)
         /\ Covered(n + 1) = Covered(n) \cup {BaseRow(n)}
         /\ n < Height => BaseRow(n) \in Rows
<1> DEFINE h == n \div 2  g == (n + 1) \div 2
<1>1. h \in Nat /\ g \in Nat /\ Middle \in Nat /\ Height \in Nat
  BY Halves, MiddleRow, ReadingsAssumption
<1>2. CASE n % 2 = 0
  <2>1. n = 2 * h /\ g = h /\ (n + 1 + 1) \div 2 = h + 1
    <3>1. n + 1 + 1 = n + 2
      OBVIOUS
    <3> QED BY <1>2, <3>1, Halves
  <2>2. BaseRow(n) = Middle + h
    BY <1>1, <1>2, <2>1 DEF BaseRow
  <2>3. Covered(n) = Middle - h .. Middle + h - 1 /\ Covered(n + 1) = Middle - h .. Middle + (h + 1) - 1
    BY <2>1 DEF Covered
  <2> HIDE DEF h, g
  <2>4. n < Height => Middle + h < Height
    BY <1>1, <2>1, MiddleRow
  <2> QED BY <1>1, <2>1, <2>2, <2>3, <2>4 DEF Rows, h, g
<1>3. CASE n % 2 = 1
  <2>1. n = 2 * h + 1 /\ g = h + 1 /\ (n + 1 + 1) \div 2 = h + 1
    <3>1. n + 1 + 1 = n + 2
      OBVIOUS
    <3> QED BY <1>3, <3>1, Halves
  <2>2. BaseRow(n) = Middle - (h + 1)
    BY <1>1, <1>3, <2>1 DEF BaseRow
  <2>3. Covered(n) = Middle - h .. Middle + (h + 1) - 1 /\ Covered(n + 1) = Middle - (h + 1) .. Middle + (h + 1) - 1
    BY <2>1 DEF Covered
  <2> HIDE DEF h, g
  <2>4. n < Height => Middle - (h + 1) >= 0 /\ Middle - (h + 1) < Height
    BY <1>1, <2>1, MiddleRow
  <2> QED BY <1>1, <2>1, <2>2, <2>3, <2>4 DEF Rows, h, g
<1> QED BY <1>2, <1>3, Halves

LEMMA CoveredEnds == Covered(0) = {} /\ Covered(Height) = Rows
<1>1. Height \in Nat /\ Middle \in Nat
  BY ReadingsAssumption, MiddleRow
<1>2. 0 \div 2 = 0 /\ (0 + 1) \div 2 = 0
  OBVIOUS
<1>3. Height \div 2 = Middle /\ (Height + 1) \div 2 = Height - Middle
  BY <1>1, Halves DEF Middle
<1>4. Covered(0) = {}
  BY <1>1, <1>2 DEF Covered
<1>5. Covered(Height) = 0 .. Height - 1
  BY <1>1, <1>3 DEF Covered
<1> QED BY <1>4, <1>5 DEF Rows

(* With tryHarder and a step of one row, no check rows are scheduled and   *)
(* each row covered so far has been read once, if it has any contrast.     *)
RowByRow == opts.tryHarder /\ RowStep = 1
LinesDone == IF pc = "decode" THEN i + 1 ELSE i
ScannedInv ==
  RowByRow =>
    /\ checkRows = <<>> /\ (pc = "decode" => ~isCheckRow)
    /\ pc \in {"row", "decode"} =>
         /\ LinesDone <= Height
         /\ \A r \in Rows :
              scanned[r] = IF r \in Covered(LinesDone) \cap scene.contrast THEN 1 ELSE 0

LEMMA RowByRowFixed ==
  ASSUME [Next]_vars, maxSymbols' = maxSymbols
  PROVE  RowByRow' <=> RowByRow
BY CallFixed DEF RowByRow, RowStep

LEMMA InitScanned == Init => ScannedInv
<1> SUFFICES ASSUME Init PROVE ScannedInv  OBVIOUS
<1>1. pc = "row" /\ i = 0 /\ checkRows = <<>> /\ scanned = [r \in Rows |-> 0]
  BY DEF Init
<1> QED BY <1>1, CoveredEnds, ReadingsAssumption DEF ScannedInv, LinesDone

LEMMA NextScanned == TypeInv /\ ScannedInv /\ [Next]_vars => ScannedInv'
<1> SUFFICES ASSUME TypeInv, ScannedInv, [Next]_vars, RowByRow'
             PROVE  /\ checkRows' = <<>> /\ (pc' = "decode" => ~isCheckRow')
                    /\ pc' \in {"row", "decode"} =>
                         /\ LinesDone' <= Height
                         /\ \A r \in Rows :
                              scanned'[r] = IF r \in Covered(LinesDone') \cap scene'.contrast
                                              THEN 1 ELSE 0
  BY Zenon DEF ScannedInv, Covered, Middle, Rows
<1>s. scene' = scene
  BY CallFixed
<1>h. /\ Height \in Nat /\ i \in Nat /\ scanned \in [Rows -> Nat]
      /\ scene.contrast \subseteq Rows
  BY ReadingsAssumption, ScenesAssumption DEF TypeInv, TypeOK
<1>1. CASE Rotate
  <2>1. /\ pc' = "row" /\ i' = 0 /\ checkRows' = <<>> /\ isCheckRow' = FALSE
        /\ scanned' = [r \in Rows |-> 0]
    BY <1>1 DEF Rotate
  <2> QED BY <1>h, <2>1, CoveredEnds DEF LinesDone
<1>2. ASSUME ~Rotate
      PROVE  /\ RowByRow /\ RowStep = 1 /\ checkRows = <<>> /\ (pc = "decode" => ~isCheckRow)
             /\ pc \in {"row", "decode"} =>
                  /\ LinesDone <= Height
                  /\ \A r \in Rows :
                       scanned[r] = IF r \in Covered(LinesDone) \cap scene.contrast THEN 1 ELSE 0
  <2>1. maxSymbols' = maxSymbols
    BY <1>2 DEF Next, vars, call, NextRow, NextCheckRow, LastRow, Merge, AddNew, RowDone, Drop,
                BeginFilter, FilterPair, FilterNext, Erase, EndFilter, Return
  <2> QED BY <2>1, RowByRowFixed, Zenon DEF ScannedInv, RowByRow
<1>3. CASE NextRow
  <2>0. RowStep = 1 /\ ~Rotate
    BY <1>2, <1>3 DEF NextRow, MoreRows, Rotate
  <2>1. /\ BaseRow(i) \in Rows /\ i < Height /\ pc = "row" /\ isCheckRow' = FALSE
        /\ checkRows' = <<>>
    BY <1>2, <1>3, <2>0 DEF NextRow, MoreRows, MaxLines, RowByRow
  <2>2. /\ BaseRow(i) \notin Covered(i) /\ Covered(i + 1) = Covered(i) \cup {BaseRow(i)}
        /\ LinesDone = i
    BY <1>h, <2>0, <2>1, Outwards DEF LinesDone
  <2>3. \A r \in Rows : scanned[r] = IF r \in Covered(i) \cap scene.contrast THEN 1 ELSE 0
    BY <1>2, <2>0, <2>1, <2>2
  <2>4. LinesDone' = i + 1
    BY <1>3, <2>1 DEF NextRow, ReadRow, LinesDone
  <2>5. \A r \in Rows :
          scanned'[r] = IF r \in Covered(i + 1) \cap scene.contrast THEN 1 ELSE 0
    <3>1. CASE BaseRow(i) \in scene.contrast
      <4>1. scanned' = [scanned EXCEPT ![BaseRow(i)] = scanned[BaseRow(i)] + 1]
        BY <1>3, <3>1 DEF NextRow, ReadRow
      <4>2. scanned[BaseRow(i)] = 0
        BY <2>1, <2>2, <2>3
      <4>3. ASSUME NEW r \in Rows
            PROVE  scanned'[r] = IF r \in Covered(i + 1) \cap scene.contrast THEN 1 ELSE 0
        <5>1. CASE r = BaseRow(i)
          BY <1>h, <2>2, <3>1, <4>1, <4>2, <5>1
        <5>2. CASE r # BaseRow(i)
          BY <1>h, <2>2, <2>3, <4>1, <5>2
        <5> QED BY <5>1, <5>2
      <4> QED BY <4>3
    <3>2. CASE BaseRow(i) \notin scene.contrast
      <4>1. scanned' = scanned
        BY <1>3, <3>2 DEF NextRow
      <4> QED BY <2>2, <2>3, <3>2, <4>1
    <3> QED BY <3>1, <3>2
  <2> QED BY <1>h, <1>s, <2>1, <2>4, <2>5
<1>4. CASE NextCheckRow
  BY <1>2, <1>4 DEF NextCheckRow, MoreRows, Rotate
<1>5. CASE RowDone
  <2>1. /\ pc = "decode" /\ pc' = "row" /\ UNCHANGED <<checkRows, isCheckRow, scanned>>
        /\ i' = (IF isCheckRow THEN i ELSE i + 1) /\ ~Rotate
    BY <1>5 DEF RowDone, loop, Rotate
  <2>2. LinesDone' = LinesDone
    BY <1>2, <2>1 DEF LinesDone
  <2> QED BY <1>2, <1>s, <2>1, <2>2
<1>6. CASE (\E c \in todo : Merge(c) \/ AddNew(c)) \/ LastRow \/ UNCHANGED vars
  <2>1. /\ ~Rotate \/ UNCHANGED vars
        /\ pc' \in {pc, "drop"}
        /\ UNCHANGED <<i, isCheckRow, scanned>>
        /\ checkRows' \in {checkRows, CheckRowsFor(row)}
    BY <1>6, Zenon DEF Merge, AddNew, LastRow, AfterReading, vars, loop, Rotate
  <2>2. CASE UNCHANGED vars
    <3>1. maxSymbols' = maxSymbols /\ pc' = pc /\ checkRows' = checkRows
      BY <2>2 DEF vars, call, loop
    <3>2. RowByRow
      BY <3>1, RowByRowFixed
    <3>3. LinesDone' = LinesDone
      BY <2>1, <3>1 DEF LinesDone
    <3> QED BY <1>s, <2>1, <3>1, <3>2, <3>3 DEF ScannedInv
  <2>3. CASE ~Rotate
    <3>1. checkRows' = <<>>
      BY <1>2, <2>1, <2>3 DEF CheckRowsFor
    <3>2. pc' = pc => LinesDone' = LinesDone
      BY <2>1 DEF LinesDone
    <3> QED BY <1>2, <1>s, <2>1, <2>3, <3>1, <3>2
  <2> QED BY <2>1, <2>2, <2>3
<1>7. CASE (\E k \in DOMAIN res : Drop(k) \/ Erase(k)) \/ BeginFilter \/ FilterPair
           \/ FilterNext \/ EndFilter \/ Return
  <2>1. /\ ~Rotate /\ pc' \notin {"row", "decode"} /\ checkRows' = checkRows
    BY <1>7 DEF Drop, Erase, BeginFilter, FilterPair, FilterNext, EndFilter, Return, Rotate, loop
  <2> QED BY <1>2, <2>1
<1> QED BY <1>1, <1>3, <1>4, <1>5, <1>6, <1>7 DEF Next

(* "Look at the whole image, not just the center": with tryHarder, when the *)
(* loop over the rows of an image that is not scaled down ends, every row  *)
(* with any contrast has been read exactly once, whatever its height.      *)
THEOREM WholeImageRead == Spec => WholeImage
<1>1. TypeInv /\ ScannedInv /\ LastRow /\ opts.tryHarder /\ RowStep = 1
      => \A r \in scene.contrast : scanned[r] = 1
  <2> SUFFICES ASSUME TypeInv, ScannedInv, LastRow, RowByRow
               PROVE  \A r \in scene.contrast : scanned[r] = 1
    BY DEF RowByRow
  <2>1. /\ pc = "row"
        /\ i >= Height \/ BaseRow(i) \notin Rows
        /\ Height \in Nat /\ i \in Nat /\ scene.contrast \subseteq Rows
    BY ReadingsAssumption, ScenesAssumption
    DEF LastRow, MaxLines, RowByRow, TypeInv, TypeOK
  <2>2. i = Height
    BY <2>1, Outwards DEF ScannedInv, LinesDone, LastRow, RowByRow
  <2>3. \A r \in Rows : scanned[r] = IF r \in Rows \cap scene.contrast THEN 1 ELSE 0
    BY <2>1, <2>2, CoveredEnds DEF ScannedInv, LinesDone, LastRow
  <2> QED BY <2>1, <2>3
<1>2. Spec => []TypeInv
  BY TypeInvariant
<1>3. Spec => []ScannedInv
  BY TypeInvariant, InitScanned, NextScanned, PTL DEF Spec
<1> QED BY <1>1, <1>2, <1>3, PTL DEF WholeImage
-----------------------------------------------------------------------------
(* Only readings made in the rows of this direction of the image are       *)
(* reported, and an entry is one of them or was overwritten by the filter. *)
InPass(turned, c) == (c \in Vertical) = turned
TodoInv == pc = "decode" => \A d \in todo : row \in scene.made[d] /\ InPass(rotate, d)
RowAt == RowByRow /\ pc = "decode" => row = BaseRow(i) /\ row \in scene.contrast
PairInv == pc = "filter" => a < b
Entry(turned, r) ==
  /\ r.reading = 0 => r = NoReading
  /\ r.reading # 0 => InPass(turned, r.reading) /\ scene.made[r.reading] # {}
EntriesInv == pc # "done" => \A k \in DOMAIN res : Entry(rotate, res[k])

LEMMA ReportedReadings ==
  ASSUME NEW r, NEW n, NEW c \in ReadingsOf(r, n)
  PROVE  c \in Readings /\ r \in scene.made[c] /\ InPass(rotate, c)
BY Zenon DEF ReadingsOf, MadeIn, InPass

LEMMA AllReported ==
  ASSUME NEW r, NEW n, opts.tryHarder, ~opts.isPure, NEW c \in Readings,
         r \in scene.made[c], InPass(rotate, c)
  PROVE  c \in ReadingsOf(r, n)
<1>1. Kind[c] \in Asked(n)
  BY DEF Asked
<1>2. CASE c \in Reversed
  <2>1. c \in MadeIn(r, n, TRUE)
    BY <1>1, <1>2, Zenon DEF MadeIn, InPass
  <2> QED BY <2>1 DEF ReadingsOf
<1>3. CASE c \notin Reversed
  <2>1. c \in MadeIn(r, n, FALSE)
    <3>1. (c \in Reversed) = FALSE
      BY <1>3
    <3> QED BY <1>1, <3>1, Zenon DEF MadeIn, InPass
  <2> QED BY <2>1 DEF ReadingsOf
<1> QED BY <1>2, <1>3

(* The steps that read a row, and those that stay in the same call.        *)
LEMMA SameCall ==
  ASSUME [Next]_vars, ~Rotate
  PROVE  UNCHANGED call
BY DEF Next, vars, call, NextRow, NextCheckRow, LastRow, Merge, AddNew, RowDone, Drop,
       BeginFilter, FilterPair, FilterNext, Erase, EndFilter, Rotate, Return

LEMMA InitRows == Init => TodoInv /\ RowAt /\ PairInv /\ EntriesInv
BY DEF Init, TodoInv, RowAt, PairInv, EntriesInv

LEMMA NextTodo == TypeInv /\ TodoInv /\ [Next]_vars => TodoInv'
<1> SUFFICES ASSUME TypeInv, TodoInv, [Next]_vars, pc' = "decode", NEW d \in todo'
             PROVE  row' \in scene'.made[d] /\ InPass(rotate', d)
  BY Zenon DEF TodoInv
<1>1. ASSUME NEW r, ReadRow(r), UNCHANGED call
      PROVE  row' \in scene'.made[d] /\ InPass(rotate', d)
  <2>1. row' = r /\ d \in ReadingsOf(r, i) /\ scene' = scene /\ rotate' = rotate
    BY <1>1 DEF ReadRow, call
  <2>2. r \in scene.made[d] /\ InPass(rotate, d)
    BY <2>1, ReportedReadings
  <2> QED BY <2>1, <2>2, Zenon DEF InPass
<1>2. ASSUME pc = "decode", d \in todo, UNCHANGED <<call, row>>
      PROVE  row' \in scene'.made[d] /\ InPass(rotate', d)
  <2>1. row' = row /\ scene' = scene /\ rotate' = rotate
    BY <1>2 DEF call
  <2> QED BY <1>2, <2>1, Zenon DEF TodoInv, InPass
<1>3. CASE NextRow \/ NextCheckRow
  <2>1. UNCHANGED call /\ \E r : ReadRow(r)
    BY <1>3 DEF NextRow, NextCheckRow, MoreRows
  <2> QED BY <1>1, <2>1
<1>4. CASE (\E c \in todo : Merge(c) \/ AddNew(c)) \/ UNCHANGED vars
  <2>1. UNCHANGED <<call, row>> /\ pc = "decode" /\ d \in todo
    BY <1>4 DEF Merge, AddNew, AfterReading, vars, loop
  <2> QED BY <1>2, <2>1
<1>5. CASE LastRow \/ RowDone \/ (\E k \in DOMAIN res : Drop(k) \/ Erase(k)) \/ BeginFilter
           \/ FilterPair \/ FilterNext \/ EndFilter \/ Rotate \/ Return
  BY <1>5 DEF LastRow, RowDone, Drop, Erase, BeginFilter, FilterPair, FilterNext, EndFilter,
              Rotate, Return
<1> QED BY <1>3, <1>4, <1>5 DEF Next

LEMMA NextRowAt == TypeInv /\ ScannedInv /\ RowAt /\ [Next]_vars => RowAt'
<1> SUFFICES ASSUME TypeInv, ScannedInv, RowAt, [Next]_vars, RowByRow', pc' = "decode"
             PROVE  row' = BaseRow(i)' /\ row' \in scene'.contrast
  BY Zenon DEF RowAt
<1>1. ~Rotate
  BY DEF Rotate
<1>2. UNCHANGED call /\ scene' = scene /\ maxSymbols' = maxSymbols /\ opts' = opts
  BY <1>1, SameCall DEF call
<1>3. RowByRow /\ RowStep' = RowStep
  BY <1>2, RowByRowFixed DEF RowStep
<1>4. i' = i => BaseRow(i)' = BaseRow(i)
  BY <1>3, Zenon DEF BaseRow, Middle
<1>5. CASE NextRow
  BY <1>2, <1>4, <1>5 DEF NextRow, ReadRow, MoreRows
<1>6. CASE NextCheckRow
  BY <1>3, <1>6 DEF NextCheckRow, ScannedInv
<1>7. CASE (\E c \in todo : Merge(c) \/ AddNew(c)) \/ UNCHANGED vars
  <2>1. row' = row /\ i' = i /\ pc = "decode"
    BY <1>7 DEF Merge, AddNew, AfterReading, vars, loop
  <2> QED BY <1>2, <1>3, <1>4, <2>1 DEF RowAt
<1>8. CASE LastRow \/ RowDone \/ (\E k \in DOMAIN res : Drop(k) \/ Erase(k)) \/ BeginFilter
           \/ FilterPair \/ FilterNext \/ EndFilter \/ Return
  BY <1>8 DEF LastRow, RowDone, Drop, Erase, BeginFilter, FilterPair, FilterNext, EndFilter,
              Return
<1> QED BY <1>1, <1>5, <1>6, <1>7, <1>8 DEF Next

LEMMA NextPair == TypeInv /\ PairInv /\ [Next]_vars => PairInv'
<1> SUFFICES ASSUME TypeInv, PairInv, [Next]_vars, pc' = "filter" PROVE a' < b'
  BY DEF PairInv
<1>1. a \in Nat /\ b \in Nat
  BY DEF TypeInv, TypeOK
<1>2. CASE BeginFilter \/ FilterPair \/ FilterNext
  BY <1>1, <1>2 DEF PairInv, BeginFilter, FilterPair, FilterNext
<1>3. CASE (\E k \in DOMAIN res : Drop(k) \/ Erase(k)) \/ UNCHANGED vars
  BY <1>3 DEF PairInv, Drop, Erase, vars, filter
<1>4. CASE NextRow \/ NextCheckRow
  BY <1>4 DEF NextRow, NextCheckRow, ReadRow, MoreRows
<1>5. CASE LastRow \/ (\E c \in todo : Merge(c) \/ AddNew(c)) \/ RowDone \/ EndFilter
           \/ Rotate \/ Return
  BY <1>5 DEF LastRow, Merge, AddNew, AfterReading, RowDone, EndFilter, Rotate, Return
<1> QED BY <1>2, <1>3, <1>4, <1>5 DEF Next

LEMMA NextEntries == TypeInv /\ TodoInv /\ EntriesInv /\ [Next]_vars => EntriesInv'
<1> SUFFICES ASSUME TypeInv, TodoInv, EntriesInv, [Next]_vars, pc' # "done"
             PROVE  \A k \in DOMAIN res' : Entry(rotate', res'[k])
  BY CallFixed DEF EntriesInv, Entry
<1>1. CASE Rotate
  BY <1>1 DEF Rotate
<1>2. ~Rotate => rotate' = rotate
  BY SameCall DEF call
<1>t. res \in Seq(Results) /\ (pc # "done" => \A k \in DOMAIN res : Entry(rotate, res[k]))
  BY DEF TypeInv, TypeOK, EntriesInv
<1>3. ASSUME NEW c \in todo, Merge(c) PROVE \A k \in DOMAIN res' : Entry(rotate, res'[k])
  <2>1. PICK k \in DOMAIN res : res' = [res EXCEPT ![k] = MergedWith(res[k])] /\ res[k].reading = c
    BY <1>3 DEF Merge, KnownAs, Same
  <2>2. pc = "decode" /\ c \in Readings
    BY <1>3 DEF Merge, TypeInv, TypeOK
  <2>3. MergedWith(res[k]).reading = c /\ c # 0
    BY <2>1, <2>2, MergedRecord DEF Readings
  <2>4. Entry(rotate, MergedWith(res[k]))
    BY <1>t, <2>1, <2>2, <2>3 DEF Entry
  <2> QED BY <1>t, <2>1, <2>2, <2>4
<1>4. ASSUME NEW c \in todo, AddNew(c) PROVE \A k \in DOMAIN res' : Entry(rotate, res'[k])
  <2>1. res' = Append(res, New(c)) /\ pc = "decode" /\ c \in Readings
    BY <1>4 DEF AddNew, New, TypeInv, TypeOK
  <2>2. New(c).reading = c /\ c # 0 /\ InPass(rotate, c) /\ scene.made[c] # {}
    BY <2>1 DEF New, Readings, TodoInv
  <2>3. Entry(rotate, New(c))
    BY <2>2 DEF Entry
  <2> QED BY <1>t, <2>1, <2>3
<1>5. ASSUME NEW k \in DOMAIN res, Drop(k) \/ Erase(k) PROVE \A m \in DOMAIN res' : Entry(rotate, res'[m])
  <2>1. res' = Without(res, k) /\ pc # "done"
    BY <1>5 DEF Drop, Erase
  <2>2. /\ DOMAIN res = 1 .. Len(res) /\ Len(res) \in Nat /\ k \in 1 .. Len(res)
        /\ DOMAIN res' = 1 .. Len(res) - 1
        /\ \A m \in 1 .. Len(res) - 1 : res'[m] = IF m < k THEN res[m] ELSE res[m + 1]
    BY <1>t, <2>1, WithoutType, LenProperties
  <2>3. \A m \in 1 .. Len(res) : Entry(rotate, res[m])
    BY <1>t, <2>1, <2>2
  <2> QED BY <2>2, <2>3
<1>6. ASSUME FilterPair
      PROVE  pc # "done" => \A k \in DOMAIN res' : Entry(rotate, res'[k])
  <2>1. /\ pc = "filter" /\ DOMAIN res' = DOMAIN res
        /\ \A k \in DOMAIN res : res'[k] = res[k] \/ res'[k] = NoReading
    BY <1>t, <1>6 DEF FilterPair
  <2>2. Entry(rotate, NoReading)
    BY DEF Entry, NoReading
  <2> QED BY <1>t, <2>1, <2>2
<1>7. ASSUME NextRow \/ NextCheckRow \/ LastRow \/ RowDone \/ BeginFilter \/ FilterNext
           \/ EndFilter \/ UNCHANGED vars
      PROVE  pc # "done" => \A k \in DOMAIN res' : Entry(rotate, res'[k])
  <2>1. res' = res
    BY <1>7 DEF NextRow, NextCheckRow, MoreRows, LastRow, RowDone, BeginFilter, FilterNext,
                EndFilter, vars
  <2> QED BY <1>t, <2>1
<1>8. ~Return
  BY DEF Return
<1>9. CASE ~Rotate
  <2>1. pc # "done"
    BY <1>9 DEF Next, vars, NextRow, NextCheckRow, MoreRows, LastRow, Merge, AddNew, RowDone,
                Drop, BeginFilter, FilterPair, FilterNext, Erase, EndFilter, Return
  <2>2. \A k \in DOMAIN res' : Entry(rotate, res'[k])
    BY <1>3, <1>4, <1>5, <1>6, <1>7, <1>8, <1>9, <2>1, Zenon DEF Next
  <2> QED BY <1>2, <1>9, <2>2
<1> QED BY <1>1, <1>9
-----------------------------------------------------------------------------
(* What is known of a reading after it was seen in some rows: nothing, or  *)
(* a single entry that spans just these rows.                              *)
Spans(r, seen) == r.lines = seen /\ r.lineCount = Cardinality(seen) /\ Extent(r) = seen
KnownOnce(c, list, seen) ==
  /\ \A k \in DOMAIN list : list[k].reading = c => seen # {} /\ Spans(list[k], seen)
  /\ \A k, m \in DOMAIN list : list[k].reading = c /\ list[m].reading = c => k = m
  /\ seen # {} => \E k \in DOMAIN list : list[k].reading = c

LEMMA KnownAmongOthers ==
  ASSUME NEW c, NEW s \in Seq(Results), NEW t \in Seq(Results), NEW seen,
         KnownOnce(c, s, seen), DOMAIN t = DOMAIN s, NEW k \in DOMAIN s,
         s[k].reading # c, t[k].reading # c,
         \A m \in DOMAIN s \ {k} : t[m] = s[m]
  PROVE  KnownOnce(c, t, seen)
<1>1. \A m \in DOMAIN s : t[m].reading = c => m # k /\ s[m].reading = c /\ t[m] = s[m]
  OBVIOUS
<1>2. \A m \in DOMAIN s : s[m].reading = c => t[m].reading = c
  OBVIOUS
<1> QED BY <1>1, <1>2, Zenon DEF KnownOnce

LEMMA KnownAppended ==
  ASSUME NEW c, NEW s \in Seq(Results), NEW seen, KnownOnce(c, s, seen),
         NEW e \in Results, e.reading # c
  PROVE  KnownOnce(c, Append(s, e), seen)
<1> DEFINE t == Append(s, e)
<1>1. /\ DOMAIN t = DOMAIN s \cup {Len(s) + 1} /\ t[Len(s) + 1] = e
      /\ \A m \in DOMAIN s : t[m] = s[m]
  OBVIOUS
<1> HIDE DEF t
<1>2. \A m \in DOMAIN t : t[m].reading = c => m \in DOMAIN s /\ t[m] = s[m]
  BY <1>1
<1>3. \A m \in DOMAIN s : m \in DOMAIN t /\ t[m] = s[m]
  BY <1>1
<1>4. KnownOnce(c, t, seen)
  BY <1>2, <1>3, Zenon DEF KnownOnce
<1> QED BY <1>4 DEF t

LEMMA KnownWithout ==
  ASSUME NEW c, NEW s \in Seq(Results), NEW seen, KnownOnce(c, s, seen),
         NEW k \in DOMAIN s, s[k].reading # c
  PROVE  KnownOnce(c, Without(s, k), seen)
<1> DEFINE w == Without(s, k)
           from(m) == IF m < k THEN m ELSE m + 1
<1>1. /\ DOMAIN s = 1 .. Len(s) /\ Len(s) \in Nat /\ k \in 1 .. Len(s)
      /\ DOMAIN w = 1 .. Len(s) - 1
      /\ \A m \in 1 .. Len(s) - 1 : w[m] = IF m < k THEN s[m] ELSE s[m + 1]
  BY WithoutType, LenProperties
<1> HIDE DEF w
<1>2. \A m \in DOMAIN w : from(m) \in DOMAIN s /\ w[m] = s[from(m)]
  BY <1>1
<1>3. \A m, n \in DOMAIN w : from(m) = from(n) => m = n
  BY <1>1
<1>4. \A m \in DOMAIN s : m # k => \E n \in DOMAIN w : from(n) = m
  <2> SUFFICES ASSUME NEW m \in DOMAIN s, m # k PROVE \E n \in DOMAIN w : from(n) = m
    OBVIOUS
  <2>1. CASE m < k
    BY <1>1, <2>1
  <2>2. CASE ~(m < k)
    <3>1. m - 1 \in DOMAIN w /\ from(m - 1) = m
      BY <1>1, <2>2
    <3> QED BY <3>1
  <2> QED BY <2>1, <2>2
<1> HIDE DEF from
<1>5. \A m \in DOMAIN w : w[m].reading = c => seen # {} /\ Spans(w[m], seen)
  BY <1>2, Zenon DEF KnownOnce
<1>6. \A m, n \in DOMAIN w : w[m].reading = c /\ w[n].reading = c => m = n
  BY <1>2, <1>3, Zenon DEF KnownOnce
<1>7. seen # {} => \E n \in DOMAIN w : w[n].reading = c
  <2> SUFFICES ASSUME seen # {} PROVE \E n \in DOMAIN w : w[n].reading = c
    OBVIOUS
  <2>1. PICK m \in DOMAIN s : s[m].reading = c
    BY DEF KnownOnce
  <2>2. PICK n \in DOMAIN w : from(n) = m
    BY <1>4, <2>1
  <2> QED BY <1>2, <2>1, <2>2
<1>8. KnownOnce(c, w, seen)
  BY <1>5, <1>6, <1>7, Zenon DEF KnownOnce
<1> QED BY <1>8 DEF w

(* A row next to the rows seen so far is known to belong to them, and      *)
(* merging it makes the entry span one row more.                           *)
LEMMA NextRowMerged ==
  ASSUME NEW r \in Results, row \in Rows, HalfLength > 1,
         row = Larger(r.top, r.bottom) + 1 \/ row = Smaller(r.top, r.bottom) - 1
  PROVE  /\ Same(r, r.reading)
         /\ Extent(MergedWith(r)) = Extent(r) \cup {row}
<1> DEFINE top == r.top  bot == r.bottom
<1>1. top \in Int /\ bot \in Int /\ row \in Int /\ HalfLength \in Int
  BY ReadingsAssumption DEF Results, Rows
<1> HIDE DEF top, bot
<1>2. Smaller(Distance(top, row), Distance(bot, row)) = 1
  BY <1>1 DEF Smaller, Larger, Distance, top, bot
<1>3. Same(r, r.reading)
  BY <1>1, <1>2 DEF Same, top, bot
<1>4. /\ MergedWith(r).top = (IF Upwards(r) THEN row ELSE top)
      /\ MergedWith(r).bottom = (IF Upwards(r) THEN bot ELSE row)
  BY MergedRecord DEF top, bot
<1>5. /\ Upwards(r) => Distance(top, row) <= Distance(bot, row)
      /\ ~Upwards(r) => Distance(bot, row) <= Distance(top, row)
  <2>1. Distance(top, row) \in Int /\ Distance(bot, row) \in Int
    BY <1>1 DEF Distance
  <2>2. /\ Upwards(r) => Distance(top, row) < Distance(bot, row) \/ Distance(top, row) = Distance(bot, row)
        /\ ~Upwards(r) => ~(Distance(top, row) < Distance(bot, row))
    BY Zenon DEF Upwards, top, bot
  <2> QED BY <2>1, <2>2
<1> DEFINE lo == Smaller(top, bot)  hi == Larger(top, bot)
<1>8. Extent(r) = lo .. hi
  BY DEF Extent, top, bot
<1>6. CASE Upwards(r)
  <2>1. Extent(MergedWith(r)) = Smaller(row, bot) .. Larger(row, bot)
    BY <1>4, <1>6 DEF Extent
  <2>2. Smaller(row, bot) .. Larger(row, bot) = (lo .. hi) \cup {row}
    <3>1. Distance(top, row) <= Distance(bot, row)
      BY <1>5, <1>6
    <3>2. row = hi + 1 => bot = lo
      BY <1>1, <3>1 DEF Smaller, Larger, Distance, top, bot
    <3>3. row = lo - 1 => bot = hi
      BY <1>1, <3>1 DEF Smaller, Larger, Distance, top, bot
    <3>4. lo \in Int /\ hi \in Int /\ lo <= hi /\ (row = hi + 1 \/ row = lo - 1)
      BY <1>1 DEF Smaller, Larger, top, bot
    <3> HIDE DEF lo, hi
    <3> QED BY <1>1, <3>2, <3>3, <3>4 DEF Smaller, Larger
  <2> QED BY <1>3, <1>8, <2>1, <2>2
<1>7. CASE ~Upwards(r)
  <2>1. Extent(MergedWith(r)) = Smaller(top, row) .. Larger(top, row)
    BY <1>4, <1>7 DEF Extent
  <2>2. Smaller(top, row) .. Larger(top, row) = (lo .. hi) \cup {row}
    <3>1. Distance(bot, row) <= Distance(top, row)
      BY <1>5, <1>7
    <3>2. row = hi + 1 => top = lo
      BY <1>1, <3>1 DEF Smaller, Larger, Distance, top, bot
    <3>3. row = lo - 1 => top = hi
      BY <1>1, <3>1 DEF Smaller, Larger, Distance, top, bot
    <3>4. lo \in Int /\ hi \in Int /\ lo <= hi /\ (row = hi + 1 \/ row = lo - 1)
      BY <1>1 DEF Smaller, Larger, top, bot
    <3> HIDE DEF lo, hi
    <3> QED BY <1>1, <3>2, <3>3, <3>4 DEF Smaller, Larger
  <2> QED BY <1>3, <1>8, <2>1, <2>2
<1> QED BY <1>3, <1>6, <1>7
-----------------------------------------------------------------------------
(* The symbols that have to be found, and the rows of one that have been   *)
(* looked at in this direction of the image.                               *)
SearchAll ==
  /\ opts.tryHarder /\ opts.tryRotate /\ ~opts.isPure /\ opts.maxSymbols = 0
  /\ RowStep = 1
Wanted(c) ==
  /\ Cardinality(MadeRows(c)) >= Larger(1, MinLineCount)
  /\ Contiguous(MadeRows(c)) /\ Alone(c)
Seen(c) ==
  IF pc = "row" THEN Covered(i) \cap MadeRows(c)
  ELSE IF pc = "decode" THEN {r \in Covered(i + 1) \cap MadeRows(c) : c \in todo => r # row}
  ELSE MadeRows(c)
FoundInv ==
  SearchAll =>
    \A c \in Readings : Wanted(c) =>
      /\ pc # "done" /\ InPass(rotate, c) => KnownOnce(c, res, Seen(c))
      /\ pc # "done" /\ rotate /\ c \notin Vertical => KnownOnce(c, resH, MadeRows(c))
      /\ pc = "done" =>
           \E k \in DOMAIN res : res[k].reading = c /\ Spans(res[k], MadeRows(c))

(* Without a limit the second direction has none either, and the step      *)
(* between the rows is the same.                                           *)
LEMMA NoLimit ==
  ASSUME TypeInv, LimitInv, opts.maxSymbols = 0
  PROVE  maxSymbols \in Int /\ maxSymbols <= 0
BY DEF TypeInv, TypeOK, LimitInv

LEMMA SearchFixed ==
  ASSUME TypeInv, LimitInv, [Next]_vars, SearchAll'
  PROVE  SearchAll
<1>1. opts' = opts /\ opts.maxSymbols = 0
  BY CallFixed DEF SearchAll
<1>2. maxSymbols <= 0 /\ maxSymbols \in Int
  BY <1>1, NoLimit
<1>3. maxSymbols' <= 0 /\ maxSymbols' \in Int
  <2>1. TypeOK' /\ LimitInv'
    BY NextTyped, NextLimit
  <2> QED BY <1>1, <2>1 DEF TypeOK, LimitInv
<1>4. RowStep' = RowStep
  BY <1>1, <1>2, <1>3 DEF RowStep
<1> QED BY <1>1, <1>4 DEF SearchAll

LEMMA WantedFixed ==
  ASSUME [Next]_vars, NEW c
  PROVE  MadeRows(c)' = MadeRows(c) /\ (Wanted(c)' <=> Wanted(c))
<1>1. scene' = scene /\ MinLineCount' = MinLineCount
  BY CallFixed, EnoughFixed
<1>2. MadeRows(c)' = MadeRows(c)
  BY <1>1 DEF MadeRows
<1>3. Alone(c)' <=> Alone(c)
  BY <1>1 DEF Alone
<1> QED BY <1>1, <1>2, <1>3, Zenon DEF Wanted, Contiguous

LEMMA WantedRows ==
  ASSUME TypeInv, NEW c \in Readings, Wanted(c)
  PROVE  /\ MadeRows(c) \subseteq Rows /\ IsFiniteSet(MadeRows(c))
         /\ Cardinality(MadeRows(c)) \in Nat /\ MadeRows(c) # {}
         /\ Cardinality(MadeRows(c)) >= 1 /\ Cardinality(MadeRows(c)) >= MinLineCount
<1>1. MadeRows(c) \subseteq Rows
  BY ScenesAssumption DEF TypeInv, TypeOK, MadeRows
<1>2. IsFiniteSet(Rows)
  BY ReadingsAssumption, FS_Interval DEF Rows
<1>3. IsFiniteSet(MadeRows(c)) /\ Cardinality(MadeRows(c)) \in Nat
  BY <1>1, <1>2, FS_Subset, FS_CardinalityType
<1>4. MinLineCount \in Nat
  <2>1. opts.minLineCount \in Nat /\ Height \in Nat
    <3>1. opts \in Options /\ Height \in Nat
      BY ReadingsAssumption DEF TypeInv, TypeOK
    <3>2. opts.minLineCount \in 0 .. 255
      BY <3>1, OptionsAssumption
    <3> QED BY <3>1, <3>2
  <2> QED BY <2>1 DEF MinLineCount, Smaller
<1>5. Cardinality(MadeRows(c)) >= 1 /\ Cardinality(MadeRows(c)) >= MinLineCount
  BY <1>3, <1>4 DEF Wanted, Larger
<1> QED BY <1>1, <1>3, <1>5, FS_EmptySet

(* The rows of a symbol without gaps that are covered so far end where the *)
(* covered rows end, if the next row belongs to it too.                    *)
LEMMA SeenEnds ==
  ASSUME TypeInv, RowStep = 1, row = BaseRow(i), NEW c \in Readings,
         row \in MadeRows(c), MadeRows(c) \subseteq Rows, Contiguous(MadeRows(c)),
         NEW r \in Results, Extent(r) = Covered(i) \cap MadeRows(c)
  PROVE  row = Larger(r.top, r.bottom) + 1 \/ row = Smaller(r.top, r.bottom) - 1
<1> DEFINE lo == Smaller(r.top, r.bottom)  hi == Larger(r.top, r.bottom)
           first == Middle - i \div 2  last == Middle + (i + 1) \div 2 - 1
           M == MadeRows(c)
<1>1. i \in Nat /\ first \in Int /\ last \in Int
  BY MiddleRow, Halves DEF TypeInv, TypeOK
<1>2. r.top \in Int /\ r.bottom \in Int
  BY ReadingsAssumption DEF Results, Rows
<1>3. lo \in Int /\ hi \in Int /\ lo <= hi /\ lo .. hi = (first .. last) \cap M
  BY <1>2 DEF Extent, Covered, Smaller, Larger
<1>4. row \in Int /\ (row = first - 1 \/ row = last + 1)
  <2>1. BaseRow(i) \in Int /\ (BaseRow(i) = first - 1 \/ BaseRow(i) = last + 1)
    <3>1. BaseRow(i) = Middle - i \div 2 - 1 \/ BaseRow(i) = Middle + (i + 1) \div 2
      BY <1>1, Outwards, Zenon
    <3>2. i \div 2 \in Int /\ (i + 1) \div 2 \in Int /\ Middle \in Int
      BY <1>1, Halves, MiddleRow
    <3> QED BY <3>1, <3>2
  <2> QED BY <2>1
<1>5. row \in M /\ \A p, q \in M : p .. q \subseteq M
  BY DEF Contiguous
<1> HIDE DEF lo, hi, first, last, M
<1>6. lo \in M /\ hi \in M /\ first <= lo /\ hi <= last
  <2>1. lo \in lo .. hi /\ hi \in lo .. hi
    BY <1>3
  <2> QED BY <1>1, <1>3, <2>1
<1>7. CASE row = last + 1
  <2>1. last \in hi .. row /\ hi .. row \subseteq M
    BY <1>1, <1>3, <1>4, <1>5, <1>6, <1>7
  <2>2. last \in lo .. hi
    BY <1>1, <1>3, <1>6, <2>1
  <2> QED BY <1>1, <1>3, <1>6, <1>7, <2>2 DEF lo, hi
<1>8. CASE row = first - 1
  <2>1. first \in row .. lo /\ row .. lo \subseteq M
    BY <1>1, <1>3, <1>4, <1>5, <1>6, <1>8
  <2>2. first \in lo .. hi
    BY <1>1, <1>3, <1>6, <2>1
  <2> QED BY <1>1, <1>3, <1>6, <1>8, <2>2 DEF lo, hi
<1> QED BY <1>4, <1>7, <1>8

LEMMA LimitNotReached ==
  ASSUME TypeInv, LimitInv, opts.maxSymbols = 0, res' \in Seq(Results), NEW d,
         AfterReading(d, res')
  PROVE  pc' = pc /\ todo' = todo \ {d}
<1>1. maxSymbols \in Int /\ maxSymbols <= 0 /\ Cardinality(Enough(res')) \in Nat
  BY NoLimit, EnoughSize
<1>2. ~(maxSymbols # 0 /\ Cardinality(Enough(res')) = maxSymbols)
  BY <1>1
<1> QED BY <1>2, Zenon DEF AfterReading

(* A reading of the row is one row more than was seen before.              *)
LEMMA OneRowMore ==
  ASSUME TypeInv, TodoInv, RowAt, SearchAll, pc = "decode", NEW c \in todo
  PROVE  /\ row = BaseRow(i) /\ row \in MadeRows(c)
         /\ Seen(c) = Covered(i) \cap MadeRows(c) /\ row \notin Seen(c)
         /\ Covered(i + 1) \cap MadeRows(c) = Seen(c) \cup {row}
<1>1. row = BaseRow(i) /\ row \in MadeRows(c)
  BY DEF RowAt, RowByRow, SearchAll, TodoInv, MadeRows
<1>2. i \in Nat
  BY DEF TypeInv, TypeOK
<1>3. row \notin Covered(i) /\ Covered(i + 1) = Covered(i) \cup {row}
  BY <1>1, <1>2, Outwards DEF SearchAll
<1>4. Seen(c) = Covered(i) \cap MadeRows(c)
  BY <1>3 DEF Seen
<1> QED BY <1>1, <1>3, <1>4

LEMMA MergeFound ==
  ASSUME TypeInv, TodoInv, RowAt, SearchAll, HalfLength > 1, NEW c \in todo, Wanted(c),
         pc = "decode", KnownOnce(c, res, Seen(c)), NEW k \in DOMAIN res,
         res[k].reading = c, res' = [res EXCEPT ![k] = MergedWith(res[k])]
  PROVE  KnownOnce(c, res', Seen(c) \cup {row})
<1> DEFINE r == res[k]  seen == Seen(c)  m == MergedWith(res[k])
<1>1. c \in Readings /\ r \in Results /\ row \in Rows /\ res \in Seq(Results)
  BY DEF TypeInv, TypeOK
<1>2. /\ row = BaseRow(i) /\ row \in MadeRows(c) /\ row \notin seen
      /\ seen = Covered(i) \cap MadeRows(c)
  BY OneRowMore
<1>3. IsFiniteSet(seen) /\ MadeRows(c) \subseteq Rows /\ Contiguous(MadeRows(c))
  BY <1>1, <1>2, WantedRows, FS_Subset DEF Wanted
<1>4. seen # {} /\ r.lines = seen /\ r.lineCount = Cardinality(seen) /\ Extent(r) = seen
  BY DEF KnownOnce, Spans
<1>5. row = Larger(r.top, r.bottom) + 1 \/ row = Smaller(r.top, r.bottom) - 1
  BY <1>1, <1>2, <1>3, <1>4, SeenEnds DEF SearchAll
<1>6. Extent(m) = seen \cup {row}
  BY <1>1, <1>4, <1>5, NextRowMerged
<1>7. m.reading = c /\ m.lines = seen \cup {row} /\ m.lineCount = Cardinality(seen) + 1
  BY <1>4, MergedRecord
<1>8. Cardinality(seen \cup {row}) = Cardinality(seen) + 1
  BY <1>2, <1>3, FS_AddElement
<1> HIDE DEF seen, m
<1>9. Spans(m, seen \cup {row})
  BY <1>6, <1>7, <1>8 DEF Spans
<1>10. \A n \in DOMAIN res : res[n].reading = c => n = k
  BY DEF KnownOnce
<1>11. /\ DOMAIN res' = DOMAIN res /\ res'[k] = m
       /\ \A n \in DOMAIN res : n # k => res'[n] = res[n]
  BY <1>1 DEF m
<1>12. \A n \in DOMAIN res' : res'[n].reading = c => n = k
  BY <1>10, <1>11
<1>13. KnownOnce(c, res', seen \cup {row})
  BY <1>7, <1>9, <1>11, <1>12 DEF KnownOnce
<1> QED BY <1>13 DEF seen

LEMMA AddFound ==
  ASSUME TypeInv, TodoInv, RowAt, SearchAll, HalfLength > 1, NEW c \in todo, Wanted(c),
         pc = "decode", KnownOnce(c, res, Seen(c)), KnownAs(c) = {},
         res' = Append(res, New(c))
  PROVE  KnownOnce(c, res', Seen(c) \cup {row})
<1>1. c \in Readings /\ row \in Rows /\ res \in Seq(Results)
  BY DEF TypeInv, TypeOK
<1>2. /\ row = BaseRow(i) /\ row \in MadeRows(c)
      /\ Seen(c) = Covered(i) \cap MadeRows(c)
  BY OneRowMore
<1>3. MadeRows(c) \subseteq Rows /\ Contiguous(MadeRows(c))
  BY <1>1, WantedRows DEF Wanted
<1>4. \A k \in DOMAIN res : res[k].reading # c
  <2> SUFFICES ASSUME NEW k \in DOMAIN res, res[k].reading = c PROVE FALSE
    OBVIOUS
  <2>1. res[k] \in Results /\ Extent(res[k]) = Seen(c)
    BY <1>1 DEF KnownOnce, Spans
  <2>2. row = Larger(res[k].top, res[k].bottom) + 1 \/ row = Smaller(res[k].top, res[k].bottom) - 1
    BY <1>1, <1>2, <1>3, <2>1, SeenEnds DEF SearchAll
  <2>3. Same(res[k], c)
    BY <1>1, <2>1, <2>2, NextRowMerged
  <2> QED BY <2>3 DEF KnownAs
<1>5. Seen(c) = {}
  BY <1>4 DEF KnownOnce
<1>6. Spans(New(c), {row})
  <2>1. Cardinality({row}) = 1
    BY FS_Singleton
  <2>2. Extent(New(c)) = {row}
    BY <1>1, ReadingsAssumption DEF Extent, New, Smaller, Larger, Rows
  <2> QED BY <2>1, <2>2 DEF Spans, New
<1>7. /\ DOMAIN res' = DOMAIN res \cup {Len(res) + 1} /\ res'[Len(res) + 1] = New(c)
      /\ \A k \in DOMAIN res : res'[k] = res[k]
  BY <1>1
<1>8. \A k \in DOMAIN res' : res'[k].reading = c => k = Len(res) + 1
  BY <1>4, <1>7
<1>9. KnownOnce(c, res', {row})
  BY <1>6, <1>7, <1>8 DEF KnownOnce, New
<1> QED BY <1>5, <1>9

(* What a reading of another symbol leaves as it was, and what each part   *)
(* of the scan does for a symbol of this direction.                        *)
LEMMA ReadingFound ==
  ASSUME TypeInv, LimitInv, TodoInv, RowAt, SearchAll, HalfLength > 1, [Next]_vars,
         NEW d \in todo, Merge(d) \/ AddNew(d),
         NEW c \in Readings, Wanted(c), KnownOnce(c, res, Seen(c))
  PROVE  KnownOnce(c, res', Seen(c)')
<1>1. /\ pc = "decode" /\ AfterReading(d, res') /\ row' = row /\ i' = i
      /\ res \in Seq(Results) /\ d \in Readings
  BY DEF Merge, AddNew, TypeInv, TypeOK
<1>2. res' \in Seq(Results)
  BY NextTyped DEF TypeInv, TypeOK
<1>3. pc' = "decode" /\ todo' = todo \ {d}
  BY <1>1, <1>2, LimitNotReached DEF SearchAll
<1>4. MadeRows(c)' = MadeRows(c)
  BY WantedFixed
<1>5. Seen(c)' = {r \in Covered(i + 1) \cap MadeRows(c) : c \in todo \ {d} => r # row}
  BY <1>1, <1>3, <1>4 DEF Seen, Covered, Middle
<1>6. CASE c = d
  <2>1. Seen(c)' = Seen(c) \cup {row}
    BY <1>1, <1>5, <1>6, OneRowMore
  <2>2. CASE Merge(d)
    <3>1. PICK k \in DOMAIN res : res[k].reading = c /\ res' = [res EXCEPT ![k] = MergedWith(res[k])]
      BY <1>6, <2>2 DEF Merge, KnownAs, Same
    <3>2. KnownOnce(c, res', Seen(c) \cup {row})
      BY <1>1, <1>6, <3>1, MergeFound
    <3> QED BY <2>1, <3>2
  <2>3. CASE AddNew(d)
    <3>1. KnownAs(c) = {} /\ res' = Append(res, New(c))
      BY <1>6, <2>3 DEF AddNew, New
    <3>2. KnownOnce(c, res', Seen(c) \cup {row})
      BY <1>1, <1>6, <3>1, AddFound
    <3> QED BY <2>1, <3>2
  <2> QED BY <2>2, <2>3
<1>7. CASE c # d
  <2>1. Seen(c)' = Seen(c)
    <3>1. c \in todo \ {d} <=> c \in todo
      BY <1>7
    <3> QED BY <1>1, <1>5, <3>1 DEF Seen
  <2>2. CASE Merge(d)
    <3>1. PICK k \in DOMAIN res : res[k].reading = d /\ res' = [res EXCEPT ![k] = MergedWith(res[k])]
      BY <2>2 DEF Merge, KnownAs, Same
    <3>2. MergedWith(res[k]).reading = d
      BY <3>1, MergedRecord
    <3>3. /\ DOMAIN res' = DOMAIN res /\ res'[k].reading = d
          /\ \A m \in DOMAIN res \ {k} : res'[m] = res[m]
      BY <1>1, <3>1, <3>2
    <3> QED BY <1>1, <1>2, <1>7, <2>1, <3>1, <3>3, KnownAmongOthers
  <2>3. CASE AddNew(d)
    <3>1. res' = Append(res, New(d)) /\ New(d).reading = d /\ New(d) \in Results
      BY <1>1, <2>3, NewType DEF AddNew, New, TypeInv, TypeOK
    <3> QED BY <1>1, <1>7, <2>1, <3>1, KnownAppended
  <2> QED BY <2>2, <2>3
<1> QED BY <1>6, <1>7

LEMMA RowFound ==
  ASSUME TypeInv, ScannedInv, SearchAll, [Next]_vars, NextRow, NEW c \in Readings,
         Wanted(c), InPass(rotate, c), KnownOnce(c, res, Seen(c))
  PROVE  KnownOnce(c, res', Seen(c)')
<1>1. /\ pc = "row" /\ BaseRow(i) \in Rows /\ res' = res /\ i \in Nat /\ RowStep = 1
  BY DEF NextRow, MoreRows, TypeInv, TypeOK, SearchAll
<1>2. /\ Covered(i + 1) = Covered(i) \cup {BaseRow(i)} /\ BaseRow(i) \notin Covered(i)
      /\ MadeRows(c)' = MadeRows(c) /\ \A n : Covered(n)' = Covered(n)
  BY <1>1, Outwards, WantedFixed DEF Covered, Middle
<1>3. Seen(c) = Covered(i) \cap MadeRows(c)
  BY <1>1 DEF Seen
<1>4. CASE BaseRow(i) \in scene.contrast
  <2>1. /\ pc' = "decode" /\ i' = i /\ row' = BaseRow(i)
        /\ todo' = ReadingsOf(BaseRow(i), i)
    BY <1>4 DEF NextRow, ReadRow
  <2>2. BaseRow(i) \in MadeRows(c) => c \in todo'
    BY <2>1, AllReported DEF SearchAll, MadeRows
  <2>3. Seen(c)' = {r \in Covered(i + 1) \cap MadeRows(c) : c \in todo' => r # BaseRow(i)}
    BY <1>2, <2>1 DEF Seen
  <2>4. Seen(c)' = Seen(c)
    BY <1>2, <1>3, <2>2, <2>3
  <2> QED BY <1>1, <2>4
<1>5. CASE BaseRow(i) \notin scene.contrast
  <2>1. pc' = "row" /\ i' = i + 1
    BY <1>1, <1>5 DEF NextRow
  <2>2. Seen(c)' = Covered(i + 1) \cap MadeRows(c)
    BY <1>2, <2>1 DEF Seen
  <2>3. BaseRow(i) \notin MadeRows(c)
    BY <1>5 DEF MadeRows
  <2> QED BY <1>1, <1>2, <1>3, <2>2, <2>3
<1> QED BY <1>4, <1>5

LEMMA LoopFound ==
  ASSUME TypeInv, ScannedInv, SearchAll, [Next]_vars, LastRow \/ RowDone,
         NEW c \in Readings, Wanted(c), KnownOnce(c, res, Seen(c))
  PROVE  KnownOnce(c, res', Seen(c)')
<1>1. /\ MadeRows(c)' = MadeRows(c) /\ \A n : Covered(n)' = Covered(n)
      /\ MadeRows(c) \subseteq Rows /\ RowByRow /\ i \in Nat /\ Height \in Nat
  BY WantedFixed, WantedRows, ReadingsAssumption
  DEF Covered, Middle, SearchAll, RowByRow, TypeInv, TypeOK
<1>2. CASE LastRow
  <2>1. /\ pc = "row" /\ pc' = "drop" /\ res' = res
        /\ i >= Height \/ BaseRow(i) \notin Rows
    BY <1>1, <1>2 DEF LastRow, MaxLines, RowByRow
  <2>2. i = Height
    BY <1>1, <2>1, Outwards DEF ScannedInv, LinesDone, RowByRow
  <2>3. Seen(c) = MadeRows(c)
    BY <1>1, <2>1, <2>2, CoveredEnds DEF Seen
  <2>4. Seen(c)' = MadeRows(c)
    BY <1>1, <2>1 DEF Seen
  <2> QED BY <2>1, <2>3, <2>4
<1>3. CASE RowDone
  <2>1. pc = "decode" /\ pc' = "row" /\ res' = res /\ i' = i + 1 /\ todo = {}
    BY <1>1, <1>3 DEF RowDone, ScannedInv
  <2>2. Seen(c) = Covered(i + 1) \cap MadeRows(c)
    BY <2>1 DEF Seen
  <2>3. Seen(c)' = Covered(i + 1) \cap MadeRows(c)
    BY <1>1, <2>1 DEF Seen
  <2> QED BY <2>1, <2>2, <2>3
<1> QED BY <1>2, <1>3

(* Nothing that overlaps a symbol that stands alone is read in the same    *)
(* direction; an entry that was overwritten has no lines.                  *)
LEMMA Undisturbed ==
  ASSUME NEW c \in Readings, Alone(c), InPass(rotate, c), NEW r, NEW s,
         r.reading = c, s.reading \in {0} \cup Readings, Entry(rotate, s),
         s.reading # c, s.reading # 0
  PROVE  ~Overlap(r, s) /\ ~Overlap(s, r)
<1> DEFINE d == s.reading
<1>1. d \in Readings \ {c} /\ scene.made[d] # {} /\ InPass(rotate, d)
  BY DEF Entry
<1>2. ~((c \in Vertical) # (d \in Vertical))
  BY <1>1, Zenon DEF InPass
<1>3. Columns[c] \cap Columns[d] = {}
  BY <1>1, <1>2, Zenon DEF Alone
<1>4. ColumnsOf(r) = Columns[c] /\ ColumnsOf(s) = Columns[d]
  BY DEF ColumnsOf, Readings
<1> QED BY <1>3, <1>4 DEF Overlap

LEMMA PairFound ==
  ASSUME TypeInv, PairInv, EntriesInv, SearchAll, [Next]_vars, FilterPair,
         NEW c \in Readings, Wanted(c), InPass(rotate, c), KnownOnce(c, res, Seen(c))
  PROVE  KnownOnce(c, res', Seen(c)')
<1> DEFINE first == res[a]  second == res[b]
           victim == IF first.lineCount < second.lineCount THEN a ELSE b
<1>1. /\ pc = "filter" /\ pc' = "filter" /\ a \in DOMAIN res /\ b \in DOMAIN res /\ a # b
      /\ res \in Seq(Results) /\ a \in Nat /\ b \in Nat
      /\ res' = IF Overlap(first, second) THEN [res EXCEPT ![victim] = NoReading] ELSE res
  <2>1. /\ pc = "filter" /\ pc' = "filter" /\ b <= Len(res)
        /\ res' = IF Overlap(first, second) THEN [res EXCEPT ![victim] = NoReading] ELSE res
    BY DEF FilterPair
  <2>2. res \in Seq(Results) /\ a \in Nat \ {0} /\ b \in Nat \ {0} /\ a < b
    BY <2>1 DEF TypeInv, TypeOK, PairInv
  <2>3. DOMAIN res = 1 .. Len(res) /\ Len(res) \in Nat
    BY <2>2, LenProperties
  <2> QED BY <2>1, <2>2, <2>3
<1>2. Seen(c)' = Seen(c) /\ Seen(c) = MadeRows(c)
  BY <1>1, WantedFixed DEF Seen
<1>3. \A k \in DOMAIN res :
        /\ res[k] \in Results /\ Entry(rotate, res[k])
        /\ res[k].lineCount \in Nat /\ res[k].reading \in {0} \cup Readings
        /\ res[k].reading = 0 => res[k].lineCount = 0
  <2>1. \A k \in DOMAIN res : res[k] \in Results /\ Entry(rotate, res[k])
    BY <1>1 DEF EntriesInv
  <2> QED BY <2>1 DEF Results, Entry, NoReading
<1>4. \A k \in DOMAIN res : res[k].reading = c => res[k].lineCount >= 1
  BY WantedRows, <1>2 DEF KnownOnce, Spans
<1>5. CASE ~Overlap(first, second)
  BY <1>1, <1>2, <1>5
<1>6. CASE Overlap(first, second)
  <2>1. ~(first.reading = c /\ second.reading = c)
    BY <1>1 DEF KnownOnce
  <2>2. first.reading = c => second.reading = 0
    BY <1>1, <1>3, <1>6, <2>1, Undisturbed DEF Wanted
  <2>3. second.reading = c => first.reading = 0
    BY <1>1, <1>3, <1>6, <2>1, Undisturbed DEF Wanted
  <2>4. victim \in DOMAIN res /\ res[victim].reading # c
    <3>1. CASE first.reading = c
      <4>1. second.lineCount = 0 /\ first.lineCount >= 1 /\ first.lineCount \in Nat
        BY <1>1, <1>3, <1>4, <2>2, <3>1
      <4>2. victim = b
        BY <4>1
      <4> QED BY <1>1, <2>1, <3>1, <4>2
    <3>2. CASE second.reading = c
      <4>1. first.lineCount = 0 /\ second.lineCount >= 1 /\ second.lineCount \in Nat
        BY <1>1, <1>3, <1>4, <2>3, <3>2
      <4>2. victim = a
        BY <4>1
      <4> QED BY <1>1, <2>1, <3>2, <4>2
    <3>3. CASE first.reading # c /\ second.reading # c
      BY <1>1, <3>3
    <3> QED BY <3>1, <3>2, <3>3
  <2> HIDE DEF victim
  <2>5. res' = [res EXCEPT ![victim] = NoReading]
    BY <1>1, <1>6
  <2>6. /\ DOMAIN res' = DOMAIN res /\ res'[victim] = NoReading
        /\ \A m \in DOMAIN res \ {victim} : res'[m] = res[m]
    BY <2>4, <2>5
  <2>7. NoReading.reading # c
    BY DEF NoReading, Readings
  <2>8. res' \in Seq(Results)
    BY NextTyped DEF TypeOK
  <2> QED BY <1>1, <1>2, <2>4, <2>6, <2>7, <2>8, KnownAmongOthers
<1> QED BY <1>5, <1>6

LEMMA EraseFound ==
  ASSUME TypeInv, SearchAll, [Next]_vars, NEW k \in DOMAIN res, Drop(k) \/ Erase(k),
         NEW c \in Readings, Wanted(c), KnownOnce(c, res, Seen(c))
  PROVE  KnownOnce(c, res', Seen(c)')
<1>1. /\ pc \in {"drop", "filter"} /\ pc' = pc /\ res' = Without(res, k) /\ res \in Seq(Results)
      /\ res[k].reading = 0 \/ ~HasEnough(res[k])
  BY DEF Drop, Erase, TypeInv, TypeOK
<1>2. Seen(c)' = Seen(c) /\ Seen(c) = MadeRows(c)
  BY <1>1, WantedFixed DEF Seen
<1>3. res[k].reading # c
  <2> SUFFICES ASSUME res[k].reading = c PROVE FALSE
    OBVIOUS
  <2>1. res[k].lineCount = Cardinality(MadeRows(c))
    BY <1>2 DEF KnownOnce, Spans
  <2>2. HasEnough(res[k])
    BY <2>1, WantedRows DEF HasEnough
  <2> QED BY <1>1, <2>2 DEF Readings
<1> QED BY <1>1, <1>2, <1>3, KnownWithout

LEMMA InitFound == Init => FoundInv
<1> SUFFICES ASSUME Init, NEW c \in Readings
             PROVE  KnownOnce(c, res, Seen(c)) /\ ~rotate /\ pc # "done"
  BY DEF FoundInv
<1>1. pc = "row" /\ i = 0 /\ res = <<>> /\ rotate = FALSE
  BY DEF Init
<1>2. Seen(c) = {}
  BY <1>1, CoveredEnds DEF Seen
<1> QED BY <1>1, <1>2 DEF KnownOnce

LEMMA NextFound ==
  ASSUME HalfLength > 1
  PROVE  /\ TypeInv /\ LimitInv /\ ScannedInv /\ TodoInv /\ RowAt /\ PairInv /\ EntriesInv
         /\ FoundInv /\ [Next]_vars
         => FoundInv'
<1> SUFFICES ASSUME TypeInv, LimitInv, ScannedInv, TodoInv, RowAt, PairInv, EntriesInv,
                    FoundInv, [Next]_vars, SearchAll', NEW c \in Readings, Wanted(c)'
             PROVE  /\ pc' # "done" /\ InPass(rotate', c) => KnownOnce(c, res', Seen(c)')
                    /\ pc' # "done" /\ rotate' /\ c \notin Vertical
                         => KnownOnce(c, resH', MadeRows(c)')
                    /\ pc' = "done" =>
                         \E k \in DOMAIN res' :
                           res'[k].reading = c /\ Spans(res'[k], MadeRows(c)')
  BY Zenon DEF FoundInv, InPass, KnownOnce, Spans, Extent, Smaller, Larger
<1>1. SearchAll /\ Wanted(c) /\ MadeRows(c)' = MadeRows(c)
  BY SearchFixed, WantedFixed
<1>2. /\ pc # "done" /\ InPass(rotate, c) => KnownOnce(c, res, Seen(c))
      /\ pc # "done" /\ rotate /\ c \notin Vertical => KnownOnce(c, resH, MadeRows(c))
      /\ pc = "done" =>
           \E k \in DOMAIN res : res[k].reading = c /\ Spans(res[k], MadeRows(c))
  BY <1>1, Zenon DEF FoundInv
<1>3. rotate \in BOOLEAN /\ res \in Seq(Results) /\ resH \in Seq(Results)
  BY DEF TypeInv, TypeOK
<1>4. CASE Rotate
  <2>1. /\ pc = "return" /\ pc' = "row" /\ i' = 0 /\ res' = <<>> /\ resH' = res
        /\ rotate = FALSE
    BY <1>4 DEF Rotate
  <2>2. Seen(c)' = {}
    <3>1. Covered(0)' = {}
      BY CoveredEnds DEF Covered, Middle
    <3> QED BY <2>1, <3>1 DEF Seen
  <2>3. KnownOnce(c, res', Seen(c)')
    BY <2>1, <2>2 DEF KnownOnce
  <2>4. c \notin Vertical => KnownOnce(c, resH', MadeRows(c)')
    <3> SUFFICES ASSUME c \notin Vertical PROVE KnownOnce(c, resH', MadeRows(c)')
      OBVIOUS
    <3>1. InPass(rotate, c)
      <4>1. (c \in Vertical) = FALSE
        OBVIOUS
      <4> QED BY <2>1, <4>1, Zenon DEF InPass
    <3>2. Seen(c) = MadeRows(c)
      BY <2>1 DEF Seen
    <3> QED BY <1>1, <1>2, <2>1, <3>1, <3>2
  <2> QED BY <2>1, <2>3, <2>4
<1>5. CASE Return
  <2>1. /\ pc = "return" /\ pc' = "done" /\ res' = resH \o res /\ rotate
    BY <1>1, <1>3, <1>5 DEF Return, RoomFor, SearchAll
  <2>2. Seen(c) = MadeRows(c) /\ MadeRows(c) # {}
    BY <1>1, <2>1, WantedRows DEF Seen
  <2>3. /\ DOMAIN res = 1 .. Len(res) /\ DOMAIN resH = 1 .. Len(resH)
        /\ Len(res) \in Nat /\ Len(resH) \in Nat
        /\ DOMAIN res' = 1 .. Len(resH) + Len(res)
        /\ \A k \in 1 .. Len(resH) + Len(res) :
             res'[k] = IF k <= Len(resH) THEN resH[k] ELSE res[k - Len(resH)]
    BY <1>3, <2>1, ConcatProperties, LenProperties
  <2>4. CASE c \in Vertical
    <3>1. InPass(rotate, c)
      BY <1>3, <2>1, <2>4 DEF InPass
    <3>2. PICK k \in DOMAIN res : res[k].reading = c /\ Spans(res[k], MadeRows(c))
      BY <1>2, <2>1, <2>2, <3>1 DEF KnownOnce
    <3>3. Len(resH) + k \in DOMAIN res' /\ res'[Len(resH) + k] = res[k]
      BY <2>3
    <3> QED BY <1>1, <2>1, <3>2, <3>3
  <2>5. CASE c \notin Vertical
    <3>1. PICK k \in DOMAIN resH : resH[k].reading = c /\ Spans(resH[k], MadeRows(c))
      BY <1>2, <2>1, <2>2, <2>5 DEF KnownOnce
    <3>2. k \in DOMAIN res' /\ res'[k] = resH[k]
      BY <2>3
    <3> QED BY <1>1, <2>1, <3>1, <3>2
  <2> QED BY <2>4, <2>5
<1>6. ASSUME ~Rotate, ~Return, ~UNCHANGED vars,
             InPass(rotate, c) /\ pc # "done" => KnownOnce(c, res', Seen(c)')
      PROVE  /\ pc' # "done" /\ InPass(rotate', c) => KnownOnce(c, res', Seen(c)')
             /\ pc' # "done" /\ rotate' /\ c \notin Vertical
                  => KnownOnce(c, resH', MadeRows(c)')
             /\ pc' # "done"
  <2>1. rotate' = rotate /\ resH' = resH
    BY <1>6, SameCall DEF call
  <2>2. pc # "done" /\ pc' # "done"
    BY <1>3, <1>6
    DEF Next, NextRow, NextCheckRow, ReadRow, MoreRows, LastRow, Merge, AddNew,
        AfterReading, RowDone, Drop, BeginFilter, FilterPair, FilterNext, Erase, EndFilter
  <2> QED BY <1>1, <1>2, <1>6, <2>1, <2>2
<1>7. CASE UNCHANGED vars
  <2>1. Seen(c)' = Seen(c)
    BY <1>1, <1>7 DEF vars, loop, Seen, Covered, Middle
  <2>2. UNCHANGED <<pc, res, resH, rotate>>
    BY <1>7 DEF vars, call
  <2> QED BY <1>1, <1>2, <2>1, <2>2
<1>8. ASSUME ~Rotate, ~Return, ~UNCHANGED vars, InPass(rotate, c), pc # "done"
      PROVE  KnownOnce(c, res', Seen(c)')
  <2>1. CASE NextRow
    BY <1>1, <1>2, <1>8, <2>1, RowFound
  <2>2. CASE NextCheckRow
    BY <1>1, <2>2 DEF NextCheckRow, ScannedInv, SearchAll, RowByRow
  <2>3. CASE LastRow \/ RowDone
    BY <1>1, <1>2, <1>8, <2>3, LoopFound
  <2>4. ASSUME NEW d \in todo, Merge(d) \/ AddNew(d) PROVE KnownOnce(c, res', Seen(c)')
    BY <1>1, <1>2, <1>8, <2>4, ReadingFound
  <2>5. ASSUME NEW k \in DOMAIN res, Drop(k) \/ Erase(k) PROVE KnownOnce(c, res', Seen(c)')
    BY <1>1, <1>2, <1>8, <2>5, EraseFound
  <2>6. CASE FilterPair
    BY <1>1, <1>2, <1>8, <2>6, PairFound
  <2>7. CASE BeginFilter \/ FilterNext \/ EndFilter
    <3>1. /\ pc \in {"drop", "filter"} /\ pc' \in {"filter", "return"} /\ res' = res
      BY <2>7 DEF BeginFilter, FilterNext, EndFilter
    <3>2. Seen(c) = MadeRows(c) /\ Seen(c)' = MadeRows(c)
      BY <1>1, <3>1 DEF Seen
    <3> QED BY <1>2, <1>8, <3>1, <3>2
  <2> QED BY <1>8, <2>1, <2>2, <2>3, <2>4, <2>5, <2>6, <2>7, Zenon DEF Next
<1> QED BY <1>4, <1>5, <1>6, <1>7, <1>8, Zenon

(* DoDecode: every symbol that is read without gaps in enough rows and that *)
(* nothing else overlaps is reported, with all the rows it was read in and *)
(* in its whole extent; whatever lies beside it, in whatever order its     *)
(* rows are read and whichever way it is turned.  A symbol is at least     *)
(* four pixels wide, so that neighbouring rows are taken for the same one. *)
THEOREM SymbolsAreFound ==
  ASSUME HalfLength > 1
  PROVE  Spec => []SymbolsFound
<1>1. TypeInv /\ LimitInv /\ FoundInv => SymbolsFound
  <2> SUFFICES ASSUME TypeInv, FoundInv, pc = "done", SearchAll,
                      NEW c \in Readings, Wanted(c)
               PROVE  \E k \in DOMAIN res :
                        res[k].reading = c /\ res[k].lines = MadeRows(c) /\ Extent(res[k]) = MadeRows(c)
    BY Zenon DEF SymbolsFound, SearchAll, Wanted
  <2> QED BY DEF FoundInv, Spans
<1>2. Init => /\ TypeInv /\ LimitInv /\ ScannedInv /\ TodoInv /\ RowAt /\ PairInv /\ EntriesInv
              /\ FoundInv
  BY InitTyped, InitLimit, InitScanned, InitRows, InitFound
<1>3. /\ TypeInv /\ LimitInv /\ ScannedInv /\ TodoInv /\ RowAt /\ PairInv /\ EntriesInv
      /\ FoundInv /\ [Next]_vars
      => (TypeInv /\ LimitInv /\ ScannedInv /\ TodoInv /\ RowAt /\ PairInv /\ EntriesInv
          /\ FoundInv)'
  BY NextTyped, LoopKept, NextLimit, NextScanned, NextTodo, NextRowAt, NextPair, NextEntries,
     NextFound DEF TypeInv
<1> QED BY <1>1, <1>2, <1>3, PTL DEF Spec
=============================================================================
