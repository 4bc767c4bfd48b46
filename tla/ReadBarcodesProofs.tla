------------------------- MODULE ReadBarcodesProofs -------------------------
(***************************************************************************)
(* What holds of the search loop for every image and every combination of  *)
(* options: its type invariant, the bound on the number of results when    *)
(* the PDF417 reader is not enabled, in tryHarder mode that every symbol   *)
(* is reported with the polarity it was printed in, that overlaps of       *)
(* erroneous with other symbols are resolved, and that a search without a  *)
(* limit reports every symbol it was shown.                                *)
(***************************************************************************)
EXTENDS ReadBarcodes, TLAPS, FiniteSetTheorems, SequenceTheorems

(* There are finitely many different barcodes, so every batch has a size.  *)
LEMMA BarcodesFinite == IsFiniteSet(Barcode)
<1> DEFINE P == (Symbols \cup {None}) \X Errors
           f == [p \in P |-> [sym |-> p[1], err |-> p[2]]]
<1>1. IsFiniteSet(Symbols \cup {None})
  BY SymbolsAssumption, FS_AddElement
<1>2. IsFiniteSet(Errors)
  <2>1. IsFiniteSet({} \cup {"None"})  BY FS_EmptySet, FS_AddElement
  <2>2. IsFiniteSet(({} \cup {"None"}) \cup {"Format"})  BY <2>1, FS_AddElement
  <2>3. IsFiniteSet((({} \cup {"None"}) \cup {"Format"}) \cup {"Checksum"})
    BY <2>2, FS_AddElement
  <2>4. (({} \cup {"None"}) \cup {"Format"}) \cup {"Checksum"} = Errors  BY DEF Errors
  <2> QED  BY <2>3, <2>4
<1>3. IsFiniteSet(P)  BY <1>1, <1>2, FS_Product
<1>4. f \in Surjection(P, Barcode)
  <2>1. f \in [P -> Barcode]  BY DEF Barcode
  <2>2. \A r \in Barcode : \E p \in P : f[p] = r
    <3> TAKE r \in Barcode
    <3>1. <<r.sym, r.err>> \in P  BY DEF Barcode
    <3>2. f[<<r.sym, r.err>>] = r  BY <3>1 DEF Barcode
    <3> QED  BY <3>1, <3>2
  <2> QED  BY <2>1, <2>2 DEF Surjection
<1> QED  BY <1>3, <1>4, FS_Surjection

(* The options of a call are of their types, and no step changes them.     *)
LEMMA OptionsType ==
  ASSUME scene \in SceneType
  PROVE  /\ MaxNumberOfSymbols \in 0 .. 255
         /\ ReturnErrors \in BOOLEAN /\ IsPure \in BOOLEAN
BY DEF SceneType, MaxNumberOfSymbols, ReturnErrors, IsPure

LEMMA OptionsFixed ==
  ASSUME [Next]_vars
  PROVE  /\ scene' = scene
         /\ MaxNumberOfSymbols' = MaxNumberOfSymbols
         /\ (ReturnErrors' <=> ReturnErrors) /\ (IsPure' <=> IsPure)
<1>1. scene' = scene
  BY DEF Next, vars, NextLayer, AskReader, EndRead, ReturnPure, Merge, ReturnFull,
         InvertPass, ClosePass, LayerDone, LayersDone, FilterPair, FilterNext,
         Erase, ReturnFiltered
<1> QED  BY <1>1 DEF MaxNumberOfSymbols, ReturnErrors, IsPure

LEMMA BatchFinite ==
  ASSUME NEW S \in SUBSET Barcode
  PROVE  IsFiniteSet(S) /\ Cardinality(S) \in Nat
BY BarcodesFinite, FS_Subset, FS_CardinalityType

(* A reader returns barcodes of symbols that show in the polarity it is    *)
(* given, and no more of them than it was allowed, PDF417 apart.           *)
LEMMA ReaderReturns ==
  ASSUME TypeOK, budget > 0, NEW k \in ReaderKinds, NEW bm \in Bitmaps,
         NEW r \in ReaderResults(k, bm)
  PROVE  /\ r \in SUBSET Barcode
         /\ r \in SUBSET Visible(k, bm)
         /\ k # "pdf417" => Cardinality(r) <= budget
<1> DEFINE rs == Accepted(k, Visible(k, bm))
<1>1. rs \in SUBSET Barcode /\ rs \in SUBSET Visible(k, bm)
  BY DEF Accepted, Visible, Barcode
<1> DEFINE vs == Visible(k, bm)
<1>2. vs \in SUBSET Barcode  BY DEF Visible, Barcode
<1>3. k # "pdf417" => Limit(k) \in Int /\ Limit(k) <= budget
  BY DEF Limit, TypeOK, ReaderKinds
<1>4. ASSUME NEW n \in Int, NEW S \in SUBSET Barcode, NEW s \in AtMost(n, S)
      PROVE  s \in SUBSET S /\ Cardinality(s) <= n
  <2>1. Cardinality(S) \in Nat  BY BatchFinite
  <2> QED  BY <2>1 DEF AtMost
<1>5. CASE k # "aztec"
  <2>1. r \in AtMost(Limit(k), rs)  BY <1>5 DEF ReaderResults
  <2>2. r \in SUBSET rs  BY <2>1 DEF AtMost
  <2>3. ASSUME k # "pdf417" PROVE Cardinality(r) <= budget
    <3> HIDE DEF rs
    <3>1. Limit(k) \in Int /\ Limit(k) <= budget  BY <1>3, <2>3
    <3>2. Cardinality(r) <= Limit(k)  BY <1>1, <1>4, <2>1, <3>1
    <3>3. Cardinality(r) \in Nat  BY <1>1, <2>2, BatchFinite
    <3> QED  BY <3>1, <3>2, <3>3 DEF TypeOK
  <2> QED  BY <1>1, <2>2, <2>3
<1>6. CASE k = "aztec"
  <2>1. PICK s \in AtMost(Limit(k), vs) : r = Accepted(k, s)
    BY <1>6 DEF ReaderResults
  <2>2. s \in SUBSET vs /\ Cardinality(s) <= Limit(k)
    BY <1>2, <1>3, <1>4, <1>6, <2>1
  <2>3. r \in SUBSET s  BY <2>1 DEF Accepted
  <2>4. Cardinality(r) <= Cardinality(s)
    BY <1>2, <2>2, <2>3, BarcodesFinite, FS_Subset
  <2>5. Cardinality(r) \in Nat /\ Cardinality(s) \in Nat
    BY <1>2, <2>2, <2>3, BatchFinite
  <2>6. Cardinality(r) <= budget
    BY <1>3, <1>6, <2>2, <2>4, <2>5 DEF TypeOK
  <2> QED  BY <1>2, <2>2, <2>3, <2>6
<1> QED  BY <1>5, <1>6

LEMMA PureReturns ==
  ASSUME NEW k \in ReaderKinds, NEW bm \in Bitmaps, NEW r \in PureResults(k, bm)
  PROVE  /\ r \in SUBSET Barcode
         /\ r \in SUBSET (Visible(k, bm) \cup {Blank})
         /\ Cardinality(r) <= 1
<1> DEFINE rs == Accepted(k, Visible(k, bm))
<1>1. rs \in SUBSET Barcode /\ rs \in SUBSET Visible(k, bm)
  BY DEF Accepted, Visible, Barcode
<1>2. Blank \in Barcode  BY DEF Blank, Barcode, Errors
<1>3. \/ r = {Blank} \/ r = {}
      \/ r \in SUBSET rs /\ (Cardinality(r) = 0 \/ Cardinality(r) = 1)
  BY DEF PureResults
<1>4. Cardinality({Blank}) = 1 /\ Cardinality({}) = 0  BY FS_Singleton, FS_EmptySet
<1> QED  BY <1>1, <1>2, <1>3, <1>4

(* Facts about sequences.                                                  *)
LEMMA SingletonSeq ==
  ASSUME NEW S, NEW x \in S
  PROVE  <<x>> \in Seq(S) /\ Len(<<x>>) = 1 /\ <<x>>[1] = x
OBVIOUS

LEMMA ExceptType ==
  ASSUME NEW S, NEW s \in Seq(S), NEW v, NEW x \in S
  PROVE  /\ [s EXCEPT ![v] = x] \in Seq(S)
         /\ Len([s EXCEPT ![v] = x]) = Len(s)
         /\ \A i \in DOMAIN s : [s EXCEPT ![v] = x][i] = IF i = v THEN x ELSE s[i]
<1>1. Len(s) \in Nat /\ s \in [1 .. Len(s) -> S]  BY LenProperties
<1>2. CASE v \in 1 .. Len(s)  BY <1>1, <1>2, ExceptSeq
<1>3. CASE v \notin 1 .. Len(s)
  <2>1. [s EXCEPT ![v] = x] = s  BY <1>1, <1>3
  <2> QED  BY <1>1, <1>3, <2>1
<1> QED  BY <1>2, <1>3

LEMMA WithoutType ==
  ASSUME NEW S, NEW s \in Seq(S), NEW i \in DOMAIN s
  PROVE  /\ Without(s, i) \in Seq(S)
         /\ Len(Without(s, i)) = Len(s) - 1
         /\ \A j \in DOMAIN Without(s, i) : \E n \in DOMAIN s : Without(s, i)[j] = s[n]
<1>1. Len(s) \in Nat /\ DOMAIN s = 1 .. Len(s) /\ Len(s) - 1 \in Nat
  BY LenProperties
<1> DEFINE e(j) == IF j < i THEN s[j] ELSE s[j + 1]
<1>2. \A j \in 1 .. Len(s) - 1 : e(j) \in S  BY <1>1, ElementOfSeq
<1>3. Without(s, i) \in Seq(S)
  <2> HIDE DEF e
  <2>1. [j \in 1 .. Len(s) - 1 |-> e(j)] \in Seq(S)  BY <1>1, <1>2, IsASeq
  <2> QED  BY <2>1 DEF e, Without
<1>4. DOMAIN Without(s, i) = 1 .. Len(s) - 1  BY DEF Without
<1>5. Len(Without(s, i)) = Len(s) - 1
  <2>1. /\ Len(Without(s, i)) \in Nat
        /\ 1 .. Len(Without(s, i)) = 1 .. Len(s) - 1
    BY <1>3, <1>4, LenProperties
  <2>2. \A m, n \in Nat : 1 .. m = 1 .. n => m = n  OBVIOUS
  <2> QED  BY <1>1, <2>1, <2>2
<1>6. \A j \in 1 .. Len(s) - 1 : \E n \in DOMAIN s : Without(s, i)[j] = s[n]
  BY <1>1 DEF Without
<1> QED  BY <1>3, <1>4, <1>5, <1>6

LEMMA BitmapOperations ==
  ASSUME NEW bm \in Bitmaps, NEW ok \in BOOLEAN
  PROVE  /\ NewBitmap \in Bitmaps /\ GetBitMatrix(bm, ok) \in Bitmaps
         /\ Invert(bm) \in Bitmaps /\ Close(bm) \in Bitmaps
BY DEF Bitmaps, CacheStates, NewBitmap, GetBitMatrix, Invert, Close
-----------------------------------------------------------------------------
(* The type invariant.                                                     *)
THEOREM TypeCorrect == Spec => []TypeOK
<1>1. Init => TypeOK
  <2> SUFFICES ASSUME Init PROVE TypeOK  OBVIOUS
  <2>1. bitmap \in Bitmaps  BY DEF Init, Bitmaps, CacheStates, NewBitmap
  <2>3. scene \in SceneType  BY ScenesAssumption DEF Init
  <2>2. maxSymbols \in Int  BY <2>3, OptionsType, OptionsAssumption DEF Init
  <2>4. layer \in 0 .. NumLayers  BY ScenesAssumption DEF Init
  <2>5. res \in Seq(ResultType)  BY EmptySeq DEF Init
  <2>6. /\ pc \in {"layer", "read", "merge", "filter", "done"}
        /\ todo \subseteq ReaderKinds /\ batch \subseteq Barcode
        /\ close \in BOOLEAN /\ invert \in BOOLEAN
    BY Zenon DEF Init
  <2>7. budget \in Int /\ a \in Nat \ {0} /\ b \in Nat \ {0}  BY DEF Init
  <2> QED  BY <2>1, <2>2, <2>3, <2>4, <2>5, <2>6, <2>7 DEF TypeOK
<1>2. TypeOK /\ [Next]_vars => TypeOK'
  <2> SUFFICES ASSUME TypeOK, [Next]_vars PROVE TypeOK'  OBVIOUS
  <2> USE DEF TypeOK
  <2>0. \A k \in ReaderKinds, bm \in Bitmaps : ReadersFor(bm, TRUE) \subseteq ReaderKinds
                                    /\ ReadersFor(bm, FALSE) \subseteq ReaderKinds
    BY OptionsAssumption DEF ReadersFor, ClosedReader
  <2>1. CASE NextLayer
    <3>1. NewBitmap \in Bitmaps  BY BitmapOperations
    <3>2. ReadersFor(NewBitmap, FALSE) \subseteq ReaderKinds
      BY OptionsAssumption DEF ReadersFor, ClosedReader
    <3>3. layer' \in 0 .. NumLayers /\ budget' \in Int
      BY <2>1, ScenesAssumption DEF NextLayer, BeginRead
    <3> QED  BY <2>1, <3>1, <3>2, <3>3 DEF NextLayer, BeginRead
  <2>2. ASSUME NEW k \in ReaderKinds, AskReader(k) PROVE TypeOK'
    <3> DEFINE bm == IF k = "linear" THEN bitmap
                     ELSE GetBitMatrix(bitmap, scene.contrast[layer])
    <3>1. bm \in Bitmaps
      BY BitmapOperations DEF GetBitMatrix, Bitmaps, CacheStates
    <3>2. PICK r \in IF IsPure THEN PureResults(k, bm) ELSE ReaderResults(k, bm) :
            batch' = batch \cup r /\ budget' = budget - Cardinality(r)
      BY <2>2 DEF AskReader
    <3>3. r \in SUBSET Barcode
      BY <3>1, <3>2, <2>2, ReaderReturns, PureReturns DEF AskReader
    <3>4. Cardinality(r) \in Nat  BY <3>3, BatchFinite
    <3>5. budget' \in Int /\ batch' \subseteq Barcode  BY <3>2, <3>3, <3>4
    <3> QED  BY <2>2, <3>1, <3>5 DEF AskReader
  <2>3. CASE EndRead  BY <2>3 DEF EndRead, search
  <2>4. ASSUME NEW r \in batch \cup {Blank}, ReturnPure(r) PROVE TypeOK'
    <3>1. r \in Barcode  BY DEF Blank, Barcode, Errors
    <3>2. Result(r, FALSE) \in ResultType  BY <3>1 DEF Result, ResultType, Barcode
    <3>3. PICK x \in ResultType : res' = <<x>>  BY <2>4, <3>2, Zenon DEF ReturnPure
    <3>4. <<x>> \in Seq(ResultType)  BY SingletonSeq
    <3> QED  BY <2>4, <3>3, <3>4 DEF ReturnPure, search
  <2>5. ASSUME NEW r \in batch, Merge(r) PROVE TypeOK'
    <3>1. Result(r, bitmap.inverted) \in ResultType
      BY DEF Result, ResultType, Barcode, Bitmaps
    <3>2. res' \in Seq(ResultType) /\ maxSymbols' \in Int
      BY <2>5, <3>1, AppendProperties DEF Merge
    <3> QED  BY <2>5, <3>2 DEF Merge, search
  <2>6. CASE ReturnFull  BY <2>6 DEF ReturnFull, search
  <2>7. CASE InvertPass
    <3>1. Invert(bitmap) \in Bitmaps  BY BitmapOperations
    <3> QED  BY <2>7, <2>0, <3>1 DEF InvertPass, BeginRead, ReaderKinds
  <2>8. CASE ClosePass
    <3> DEFINE bm == Close(IF bitmap.inverted THEN Invert(bitmap) ELSE bitmap)
    <3>1. bm \in Bitmaps  BY BitmapOperations
    <3> QED  BY <2>8, <2>0, <3>1 DEF ClosePass, BeginRead, ReaderKinds
  <2>9. CASE LayerDone  BY <2>9 DEF LayerDone, search
  <2>10. CASE LayersDone  BY <2>10 DEF LayersDone, search
  <2>11. CASE FilterPair
    <3>1. Result(Blank, FALSE) \in ResultType  BY DEF Result, ResultType, Blank, Errors
    <3>2. res' \in Seq(ResultType)
      <4>1. \/ res' = res
            \/ \E x \in ResultType, v \in {a, b} : res' = [res EXCEPT ![v] = x]
        BY <3>1, <2>11, Zenon DEF FilterPair
      <4> QED  BY <4>1, ExceptType
    <3> QED  BY <2>11, <3>2 DEF FilterPair, search
  <2>12. CASE FilterNext  BY <2>12 DEF FilterNext, search
  <2>13. ASSUME NEW i \in DOMAIN res, Erase(i) PROVE TypeOK'
    <3>1. Without(res, i) \in Seq(ResultType)  BY WithoutType
    <3> QED  BY <2>13, <3>1 DEF Erase, search
  <2>14. CASE ReturnFiltered  BY <2>14 DEF ReturnFiltered, search
  <2>15. CASE UNCHANGED vars  BY <2>15 DEF vars, search
  <2> QED
    BY <2>1, <2>2, <2>3, <2>4, <2>5, <2>6, <2>7, <2>8, <2>9, <2>10, <2>11,
       <2>12, <2>13, <2>14, <2>15 DEF Next
<1> QED  BY <1>1, <1>2, PTL DEF Spec
-----------------------------------------------------------------------------
(* The bound on the number of results.  Every barcode reported costs one   *)
(* unit of maxSymbols, and a read is never given more than is left; only   *)
(* the PDF417 reader returns more than it is given.                        *)
THEOREM CountBounded ==
  ASSUME "pdf417" \notin Enabled
  PROVE  Spec => []CountBound
<1> DEFINE IInv == Accounting /\ todo \subseteq Enabled /\ (pc = "layer" => maxSymbols > 0)
<1>1. Init => IInv
  <2> SUFFICES ASSUME Init PROVE IInv  OBVIOUS
  <2>0. MaxNumberOfSymbols \in 0 .. 255
    BY OptionsType, ScenesAssumption DEF Init
  <2>1. maxSymbols \in Int /\ maxSymbols > 0 /\ (MaxNumberOfSymbols > 0 => maxSymbols = MaxNumberOfSymbols)
    BY <2>0, OptionsAssumption DEF Init
  <2>2. Len(res) = 0  BY EmptySeq DEF Init
  <2>3. pc = "layer" /\ budget = 0 /\ todo = {}  BY DEF Init
  <2> QED
    BY <2>0, <2>1, <2>2, <2>3 DEF Accounting, CountBound
<1>2. TypeOK /\ IInv /\ [Next]_vars => IInv'
  <2> SUFFICES ASSUME TypeOK, IInv, [Next]_vars PROVE IInv'  OBVIOUS
  <2>0. /\ Len(res) \in Nat /\ maxSymbols \in Int /\ budget \in Int
        /\ MaxNumberOfSymbols \in Int
        /\ Cardinality(batch) \in Nat
    <3>1. MaxNumberOfSymbols \in 0 .. 255  BY OptionsType DEF TypeOK
    <3> QED  BY <3>1, LenProperties, BatchFinite DEF TypeOK
  <2> USE OptionsFixed
  <2> DEFINE Begun(max) ==
        /\ pc' = "read" /\ budget' = max /\ batch' = {} /\ todo' \subseteq Enabled
        /\ UNCHANGED <<maxSymbols, res>>
  <2>a. \A bm : ReadersFor(bm, TRUE) \subseteq Enabled /\ ReadersFor(bm, FALSE) \subseteq Enabled
    BY DEF ReadersFor, ClosedReader
  <2>b. Cardinality({}) = 0  BY FS_EmptySet
  <2>c. ASSUME Begun(maxSymbols), maxSymbols > 0, pc \in {"layer", "merge"} PROVE IInv'
    BY <2>0, <2>b, <2>c DEF Accounting, CountBound
  <2>1. CASE NextLayer
    <3>1. CASE IsPure
      <4>1. /\ pc' = "read" /\ budget' = 1 /\ todo' \subseteq Enabled
            /\ maxSymbols' = maxSymbols /\ res' = res
        BY <2>1, <2>a, <3>1 DEF NextLayer, BeginRead
      <4> QED  BY <2>0, <3>1, <4>1 DEF Accounting, CountBound
    <3>2. CASE ~IsPure
      <4>1. Begun(maxSymbols) /\ pc = "layer"
        BY <2>1, <2>a, <3>2 DEF NextLayer, BeginRead
      <4> QED  BY <2>c, <4>1
    <3> QED  BY <3>1, <3>2
  <2>2. ASSUME NEW k \in ReaderKinds, AskReader(k) PROVE IInv'
    <3> DEFINE bm == IF k = "linear" THEN bitmap
                     ELSE GetBitMatrix(bitmap, scene.contrast[layer])
    <3>1. bm \in Bitmaps
      BY BitmapOperations DEF GetBitMatrix, Bitmaps, CacheStates, TypeOK
    <3>2. PICK r \in IF IsPure THEN PureResults(k, bm) ELSE ReaderResults(k, bm) :
            batch' = batch \cup r /\ budget' = budget - Cardinality(r)
      BY <2>2 DEF AskReader
    <3> HIDE DEF bm
    <3>3. /\ pc = "read" /\ pc' = "read" /\ budget > 0 /\ k \in todo
          /\ todo' \subseteq todo /\ maxSymbols' = maxSymbols /\ res' = res
      BY <2>2 DEF AskReader
    <3>4. r \in SUBSET Barcode /\ Cardinality(r) <= budget
      <4>1. CASE IsPure
        BY <2>0, <3>1, <3>2, <3>3, <4>1, PureReturns, BatchFinite
      <4>2. CASE ~IsPure
        <5>1. k # "pdf417"  BY <3>3
        <5> QED  BY <3>1, <3>2, <3>3, <4>2, <5>1, ReaderReturns
      <4> QED  BY <4>1, <4>2
    <3>5. Cardinality(r) \in Nat  BY <3>4, BatchFinite
    <3>6. Cardinality(batch') <= Cardinality(batch) + Cardinality(r)
      <4>1. batch \in SUBSET Barcode  BY DEF TypeOK
      <4>2. batch \cap r \in SUBSET Barcode  BY <3>4
      <4>3. /\ IsFiniteSet(batch) /\ IsFiniteSet(r)
            /\ Cardinality(batch \cap r) \in Nat
        BY <3>4, <4>1, <4>2, BatchFinite
      <4>4. Cardinality(batch \cup r)
              = Cardinality(batch) + Cardinality(r) - Cardinality(batch \cap r)
        BY <4>3, FS_Union
      <4> QED  BY <2>0, <3>2, <3>5, <4>3, <4>4
    <3>7. batch' \in SUBSET Barcode  BY <3>2, <3>4 DEF TypeOK
    <3>8. Cardinality(batch') \in Nat  BY <3>7, BatchFinite
    <3> QED
      BY <2>0, <3>2, <3>3, <3>4, <3>5, <3>6, <3>8 DEF Accounting, CountBound
  <2>3. CASE EndRead
    BY <2>0, <2>3 DEF EndRead, search, Accounting, CountBound
  <2>4. ASSUME NEW r \in batch \cup {Blank}, ReturnPure(r) PROVE IInv'
    <3>1. PICK x \in ResultType : res' = <<x>>
      <4>1. r \in Barcode  BY DEF Blank, Barcode, Errors, TypeOK
      <4>2. Result(r, FALSE) \in ResultType  BY <4>1 DEF Result, ResultType, Barcode
      <4> QED  BY <2>4, <4>2, Zenon DEF ReturnPure
    <3>2. Len(res') = 1  BY <3>1, SingletonSeq
    <3>3. IsPure /\ pc' = "done" /\ UNCHANGED <<budget, maxSymbols, todo>>
      BY <2>4 DEF ReturnPure, search
    <3> QED  BY <2>0, <3>2, <3>3 DEF Accounting, CountBound
  <2>5. ASSUME NEW r \in batch, Merge(r) PROVE IInv'
    <3>1. Result(r, bitmap.inverted) \in ResultType
      BY DEF Result, ResultType, Barcode, Bitmaps, TypeOK
    <3>2. /\ pc = "merge" /\ pc' = "merge" /\ ~IsPure
          /\ UNCHANGED <<budget, todo>> /\ batch' = batch \ {r}
      BY <2>5 DEF Merge, search
    <3>3. Cardinality(batch') = Cardinality(batch) - 1
      <4>1. IsFiniteSet(batch)  BY BatchFinite DEF TypeOK
      <4> QED  BY <3>2, <4>1, FS_RemoveElement
    <3>4. \/ res' = res /\ maxSymbols' = maxSymbols
          \/ \E x \in ResultType : res' = Append(res, x) /\ maxSymbols' = maxSymbols - 1
      BY <2>5, <3>1, Zenon DEF Merge
    <3>5. \/ Len(res') = Len(res) /\ maxSymbols' = maxSymbols
          \/ Len(res') = Len(res) + 1 /\ maxSymbols' = maxSymbols - 1
      BY <3>4, AppendProperties DEF TypeOK
    <3>6. Cardinality(batch) >= 1  
      <4>1. batch # {} /\ IsFiniteSet(batch)  BY BatchFinite DEF TypeOK
      <4> QED  BY <4>1, <2>0, FS_EmptySet
    <3> QED  BY <2>0, <3>2, <3>3, <3>5, <3>6 DEF Accounting, CountBound
  <2>6. CASE ReturnFull
    BY <2>0, <2>6 DEF ReturnFull, Merged, search, Accounting, CountBound
  <2>7. CASE InvertPass
    <3>1. Begun(maxSymbols) /\ maxSymbols > 0 /\ pc = "merge"
      BY <2>7, <2>a DEF InvertPass, Merged, BeginRead
    <3> QED  BY <2>c, <3>1
  <2>8. CASE ClosePass
    <3>1. Begun(maxSymbols) /\ maxSymbols > 0 /\ pc = "merge"
      BY <2>8, <2>a DEF ClosePass, Merged, BeginRead
    <3> QED  BY <2>c, <3>1
  <2>9. CASE LayerDone
    BY <2>0, <2>9 DEF LayerDone, Merged, search, Accounting, CountBound
  <2>10. CASE LayersDone
    BY <2>0, <2>10 DEF LayersDone, search, Accounting, CountBound
  <2>11. CASE FilterPair
    <3>1. Result(Blank, FALSE) \in ResultType  BY DEF Result, ResultType, Blank, Errors
    <3>2. \/ res' = res
          \/ \E x \in ResultType, v \in {a, b} : res' = [res EXCEPT ![v] = x]
      BY <3>1, <2>11, Zenon DEF FilterPair
    <3>3. Len(res') = Len(res)  BY <3>2, ExceptType DEF TypeOK
    <3>4. pc = "filter" /\ UNCHANGED <<pc, budget, todo, maxSymbols, batch>>
      BY <2>11 DEF FilterPair, search
    <3> QED  BY <2>0, <3>3, <3>4 DEF Accounting, CountBound
  <2>12. CASE FilterNext
    BY <2>0, <2>12 DEF FilterNext, search, Accounting, CountBound
  <2>13. ASSUME NEW i \in DOMAIN res, Erase(i) PROVE IInv'
    <3>1. Len(res') = Len(res) - 1  BY <2>13, WithoutType DEF Erase, TypeOK
    <3>2. pc = "filter" /\ UNCHANGED <<pc, budget, todo, maxSymbols, batch>>
      BY <2>13 DEF Erase, search
    <3> QED  BY <2>0, <3>1, <3>2 DEF Accounting, CountBound
  <2>14. CASE ReturnFiltered
    BY <2>0, <2>14 DEF ReturnFiltered, search, Accounting, CountBound
  <2>15. CASE UNCHANGED vars
    BY <2>0, <2>15 DEF vars, search, Accounting, CountBound
  <2> QED
    BY <2>1, <2>2, <2>3, <2>4, <2>5, <2>6, <2>7, <2>8, <2>9, <2>10, <2>11,
       <2>12, <2>13, <2>14, <2>15 DEF Next
<1>3. IInv => CountBound  BY DEF Accounting
<1> QED  BY <1>1, <1>2, <1>3, TypeCorrect, PTL DEF Spec
-----------------------------------------------------------------------------
(* In tryHarder mode the linear reader comes last: of the readers still to *)
(* be asked, the first is one that binarises the image, if there is one    *)
(* that will see it inverted.                                              *)
LEMMA LinearComesLast ==
  ASSUME TryHarder, NEW k \in ReaderKinds, NEW j \in Inverting, Rank(k) <= Rank(j)
  PROVE  k # "linear"
BY DEF Rank, Inverting, SupportsInversion, ReaderKinds

(* The flags of a bitmap stay in step with its matrix.                     *)
LEMMA BitmapInStep ==
  ASSUME NEW bm \in Bitmaps, InStep(bm)
  PROVE  /\ InStep(NewBitmap) /\ InStep(Invert(bm)) /\ InStep(Close(bm))
         /\ Invert(bm).inverted = ~bm.inverted /\ Invert(bm).closed = bm.closed
         /\ Close(bm).inverted = bm.inverted /\ Close(bm).closed
         /\ Invert(bm).cache = bm.cache /\ Close(bm).cache = bm.cache
         /\ ~NewBitmap.inverted /\ ~NewBitmap.closed /\ NewBitmap.cache = "unset"
BY DEF Bitmaps, CacheStates, InStep, Invert, Close, NewBitmap

LEMMA GetBitMatrixInStep ==
  ASSUME NEW bm \in Bitmaps, NEW ok \in BOOLEAN, InStep(bm),
         bm.cache = "unset" => ~bm.inverted /\ ~bm.closed
  PROVE  /\ InStep(GetBitMatrix(bm, ok)) /\ GetBitMatrix(bm, ok).cache # "unset"
         /\ GetBitMatrix(bm, ok).inverted = bm.inverted
         /\ GetBitMatrix(bm, ok).closed = bm.closed
BY DEF Bitmaps, CacheStates, InStep, GetBitMatrix

(* Which readers a pass asks.                                              *)
LEMMA ReadersAsked ==
  ASSUME NEW bm \in Bitmaps, NEW closing \in BOOLEAN
  PROVE  /\ ReadersFor(bm, closing) \subseteq Enabled
         /\ closing \/ bm.inverted => ReadersFor(bm, closing) \subseteq Inverting
         /\ ~closing /\ ~bm.inverted => ReadersFor(bm, closing) = Enabled
BY DEF ReadersFor, ClosedReader, Inverting, SupportsInversion, BenefitFromClosing

(* A reader returns readings of the polarity it was shown.                 *)
LEMMA ReadingPolarity ==
  ASSUME NEW k \in ReaderKinds, NEW bm \in Bitmaps, InStep(bm),
         NEW r \in Visible(k, bm) \cup {Blank},
         k = "linear" => ~bm.inverted
  PROVE  PolarityOf(r, bm.inverted)
<1>1. CASE r = Blank  BY <1>1 DEF Blank, PolarityOf
<1>2. CASE r \in Visible(k, bm)
  <2>1. (r.sym \in ReverseReflectance) = (k # "linear" /\ bm.flipped)
        /\ (k = "linear" \/ bm.cache = "bits")
    BY <1>2, Zenon DEF Visible
  <2> QED  BY <2>1 DEF InStep, PolarityOf, Bitmaps
<1> QED  BY <1>1, <1>2

(* In tryHarder mode the linear reader, the only one that never binarises  *)
(* the whole image, is asked last: invert() and close() then never come    *)
(* before the matrix they have to change, and every barcode is reported    *)
(* with the polarity its symbol was printed in.                            *)
THEOREM PolarityCorrect ==
  ASSUME TryHarder
  PROVE  Spec => [](PolarityReported /\ MatrixMatchesFlags)
<1>1. Init => PolarityInv
  <2> SUFFICES ASSUME Init PROVE PolarityInv  OBVIOUS
  <2>0. MaxNumberOfSymbols \in 0 .. 255
    BY OptionsType, ScenesAssumption DEF Init
  <2>1. maxSymbols > 0  BY <2>0, OptionsAssumption DEF Init
  <2>2. FlagsFollowLoops
    BY DEF Init, FlagsFollowLoops, InStep, NewBitmap
  <2>3. ReadersSuited  BY DEF Init, ReadersSuited
  <2>4. CacheBeforeInvert  BY DEF Init, CacheBeforeInvert
  <2>5. BatchPolarity  BY DEF Init, BatchPolarity
  <2>6. PolarityReported  BY DEF Init, PolarityReported
  <2> QED  BY <2>1, <2>2, <2>3, <2>4, <2>5, <2>6 DEF PolarityInv
<1>2. TypeOK /\ PolarityInv /\ [Next]_vars => PolarityInv'
  <2> SUFFICES ASSUME TypeOK, PolarityInv, [Next]_vars PROVE PolarityInv'  OBVIOUS
  <2>0. /\ pc = "layer" => maxSymbols > 0
        /\ FlagsFollowLoops /\ ReadersSuited /\ CacheBeforeInvert
        /\ BatchPolarity /\ PolarityReported
    BY DEF PolarityInv
  <2> USE OptionsFixed
  <2>t. bitmap \in Bitmaps /\ InStep(bitmap) /\ invert \in BOOLEAN /\ close \in BOOLEAN
    BY <2>0 DEF TypeOK, FlagsFollowLoops
  <2>b. ASSUME NEW bm \in Bitmaps, NEW closing \in BOOLEAN, NEW max,
               BeginRead(bm, closing, max), InStep(bm),
               bm.inverted = invert', bm.closed = close', close' = closing,
               IsPure => ~invert', UNCHANGED res
        PROVE  /\ pc' = "read" /\ FlagsFollowLoops' /\ ReadersSuited'
               /\ BatchPolarity' /\ PolarityReported'
    <3>1. /\ pc' = "read" /\ bitmap' = bm /\ todo' = ReadersFor(bm, closing)
          /\ batch' = {}
      BY <2>b DEF BeginRead
    <3>2. FlagsFollowLoops'  BY <2>b, <3>1 DEF FlagsFollowLoops, InStep
    <3>3. ReadersSuited'  BY <2>b, <3>1, ReadersAsked DEF ReadersSuited
    <3>4. BatchPolarity'  BY <3>1 DEF BatchPolarity
    <3>5. PolarityReported'  BY <2>0, <2>b DEF PolarityReported, PolarityOf
    <3> QED  BY <3>1, <3>2, <3>3, <3>4, <3>5
  <2>1. CASE NextLayer
    <3> DEFINE max == IF IsPure THEN 1 ELSE maxSymbols
    <3>1. /\ NewBitmap \in Bitmaps /\ InStep(NewBitmap) /\ ~NewBitmap.inverted
          /\ ~NewBitmap.closed
      BY <2>t, BitmapInStep, BitmapOperations
    <3>2. /\ BeginRead(NewBitmap, FALSE, max) /\ invert' = FALSE /\ close' = FALSE
          /\ pc = "layer" /\ UNCHANGED res
      BY <2>1 DEF NextLayer
    <3>3. /\ pc' = "read" /\ FlagsFollowLoops' /\ ReadersSuited'
          /\ BatchPolarity' /\ PolarityReported'
      <4>1. InStep(NewBitmap) /\ NewBitmap.inverted = invert' /\ NewBitmap.closed = close'
        BY <3>1, <3>2 DEF NewBitmap
      <4>2. close' = FALSE /\ (IsPure => ~invert') /\ NewBitmap \in Bitmaps
        BY <3>1, <3>2
      <4> HIDE DEF max
      <4> QED  BY <2>b, <3>2, <4>1, <4>2, Zenon
    <3>4. max > 0  BY <2>0, <3>2
    <3>5. CacheBeforeInvert'
      <4>1. Inverting \subseteq todo'
        <5>1. todo' = Enabled  BY <3>1, <3>2, ReadersAsked DEF BeginRead
        <5> QED  BY <5>1 DEF Inverting
      <4>2. budget' > 0  BY <3>2, <3>4 DEF BeginRead
      <4> QED  BY <3>2, <3>3, <4>1, <4>2 DEF CacheBeforeInvert
    <3> QED  BY <3>3, <3>5 DEF PolarityInv
  <2>2. ASSUME NEW k \in ReaderKinds, AskReader(k) PROVE PolarityInv'
    <3> DEFINE bm == IF k = "linear" THEN bitmap
                     ELSE GetBitMatrix(bitmap, scene.contrast[layer])
    <3>1. PICK r \in IF IsPure THEN PureResults(k, bm) ELSE ReaderResults(k, bm) :
            batch' = batch \cup r
      BY <2>2 DEF AskReader
    <3>2. /\ pc = "read" /\ pc' = "read" /\ budget > 0 /\ k \in todo
          /\ \A j \in todo : Rank(k) <= Rank(j)
          /\ todo' = todo \ {k} /\ bitmap' = bm
          /\ UNCHANGED <<invert, close, layer, res>>
      BY <2>2 DEF AskReader
    <3>3. bm \in Bitmaps
      BY <2>t, BitmapOperations DEF GetBitMatrix, Bitmaps, CacheStates
    <3>4. bm.cache = "unset" => Inverting = {}
      <4>1. SUFFICES ASSUME bm.cache = "unset", Inverting # {} PROVE FALSE
        OBVIOUS
      <4>2. k = "linear" \/ bm.cache # "unset"
        BY <2>t DEF GetBitMatrix, Bitmaps, CacheStates
      <4>3. k = "linear" /\ bitmap.cache = "unset"  BY <4>1, <4>2
      <4>4. PICK j \in Inverting : j \in todo
        BY <2>0, <3>2, <4>1, <4>3 DEF CacheBeforeInvert
      <4> QED  BY <3>2, <4>3, <4>4, LinearComesLast
    <3>5. InStep(bm) /\ bm.inverted = bitmap.inverted /\ bm.closed = bitmap.closed
      <4>1. CASE k = "linear"  BY <2>t, <4>1
      <4>2. CASE k # "linear"
        <5>1. bitmap.cache = "unset" => ~bitmap.inverted /\ ~bitmap.closed
          BY <2>0, <3>2
          DEF CacheBeforeInvert, ReadersSuited, FlagsFollowLoops
        <5>2. scene.contrast[layer] \in BOOLEAN
              \/ GetBitMatrix(bitmap, scene.contrast[layer]) = GetBitMatrix(bitmap, FALSE)
              \/ GetBitMatrix(bitmap, scene.contrast[layer]) = GetBitMatrix(bitmap, TRUE)
          BY DEF GetBitMatrix
        <5> QED  BY <2>t, <4>2, <5>1, <5>2, GetBitMatrixInStep
      <4> QED  BY <4>1, <4>2
    <3> HIDE DEF bm
    <3>6. k = "linear" => ~bm.inverted
      BY <2>0, <3>2, <3>5
      DEF ReadersSuited, FlagsFollowLoops, Inverting, SupportsInversion
    <3>7. r \subseteq Visible(k, bm) \cup {Blank}
      BY <3>1, <3>2, <3>3, ReaderReturns, PureReturns
    <3>8. BatchPolarity'
      <4>1. \A q \in r : PolarityOf(q, bm.inverted)
        BY <3>3, <3>5, <3>6, <3>7, ReadingPolarity
      <4>2. \A q \in batch : PolarityOf(q, bm.inverted)
        BY <2>0, <3>2, <3>5 DEF BatchPolarity
      <4> QED  BY <3>1, <3>2, <4>1, <4>2 DEF BatchPolarity, PolarityOf
    <3>9. FlagsFollowLoops'
      BY <2>0, <3>2, <3>5 DEF FlagsFollowLoops, InStep
    <3>10. ReadersSuited'  BY <2>0, <3>2 DEF ReadersSuited
    <3>11. CacheBeforeInvert'  BY <3>2, <3>4 DEF CacheBeforeInvert
    <3>12. PolarityReported'  BY <2>0, <3>2 DEF PolarityReported, PolarityOf
    <3> QED  BY <3>2, <3>8, <3>9, <3>10, <3>11, <3>12 DEF PolarityInv
  <2>s. ASSUME UNCHANGED <<invert, close, bitmap, todo, layer>>,
               BatchPolarity', PolarityReported', CacheBeforeInvert',
               pc' = "layer" => maxSymbols' > 0
        PROVE  PolarityInv'
    <3>1. FlagsFollowLoops'  BY <2>0, <2>s DEF FlagsFollowLoops, InStep
    <3>2. ReadersSuited'  BY <2>0, <2>s DEF ReadersSuited
    <3> QED  BY <2>s, <3>1, <3>2 DEF PolarityInv
  <2>c. bitmap.cache = "unset" /\ pc \notin {"layer", "read"} => Inverting = {}
    BY <2>0 DEF CacheBeforeInvert
  <2>3. CASE EndRead
    <3>1. /\ pc = "read" /\ pc' = "merge" /\ (todo = {} \/ budget <= 0)
          /\ UNCHANGED <<invert, close, bitmap, todo, layer, batch, res>>
      BY <2>3 DEF EndRead, search
    <3>2. bitmap.cache = "unset" => Inverting = {}
      <4>1. ~(budget > 0 /\ budget <= 0)  BY DEF TypeOK
      <4> QED  BY <2>0, <3>1, <4>1, Zenon DEF CacheBeforeInvert
    <3>3. CacheBeforeInvert'  BY <3>1, <3>2 DEF CacheBeforeInvert
    <3>4. BatchPolarity'  BY <2>0, <3>1 DEF BatchPolarity, PolarityOf
    <3>5. PolarityReported'  BY <2>0, <3>1 DEF PolarityReported, PolarityOf
    <3> QED  BY <2>s, <3>1, <3>3, <3>4, <3>5
  <2>4. ASSUME NEW r \in batch \cup {Blank}, ReturnPure(r) PROVE PolarityInv'
    <3>1. /\ pc = "merge" /\ pc' = "done" /\ IsPure
          /\ UNCHANGED <<invert, close, bitmap, todo, layer, batch>>
          /\ res' = <<Result(r, FALSE)>>
      BY <2>4 DEF ReturnPure, search
    <3>2. bitmap.inverted = FALSE
      BY <2>0, <2>t, <3>1, Zenon DEF FlagsFollowLoops
    <3>3. PolarityOf(r, FALSE)
      <4>1. CASE r = Blank  BY <4>1 DEF PolarityOf, Blank
      <4>2. CASE r \in batch
        <5>1. PolarityOf(r, bitmap.inverted)
          BY <2>0, <3>1, <4>2, Zenon DEF BatchPolarity
        <5> QED  BY <3>2, <5>1, Zenon
      <4> QED  BY <4>1, <4>2
    <3>4. PolarityReported'
      <4>1. \A i \in DOMAIN res' : res'[i] = Result(r, FALSE)
        <5>1. \A x : \A i \in DOMAIN <<x>> : <<x>>[i] = x  OBVIOUS
        <5> QED  BY <3>1, <5>1
      <4>2. Result(r, FALSE).sym = r.sym /\ Result(r, FALSE).inverted = FALSE
        BY DEF Result
      <4> QED  BY <3>3, <4>1, <4>2 DEF PolarityReported, PolarityOf
    <3>5. CacheBeforeInvert'  BY <2>c, <3>1 DEF CacheBeforeInvert
    <3>6. BatchPolarity'  BY <3>1 DEF BatchPolarity
    <3> QED  BY <2>s, <3>1, <3>4, <3>5, <3>6
  <2>5. ASSUME NEW r \in batch, Merge(r) PROVE PolarityInv'
    <3>1. /\ pc = "merge" /\ pc' = "merge" /\ batch' = batch \ {r}
          /\ UNCHANGED <<invert, close, bitmap, todo, layer>>
          /\ res' = res \/ res' = Append(res, Result(r, bitmap.inverted))
      BY <2>5 DEF Merge, search
    <3>2. PolarityOf(r, bitmap.inverted)  BY <2>0, <3>1 DEF BatchPolarity
    <3>3. PolarityReported'
      <4> DEFINE x == Result(r, bitmap.inverted)
      <4>1. x.sym = r.sym /\ x.inverted = bitmap.inverted  BY DEF Result
      <4>2. x \in ResultType  BY DEF Result, ResultType, Barcode, Bitmaps, TypeOK
      <4> HIDE DEF x
      <4>3. \A i \in DOMAIN res' : res'[i] = x \/ (i \in DOMAIN res /\ res'[i] = res[i])
        <5>1. CASE res' = res  BY <5>1
        <5>2. CASE res' = Append(res, x)
          BY <4>2, <5>2, AppendProperties, LenProperties DEF TypeOK
        <5> QED  BY <3>1, <5>1, <5>2 DEF x
      <4> QED  BY <2>0, <3>2, <4>1, <4>3 DEF PolarityReported, PolarityOf
    <3>4. BatchPolarity'  BY <2>0, <3>1 DEF BatchPolarity, PolarityOf
    <3>5. CacheBeforeInvert'  BY <2>c, <3>1 DEF CacheBeforeInvert
    <3> QED  BY <2>s, <3>1, <3>3, <3>4, <3>5
  <2>e. ASSUME pc \notin {"layer", "read"}, pc' # "read", pc' # "merge",
               UNCHANGED <<invert, close, bitmap, todo, layer>>, PolarityReported',
               pc' = "layer" => maxSymbols' > 0
        PROVE  PolarityInv'
    <3>1. BatchPolarity'  BY <2>e DEF BatchPolarity
    <3>2. CacheBeforeInvert'  BY <2>c, <2>e DEF CacheBeforeInvert
    <3> QED  BY <2>e, <2>s, <3>1, <3>2
  <2>r. UNCHANGED res => PolarityReported'
    BY <2>0 DEF PolarityReported, PolarityOf
  <2>6. CASE ReturnFull
    BY <2>6, <2>e, <2>r DEF ReturnFull, Merged, search
  <2>7. CASE InvertPass
    <3>1. /\ Invert(bitmap) \in Bitmaps /\ InStep(Invert(bitmap))
          /\ Invert(bitmap).inverted = ~bitmap.inverted
          /\ Invert(bitmap).closed = bitmap.closed
          /\ Invert(bitmap).cache = bitmap.cache
      BY <2>t, BitmapInStep, BitmapOperations
    <3>2. /\ BeginRead(Invert(bitmap), FALSE, maxSymbols) /\ invert' = TRUE
          /\ invert = FALSE /\ close = FALSE /\ close' = close /\ pc = "merge"
          /\ ~IsPure /\ UNCHANGED res
      BY <2>7, <2>t DEF InvertPass, Merged
    <3>3. bitmap.inverted = FALSE /\ bitmap.closed = FALSE
      BY <2>0, <3>2 DEF FlagsFollowLoops
    <3>4. /\ pc' = "read" /\ FlagsFollowLoops' /\ ReadersSuited'
          /\ BatchPolarity' /\ PolarityReported'
      BY <2>b, <3>1, <3>2, <3>3
    <3>5. CacheBeforeInvert'
      BY <2>c, <3>1, <3>2 DEF CacheBeforeInvert, BeginRead
    <3> QED  BY <3>4, <3>5 DEF PolarityInv
  <2>8. CASE ClosePass
    <3> DEFINE um == IF bitmap.inverted THEN Invert(bitmap) ELSE bitmap
    <3>1. um \in Bitmaps /\ InStep(um) /\ um.inverted = FALSE /\ um.cache = bitmap.cache
      BY <2>t, BitmapInStep, BitmapOperations DEF Bitmaps
    <3>2. /\ BeginRead(Close(um), TRUE, maxSymbols) /\ invert' = FALSE
          /\ close' = TRUE /\ pc = "merge" /\ UNCHANGED res
      BY <2>8 DEF ClosePass, Merged
    <3> HIDE DEF um
    <3>3. /\ Close(um) \in Bitmaps /\ InStep(Close(um)) /\ Close(um).inverted = FALSE
          /\ Close(um).closed = TRUE /\ Close(um).cache = bitmap.cache
      BY <3>1, BitmapInStep, BitmapOperations DEF Bitmaps, Close
    <3>4. /\ pc' = "read" /\ FlagsFollowLoops' /\ ReadersSuited'
          /\ BatchPolarity' /\ PolarityReported'
      BY <2>b, <3>2, <3>3
    <3>5. CacheBeforeInvert'
      BY <2>c, <3>2, <3>3 DEF CacheBeforeInvert, BeginRead
    <3> QED  BY <3>4, <3>5 DEF PolarityInv
  <2>9. CASE LayerDone
    BY <2>9, <2>e, <2>r DEF LayerDone, Merged, search
  <2>10. CASE LayersDone
    <3>1. /\ pc = "layer" /\ layer = NumLayers /\ pc' \in {"filter", "done"}
          /\ UNCHANGED <<invert, close, bitmap, todo, layer, res>>
      BY <2>10 DEF LayersDone, search
    <3>2. layer # 0  BY <3>1, ScenesAssumption
    <3>3. bitmap.cache = "unset" => Inverting = {}
      BY <2>0, <3>1, <3>2 DEF CacheBeforeInvert
    <3>4. CacheBeforeInvert'  BY <3>1, <3>3 DEF CacheBeforeInvert
    <3>5. BatchPolarity'  BY <3>1 DEF BatchPolarity
    <3> QED  BY <2>r, <2>s, <3>1, <3>4, <3>5
  <2>11. CASE FilterPair
    <3> DEFINE x == Result(Blank, FALSE)
    <3>1. x \in ResultType /\ x.sym = None
      BY DEF Result, ResultType, Blank, Errors
    <3>2. \/ res' = res
          \/ \E v \in {a, b} : res' = [res EXCEPT ![v] = x]
      BY <2>11, Zenon DEF FilterPair
    <3> HIDE DEF x
    <3>3. \A i \in DOMAIN res' : res'[i] = x \/ (i \in DOMAIN res /\ res'[i] = res[i])
      <4>1. CASE res' = res  BY <4>1
      <4>2. CASE \E v \in {a, b} : res' = [res EXCEPT ![v] = x]
        BY <3>1, <4>2, ExceptType, LenProperties DEF TypeOK
      <4> QED  BY <3>2, <4>1, <4>2
    <3>4. PolarityReported'
      BY <2>0, <3>1, <3>3 DEF PolarityReported, PolarityOf
    <3>5. pc = "filter" /\ UNCHANGED <<pc, invert, close, bitmap, todo, layer>>
      BY <2>11 DEF FilterPair, search
    <3> QED  BY <2>e, <3>4, <3>5
  <2>12. CASE FilterNext
    BY <2>12, <2>e, <2>r DEF FilterNext, search
  <2>13. ASSUME NEW i \in DOMAIN res, Erase(i) PROVE PolarityInv'
    <3>1. \A j \in DOMAIN res' : \E n \in DOMAIN res : res'[j] = res[n]
      BY <2>13, WithoutType DEF Erase, TypeOK
    <3>2. PolarityReported'  BY <2>0, <3>1 DEF PolarityReported, PolarityOf
    <3>3. pc = "filter" /\ UNCHANGED <<pc, invert, close, bitmap, todo, layer>>
      BY <2>13 DEF Erase, search
    <3> QED  BY <2>e, <3>2, <3>3
  <2>14. CASE ReturnFiltered
    BY <2>14, <2>e, <2>r DEF ReturnFiltered, search
  <2>15. CASE UNCHANGED vars
    <3>1. UNCHANGED <<pc, invert, close, bitmap, todo, layer, batch, res, budget, maxSymbols>>
      BY <2>15 DEF vars, search
    <3>2. BatchPolarity'  BY <2>0, <3>1 DEF BatchPolarity, PolarityOf
    <3>3. CacheBeforeInvert'  BY <2>0, <3>1 DEF CacheBeforeInvert
    <3> QED  BY <2>0, <2>r, <2>s, <3>1, <3>2, <3>3
  <2> QED
    BY <2>1, <2>2, <2>3, <2>4, <2>5, <2>6, <2>7, <2>8, <2>9, <2>10, <2>11,
       <2>12, <2>13, <2>14, <2>15 DEF Next
<1>3. PolarityInv => PolarityReported /\ MatrixMatchesFlags
  BY DEF PolarityInv, FlagsFollowLoops, InStep, MatrixMatchesFlags
<1> QED  BY <1>1, <1>2, <1>3, TypeCorrect, PTL DEF Spec
-----------------------------------------------------------------------------
(* Where the search is: in which pass over which layer.                    *)
Searching == pc \in {"layer", "read", "merge"}
Current == IF close THEN "closed" ELSE IF invert THEN "inverted" ELSE "plain"

(* Where the loops are, and that the flags of the bitmap say so.           *)
LoopPosition ==
  /\ Current \in Passes /\ (close => ~invert)
  /\ pc \in {"read", "merge"} => layer \in Layers
  /\ IsPure => /\ ~close /\ ~invert
               /\ pc = "layer" => layer = 0
               /\ pc \in {"read", "merge"} => layer = 1
  /\ bitmap.inverted = invert /\ bitmap.closed = close
  /\ pc = "read" => todo \subseteq ReadersFor(bitmap, close)
  /\ Searching => a = 1 /\ b = 2

LEMMA FlagsOfBitmap ==
  ASSUME NEW bm \in Bitmaps, NEW ok
  PROVE  /\ ~NewBitmap.inverted /\ ~NewBitmap.closed
         /\ GetBitMatrix(bm, ok).inverted = bm.inverted
         /\ GetBitMatrix(bm, ok).closed = bm.closed
         /\ Invert(bm).inverted = ~bm.inverted /\ Invert(bm).closed = bm.closed
         /\ Close(bm).inverted = bm.inverted /\ Close(bm).closed = TRUE
BY DEF Bitmaps, NewBitmap, GetBitMatrix, Invert, Close

LEMMA LoopPositionKept == Spec => []LoopPosition
<1>1. Init => LoopPosition
  <2> SUFFICES ASSUME Init PROVE LoopPosition  OBVIOUS
  <2>1. /\ pc = "layer" /\ layer = 0 /\ ~close /\ ~invert /\ a = 1 /\ b = 2
        /\ bitmap.inverted = invert /\ bitmap.closed = close
    BY DEF Init, NewBitmap
  <2> QED  BY <2>1 DEF LoopPosition, Current, Passes, Searching
<1>2. TypeOK /\ LoopPosition /\ [Next]_vars => LoopPosition'
  <2> SUFFICES ASSUME TypeOK, LoopPosition, [Next]_vars PROVE LoopPosition'  OBVIOUS
  <2> USE OptionsFixed DEF LoopPosition, Current, Searching
  <2>p. Passes' = Passes
    BY DEF Passes, ClosedReader
  <2>r. \A bm, c : ReadersFor(bm, c)' = ReadersFor(bm, c)
    BY DEF ReadersFor, ClosedReader
  <2>t. bitmap \in Bitmaps /\ close \in BOOLEAN /\ invert \in BOOLEAN
    BY DEF TypeOK
  <2>1. CASE NextLayer
    <3>1. layer' \in Layers /\ (IsPure => layer' = 1)
      BY <2>1, ScenesAssumption DEF NextLayer, Layers, TypeOK
    <3>2. ~NewBitmap.inverted /\ ~NewBitmap.closed  BY <2>t, FlagsOfBitmap
    <3> QED  BY <2>1, <2>p, <3>1, <3>2 DEF NextLayer, BeginRead, Passes, NewBitmap
  <2>2. ASSUME NEW k \in ReaderKinds, AskReader(k) PROVE LoopPosition'
    <3>1. bitmap'.inverted = bitmap.inverted /\ bitmap'.closed = bitmap.closed
      BY <2>2, <2>t, FlagsOfBitmap DEF AskReader
    <3>2. ReadersFor(bitmap', close) = ReadersFor(bitmap, close)
      BY <3>1 DEF ReadersFor
    <3>3. /\ UNCHANGED <<pc, layer, close, invert, a, b>> /\ todo' \subseteq todo
          /\ pc = "read"
      BY <2>2 DEF AskReader
    <3> QED  BY <2>p, <3>1, <3>2, <3>3
  <2>3. CASE EndRead  BY <2>3, <2>p DEF EndRead, search
  <2>4. ASSUME NEW r \in batch \cup {Blank}, ReturnPure(r) PROVE LoopPosition'
    BY <2>4, <2>p DEF ReturnPure, search
  <2>5. ASSUME NEW r \in batch, Merge(r) PROVE LoopPosition'
    BY <2>5, <2>p DEF Merge, search
  <2>6. CASE ReturnFull  BY <2>6, <2>p DEF ReturnFull, Merged, search
  <2>7. CASE InvertPass
    <3>1. /\ Invert(bitmap).inverted = TRUE /\ Invert(bitmap).closed = FALSE
      BY <2>7, <2>t, FlagsOfBitmap DEF InvertPass, Merged
    <3>2. Current' \in Passes
      BY <2>7, <2>t DEF InvertPass, Passes
    <3>3. close' = FALSE /\ invert' = TRUE /\ pc = "merge"
      BY <2>7, <2>t DEF InvertPass, Merged
    <3>4. /\ pc' = "read" /\ bitmap' = Invert(bitmap)
          /\ todo' = ReadersFor(bitmap', FALSE)
          /\ UNCHANGED <<layer, a, b>>
      BY <2>7 DEF InvertPass, BeginRead
    <3>5. ~IsPure  BY <2>7 DEF InvertPass, Merged
    <3> QED  BY <2>p, <3>1, <3>2, <3>3, <3>4, <3>5
  <2>8. CASE ClosePass
    <3> DEFINE um == IF bitmap.inverted THEN Invert(bitmap) ELSE bitmap
    <3>1. um \in Bitmaps /\ um.inverted = FALSE
      BY <2>t, BitmapOperations, FlagsOfBitmap DEF Bitmaps
    <3> HIDE DEF um
    <3>2. Close(um).inverted = FALSE /\ Close(um).closed = TRUE
      BY <3>1, FlagsOfBitmap
    <3>3. Current' \in Passes
      BY <2>8 DEF ClosePass, Passes
    <3> QED  BY <2>8, <2>p, <3>2, <3>3 DEF ClosePass, Merged, BeginRead, um
  <2>9. CASE LayerDone  BY <2>9, <2>p DEF LayerDone, Merged, search
  <2>10. CASE LayersDone  BY <2>10, <2>p DEF LayersDone, search
  <2>11. CASE FilterPair  BY <2>11, <2>p DEF FilterPair, search
  <2>12. CASE FilterNext  BY <2>12, <2>p DEF FilterNext, search
  <2>13. ASSUME NEW i \in DOMAIN res, Erase(i) PROVE LoopPosition'
    BY <2>13, <2>p DEF Erase, search
  <2>14. CASE ReturnFiltered  BY <2>14, <2>p DEF ReturnFiltered, search
  <2>15. CASE UNCHANGED vars  BY <2>15, <2>p, <2>r DEF vars, search
  <2> QED
    BY <2>1, <2>2, <2>3, <2>4, <2>5, <2>6, <2>7, <2>8, <2>9, <2>10, <2>11,
       <2>12, <2>13, <2>14, <2>15 DEF Next
<1> QED  BY <1>1, <1>2, TypeCorrect, PTL DEF Spec

-----------------------------------------------------------------------------
(* Without a limit the search never runs out of budget: what it reports    *)
(* differs in symbol or error, and so does what one read() collects.       *)
NoLimit == ~IsPure /\ MaxNumberOfSymbols = 0
SeenIn(list) == {[sym |-> list[i].sym, err |-> list[i].err] : i \in DOMAIN list}

BudgetLasts ==
  NoLimit =>
    /\ Searching => /\ maxSymbols = INT_MAX - Len(res)
                    /\ Len(res) = Cardinality(SeenIn(res))
    /\ pc = "read" => /\ budget = maxSymbols - Cardinality(batch)
                      /\ \A r \in batch : Kind[r.sym] \notin todo
    /\ pc \in {"read", "merge"} => \A r \in batch : r.sym \in Symbols

LEMMA SeenInType ==
  ASSUME NEW s \in Seq(ResultType)
  PROVE  /\ SeenIn(s) \in SUBSET Barcode
         /\ \A x \in ResultType :
              SeenIn(Append(s, x)) = SeenIn(s) \cup {[sym |-> x.sym, err |-> x.err]}
<1>1. SeenIn(s) \in SUBSET Barcode
  <2>1. \A i \in DOMAIN s : s[i] \in ResultType  BY ElementOfSeq, LenProperties
  <2> QED  BY <2>1 DEF SeenIn, ResultType, Barcode
<1>2. ASSUME NEW x \in ResultType
      PROVE SeenIn(Append(s, x)) = SeenIn(s) \cup {[sym |-> x.sym, err |-> x.err]}
  <2>1. /\ Len(s) \in Nat /\ DOMAIN s = 1 .. Len(s)
        /\ DOMAIN Append(s, x) = 1 .. Len(s) + 1
        /\ \A i \in 1 .. Len(s) : Append(s, x)[i] = s[i]
        /\ Append(s, x)[Len(s) + 1] = x
    BY AppendProperties, LenProperties
  <2>2. DOMAIN Append(s, x) = (DOMAIN s) \cup {Len(s) + 1}  BY <2>1
  <2> QED  BY <2>1, <2>2 DEF SeenIn
<1> QED  BY <1>1, <1>2

LEMMA BudgetIsEnough ==
  ASSUME INT_MAX > 3 * Cardinality(Barcode), TypeOK, BudgetLasts, NoLimit
  PROVE  /\ Searching => maxSymbols > 2 * Cardinality(Barcode)
         /\ pc = "read" => budget > Cardinality(Barcode)
<1>1. Cardinality(Barcode) \in Nat  BY BarcodesFinite, FS_CardinalityType
<1>2. SeenIn(res) \in SUBSET Barcode  BY SeenInType DEF TypeOK
<1>3. Cardinality(SeenIn(res)) <= Cardinality(Barcode)
  BY <1>2, BarcodesFinite, FS_Subset
<1>4. Cardinality(batch) <= Cardinality(Barcode) /\ Cardinality(batch) \in Nat
  BY BarcodesFinite, FS_Subset, BatchFinite DEF TypeOK
<1>5. Len(res) \in Nat  BY LenProperties DEF TypeOK
<1> QED  BY <1>1, <1>3, <1>4, <1>5, OptionsAssumption DEF BudgetLasts, Searching

LEMMA BudgetLastsKept ==
  ASSUME INT_MAX > 3 * Cardinality(Barcode)
  PROVE  Spec => []BudgetLasts
<1>1. Init => BudgetLasts
  <2> SUFFICES ASSUME Init, NoLimit PROVE BudgetLasts  BY DEF BudgetLasts
  <2>1. maxSymbols = INT_MAX /\ res = <<>> /\ pc = "layer"
    BY DEF Init, NoLimit
  <2>2. SeenIn(<<>>) = {}  BY DEF SeenIn
  <2>3. Len(res) = 0 /\ Cardinality(SeenIn(res)) = 0
    BY <2>1, <2>2, EmptySeq, FS_EmptySet
  <2>4. maxSymbols = INT_MAX - Len(res)  BY <2>1, <2>3, OptionsAssumption
  <2> QED  BY <2>1, <2>3, <2>4 DEF BudgetLasts
<1>2. TypeOK /\ BudgetLasts /\ [Next]_vars => BudgetLasts'
  <2> SUFFICES ASSUME TypeOK, BudgetLasts, [Next]_vars, NoLimit PROVE BudgetLasts'
    BY OptionsFixed DEF BudgetLasts, NoLimit
  <2> USE DEF Searching
  <2>n. NoLimit' /\ ~IsPure  BY OptionsFixed DEF NoLimit
  <2>e. Searching => maxSymbols > 0 /\ (pc = "read" => budget > 0)
    BY BudgetIsEnough, BarcodesFinite, FS_CardinalityType DEF TypeOK
  <2>t. Cardinality(batch) \in Nat /\ Len(res) \in Nat /\ maxSymbols \in Int /\ budget \in Int
    BY BatchFinite, LenProperties DEF TypeOK
  <2>b. ASSUME NEW bm, NEW closing, BeginRead(bm, closing, maxSymbols),
               pc \in {"layer", "merge"}, UNCHANGED <<maxSymbols, res>>
        PROVE  BudgetLasts'
    <3>1. Cardinality({}) = 0  BY FS_EmptySet
    <3> QED  BY <2>b, <2>t, <3>1 DEF BeginRead, BudgetLasts
  <2>d. ASSUME ~Searching' PROVE BudgetLasts'  BY <2>d DEF BudgetLasts
  <2>1. CASE NextLayer
    BY <2>1, <2>b, <2>n DEF NextLayer
  <2>2. ASSUME NEW k \in ReaderKinds, AskReader(k) PROVE BudgetLasts'
    <3> DEFINE bm == IF k = "linear" THEN bitmap
                     ELSE GetBitMatrix(bitmap, scene.contrast[layer])
    <3>1. bm \in Bitmaps
      BY BitmapOperations DEF GetBitMatrix, Bitmaps, CacheStates, TypeOK
    <3>2. PICK r \in ReaderResults(k, bm) :
            batch' = batch \cup r /\ budget' = budget - Cardinality(r)
      BY <2>2, <2>n DEF AskReader
    <3> HIDE DEF bm
    <3>3. /\ pc = "read" /\ pc' = "read" /\ budget > 0 /\ k \in todo
          /\ todo' = todo \ {k} /\ maxSymbols' = maxSymbols /\ res' = res
      BY <2>2 DEF AskReader
    <3>4. r \in SUBSET Barcode /\ r \in SUBSET Visible(k, bm)
      BY <3>1, <3>2, <3>3, ReaderReturns
    <3>5. \A q \in r : q.sym \in Symbols /\ Kind[q.sym] = k
      BY <3>4 DEF Visible
    <3>6. batch \cap r = {}  BY <3>3, <3>5 DEF BudgetLasts
    <3>7. Cardinality(batch') = Cardinality(batch) + Cardinality(r)
      <4>1. IsFiniteSet(batch) /\ IsFiniteSet(r)  BY <3>4, BatchFinite DEF TypeOK
      <4>2. Cardinality(r) \in Nat /\ Cardinality({}) = 0
        BY <3>4, BatchFinite, FS_EmptySet
      <4>3. Cardinality(batch \cup r)
              = Cardinality(batch) + Cardinality(r) - Cardinality(batch \cap r)
        BY <4>1, FS_Union
      <4>4. Cardinality(batch \cap r) = 0  BY <3>6, <4>2
      <4>5. Cardinality(batch \cup r) = Cardinality(batch) + Cardinality(r)
        BY <2>t, <4>2, <4>3, <4>4
      <4> QED  BY <3>2, <4>5
    <3>8. Cardinality(r) \in Nat  BY <3>4, BatchFinite
    <3>9. budget' = maxSymbols' - Cardinality(batch')
      BY <2>t, <3>2, <3>3, <3>7, <3>8 DEF BudgetLasts
    <3>10. \A q \in batch' : q.sym \in Symbols /\ Kind[q.sym] \notin todo'
      BY <3>2, <3>3, <3>5 DEF BudgetLasts
    <3> QED  BY <3>3, <3>9, <3>10 DEF BudgetLasts
  <2>3. CASE EndRead  BY <2>3 DEF EndRead, search, BudgetLasts
  <2>4. ASSUME NEW r \in batch \cup {Blank}, ReturnPure(r) PROVE BudgetLasts'
    BY <2>4, <2>n DEF ReturnPure
  <2>5. ASSUME NEW r \in batch, Merge(r) PROVE BudgetLasts'
    <3> DEFINE x == Result(r, bitmap.inverted)
    <3>1. x \in ResultType /\ [sym |-> x.sym, err |-> x.err] = r
      BY DEF Result, ResultType, Barcode, Bitmaps, TypeOK
    <3> HIDE DEF x
    <3>2. /\ pc = "merge" /\ pc' = "merge" /\ batch' \subseteq batch
          /\ IF Contains(res, r) THEN UNCHANGED <<res, maxSymbols>>
             ELSE res' = Append(res, x) /\ maxSymbols' = maxSymbols - 1
      BY <2>5 DEF Merge, x
    <3>3. CASE Contains(res, r)  BY <3>2, <3>3 DEF BudgetLasts
    <3>4. CASE ~Contains(res, r)
      <4>1. r \notin SeenIn(res)  BY <3>4 DEF SeenIn, Contains, Same
      <4>2. SeenIn(res') = SeenIn(res) \cup {r}
        BY <3>1, <3>2, <3>4, SeenInType DEF TypeOK
      <4>3. IsFiniteSet(SeenIn(res)) /\ Cardinality(SeenIn(res)) \in Nat
        BY SeenInType, BatchFinite DEF TypeOK
      <4>4. Cardinality(SeenIn(res')) = Cardinality(SeenIn(res)) + 1
        BY <4>1, <4>2, <4>3, FS_AddElement
      <4>5. Len(res') = Len(res) + 1
        BY <3>1, <3>2, <3>4, AppendProperties DEF TypeOK
      <4> QED
        BY <2>t, <3>2, <3>4, <4>4, <4>5, OptionsAssumption DEF BudgetLasts
    <3> QED  BY <3>3, <3>4
  <2>6. CASE ReturnFull  BY <2>6, <2>d DEF ReturnFull
  <2>7. CASE InvertPass  BY <2>7, <2>b DEF InvertPass, Merged
  <2>8. CASE ClosePass  BY <2>8, <2>b DEF ClosePass, Merged
  <2>9. CASE LayerDone  BY <2>9 DEF LayerDone, Merged, search, BudgetLasts
  <2>10. CASE LayersDone  BY <2>10, <2>d DEF LayersDone
  <2>11. CASE FilterPair  BY <2>11, <2>d DEF FilterPair
  <2>12. CASE FilterNext  BY <2>12, <2>d DEF FilterNext
  <2>13. ASSUME NEW i \in DOMAIN res, Erase(i) PROVE BudgetLasts'
    BY <2>13, <2>d DEF Erase
  <2>14. CASE ReturnFiltered  BY <2>14, <2>d DEF ReturnFiltered
  <2>15. CASE UNCHANGED vars  BY <2>15 DEF vars, search, BudgetLasts
  <2> QED
    BY <2>1, <2>2, <2>3, <2>4, <2>5, <2>6, <2>7, <2>8, <2>9, <2>10, <2>11,
       <2>12, <2>13, <2>14, <2>15 DEF Next
<1> QED  BY <1>1, <1>2, TypeCorrect, PTL DEF Spec

-----------------------------------------------------------------------------
(* The matrix the readers are shown, with no limit or for a pure image: it *)
(* is there from the first reader on that looks at it, it is the one the   *)
(* flags claim, and it is missing only where the layer has no contrast.    *)
Matrices == Enabled \ {"linear"}

CacheCurrent ==
  NoLimit \/ IsPure =>
    /\ InStep(bitmap)
    /\ pc \in {"read", "merge"} /\ bitmap.cache # "unset" =>
         (bitmap.cache = "bits" <=> scene.contrast[layer])
    /\ pc \in {"read", "merge"} /\ bitmap.cache = "unset" =>
         \/ Matrices = {}
         \/ /\ ~invert /\ ~close
            /\ IsPure \/ (pc = "read" /\ Matrices \subseteq todo)

(* Asking for the matrix: what a reader finds in its hands.                *)
LEMMA MatrixShown ==
  ASSUME TypeOK, LoopPosition, CacheCurrent, NoLimit \/ IsPure, pc = "read",
         NEW k \in todo, k # "linear"
  PROVE  LET bm == GetBitMatrix(bitmap, scene.contrast[layer]) IN
           /\ bm \in Bitmaps /\ InStep(bm) /\ bm.cache # "unset"
           /\ bm.inverted = invert /\ bm.closed = close
           /\ bm.cache = "bits" <=> scene.contrast[layer]
<1> DEFINE ok == scene.contrast[layer]
           bm == GetBitMatrix(bitmap, ok)
<1>1. layer \in Layers /\ ok \in BOOLEAN
  BY DEF LoopPosition, TypeOK, SceneType
<1>2. bitmap \in Bitmaps /\ InStep(bitmap) /\ bitmap.inverted = invert /\ bitmap.closed = close
  BY DEF TypeOK, LoopPosition, CacheCurrent
<1>3. k \in Matrices
  BY DEF Matrices, LoopPosition, ReadersFor, ClosedReader
<1>4. bitmap.cache = "unset" => ~bitmap.inverted /\ ~bitmap.closed
  BY <1>2, <1>3 DEF CacheCurrent
<1> HIDE DEF ok
<1>5. bm \in Bitmaps  BY <1>1, <1>2, BitmapOperations
<1>6. /\ InStep(bm) /\ bm.cache # "unset"
      /\ bm.inverted = bitmap.inverted /\ bm.closed = bitmap.closed
  BY <1>1, <1>2, <1>4, GetBitMatrixInStep
<1>7. bm.cache = "bits" <=> ok
  <2>1. CASE bitmap.cache = "unset"
    BY <1>1, <1>2, <2>1 DEF GetBitMatrix, Bitmaps
  <2>2. CASE bitmap.cache # "unset"
    BY <2>2 DEF GetBitMatrix, CacheCurrent, ok
  <2> QED  BY <2>1, <2>2
<1> QED  BY <1>2, <1>5, <1>6, <1>7 DEF ok

LEMMA CacheCurrentKept ==
  ASSUME INT_MAX > 3 * Cardinality(Barcode)
  PROVE  Spec => []CacheCurrent
<1>1. Init => CacheCurrent
  BY DEF Init, CacheCurrent, InStep, NewBitmap
<1>2. TypeOK /\ BudgetLasts /\ LoopPosition /\ CacheCurrent /\ [Next]_vars => CacheCurrent'
  <2> SUFFICES ASSUME TypeOK, BudgetLasts, LoopPosition, CacheCurrent, [Next]_vars,
                      NoLimit \/ IsPure
               PROVE  CacheCurrent'
    BY OptionsFixed DEF CacheCurrent, NoLimit
  <2>t. /\ bitmap \in Bitmaps /\ InStep(bitmap) /\ close \in BOOLEAN /\ invert \in BOOLEAN
    BY DEF TypeOK, CacheCurrent
  <2>e. NoLimit /\ pc = "read" => budget > 0
    BY BudgetIsEnough, BarcodesFinite, FS_CardinalityType DEF TypeOK
  <2>u. pc = "merge" /\ ~IsPure /\ bitmap.cache = "unset" => Matrices = {}
    BY DEF CacheCurrent
  <2>s. ASSUME UNCHANGED <<bitmap, todo, layer, close, invert>>,
               \/ pc' = pc
               \/ pc' \notin {"read", "merge"}
               \/ pc = "read" /\ pc' = "merge" /\ IsPure
        PROVE  CacheCurrent'
    <3>1. scene' = scene /\ (IsPure' <=> IsPure)  BY OptionsFixed
    <3>2. InStep(bitmap')  BY <2>s, <2>t
    <3>3. CASE pc' = pc  BY <2>s, <3>1, <3>2, <3>3 DEF CacheCurrent, InStep
    <3>4. CASE pc' \notin {"read", "merge"}  BY <3>2, <3>4 DEF CacheCurrent, InStep
    <3>5. CASE pc = "read" /\ pc' = "merge" /\ IsPure
      BY <2>s, <3>1, <3>2, <3>5 DEF CacheCurrent, InStep
    <3> QED  BY <2>s, <3>3, <3>4, <3>5
  <2>1. CASE NextLayer
    <3>1. /\ bitmap' = NewBitmap /\ close' = FALSE /\ invert' = FALSE
          /\ todo' = ReadersFor(NewBitmap, FALSE) /\ pc' = "read"
      BY <2>1 DEF NextLayer, BeginRead
    <3>2. /\ InStep(NewBitmap) /\ NewBitmap.cache = "unset" /\ ~NewBitmap.inverted
          /\ NewBitmap \in Bitmaps
      BY <2>t, BitmapInStep, BitmapOperations
    <3>3. todo' = Enabled  BY <3>1, <3>2, ReadersAsked
    <3>4. Matrices \subseteq todo'  BY <3>3 DEF Matrices
    <3> QED  BY <3>1, <3>2, <3>4 DEF CacheCurrent, InStep
  <2>2. ASSUME NEW k \in ReaderKinds, AskReader(k) PROVE CacheCurrent'
    <3>1. /\ pc = "read" /\ pc' = "read" /\ k \in todo /\ todo' = todo \ {k}
          /\ UNCHANGED <<layer, close, invert, scene>>
          /\ bitmap' = IF k = "linear" THEN bitmap
                       ELSE GetBitMatrix(bitmap, scene.contrast[layer])
      BY <2>2 DEF AskReader
    <3>2. CASE k = "linear"
      <4>1. Matrices \subseteq todo => Matrices \subseteq todo'
        BY <3>1, <3>2 DEF Matrices
      <4>2. bitmap' = bitmap /\ (IsPure' <=> IsPure)
        BY <3>1, <3>2, OptionsFixed
      <4> QED  BY <2>t, <3>1, <4>1, <4>2 DEF CacheCurrent, InStep
    <3>3. CASE k # "linear"
      <4>1. /\ InStep(bitmap') /\ bitmap'.cache # "unset"
            /\ bitmap'.cache = "bits" <=> scene.contrast[layer]
        BY <3>1, <3>3, MatrixShown
      <4> QED  BY <3>1, <4>1 DEF CacheCurrent, InStep
    <3> QED  BY <3>2, <3>3
  <2>3. CASE EndRead
    <3>1. /\ pc = "read" /\ pc' = "merge" /\ (todo = {} \/ budget <= 0)
          /\ UNCHANGED <<bitmap, todo, layer, close, invert, scene>>
      BY <2>3 DEF EndRead, search
    <3>2. CASE IsPure  BY <2>s, <3>1, <3>2
    <3>3. CASE ~IsPure
      <4>1. todo = {}  BY <2>e, <3>1, <3>3 DEF TypeOK
      <4>2. bitmap.cache = "unset" => Matrices = {}
        BY <3>1, <3>3, <4>1 DEF CacheCurrent
      <4> QED  BY <2>t, <3>1, <4>2 DEF CacheCurrent, InStep
    <3> QED  BY <3>2, <3>3
  <2>4. ASSUME NEW r \in batch \cup {Blank}, ReturnPure(r) PROVE CacheCurrent'
    BY <2>4, <2>s DEF ReturnPure, search
  <2>5. ASSUME NEW r \in batch, Merge(r) PROVE CacheCurrent'
    BY <2>5, <2>s DEF Merge, search
  <2>6. CASE ReturnFull  BY <2>6, <2>s DEF ReturnFull, search
  <2>7. CASE InvertPass
    <3>1. /\ InStep(Invert(bitmap)) /\ Invert(bitmap).cache = bitmap.cache
      BY <2>t, BitmapInStep
    <3>2. /\ bitmap' = Invert(bitmap) /\ UNCHANGED <<layer, scene>>
          /\ pc = "merge" /\ ~IsPure
      BY <2>7 DEF InvertPass, BeginRead, Merged
    <3> QED  BY <2>u, <3>1, <3>2 DEF CacheCurrent, InStep
  <2>8. CASE ClosePass
    <3> DEFINE um == IF bitmap.inverted THEN Invert(bitmap) ELSE bitmap
    <3>1. um \in Bitmaps /\ InStep(um) /\ um.cache = bitmap.cache
      BY <2>t, BitmapInStep, BitmapOperations
    <3>2. /\ bitmap' = Close(um) /\ UNCHANGED <<layer, scene>>
          /\ pc = "merge" /\ ~IsPure
      BY <2>8 DEF ClosePass, BeginRead, Merged
    <3> HIDE DEF um
    <3>3. InStep(Close(um)) /\ Close(um).cache = bitmap.cache
      BY <3>1, BitmapInStep
    <3> QED  BY <2>u, <3>2, <3>3 DEF CacheCurrent, InStep
  <2>9. CASE LayerDone  BY <2>9, <2>s DEF LayerDone, search
  <2>10. CASE LayersDone  BY <2>10, <2>s DEF LayersDone, search
  <2>11. CASE FilterPair  BY <2>11, <2>s DEF FilterPair, search
  <2>12. CASE FilterNext  BY <2>12, <2>s DEF FilterNext, search
  <2>13. ASSUME NEW i \in DOMAIN res, Erase(i) PROVE CacheCurrent'
    BY <2>13, <2>s DEF Erase, search
  <2>14. CASE ReturnFiltered  BY <2>14, <2>s DEF ReturnFiltered, search
  <2>15. CASE UNCHANGED vars  BY <2>15, <2>s DEF vars, search
  <2> QED
    BY <2>1, <2>2, <2>3, <2>4, <2>5, <2>6, <2>7, <2>8, <2>9, <2>10, <2>11,
       <2>12, <2>13, <2>14, <2>15 DEF Next
<1> QED
  BY <1>1, <1>2, TypeCorrect, BudgetLastsKept, LoopPositionKept, PTL DEF Spec

-----------------------------------------------------------------------------
(* What a reader is shown in a pass is what the pass shows of the symbols  *)
(* it can read.                                                            *)
BitmapFor(k) == IF k = "linear" THEN bitmap ELSE GetBitMatrix(bitmap, scene.contrast[layer])
Reading(s, e) == [sym |-> s, err |-> e]

LEMMA VisibleIsShown ==
  ASSUME TypeOK, LoopPosition, CacheCurrent, NoLimit \/ IsPure, pc = "read",
         NEW k \in todo, NEW s \in Symbols, NEW e \in Errors
  PROVE  Reading(s, e) \in Visible(k, BitmapFor(k))
           <=> Kind[s] = k /\ Shows(s, e, layer, Current)
<1> DEFINE bm == BitmapFor(k)
           flipped  == k # "linear" /\ bm.flipped
           filtered == k # "linear" /\ bm.filtered
<1>1. Reading(s, e) \in Visible(k, bm) <=>
        /\ Kind[s] = k
        /\ (s \in ReverseReflectance) = flipped
        /\ scene.sees[s][<<layer, filtered>>] = e
        /\ k = "linear" \/ bm.cache = "bits"
  BY Zenon DEF Visible, Reading
<1>2. k \in IF close THEN ClosedReader ELSE Enabled
  BY DEF LoopPosition, ReadersFor
<1>3. invert => k \in SupportsInversion
  BY DEF LoopPosition, ReadersFor
<1>t. close \in BOOLEAN /\ invert \in BOOLEAN /\ bitmap \in Bitmaps  BY DEF TypeOK
<1>4. CASE k = "linear"
  <2>1. ~close /\ ~invert
    BY <1>2, <1>3, <1>4 DEF ClosedReader, BenefitFromClosing, SupportsInversion
  <2>2. Current = "plain" /\ Enabled = IF Current = "closed" THEN ClosedReader ELSE Enabled
    BY <2>1 DEF Current
  <2>3. flipped = FALSE /\ filtered = FALSE  BY <1>4
  <2>4. ("plain" = "closed") = FALSE  OBVIOUS
  <2>5. Shows(s, e, layer, "plain") <=>
          /\ Kind[s] \in Enabled
          /\ Kind[s] = "linear" \/ scene.contrast[layer]
          /\ s \notin ReverseReflectance
          /\ scene.sees[s][<<layer, FALSE>>] = e
    BY <2>4 DEF Shows
  <2>6. Reading(s, e) \in Visible(k, bm) <=>
          Kind[s] = k /\ s \notin ReverseReflectance /\ scene.sees[s][<<layer, FALSE>>] = e
    <3>2. (s \in ReverseReflectance) = flipped <=> s \notin ReverseReflectance
      BY <1>4
    <3> HIDE DEF flipped, filtered
    <3>1. <<layer, filtered>> = <<layer, FALSE>>  BY <2>3
    <3> QED  BY <1>1, <1>4, <3>1, <3>2
  <2> QED  BY <1>2, <1>4, <2>1, <2>2, <2>5, <2>6
<1>5. CASE k # "linear"
  <2>1. /\ bm \in Bitmaps /\ InStep(bm)
        /\ bm.inverted = invert /\ bm.closed = close
        /\ bm.cache = "bits" <=> scene.contrast[layer]
    BY <1>5, MatrixShown DEF BitmapFor
  <2> HIDE DEF bm
  <2>2. bm.cache = "bits" => flipped = invert /\ filtered = close
    BY <1>5, <1>t, <2>1 DEF InStep, Bitmaps
  <2>3. /\ (Current = "closed") = close /\ (Current = "inverted") = invert
    BY <1>t DEF Current, LoopPosition
  <2>4. Kind[s] = k => (Shows(s, e, layer, Current) <=>
          /\ scene.contrast[layer]
          /\ (s \in ReverseReflectance) = invert
          /\ scene.sees[s][<<layer, close>>] = e)
    <3>1. <<layer, Current = "closed">> = <<layer, close>>  BY <2>3, Zenon
    <3>2. /\ (s \in ReverseReflectance) = invert
             <=> (s \in ReverseReflectance <=> Current = "inverted")
          /\ Current = "closed" <=> close
          /\ Current = "inverted" <=> invert
      BY <2>3, <1>t
    <3>3. Shows(s, e, layer, Current) <=>
            /\ Kind[s] \in IF close THEN ClosedReader ELSE Enabled
            /\ invert => Kind[s] \in SupportsInversion
            /\ Kind[s] = "linear" \/ scene.contrast[layer]
            /\ (s \in ReverseReflectance) = invert
            /\ scene.sees[s][<<layer, close>>] = e
      BY <3>1, <3>2, Zenon DEF Shows
    <3> QED  BY <1>2, <1>3, <1>5, <3>3
  <2>5. Reading(s, e) \in Visible(k, bm) <=>
          /\ Kind[s] = k
          /\ bm.cache = "bits"
          /\ (s \in ReverseReflectance) = invert
          /\ scene.sees[s][<<layer, close>>] = e
    BY <1>1, <1>5, <2>2 DEF bm
  <2>6. bm.cache = "bits" <=> scene.contrast[layer]  BY <2>1
  <2> QED  BY <2>4, <2>5, <2>6, Zenon DEF bm
<1> QED  BY <1>4, <1>5

(* With the budget left, a reader returns every symbol it makes out, but   *)
(* for the second of two MaxiCodes.                                        *)
OnlyMaxiCode(s) == Kind[s] = "maxicode" => \A t \in Symbols \ {s} : Kind[t] # "maxicode"

LEMMA ReaderFindsAll ==
  ASSUME TypeOK, budget > Cardinality(Barcode),
         NEW k \in ReaderKinds, NEW bm \in Bitmaps, NEW r \in ReaderResults(k, bm),
         NEW s \in Symbols, OnlyMaxiCode(s), Reading(s, "None") \in Visible(k, bm)
  PROVE  Reading(s, "None") \in r
<1> DEFINE vs == Visible(k, bm)
           rs == Accepted(k, vs)
           g == Reading(s, "None")
<1>1. vs \in SUBSET Barcode /\ rs \in SUBSET vs
  BY DEF Accepted, Visible, Barcode
<1>2. g \in rs  BY DEF Accepted, Reading
<1>t. /\ budget \in Int /\ Cardinality(Barcode) \in Nat
      /\ Cardinality(vs) \in Nat /\ Cardinality(vs) <= Cardinality(Barcode)
      /\ Cardinality(rs) \in Nat /\ Cardinality(rs) <= Cardinality(Barcode)
  BY <1>1, BarcodesFinite, FS_Subset, FS_CardinalityType, BatchFinite DEF TypeOK
<1>3. ASSUME NEW n, NEW S \in SUBSET Barcode, Cardinality(S) <= n, NEW x \in AtMost(n, S)
      PROVE  x = S
  <2>1. x \in SUBSET S /\ Cardinality(x) = Cardinality(S)  BY <1>3 DEF AtMost
  <2>2. IsFiniteSet(S)  BY BatchFinite
  <2> QED  BY <2>1, <2>2, FS_Subset
<1>4. CASE k = "aztec"
  <2>1. Limit(k) = budget  BY <1>4 DEF Limit
  <2>2. PICK x \in AtMost(Limit(k), vs) : r = Accepted(k, x)
    BY <1>4 DEF ReaderResults
  <2> HIDE DEF vs
  <2>3. x = vs  BY <1>1, <1>t, <1>3, <2>1, <2>2
  <2> QED  BY <1>2, <2>2, <2>3
<1>5. CASE k # "aztec"
  <2>1. r \in AtMost(Limit(k), rs)  BY <1>5 DEF ReaderResults
  <2>2. Cardinality(rs) <= Limit(k)
    <3>1. CASE k = "maxicode"
      <4>1. Kind[s] = "maxicode"  BY <3>1 DEF Visible, Reading
      <4>2. \A q \in rs : q.sym = s /\ q.err = "None"
        BY <3>1, <4>1 DEF OnlyMaxiCode, Accepted, Visible
      <4>3. rs \subseteq {g}  BY <1>1, <4>2 DEF Reading, Barcode
      <4>4. IsFiniteSet({g}) /\ Cardinality({g}) = 1  BY FS_Singleton
      <4>5. Cardinality(rs) <= 1  BY <4>3, <4>4, FS_Subset
      <4> QED  BY <3>1, <4>5 DEF Limit
    <3>2. CASE k = "pdf417"
      <4> DEFINE f == [q \in rs |-> q.sym]
      <4>1. \A q \in rs : q \in Barcode /\ q.sym \in Symbols
        BY <1>1 DEF Accepted, Visible
      <4>2. \A q, p \in rs : q.sym = p.sym => q = p
        BY <1>1 DEF Accepted, Visible, Barcode
      <4> HIDE DEF rs
      <4>a. f \in [rs -> Symbols]  BY <4>1
      <4>b. \A q, p \in rs : f[q] = f[p] => q = p  BY <4>2
      <4>3. f \in Injection(rs, Symbols)
        BY <4>a, <4>b DEF Injection, IsInjective
      <4>4. Cardinality(rs) <= Cardinality(Symbols)
        BY <4>3, FS_Injection, SymbolsAssumption
      <4> QED  BY <3>2, <4>4 DEF Limit
    <3>3. CASE k \notin {"maxicode", "pdf417"}
      <4>1. Limit(k) = budget  BY <3>3 DEF Limit
      <4> QED  BY <1>t, <4>1
    <3> QED  BY <3>1, <3>2, <3>3
  <2> HIDE DEF rs
  <2>3. r = rs  BY <1>1, <1>3, <2>1, <2>2
  <2> QED  BY <1>2, <2>3
<1> QED  BY <1>4, <1>5

-----------------------------------------------------------------------------
(* Without a limit, whatever is collected or reported was shown so by some *)
(* pass, and in error only if the caller wants errors.                     *)
ShownReading(r) == Shown(r.sym, r.err) /\ (r.err # "None" => ReturnErrors)

ReadingsShown ==
  NoLimit =>
    /\ pc \in {"read", "merge"} => \A r \in batch : ShownReading(r)
    /\ Searching => \A i \in DOMAIN res : ShownReading(res[i])

LEMMA AcceptedShown ==
  ASSUME TypeOK, LoopPosition, CacheCurrent, NoLimit \/ IsPure, pc = "read",
         NEW k \in todo, NEW r \in Visible(k, BitmapFor(k)),
         r.err = "None" \/ ReturnErrors
  PROVE  ShownReading(r) /\ Shows(r.sym, r.err, layer, Current) /\ Kind[r.sym] = k
<1>1. r.sym \in Symbols /\ r.err \in Errors /\ r = Reading(r.sym, r.err)
  BY DEF Visible, Reading
<1>2. Kind[r.sym] = k /\ Shows(r.sym, r.err, layer, Current)
  BY <1>1, VisibleIsShown
<1>3. layer \in Layers /\ Current \in Passes  BY DEF LoopPosition
<1> QED  BY <1>2, <1>3 DEF ShownReading, Shown

LEMMA ReadingsShownKept ==
  ASSUME INT_MAX > 3 * Cardinality(Barcode)
  PROVE  Spec => []ReadingsShown
<1>1. Init => ReadingsShown
  <2> SUFFICES ASSUME Init PROVE ReadingsShown  OBVIOUS
  <2>1. pc = "layer" /\ DOMAIN res = {}  BY EmptySeq, LenProperties DEF Init
  <2> QED  BY <2>1 DEF ReadingsShown
<1>2. TypeOK /\ LoopPosition /\ CacheCurrent /\ ReadingsShown /\ [Next]_vars => ReadingsShown'
  <2> SUFFICES ASSUME TypeOK, LoopPosition, CacheCurrent, ReadingsShown, [Next]_vars, NoLimit
               PROVE  ReadingsShown'
    BY OptionsFixed DEF ReadingsShown, NoLimit
  <2> USE DEF Searching
  <2>n. ~IsPure  BY DEF NoLimit
  <2>o. \A r : ShownReading(r)' <=> ShownReading(r)
    <3>1. \A s, e, l, p : Shows(s, e, l, p)' <=> Shows(s, e, l, p)
      BY OptionsFixed DEF Shows, ClosedReader
    <3> QED  BY <3>1, OptionsFixed DEF ShownReading, Shown, Passes, ClosedReader
  <2>s. ASSUME res' = res, \/ pc' = "layer" /\ Searching
                           \/ pc' \in {"read", "merge"} /\ Searching /\ batch' = {}
                           \/ pc' = "merge" /\ pc = "read" /\ batch' = batch
                           \/ pc' = pc /\ batch' = batch
        PROVE  ReadingsShown'
    BY <2>s, <2>o DEF ReadingsShown
  <2>d. ASSUME ~Searching' PROVE ReadingsShown'  BY <2>d DEF ReadingsShown
  <2>1. CASE NextLayer  BY <2>1, <2>s DEF NextLayer, BeginRead
  <2>2. ASSUME NEW k \in ReaderKinds, AskReader(k) PROVE ReadingsShown'
    <3>1. /\ BitmapFor(k) \in Bitmaps
          /\ \E r \in ReaderResults(k, BitmapFor(k)) : batch' = batch \cup r
      <4>1. BitmapFor(k) \in Bitmaps
        BY DEF BitmapFor, GetBitMatrix, Bitmaps, CacheStates, TypeOK
      <4>2. \E r \in ReaderResults(k, BitmapFor(k)) : batch' = batch \cup r
        BY <2>2, <2>n DEF AskReader, BitmapFor
      <4> QED  BY <4>1, <4>2
    <3>2. PICK r \in ReaderResults(k, BitmapFor(k)) : batch' = batch \cup r
      BY <3>1
    <3>3. pc = "read" /\ pc' = "read" /\ budget > 0 /\ k \in todo /\ res' = res
      BY <2>2 DEF AskReader
    <3>4. \A q \in r : q \in Visible(k, BitmapFor(k)) /\ (q.err = "None" \/ ReturnErrors)
      BY <3>1, <3>2 DEF ReaderResults, AtMost, Accepted
    <3>5. \A q \in r : ShownReading(q)  BY <3>3, <3>4, AcceptedShown
    <3> QED  BY <2>o, <3>2, <3>3, <3>5 DEF ReadingsShown
  <2>3. CASE EndRead  BY <2>3, <2>s DEF EndRead, search
  <2>4. ASSUME NEW r \in batch \cup {Blank}, ReturnPure(r) PROVE ReadingsShown'
    BY <2>4, <2>d DEF ReturnPure
  <2>5. ASSUME NEW r \in batch, Merge(r) PROVE ReadingsShown'
    <3> DEFINE x == Result(r, bitmap.inverted)
    <3>1. x \in ResultType /\ x.sym = r.sym /\ x.err = r.err
      BY DEF Result, ResultType, Barcode, Bitmaps, TypeOK
    <3> HIDE DEF x
    <3>2. /\ pc = "merge" /\ pc' = "merge" /\ batch' \subseteq batch
          /\ res' = res \/ res' = Append(res, x)
      BY <2>5 DEF Merge, x
    <3>3. ShownReading(r)  BY <3>2 DEF ReadingsShown
    <3>4. \A i \in DOMAIN res' : res'[i] = x \/ (i \in DOMAIN res /\ res'[i] = res[i])
      BY <3>1, <3>2, AppendProperties, LenProperties DEF TypeOK
    <3>5. \A i \in DOMAIN res' : ShownReading(res'[i])
      BY <3>1, <3>2, <3>3, <3>4 DEF ReadingsShown, ShownReading
    <3> QED  BY <2>o, <3>2, <3>5 DEF ReadingsShown
  <2>6. CASE ReturnFull  BY <2>6, <2>d DEF ReturnFull
  <2>7. CASE InvertPass  BY <2>7, <2>s DEF InvertPass, Merged, BeginRead
  <2>8. CASE ClosePass  BY <2>8, <2>s DEF ClosePass, Merged, BeginRead
  <2>9. CASE LayerDone  BY <2>9, <2>s DEF LayerDone, Merged, search
  <2>10. CASE LayersDone  BY <2>10, <2>d DEF LayersDone
  <2>11. CASE FilterPair  BY <2>11, <2>d DEF FilterPair
  <2>12. CASE FilterNext  BY <2>12, <2>d DEF FilterNext
  <2>13. ASSUME NEW i \in DOMAIN res, Erase(i) PROVE ReadingsShown'
    BY <2>13, <2>d DEF Erase
  <2>14. CASE ReturnFiltered  BY <2>14, <2>d DEF ReturnFiltered
  <2>15. CASE UNCHANGED vars  BY <2>15, <2>s DEF vars
  <2> QED
    BY <2>1, <2>2, <2>3, <2>4, <2>5, <2>6, <2>7, <2>8, <2>9, <2>10, <2>11,
       <2>12, <2>13, <2>14, <2>15 DEF Next
<1> QED
  BY <1>1, <1>2, TypeCorrect, LoopPositionKept, CacheCurrentKept, PTL DEF Spec

-----------------------------------------------------------------------------
(* Without a limit, what the passes gone by have shown without error is in *)
(* the result list, and what the current one shows is on its way there.    *)
Earlier(p, q) == p # q /\ (p = "plain" \/ q = "closed")
Past(l, p) == l < layer \/ (l = layer /\ (pc = "layer" \/ Earlier(p, Current)))
Found(s) ==
  \E i \in DOMAIN res : res[i].sym = s /\ (Kind[s] = "linear" => res[i].err = "None")

PastPassesFound ==
  NoLimit =>
    \A s \in Symbols : OnlyMaxiCode(s) =>
      /\ Searching => \A l \in Layers, p \in Passes :
           Past(l, p) /\ Shows(s, "None", l, p) => Found(s)
      /\ pc = "read" /\ Shows(s, "None", layer, Current) =>
           Kind[s] \in todo \/ Reading(s, "None") \in batch
      /\ pc = "merge" /\ Shows(s, "None", layer, Current) =>
           Found(s) \/ Reading(s, "None") \in batch

LEMMA ShowsFixed ==
  ASSUME [Next]_vars, NEW s, NEW e, NEW l, NEW p
  PROVE  Shows(s, e, l, p)' <=> Shows(s, e, l, p)
BY OptionsFixed DEF Shows, ClosedReader

(* The readers of a pass include those of the symbols it shows.            *)
LEMMA PassAsks ==
  ASSUME NEW bm \in Bitmaps, NEW s \in Symbols, NEW p \in Passes,
         bm.inverted = (p = "inverted"), Shows(s, "None", layer, p)
  PROVE  Kind[s] \in ReadersFor(bm, p = "closed")
BY DEF ReadersFor, Shows

LEMMA PastPassesFoundKept ==
  ASSUME INT_MAX > 3 * Cardinality(Barcode)
  PROVE  Spec => []PastPassesFound
<1>1. Init => PastPassesFound
  <2> SUFFICES ASSUME Init PROVE PastPassesFound  OBVIOUS
  <2>1. pc = "layer" /\ layer = 0  BY DEF Init
  <2>2. \A l \in Layers : \A p : ~Past(l, p)  BY <2>1, ScenesAssumption DEF Past, Layers
  <2> QED  BY <2>1, <2>2 DEF PastPassesFound
<1>2. /\ TypeOK /\ LoopPosition /\ CacheCurrent /\ BudgetLasts /\ PastPassesFound
      /\ [Next]_vars
      => PastPassesFound'
  <2> SUFFICES ASSUME TypeOK, LoopPosition, CacheCurrent, BudgetLasts, PastPassesFound,
                      [Next]_vars, NoLimit
               PROVE  PastPassesFound'
    BY OptionsFixed DEF PastPassesFound, NoLimit
  <2> USE DEF Searching
  <2>n. ~IsPure  BY DEF NoLimit
  <2>p. Passes' = Passes  BY DEF Passes, ClosedReader
  <2>e. pc = "read" => budget > Cardinality(Barcode) /\ budget > 0
    BY BudgetIsEnough, BarcodesFinite, FS_CardinalityType DEF TypeOK
  <2>l. /\ layer \in Int /\ close \in BOOLEAN /\ invert \in BOOLEAN
        /\ bitmap \in Bitmaps /\ (close => ~invert)
    BY ScenesAssumption DEF TypeOK, LoopPosition
  <2>f. \A s : res' = res => (Found(s)' <=> Found(s))  BY DEF Found
  <2>d. ASSUME ~Searching' PROVE PastPassesFound'
    BY <2>d DEF PastPassesFound
  (* A pass begins: the passes then gone by were gone by already, or the   *)
  (* one just merged.                                                      *)
  <2>b. ASSUME NEW bm \in Bitmaps, NEW closing \in BOOLEAN,
               BeginRead(bm, closing, maxSymbols), UNCHANGED res,
               closing <=> Current' = "closed",
               bm.inverted = (Current' = "inverted"), Current' \in Passes,
               \A l \in Layers, p \in Passes : Past(l, p)' =>
                 \/ Past(l, p) /\ Searching
                 \/ pc = "merge" /\ batch = {} /\ l = layer /\ p = Current
        PROVE  PastPassesFound'
    <3>1. pc' = "read" /\ todo' = ReadersFor(bm, closing)  BY <2>b DEF BeginRead
    <3>2. ASSUME NEW s \in Symbols, OnlyMaxiCode(s), NEW l \in Layers, NEW p \in Passes,
                 Past(l, p)', Shows(s, "None", l, p)
          PROVE  Found(s)
      BY <2>b, <3>2 DEF PastPassesFound
    <3>3. ASSUME NEW s \in Symbols, Shows(s, "None", layer', Current')
          PROVE  Kind[s] \in todo'
      <4>1. Kind[s] \in IF Current' = "closed" THEN ClosedReader ELSE Enabled
        BY <3>3 DEF Shows
      <4>2. Current' = "inverted" => Kind[s] \in SupportsInversion
        BY <3>3 DEF Shows
      <4> QED  BY <2>b, <3>1, <4>1, <4>2 DEF ReadersFor
    <3> QED
      BY <2>f, <2>b, <2>p, <3>1, <3>2, <3>3, ShowsFixed DEF PastPassesFound
  <2>1. CASE NextLayer
    <3>1. /\ BeginRead(NewBitmap, FALSE, maxSymbols) /\ UNCHANGED res /\ pc = "layer"
          /\ layer' = layer + 1 /\ close' = FALSE /\ invert' = FALSE
      BY <2>1, <2>n DEF NextLayer
    <3>2. /\ Current' = "plain" /\ "plain" \in Passes
      BY <3>1 DEF Current, Passes
    <3>3. NewBitmap \in Bitmaps /\ NewBitmap.inverted = FALSE
      BY <2>l, BitmapOperations DEF NewBitmap
    <3>4. \A l \in Layers, p \in Passes : Past(l, p)' => Past(l, p)
      <4>1. pc' = "read"  BY <3>1 DEF BeginRead
      <4>2. \A p \in Passes : ~Earlier(p, "plain")  BY DEF Earlier, Passes
      <4>3. \A l \in Layers : l \in Int  BY DEF Layers
      <4> QED  BY <2>l, <3>1, <3>2, <4>1, <4>2, <4>3 DEF Past
    <3> QED  BY <2>b, <3>1, <3>2, <3>3, <3>4
  <2>2. ASSUME NEW k \in ReaderKinds, AskReader(k) PROVE PastPassesFound'
    <3>1. BitmapFor(k) \in Bitmaps
      BY <2>l, BitmapOperations DEF BitmapFor, GetBitMatrix, Bitmaps, CacheStates
    <3>2. PICK r \in ReaderResults(k, BitmapFor(k)) : batch' = batch \cup r
      BY <2>2, <2>n DEF AskReader, BitmapFor
    <3>3. /\ pc = "read" /\ pc' = "read" /\ k \in todo /\ todo' = todo \ {k}
          /\ UNCHANGED <<res, layer, close, invert>>
      BY <2>2 DEF AskReader
    <3>4. ASSUME NEW s \in Symbols, OnlyMaxiCode(s), Shows(s, "None", layer, Current),
                 Kind[s] = k
          PROVE  Reading(s, "None") \in r
      <4>1. Reading(s, "None") \in Visible(k, BitmapFor(k))
        BY <3>3, <3>4, VisibleIsShown DEF Errors
      <4> QED  BY <2>e, <3>1, <3>2, <3>3, <3>4, <4>1, ReaderFindsAll
    <3>5. \A l, p : Past(l, p)' <=> Past(l, p)
      BY <3>3 DEF Past, Current
    <3>6. Current' = Current  BY <3>3 DEF Current
    <3> QED
      BY <2>f, <2>p, <3>2, <3>3, <3>4, <3>5, <3>6, ShowsFixed DEF PastPassesFound
  <2>3. CASE EndRead
    <3>1. /\ pc = "read" /\ pc' = "merge" /\ (todo = {} \/ budget <= 0)
          /\ UNCHANGED <<batch, res, layer, close, invert>>
      BY <2>3 DEF EndRead, search
    <3>2. todo = {}  BY <2>e, <3>1 DEF TypeOK
    <3>3. Current' = Current  BY <3>1 DEF Current
    <3>4. \A l, p : Past(l, p)' <=> Past(l, p)  BY <3>1, <3>3 DEF Past
    <3> QED
      BY <2>f, <2>p, <3>1, <3>2, <3>3, <3>4, ShowsFixed DEF PastPassesFound
  <2>4. ASSUME NEW r \in batch \cup {Blank}, ReturnPure(r) PROVE PastPassesFound'
    BY <2>4, <2>d DEF ReturnPure
  <2>5. ASSUME NEW r \in batch, Merge(r) PROVE PastPassesFound'
    <3> DEFINE x == Result(r, bitmap.inverted)
    <3>1. x \in ResultType /\ x.sym = r.sym /\ x.err = r.err
      BY DEF Result, ResultType, Barcode, Bitmaps, TypeOK
    <3> HIDE DEF x
    <3>2. /\ pc = "merge" /\ pc' = "merge" /\ batch' = batch \ {r}
          /\ IF Contains(res, r) THEN res' = res ELSE res' = Append(res, x)
          /\ UNCHANGED <<layer, close, invert>>
      BY <2>5 DEF Merge, x, search
    <3>3. ASSUME ~Contains(res, r)
          PROVE  /\ \A i \in DOMAIN res : i \in DOMAIN res' /\ res'[i] = res[i]
                 /\ \E i \in DOMAIN res' : res'[i] = x
      <4>1. res' = Append(res, x)  BY <3>2, <3>3
      <4>2. /\ Len(res) \in Nat /\ DOMAIN res = 1 .. Len(res)
            /\ DOMAIN res' = 1 .. Len(res) + 1
            /\ \A i \in 1 .. Len(res) : res'[i] = res[i]
            /\ res'[Len(res) + 1] = x
        BY <3>1, <4>1, AppendProperties, LenProperties DEF TypeOK
      <4>3. Len(res) + 1 \in DOMAIN res'  BY <4>2
      <4> QED  BY <4>2, <4>3
    <3>4. \A s : Found(s) => Found(s)'
      <4>1. CASE Contains(res, r)  BY <3>2, <4>1 DEF Found
      <4>2. CASE ~Contains(res, r)  BY <3>3, <4>2 DEF Found
      <4> QED  BY <4>1, <4>2
    <3>5. ASSUME NEW s \in Symbols, r = Reading(s, "None") PROVE Found(s)'
      <4>1. r.sym = s /\ r.err = "None"  BY <3>5 DEF Reading
      <4>2. CASE Contains(res, r)
        BY <3>2, <4>1, <4>2 DEF Contains, Same, Found
      <4>3. CASE ~Contains(res, r)
        BY <3>1, <3>3, <4>1, <4>3 DEF Found
      <4> QED  BY <4>2, <4>3
    <3>6. Current' = Current  BY <3>2 DEF Current
    <3>7. \A l, p : Past(l, p)' <=> Past(l, p)  BY <3>2, <3>6 DEF Past
    <3> QED
      BY <2>p, <3>2, <3>4, <3>5, <3>6, <3>7, ShowsFixed DEF PastPassesFound
  <2>6. CASE ReturnFull  BY <2>6, <2>d DEF ReturnFull
  <2>7. CASE InvertPass
    <3>1. /\ BeginRead(Invert(bitmap), FALSE, maxSymbols) /\ UNCHANGED <<res, layer>>
          /\ pc = "merge" /\ batch = {} /\ TryInvert
          /\ close = FALSE /\ invert = FALSE /\ close' = FALSE /\ invert' = TRUE
      BY <2>7, <2>l DEF InvertPass, Merged
    <3>2. /\ Current = "plain" /\ Current' = "inverted" /\ "inverted" \in Passes
      BY <3>1 DEF Current, Passes
    <3>3. Invert(bitmap) \in Bitmaps /\ Invert(bitmap).inverted = TRUE
      BY <2>l, <3>1, BitmapOperations, FlagsOfBitmap DEF LoopPosition
    <3>4. \A l \in Layers, p \in Passes : Past(l, p)' => Past(l, p) \/ (l = layer /\ p = Current)
      <4>1. pc' = "read"  BY <3>1 DEF BeginRead
      <4> QED  BY <3>1, <3>2, <4>1 DEF Past, Earlier
    <3> QED  BY <2>b, <3>1, <3>2, <3>3, <3>4
  <2>8. CASE ClosePass
    <3> DEFINE um == IF bitmap.inverted THEN Invert(bitmap) ELSE bitmap
    <3>1. /\ BeginRead(Close(um), TRUE, maxSymbols) /\ UNCHANGED <<res, layer>>
          /\ pc = "merge" /\ batch = {} /\ ClosedReader # {}
          /\ close = FALSE /\ close' = TRUE /\ invert' = FALSE
          /\ invert \/ ~TryInvert
      BY <2>8, <2>l DEF ClosePass, Merged
    <3>2. /\ Current' = "closed" /\ "closed" \in Passes
          /\ Current = IF invert THEN "inverted" ELSE "plain"
      BY <3>1 DEF Current, Passes
    <3>3. um \in Bitmaps /\ um.inverted = FALSE
      BY <2>l, BitmapOperations, FlagsOfBitmap DEF Bitmaps
    <3> HIDE DEF um
    <3>4. Close(um) \in Bitmaps /\ Close(um).inverted = FALSE
      BY <3>3, BitmapOperations, FlagsOfBitmap
    <3>5. \A l \in Layers, p \in Passes : Past(l, p)' => Past(l, p) \/ (l = layer /\ p = Current)
      <4>1. pc' = "read"  BY <3>1 DEF BeginRead
      <4>2. \A p \in Passes : p = "closed" \/ p = "plain" \/ (p = "inverted" /\ invert)
        BY <3>1 DEF Passes
      <4> QED  BY <3>1, <3>2, <4>1, <4>2 DEF Past, Earlier
    <3> QED  BY <2>b, <3>1, <3>2, <3>4, <3>5
  <2>9. CASE LayerDone
    <3>1. /\ pc = "merge" /\ batch = {} /\ pc' = "layer"
          /\ UNCHANGED <<res, layer, close, invert>>
          /\ close \/ (ClosedReader = {} /\ (invert \/ ~TryInvert))
      BY <2>9 DEF LayerDone, Merged, search
    <3>2. \A l \in Layers, p \in Passes : Past(l, p)' => Past(l, p) \/ (l = layer /\ p = Current)
      <4>1. \A p \in Passes : p = Current \/ Earlier(p, Current)
        BY <3>1 DEF Passes, Current, Earlier
      <4> QED  BY <3>1, <4>1 DEF Past
    <3> QED  BY <2>f, <2>p, <3>1, <3>2, ShowsFixed DEF PastPassesFound
  <2>10. CASE LayersDone  BY <2>10, <2>d DEF LayersDone
  <2>11. CASE FilterPair  BY <2>11, <2>d DEF FilterPair
  <2>12. CASE FilterNext  BY <2>12, <2>d DEF FilterNext
  <2>13. ASSUME NEW i \in DOMAIN res, Erase(i) PROVE PastPassesFound'
    BY <2>13, <2>d DEF Erase
  <2>14. CASE ReturnFiltered  BY <2>14, <2>d DEF ReturnFiltered
  <2>15. CASE UNCHANGED vars
    <3>1. UNCHANGED <<pc, layer, close, invert, todo, batch, res>>
      BY <2>15 DEF vars, search
    <3>2. Current' = Current  BY <3>1 DEF Current
    <3>3. \A l, p : Past(l, p)' <=> Past(l, p)  BY <3>1, <3>2 DEF Past
    <3> QED  BY <2>f, <2>p, <3>1, <3>2, <3>3, ShowsFixed DEF PastPassesFound
  <2> QED
    BY <2>1, <2>2, <2>3, <2>4, <2>5, <2>6, <2>7, <2>8, <2>9, <2>10, <2>11,
       <2>12, <2>13, <2>14, <2>15 DEF Next
<1> QED
  BY <1>1, <1>2, TypeCorrect, LoopPositionKept, CacheCurrentKept, BudgetLastsKept,
     PTL DEF Spec

-----------------------------------------------------------------------------
(* What Erase leaves: every other entry, and no two of them in one place.  *)
LEMMA WithoutKeeps ==
  ASSUME NEW S, NEW s \in Seq(S), NEW i \in DOMAIN s
  PROVE  /\ \A n \in DOMAIN s \ {i} : \E j \in DOMAIN Without(s, i) : Without(s, i)[j] = s[n]
         /\ \A j, k \in DOMAIN Without(s, i) : j # k =>
              \E m, n \in DOMAIN s : m # n /\ Without(s, i)[j] = s[m] /\ Without(s, i)[k] = s[n]
<1>1. Len(s) \in Nat /\ DOMAIN s = 1 .. Len(s)  BY LenProperties
<1>2. DOMAIN Without(s, i) = 1 .. Len(s) - 1  BY DEF Without
<1>3. \A j \in 1 .. Len(s) - 1 : Without(s, i)[j] = IF j < i THEN s[j] ELSE s[j + 1]
  BY DEF Without
<1>4. ASSUME NEW n \in DOMAIN s \ {i}
      PROVE  \E j \in DOMAIN Without(s, i) : Without(s, i)[j] = s[n]
  <2>1. CASE n < i
    <3>1. n \in 1 .. Len(s) - 1 /\ Without(s, i)[n] = s[n]  BY <1>1, <1>3, <2>1
    <3> QED  BY <1>2, <3>1
  <2>2. CASE n > i
    <3>1. n - 1 \in 1 .. Len(s) - 1 /\ Without(s, i)[n - 1] = s[n]
      BY <1>1, <1>3, <2>2
    <3> QED  BY <1>2, <3>1
  <2> QED  BY <1>1, <2>1, <2>2
<1>5. ASSUME NEW j \in DOMAIN Without(s, i), NEW k \in DOMAIN Without(s, i), j # k
      PROVE  \E m, n \in DOMAIN s :
               m # n /\ Without(s, i)[j] = s[m] /\ Without(s, i)[k] = s[n]
  <2> DEFINE at(x) == IF x < i THEN x ELSE x + 1
  <2>1. at(j) \in DOMAIN s /\ at(k) \in DOMAIN s /\ at(j) # at(k)
    BY <1>1, <1>2, <1>5
  <2>2. Without(s, i)[j] = s[at(j)] /\ Without(s, i)[k] = s[at(k)]
    BY <1>2, <1>3
  <2> QED  BY <2>1, <2>2
<1> QED  BY <1>4, <1>5

(* The overlap filter has gone through the pairs before (a, b), and of     *)
(* each that overlapped in disagreement it has blanked one.  Only a caller *)
(* who wants errors gets any.                                              *)
Resolved(i, j) ==
  res[i].sym # None /\ res[j].sym # None /\ res[i].err # res[j].err
    => ~Intersect(res[i], res[j])

PairsResolved ==
  /\ pc = "filter" => /\ a < b
                      /\ \A i, j \in DOMAIN res :
                           i < j /\ (i < a \/ (i = a /\ j < b)) => Resolved(i, j)
  /\ pc \in {"read", "merge"} => \A r \in batch : r.err = "None" \/ ReturnErrors
  /\ Searching => \A i \in DOMAIN res : res[i].err = "None" \/ ReturnErrors
  /\ OverlapsResolved

LEMMA PairsResolvedKept == Spec => []PairsResolved
<1>1. Init => PairsResolved
  <2> SUFFICES ASSUME Init PROVE PairsResolved  OBVIOUS
  <2>1. pc = "layer" /\ DOMAIN res = {}  BY EmptySeq, LenProperties DEF Init
  <2> QED  BY <2>1 DEF PairsResolved, OverlapsResolved
<1>2. TypeOK /\ LoopPosition /\ PairsResolved /\ [Next]_vars => PairsResolved'
  <2> SUFFICES ASSUME TypeOK, LoopPosition, PairsResolved, [Next]_vars
               PROVE  PairsResolved'
    OBVIOUS
  <2> USE OptionsFixed DEF Searching
  <2>t. /\ Len(res) \in Nat /\ DOMAIN res = 1 .. Len(res)
        /\ a \in Nat /\ b \in Nat /\ maxSymbols \in Int
        /\ \A i \in DOMAIN res : res[i] \in ResultType
    BY LenProperties, ElementOfSeq DEF TypeOK
  <2>s. ASSUME res' = res, pc' \notin {"filter", "done"}, Searching,
               \/ pc' \notin {"read", "merge"}
               \/ batch' = {}
               \/ pc \in {"read", "merge"} /\ batch' = batch
        PROVE  PairsResolved'
    <3>1. \A i \in DOMAIN res' : res'[i].err = "None" \/ ReturnErrors'
      BY <2>s DEF PairsResolved
    <3>2. pc' \in {"read", "merge"} => \A r \in batch' : r.err = "None" \/ ReturnErrors'
      BY <2>s DEF PairsResolved
    <3> QED  BY <2>s, <3>1, <3>2 DEF PairsResolved, OverlapsResolved
  <2>d. ASSUME pc' = "done",
               (ReturnErrors => maxSymbols' > 0) =>
                 \A i, j \in DOMAIN res' :
                   res'[i].err # res'[j].err => ~Intersect(res'[i], res'[j])
        PROVE  PairsResolved'
    BY <2>d DEF PairsResolved, OverlapsResolved, Intersect, BoxOf
  <2>1. CASE NextLayer  BY <2>1, <2>s DEF NextLayer, BeginRead
  <2>2. ASSUME NEW k \in ReaderKinds, AskReader(k) PROVE PairsResolved'
    <3>1. PICK r \in IF IsPure THEN PureResults(k, BitmapFor(k))
                               ELSE ReaderResults(k, BitmapFor(k)) :
            batch' = batch \cup r
      BY <2>2 DEF AskReader, BitmapFor
    <3>2. pc = "read" /\ pc' = "read" /\ res' = res
      BY <2>2 DEF AskReader
    <3>3. \A q \in r : q.err = "None" \/ ReturnErrors
      BY <3>1 DEF PureResults, ReaderResults, AtMost, Accepted, Blank
    <3> QED  BY <3>1, <3>2, <3>3 DEF PairsResolved, OverlapsResolved
  <2>3. CASE EndRead  BY <2>3, <2>s DEF EndRead, search
  <2>4. ASSUME NEW r \in batch \cup {Blank}, ReturnPure(r) PROVE PairsResolved'
    <3>1. pc' = "done" /\ res' = <<Result(r, FALSE)>>  BY <2>4 DEF ReturnPure
    <3>2. \A i, j \in DOMAIN res' : i = j
      <4>1. \A x : DOMAIN <<x>> = {1}  OBVIOUS
      <4> QED  BY <3>1, <4>1
    <3>3. \A i, j \in DOMAIN res' : res'[i].err = res'[j].err  BY <3>2
    <3> QED  BY <2>d, <3>1, <3>3
  <2>5. ASSUME NEW r \in batch, Merge(r) PROVE PairsResolved'
    <3> DEFINE x == Result(r, bitmap.inverted)
    <3>1. x \in ResultType /\ x.err = r.err
      BY DEF Result, ResultType, Barcode, Bitmaps, TypeOK
    <3> HIDE DEF x
    <3>2. /\ pc = "merge" /\ pc' = "merge" /\ batch' \subseteq batch
          /\ res' = res \/ res' = Append(res, x)
      BY <2>5 DEF Merge, x
    <3>3. r.err = "None" \/ ReturnErrors  BY <3>2 DEF PairsResolved
    <3>4. \A i \in DOMAIN res' : res'[i] = x \/ (i \in DOMAIN res /\ res'[i] = res[i])
      BY <3>1, <3>2, AppendProperties, LenProperties DEF TypeOK
    <3>5. \A i \in DOMAIN res' : res'[i].err = "None" \/ ReturnErrors
      BY <3>1, <3>2, <3>3, <3>4 DEF PairsResolved
    <3> QED  BY <3>2, <3>5 DEF PairsResolved, OverlapsResolved
  <2>6. CASE ReturnFull
    <3>1. pc = "merge" /\ pc' = "done" /\ res' = res /\ maxSymbols <= 0 /\ maxSymbols' = maxSymbols
      BY <2>6 DEF ReturnFull, Merged
    <3>2. ~ReturnErrors => \A i, j \in DOMAIN res : res[i].err = res[j].err
      BY <3>1 DEF PairsResolved
    <3>3. ~(maxSymbols' > 0)  BY <2>t, <3>1
    <3> QED  BY <2>d, <3>1, <3>2, <3>3
  <2>7. CASE InvertPass  BY <2>7, <2>s DEF InvertPass, Merged, BeginRead
  <2>8. CASE ClosePass  BY <2>8, <2>s DEF ClosePass, Merged, BeginRead
  <2>9. CASE LayerDone  BY <2>9, <2>s DEF LayerDone, Merged
  <2>10. CASE LayersDone
    <3>1. /\ pc = "layer" /\ res' = res /\ a' = a /\ b' = b /\ a = 1 /\ b = 2
          /\ pc' = IF ReturnErrors THEN "filter" ELSE "done"
      BY <2>10 DEF LayersDone, LoopPosition
    <3>2. CASE ReturnErrors
      <4>1. \A i, j \in DOMAIN res : ~(i < j /\ (i < a \/ (i = a /\ j < b)))
        BY <2>t, <3>1
      <4> QED  BY <3>1, <3>2, <4>1 DEF PairsResolved, OverlapsResolved
    <3>3. CASE ~ReturnErrors
      <4>1. \A i, j \in DOMAIN res : res[i].err = res[j].err
        BY <3>1, <3>3 DEF PairsResolved
      <4> QED  BY <2>d, <3>1, <3>3, <4>1
    <3> QED  BY <3>2, <3>3
  <2>11. CASE FilterPair
    <3> DEFINE victim == IF res[a].err # "None" THEN a ELSE b
               x == Result(Blank, FALSE)
    <3>1. /\ pc = "filter" /\ pc' = "filter" /\ b <= Len(res) /\ b' = b + 1 /\ a' = a
          /\ a < b
      BY <2>11 DEF FilterPair, PairsResolved
    <3>2. res' = IF Intersect(res[a], res[b]) /\ res[a].err # res[b].err
                 THEN [res EXCEPT ![victim] = x] ELSE res
      BY <2>11 DEF FilterPair
    <3>3. x \in ResultType /\ x.sym = None
      BY DEF Result, ResultType, Blank, Errors
    <3>4. victim \in {a, b}  OBVIOUS
    <3> HIDE DEF x, victim
    <3>5. ASSUME NEW i \in DOMAIN res', NEW j \in DOMAIN res',
                 i < j, i < a \/ (i = a /\ j < b + 1)
          PROVE  Resolved(i, j)'
      <4>1. CASE Intersect(res[a], res[b]) /\ res[a].err # res[b].err
        <5>1. /\ DOMAIN res' = DOMAIN res
              /\ \A n \in DOMAIN res : res'[n] = IF n = victim THEN x ELSE res[n]
          BY <3>2, <4>1 DEF TypeOK
        <5>2. CASE i = victim \/ j = victim
          BY <3>3, <5>1, <5>2 DEF Resolved
        <5>3. CASE i # victim /\ j # victim
          <6>1. i < a \/ (i = a /\ j < b)
            BY <2>t, <3>1, <3>4, <3>5, <5>1, <5>3
          <6>2. Resolved(i, j)  BY <3>1, <3>5, <5>1, <6>1 DEF PairsResolved
          <6> QED  BY <5>1, <5>3, <6>2 DEF Resolved, Intersect, BoxOf
        <5> QED  BY <5>2, <5>3
      <4>2. CASE ~(Intersect(res[a], res[b]) /\ res[a].err # res[b].err)
        <5>1. res' = res  BY <3>2, <4>2
        <5>2. Resolved(i, j)
          <6>1. CASE i < a \/ (i = a /\ j < b)
            BY <3>1, <3>5, <5>1, <6>1 DEF PairsResolved
          <6>2. CASE i = a /\ j = b  BY <4>2, <6>2 DEF Resolved
          <6> QED  BY <2>t, <3>5, <5>1, <6>1, <6>2
        <5> QED  BY <5>1, <5>2 DEF Resolved, Intersect, BoxOf
      <4> QED  BY <4>1, <4>2
    <3>6. a' < b'  BY <2>t, <3>1
    <3> QED  BY <3>1, <3>5, <3>6 DEF PairsResolved, OverlapsResolved
  <2>12. CASE FilterNext
    <3>1. /\ pc = "filter" /\ pc' = "filter" /\ b > Len(res) /\ a' = a + 1 /\ b' = a + 2
          /\ res' = res
      BY <2>12 DEF FilterNext
    <3>2. ASSUME NEW i \in DOMAIN res, NEW j \in DOMAIN res,
                 i < j, i < a + 1 \/ (i = a + 1 /\ j < a + 2)
          PROVE  Resolved(i, j)'
      <4>1. i < a \/ (i = a /\ j < b)  BY <2>t, <3>1, <3>2
      <4>2. Resolved(i, j)  BY <3>1, <3>2, <4>1 DEF PairsResolved
      <4> QED  BY <3>1, <4>2 DEF Resolved, Intersect, BoxOf
    <3>3. a' < b'  BY <2>t, <3>1
    <3> QED  BY <3>1, <3>2, <3>3 DEF PairsResolved, OverlapsResolved
  <2>a. pc = "filter" /\ a >= Len(res) =>
          \A i, j \in DOMAIN res : i # j => Resolved(i, j)
    <3> SUFFICES ASSUME pc = "filter", a >= Len(res), NEW i \in DOMAIN res,
                        NEW j \in DOMAIN res, i # j
                 PROVE  Resolved(i, j)
      OBVIOUS
    <3>1. CASE i < j
      <4>1. i < a  BY <2>t, <3>1
      <4> QED  BY <3>1, <4>1 DEF PairsResolved
    <3>2. CASE j < i
      <4>1. j < a  BY <2>t, <3>2
      <4>2. Resolved(j, i)  BY <3>2, <4>1 DEF PairsResolved
      <4> QED  BY <4>2 DEF Resolved, Intersect
    <3> QED  BY <2>t, <3>1, <3>2
  <2>13. ASSUME NEW i \in DOMAIN res, Erase(i) PROVE PairsResolved'
    <3>1. /\ pc = "filter" /\ pc' = "filter" /\ a >= Len(res) /\ res' = Without(res, i)
          /\ UNCHANGED <<a, b>>
      BY <2>13 DEF Erase
    <3>2. ASSUME NEW j \in DOMAIN res', NEW k \in DOMAIN res', j < k
          PROVE  Resolved(j, k)'
      <4>1. j # k  
        <5>1. j \in Int /\ k \in Int  BY <2>t, <3>1 DEF Without
        <5> QED  BY <3>2, <5>1
      <4>2. PICK m \in DOMAIN res, n \in DOMAIN res :
              m # n /\ res'[j] = res[m] /\ res'[k] = res[n]
        BY <3>1, <4>1, WithoutKeeps DEF TypeOK
      <4>3. Resolved(m, n)  BY <2>a, <3>1, <4>2
      <4> QED  BY <4>2, <4>3 DEF Resolved, Intersect, BoxOf
    <3>3. a' < b'  BY <3>1 DEF PairsResolved
    <3> QED  BY <3>1, <3>2, <3>3 DEF PairsResolved, OverlapsResolved
  <2>14. CASE ReturnFiltered
    <3>1. /\ pc = "filter" /\ pc' = "done" /\ a >= Len(res) /\ res' = res
          /\ \A i \in DOMAIN res : res[i].sym # None
      BY <2>14 DEF ReturnFiltered
    <3>2. ASSUME NEW i \in DOMAIN res, NEW j \in DOMAIN res, res[i].err # res[j].err
          PROVE  ~Intersect(res[i], res[j])
      BY <2>a, <3>1, <3>2 DEF Resolved
    <3> QED  BY <2>d, <3>1, <3>2
  <2>15. CASE UNCHANGED vars
    <3>1. UNCHANGED <<pc, batch, res, a, b, maxSymbols>>  BY <2>15 DEF vars
    <3>2. \A i, j : Resolved(i, j)' <=> Resolved(i, j)
      BY <3>1 DEF Resolved, Intersect, BoxOf
    <3> QED  BY <3>1, <3>2 DEF PairsResolved, OverlapsResolved, Intersect, BoxOf
  <2> QED
    BY <2>1, <2>2, <2>3, <2>4, <2>5, <2>6, <2>7, <2>8, <2>9, <2>10, <2>11,
       <2>12, <2>13, <2>14, <2>15 DEF Next
<1> QED  BY <1>1, <1>2, TypeCorrect, LoopPositionKept, PTL DEF Spec

(* A finished search has resolved every overlap of an erroneous with a     *)
(* differently read symbol, unless the limit cut it short.                 *)
THEOREM OverlapsAreResolved == Spec => []OverlapsResolved
<1>1. PairsResolved => OverlapsResolved  BY DEF PairsResolved
<1> QED  BY <1>1, PairsResolvedKept, PTL

-----------------------------------------------------------------------------
(* Without a limit, what the filter may not lose: an entry of every symbol *)
(* the caller may count on, read without error or alone in its place.      *)
Expected(s) == Shown(s, "None") /\ NothingHides(s)
Safe(s) == \E i \in DOMAIN res : res[i].sym = s /\ (res[i].err = "None" \/ Alone(s))

ExpectedKept ==
  NoLimit =>
    /\ pc = "filter" => \A s \in Symbols : Expected(s) => Safe(s)
    /\ pc = "done" => \A s \in Symbols : Expected(s) => Reported(s)

LEMMA ExpectedFixed ==
  ASSUME [Next]_vars, NEW s
  PROVE  (Expected(s)' <=> Expected(s)) /\ (Alone(s)' <=> Alone(s))
<1>1. \A t, e : Shown(t, e)' <=> Shown(t, e)
  BY ShowsFixed DEF Shown, Passes, ClosedReader
<1> QED  BY <1>1, OptionsFixed DEF Expected, NothingHides, Alone

LEMMA ExpectedKeptAlways ==
  ASSUME INT_MAX > 3 * Cardinality(Barcode)
  PROVE  Spec => []ExpectedKept
<1>1. Init => ExpectedKept  BY DEF Init, ExpectedKept
<1>2. /\ TypeOK /\ PairsResolved /\ BudgetLasts /\ ReadingsShown /\ PastPassesFound
      /\ ExpectedKept /\ [Next]_vars
      => ExpectedKept'
  <2> SUFFICES ASSUME TypeOK, PairsResolved, BudgetLasts, ReadingsShown, PastPassesFound,
                      ExpectedKept, [Next]_vars, NoLimit
               PROVE  ExpectedKept'
    BY OptionsFixed DEF ExpectedKept, NoLimit
  <2> USE DEF Searching
  <2>n. ~IsPure  BY DEF NoLimit
  <2>d. ASSUME pc' \notin {"filter", "done"} PROVE ExpectedKept'
    BY <2>d DEF ExpectedKept
  <2>r. \A i \in DOMAIN res : res[i] \in ResultType
    BY ElementOfSeq, LenProperties DEF TypeOK
  <2>t. \A s : Safe(s) => Reported(s)  BY DEF Safe, Reported
  <2>1. CASE NextLayer  BY <2>1, <2>d DEF NextLayer, BeginRead
  <2>2. ASSUME NEW k \in ReaderKinds, AskReader(k) PROVE ExpectedKept'
    BY <2>2, <2>d DEF AskReader
  <2>3. CASE EndRead  BY <2>3, <2>d DEF EndRead
  <2>4. ASSUME NEW r \in batch \cup {Blank}, ReturnPure(r) PROVE ExpectedKept'
    BY <2>4, <2>n DEF ReturnPure
  <2>5. ASSUME NEW r \in batch, Merge(r) PROVE ExpectedKept'
    BY <2>5, <2>d DEF Merge
  <2>6. CASE ReturnFull
    <3>1. Cardinality(Barcode) \in Nat /\ maxSymbols \in Int /\ maxSymbols <= 0 /\ pc = "merge"
      BY <2>6, BarcodesFinite, FS_CardinalityType DEF ReturnFull, Merged, TypeOK
    <3>2. maxSymbols > 2 * Cardinality(Barcode)  BY <3>1, BudgetIsEnough
    <3> QED  BY <3>1, <3>2
  <2>7. CASE InvertPass  BY <2>7, <2>d DEF InvertPass, BeginRead
  <2>8. CASE ClosePass  BY <2>8, <2>d DEF ClosePass, BeginRead
  <2>9. CASE LayerDone  BY <2>9, <2>d DEF LayerDone
  <2>10. CASE LayersDone
    <3>1. /\ pc = "layer" /\ layer = NumLayers /\ res' = res
          /\ pc' \in {"filter", "done"} /\ (pc' = "done" <=> ~ReturnErrors)
      BY <2>10, OptionsType DEF LayersDone, TypeOK
    <3>2. ASSUME NEW s \in Symbols, Expected(s) PROVE Safe(s)
      <4>1. PICK l \in Layers, p \in Passes : Shows(s, "None", l, p)
        BY <3>2 DEF Expected, Shown
      <4>2. Past(l, p)  BY <3>1, ScenesAssumption DEF Past, Layers
      <4>3. OnlyMaxiCode(s)  BY <3>2 DEF Expected, NothingHides, OnlyMaxiCode
      <4>4. PICK i \in DOMAIN res :
              res[i].sym = s /\ (Kind[s] = "linear" => res[i].err = "None")
        BY <3>1, <4>1, <4>2, <4>3 DEF PastPassesFound, Found
      <4>5. ShownReading(res[i]) /\ res[i].err \in Errors
        BY <2>r, <3>1 DEF ReadingsShown, ResultType
      <4>6. res[i].err = "None" \/ Alone(s)
        BY <3>2, <4>4, <4>5 DEF Expected, NothingHides, ShownReading
      <4> QED  BY <4>4, <4>6 DEF Safe
    <3>3. \A s \in Symbols : Expected(s) => Safe(s)' /\ Reported(s)'
      BY <3>1, <3>2, <2>t, ExpectedFixed DEF Safe, Reported
    <3> QED  BY <3>3, ExpectedFixed DEF ExpectedKept
  <2>11. CASE FilterPair
    <3> DEFINE victim == IF res[a].err # "None" THEN a ELSE b
               x == Result(Blank, FALSE)
    <3>1. /\ pc = "filter" /\ pc' = "filter" /\ b <= Len(res)
          /\ res' = IF Intersect(res[a], res[b]) /\ res[a].err # res[b].err
                    THEN [res EXCEPT ![victim] = x] ELSE res
      BY <2>11 DEF FilterPair
    <3>2. ASSUME NEW s \in Symbols, Expected(s) PROVE Safe(s)'
      <4>1. Safe(s)  BY <3>1, <3>2 DEF ExpectedKept
      <4>2. PICK i \in DOMAIN res : res[i].sym = s /\ (res[i].err = "None" \/ Alone(s))
        BY <4>1 DEF Safe
      <4>3. CASE ~(Intersect(res[a], res[b]) /\ res[a].err # res[b].err)
        BY <3>1, <4>1, <4>3, ExpectedFixed DEF Safe
      <4>4. CASE Intersect(res[a], res[b]) /\ res[a].err # res[b].err
        <5>1. /\ DOMAIN res' = DOMAIN res
              /\ \A n \in DOMAIN res : n # victim => res'[n] = res[n]
          BY <3>1, <4>4 DEF TypeOK
        <5>2. CASE i # victim
          BY <4>2, <5>1, <5>2, ExpectedFixed DEF Safe
        <5>3. CASE i = victim
          <6>1. res[i].err # "None"  BY <4>4, <5>3
          <6>2. Alone(s)  BY <4>2, <6>1
          <6>3. PICK j \in {a, b} : j # victim /\ Intersect(res[i], res[j])
            BY <4>4, <5>3 DEF Intersect
          <6>4. j \in DOMAIN res
            <7>1. a < b /\ a \in Nat \ {0} /\ b \in Nat /\ b <= Len(res)
              BY <3>1 DEF PairsResolved, TypeOK
            <7> QED  BY <6>3, <7>1, LenProperties DEF TypeOK
          <6>5. res[j].sym = s
            <7>1. res[j].sym \in Symbols \cup {None}
              BY <2>r, <6>4 DEF ResultType
            <7>2. Box[s] \cap BoxOf(res[j].sym) # {}
              BY <4>2, <6>3, SymbolsAssumption DEF Intersect, BoxOf, None
            <7> QED  BY <6>2, <7>1, <7>2 DEF Alone, BoxOf
          <6> QED  BY <5>1, <6>2, <6>3, <6>4, <6>5, ExpectedFixed DEF Safe
        <5> QED  BY <5>2, <5>3
      <4> QED  BY <4>3, <4>4
    <3> QED  BY <3>1, <3>2, ExpectedFixed DEF ExpectedKept
  <2>12. CASE FilterNext
    <3>1. pc = "filter" /\ pc' = "filter" /\ res' = res  BY <2>12 DEF FilterNext
    <3> QED  BY <3>1, ExpectedFixed DEF ExpectedKept, Safe
  <2>13. ASSUME NEW i \in DOMAIN res, Erase(i) PROVE ExpectedKept'
    <3>1. pc = "filter" /\ pc' = "filter" /\ res' = Without(res, i) /\ res[i].sym = None
      BY <2>13 DEF Erase
    <3>2. ASSUME NEW s \in Symbols, Safe(s) PROVE Safe(s)'
      <4>1. PICK n \in DOMAIN res : res[n].sym = s /\ (res[n].err = "None" \/ Alone(s))
        BY <3>2 DEF Safe
      <4>2. n # i  BY <3>1, <4>1, SymbolsAssumption
      <4>3. PICK j \in DOMAIN res' : res'[j] = res[n]
        BY <3>1, <4>2, WithoutKeeps DEF TypeOK
      <4> QED  BY <4>1, <4>3, ExpectedFixed DEF Safe
    <3> QED  BY <3>1, <3>2, ExpectedFixed DEF ExpectedKept
  <2>14. CASE ReturnFiltered
    <3>1. pc = "filter" /\ pc' = "done" /\ res' = res  BY <2>14 DEF ReturnFiltered
    <3> QED  BY <2>t, <3>1, ExpectedFixed DEF ExpectedKept, Reported
  <2>15. CASE UNCHANGED vars
    BY <2>15, ExpectedFixed DEF vars, ExpectedKept, Safe, Reported
  <2> QED
    BY <2>1, <2>2, <2>3, <2>4, <2>5, <2>6, <2>7, <2>8, <2>9, <2>10, <2>11,
       <2>12, <2>13, <2>14, <2>15 DEF Next
<1> QED
  BY <1>1, <1>2, TypeCorrect, PairsResolvedKept, BudgetLastsKept, ReadingsShownKept,
     PastPassesFoundKept, PTL DEF Spec

-----------------------------------------------------------------------------
(* A pure image without returnErrors: only what its one pass shows without *)
(* error is collected, and the budget of one is not spent on anything else.*)
Nothing == \A s \in Symbols : ~ShownPure(s)

PureSound ==
  IsPure /\ ~ReturnErrors =>
    /\ pc # "filter"
    /\ pc \in {"read", "merge"} => \A r \in batch : r.sym \in Symbols /\ ShownPure(r.sym)
    /\ pc = "read" /\ batch = {} =>
         budget = 1 /\ \A s \in Symbols : ShownPure(s) => Kind[s] \in todo
    /\ pc = "merge" /\ batch = {} => Nothing
    /\ pc = "done" => \/ Nothing
                      \/ \E i \in DOMAIN res : res[i].sym \in Symbols /\ ShownPure(res[i].sym)

LEMMA PureSoundKept ==
  ASSUME INT_MAX > 3 * Cardinality(Barcode)
  PROVE  Spec => []PureSound
<1>1. Init => PureSound  BY DEF Init, PureSound
<1>2. TypeOK /\ LoopPosition /\ CacheCurrent /\ PureSound /\ [Next]_vars => PureSound'
  <2> SUFFICES ASSUME TypeOK, LoopPosition, CacheCurrent, PureSound, [Next]_vars,
                      IsPure, ~ReturnErrors
               PROVE  PureSound'
    BY OptionsFixed DEF PureSound
  <2>o. \A s : ShownPure(s)' <=> ShownPure(s)  BY ShowsFixed DEF ShownPure
  <2>l. /\ ~close /\ ~invert
        /\ pc = "layer" => layer = 0
        /\ pc \in {"read", "merge"} => layer = 1
        /\ Current = "plain"
    BY DEF LoopPosition, Current
  <2>1. CASE NextLayer
    <3>1. /\ NewBitmap \in Bitmaps /\ ~NewBitmap.inverted
      BY BitmapOperations DEF NewBitmap, TypeOK
    <3>2. pc' = "read" /\ batch' = {} /\ budget' = 1 /\ todo' = ReadersFor(NewBitmap, FALSE)
      BY <2>1 DEF NextLayer, BeginRead
    <3>3. todo' = Enabled  BY <3>1, <3>2, ReadersAsked
    <3>4. \A s \in Symbols : ShownPure(s) => Kind[s] \in Enabled
      BY DEF ShownPure, Shows
    <3> QED  BY <2>o, <3>2, <3>3, <3>4 DEF PureSound
  <2>2. ASSUME NEW k \in ReaderKinds, AskReader(k) PROVE PureSound'
    <3> DEFINE vs == Visible(k, BitmapFor(k))
    <3>1. PICK r \in PureResults(k, BitmapFor(k)) :
            batch' = batch \cup r /\ budget' = budget - Cardinality(r)
      BY <2>2 DEF AskReader, BitmapFor
    <3>2. pc = "read" /\ pc' = "read" /\ k \in todo /\ todo' = todo \ {k}
      BY <2>2 DEF AskReader
    <3>3. \A q \in r : q \in vs /\ q.err = "None"
      BY <3>1 DEF PureResults, Accepted
    <3>4. \A q \in r : q.sym \in Symbols /\ ShownPure(q.sym)
      <4> SUFFICES ASSUME NEW q \in r PROVE q.sym \in Symbols /\ ShownPure(q.sym)
        OBVIOUS
      <4>1. q.sym \in Symbols  BY <3>3 DEF Visible
      <4>2. Shows(q.sym, q.err, layer, Current)
        BY <3>2, <3>3, AcceptedShown
      <4> QED  BY <2>l, <3>2, <3>3, <4>1, <4>2 DEF ShownPure
    <3>5. ASSUME r = {}, NEW s \in Symbols, ShownPure(s) PROVE Kind[s] # k
      <4> SUFFICES ASSUME Kind[s] = k PROVE FALSE  OBVIOUS
      <4>1. Reading(s, "None") \in vs
        BY <2>l, <3>2, <3>5, VisibleIsShown DEF ShownPure, Errors
      <4>2. Reading(s, "None") \in Accepted(k, vs)
        BY <4>1 DEF Accepted, Reading
      <4>3. Cardinality(r) = 1
        <5> HIDE DEF vs
        <5>1. PureResults(k, BitmapFor(k)) =
                {x \in SUBSET Accepted(k, vs) :
                   Cardinality(x) = IF Accepted(k, vs) = {} THEN 0 ELSE 1}
          BY <4>1 DEF PureResults, vs
        <5> QED  BY <3>1, <4>2, <5>1
      <4> QED  BY <3>5, <4>3, FS_EmptySet
    <3>6. batch' = {} => /\ budget' = 1
                         /\ \A s \in Symbols : ShownPure(s) => Kind[s] \in todo'
      <4> SUFFICES ASSUME batch' = {}
                   PROVE  /\ budget' = 1
                          /\ \A s \in Symbols : ShownPure(s) => Kind[s] \in todo'
        OBVIOUS
      <4>1. batch = {} /\ r = {}  BY <3>1
      <4>2. budget = 1 /\ \A s \in Symbols : ShownPure(s) => Kind[s] \in todo
        BY <3>2, <4>1 DEF PureSound
      <4>3. budget' = 1  BY <3>1, <4>1, <4>2, FS_EmptySet
      <4> QED  BY <3>2, <3>5, <4>1, <4>2, <4>3
    <3>7. \A q \in batch' : q.sym \in Symbols /\ ShownPure(q.sym)
      BY <3>1, <3>2, <3>4 DEF PureSound
    <3> QED  BY <2>o, <3>2, <3>6, <3>7 DEF PureSound
  <2>3. CASE EndRead
    <3>1. /\ pc = "read" /\ pc' = "merge" /\ (todo = {} \/ budget <= 0)
          /\ UNCHANGED <<batch, res>>
      BY <2>3 DEF EndRead
    <3>2. batch = {} => Nothing
      BY <3>1 DEF PureSound, Nothing
    <3> QED  BY <2>o, <3>1, <3>2 DEF PureSound, Nothing
  <2>4. ASSUME NEW r \in batch \cup {Blank}, ReturnPure(r) PROVE PureSound'
    <3>1. /\ pc = "merge" /\ pc' = "done" /\ res' = <<Result(r, FALSE)>>
          /\ r \in batch \/ batch = {}
      BY <2>4 DEF ReturnPure
    <3>2. CASE batch = {}
      BY <2>o, <3>1, <3>2 DEF PureSound, Nothing
    <3>3. CASE r \in batch
      <4>1. r.sym \in Symbols /\ ShownPure(r.sym)  BY <3>1, <3>3 DEF PureSound
      <4>2. 1 \in DOMAIN res' /\ res'[1].sym = r.sym
        <5>1. \A x : 1 \in DOMAIN <<x>> /\ <<x>>[1] = x  OBVIOUS
        <5> QED  BY <3>1, <5>1 DEF Result
      <4> QED  BY <2>o, <3>1, <4>1, <4>2 DEF PureSound
    <3> QED  BY <3>1, <3>2, <3>3
  <2>5. ASSUME NEW r \in batch, Merge(r) PROVE PureSound'  BY <2>5 DEF Merge
  <2>6. CASE ReturnFull  BY <2>6 DEF ReturnFull, Merged
  <2>7. CASE InvertPass  BY <2>7 DEF InvertPass, Merged
  <2>8. CASE ClosePass  BY <2>8 DEF ClosePass, Merged
  <2>9. CASE LayerDone  BY <2>9 DEF LayerDone, Merged
  <2>10. CASE LayersDone
    BY <2>10, <2>l, ScenesAssumption DEF LayersDone
  <2>11. CASE FilterPair  BY <2>11 DEF FilterPair, PureSound
  <2>12. CASE FilterNext  BY <2>12 DEF FilterNext, PureSound
  <2>13. ASSUME NEW i \in DOMAIN res, Erase(i) PROVE PureSound'
    BY <2>13 DEF Erase, PureSound
  <2>14. CASE ReturnFiltered  BY <2>14 DEF ReturnFiltered, PureSound
  <2>15. CASE UNCHANGED vars
    <3>1. UNCHANGED <<pc, batch, res, budget, todo>>  BY <2>15 DEF vars, search
    <3> QED  BY <2>o, <3>1, OptionsFixed DEF PureSound, Nothing
  <2> QED
    BY <2>1, <2>2, <2>3, <2>4, <2>5, <2>6, <2>7, <2>8, <2>9, <2>10, <2>11,
       <2>12, <2>13, <2>14, <2>15 DEF Next
<1> QED
  BY <1>1, <1>2, TypeCorrect, LoopPositionKept, CacheCurrentKept, PTL DEF Spec

(* With no limit on their number a finished search reports every symbol    *)
(* some pass shows without error, as long as nothing hides it, and of a    *)
(* pure image the only one there is to decode: whatever the options, the   *)
(* order of the readers, what they return and which layers have contrast.  *)
(* INT_MAX stands for "no limit" and must exceed what can be found.        *)
THEOREM SearchIsComplete ==
  ASSUME INT_MAX > 3 * Cardinality(Barcode)
  PROVE  Spec => []SearchComplete
<1>1. TypeOK /\ ExpectedKept /\ PureSound => SearchComplete
  <2> SUFFICES ASSUME TypeOK, ExpectedKept, PureSound, pc = "done", NEW s \in Symbols
               PROVE  IF IsPure
                        THEN ~ReturnErrors /\ ShownPure(s) /\ (\A t \in Symbols \ {s} : ~ShownPure(t))
                               => Reported(s)
                        ELSE MaxNumberOfSymbols = 0 /\ Shown(s, "None") /\ NothingHides(s)
                               => Reported(s)
    BY DEF SearchComplete
  <2>1. CASE IsPure  BY <2>1 DEF PureSound, Nothing, Reported
  <2>2. CASE ~IsPure  BY <2>2 DEF ExpectedKept, NoLimit, Expected
  <2> QED  BY <2>1, <2>2
<1> QED  BY <1>1, TypeCorrect, ExpectedKeptAlways, PureSoundKept, PTL
=============================================================================
