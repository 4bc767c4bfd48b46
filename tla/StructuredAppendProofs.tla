----------------------- MODULE StructuredAppendProofs -----------------------
(***************************************************************************)
(* MergedExactly for every set of printed symbols, lists and calls: the    *)
(* barcodes stay in the caller's list and keep their ids; sorting numbers  *)
(* a set of them by their indices; a list matches exactly if it holds a    *)
(* whole message, whose text its contents then join to.                    *)
(***************************************************************************)
EXTENDS StructuredAppend, Recursions, FiniteSetTheorems, SequenceTheorems

(* A set in the order of a strict and total relation: ranks are a          *)
(* numbering of its elements.                                              *)
Below(P, R, i) == {j \in P : <<j, i>> \in R}
Orders(R, P) ==
  /\ \A i \in P : <<i, i>> \notin R
  /\ \A i, j, k \in P : <<i, j>> \in R /\ <<j, k>> \in R => <<i, k>> \in R
  /\ \A i, j \in P : i = j \/ <<i, j>> \in R \/ <<j, i>> \in R

LEMMA Ranks ==
  ASSUME NEW P, IsFiniteSet(P), NEW R, Orders(R, P)
  PROVE  /\ Cardinality(P) \in Nat
         /\ \A i \in P : Cardinality(Below(P, R, i)) + 1 \in 1 .. Cardinality(P)
         /\ \A i, j \in P : <<i, j>> \in R =>
              Cardinality(Below(P, R, i)) < Cardinality(Below(P, R, j))
         /\ \A k \in 1 .. Cardinality(P) : \E i \in P : Cardinality(Below(P, R, i)) + 1 = k
<1> DEFINE n == Cardinality(P)
           rank == [i \in P |-> Cardinality(Below(P, R, i)) + 1]
<1>1. n \in Nat  BY FS_CardinalityType
<1>2. ASSUME NEW i \in P
      PROVE  /\ IsFiniteSet(Below(P, R, i)) /\ Cardinality(Below(P, R, i)) \in Nat
             /\ IsFiniteSet(Below(P, R, i) \cup {i})
             /\ Cardinality(Below(P, R, i) \cup {i}) = Cardinality(Below(P, R, i)) + 1
  <2>1. Below(P, R, i) \in SUBSET P /\ i \notin Below(P, R, i)  BY DEF Below, Orders
  <2>2. IsFiniteSet(Below(P, R, i))  BY <2>1, FS_Subset
  <2> QED  BY <2>1, <2>2, FS_CardinalityType, FS_AddElement
<1>3. ASSUME NEW i \in P  PROVE Cardinality(Below(P, R, i)) + 1 \in 1 .. n
  <2>1. Below(P, R, i) \cup {i} \in SUBSET P  BY DEF Below
  <2>2. Cardinality(Below(P, R, i) \cup {i}) <= n  BY <2>1, FS_Subset
  <2> HIDE DEF n
  <2> QED  BY <1>1, <1>2, <2>2
<1>4. ASSUME NEW i \in P, NEW j \in P, <<i, j>> \in R
      PROVE  Cardinality(Below(P, R, i)) < Cardinality(Below(P, R, j))
  <2>1. \A k \in P : <<k, i>> \in R => <<k, j>> \in R  BY <1>4 DEF Orders
  <2>2. Below(P, R, i) \cup {i} \in SUBSET Below(P, R, j)  BY <1>4, <2>1 DEF Below
  <2>3. Cardinality(Below(P, R, i) \cup {i}) <= Cardinality(Below(P, R, j))
    BY <1>2, <2>2, FS_Subset
  <2>4. Cardinality(Below(P, R, i)) \in Nat /\ Cardinality(Below(P, R, j)) \in Nat
        /\ Cardinality(Below(P, R, i) \cup {i}) = Cardinality(Below(P, R, i)) + 1
    BY <1>2
  <2> QED  BY <2>3, <2>4
<1>5. \A k \in 1 .. n : \E i \in P : rank[i] = k
  <2>1. rank \in [P -> 1 .. n]  BY <1>3
  <2>6. \A i \in P : rank[i] = Cardinality(Below(P, R, i)) + 1  OBVIOUS
  <2> HIDE DEF rank
  <2>2. \A i, j \in P : rank[i] = rank[j] => i = j
    <3> SUFFICES ASSUME NEW i \in P, NEW j \in P, i # j  PROVE rank[i] # rank[j]
      OBVIOUS
    <3>1. Cardinality(Below(P, R, i)) \in Nat /\ Cardinality(Below(P, R, j)) \in Nat  BY <1>2
    <3>2. \/ Cardinality(Below(P, R, i)) < Cardinality(Below(P, R, j))
          \/ Cardinality(Below(P, R, j)) < Cardinality(Below(P, R, i))
      <4>1. <<i, j>> \in R \/ <<j, i>> \in R  BY DEF Orders
      <4> QED  BY <1>4, <4>1
    <3>3. Cardinality(Below(P, R, i)) + 1 # Cardinality(Below(P, R, j)) + 1  BY <3>1, <3>2
    <3>4. rank[i] = Cardinality(Below(P, R, i)) + 1 /\ rank[j] = Cardinality(Below(P, R, j)) + 1
      BY <2>6
    <3> QED  BY <3>3, <3>4
  <2>3. rank \in Injection(P, 1 .. n)  BY <2>1, <2>2 DEF Injection, IsInjective
  <2>4. IsFiniteSet(1 .. n) /\ Cardinality(1 .. n) = n
    <3>1. 1 \in Int /\ n \in Int  BY <1>1
    <3>2. IsFiniteSet(1 .. n) /\ Cardinality(1 .. n) = IF 1 > n THEN 0 ELSE n - 1 + 1
      BY <3>1, FS_Interval
    <3> HIDE DEF n
    <3> QED  BY <1>1, <3>2
  <2>5. rank \in Surjection(P, 1 .. n)  BY <2>3, <2>4, FS_Injection
  <2> QED  BY <2>5 DEF Surjection
<1>6. \A k \in 1 .. n : \E i \in P : Cardinality(Below(P, R, i)) + 1 = k  BY <1>5
<1> QED  BY <1>1, <1>3, <1>4, <1>6

(* A growing numbering of 1 .. n by 1 .. n is the identity.                *)
LEMMA GrowingIsIdentity ==
  ASSUME NEW n \in Nat, NEW g \in [1 .. n -> 1 .. n],
         \A k, l \in 1 .. n : k < l => g[k] < g[l]
  PROVE  \A k \in 1 .. n : g[k] = k
<1> SUFFICES ASSUME NEW k \in 1 .. n  PROVE g[k] = k  OBVIOUS
<1> DEFINE Up == {d \in 0 .. n - 1 : d + 1 <= g[d + 1]}
           Down == {d \in 0 .. n - 1 : g[n - d] <= n - d}
<1>1. n - 1 \in Nat  OBVIOUS
<1>2. \A d \in 0 .. n - 1 : d \in Up
  <2>1. 0 \in Up  BY <1>1
  <2>2. ASSUME NEW d \in 0 .. (n - 1) - 1, d \in Up  PROVE d + 1 \in Up
    <3>1. d + 1 \in 1 .. n /\ (d + 1) + 1 \in 1 .. n /\ d + 1 \in 0 .. n - 1  OBVIOUS
    <3>2. g[d + 1] < g[(d + 1) + 1]  BY <3>1
    <3>3. g[d + 1] \in Int /\ g[(d + 1) + 1] \in Int /\ d + 1 <= g[d + 1]  BY <2>2, <3>1
    <3> QED  BY <3>1, <3>2, <3>3
  <2> HIDE DEF Up
  <2> QED  BY <1>1, <2>1, <2>2, Induct
<1>3. \A d \in 0 .. n - 1 : d \in Down
  <2>1. 0 \in Down  BY <1>1
  <2>2. ASSUME NEW d \in 0 .. (n - 1) - 1, d \in Down  PROVE d + 1 \in Down
    <3>1. n - d \in 1 .. n /\ n - (d + 1) \in 1 .. n /\ d + 1 \in 0 .. n - 1  OBVIOUS
    <3>2. g[n - (d + 1)] < g[n - d]  BY <3>1
    <3>3. g[n - d] \in Int /\ g[n - (d + 1)] \in Int /\ g[n - d] <= n - d  BY <2>2, <3>1
    <3> QED  BY <3>1, <3>2, <3>3
  <2> HIDE DEF Down
  <2> QED  BY <1>1, <2>1, <2>2, Induct
<1>4. k - 1 \in 0 .. n - 1 /\ (k - 1) + 1 = k /\ n - k \in 0 .. n - 1 /\ n - (n - k) = k
  OBVIOUS
<1>5. k <= g[k]  BY <1>2, <1>4
<1>6. g[k] <= k  BY <1>3, <1>4
<1> QED  BY <1>5, <1>6

-----------------------------------------------------------------------------
(* What FlattenSeq returns: its partial concatenations.                    *)
Joins(f, n, seqs, T) ==
  /\ f \in [1 .. n -> Seq(T)] /\ f[1] = seqs[1]
  /\ \A i \in 2 .. n : f[i] = f[i - 1] \o seqs[i]

LEMMA FlattenIs ==
  ASSUME NEW T, NEW n \in Nat, n # 0, NEW seqs \in [1 .. n -> Seq(T)]
  PROVE  \E f : Joins(f, n, seqs, T) /\ FlattenSeq(seqs) = f[n]
<1> DEFINE Calls(f) == f = [i \in 1 .. n |-> IF i = 1 THEN seqs[i] ELSE f[i - 1] \o seqs[i]]
           step == [p \in (1 .. n) \X Seq(T) |-> p[2] \o seqs[p[1]]]
           start == <<>>
<1>1. Len(seqs) = n /\ seqs \in Seq(Seq(T))
  <2>1. seqs \in Seq(Seq(T))  BY SeqDef
  <2>2. DOMAIN seqs = 1 .. n  OBVIOUS
  <2> QED  BY <2>1, <2>2, LenProperties
<1>2. start \in Seq(T) /\ \A s \in Seq(T) : start \o s = s
  BY EmptySeq, ConcatEmptySeq
<1>3. step \in [(1 .. n) \X Seq(T) -> Seq(T)]
  <2>1. \A p \in (1 .. n) \X Seq(T) : p[2] \o seqs[p[1]] \in Seq(T)  BY ConcatProperties
  <2> QED  BY <2>1
<1>4. \A i \in 1 .. n : \A s \in Seq(T) : step[<<i, s>>] = s \o seqs[i]  OBVIOUS
<1> HIDE DEF step, start
<1>5. PICK g : Iterates(g, n, Seq(T), start, step)  BY <1>2, <1>3, Recursion
<1>6. g \in [0 .. n -> Seq(T)] /\ g[0] = start
      /\ \A i \in 1 .. n : g[i] = g[i - 1] \o seqs[i]
  <2>1. g \in [0 .. n -> Seq(T)]
        /\ g = [m \in 0 .. n |-> IF m = 0 THEN start ELSE step[<<m, g[m - 1]>>]]
    BY <1>5 DEF Iterates
  <2>2. g[0] = start  BY <2>1
  <2>3. ASSUME NEW i \in 1 .. n  PROVE g[i] = g[i - 1] \o seqs[i]
    <3>1. i \in 0 .. n /\ i # 0 /\ i - 1 \in 0 .. n  OBVIOUS
    <3>2. g[i] = step[<<i, g[i - 1]>>]  BY <2>1, <3>1
    <3>3. g[i - 1] \in Seq(T)  BY <2>1, <3>1
    <3> QED  BY <1>4, <3>2, <3>3
  <2> QED  BY <2>1, <2>2, <2>3
<1> DEFINE h == [i \in 1 .. n |-> g[i]]
<1>7. h = [i \in 1 .. n |-> IF i = 1 THEN seqs[i] ELSE h[i - 1] \o seqs[i]]
  <2>1. ASSUME NEW i \in 1 .. n
        PROVE  g[i] = IF i = 1 THEN seqs[i] ELSE h[i - 1] \o seqs[i]
    <3>1. CASE i = 1
      <4>1. g[i] = start \o seqs[i]
        <5>1. g[i] = g[i - 1] \o seqs[i]  BY <1>6
        <5>2. i - 1 = 0 /\ g[0] = start  BY <1>6, <3>1
        <5> QED  BY <5>1, <5>2
      <4>2. seqs[i] \in Seq(T)  OBVIOUS
      <4> QED  BY <1>2, <3>1, <4>1, <4>2
    <3>2. CASE i # 1
      <4>1. i - 1 \in 1 .. n /\ h[i - 1] = g[i - 1]  BY <3>2
      <4> QED  BY <1>6, <3>2, <4>1
    <3> QED  BY <3>1, <3>2
  <2>2. \A i \in 1 .. n : h[i] = IF i = 1 THEN seqs[i] ELSE h[i - 1] \o seqs[i]  BY <2>1
  <2>3. h = [i \in 1 .. n |-> h[i]]  OBVIOUS
  <2> HIDE DEF h
  <2> QED  BY <2>2, <2>3, Zenon
<1>8. Calls(h)  BY <1>7
<1> DEFINE f == CHOOSE x : Calls(x)
<1> HIDE DEF h
<1>9. Calls(f)  BY <1>8, Zenon
<1>10. FlattenSeq(seqs) = f[n]
  BY <1>1 DEF FlattenSeq
<1> HIDE DEF f
<1>11. f[1] = seqs[1] /\ \A i \in 2 .. n : f[i] = f[i - 1] \o seqs[i]
  <2>1. f = [i \in 1 .. n |-> IF i = 1 THEN seqs[i] ELSE f[i - 1] \o seqs[i]]  BY <1>9
  <2>2. 1 \in 1 .. n /\ \A i \in 2 .. n : i \in 1 .. n /\ i # 1  OBVIOUS
  <2> HIDE DEF Calls
  <2>3. \A i \in 1 .. n : f[i] = IF i = 1 THEN seqs[i] ELSE f[i - 1] \o seqs[i]  BY <2>1, Zenon
  <2> QED  BY <2>2, <2>3
<1> DEFINE S == {d \in 0 .. n - 1 : f[d + 1] \in Seq(T)}
<1>12. \A d \in 0 .. n - 1 : d \in S
  <2>1. 0 \in S
    <3>1. seqs[1] \in Seq(T)  OBVIOUS
    <3> QED  BY <1>11, <3>1
  <2>2. ASSUME NEW d \in 0 .. (n - 1) - 1, d \in S  PROVE d + 1 \in S
    <3>1. (d + 1) + 1 \in 2 .. n /\ ((d + 1) + 1) - 1 = d + 1 /\ d + 1 \in 0 .. n - 1  OBVIOUS
    <3>2. f[(d + 1) + 1] = f[d + 1] \o seqs[(d + 1) + 1]  BY <1>11, <3>1
    <3>3. f[d + 1] \in Seq(T) /\ seqs[(d + 1) + 1] \in Seq(T)  BY <2>2, <3>1
    <3>4. f[d + 1] \o seqs[(d + 1) + 1] \in Seq(T)  BY <3>3, ConcatProperties, Zenon
    <3> HIDE DEF f
    <3>5. f[(d + 1) + 1] \in Seq(T)  BY <3>2, <3>4, Zenon
    <3> QED  BY <3>1, <3>5
  <2>3. n - 1 \in Nat  OBVIOUS
  <2> HIDE DEF S
  <2> QED  BY <2>1, <2>2, <2>3, Induct
<1>13. f \in [1 .. n -> Seq(T)]
  <2>1. ASSUME NEW i \in 1 .. n  PROVE f[i] \in Seq(T)
    <3>1. i - 1 \in 0 .. n - 1 /\ (i - 1) + 1 = i  OBVIOUS
    <3> QED  BY <1>12, <3>1
  <2>2. DOMAIN f = 1 .. n /\ f = [i \in 1 .. n |-> f[i]]  BY <1>9
  <2> QED  BY <2>1, <2>2
<1> QED  BY <1>10, <1>11, <1>13 DEF Joins

LEMMA FlattenSingles ==
  ASSUME NEW T, NEW n \in Nat, n # 0, NEW t \in [1 .. n -> T]
  PROVE  FlattenSeq([i \in 1 .. n |-> <<t[i]>>]) = t
<1> DEFINE seqs == [i \in 1 .. n |-> <<t[i]>>]
<1>1. seqs \in [1 .. n -> Seq(T)]  OBVIOUS
<1>2. \A i \in 1 .. n : seqs[i] = <<t[i]>>  OBVIOUS
<1> HIDE DEF seqs
<1>3. PICK f : Joins(f, n, seqs, T) /\ FlattenSeq(seqs) = f[n]  BY <1>1, FlattenIs
<1> DEFINE S == {d \in 0 .. n - 1 : Len(f[d + 1]) = d + 1 /\ \A k \in 1 .. d + 1 : f[d + 1][k] = t[k]}
<1>4. 0 \in S
  <2>1. f[1] = <<t[1]>>  BY <1>2, <1>3 DEF Joins
  <2>2. f[0 + 1] = <<t[1]>> /\ 0 \in 0 .. n - 1  BY <2>1
  <2>3. Len(f[0 + 1]) = 0 + 1  BY <2>2
  <2>4. \A k \in 1 .. 0 + 1 : k = 1  OBVIOUS
  <2>5. \A k \in 1 .. 0 + 1 : f[0 + 1][k] = t[k]
    <3>1. f[0 + 1][1] = t[1]  BY <2>2
    <3> QED  BY <2>4, <3>1
  <2> QED  BY <2>2, <2>3, <2>5
<1>5. ASSUME NEW d \in 0 .. (n - 1) - 1, d \in S  PROVE d + 1 \in S
  <2> DEFINE i == (d + 1) + 1
  <2>1. i \in 2 .. n /\ i \in 1 .. n /\ i - 1 = d + 1 /\ d + 1 \in 1 .. n /\ d + 1 \in 0 .. n - 1  OBVIOUS
  <2>2. f[i] = f[d + 1] \o <<t[i]>>  BY <1>2, <1>3, <2>1 DEF Joins
  <2>3. f[d + 1] \in Seq(T) /\ Len(f[d + 1]) = d + 1 /\ \A k \in 1 .. d + 1 : f[d + 1][k] = t[k]
    BY <1>3, <1>5, <2>1 DEF Joins
  <2>4. t[i] \in T  BY <2>1
  <2> HIDE DEF i
  <2>5. Len(f[i]) = i /\ \A k \in 1 .. i : f[i][k] = t[k]
    <3>1. <<t[i]>> \in Seq(T) /\ Len(<<t[i]>>) = 1 /\ <<t[i]>>[1] = t[i]  BY <2>4
    <3>2. /\ Len(f[d + 1] \o <<t[i]>>) = (d + 1) + 1
          /\ \A k \in 1 .. (d + 1) + 1 : (f[d + 1] \o <<t[i]>>)[k] =
               IF k <= d + 1 THEN f[d + 1][k] ELSE <<t[i]>>[k - (d + 1)]
      BY <2>3, <3>1, ConcatProperties
    <3>3. i = (d + 1) + 1  BY <2>1
    <3>4. \A k \in 1 .. i : k <= d + 1 => k \in 1 .. d + 1  OBVIOUS
    <3>5. \A k \in 1 .. i : ~(k <= d + 1) => k = i /\ k - (d + 1) = 1  BY <3>3
    <3> QED  BY <2>2, <2>3, <3>1, <3>2, <3>3, <3>4, <3>5
  <2> QED  BY <2>1, <2>5 DEF i
<1>6. n - 1 \in Nat  OBVIOUS
<1>7. n - 1 \in S
  <2> HIDE DEF S
  <2>1. \A d \in 0 .. n - 1 : d \in S  BY <1>4, <1>5, <1>6, Induct
  <2> QED  BY <2>1, <1>6
<1>8. (n - 1) + 1 = n /\ n \in 1 .. n  OBVIOUS
<1>9. f[n] \in Seq(T) /\ Len(f[n]) = n /\ \A k \in 1 .. n : f[n][k] = t[k]
  BY <1>3, <1>7, <1>8 DEF Joins
<1>10. f[n] = t
  <2>1. f[n] \in [1 .. n -> T]  BY <1>9
  <2> QED  BY <1>9, <2>1
<1> QED  BY <1>3, <1>10 DEF seqs

-----------------------------------------------------------------------------
(* Types, and that the caller's list holds every barcode, in the order of  *)
(* reading.                                                                *)
InfoIds == {Info(s).id : s \in Symbols} \cup {""}
Infos == [index : Nat \cup {-1}, count : Nat \cup {-1}, id : InfoIds]
Barcodes == [content : Seq(Symbols), placed : BOOLEAN, sai : Infos, error : BOOLEAN]

HeapType ==
  /\ data \in Seq(Barcodes) /\ found = [i \in 1 .. Len(data) |-> i]
  /\ results \subseteq DOMAIN data /\ calls \in 0 .. MaxCalls

LEMMA InfoType ==
  ASSUME NEW s \in Symbols
  PROVE  /\ Info(s) \in Infos
         /\ Info(s).index = s.index /\ Info(s).index \in Nat /\ Info(s).count \in Nat
<1>1. /\ s.symbology \in {"QRCode", "DataMatrix", "MaxiCode", "Aztec", "PDF417"}
      /\ s.index \in Nat /\ s.size \in Nat
  BY SymbolsAssumption
<1>2. QRCodeCount(s) \in Nat  BY <1>1 DEF QRCodeCount
<1>3. MaxiCodeCount(s) \in Nat /\ AztecCount(s) \in Nat
  BY <1>1 DEF MaxiCodeCount, AztecCount, Sensible
<1>4. PDF417Count(s) \in Nat  BY <1>1 DEF PDF417Count
<1>5. DataMatrixCount(s) \in Nat  BY <1>1 DEF DataMatrixCount
<1> DEFINE count == CASE s.symbology = "QRCode" -> QRCodeCount(s)
               [] s.symbology = "DataMatrix" -> DataMatrixCount(s)
               [] s.symbology = "MaxiCode" -> MaxiCodeCount(s)
               [] s.symbology = "Aztec" -> AztecCount(s)
               [] s.symbology = "PDF417" -> PDF417Count(s)
           id == IF s.symbology = "MaxiCode" THEN "" ELSE s.id
<1>6. count \in Nat
  <2> HIDE DEF id
  <2>1. CASE s.symbology = "QRCode"  BY <1>2, <2>1
  <2>2. CASE s.symbology = "DataMatrix"  BY <1>5, <2>2
  <2>3. CASE s.symbology = "MaxiCode"  BY <1>3, <2>3
  <2>4. CASE s.symbology = "Aztec"  BY <1>3, <2>4
  <2>5. CASE s.symbology = "PDF417"  BY <1>4, <2>5
  <2> QED  BY <1>1, <2>1, <2>2, <2>3, <2>4, <2>5
<1>7. Info(s) = [index |-> s.index, count |-> count, id |-> id]  BY DEF Info
<1> HIDE DEF count, id
<1>8. Info(s).id \in InfoIds  BY DEF InfoIds
<1>9. id \in InfoIds /\ Info(s).index = s.index /\ Info(s).count = count  BY <1>7, <1>8
<1> QED  BY <1>1, <1>6, <1>7, <1>9 DEF Infos

LEMMA BarcodeType ==
  ASSUME NEW s \in Symbols
  PROVE  /\ BarcodeData(s) \in Barcodes
         /\ ~BarcodeData(s).error => BarcodeData(s).content = <<s>> /\ BarcodeData(s).sai = Info(s)
         /\ BarcodeData(s).sai.index # -1 =>
              BarcodeData(s).content = <<s>> /\ BarcodeData(s).sai = Info(s)
         /\ BarcodeData(s).content \in {<<>>, <<s>>}
         /\ BarcodeData(s).error = s.damaged
<1>1. s.damaged \in BOOLEAN  BY SymbolsAssumption
<1>2. Info(s) \in Infos  BY InfoType
<1>3. NoInfo \in Infos  BY DEF NoInfo, Infos, InfoIds
<1>4. CASE s.damaged /\ ~KeepsParts(s)
  <2>1. BarcodeData(s) = [content |-> <<>>, placed |-> TRUE, sai |-> NoInfo, error |-> TRUE]
    BY <1>4 DEF BarcodeData
  <2>2. <<>> \in Seq(Symbols) /\ NoInfo.index = -1  BY EmptySeq DEF NoInfo
  <2>3. BarcodeData(s) \in Barcodes  BY <1>3, <2>1, <2>2 DEF Barcodes
  <2> HIDE DEF BarcodeData
  <2>4. BarcodeData(s).error = TRUE /\ BarcodeData(s).sai = NoInfo /\ BarcodeData(s).content = <<>>
    BY <2>1
  <2> QED  BY <1>1, <1>4, <2>2, <2>3, <2>4
<1>5. CASE ~(s.damaged /\ ~KeepsParts(s))
  <2>1. BarcodeData(s) = [content |-> <<s>>, placed |-> TRUE, sai |-> Info(s), error |-> s.damaged]
    BY <1>5 DEF BarcodeData
  <2>2. <<s>> \in Seq(Symbols)  OBVIOUS
  <2>3. BarcodeData(s) \in Barcodes  BY <1>1, <1>2, <2>1, <2>2 DEF Barcodes
  <2> HIDE DEF BarcodeData
  <2>4. BarcodeData(s).error = s.damaged /\ BarcodeData(s).sai = Info(s) /\ BarcodeData(s).content = <<s>>
    BY <2>1
  <2> QED  BY <2>3, <2>4
<1> QED  BY <1>4, <1>5

LEMMA HeapParts ==
  ASSUME HeapType
  PROVE  /\ Len(data) \in Nat /\ DOMAIN data = 1 .. Len(data) /\ DOMAIN found = DOMAIN data
         /\ \A a \in DOMAIN data : found[a] = a
         /\ \A a \in DOMAIN data : data[a] \in Barcodes
         /\ ToSet(found) = DOMAIN data
<1>1. Len(data) \in Nat /\ DOMAIN data = 1 .. Len(data)  BY LenProperties DEF HeapType
<1>2. found = [i \in 1 .. Len(data) |-> i]  BY DEF HeapType
<1>3. DOMAIN found = DOMAIN data /\ \A a \in DOMAIN data : found[a] = a  BY <1>1, <1>2
<1>4. \A a \in DOMAIN data : data[a] \in Barcodes  BY <1>1, ElementOfSeq DEF HeapType
<1>5. ToSet(found) = DOMAIN data  BY <1>3 DEF ToSet
<1> QED  BY <1>1, <1>3, <1>4, <1>5

-----------------------------------------------------------------------------
(* Sorted numbers the set of a list, in the order of the indices.          *)
IsSorting(list, P) ==
  /\ Cardinality(P) \in Nat /\ list \in [1 .. Cardinality(P) -> P] /\ Len(list) = Cardinality(P)
  /\ \A k, l \in 1 .. Cardinality(P) : k < l => Before(list[k], list[l])
  /\ \A a \in P : \E k \in 1 .. Cardinality(P) : list[k] = a

LEMMA SortedIs ==
  ASSUME HeapType, NEW P, P \subseteq DOMAIN data
  PROVE  IsFiniteSet(P) /\ IsSorting(Sorted(P), P)
<1> DEFINE R == {p \in P \X P : Before(p[1], p[2])}
           n == Cardinality(P)
           Rank(i) == Cardinality({j \in P : Before(j, i)}) + 1
<1>1. /\ DOMAIN data = 1 .. Len(data) /\ Len(data) \in Nat
      /\ \A a \in P : found[a] = a /\ a \in Nat /\ data[a].sai.index \in Int
  <2>1. \A a \in P : data[a] \in Barcodes  BY HeapParts
  <2>2. \A a \in P : data[a].sai.index \in Int  BY <2>1 DEF Barcodes, Infos
  <2> QED  BY <2>2, HeapParts
<1>2. IsFiniteSet(P)
  <2>1. 1 \in Int /\ Len(data) \in Int  BY <1>1
  <2>2. IsFiniteSet(1 .. Len(data))  BY <2>1, FS_Interval
  <2>3. P \in SUBSET (1 .. Len(data))  BY <1>1
  <2> QED  BY <2>2, <2>3, FS_Subset
<1>3. \A i, j \in P : <<i, j>> \in R <=> Before(i, j)  OBVIOUS
<1>4. Orders(R, P)
  <2>1. \A i, j \in P : Before(i, j) <=>
          \/ data[i].sai.index < data[j].sai.index
          \/ data[i].sai.index = data[j].sai.index /\ i < j
    BY <1>1 DEF Before
  <2>2. \A i \in P : ~Before(i, i)  BY <1>1, <2>1
  <2>3. \A i, j, k \in P : Before(i, j) /\ Before(j, k) => Before(i, k)  BY <1>1, <2>1
  <2>4. \A i, j \in P : i = j \/ Before(i, j) \/ Before(j, i)  BY <1>1, <2>1
  <2> HIDE DEF R
  <2> QED  BY <1>3, <2>2, <2>3, <2>4 DEF Orders
<1>5. \A i \in P : Below(P, R, i) = {j \in P : Before(j, i)}
  BY <1>3 DEF Below
<1> HIDE DEF R
<1>6. /\ n \in Nat
      /\ \A i \in P : Rank(i) \in 1 .. n
      /\ \A i, j \in P : Before(i, j) => Rank(i) < Rank(j)
      /\ \A k \in 1 .. n : \E i \in P : Rank(i) = k
  <2>1. /\ n \in Nat
        /\ \A i \in P : Cardinality(Below(P, R, i)) + 1 \in 1 .. n
        /\ \A i, j \in P : <<i, j>> \in R =>
             Cardinality(Below(P, R, i)) < Cardinality(Below(P, R, j))
        /\ \A k \in 1 .. n : \E i \in P : Cardinality(Below(P, R, i)) + 1 = k
    BY <1>2, <1>4, Ranks
  <2>2. \A i \in P : Rank(i) = Cardinality(Below(P, R, i)) + 1  BY <1>5
  <2> HIDE DEF Rank, n
  <2>3. \A i \in P : Rank(i) \in 1 .. n  BY <2>1, <2>2
  <2>4. ASSUME NEW i \in P, NEW j \in P, Before(i, j)  PROVE Rank(i) < Rank(j)
    <3>1. Cardinality(Below(P, R, i)) < Cardinality(Below(P, R, j))  BY <1>3, <2>1, <2>4
    <3>2. Cardinality(Below(P, R, i)) + 1 \in Nat /\ Cardinality(Below(P, R, j)) + 1 \in Nat
      BY <2>1
    <3>3. Cardinality(Below(P, R, i)) \in Int /\ Cardinality(Below(P, R, j)) \in Int
      <4>1. \A k \in P : IsFiniteSet(Below(P, R, k))  BY <1>2, FS_Subset DEF Below
      <4> QED  BY <4>1, FS_CardinalityType
    <3> QED  BY <2>2, <3>1, <3>3
  <2>5. \A k \in 1 .. n : \E i \in P : Rank(i) = k  BY <2>1, <2>2
  <2> QED  BY <2>1, <2>3, <2>4, <2>5
<1> DEFINE list == [k \in 1 .. n |-> CHOOSE i \in P : Rank(i) = k]
<1>7. Sorted(P) = list
  <2>1. Sorted(P) = [k \in 1 .. n |-> found[CHOOSE i \in P : Rank(i) = k]]  BY DEF Sorted
  <2>2. \A k \in 1 .. n : (CHOOSE i \in P : Rank(i) = k) \in P  BY <1>6
  <2> HIDE DEF Rank, n
  <2>3. \A k \in 1 .. n : found[CHOOSE i \in P : Rank(i) = k] = CHOOSE i \in P : Rank(i) = k
    BY <1>1, <2>2
  <2> QED  BY <2>1, <2>3
<1> HIDE DEF Rank, n
<1>8. \A k \in 1 .. n : list[k] \in P /\ Rank(list[k]) = k
  <2> SUFFICES ASSUME NEW k \in 1 .. n  PROVE list[k] \in P /\ Rank(list[k]) = k  OBVIOUS
  <2>1. \E i \in P : Rank(i) = k  BY <1>6
  <2>2. list[k] = CHOOSE i \in P : Rank(i) = k  OBVIOUS
  <2> HIDE DEF list
  <2> QED  BY <2>1, <2>2, Zenon
<1>9. list \in [1 .. n -> P] /\ Len(list) = n
  <2>1. list \in [1 .. n -> P]  BY <1>8
  <2>2. list \in Seq(P) /\ DOMAIN list = 1 .. n  BY <1>6, <2>1, SeqDef
  <2> HIDE DEF list
  <2> QED  BY <1>6, <2>1, <2>2, LenProperties
<1> HIDE DEF list
<1>10. \A i, j \in P : i = j \/ Before(i, j) \/ Before(j, i)
  BY <1>3, <1>4 DEF Orders
<1>11. \A i \in P : Rank(i) \in Int  BY <1>6
<1>12. ASSUME NEW k \in 1 .. n, NEW l \in 1 .. n, k < l  PROVE Before(list[k], list[l])
  <2>1. list[k] \in P /\ list[l] \in P /\ Rank(list[k]) = k /\ Rank(list[l]) = l  BY <1>8
  <2>2. list[k] # list[l]  BY <1>12, <2>1
  <2>3. ~Before(list[l], list[k])
    <3>1. Before(list[l], list[k]) => Rank(list[l]) < Rank(list[k])  BY <1>6, <2>1
    <3>2. ~(l < k)  BY <1>6, <1>12
    <3> QED  BY <2>1, <3>1, <3>2
  <2> QED  BY <1>10, <2>1, <2>2, <2>3
<1>13. ASSUME NEW a \in P  PROVE \E k \in 1 .. n : list[k] = a
  <2>1. Rank(a) \in 1 .. n  BY <1>6
  <2>2. list[Rank(a)] \in P /\ Rank(list[Rank(a)]) = Rank(a)  BY <1>8, <2>1
  <2>3. list[Rank(a)] = a
    <3> SUFFICES ASSUME list[Rank(a)] # a  PROVE FALSE  OBVIOUS
    <3>1. CASE Before(list[Rank(a)], a)
      <4>1. Rank(list[Rank(a)]) < Rank(a)  BY <1>6, <2>2, <3>1
      <4> QED  BY <1>11, <2>2, <4>1
    <3>2. CASE Before(a, list[Rank(a)])
      <4>1. Rank(a) < Rank(list[Rank(a)])  BY <1>6, <2>2, <3>2
      <4> QED  BY <1>11, <2>2, <4>1
    <3> QED  BY <1>10, <2>2, <3>1, <3>2
  <2> QED  BY <2>1, <2>3
<1> QED  BY <1>2, <1>6, <1>7, <1>9, <1>12, <1>13 DEF IsSorting, n

-----------------------------------------------------------------------------
(* What merging the barcodes at a set of places gives.                     *)
OfId(id) == {p \in Symbols : Info(p).id = id}
OwnContent(a) == data[a].content \in Seq(OfId(data[a].sai.id))
SameId(P) == \A a, b \in P : data[a].sai.id = data[b].sai.id

LEMMA FlattenType ==
  ASSUME NEW T, NEW n \in Nat, n # 0, NEW seqs \in [1 .. n -> Seq(T)]
  PROVE  FlattenSeq(seqs) \in Seq(T)
<1>1. PICK f : Joins(f, n, seqs, T) /\ FlattenSeq(seqs) = f[n]  BY FlattenIs
<1>2. n \in 1 .. n  OBVIOUS
<1> QED  BY <1>1, <1>2 DEF Joins

LEMMA SortedParts ==
  ASSUME HeapType, NEW P, P \subseteq DOMAIN data, P # {}
  PROVE  LET list == Sorted(P)
             n == Cardinality(P)
         IN  /\ n \in Nat /\ n # 0 /\ DOMAIN list = 1 .. n
             /\ Head(list) = list[1] /\ Last(list) = list[n] /\ Len(list) = n
             /\ Head(list) \in P /\ Last(list) \in P /\ \A k \in 1 .. n : list[k] \in P
             /\ Matching(list) <=> data[Last(list)].sai.count = n /\ SameId(P)
<1> DEFINE list == Sorted(P)
           n == Cardinality(P)
<1>1. IsSorting(list, P) /\ IsFiniteSet(P)  BY SortedIs
<1> HIDE DEF list
<1>2. n \in Nat /\ n # 0
  <2>1. n = 0 => P = {}  BY <1>1, FS_EmptySet
  <2> QED  BY <1>1, <2>1 DEF IsSorting
<1> HIDE DEF n
<1>3. list \in [1 .. n -> P] /\ Len(list) = n  BY <1>1 DEF IsSorting, n
<1>4. Head(list) = list[1] /\ Last(list) = list[n]
  <2>1. list \in Seq(P)  BY <1>2, <1>3, SeqDef
  <2>2. list # <<>>  BY <1>2, <1>3
  <2>3. Head(list) = list[1]  BY <2>1, <2>2
  <2> QED  BY <1>3, <2>3 DEF Last
<1>5. 1 \in 1 .. n /\ n \in 1 .. n  BY <1>2
<1>6. (\A i \in DOMAIN list : data[list[i]].sai.id = data[Head(list)].sai.id) <=> SameId(P)
  <2>1. ASSUME \A i \in DOMAIN list : data[list[i]].sai.id = data[Head(list)].sai.id,
               NEW a \in P, NEW b \in P
        PROVE  data[a].sai.id = data[b].sai.id
    <3>1. PICK k \in 1 .. n : list[k] = a  BY <1>1 DEF IsSorting, n
    <3>2. PICK l \in 1 .. n : list[l] = b  BY <1>1 DEF IsSorting, n
    <3>3. DOMAIN list = 1 .. n  BY <1>3
    <3>4. data[a].sai.id = data[Head(list)].sai.id  BY <2>1, <3>1, <3>3
    <3>5. data[b].sai.id = data[Head(list)].sai.id  BY <2>1, <3>2, <3>3
    <3> QED  BY <3>4, <3>5
  <2>2. ASSUME SameId(P), NEW i \in DOMAIN list
        PROVE  data[list[i]].sai.id = data[Head(list)].sai.id
    <3>1. list[i] \in P /\ Head(list) \in P  BY <1>3, <1>4, <1>5
    <3> QED  BY <2>2, <3>1 DEF SameId
  <2> QED  BY <2>1, <2>2 DEF SameId
<1>7. Matching(list) <=> data[Last(list)].sai.count = n /\ SameId(P)
  BY <1>3, <1>6 DEF Matching
<1> QED  BY <1>2, <1>3, <1>4, <1>5, <1>7 DEF list, n

LEMMA MergedParts ==
  ASSUME HeapType, NEW P, P \subseteq DOMAIN data, P # {}
  PROVE  LET list == Sorted(P)
             h == Head(list)
         IN  /\ Merged(list) \in Barcodes
             /\ Merged(list).sai.id = data[h].sai.id /\ Merged(list).sai.index = -1
             /\ Merged(list).error <=> data[h].error \/ ~Matching(list)
             /\ (\A a \in P : OwnContent(a)) /\ SameId(P)
                  => Merged(list).content \in Seq(OfId(data[h].sai.id))
<1> DEFINE list == Sorted(P)
           n == Cardinality(P)
           h == Head(list)
           seqs == [i \in DOMAIN list |-> data[list[i]].content]
<1>1. /\ n \in Nat /\ n # 0 /\ DOMAIN list = 1 .. n /\ h \in P
      /\ \A k \in 1 .. n : list[k] \in P
  BY SortedParts
<1>2. Merged(list) = [content |-> FlattenSeq(seqs), placed |-> FALSE,
                      sai |-> [data[h].sai EXCEPT !.index = -1],
                      error |-> data[h].error \/ ~Matching(list)]
  BY DEF Merged
<1>3. /\ \A a \in P : data[a] \in Barcodes
      /\ \A a \in P : data[a].content \in Seq(Symbols) /\ data[a].sai \in Infos /\ data[a].error \in BOOLEAN
  <2>1. \A a \in P : data[a] \in Barcodes  BY HeapParts
  <2> QED  BY <2>1 DEF Barcodes
<1> HIDE DEF n, list, h
<1>4. FlattenSeq(seqs) \in Seq(Symbols)
  <2>1. seqs \in [1 .. n -> Seq(Symbols)]  BY <1>1, <1>3
  <2> HIDE DEF seqs
  <2> QED  BY <1>1, <2>1, FlattenType
<1>5. ASSUME \A a \in P : OwnContent(a), SameId(P)
      PROVE  FlattenSeq(seqs) \in Seq(OfId(data[h].sai.id))
  <2>1. \A a \in P : data[a].content \in Seq(OfId(data[h].sai.id))
    BY <1>1, <1>5 DEF OwnContent, SameId
  <2>2. seqs \in [1 .. n -> Seq(OfId(data[h].sai.id))]  BY <1>1, <2>1
  <2> HIDE DEF seqs
  <2> QED  BY <1>1, <2>2, FlattenType
<1> HIDE DEF seqs
<1>6. /\ [data[h].sai EXCEPT !.index = -1] \in Infos
      /\ [data[h].sai EXCEPT !.index = -1].id = data[h].sai.id
      /\ [data[h].sai EXCEPT !.index = -1].index = -1
  <2>1. data[h].sai \in Infos  BY <1>1, <1>3
  <2> QED  BY <2>1 DEF Infos
<1>7. (data[h].error \/ ~Matching(list)) \in BOOLEAN  OBVIOUS
<1>8. Merged(list) \in Barcodes  BY <1>2, <1>4, <1>6, <1>7 DEF Barcodes
<1>9. /\ Merged(list).sai.id = data[h].sai.id /\ Merged(list).sai.index = -1
      /\ Merged(list).error = (data[h].error \/ ~Matching(list))
      /\ Merged(list).content = FlattenSeq(seqs)
  <2> DEFINE e == data[h].error \/ ~Matching(list)
             info == [data[h].sai EXCEPT !.index = -1]
             c == FlattenSeq(seqs)
  <2>1. Merged(list) = [content |-> c, placed |-> FALSE, sai |-> info, error |-> e]  BY <1>2
  <2>2. info.id = data[h].sai.id /\ info.index = -1  BY <1>6
  <2> HIDE DEF e, info, c, Merged
  <2>3. Merged(list).content = c /\ Merged(list).sai = info  BY <2>1
  <2>4. Merged(list).error = e  BY <2>1
  <2> QED  BY <2>2, <2>3, <2>4 DEF e, c
<1> QED  BY <1>5, <1>8, <1>9 DEF list, h

-----------------------------------------------------------------------------
(* The lists of MergeStructuredAppendSequences.                            *)
IsList(l) == \E id \in Ids : l = Sorted(SequenceOf(id))

LEMMA ListsParts ==
  ASSUME HeapType, NEW id \in Ids
  PROVE  /\ SequenceOf(id) \subseteq DOMAIN data /\ SequenceOf(id) # {}
         /\ SequenceOf(id) = {a \in DOMAIN data : IsPartOfSequence(data[a]) /\ data[a].sai.id = id}
         /\ SameId(SequenceOf(id)) /\ Head(Sorted(SequenceOf(id))) \in SequenceOf(id)
         /\ data[Head(Sorted(SequenceOf(id)))].sai.id = id
<1>1. SequenceOf(id) = {a \in DOMAIN data : IsPartOfSequence(data[a]) /\ data[a].sai.id = id}
  BY HeapParts DEF SequenceOf
<1>2. \E a \in DOMAIN data : IsPartOfSequence(data[a]) /\ data[a].sai.id = id
  BY HeapParts DEF Ids
<1>3. SequenceOf(id) # {} /\ SequenceOf(id) \subseteq DOMAIN data  BY <1>1, <1>2
<1>4. SameId(SequenceOf(id))  BY <1>1 DEF SameId
<1> HIDE DEF SequenceOf
<1>5. Head(Sorted(SequenceOf(id))) \in SequenceOf(id)  BY <1>3, SortedParts
<1> QED  BY <1>1, <1>3, <1>4, <1>5

(* A barcode that comes first in a list becomes what that list gives.      *)
LEMMA HeadsOfLists ==
  ASSUME HeapType, MergeStructuredAppendSequences
  PROVE  /\ \A id \in Ids : LET l == Sorted(SequenceOf(id)) IN data'[Head(l)] = Merged(l)
         /\ \A a \in DOMAIN data : \/ data'[a] = data[a]
                                   \/ \E id \in Ids : a = Head(Sorted(SequenceOf(id)))
         /\ DOMAIN data' = DOMAIN data
         /\ \A a : a \in results' <=> \E id \in Ids :
              a = Head(Sorted(SequenceOf(id))) /\ IsValid(data'[a])
<1> DEFINE lists == {Sorted(SequenceOf(id)) : id \in Ids}
           chosen(a) == CHOOSE l \in lists : Head(l) = a
<1>1. data' = [a \in DOMAIN data |->
                 IF \E l \in lists : Head(l) = a THEN Merged(chosen(a)) ELSE data[a]]
  BY DEF MergeStructuredAppendSequences
<1>2. ASSUME NEW id \in Ids
      PROVE  chosen(Head(Sorted(SequenceOf(id)))) = Sorted(SequenceOf(id))
  <2> DEFINE a == Head(Sorted(SequenceOf(id)))
  <2>1. Sorted(SequenceOf(id)) \in lists  OBVIOUS
  <2>2. ASSUME NEW l \in lists, Head(l) = a  PROVE l = Sorted(SequenceOf(id))
    <3>1. PICK other \in Ids : l = Sorted(SequenceOf(other))  OBVIOUS
    <3>2. data[a].sai.id = id  BY ListsParts
    <3>3. data[a].sai.id = other  BY <2>2, <3>1, ListsParts
    <3> QED  BY <3>1, <3>2, <3>3
  <2>3. \E l \in lists : Head(l) = a  BY <2>1
  <2> HIDE DEF lists, a
  <2>4. chosen(a) \in lists /\ Head(chosen(a)) = a  BY <2>3
  <2> QED  BY <2>2, <2>4 DEF a
<1> HIDE DEF chosen
<1>3. ASSUME NEW id \in Ids  PROVE data'[Head(Sorted(SequenceOf(id)))] = Merged(Sorted(SequenceOf(id)))
  <2> DEFINE a == Head(Sorted(SequenceOf(id)))
  <2>1. a \in DOMAIN data  BY ListsParts
  <2>2. Sorted(SequenceOf(id)) \in lists  OBVIOUS
  <2> HIDE DEF lists
  <2>3. data'[a] = Merged(chosen(a))  BY <1>1, <2>1, <2>2
  <2> QED  BY <1>2, <2>3
<1>4. ASSUME NEW a \in DOMAIN data, ~\E id \in Ids : a = Head(Sorted(SequenceOf(id)))
      PROVE  data'[a] = data[a]
  <2>1. ~\E l \in lists : Head(l) = a  BY <1>4
  <2> HIDE DEF lists
  <2> QED  BY <1>1, <2>1
<1>5. DOMAIN data' = DOMAIN data  BY <1>1
<1>6. results' = {a \in {Head(l) : l \in lists} : IsValid(data'[a])}
  BY DEF MergeStructuredAppendSequences
<1>7. \A a : a \in results' <=> \E id \in Ids :
        a = Head(Sorted(SequenceOf(id))) /\ IsValid(data'[a])
  BY <1>6
<1> QED  BY <1>3, <1>4, <1>5, <1>7

-----------------------------------------------------------------------------
(* Contents belong to the id they are reported with, but for one that is   *)
(* in error and was joined from barcodes of different ids, all of which    *)
(* are still in the list.  Before the first merge a barcode is what its    *)
(* decoder made of it.                                                     *)
IdsInv ==
  \A a \in DOMAIN data :
    /\ IsPartOfSequence(data[a]) => OwnContent(a)
    /\ ~data[a].error => OwnContent(a)
    /\ OwnContent(a) \/ ~SameId(DOMAIN data)
FreshInv ==
  calls = 0 => \A a \in DOMAIN data : \E s \in Symbols : data[a] = BarcodeData(s)
MergeInv == HeapType /\ IdsInv /\ FreshInv

LEMMA InitInv == Init => MergeInv
<1> SUFFICES ASSUME Init  PROVE MergeInv  OBVIOUS
<1>1. data = <<>> /\ found = <<>> /\ results = {} /\ calls = 0  BY DEF Init
<1>2. DOMAIN data = {} /\ Len(data) = 0 /\ data \in Seq(Barcodes)  BY <1>1
<1>3. found = [i \in 1 .. Len(data) |-> i]  BY <1>1, <1>2
<1>4. calls \in 0 .. MaxCalls  BY <1>1, BoundsAssumption
<1> QED  BY <1>1, <1>2, <1>3, <1>4 DEF MergeInv, HeapType, IdsInv, FreshInv

LEMMA NewBarcodeOwn ==
  ASSUME NEW s \in Symbols
  PROVE  BarcodeData(s).content \in Seq(OfId(BarcodeData(s).sai.id))
<1>1. \A id : <<>> \in Seq(OfId(id))  BY EmptySeq
<1>2. CASE BarcodeData(s).content = <<>>  BY <1>1, <1>2
<1>3. CASE BarcodeData(s).content = <<s>>
  <2>1. CASE s.damaged /\ ~KeepsParts(s)
    <3>1. BarcodeData(s) = [content |-> <<>>, placed |-> TRUE, sai |-> NoInfo, error |-> TRUE]
      BY <2>1 DEF BarcodeData
    <3> HIDE DEF BarcodeData
    <3>2. BarcodeData(s).content = <<>>  BY <3>1
    <3> QED  BY <1>2, <3>2
  <2>2. CASE ~(s.damaged /\ ~KeepsParts(s))
    <3>1. BarcodeData(s) = [content |-> <<s>>, placed |-> TRUE, sai |-> Info(s), error |-> s.damaged]
      BY <2>2 DEF BarcodeData
    <3> HIDE DEF BarcodeData
    <3>2. BarcodeData(s).sai = Info(s)  BY <3>1
    <3>3. s \in OfId(Info(s).id)  BY DEF OfId
    <3>4. <<s>> \in Seq(OfId(Info(s).id))  BY <3>3
    <3> QED  BY <1>3, <3>2, <3>4
  <2> QED  BY <2>1, <2>2
<1> QED  BY <1>2, <1>3, BarcodeType

LEMMA ReadInv ==
  ASSUME MergeInv, NEW s \in Symbols, Read(s)
  PROVE  MergeInv'
<1> DEFINE b == BarcodeData(s)
           n == Len(data)
<1>1. /\ data' = Append(data, b) /\ found' = Append(found, n + 1)
      /\ results' = results /\ calls' = calls
  BY DEF Read
<1>2. /\ n \in Nat /\ DOMAIN data = 1 .. n /\ data \in Seq(Barcodes)
      /\ found = [i \in 1 .. n |-> i] /\ results \subseteq DOMAIN data /\ calls \in 0 .. MaxCalls
  BY HeapParts DEF MergeInv, HeapType
<1>3. b \in Barcodes  BY BarcodeType
<1>4. b.content \in Seq(OfId(b.sai.id))  BY NewBarcodeOwn
<1> HIDE DEF b, n
<1>5. /\ data' \in Seq(Barcodes) /\ Len(data') = n + 1 /\ DOMAIN data' = 1 .. n + 1
      /\ data'[n + 1] = b /\ \A a \in 1 .. n : data'[a] = data[a]
  <2>1. Len(data) = n  BY DEF n
  <2> QED  BY <1>1, <1>2, <1>3, <2>1, AppendProperties, LenProperties
<1>6. found' = [i \in 1 .. n + 1 |-> i]
  <2>1. found \in Seq(Nat) /\ Len(found) = n
    <3>1. found \in [1 .. n -> Nat]  BY <1>2
    <3> QED  BY <1>2, <3>1
  <2>2. n + 1 \in Nat  BY <1>2
  <2>3. Append(found, n + 1) = [i \in 1 .. n + 1 |-> IF i <= n THEN found[i] ELSE n + 1]
    BY <1>2, <2>1, <2>2
  <2>4. \A i \in 1 .. n + 1 : (IF i <= n THEN found[i] ELSE n + 1) = i
    BY <1>2
  <2> QED  BY <1>1, <2>3, <2>4
<1>7. \A a \in DOMAIN data' : (a \in DOMAIN data /\ data'[a] = data[a]) \/ a = n + 1
  BY <1>2, <1>5
<1>8. HeapType'
  <2>1. results' \subseteq DOMAIN data'  BY <1>1, <1>2, <1>5
  <2> QED  BY <1>1, <1>2, <1>5, <1>6, <2>1 DEF HeapType
<1>9. IdsInv'
  <2> SUFFICES ASSUME NEW a \in DOMAIN data'
               PROVE  /\ IsPartOfSequence(data'[a]) => OwnContent(a)'
                      /\ ~data'[a].error => OwnContent(a)'
                      /\ OwnContent(a)' \/ ~SameId(DOMAIN data)'
    BY DEF IdsInv
  <2>1. CASE a = n + 1
    <3>1. OwnContent(a)'  BY <1>4, <1>5, <2>1 DEF OwnContent
    <3> QED  BY <3>1
  <2>2. CASE a \in DOMAIN data /\ data'[a] = data[a]
    <3>1. OwnContent(a)' <=> OwnContent(a)  BY <2>2 DEF OwnContent
    <3>2. SameId(DOMAIN data)' => SameId(DOMAIN data)
      BY <1>2, <1>5 DEF SameId
    <3> QED  BY <2>2, <3>1, <3>2 DEF MergeInv, IdsInv
  <2> QED  BY <1>7, <2>1, <2>2
<1>10. FreshInv'
  <2> SUFFICES ASSUME calls' = 0, NEW a \in DOMAIN data'
               PROVE  \E t \in Symbols : data'[a] = BarcodeData(t)
    BY DEF FreshInv
  <2>1. CASE a = n + 1  BY <1>5, <2>1 DEF b
  <2>2. CASE a \in DOMAIN data /\ data'[a] = data[a]
    BY <1>1, <2>2 DEF MergeInv, FreshInv
  <2> QED  BY <1>7, <2>1, <2>2
<1> QED  BY <1>8, <1>9, <1>10 DEF MergeInv

(* A call changes barcodes of the list only to what merging some set of    *)
(* them gives: everything, or those of an id.                              *)
Unchanged(a) == data'[a] = data[a]
Joined(a, P) ==
  /\ P \subseteq DOMAIN data /\ P # {} /\ a = Head(Sorted(P)) /\ data'[a] = Merged(Sorted(P))
  /\ P = DOMAIN data \/ ((\A b \in P : IsPartOfSequence(data[b])) /\ SameId(P))
Merges ==
  /\ DOMAIN data' = DOMAIN data /\ data' = [a \in DOMAIN data |-> data'[a]]
  /\ \A a \in DOMAIN data : Unchanged(a) \/ \E P : Joined(a, P)
  /\ \A a \in results' : a \in DOMAIN data /\ (IsValid(data'[a]) => \E P : Joined(a, P))
  /\ found' = found /\ calls' = calls + 1 /\ calls < MaxCalls

LEMMA SequenceMerges ==
  ASSUME HeapType, MergeStructuredAppendSequence
  PROVE  Merges
<1> DEFINE h == Head(Sorted(DOMAIN found))
<1>1. DOMAIN found = DOMAIN data  BY HeapParts
<1>2. calls < MaxCalls /\ calls' = calls + 1 /\ found' = found
  BY DEF MergeStructuredAppendSequence
<1>3. CASE found = <<>>
  <2>1. results' = {} /\ data' = data  BY <1>3 DEF MergeStructuredAppendSequence
  <2>2. DOMAIN data = {}  BY <1>1, <1>3
  <2>3. data = [a \in DOMAIN data |-> data[a]]  BY DEF HeapType
  <2> QED  BY <1>2, <2>1, <2>2, <2>3 DEF Merges
<1>4. CASE found # <<>>
  <2>1. results' = {h} /\ data' = [data EXCEPT ![h] = Merged(Sorted(DOMAIN data))]
    BY <1>1, <1>4 DEF MergeStructuredAppendSequence
  <2>2. DOMAIN data # {}
    <3>1. Len(data) = 0 => found = [i \in 1 .. 0 |-> i]  BY DEF HeapType
    <3>2. [i \in 1 .. 0 |-> i] = <<>>  OBVIOUS
    <3>3. Len(data) \in Nat /\ Len(data) # 0 /\ DOMAIN data = 1 .. Len(data)
      BY <1>4, <3>1, <3>2, HeapParts
    <3> QED  BY <3>3
  <2>3. h \in DOMAIN data /\ h = Head(Sorted(DOMAIN data))  BY <1>1, <2>2, SortedParts
  <2> HIDE DEF h
  <2>4. data'[h] = Merged(Sorted(DOMAIN data))  BY <2>1, <2>3
  <2>5. Joined(h, DOMAIN data)  BY <2>2, <2>3, <2>4 DEF Joined
  <2>6. \A a \in DOMAIN data : a # h => Unchanged(a)  BY <2>1 DEF Unchanged
  <2>7. DOMAIN data' = DOMAIN data /\ data' = [a \in DOMAIN data |-> data'[a]]
    <3>1. data = [a \in DOMAIN data |-> data[a]]  BY DEF HeapType
    <3> DEFINE new == Merged(Sorted(DOMAIN data))
    <3>2. data' = [data EXCEPT ![h] = new]  BY <2>1
    <3> HIDE DEF new
    <3> QED  BY <3>1, <3>2
  <2>8. \A a \in DOMAIN data : Unchanged(a) \/ \E P : Joined(a, P)  BY <2>5, <2>6
  <2>9. \A a \in results' : a \in DOMAIN data /\ (IsValid(data'[a]) => \E P : Joined(a, P))
    BY <2>1, <2>3, <2>5
  <2> QED  BY <1>2, <2>7, <2>8, <2>9 DEF Merges
<1> QED  BY <1>3, <1>4

LEMMA SequencesMerge ==
  ASSUME HeapType, MergeStructuredAppendSequences
  PROVE  Merges
<1>1. calls < MaxCalls /\ calls' = calls + 1 /\ found' = found
  BY DEF MergeStructuredAppendSequences
<1>2. data' = [a \in DOMAIN data |-> data'[a]]
  BY DEF MergeStructuredAppendSequences
<1>3. ASSUME NEW id \in Ids
      PROVE  /\ Joined(Head(Sorted(SequenceOf(id))), SequenceOf(id))
             /\ Head(Sorted(SequenceOf(id))) \in DOMAIN data
  <2> DEFINE P == SequenceOf(id)
             h == Head(Sorted(P))
  <2>1. P \subseteq DOMAIN data /\ P # {} /\ SameId(P) /\ h \in P  BY ListsParts
  <2>2. \A b \in P : IsPartOfSequence(data[b])  BY ListsParts
  <2>3. data'[h] = Merged(Sorted(P))  BY HeadsOfLists
  <2> HIDE DEF P
  <2>4. Joined(h, P)  BY <2>1, <2>2, <2>3 DEF Joined
  <2>5. h \in DOMAIN data  BY <2>1
  <2> QED  BY <2>4, <2>5 DEF P
<1>4. ASSUME NEW a \in DOMAIN data  PROVE Unchanged(a) \/ \E P : Joined(a, P)
  <2>1. CASE \E id \in Ids : a = Head(Sorted(SequenceOf(id)))
    <3>1. PICK id \in Ids : a = Head(Sorted(SequenceOf(id)))  BY <2>1
    <3>2. Joined(a, SequenceOf(id))  BY <1>3, <3>1
    <3> QED  BY <3>2
  <2>2. CASE ~\E id \in Ids : a = Head(Sorted(SequenceOf(id)))
    <3>1. data'[a] = data[a]  BY <2>2, HeadsOfLists
    <3> QED  BY <3>1 DEF Unchanged
  <2> QED  BY <2>1, <2>2
<1>5. ASSUME NEW a \in results'  PROVE a \in DOMAIN data /\ \E P : Joined(a, P)
  <2>1. PICK id \in Ids : a = Head(Sorted(SequenceOf(id)))  BY <1>5, HeadsOfLists
  <2>2. Joined(a, SequenceOf(id)) /\ a \in DOMAIN data  BY <1>3, <2>1
  <2> QED  BY <2>2
<1>6. DOMAIN data' = DOMAIN data  BY HeadsOfLists
<1> QED  BY <1>1, <1>2, <1>4, <1>5, <1>6 DEF Merges

(* Whatever a call joins, what comes out valid has one id.                 *)
LEMMA JoinedOwn ==
  ASSUME MergeInv, NEW a \in DOMAIN data, NEW P, Joined(a, P)
  PROVE  /\ data'[a] \in Barcodes /\ data'[a].sai.id = data[a].sai.id
         /\ ~IsPartOfSequence(data'[a])
         /\ \/ data'[a].content \in Seq(OfId(data[a].sai.id))
            \/ ~SameId(DOMAIN data) /\ data'[a].error
<1> DEFINE list == Sorted(P)
<1>1. /\ P \subseteq DOMAIN data /\ P # {} /\ a = Head(list) /\ data'[a] = Merged(list)
      /\ P = DOMAIN data \/ ((\A b \in P : IsPartOfSequence(data[b])) /\ SameId(P))
  BY DEF Joined
<1>2. HeapType  BY DEF MergeInv
<1>3. /\ Merged(list) \in Barcodes
      /\ Merged(list).sai.id = data[a].sai.id /\ Merged(list).sai.index = -1
      /\ Merged(list).error <=> data[a].error \/ ~Matching(list)
      /\ (\A b \in P : OwnContent(b)) /\ SameId(P)
           => Merged(list).content \in Seq(OfId(data[a].sai.id))
      /\ Matching(list) => SameId(P)
  BY <1>1, <1>2, MergedParts, SortedParts
<1> HIDE DEF list
<1>4. ~IsPartOfSequence(data'[a])  BY <1>1, <1>3 DEF IsPartOfSequence
<1>5. CASE SameId(P)
  <2>1. \A b \in P : OwnContent(b)  BY <1>1, <1>5 DEF MergeInv, IdsInv
  <2> QED  BY <1>1, <1>3, <1>4, <1>5, <2>1
<1>6. CASE ~SameId(P)
  <2>1. P = DOMAIN data  BY <1>1, <1>6
  <2>2. data'[a].error  BY <1>1, <1>3, <1>6
  <2> QED  BY <1>1, <1>3, <1>4, <1>6, <2>1, <2>2
<1> QED  BY <1>5, <1>6

LEMMA MergesInv ==
  ASSUME MergeInv, Merges
  PROVE  MergeInv'
<1>1. /\ HeapType /\ calls \in 0 .. MaxCalls /\ DOMAIN data' = DOMAIN data
      /\ found' = found /\ calls' = calls + 1 /\ calls < MaxCalls
  BY DEF MergeInv, HeapType, Merges
<1>2. \A a \in DOMAIN data : Unchanged(a) \/ \E P : Joined(a, P)  BY DEF Merges
<1>3. ASSUME NEW a \in DOMAIN data
      PROVE  data'[a] \in Barcodes /\ data'[a].sai.id = data[a].sai.id
  <2>1. data[a] \in Barcodes  BY <1>1, HeapParts
  <2>2. CASE Unchanged(a)  BY <2>1, <2>2 DEF Unchanged
  <2>3. CASE \E P : Joined(a, P)  BY <2>3, JoinedOwn
  <2> QED  BY <1>2, <2>2, <2>3
<1>4. data' \in Seq(Barcodes) /\ Len(data') = Len(data)
  <2>1. Len(data) \in Nat /\ DOMAIN data = 1 .. Len(data)  BY <1>1, HeapParts
  <2>2. data' \in [1 .. Len(data) -> Barcodes]  BY <1>3, <2>1 DEF Merges
  <2>3. data' \in Seq(Barcodes)  BY <2>1, <2>2, SeqDef
  <2>4. DOMAIN data' = 1 .. Len(data)  BY <1>1, <2>1
  <2> QED  BY <2>1, <2>3, <2>4, LenProperties
<1>5. HeapType'
  <2>1. results' \subseteq DOMAIN data'  BY <1>1 DEF Merges
  <2>2. calls' \in 0 .. MaxCalls  BY <1>1, BoundsAssumption
  <2> QED  BY <1>1, <1>4, <2>1, <2>2 DEF HeapType
<1>6. SameId(DOMAIN data)' <=> SameId(DOMAIN data)  BY <1>1, <1>3 DEF SameId
<1>7. IdsInv'
  <2> SUFFICES ASSUME NEW a \in DOMAIN data
               PROVE  /\ IsPartOfSequence(data'[a]) => OwnContent(a)'
                      /\ ~data'[a].error => OwnContent(a)'
                      /\ OwnContent(a)' \/ ~SameId(DOMAIN data)'
    BY <1>1 DEF IdsInv
  <2>1. OwnContent(a)' <=> data'[a].content \in Seq(OfId(data[a].sai.id))
    BY <1>3 DEF OwnContent, OfId
  <2>2. CASE Unchanged(a)
    <3>1. data'[a] = data[a]  BY <2>2 DEF Unchanged
    <3> QED  BY <1>6, <2>1, <3>1 DEF MergeInv, IdsInv, OwnContent
  <2>3. CASE \E P : Joined(a, P)
    <3>1. /\ ~IsPartOfSequence(data'[a])
          /\ \/ data'[a].content \in Seq(OfId(data[a].sai.id))
             \/ ~SameId(DOMAIN data) /\ data'[a].error
      BY <2>3, JoinedOwn
    <3> QED  BY <1>6, <2>1, <3>1
  <2> QED  BY <1>2, <2>2, <2>3
<1>8. FreshInv'  BY <1>1 DEF FreshInv
<1> QED  BY <1>5, <1>7, <1>8 DEF MergeInv

LEMMA StepInv == MergeInv /\ [Next]_vars => MergeInv'
<1> SUFFICES ASSUME MergeInv, [Next]_vars  PROVE MergeInv'  OBVIOUS
<1>1. CASE \E s \in Symbols : Read(s)  BY <1>1, ReadInv
<1>2. CASE MergeStructuredAppendSequence
  BY <1>2, SequenceMerges, MergesInv DEF MergeInv
<1>3. CASE MergeStructuredAppendSequences
  BY <1>3, SequencesMerge, MergesInv DEF MergeInv
<1>4. CASE UNCHANGED vars
  <2>1. data' = data /\ found' = found /\ results' = results /\ calls' = calls  BY <1>4 DEF vars
  <2> QED  BY <2>1 DEF MergeInv, HeapType, IdsInv, FreshInv, OwnContent, SameId
<1> QED  BY <1>1, <1>2, <1>3, <1>4 DEF Next

(* The list of the caller and the contents of its barcodes: MergeInv is an *)
(* invariant.                                                              *)
THEOREM ListKeepsBarcodes == Spec => []MergeInv
  BY InitInv, StepInv, PTL DEF Spec

-----------------------------------------------------------------------------
(* What the fields of a printed message tell.                              *)
LEMMA PartsFinite ==
  ASSUME NEW m
  PROVE  IsFiniteSet(PartsOf(m)) /\ Cardinality(PartsOf(m)) \in Nat /\ PartsOf(m) \subseteq Symbols
<1>1. PartsOf(m) \in SUBSET Symbols  BY DEF PartsOf
<1>2. IsFiniteSet(PartsOf(m))  BY <1>1, FiniteAssumption, FS_Subset
<1> QED  BY <1>1, <1>2, FS_CardinalityType

LEMMA PlacesNumber ==
  ASSUME NEW m \in Messages
  PROVE  /\ PartsOf(m) # {}
         /\ \A s \in PartsOf(m) : s.place \in 1 .. Cardinality(PartsOf(m))
         /\ \A s, t \in PartsOf(m) : s.place = t.place => s = t
         /\ \A k \in 1 .. Cardinality(PartsOf(m)) : \E s \in PartsOf(m) : s.place = k
<1> DEFINE n == Cardinality(PartsOf(m))
           place == [s \in PartsOf(m) |-> s.place]
<1>1. n \in Nat /\ IsFiniteSet(PartsOf(m))  BY PartsFinite
<1>2. PartsOf(m) # {} /\ {s.place : s \in PartsOf(m)} = 1 .. n  BY DEF Messages
<1> HIDE DEF n
<1>3. \A s \in PartsOf(m) : s.place \in 1 .. n  BY <1>2
<1>4. \A k \in 1 .. n : \E s \in PartsOf(m) : s.place = k
  <2> SUFFICES ASSUME NEW k \in 1 .. n  PROVE \E s \in PartsOf(m) : s.place = k  OBVIOUS
  <2>1. k \in {s.place : s \in PartsOf(m)}  BY <1>2
  <2> QED  BY <2>1
<1>5. place \in Surjection(PartsOf(m), 1 .. n)
  <2>1. place \in [PartsOf(m) -> 1 .. n]  BY <1>3
  <2>2. \A k \in 1 .. n : \E s \in PartsOf(m) : place[s] = k  BY <1>4
  <2> HIDE DEF place
  <2> QED  BY <2>1, <2>2 DEF Surjection
<1>6. Cardinality(1 .. n) = n
  <2>1. 1 \in Int /\ n \in Int  BY <1>1
  <2>2. Cardinality(1 .. n) = IF 1 > n THEN 0 ELSE n - 1 + 1  BY <2>1, FS_Interval
  <2> QED  BY <1>1, <2>2
<1>7. \A s, t \in PartsOf(m) : place[s] = place[t] => s = t
  <2> HIDE DEF place
  <2>1. Cardinality(PartsOf(m)) = Cardinality(1 .. n)  BY <1>6 DEF n
  <2>2. place \in Injection(PartsOf(m), 1 .. n)
    BY <1>1, <1>5, <2>1, FS_SurjSameCardinalityImpliesInj
  <2> QED  BY <2>2 DEF Injection, IsInjective
<1>8. \A s, t \in PartsOf(m) : s.place = t.place => s = t  BY <1>7
<1> QED  BY <1>2, <1>3, <1>4, <1>8 DEF n

LEMMA FieldsTell ==
  ASSUME NEW m \in Messages, NEW s \in PartsOf(m)
  PROVE  LET n == Cardinality(PartsOf(m))
         IN  /\ Info(s).index = s.place - 1 /\ Info(s).count \in {0, n}
             /\ s.place = n => Info(s).count = n
             /\ \A t \in PartsOf(m) : Info(s).id = Info(t).id
<1> DEFINE n == Cardinality(PartsOf(m))
<1>1. /\ s.symbology \in {"QRCode", "DataMatrix", "MaxiCode", "Aztec", "PDF417"}
      /\ s.index \in Nat /\ s.size \in Nat /\ s.last \in BOOLEAN
  BY SymbolsAssumption, PartsFinite
<1>2. n \in Nat /\ s.place \in 1 .. n  BY PartsFinite, PlacesNumber
<1>3. Printed(s, n) /\ \A t \in PartsOf(m) : Info(s).id = Info(t).id
  BY PrintedAssumption
<1> HIDE DEF n
<1>4. n > 1 /\ s.index = s.place - 1 /\ s.index < n  BY <1>2, <1>3 DEF Printed
<1>5. Info(s).index = s.index
  <2>1. s \in Symbols  BY PartsFinite
  <2> QED  BY <2>1, InfoType
<1>6. Info(s).count \in {0, n} /\ (s.place = n => Info(s).count = n)
  <2>1. CASE s.symbology = "QRCode"
    <3>1. Info(s).count = QRCodeCount(s)  BY <2>1 DEF Info
    <3>2. s.size = n - 1  BY <1>3, <2>1 DEF Printed
    <3>3. QRCodeCount(s) = n  BY <1>2, <3>2 DEF QRCodeCount
    <3> QED  BY <3>1, <3>3
  <2>2. CASE s.symbology = "DataMatrix"
    <3>1. Info(s).count = DataMatrixCount(s)  BY <2>2 DEF Info
    <3>2. n <= 16 /\ s.size = 17 - n  BY <1>3, <2>2 DEF Printed
    <3>3. DataMatrixCount(s) = n  BY <1>1, <1>2, <1>4, <3>2 DEF DataMatrixCount
    <3> QED  BY <3>1, <3>3
  <2>3. CASE s.symbology = "MaxiCode"
    <3>1. Info(s).count = MaxiCodeCount(s)  BY <2>3 DEF Info
    <3>2. s.size = n - 1  BY <1>3, <2>3 DEF Printed
    <3>3. MaxiCodeCount(s) = n  BY <1>1, <1>2, <1>4, <3>2 DEF MaxiCodeCount, Sensible
    <3> QED  BY <3>1, <3>3
  <2>4. CASE s.symbology = "Aztec"
    <3>1. Info(s).count = AztecCount(s)  BY <2>4 DEF Info
    <3>2. s.size = n - 1  BY <1>3, <2>4 DEF Printed
    <3>3. AztecCount(s) = n  BY <1>1, <1>2, <1>4, <3>2 DEF AztecCount, Sensible
    <3> QED  BY <3>1, <3>3
  <2>5. CASE s.symbology = "PDF417"
    <3>1. Info(s).count = PDF417Count(s)  BY <2>5 DEF Info
    <3>2. s.size \in {0, n} /\ (s.last <=> s.place = n)  BY <1>3, <2>5 DEF Printed
    <3>3. CASE s.size # 0
      <4>1. PDF417Count(s) = n  BY <3>2, <3>3 DEF PDF417Count
      <4> QED  BY <3>1, <4>1
    <3>4. CASE s.size = 0 /\ s.place = n
      <4>1. PDF417Count(s) = s.index + 1  BY <3>2, <3>4 DEF PDF417Count
      <4>2. s.index + 1 = n  BY <1>2, <1>4, <3>4
      <4> QED  BY <3>1, <4>1, <4>2
    <3>5. CASE s.size = 0 /\ s.place # n
      <4>1. PDF417Count(s) = 0  BY <3>2, <3>5 DEF PDF417Count
      <4> QED  BY <3>1, <3>5, <4>1
    <3> QED  BY <3>3, <3>4, <3>5
  <2> QED  BY <1>1, <2>1, <2>2, <2>3, <2>4, <2>5
<1> QED  BY <1>3, <1>4, <1>5, <1>6 DEF n

-----------------------------------------------------------------------------
(* A clean list before the first merge.                                    *)
Sym(a) == data[a].content[1]
CleanHeap ==
  /\ HeapType
  /\ \A a \in DOMAIN data :
       /\ Sym(a) \in Symbols /\ ~Sym(a).damaged /\ data[a].content = <<Sym(a)>>
       /\ data[a].sai = Info(Sym(a)) /\ ~data[a].error /\ IsPartOfSequence(data[a])
  /\ \A a, b \in DOMAIN data : Sym(a) = Sym(b) => a = b
  /\ \A a, b \in DOMAIN data :
       data[a].sai.id = data[b].sai.id => Sym(a).of = Sym(b).of

LEMMA CleanParts ==
  ASSUME MergeInv, calls = 0, Clean
  PROVE  CleanHeap
<1>1. ASSUME NEW a \in DOMAIN data
      PROVE  /\ Sym(a) \in Symbols /\ ~Sym(a).damaged /\ data[a].content = <<Sym(a)>>
             /\ data[a].sai = Info(Sym(a)) /\ ~data[a].error /\ IsPartOfSequence(data[a])
  <2>1. PICK s \in Symbols : data[a] = BarcodeData(s)  BY DEF MergeInv, FreshInv
  <2>2. ~data[a].error  BY DEF Clean
  <2>3. data[a].content = <<s>> /\ data[a].sai = Info(s) /\ ~s.damaged
    BY <2>1, <2>2, BarcodeType
  <2>4. Sym(a) = s  BY <2>3 DEF Sym
  <2>5. Info(s).index \in Nat /\ Info(s).count \in Nat  BY InfoType
  <2>6. IsPartOfSequence(data[a])  BY <2>3, <2>5 DEF IsPartOfSequence
  <2> QED  BY <2>2, <2>3, <2>4, <2>6
<1>2. ASSUME NEW a \in DOMAIN data, NEW b \in DOMAIN data, Sym(a) = Sym(b)  PROVE a = b
  <2>1. data[a].content = data[b].content  BY <1>1, <1>2
  <2> QED  BY <2>1 DEF Clean
<1>3. \A a, b \in DOMAIN data : data[a].sai.id = data[b].sai.id => Sym(a).of = Sym(b).of
  BY DEF Clean, Sym
<1> QED  BY <1>1, <1>2, <1>3 DEF CleanHeap, MergeInv

Symbs(P) == {Sym(a) : a \in P}

LEMMA SymbsCount ==
  ASSUME CleanHeap, NEW P, P \subseteq DOMAIN data
  PROVE  IsFiniteSet(Symbs(P)) /\ Cardinality(Symbs(P)) = Cardinality(P)
<1> DEFINE sym == [a \in P |-> Sym(a)]
<1>1. IsFiniteSet(P)  BY SortedIs DEF CleanHeap
<1>2. sym \in [P -> Symbs(P)]  BY DEF Symbs
<1>3. \A a, b \in P : sym[a] = sym[b] => a = b  BY DEF CleanHeap
<1>4. \A s \in Symbs(P) : \E a \in P : sym[a] = s  BY DEF Symbs
<1> HIDE DEF sym
<1>5. sym \in Bijection(P, Symbs(P))
  BY <1>2, <1>3, <1>4 DEF Bijection, Injection, IsInjective, Surjection
<1>6. ExistsBijection(P, Symbs(P))  BY <1>5 DEF ExistsBijection
<1> QED  BY <1>1, <1>6, FS_Bijection

(* A list of one id matches exactly if it is a message, and is then in its *)
(* order.                                                                  *)
LEMMA MatchingIsComplete ==
  ASSUME CleanHeap, NEW P, P \subseteq DOMAIN data, P # {}, SameId(P), Matching(Sorted(P))
  PROVE  \E m \in Messages : Symbs(P) = PartsOf(m)
<1> DEFINE list == Sorted(P)
           n == Cardinality(P)
           last == Last(list)
           s == Sym(last)
           m == s.of
           parts == PartsOf(m)
<1>1. n \in Nat /\ n # 0 /\ last \in P /\ data[last].sai.count = n
  BY SortedParts DEF CleanHeap
<1>2. s \in Symbols /\ ~s.damaged /\ Info(s).count = n
  BY <1>1 DEF CleanHeap
<1>3. Symbs(P) \in SUBSET parts
  <2>1. ASSUME NEW a \in P  PROVE Sym(a) \in parts
    <3>1. Sym(a).of = m /\ Sym(a) \in Symbols /\ ~Sym(a).damaged
      BY <1>1 DEF CleanHeap, SameId
    <3> QED  BY <3>1 DEF PartsOf
  <2> QED  BY <2>1 DEF Symbs
<1>4. IsFiniteSet(Symbs(P)) /\ Cardinality(Symbs(P)) = n  BY SymbsCount
<1>5. IsFiniteSet(parts) /\ Cardinality(parts) \in Nat  BY PartsFinite
<1> HIDE DEF n, s, parts
<1>6. n <= Cardinality(parts)  BY <1>3, <1>4, <1>5, FS_Subset
<1>7. m \in Messages
  <2> SUFFICES ASSUME m \notin Messages  PROVE FALSE  OBVIOUS
  <2>1. Info(s).count = 0 \/ Info(s).count > Cardinality(parts)
    BY <1>2, PrintedAssumption DEF parts
  <2> QED  BY <1>1, <1>2, <1>5, <1>6, <2>1
<1>8. n = Cardinality(parts)
  <2>1. s \in parts  BY <1>2 DEF parts, PartsOf
  <2>2. Info(s).count \in {0, Cardinality(parts)}  BY <1>7, <2>1, FieldsTell DEF parts
  <2> QED  BY <1>1, <1>2, <2>2
<1>9. Symbs(P) = parts  BY <1>3, <1>4, <1>5, <1>8, FS_Subset
<1> QED  BY <1>7, <1>9 DEF parts

LEMMA CompleteIsMatching ==
  ASSUME CleanHeap, NEW P, P \subseteq DOMAIN data, P # {},
         NEW m \in Messages, Symbs(P) = PartsOf(m)
  PROVE  /\ SameId(P) /\ Matching(Sorted(P))
         /\ Merged(Sorted(P)).content = Text(m) /\ ~Merged(Sorted(P)).error
<1> DEFINE list == Sorted(P)
           n == Cardinality(P)
           parts == PartsOf(m)
           t == [k \in 1 .. n |-> Sym(list[k])]
<1>1. /\ n \in Nat /\ n # 0 /\ DOMAIN list = 1 .. n /\ Head(list) \in P /\ Last(list) = list[n]
      /\ \A k \in 1 .. n : list[k] \in P
      /\ Matching(list) <=> data[Last(list)].sai.count = n /\ SameId(P)
  BY SortedParts DEF CleanHeap
<1>2. IsSorting(list, P)  BY SortedIs DEF CleanHeap
<1>3. Cardinality(parts) = n  BY SymbsCount
<1>4. \A a \in P : Sym(a) \in parts /\ Sym(a) \in Symbols /\ data[a].sai = Info(Sym(a)) /\ a \in Nat
      /\ data[a].content = <<Sym(a)>> /\ found[a] = a
  <2>1. \A a \in P : Sym(a) \in parts  BY DEF Symbs
  <2>2. \A a \in P : a \in Nat /\ found[a] = a  BY HeapParts DEF CleanHeap
  <2> QED  BY <2>1, <2>2 DEF CleanHeap
<1> HIDE DEF n, list, parts
<1>5. SameId(P)
  <2>1. \A a, b \in P : Info(Sym(a)).id = Info(Sym(b)).id  BY <1>4, FieldsTell DEF parts
  <2> QED  BY <1>4, <2>1 DEF SameId
<1>6. \A k \in 1 .. n : Sym(list[k]).place = k
  <2> DEFINE g == [k \in 1 .. n |-> Sym(list[k]).place]
  <2>1. g \in [1 .. n -> 1 .. n]
    <3>1. \A k \in 1 .. n : Sym(list[k]).place \in 1 .. n
      BY <1>1, <1>3, <1>4, PlacesNumber DEF parts
    <3> QED  BY <3>1
  <2>2. ASSUME NEW k \in 1 .. n, NEW l \in 1 .. n, k < l  PROVE g[k] < g[l]
    <3> DEFINE a == list[k]
               b == list[l]
    <3>1. a \in P /\ b \in P /\ Before(a, b)  BY <1>1, <1>2, <2>2 DEF IsSorting, n
    <3> HIDE DEF a, b
    <3>2. /\ data[a].sai.index = Sym(a).place - 1 /\ data[b].sai.index = Sym(b).place - 1
          /\ Sym(a).place \in 1 .. n /\ Sym(b).place \in 1 .. n
      BY <1>3, <1>4, <3>1, FieldsTell, PlacesNumber DEF parts
    <3>3. \/ Sym(a).place - 1 < Sym(b).place - 1
          \/ Sym(a).place - 1 = Sym(b).place - 1 /\ a < b
      BY <1>4, <3>1, <3>2 DEF Before
    <3>4. a < b => a # b  BY <1>4, <3>1
    <3>5. a # b => Sym(a).place # Sym(b).place
      <4>1. a # b => Sym(a) # Sym(b)  BY <3>1 DEF CleanHeap
      <4> QED  BY <1>4, <3>1, <4>1, PlacesNumber DEF parts
    <3>6. Sym(a).place < Sym(b).place  BY <3>2, <3>3, <3>4, <3>5
    <3> QED  BY <3>6 DEF a, b
  <2> HIDE DEF g
  <2>3. \A k \in 1 .. n : g[k] = k  BY <1>1, <2>1, <2>2, GrowingIsIdentity
  <2> QED  BY <2>3 DEF g
<1>7. data[Last(list)].sai.count = n
  <2>1. n \in 1 .. n  BY <1>1
  <2>2. list[n] \in P /\ Sym(list[n]).place = n  BY <1>1, <1>6, <2>1
  <2>3. Info(Sym(list[n])).count = n  BY <1>3, <1>4, <2>2, FieldsTell DEF parts
  <2> QED  BY <1>1, <1>4, <2>2, <2>3
<1>8. t = Text(m)
  <2>1. Text(m) = [k \in 1 .. n |-> CHOOSE s \in parts : s.place = k]
    BY <1>3 DEF Text, parts
  <2>2. ASSUME NEW k \in 1 .. n  PROVE (CHOOSE s \in parts : s.place = k) = Sym(list[k])
    <3> DEFINE c == CHOOSE s \in parts : s.place = k
    <3>1. Sym(list[k]) \in parts /\ Sym(list[k]).place = k  BY <1>1, <1>4, <1>6
    <3>2. c \in parts /\ c.place = k  BY <3>1
    <3> HIDE DEF c
    <3>3. \A x, y \in parts : x.place = y.place => x = y  BY PlacesNumber DEF parts
    <3>4. c = Sym(list[k])  BY <3>1, <3>2, <3>3
    <3> QED  BY <3>4 DEF c
  <2> QED  BY <2>1, <2>2
<1>9. FlattenSeq([i \in DOMAIN list |-> data[list[i]].content]) = t
  <2>1. t \in [1 .. n -> Symbols]  BY <1>1, <1>4
  <2>2. [i \in DOMAIN list |-> data[list[i]].content] = [i \in 1 .. n |-> <<t[i]>>]
    <3>1. \A i \in 1 .. n : data[list[i]].content = <<t[i]>>  BY <1>1, <1>4
    <3> QED  BY <1>1, <3>1
  <2> HIDE DEF t
  <2>3. FlattenSeq([i \in 1 .. n |-> <<t[i]>>]) = t  BY <1>1, <2>1, FlattenSingles
  <2> QED  BY <2>2, <2>3
<1>10. Matching(list)  BY <1>1, <1>5, <1>7
<1>11. Merged(list).content = FlattenSeq([i \in DOMAIN list |-> data[list[i]].content])
  BY DEF Merged
<1>12. ~Merged(list).error
  <2>1. Merged(list).error <=> data[Head(list)].error \/ ~Matching(list)
    BY MergedParts DEF list, CleanHeap
  <2>2. ~data[Head(list)].error  BY <1>1 DEF CleanHeap
  <2> QED  BY <1>10, <2>1, <2>2
<1> QED  BY <1>5, <1>8, <1>9, <1>10, <1>11, <1>12 DEF list

-----------------------------------------------------------------------------
LEMMA OwnContentOneId ==
  ASSUME NEW id, NEW c \in Seq(OfId(id))
  PROVE  \A p, q \in ToSet(c) : Info(p).id = Info(q).id
<1>1. \A p \in ToSet(c) : p \in OfId(id)
  <2>1. DOMAIN c = 1 .. Len(c) /\ Len(c) \in Nat  BY LenProperties
  <2>2. \A i \in DOMAIN c : c[i] \in OfId(id)  BY <2>1, ElementOfSeq
  <2> QED  BY <2>2 DEF ToSet
<1> QED  BY <1>1 DEF OfId

LEMMA OneIdStep ==
  ASSUME MergeInv, [Next]_vars
  PROVE  OneId \/ UNCHANGED vars
<1>1. CASE \E s \in Symbols : Read(s)
  <2>1. PICK s \in Symbols : Read(s)  BY <1>1
  <2>2. results' = results /\ data' = Append(data, BarcodeData(s))  BY <2>1 DEF Read
  <2>3. data \in Seq(Barcodes) /\ results \subseteq DOMAIN data /\ BarcodeData(s) \in Barcodes
    BY BarcodeType DEF MergeInv, HeapType
  <2>4. \A a \in DOMAIN data : data'[a] = data[a]
    BY <2>2, <2>3, AppendProperties, LenProperties
  <2>5. ASSUME NEW a \in results', IsValid(data'[a])
        PROVE  \A p, q \in ToSet(data'[a].content) : Info(p).id = Info(q).id
    <3>1. a \in DOMAIN data /\ data'[a] = data[a] /\ ~data[a].error
      BY <2>2, <2>3, <2>4, <2>5 DEF IsValid
    <3>2. data[a].content \in Seq(OfId(data[a].sai.id))
      BY <3>1 DEF MergeInv, IdsInv, OwnContent
    <3> QED  BY <3>1, <3>2, OwnContentOneId
  <2> QED  BY <2>5 DEF OneId
<1>2. ASSUME Merges  PROVE OneId
  <2>1. ASSUME NEW a \in results', IsValid(data'[a])
        PROVE  \A p, q \in ToSet(data'[a].content) : Info(p).id = Info(q).id
    <3>1. a \in DOMAIN data /\ \E P : Joined(a, P)  BY <1>2, <2>1 DEF Merges
    <3>2. data'[a].content \in Seq(OfId(data[a].sai.id))
      BY <2>1, <3>1, JoinedOwn DEF IsValid
    <3> QED  BY <3>2, OwnContentOneId
  <2> QED  BY <2>1 DEF OneId
<1>3. CASE MergeStructuredAppendSequence  BY <1>2, <1>3, SequenceMerges DEF MergeInv
<1>4. CASE MergeStructuredAppendSequences  BY <1>2, <1>4, SequencesMerge DEF MergeInv
<1> QED  BY <1>1, <1>3, <1>4 DEF Next

LEMMA AllSeen ==
  ASSUME CleanHeap
  PROVE  Seen = Symbs(DOMAIN data)
  BY DEF Seen, Symbs, Sym

LEMMA TextNotEmpty ==
  ASSUME NEW m \in Messages
  PROVE  Text(m) # <<>>
<1>1. 1 \in 1 .. Cardinality(PartsOf(m))
  <2>1. IsFiniteSet(PartsOf(m)) /\ PartsOf(m) # {} /\ Cardinality(PartsOf(m)) \in Nat
    BY PartsFinite, PlacesNumber
  <2>2. Cardinality(PartsOf(m)) # 0  BY <2>1, FS_EmptySet
  <2> QED  BY <2>1, <2>2
<1>2. DOMAIN Text(m) = 1 .. Cardinality(PartsOf(m))  BY DEF Text
<1>3. DOMAIN <<>> = {}  OBVIOUS
<1> HIDE DEF Text
<1> QED  BY <1>1, <1>2, <1>3

(* MergeStructuredAppendSequence on a clean list.                          *)
LEMMA SequenceCompletes ==
  ASSUME CleanHeap, MergeStructuredAppendSequence, NEW a \in results'
  PROVE  IsValid(data'[a]) <=>
           \E m \in Messages : Seen = PartsOf(m) /\ data'[a].content = Text(m)
<1> DEFINE P == DOMAIN data
           list == Sorted(P)
           h == Head(list)
<1>1. HeapType /\ DOMAIN found = P  BY HeapParts DEF CleanHeap
<1>2. found # <<>>  BY DEF MergeStructuredAppendSequence
<1>3. results' = {h} /\ data' = [data EXCEPT ![h] = Merged(list)]
  BY <1>1, <1>2 DEF MergeStructuredAppendSequence
<1>4. P # {}  BY <1>1, <1>2, HeapParts DEF HeapType
<1>5. h \in P /\ (Matching(list) => SameId(P))  BY <1>1, <1>4, SortedParts
<1>6. a = h  BY <1>3
<1>7. data'[a] = Merged(list)
  <2> HIDE DEF h, list
  <2> QED  BY <1>3, <1>5, <1>6
<1>8. Seen = Symbs(P)  BY AllSeen
<1>9. Merged(list).error <=> data[h].error \/ ~Matching(list)  BY <1>1, <1>4, MergedParts
<1> HIDE DEF h, list, P
<1>10. ASSUME IsValid(data'[a])
       PROVE  \E m \in Messages : Seen = PartsOf(m) /\ data'[a].content = Text(m)
  <2>1. Matching(list)  BY <1>7, <1>9, <1>10 DEF IsValid
  <2>2. PICK m \in Messages : Symbs(P) = PartsOf(m)
    BY <1>4, <1>5, <2>1, MatchingIsComplete DEF P, list
  <2>3. Merged(list).content = Text(m)  BY <1>4, <2>2, CompleteIsMatching DEF P, list
  <2> QED  BY <1>7, <1>8, <2>2, <2>3
<1>11. ASSUME NEW m \in Messages, Seen = PartsOf(m), data'[a].content = Text(m)
       PROVE  IsValid(data'[a])
  <2>1. Symbs(P) = PartsOf(m)  BY <1>8, <1>11
  <2>2. ~Merged(list).error  BY <1>4, <2>1, CompleteIsMatching DEF P, list
  <2>3. data'[a].content # <<>>  BY <1>11, TextNotEmpty
  <2> QED  BY <1>7, <2>2, <2>3 DEF IsValid
<1> QED  BY <1>10, <1>11

(* MergeStructuredAppendSequences on a clean list.                         *)
LEMMA SequencesComplete ==
  ASSUME CleanHeap, MergeStructuredAppendSequences
  PROVE  {data'[a].content : a \in results'} =
           {Text(m) : m \in {n \in Messages : PartsOf(n) \subseteq Seen}}
<1>1. HeapType /\ Seen = Symbs(DOMAIN data)  BY AllSeen DEF CleanHeap
<1>2. ASSUME NEW a \in results'
      PROVE  \E m \in Messages : PartsOf(m) \subseteq Seen /\ data'[a].content = Text(m)
  <2>1. PICK id \in Ids : a = Head(Sorted(SequenceOf(id))) /\ IsValid(data'[a])
    BY <1>1, <1>2, HeadsOfLists
  <2> DEFINE P == SequenceOf(id)
  <2>2. data'[a] = Merged(Sorted(P))  BY <1>1, <2>1, HeadsOfLists
  <2>3. P \subseteq DOMAIN data /\ P # {} /\ SameId(P)  BY <1>1, ListsParts
  <2> HIDE DEF P
  <2>4. Matching(Sorted(P))
    <3>1. Merged(Sorted(P)).error <=> data[Head(Sorted(P))].error \/ ~Matching(Sorted(P))
      BY <1>1, <2>3, MergedParts
    <3> QED  BY <2>1, <2>2, <3>1 DEF IsValid
  <2>5. PICK m \in Messages : Symbs(P) = PartsOf(m)
    BY <2>3, <2>4, MatchingIsComplete
  <2>6. data'[a].content = Text(m)  BY <2>2, <2>3, <2>5, CompleteIsMatching
  <2>7. Symbs(P) \subseteq Seen  BY <1>1, <2>3 DEF Symbs
  <2> QED  BY <2>5, <2>6, <2>7
<1>3. ASSUME NEW m \in Messages, PartsOf(m) \subseteq Seen
      PROVE  \E a \in results' : data'[a].content = Text(m)
  <2>1. PICK s \in PartsOf(m) : s \in Seen  BY <1>3, PlacesNumber
  <2>2. PICK b \in DOMAIN data : Sym(b) = s  BY <1>1, <2>1 DEF Symbs
  <2> DEFINE id == data[b].sai.id
             P == SequenceOf(id)
             a == Head(Sorted(P))
  <2>3. id \in Ids
    <3>1. b \in ToSet(found) /\ IsPartOfSequence(data[b])
      BY <1>1, <2>2, HeapParts DEF CleanHeap
    <3> QED  BY <3>1 DEF Ids
  <2>4. /\ P = {c \in DOMAIN data : IsPartOfSequence(data[c]) /\ data[c].sai.id = id}
        /\ P # {} /\ P \subseteq DOMAIN data
    BY <1>1, <2>3, ListsParts
  <2>5. data'[a] = Merged(Sorted(P)) /\ (a \in results' <=> \E i \in Ids :
          a = Head(Sorted(SequenceOf(i))) /\ IsValid(data'[a]))
    BY <1>1, <2>3, HeadsOfLists
  <2> HIDE DEF P, id
  <2>6. Symbs(P) = PartsOf(m)
    <3>1. ASSUME NEW c \in P  PROVE Sym(c) \in PartsOf(m)
      <4>1. c \in DOMAIN data /\ data[c].sai.id = data[b].sai.id  BY <2>4 DEF id
      <4>2. Sym(c).of = s.of  BY <2>2, <4>1 DEF CleanHeap
      <4>3. s.of = m /\ Sym(c) \in Symbols /\ ~Sym(c).damaged
        BY <2>1, <4>1 DEF CleanHeap, PartsOf
      <4> QED  BY <4>2, <4>3 DEF PartsOf
    <3>2. ASSUME NEW t \in PartsOf(m)  PROVE \E c \in P : Sym(c) = t
      <4>1. PICK c \in DOMAIN data : Sym(c) = t  BY <1>1, <1>3 DEF Symbs
      <4>2. Info(t).id = Info(s).id  BY FieldsTell
      <4>3. data[c].sai = Info(t) /\ data[b].sai = Info(s) /\ IsPartOfSequence(data[c])
        BY <2>2, <4>1 DEF CleanHeap
      <4>4. c \in P  BY <2>4, <4>1, <4>2, <4>3 DEF id
      <4> QED  BY <4>1, <4>4
    <3> QED  BY <3>1, <3>2 DEF Symbs
  <2>7. Merged(Sorted(P)).content = Text(m) /\ ~Merged(Sorted(P)).error
    BY <2>4, <2>6, CompleteIsMatching
  <2>8. IsValid(data'[a])  BY <2>5, <2>7, TextNotEmpty DEF IsValid
  <2>9. a \in results'  BY <2>3, <2>5, <2>8 DEF P
  <2> QED  BY <2>5, <2>7, <2>9
<1> QED  BY <1>2, <1>3

(* From a clean list exactly the completed messages come out, for every    *)
(* set of printed symbols, and a valid result never joins different ids.   *)
THEOREM MergesAreExact == Spec => MergedExactly
<1>1. MergeInv /\ [Next]_vars => [CompletedOnly /\ OneId]_vars
  <2> SUFFICES ASSUME MergeInv, [Next]_vars, ~UNCHANGED vars
               PROVE  CompletedOnly /\ OneId
    OBVIOUS
  <2>1. OneId  BY OneIdStep
  <2>2. CompletedOnly
    <3> SUFFICES ASSUME calls = 0, Clean
                 PROVE  /\ MergeStructuredAppendSequences =>
                             {data'[a].content : a \in results'} =
                               {Text(m) : m \in {n \in Messages : PartsOf(n) \subseteq Seen}}
                        /\ MergeStructuredAppendSequence =>
                             \A a \in results' : IsValid(data'[a]) <=>
                               \E m \in Messages : Seen = PartsOf(m) /\ data'[a].content = Text(m)
      BY DEF CompletedOnly
    <3>1. CleanHeap  BY CleanParts
    <3> QED  BY <3>1, SequencesComplete, SequenceCompletes
  <2> QED  BY <2>1, <2>2
<1> QED  BY <1>1, ListKeepsBarcodes, PTL DEF Spec, MergedExactly
=============================================================================
