---------------------------- MODULE ContentProofs ----------------------------
(***************************************************************************)
(* What holds of every Content, however long and whatever the calls: no    *)
(* switch comes to lie behind the bytes and, but for the Aztec header that *)
(* is removed with a switch inside it, the positions stay in order, so     *)
(* that the blocks of ForEachECIBlock are slices of the bytes; Content     *)
(* implements ContentStream; and undoing the ECI protocol of bytesECI      *)
(* gives back every byte in its encoding.                                  *)
(***************************************************************************)
EXTENDS Content, Recursions, SequenceTheorems, FiniteSetTheorems

LEMMA WiderRange ==
  ASSUME NEW a \in Nat, NEW b \in Nat, NEW x \in 0 .. a
  PROVE  x \in 0 .. a + b
  OBVIOUS

LEMMA ShiftedRange ==
  ASSUME NEW a \in Nat, NEW b \in Nat
  PROVE  /\ \A x \in 0 .. b : x + a \in a .. a + b
         /\ \A x \in a .. a + b : x \in 0 .. a + b
  OBVIOUS

LEMMA ErasedRange ==
  ASSUME NEW len \in Nat, NEW pos \in Nat, NEW n \in Nat, pos + n <= len
  PROVE  /\ -n \in Int /\ pos <= len /\ pos <= len + -n
         /\ len + -n = len - n /\ pos + (len - (pos + n)) = len - n
  OBVIOUS

LEMMA ContentsParts ==
  ASSUME NEW c \in Contents
  PROVE  /\ c.bytes \in Seq(Bytes) /\ c.encodings \in Seq(Encoding)
         /\ c.hasECI \in BOOLEAN
         /\ Len(c.bytes) \in Nat /\ Len(c.encodings) \in Nat
         /\ DOMAIN c.encodings = 1 .. Len(c.encodings)
         /\ \A i \in DOMAIN c.encodings :
              /\ c.encodings[i] \in Encoding /\ c.encodings[i].pos \in Int
              /\ c.encodings[i].eci \in ECIs \cup CharacterSets
         /\ c = [bytes |-> c.bytes, encodings |-> c.encodings, hasECI |-> c.hasECI]
<1>1. c.bytes \in Seq(Bytes) /\ c.encodings \in Seq(Encoding) /\ c.hasECI \in BOOLEAN
  BY DEF Contents
<1>2. c = [bytes |-> c.bytes, encodings |-> c.encodings, hasECI |-> c.hasECI]
  BY DEF Contents
<1>3. /\ Len(c.bytes) \in Nat /\ Len(c.encodings) \in Nat
      /\ DOMAIN c.encodings = 1 .. Len(c.encodings)
  BY <1>1, LenProperties
<1>4. \A i \in DOMAIN c.encodings : c.encodings[i] \in Encoding
  BY <1>1, <1>3, ElementOfSeq
<1> QED  BY <1>1, <1>2, <1>3, <1>4 DEF Encoding

LEMMA EmptyInOrder == Empty \in Contents /\ InOrder(Empty) /\ NoneBehind(Empty)
<1>1. <<>> \in Seq(Bytes) /\ <<>> \in Seq(Encoding)  BY EmptySeq
<1>2. DOMAIN <<>> = {}  OBVIOUS
<1> QED  BY <1>1, <1>2 DEF Empty, Contents, InOrder, NoneBehind

LEMMA InOrderNoneBehind ==
  ASSUME NEW c \in Contents, InOrder(c)
  PROVE  NoneBehind(c)
  BY ContentsParts DEF InOrder, NoneBehind

(* The order and range of a list of switches, for a number of bytes.       *)
Within(encodings, size) == \A i \in DOMAIN encodings : encodings[i].pos <= size
Ordered(encodings, size) ==
  /\ \A i \in DOMAIN encodings : encodings[i].pos \in 0 .. size
  /\ \A i, j \in DOMAIN encodings : i <= j => encodings[i].pos <= encodings[j].pos

LEMMA OrderOf ==
  ASSUME NEW c, NEW size, Len(c.bytes) = size
  PROVE  /\ NoneBehind(c) <=> Within(c.encodings, size)
         /\ InOrder(c) <=> Ordered(c.encodings, size)
  BY DEF NoneBehind, InOrder, Within, Ordered

LEMMA AppendOrdered ==
  ASSUME NEW s \in Seq(Encoding), NEW size \in Nat, NEW e \in Encoding, e.pos = size
  PROVE  /\ Append(s, e) \in Seq(Encoding)
         /\ Within(s, size) => Within(Append(s, e), size)
         /\ Ordered(s, size) => Ordered(Append(s, e), size)
<1> DEFINE t == Append(s, e)
<1>1. /\ t \in Seq(Encoding) /\ Len(t) = Len(s) + 1 /\ t[Len(s) + 1] = e
      /\ \A i \in 1 .. Len(s) : t[i] = s[i]
      /\ Len(s) \in Nat /\ DOMAIN s = 1 .. Len(s) /\ DOMAIN t = 1 .. Len(t)
  BY AppendProperties, LenProperties
<1> HIDE DEF t
<1>2. \A i \in DOMAIN t : \/ i \in DOMAIN s /\ t[i] = s[i]
                          \/ i = Len(s) + 1 /\ t[i].pos = size
  BY <1>1
<1>3. Within(s, size) => Within(t, size)  BY <1>2 DEF Within
<1>4. ASSUME Ordered(s, size)  PROVE Ordered(t, size)
  <2>1. \A i \in DOMAIN s : s[i].pos \in Nat /\ s[i].pos <= size
    BY <1>4 DEF Ordered
  <2>2. \A i \in DOMAIN t : t[i].pos \in 0 .. size
    BY <1>2, <2>1
  <2>3. \A i, j \in DOMAIN t : i <= j => t[i].pos <= t[j].pos
    <3> SUFFICES ASSUME NEW i \in DOMAIN t, NEW j \in DOMAIN t, i <= j
                 PROVE  t[i].pos <= t[j].pos
      OBVIOUS
    <3>1. CASE j \in DOMAIN s
      <4>1. i \in DOMAIN s /\ t[i] = s[i] /\ t[j] = s[j]  BY <1>1, <3>1
      <4> QED  BY <1>4, <3>1, <4>1 DEF Ordered
    <3>2. CASE j \notin DOMAIN s
      <4>1. t[j].pos = size  BY <1>2, <3>2
      <4> QED  BY <2>2, <4>1
    <3> QED  BY <3>1, <3>2
  <2> QED  BY <2>2, <2>3 DEF Ordered
<1> QED  BY <1>1, <1>3, <1>4 DEF t

(* More bytes leave the switches where they are.                           *)
LEMMA LongerKeepsOrder ==
  ASSUME NEW c \in Contents, NEW d \in Contents,
         d.encodings = c.encodings, Len(c.bytes) <= Len(d.bytes)
  PROVE  /\ NoneBehind(c) => NoneBehind(d)
         /\ InOrder(c) => InOrder(d)
<1>1. Len(c.bytes) \in Nat /\ Len(d.bytes) \in Nat  BY ContentsParts
<1>2. \A i \in DOMAIN c.encodings : c.encodings[i].pos \in Int  BY ContentsParts
<1>3. NoneBehind(c) => NoneBehind(d)  BY <1>1, <1>2 DEF NoneBehind
<1>4. InOrder(c) => InOrder(d)
  <2> SUFFICES ASSUME InOrder(c) PROVE InOrder(d)  OBVIOUS
  <2>1. \A i \in DOMAIN c.encodings : c.encodings[i].pos \in 0 .. Len(d.bytes)
    BY <1>1 DEF InOrder
  <2> QED  BY <2>1 DEF InOrder
<1> QED  BY <1>3, <1>4

LEMMA PushInOrder ==
  ASSUME NEW c \in Contents, NEW b \in Bytes
  PROVE  /\ PushBack(c, b) \in Contents
         /\ NoneBehind(c) => NoneBehind(PushBack(c, b))
         /\ InOrder(c) => InOrder(PushBack(c, b))
<1> DEFINE t == Append(c.bytes, b)
<1>1. t \in Seq(Bytes) /\ Len(t) = Len(c.bytes) + 1 /\ Len(c.bytes) \in Nat
  BY ContentsParts, AppendProperties
<1>2. PushBack(c, b) = [bytes |-> t, encodings |-> c.encodings, hasECI |-> c.hasECI]
  <2>1. c = [bytes |-> c.bytes, encodings |-> c.encodings, hasECI |-> c.hasECI]
    BY ContentsParts
  <2>2. PushBack(c, b) = [c EXCEPT !.bytes = t]  BY DEF PushBack
  <2> HIDE DEF t
  <2> QED  BY <2>1, <2>2
<1> HIDE DEF t
<1>3. PushBack(c, b) \in Contents  BY <1>1, <1>2, ContentsParts DEF Contents
<1>4. /\ PushBack(c, b).encodings = c.encodings
      /\ Len(c.bytes) <= Len(PushBack(c, b).bytes)
  BY <1>1, <1>2
<1> QED  BY <1>3, <1>4, LongerKeepsOrder

LEMMA SwitchInOrder ==
  ASSUME NEW c \in Contents, NEW e \in ECIs \cup CharacterSets, NEW isECI \in BOOLEAN
  PROVE  /\ SwitchEncoding(c, e, isECI) \in Contents
         /\ NoneBehind(c) => NoneBehind(SwitchEncoding(c, e, isECI))
         /\ InOrder(c) => InOrder(SwitchEncoding(c, e, isECI))
<1> DEFINE kept == IF isECI /\ ~c.hasECI THEN <<>> ELSE c.encodings
           n == [eci |-> e, pos |-> Len(c.bytes)]
           t == IF isECI \/ ~c.hasECI THEN Append(kept, n) ELSE kept
           size == Len(c.bytes)
           d == SwitchEncoding(c, e, isECI)
<1>0. size \in Nat  BY ContentsParts
<1>1. /\ kept \in Seq(Encoding)
      /\ Within(c.encodings, size) => Within(kept, size)
      /\ Ordered(c.encodings, size) => Ordered(kept, size)
  <2>1. <<>> \in Seq(Encoding) /\ DOMAIN <<>> = {}  BY EmptySeq
  <2>2. Ordered(<<>>, size) /\ Within(<<>>, size)  BY <2>1 DEF Ordered, Within
  <2>3. c.encodings \in Seq(Encoding)  BY ContentsParts
  <2> QED  BY <2>1, <2>2, <2>3
<1>2. n \in Encoding /\ n.pos = size  BY ContentsParts DEF Encoding
<1>3. d = [bytes |-> c.bytes, encodings |-> t, hasECI |-> c.hasECI \/ isECI]
  BY DEF SwitchEncoding
<1> HIDE DEF kept, n, size, d
<1>4. /\ t \in Seq(Encoding)
      /\ Within(c.encodings, size) => Within(t, size)
      /\ Ordered(c.encodings, size) => Ordered(t, size)
  BY <1>0, <1>1, <1>2, AppendOrdered
<1> HIDE DEF t
<1>5. (c.hasECI \/ isECI) \in BOOLEAN  BY ContentsParts
<1>6. d \in Contents  BY <1>3, <1>4, <1>5, ContentsParts DEF Contents
<1>7. Len(c.bytes) = size /\ Len(d.bytes) = size /\ d.encodings = t
  BY <1>3 DEF size
<1> QED  BY <1>4, <1>6, <1>7, OrderOf DEF d

(* The switches from `first` on, moved by n.                               *)
LEMMA MovedParts ==
  ASSUME NEW c \in Contents, NEW first \in Int, NEW n \in Int
  PROVE  LET m == MovedFrom(c, first, n)
         IN  /\ m \in Seq(Encoding) /\ DOMAIN m = DOMAIN c.encodings
             /\ \A i \in DOMAIN c.encodings :
                  /\ m[i].eci = c.encodings[i].eci
                  /\ m[i].pos = IF c.encodings[i].pos >= first THEN c.encodings[i].pos + n
                                                               ELSE c.encodings[i].pos
<1> DEFINE E == c.encodings
           m == MovedFrom(c, first, n)
<1>1. DOMAIN E = 1 .. Len(E) /\ Len(E) \in Nat  BY ContentsParts
<1>2. ASSUME NEW i \in DOMAIN E
      PROVE  /\ m[i] \in Encoding /\ m[i].eci = E[i].eci
             /\ m[i].pos = IF E[i].pos >= first THEN E[i].pos + n ELSE E[i].pos
  <2>1. m[i] = IF E[i].pos >= first THEN [E[i] EXCEPT !.pos = E[i].pos + n] ELSE E[i]
    BY DEF MovedFrom
  <2>2. /\ E[i] \in Encoding /\ E[i].pos \in Int /\ E[i].pos + n \in Int
        /\ E[i].eci \in ECIs \cup CharacterSets
    BY ContentsParts
  <2>3. [E[i] EXCEPT !.pos = E[i].pos + n] = [eci |-> E[i].eci, pos |-> E[i].pos + n]
    BY <2>2 DEF Encoding
  <2> HIDE DEF m, E
  <2>4. CASE E[i].pos >= first
    <3>1. m[i] = [eci |-> E[i].eci, pos |-> E[i].pos + n]  BY <2>1, <2>3, <2>4
    <3> QED  BY <2>2, <2>4, <3>1 DEF Encoding
  <2>5. CASE ~(E[i].pos >= first)  BY <2>1, <2>2, <2>5
  <2> QED  BY <2>4, <2>5
<1>3. DOMAIN m = 1 .. Len(E) /\ m = [i \in DOMAIN m |-> m[i]]  BY <1>1 DEF MovedFrom
<1> HIDE DEF m, E
<1>4. m \in [1 .. Len(E) -> Encoding]  BY <1>1, <1>2, <1>3
<1>5. m \in Seq(Encoding)  BY <1>1, <1>4, SeqDef
<1>6. DOMAIN m = DOMAIN E  BY <1>1, <1>3
<1> QED  BY <1>2, <1>5, <1>6 DEF m, E

LEMMA MovedWithin ==
  ASSUME NEW c \in Contents, NoneBehind(c), NEW pos \in Nat, NEW n \in Int,
         pos <= Len(c.bytes), pos <= Len(c.bytes) + n
  PROVE  Within(MovedFrom(c, pos + 1, n), Len(c.bytes) + n)
<1> DEFINE E == c.encodings
           m == MovedFrom(c, pos + 1, n)
<1>1. /\ DOMAIN m = DOMAIN E /\ pos + 1 \in Int
      /\ \A i \in DOMAIN E :
           m[i].pos = IF E[i].pos >= pos + 1 THEN E[i].pos + n ELSE E[i].pos
  BY MovedParts
<1>2. \A i \in DOMAIN E : E[i].pos \in Int /\ E[i].pos <= Len(c.bytes)
  BY ContentsParts DEF NoneBehind
<1>3. Len(c.bytes) \in Nat  BY ContentsParts
<1> HIDE DEF m, E
<1>4. \A i \in DOMAIN E : m[i].pos <= Len(c.bytes) + n
  BY <1>1, <1>2, <1>3
<1> QED  BY <1>1, <1>4 DEF Within, m

(* Their order is kept if none of them passes `pos`.                       *)
LEMMA MovedInOrder ==
  ASSUME NEW c \in Contents, InOrder(c), NEW pos \in Nat, NEW n \in Int,
         pos <= Len(c.bytes), pos <= Len(c.bytes) + n,
         \A i \in DOMAIN c.encodings :
           c.encodings[i].pos > pos => c.encodings[i].pos + n >= pos
  PROVE  Ordered(MovedFrom(c, pos + 1, n), Len(c.bytes) + n)
<1> DEFINE E == c.encodings
           m == MovedFrom(c, pos + 1, n)
<1>0. Len(c.bytes) \in Nat  BY ContentsParts
<1>1. /\ DOMAIN m = DOMAIN E /\ pos + 1 \in Int
      /\ \A i \in DOMAIN E :
           m[i].pos = IF E[i].pos >= pos + 1 THEN E[i].pos + n ELSE E[i].pos
  BY MovedParts
<1>2. \A i \in DOMAIN E : /\ E[i].pos \in 0 .. Len(c.bytes)
                          /\ E[i].pos > pos => E[i].pos + n >= pos
  BY DEF InOrder
<1>3. \A i, j \in DOMAIN E : i <= j => E[i].pos <= E[j].pos  BY DEF InOrder
<1> HIDE DEF m, E
<1>4. \A i \in DOMAIN E : m[i].pos \in 0 .. Len(c.bytes) + n
  <2> TAKE i \in DOMAIN E
  <2>1. CASE E[i].pos >= pos + 1
    <3>1. m[i].pos = E[i].pos + n /\ E[i].pos + n >= pos  BY <1>0, <1>1, <1>2, <2>1
    <3> QED  BY <1>0, <1>2, <3>1
  <2>2. CASE ~(E[i].pos >= pos + 1)
    <3>1. m[i].pos = E[i].pos  BY <1>1, <2>2
    <3> QED  BY <1>0, <1>2, <2>2, <3>1
  <2> QED  BY <2>1, <2>2
<1>5. \A i, j \in DOMAIN E : i <= j => m[i].pos <= m[j].pos
  <2> SUFFICES ASSUME NEW i \in DOMAIN E, NEW j \in DOMAIN E, i <= j
               PROVE  m[i].pos <= m[j].pos
    OBVIOUS
  <2>1. E[i].pos <= E[j].pos  BY <1>3
  <2>2. E[i].pos \in Nat /\ E[j].pos \in Nat  BY <1>2
  <2> QED  BY <1>1, <1>2, <2>1, <2>2
<1> QED  BY <1>1, <1>4, <1>5 DEF Ordered, m

LEMMA SameLength ==
  ASSUME NEW a \in Nat, NEW b \in Nat, 1 .. a = 1 .. b
  PROVE  a = b
<1>1. a \in 1 .. b \/ a = 0  OBVIOUS
<1>2. b \in 1 .. a \/ b = 0  OBVIOUS
<1> QED  BY <1>1, <1>2

LEMMA PrefixOf ==
  ASSUME NEW S, NEW s \in Seq(S), NEW i \in Nat, NEW j \in Nat, i <= j, j <= Len(s)
  PROVE  /\ SubSeq(s, i + 1, j) \in Seq(S) /\ Len(SubSeq(s, i + 1, j)) = j - i
         /\ \A x \in 1 .. j - i : SubSeq(s, i + 1, j)[x] = s[i + x]
<1>1. Len(s) \in Nat /\ \A n \in 1 .. Len(s) : s[n] \in S
  BY LenProperties, ElementOfSeq
<1>2. \A n \in i + 1 .. j : s[n] \in S  BY <1>1
<1>3. /\ SubSeq(s, i + 1, j) \in Seq(S)
      /\ Len(SubSeq(s, i + 1, j)) = IF i + 1 <= j THEN j - (i + 1) + 1 ELSE 0
      /\ \A x \in 1 .. j - (i + 1) + 1 : SubSeq(s, i + 1, j)[x] = s[(i + 1) + x - 1]
  <2>1. i + 1 \in Int /\ j \in Int  OBVIOUS
  <2> QED  BY <1>2, <2>1, SubSeqProperties
<1>4. j - (i + 1) + 1 = j - i /\ (i + 1 <= j \/ j - i = 0)  OBVIOUS
<1>5. \A x \in 1 .. j - i : (i + 1) + x - 1 = i + x  OBVIOUS
<1>6. Len(SubSeq(s, i + 1, j)) = j - i
  <2> DEFINE l == Len(SubSeq(s, i + 1, j))
  <2>1. l = IF i + 1 <= j THEN j - (i + 1) + 1 ELSE 0  BY <1>3
  <2> HIDE DEF l
  <2>2. l = j - i  BY <1>4, <2>1
  <2> QED  BY <2>2 DEF l
<1>7. \A x \in 1 .. j - i : SubSeq(s, i + 1, j)[x] = s[i + x]
  BY <1>3, <1>4, <1>5, Zenon
<1> QED  BY <1>3, <1>6, <1>7, Zenon

(* A sequence without the n elements behind pos, and with t put there.     *)
Cut(s, pos, n) == SubSeq(s, 1, pos) \o SubSeq(s, pos + n + 1, Len(s))
Put(s, pos, t) == SubSeq(s, 1, pos) \o t \o SubSeq(s, pos + 1, Len(s))

(* The same, element by element.                                           *)
IsCut(u, s, pos, n) ==
  \A i \in 1 .. Len(s) - n : u[i] = IF i <= pos THEN s[i] ELSE s[i + n]
IsPut(u, s, pos, t) ==
  \A i \in 1 .. Len(s) + Len(t) :
    u[i] = IF i <= pos THEN s[i]
           ELSE IF i <= pos + Len(t) THEN t[i - pos] ELSE s[i - Len(t)]

LEMMA CutParts ==
  ASSUME NEW S, NEW s \in Seq(S), NEW pos \in Nat, NEW n \in Nat, pos + n <= Len(s)
  PROVE  /\ Cut(s, pos, n) \in Seq(S) /\ Len(Cut(s, pos, n)) = Len(s) - n
         /\ IsCut(Cut(s, pos, n), s, pos, n)
<1> DEFINE a == SubSeq(s, 1, pos)
           b == SubSeq(s, pos + n + 1, Len(s))
<1>0. Len(s) \in Nat  BY LenProperties
<1>1. a \in Seq(S) /\ Len(a) = pos /\ \A x \in 1 .. pos : a[x] = s[x]
  <2>1. /\ SubSeq(s, 0 + 1, pos) \in Seq(S) /\ Len(SubSeq(s, 0 + 1, pos)) = pos - 0
        /\ \A x \in 1 .. pos - 0 : SubSeq(s, 0 + 1, pos)[x] = s[0 + x]
    <3>1. 0 \in Nat /\ 0 <= pos /\ pos <= Len(s)  BY <1>0
    <3> QED  BY <3>1, PrefixOf, Zenon
  <2>2. 0 + 1 = 1 /\ pos - 0 = pos /\ \A x \in 1 .. pos : 0 + x = x  OBVIOUS
  <2>3. pos - 0 = pos /\ 0 + 1 = 1  OBVIOUS
  <2>4. SubSeq(s, 0 + 1, pos) = a  BY <2>3, Zenon
  <2> HIDE DEF a
  <2> QED  BY <2>1, <2>2, <2>4, Zenon
<1>2. /\ b \in Seq(S) /\ Len(b) = Len(s) - (pos + n)
      /\ \A x \in 1 .. Len(s) - (pos + n) : b[x] = s[pos + n + x]
  <2>1. pos + n \in Nat /\ Len(s) <= Len(s)  BY <1>0
  <2> QED  BY <1>0, <2>1, PrefixOf, Zenon
<1> HIDE DEF a, b
<1>3. /\ a \o b \in Seq(S) /\ Len(a \o b) = Len(a) + Len(b)
      /\ \A i \in 1 .. Len(a) + Len(b) : (a \o b)[i] = IF i <= Len(a) THEN a[i] ELSE b[i - Len(a)]
  <2>1. a \in Seq(S) /\ b \in Seq(S)  BY <1>1, <1>2
  <2> QED  BY <2>1, ConcatProperties, Zenon
<1>4. Len(a) + Len(b) = Len(s) - n  BY <1>0, <1>1, <1>2
<1> DEFINE u == a \o b
<1>5. ASSUME NEW i \in 1 .. Len(s) - n  PROVE u[i] = IF i <= pos THEN s[i] ELSE s[i + n]
  <2>1. u[i] = IF i <= pos THEN a[i] ELSE b[i - pos]  BY <1>1, <1>3, <1>4, Zenon
  <2> HIDE DEF u
  <2>2. CASE i <= pos  BY <1>1, <2>1, <2>2
  <2>3. CASE ~(i <= pos)
    <3>1. i - pos \in 1 .. Len(s) - (pos + n) /\ pos + n + (i - pos) = i + n
      BY <1>0, <2>3
    <3>2. b[i - pos] = s[i + n]  BY <1>2, <3>1, Zenon
    <3> QED  BY <2>1, <2>3, <3>2, Zenon
  <2> QED  BY <2>2, <2>3
<1>6. Cut(s, pos, n) = u  BY DEF Cut, a, b
<1>7. u \in Seq(S) /\ Len(u) = Len(s) - n  BY <1>3, <1>4, Zenon
<1> HIDE DEF u
<1>8. IsCut(u, s, pos, n)  BY <1>5, Zenon DEF IsCut
<1> QED  BY <1>6, <1>7, <1>8, Zenon

LEMMA PutParts ==
  ASSUME NEW S, NEW s \in Seq(S), NEW t \in Seq(S), NEW pos \in Nat, pos <= Len(s)
  PROVE  /\ Put(s, pos, t) \in Seq(S) /\ Len(Put(s, pos, t)) = Len(s) + Len(t)
         /\ IsPut(Put(s, pos, t), s, pos, t)
<1> DEFINE a == SubSeq(s, 1, pos)
           b == SubSeq(s, pos + 1, Len(s))
<1>0. Len(s) \in Nat /\ Len(t) \in Nat  BY LenProperties
<1>1. a \in Seq(S) /\ Len(a) = pos /\ \A x \in 1 .. pos : a[x] = s[x]
  <2>1. /\ SubSeq(s, 0 + 1, pos) \in Seq(S) /\ Len(SubSeq(s, 0 + 1, pos)) = pos - 0
        /\ \A x \in 1 .. pos - 0 : SubSeq(s, 0 + 1, pos)[x] = s[0 + x]
    <3>1. 0 \in Nat /\ 0 <= pos /\ pos <= Len(s)  BY <1>0
    <3> QED  BY <3>1, PrefixOf, Zenon
  <2>2. 0 + 1 = 1 /\ pos - 0 = pos /\ \A x \in 1 .. pos : 0 + x = x  OBVIOUS
  <2>4. SubSeq(s, 0 + 1, pos) = a  BY <2>2, Zenon
  <2> HIDE DEF a
  <2> QED  BY <2>1, <2>2, <2>4, Zenon
<1>2. /\ b \in Seq(S) /\ Len(b) = Len(s) - pos
      /\ \A x \in 1 .. Len(s) - pos : b[x] = s[pos + x]
  <2>1. Len(s) <= Len(s)  BY <1>0
  <2> QED  BY <1>0, <2>1, PrefixOf, Zenon
<1> HIDE DEF a, b
<1>3. /\ a \o t \in Seq(S) /\ Len(a \o t) = Len(a) + Len(t)
      /\ \A i \in 1 .. Len(a) + Len(t) : (a \o t)[i] = IF i <= Len(a) THEN a[i] ELSE t[i - Len(a)]
  BY <1>1, ConcatProperties, Zenon
<1> DEFINE v == a \o t
<1>4. v \in Seq(S) /\ Len(v) = pos + Len(t)
      /\ \A i \in 1 .. pos + Len(t) : v[i] = IF i <= pos THEN a[i] ELSE t[i - pos]
  BY <1>1, <1>3, Zenon
<1> HIDE DEF v
<1>5. /\ v \o b \in Seq(S) /\ Len(v \o b) = Len(v) + Len(b)
      /\ \A i \in 1 .. Len(v) + Len(b) : (v \o b)[i] = IF i <= Len(v) THEN v[i] ELSE b[i - Len(v)]
  <2>1. v \in Seq(S) /\ b \in Seq(S)  BY <1>2, <1>4
  <2> QED  BY <2>1, ConcatProperties, Zenon
<1>6. Len(v) + Len(b) = Len(s) + Len(t)  BY <1>0, <1>2, <1>4
<1> DEFINE u == v \o b
<1>7. ASSUME NEW i \in 1 .. Len(s) + Len(t)
      PROVE  u[i] = IF i <= pos THEN s[i]
                    ELSE IF i <= pos + Len(t) THEN t[i - pos] ELSE s[i - Len(t)]
  <2>1. u[i] = IF i <= pos + Len(t) THEN v[i] ELSE b[i - (pos + Len(t))]
    BY <1>4, <1>5, <1>6, Zenon
  <2> HIDE DEF u
  <2>2. CASE i <= pos
    BY <1>0, <1>1, <1>4, <2>1, <2>2
  <2>3. CASE ~(i <= pos) /\ i <= pos + Len(t)
    BY <1>0, <1>4, <2>1, <2>3
  <2>4. CASE ~(i <= pos) /\ ~(i <= pos + Len(t))
    <3>1. /\ i - (pos + Len(t)) \in 1 .. Len(s) - pos
          /\ pos + (i - (pos + Len(t))) = i - Len(t)
      BY <1>0, <2>4
    <3>2. b[i - (pos + Len(t))] = s[i - Len(t)]  BY <1>2, <3>1, Zenon
    <3> QED  BY <2>1, <2>4, <3>2, Zenon
  <2> QED  BY <2>2, <2>3, <2>4
<1>8. Put(s, pos, t) = u  BY DEF Put, v, a, b
<1>9. u \in Seq(S) /\ Len(u) = Len(s) + Len(t)  BY <1>5, <1>6, Zenon
<1> HIDE DEF u
<1>10. IsPut(u, s, pos, t)  BY <1>7, Zenon DEF IsPut
<1> QED  BY <1>8, <1>9, <1>10, Zenon

LEMMA CutOfBytes ==
  ASSUME NEW s \in Seq(Bytes), NEW pos \in Nat, NEW n \in Nat, pos + n <= Len(s)
  PROVE  /\ Cut(s, pos, n) \in Seq(Bytes) /\ Len(Cut(s, pos, n)) = Len(s) - n
         /\ IsCut(Cut(s, pos, n), s, pos, n)
  BY CutParts, Zenon

LEMMA PutInBytes ==
  ASSUME NEW s \in Seq(Bytes), NEW t \in Seq(Bytes), NEW pos \in Nat, pos <= Len(s)
  PROVE  /\ Put(s, pos, t) \in Seq(Bytes) /\ Len(Put(s, pos, t)) = Len(s) + Len(t)
         /\ IsPut(Put(s, pos, t), s, pos, t)
  BY PutParts, Zenon

LEMMA EraseInOrder ==
  ASSUME NEW c \in Contents, NEW pos \in Nat, NEW n \in Nat, pos + n <= Len(c.bytes)
  PROVE  /\ Erase(c, pos, n) \in Contents
         /\ NoneBehind(c) => NoneBehind(Erase(c, pos, n))
         /\ (/\ InOrder(c)
             /\ \A i \in DOMAIN c.encodings : c.encodings[i].pos \notin pos + 1 .. pos + n - 1)
            => InOrder(Erase(c, pos, n))
<1> DEFINE d == Erase(c, pos, n)
           s == Cut(c.bytes, pos, n)
           m == MovedFrom(c, pos + 1, -n)
<1>0. c.bytes \in Seq(Bytes) /\ Len(c.bytes) \in Nat  BY ContentsParts
<1>1. s \in Seq(Bytes) /\ Len(s) = Len(c.bytes) - n  BY <1>0, CutOfBytes, Zenon
<1>2. /\ -n \in Int /\ pos <= Len(c.bytes) /\ pos <= Len(c.bytes) + -n
      /\ Len(c.bytes) + -n = Len(c.bytes) - n /\ pos + 1 \in Int
  <2>1. pos + 1 \in Int  OBVIOUS
  <2> QED  BY <1>0, <2>1, ErasedRange, Zenon
<1>3. m \in Seq(Encoding)  BY <1>2, MovedParts, Zenon
<1>4. d = [bytes |-> s, encodings |-> m, hasECI |-> c.hasECI]
  BY DEF Erase, Cut
<1> HIDE DEF d, s
<1>5. NoneBehind(c) => Within(m, Len(c.bytes) + -n)
  BY <1>2, MovedWithin, Zenon
<1>6. ASSUME InOrder(c),
             \A i \in DOMAIN c.encodings : c.encodings[i].pos \notin pos + 1 .. pos + n - 1
      PROVE  Ordered(m, Len(c.bytes) + -n)
  <2>1. \A i \in DOMAIN c.encodings :
          c.encodings[i].pos > pos => c.encodings[i].pos + -n >= pos
    <3> SUFFICES ASSUME NEW i \in DOMAIN c.encodings, c.encodings[i].pos > pos
                 PROVE  c.encodings[i].pos + -n >= pos
      OBVIOUS
    <3>1. c.encodings[i].pos \in 0 .. Len(c.bytes)  BY <1>6 DEF InOrder
    <3>2. c.encodings[i].pos \notin pos + 1 .. pos + n - 1  BY <1>6
    <3> QED  BY <1>0, <3>1, <3>2
  <2> QED  BY <1>2, <1>6, <2>1, MovedInOrder, Zenon
<1> HIDE DEF m
<1>7. d \in Contents  BY <1>1, <1>3, <1>4, ContentsParts DEF Contents
<1>8. Len(d.bytes) = Len(c.bytes) + -n /\ d.encodings = m  BY <1>1, <1>2, <1>4
<1> QED  BY <1>5, <1>6, <1>7, <1>8, OrderOf DEF d

LEMMA InsertInOrder ==
  ASSUME NEW c \in Contents, NEW pos \in Nat, NEW t \in Seq(Bytes), pos <= Len(c.bytes)
  PROVE  /\ Insert(c, pos, t) \in Contents
         /\ NoneBehind(c) => NoneBehind(Insert(c, pos, t))
         /\ InOrder(c) => InOrder(Insert(c, pos, t))
<1> DEFINE d == Insert(c, pos, t)
           s == Put(c.bytes, pos, t)
           m == MovedFrom(c, pos + 1, Len(t))
<1>0. c.bytes \in Seq(Bytes) /\ Len(c.bytes) \in Nat /\ Len(t) \in Nat
  BY ContentsParts, LenProperties
<1>1. s \in Seq(Bytes) /\ Len(s) = Len(c.bytes) + Len(t)  BY <1>0, PutInBytes, Zenon
<1>2. /\ Len(t) \in Int /\ pos + 1 \in Int
      /\ pos <= Len(c.bytes) /\ pos <= Len(c.bytes) + Len(t)
  BY <1>0
<1>3. m \in Seq(Encoding)  BY <1>2, MovedParts, Zenon
<1>4. d = [bytes |-> s, encodings |-> m, hasECI |-> c.hasECI]
  BY DEF Insert, Put
<1> HIDE DEF d, s
<1>5. NoneBehind(c) => Within(m, Len(c.bytes) + Len(t))  BY <1>2, MovedWithin, Zenon
<1>6. InOrder(c) => Ordered(m, Len(c.bytes) + Len(t))
  <2> SUFFICES ASSUME InOrder(c) PROVE Ordered(m, Len(c.bytes) + Len(t))  OBVIOUS
  <2>1. \A i \in DOMAIN c.encodings :
          c.encodings[i].pos > pos => c.encodings[i].pos + Len(t) >= pos
    BY <1>0 DEF InOrder
  <2> QED  BY <1>2, <2>1, MovedInOrder, Zenon
<1> HIDE DEF m
<1>7. d \in Contents  BY <1>1, <1>3, <1>4, ContentsParts DEF Contents
<1>8. Len(d.bytes) = Len(c.bytes) + Len(t) /\ d.encodings = m  BY <1>1, <1>4
<1> QED  BY <1>5, <1>6, <1>7, <1>8, OrderOf DEF d

LEMMA PastEndInOrder ==
  ASSUME NEW c \in Contents, NEW s \in Seq(Bytes), NEW d \in InsertedPastEnd(c, s)
  PROVE  /\ d \in Contents
         /\ NoneBehind(c) => NoneBehind(d)
         /\ InOrder(c) => InOrder(d)
<1>0. Len(c.bytes) \in Nat /\ Len(s) \in Nat  BY ContentsParts, LenProperties
<1>1. PICK t \in [1 .. Len(c.bytes) + Len(s) -> Bytes] : d = [c EXCEPT !.bytes = t]
  BY DEF InsertedPastEnd
<1>2. t \in Seq(Bytes) /\ Len(t) = Len(c.bytes) + Len(s)
  <2> DEFINE n == Len(c.bytes) + Len(s)
  <2>1. n \in Nat  BY <1>0
  <2>2. t \in [1 .. n -> Bytes]  OBVIOUS
  <2> HIDE DEF n
  <2>3. t \in Seq(Bytes) /\ Len(t) = n  BY <2>1, <2>2, SeqDef, LenProperties
  <2> QED  BY <2>3 DEF n
<1>3. d = [bytes |-> t, encodings |-> c.encodings, hasECI |-> c.hasECI]
  <2>1. c = [bytes |-> c.bytes, encodings |-> c.encodings, hasECI |-> c.hasECI]
    BY ContentsParts
  <2> QED  BY <1>1, <2>1
<1>4. d \in Contents  BY <1>2, <1>3, ContentsParts DEF Contents
<1>5. d.encodings = c.encodings /\ Len(c.bytes) <= Len(d.bytes)
  <2>1. d.encodings = c.encodings /\ d.bytes = t  BY <1>3
  <2> QED  BY <1>0, <1>2, <2>1
<1> QED  BY <1>4, <1>5, LongerKeepsOrder

(* The switches of another content, behind n bytes.                        *)
Behind(o, n) ==
  [i \in DOMAIN o.encodings |-> [o.encodings[i] EXCEPT !.pos = @ + n]]

LEMMA BehindParts ==
  ASSUME NEW o \in Contents, NEW n \in Nat
  PROVE  /\ Behind(o, n) \in Seq(Encoding) /\ Len(Behind(o, n)) = Len(o.encodings)
         /\ \A i \in 1 .. Len(o.encodings) :
              /\ Behind(o, n)[i].eci = o.encodings[i].eci
              /\ Behind(o, n)[i].pos = o.encodings[i].pos + n
              /\ o.encodings[i].pos \in Int
<1> DEFINE E == o.encodings
           B == Behind(o, n)
<1>0. DOMAIN E = 1 .. Len(E) /\ Len(E) \in Nat  BY ContentsParts
<1>1. ASSUME NEW i \in 1 .. Len(E)
      PROVE  /\ B[i] \in Encoding /\ B[i].eci = E[i].eci
             /\ B[i].pos = E[i].pos + n /\ E[i].pos \in Int
  <2>1. /\ E[i] \in Encoding /\ E[i].eci \in ECIs \cup CharacterSets
        /\ E[i].pos \in Int /\ E[i].pos + n \in Int
    BY ContentsParts
  <2>3. B[i] = [E[i] EXCEPT !.pos = E[i].pos + n]  BY <1>0 DEF Behind
  <2>4. B[i] = [eci |-> E[i].eci, pos |-> E[i].pos + n]  BY <2>1, <2>3 DEF Encoding
  <2> HIDE DEF B, E
  <2> QED  BY <2>1, <2>4 DEF Encoding
<1>2. DOMAIN B = 1 .. Len(E) /\ B = [i \in DOMAIN B |-> B[i]]  BY <1>0 DEF Behind
<1> HIDE DEF B, E
<1>3. B \in [1 .. Len(E) -> Encoding]  BY <1>1, <1>2
<1>4. B \in Seq(Encoding)  BY <1>0, <1>3, SeqDef
<1>5. Len(B) \in Nat /\ DOMAIN B = 1 .. Len(B)  BY <1>4, LenProperties
<1>6. 1 .. Len(B) = 1 .. Len(E)  BY <1>2, <1>5, Zenon
<1>7. Len(B) = Len(E)  BY <1>0, <1>5, <1>6, SameLength
<1> QED  BY <1>1, <1>4, <1>7 DEF B, E

LEMMA ShiftKeepsOrder ==
  ASSUME NEW a \in Int, NEW b \in Int, NEW n \in Nat, a <= b
  PROVE  a + n <= b + n
  OBVIOUS

LEMMA ConcatOfBytes ==
  ASSUME NEW a \in Seq(Bytes), NEW b \in Seq(Bytes)
  PROVE  a \o b \in Seq(Bytes) /\ Len(a \o b) = Len(a) + Len(b)
  BY ConcatProperties

LEMMA ConcatOfEncodings ==
  ASSUME NEW a \in Seq(Encoding), NEW b \in Seq(Encoding)
  PROVE  /\ a \o b \in Seq(Encoding) /\ Len(a \o b) = Len(a) + Len(b)
         /\ \A i \in 1 .. Len(a) + Len(b) :
              (a \o b)[i] = IF i <= Len(a) THEN a[i] ELSE b[i - Len(a)]
  BY ConcatProperties

LEMMA AppendContentInOrder ==
  ASSUME NEW c \in Contents, NEW o \in Contents
  PROVE  /\ AppendContent(c, o) \in Contents
         /\ NoneBehind(c) /\ NoneBehind(o) => NoneBehind(AppendContent(c, o))
         /\ InOrder(c) /\ InOrder(o) => InOrder(AppendContent(c, o))
<1> DEFINE kept == IF ~c.hasECI /\ o.hasECI THEN <<>> ELSE c.encodings
           moved == Behind(o, Len(c.bytes))
           E == IF o.hasECI \/ ~c.hasECI THEN kept \o moved ELSE kept
           L == Len(c.bytes)
           size == L + Len(o.bytes)
           d == AppendContent(c, o)
<1>0. /\ c.bytes \in Seq(Bytes) /\ o.bytes \in Seq(Bytes)
      /\ L \in Nat /\ Len(o.bytes) \in Nat
      /\ c.encodings \in Seq(Encoding)
      /\ DOMAIN o.encodings = 1 .. Len(o.encodings) /\ Len(o.encodings) \in Nat
  BY ContentsParts
<1>1. c.bytes \o o.bytes \in Seq(Bytes) /\ Len(c.bytes \o o.bytes) = size
  BY <1>0, ConcatProperties
<1>2. d = [bytes |-> c.bytes \o o.bytes, encodings |-> E, hasECI |-> c.hasECI \/ o.hasECI]
  BY DEF AppendContent, Behind
<1>3. /\ kept \in Seq(Encoding)
      /\ \A i \in DOMAIN kept : i \in DOMAIN c.encodings /\ kept[i] = c.encodings[i]
  <2>1. <<>> \in Seq(Encoding) /\ DOMAIN <<>> = {}  BY EmptySeq
  <2> QED  BY <1>0, <2>1
<1>4. /\ moved \in Seq(Encoding) /\ DOMAIN moved = DOMAIN o.encodings
      /\ Len(moved) = Len(o.encodings)
      /\ \A i \in DOMAIN o.encodings :
           /\ o.encodings[i].pos \in Int
           /\ moved[i].pos = o.encodings[i].pos + L
  BY <1>0, BehindParts, LenProperties
<1> HIDE DEF kept, moved, d
<1> DEFINE t == kept \o moved
           K == Len(kept)
<1>5. /\ K \in Nat /\ DOMAIN kept = 1 .. K
      /\ t \in Seq(Encoding) /\ DOMAIN t = 1 .. K + Len(moved)
      /\ DOMAIN moved = 1 .. Len(moved) /\ Len(moved) \in Nat
  <2>1. t \in Seq(Encoding) /\ Len(t) = K + Len(moved)
    BY <1>3, <1>4, ConcatOfEncodings, Zenon
  <2> HIDE DEF t
  <2> QED  BY <1>3, <1>4, <2>1, LenProperties
<1>6. \A i \in DOMAIN t :
        \/ i \in DOMAIN kept /\ i \in DOMAIN c.encodings /\ t[i].pos = c.encodings[i].pos
        \/ /\ i - K \in DOMAIN o.encodings /\ i > K
           /\ t[i].pos = o.encodings[i - K].pos + L
           /\ o.encodings[i - K].pos \in Int
  <2>1. \A i \in 1 .. K + Len(moved) : t[i] = IF i <= K THEN kept[i] ELSE moved[i - K]
    BY <1>3, <1>4, ConcatOfEncodings, Zenon
  <2> HIDE DEF t, K
  <2> TAKE i \in DOMAIN t
  <2>2. CASE i <= K
    <3>1. i \in DOMAIN kept /\ t[i] = kept[i]  BY <1>5, <2>1, <2>2
    <3> QED  BY <1>3, <3>1
  <2>3. CASE ~(i <= K)
    <3>1. i - K \in DOMAIN moved /\ t[i] = moved[i - K] /\ i > K  BY <1>5, <2>1, <2>3
    <3> QED  BY <1>4, <3>1
  <2> QED  BY <2>2, <2>3
<1> HIDE DEF t, K, L
<1>7. ASSUME NoneBehind(c), NoneBehind(o)  PROVE Within(E, size)
  <2>1. \A i \in DOMAIN c.encodings : c.encodings[i].pos <= size
    <3> TAKE i \in DOMAIN c.encodings
    <3>1. c.encodings[i].pos \in Int /\ c.encodings[i].pos <= L
      BY <1>7, ContentsParts DEF NoneBehind, L
    <3> QED  BY <1>0, <3>1
  <2>2. \A i \in DOMAIN t : t[i].pos <= size
    <3> TAKE i \in DOMAIN t
    <3>1. ASSUME i - K \in DOMAIN o.encodings, t[i].pos = o.encodings[i - K].pos + L,
                 o.encodings[i - K].pos \in Int
          PROVE  t[i].pos <= size
      <4>1. o.encodings[i - K].pos <= Len(o.bytes)  BY <1>7, <3>1 DEF NoneBehind
      <4> QED  BY <1>0, <3>1, <4>1
    <3> QED  BY <1>6, <2>1, <3>1
  <2> HIDE DEF size
  <2>3. Within(t, size) /\ Within(kept, size)  BY <1>3, <2>1, <2>2 DEF Within
  <2> QED  BY <2>3 DEF t
<1>8. ASSUME InOrder(c), InOrder(o)  PROVE Ordered(E, size)
  <2>1. /\ \A i \in DOMAIN c.encodings : c.encodings[i].pos \in 0 .. L
        /\ \A i, j \in DOMAIN c.encodings :
             i <= j => c.encodings[i].pos <= c.encodings[j].pos
    BY <1>8 DEF InOrder, L
  <2>2. /\ \A i \in DOMAIN o.encodings : o.encodings[i].pos + L \in L .. size
        /\ \A i, j \in DOMAIN o.encodings :
             i <= j => o.encodings[i].pos + L <= o.encodings[j].pos + L
    <3>1. \A i \in DOMAIN o.encodings : o.encodings[i].pos \in 0 .. Len(o.bytes)
      BY <1>8 DEF InOrder
    <3>2. \A i, j \in DOMAIN o.encodings :
             i <= j => o.encodings[i].pos <= o.encodings[j].pos
      BY <1>8 DEF InOrder
    <3>3. \A i \in DOMAIN o.encodings : o.encodings[i].pos + L \in L .. size
      BY <1>0, <3>1
    <3>4. ASSUME NEW i \in DOMAIN o.encodings, NEW j \in DOMAIN o.encodings, i <= j
          PROVE  o.encodings[i].pos + L <= o.encodings[j].pos + L
      <4>1. o.encodings[i].pos <= o.encodings[j].pos  BY <3>2, <3>4
      <4>2. o.encodings[i].pos \in Int /\ o.encodings[j].pos \in Int  BY <3>1
      <4> QED  BY <1>0, <4>1, <4>2, ShiftKeepsOrder
    <3> QED  BY <3>3, <3>4
  <2>3. \A x : (x \in 0 .. L \/ x \in L .. size) => x \in 0 .. size
    BY <1>0
  <2>4. \A i \in DOMAIN t : t[i].pos \in 0 .. size
    <3> TAKE i \in DOMAIN t
    <3>1. t[i].pos \in 0 .. L \/ t[i].pos \in L .. size  BY <1>6, <2>1, <2>2
    <3> QED  BY <2>3, <3>1
  <2>5. \A i, j \in DOMAIN t : i <= j => t[i].pos <= t[j].pos
    <3> SUFFICES ASSUME NEW i \in DOMAIN t, NEW j \in DOMAIN t, i <= j
                 PROVE  t[i].pos <= t[j].pos
      OBVIOUS
    <3>1. CASE i \in DOMAIN kept /\ j \in DOMAIN kept
      <4>1. ~(i > K) /\ ~(j > K)  BY <1>5, <3>1
      <4>2. /\ i \in DOMAIN c.encodings /\ t[i].pos = c.encodings[i].pos
            /\ j \in DOMAIN c.encodings /\ t[j].pos = c.encodings[j].pos
        BY <1>6, <4>1
      <4> QED  BY <2>1, <4>2
    <3>2. CASE i \in DOMAIN kept /\ j > K
      <4>1. ~(i > K) /\ ~(j \in DOMAIN kept)  BY <1>5, <3>2
      <4>2. t[i].pos \in 0 .. L /\ t[j].pos \in L .. size  BY <1>6, <2>1, <2>2, <4>1
      <4> QED  BY <1>0, <4>2
    <3>3. CASE i > K /\ j > K
      <4>1. ~(i \in DOMAIN kept) /\ ~(j \in DOMAIN kept) /\ i - K <= j - K
        BY <1>5, <3>3
      <4>2. /\ i - K \in DOMAIN o.encodings /\ t[i].pos = o.encodings[i - K].pos + L
            /\ j - K \in DOMAIN o.encodings /\ t[j].pos = o.encodings[j - K].pos + L
        BY <1>6, <4>1
      <4> QED  BY <2>2, <4>1, <4>2
    <3>4. ~(i > K /\ j \in DOMAIN kept)  BY <1>5
    <3> QED  BY <1>6, <3>1, <3>2, <3>3, <3>4
  <2>6. \A i \in DOMAIN kept : kept[i].pos \in 0 .. size  BY <1>3, <2>1, <2>3
  <2>7. \A i, j \in DOMAIN kept : i <= j => kept[i].pos <= kept[j].pos  BY <1>3, <2>1
  <2> HIDE DEF size
  <2>8. Ordered(t, size) /\ Ordered(kept, size)  BY <2>4, <2>5, <2>6, <2>7 DEF Ordered
  <2> QED  BY <2>8 DEF t
<1>9. E \in Seq(Encoding)  BY <1>3, <1>5 DEF t
<1> HIDE DEF E, size
<1>10. (c.hasECI \/ o.hasECI) \in BOOLEAN  BY ContentsParts
<1>11. d \in Contents  BY <1>1, <1>2, <1>9, <1>10 DEF Contents
<1>12. Len(d.bytes) = size /\ d.encodings = E  BY <1>1, <1>2
<1> QED  BY <1>7, <1>8, <1>11, <1>12, OrderOf DEF d
-----------------------------------------------------------------------------
(* The type invariant and the place of the switches, for all contents that *)
(* decoders build and for what they are merged to: none lies behind the    *)
(* bytes, and all are in order unless a header with a switch inside it was *)
(* removed.                                                                *)
THEOREM ContentInOrder == Spec => [](TypeOK /\ EncodingsInOrder)
<1> DEFINE IInv == TypeOK /\ EncodingsInOrder
<1>1. Init => IInv
  BY EmptyInOrder DEF Init, TypeOK, EncodingsInOrder
<1>2. IInv /\ [Next]_vars => IInv'
  <2> SUFFICES ASSUME IInv, [Next]_vars PROVE IInv'  OBVIOUS
  <2>0. /\ content \in Contents /\ NoneBehind(content)
        /\ merged \in Contents /\ NoneBehind(merged)
        /\ ~cut.content => InOrder(content)
        /\ ~cut.merged => InOrder(merged)
        /\ cut \in [content : BOOLEAN, merged : BOOLEAN]
    BY DEF TypeOK, EncodingsInOrder
  <2> DEFINE Keeps(x) == /\ x \in Contents /\ NoneBehind(x)
                         /\ InOrder(content) => InOrder(x)
  <2>s. ASSUME NEW x, Keeps(x), content' = x, UNCHANGED <<merged, cut>> PROVE IInv'
    BY <2>0, <2>s DEF TypeOK, EncodingsInOrder
  <2>1. ASSUME NEW b \in Bytes, Push(b) PROVE IInv'
    BY <2>0, <2>1, <2>s, PushInOrder DEF Push
  <2>2. ASSUME NEW e \in ECIs, SwitchECI(e) PROVE IInv'
    BY <2>0, <2>2, <2>s, SwitchInOrder DEF SwitchECI
  <2>3. ASSUME NEW cs \in CharacterSets, SwitchCharset(cs) PROVE IInv'
    BY <2>0, <2>3, <2>s, SwitchInOrder DEF SwitchCharset
  <2>4. ASSUME NEW call \in EraseCalls, EraseFNC1(call[1], call[2]) PROVE IInv'
    <3>1. call[1] \in Nat /\ call[2] \in {0, 1}  BY CallsAssumption
    <3>2. \A i \in DOMAIN content.encodings :
            content.encodings[i].pos \notin call[1] + 1 .. call[1] + call[2] - 1
      BY <3>1
    <3>3. call[1] + call[2] <= Len(content.bytes) /\ call[2] \in Nat
          /\ content' = Erase(content, call[1], call[2]) /\ UNCHANGED <<merged, cut>>
      BY <2>4, <3>1 DEF EraseFNC1
    <3>4. Keeps(Erase(content, call[1], call[2]))
      BY <2>0, <3>1, <3>2, <3>3, EraseInOrder
    <3> QED  BY <2>s, <3>3, <3>4
  <2>5. ASSUME NEW n \in Headers, EraseHeader(n) PROVE IInv'
    <3> DEFINE x == Erase(content, 0, n)
    <3>1. n \in Nat /\ 0 \in Nat  BY CallsAssumption
    <3>2. /\ 0 + n <= Len(content.bytes) /\ content' = x /\ UNCHANGED merged
          /\ cut' = [cut EXCEPT !.content = @ \/ SwitchInside(content, n)]
      BY <2>5, <3>1 DEF EraseHeader
    <3>3. 0 + 1 .. 0 + n - 1 = 1 .. n - 1  BY <3>1
    <3>4. /\ x \in Contents /\ NoneBehind(x)
          /\ InOrder(content) /\ ~SwitchInside(content, n) => InOrder(x)
      BY <2>0, <3>1, <3>2, <3>3, EraseInOrder DEF SwitchInside
    <3> HIDE DEF x
    <3>5. /\ cut' \in [content : BOOLEAN, merged : BOOLEAN]
          /\ cut'.merged = cut.merged
          /\ ~cut'.content => (~cut.content /\ ~SwitchInside(content, n))
      <4>1. SwitchInside(content, n) \in BOOLEAN  BY DEF SwitchInside
      <4> HIDE DEF SwitchInside
      <4> QED  BY <2>0, <3>2, <4>1
    <3> QED  BY <2>0, <3>2, <3>4, <3>5 DEF TypeOK, EncodingsInOrder
  <2>6. ASSUME NEW call \in InsertCalls, NEW b \in Bytes, InsertText(call, b)
        PROVE  IInv'
    <3>1. call[2] \in Nat /\ <<b, b>> \in Seq(Bytes)  BY CallsAssumption
    <3>2. /\ call[2] <= Len(content.bytes)
          /\ content' = Insert(content, call[2], <<b, b>>) /\ UNCHANGED <<merged, cut>>
      BY <2>6 DEF InsertText
    <3>3. Keeps(Insert(content, call[2], <<b, b>>))  BY <2>0, <3>1, <3>2, InsertInOrder
    <3> QED  BY <2>s, <3>2, <3>3
  <2>7. ASSUME NEW call \in InsertCalls, NEW b \in Bytes, InsertPastEnd(call, b)
        PROVE  IInv'
    <3>1. <<b, b>> \in Seq(Bytes)  OBVIOUS
    <3>2. content' \in InsertedPastEnd(content, <<b, b>>) /\ UNCHANGED <<merged, cut>>
      BY <2>7 DEF InsertPastEnd
    <3>3. Keeps(content')  BY <2>0, <3>1, <3>2, PastEndInOrder
    <3> QED  BY <2>s, <3>2, <3>3
  <2>8. CASE MergeNext
    <3>1. /\ merged' = AppendContent(merged, content) /\ content' = Empty
          /\ cut' = [content |-> FALSE, merged |-> cut.merged \/ cut.content]
      BY <2>8 DEF MergeNext
    <3>2. /\ merged' \in Contents /\ NoneBehind(merged')
          /\ ~cut.content /\ ~cut.merged => InOrder(merged')
      BY <2>0, <3>1, AppendContentInOrder
    <3>3. /\ cut' \in [content : BOOLEAN, merged : BOOLEAN]
          /\ ~cut'.merged => ~cut.content /\ ~cut.merged
      BY <2>0, <3>1
    <3> QED  BY <3>1, <3>2, <3>3, EmptyInOrder DEF TypeOK, EncodingsInOrder
  <2>9. CASE UNCHANGED vars
    BY <2>0, <2>9 DEF vars, TypeOK, EncodingsInOrder
  <2> QED  BY <2>1, <2>2, <2>3, <2>4, <2>5, <2>6, <2>7, <2>8, <2>9 DEF Next
<1> QED  BY <1>1, <1>2, PTL DEF Spec
-----------------------------------------------------------------------------
(* The mark of a byte.  The switches at or before position i of a list in  *)
(* order are its first k.                                                  *)
Splits(c, i, k) ==
  /\ k \in 0 .. Len(c.encodings)
  /\ \A j \in DOMAIN c.encodings : c.encodings[j].pos <= i <=> j <= k
Entry(c, k) == IF k = 0 THEN NoSwitch ELSE c.encodings[k].eci
Marks == (ECIs \cup CharacterSets) \cup {NoSwitch}
Marked == Bytes \X Marks

LEMMA MarkOfSplit ==
  ASSUME NEW c \in Contents, NEW i \in Int, NEW k, Splits(c, i, k)
  PROVE  MarkAt(c, i) = Entry(c, k)
<1> DEFINE S == {j \in DOMAIN c.encodings : c.encodings[j].pos <= i}
<1>0. DOMAIN c.encodings = 1 .. Len(c.encodings) /\ Len(c.encodings) \in Nat
  BY ContentsParts
<1>1. k \in Nat /\ k <= Len(c.encodings)  BY <1>0 DEF Splits
<1>2. S = {j \in DOMAIN c.encodings : j <= k}  BY DEF Splits
<1>3. S = 1 .. k  BY <1>0, <1>1, <1>2
<1>4. Cardinality(1 .. k) = k  BY <1>1, FS_Interval
<1>5. LastSwitch(c, i) = k  BY <1>3, <1>4, Zenon DEF LastSwitch
<1> QED  BY <1>5, Zenon DEF MarkAt, Entry

LEMMA EntryType ==
  ASSUME NEW c \in Contents, NEW k \in 0 .. Len(c.encodings)
  PROVE  Entry(c, k) \in Marks /\ (Entry(c, k) = NoSwitch <=> k = 0)
<1>1. k # 0 => c.encodings[k].eci \in ECIs \cup CharacterSets
  <2>1. Len(c.encodings) \in Nat /\ DOMAIN c.encodings = 1 .. Len(c.encodings)
    BY ContentsParts
  <2>2. k # 0 => k \in DOMAIN c.encodings  BY <2>1
  <2> QED  BY <2>2, ContentsParts
<1> QED  BY <1>1, EncodingsAssumption DEF Entry, Marks

LEMMA CountType ==
  ASSUME NEW n \in Nat, NEW S, S \subseteq 1 .. n
  PROVE  IsFiniteSet(S) /\ Cardinality(S) \in 0 .. n
<1>1. 1 \in Int /\ n \in Int  OBVIOUS
<1>2. IsFiniteSet(1 .. n) /\ Cardinality(1 .. n) = IF 1 > n THEN 0 ELSE n - 1 + 1
  BY <1>1, FS_Interval, Zenon
<1>3. IsFiniteSet(S) /\ Cardinality(S) <= Cardinality(1 .. n)
  BY <1>2, FS_Subset
<1>4. Cardinality(S) \in Nat  BY <1>3, FS_CardinalityType
<1>5. Cardinality(1 .. n) = n  BY <1>2
<1> QED  BY <1>3, <1>4, <1>5

LEMMA LastSwitchType ==
  ASSUME NEW c \in Contents, NEW i \in Int
  PROVE  LastSwitch(c, i) \in 0 .. Len(c.encodings)
<1> DEFINE S == {j \in DOMAIN c.encodings : c.encodings[j].pos <= i}
<1>1. Len(c.encodings) \in Nat /\ S \subseteq 1 .. Len(c.encodings)  BY ContentsParts
<1> HIDE DEF S
<1>2. Cardinality(S) \in 0 .. Len(c.encodings)  BY <1>1, CountType
<1> QED  BY <1>2 DEF LastSwitch, S

LEMMA MarkIsEntry ==
  ASSUME NEW c, NEW i
  PROVE  MarkAt(c, i) = Entry(c, LastSwitch(c, i))
  BY Zenon DEF MarkAt, Entry

LEMMA MarkType ==
  ASSUME NEW c \in Contents, NEW i \in Int
  PROVE  MarkAt(c, i) \in Marks
  BY LastSwitchType, MarkIsEntry, EntryType

(* The mark depends on the switches and on which of them are before i;     *)
(* more switches behind it change nothing.                                 *)
LEMMA PrefixMark ==
  ASSUME NEW c \in Contents, NEW i \in Int, NEW d \in Contents, NEW h \in Int,
         Len(c.encodings) <= Len(d.encodings),
         \A j \in 1 .. Len(c.encodings) :
           /\ d.encodings[j].eci = c.encodings[j].eci
           /\ d.encodings[j].pos <= h <=> c.encodings[j].pos <= i,
         \A j \in Len(c.encodings) + 1 .. Len(d.encodings) : ~(d.encodings[j].pos <= h)
  PROVE  MarkAt(d, h) = MarkAt(c, i)
<1> DEFINE S == {j \in DOMAIN c.encodings : c.encodings[j].pos <= i}
           T == {j \in DOMAIN d.encodings : d.encodings[j].pos <= h}
           k == LastSwitch(c, i)
<1>0. /\ DOMAIN c.encodings = 1 .. Len(c.encodings) /\ Len(c.encodings) \in Nat
      /\ DOMAIN d.encodings = 1 .. Len(d.encodings) /\ Len(d.encodings) \in Nat
  BY ContentsParts
<1>1. \A j \in 1 .. Len(d.encodings) :
        \/ j \in 1 .. Len(c.encodings)
        \/ j \in Len(c.encodings) + 1 .. Len(d.encodings)
  BY <1>0
<1>2. \A j \in 1 .. Len(c.encodings) : j \in 1 .. Len(d.encodings)  BY <1>0
<1>3. S = T  BY <1>0, <1>1, <1>2
<1>4. LastSwitch(d, h) = k  BY <1>3, Zenon DEF LastSwitch
<1>5. k \in 0 .. Len(c.encodings)  BY LastSwitchType
<1> HIDE DEF k
<1>6. Entry(d, k) = Entry(c, k)
  <2>1. k = 0 \/ k \in 1 .. Len(c.encodings)  BY <1>0, <1>5
  <2> QED  BY <2>1 DEF Entry
<1> QED  BY <1>4, <1>6, MarkIsEntry DEF k

LEMMA SameMark ==
  ASSUME NEW c \in Contents, NEW i \in Int, NEW d \in Contents, NEW h \in Int,
         Len(d.encodings) = Len(c.encodings),
         \A j \in DOMAIN c.encodings :
           /\ d.encodings[j].eci = c.encodings[j].eci
           /\ d.encodings[j].pos <= h <=> c.encodings[j].pos <= i
  PROVE  MarkAt(d, h) = MarkAt(c, i)
<1>1. Len(c.encodings) \in Nat /\ DOMAIN c.encodings = 1 .. Len(c.encodings)
  BY ContentsParts
<1>2. \A j \in Len(c.encodings) + 1 .. Len(d.encodings) : ~(d.encodings[j].pos <= h)
  BY <1>1
<1>3. Len(c.encodings) <= Len(d.encodings)  BY <1>1
<1> QED  BY <1>1, <1>2, <1>3, PrefixMark

(* K switches before it are counted with it.                               *)
LEMMA LaterMark ==
  ASSUME NEW o \in Contents, NEW i \in Int, NEW d \in Contents, NEW h \in Int,
         NEW K \in Nat, Len(d.encodings) = K + Len(o.encodings),
         \A j \in 1 .. K : d.encodings[j].pos <= h,
         \A j \in 1 .. Len(o.encodings) :
           d.encodings[K + j].pos <= h <=> o.encodings[j].pos <= i
  PROVE  LastSwitch(d, h) = K + LastSwitch(o, i)
<1> DEFINE N == Len(o.encodings)
           S == {j \in DOMAIN o.encodings : o.encodings[j].pos <= i}
           T == {j \in DOMAIN d.encodings : d.encodings[j].pos <= h}
           U == {K + j : j \in S}
           f == [j \in S |-> K + j]
<1>0. /\ DOMAIN o.encodings = 1 .. N /\ N \in Nat /\ DOMAIN d.encodings = 1 .. K + N
  BY ContentsParts
<1>1. T = (1 .. K) \cup U
  <2>1. ASSUME NEW j \in 1 .. K + N
        PROVE  j \in T <=> j \in (1 .. K) \cup U
    <3>1. CASE j \in 1 .. K  BY <1>0, <3>1
    <3>2. CASE ~(j \in 1 .. K)
      <4>1. j - K \in 1 .. N /\ K + (j - K) = j  BY <1>0, <3>2
      <4>2. d.encodings[j].pos <= h <=> o.encodings[j - K].pos <= i  BY <4>1
      <4>3. j \in T <=> j - K \in S  BY <1>0, <4>1, <4>2
      <4>4. j - K \in S => j \in U
        <5> HIDE DEF S
        <5> QED  BY <4>1
      <4>5. ASSUME j \in U PROVE j - K \in S
        <5>0. S \subseteq Int  BY <1>0
        <5> HIDE DEF S
        <5>1. PICK x \in S : j = K + x  BY <4>5
        <5>2. x = j - K  BY <5>0, <5>1
        <5> QED  BY <5>2
      <4> QED  BY <3>2, <4>3, <4>4, <4>5
    <3> QED  BY <3>1, <3>2
  <2>2. T \subseteq 1 .. K + N  BY <1>0
  <2>3. (1 .. K) \cup U \subseteq 1 .. K + N
    <3>1. \A x \in S : K + x \in 1 .. K + N  BY <1>0
    <3>2. \A x \in 1 .. K : x \in 1 .. K + N  BY <1>0
    <3> HIDE DEF S
    <3> QED  BY <3>1, <3>2
  <2> HIDE DEF T, U
  <2> QED  BY <2>1, <2>2, <2>3
<1>2. S \subseteq 1 .. N  BY <1>0
<1>3. LastSwitch(o, i) = Cardinality(S) /\ LastSwitch(d, h) = Cardinality(T)
  BY DEF LastSwitch
<1> HIDE DEF S, T, N
<1>4. IsFiniteSet(S) /\ Cardinality(S) \in Nat
  <2>1. IsFiniteSet(S) /\ Cardinality(S) \in 0 .. N  BY <1>0, <1>2, CountType, Zenon
  <2> QED  BY <1>0, <2>1
<1>5. f \in Bijection(S, U)
  <2>1. f \in [S -> U] /\ \A u \in U : \E j \in S : f[j] = u  OBVIOUS
  <2>2. \A a, b \in S : f[a] = f[b] => a = b
    <3>1. \A a, b \in Int : K + a = K + b => a = b  OBVIOUS
    <3>2. S \subseteq Int  BY <1>0, <1>2
    <3> QED  BY <3>1, <3>2
  <2> HIDE DEF f
  <2> QED  BY <2>1, <2>2 DEF Bijection, Injection, Surjection, IsInjective
<1>6. IsFiniteSet(U) /\ Cardinality(U) = Cardinality(S)
  <2>1. ExistsBijection(S, U)  BY <1>5, Zenon DEF ExistsBijection
  <2> QED  BY <1>4, <2>1, FS_Bijection, Zenon
<1>7. IsFiniteSet(1 .. K) /\ Cardinality(1 .. K) = K
  <2>1. 1 \in Int /\ K \in Int  OBVIOUS
  <2>2. IsFiniteSet(1 .. K) /\ Cardinality(1 .. K) = IF 1 > K THEN 0 ELSE K - 1 + 1
    BY <2>1, FS_Interval, Zenon
  <2> QED  BY <2>2
<1>8. (1 .. K) \cap U = {}
  <2>1. \A x \in S : ~(K + x <= K)  BY <1>0, <1>2
  <2> QED  BY <2>1
<1> HIDE DEF U
<1>9. Cardinality(T) = Cardinality(1 .. K) + Cardinality(U) - Cardinality({})
  <2>1. Cardinality((1 .. K) \cup U)
          = Cardinality(1 .. K) + Cardinality(U) - Cardinality((1 .. K) \cap U)
    BY <1>6, <1>7, FS_Union, Zenon
  <2> QED  BY <1>1, <1>8, <2>1, Zenon
<1>10. Cardinality({}) = 0  BY FS_EmptySet
<1> QED  BY <1>3, <1>4, <1>6, <1>7, <1>9, <1>10


LEMMA NoMarkBefore ==
  ASSUME NEW c \in Contents, NEW i \in Int,
         \A j \in DOMAIN c.encodings : ~(c.encodings[j].pos <= i)
  PROVE  MarkAt(c, i) = NoSwitch
<1>1. Splits(c, i, 0)  BY ContentsParts DEF Splits
<1> QED  BY <1>1, MarkOfSplit DEF Entry

(* The stream of c, byte by byte.                                          *)
LEMMA StreamParts ==
  ASSUME NEW c \in Contents
  PROVE  /\ StreamOf(c).text \in Seq(Marked)
         /\ Len(StreamOf(c).text) = Len(c.bytes)
         /\ DOMAIN StreamOf(c).text = 1 .. Len(c.bytes)
         /\ \A i \in 1 .. Len(c.bytes) :
              /\ c.bytes[i] \in Bytes /\ MarkAt(c, i - 1) \in Marks
              /\ StreamOf(c).text[i] = <<c.bytes[i], MarkAt(c, i - 1)>>
         /\ StreamOf(c).current = MarkAt(c, Len(c.bytes))
         /\ StreamOf(c).eci = c.hasECI
         /\ StreamOf(c) = [text |-> StreamOf(c).text,
                           current |-> MarkAt(c, Len(c.bytes)), eci |-> c.hasECI]
<1> DEFINE t == [i \in DOMAIN c.bytes |-> <<c.bytes[i], MarkAt(c, i - 1)>>]
<1>1. DOMAIN c.bytes = 1 .. Len(c.bytes) /\ Len(c.bytes) \in Nat /\ c.bytes \in Seq(Bytes)
  BY ContentsParts, LenProperties
<1>2. \A i \in 1 .. Len(c.bytes) : c.bytes[i] \in Bytes /\ MarkAt(c, i - 1) \in Marks
  BY <1>1, ElementOfSeq, MarkType
<1>3. t \in [1 .. Len(c.bytes) -> Marked]
  BY <1>1, <1>2 DEF Marked
<1>4. t \in Seq(Marked)  BY <1>1, <1>3, SeqDef
<1>5. Len(t) = Len(c.bytes)
  <2>1. Len(t) \in Nat /\ DOMAIN t = 1 .. Len(t)  BY <1>4, LenProperties
  <2>2. DOMAIN t = 1 .. Len(c.bytes)  BY <1>1
  <2> HIDE DEF t
  <2> QED  BY <1>1, <2>1, <2>2
<1>6. StreamOf(c) = [text |-> t, current |-> MarkAt(c, Len(c.bytes)), eci |-> c.hasECI]
  BY DEF StreamOf
<1>7. /\ DOMAIN t = 1 .. Len(c.bytes)
      /\ \A i \in 1 .. Len(c.bytes) : t[i] = <<c.bytes[i], MarkAt(c, i - 1)>>
  BY <1>1
<1> HIDE DEF t
<1> QED  BY <1>2, <1>4, <1>5, <1>6, <1>7

LEMMA StreamIs ==
  ASSUME NEW c \in Contents, NEW text \in Seq(Marked), NEW current, NEW eci,
         Len(text) = Len(c.bytes), current = MarkAt(c, Len(c.bytes)), eci = c.hasECI,
         \A i \in 1 .. Len(c.bytes) : text[i] = <<c.bytes[i], MarkAt(c, i - 1)>>
  PROVE  StreamOf(c) = [text |-> text, current |-> current, eci |-> eci]
<1> DEFINE t == StreamOf(c).text
<1>0. t \in Seq(Marked) /\ Len(text) = Len(t) /\ \A i \in 1 .. Len(text) : text[i] = t[i]
  BY StreamParts
<1> HIDE DEF t
<1>1. text = t  BY <1>0, SeqEqual, Zenon
<1>2. text = StreamOf(c).text  BY <1>1 DEF t
<1> QED  BY <1>2, StreamParts, Zenon

LEMMA PushStream ==
  ASSUME NEW c \in Contents, NoneBehind(c), NEW b \in Bytes
  PROVE  StreamOf(PushBack(c, b))
           = [StreamOf(c) EXCEPT !.text = Append(@, <<b, StreamOf(c).current>>)]
<1> DEFINE d == PushBack(c, b)
           t == StreamOf(c).text
           mark == StreamOf(c).current
           u == Append(t, <<b, mark>>)
           n == Len(c.bytes)
<1>1. /\ n \in Nat /\ c.bytes \in Seq(Bytes)
      /\ DOMAIN c.encodings = 1 .. Len(c.encodings)
  BY ContentsParts
<1>2. d \in Contents  BY PushInOrder
<1>3. d.encodings = c.encodings /\ d.hasECI = c.hasECI /\ d.bytes = Append(c.bytes, b)
  BY DEF PushBack, Contents
<1>4. /\ Len(d.bytes) = n + 1 /\ d.bytes[n + 1] = b
      /\ \A i \in 1 .. n : d.bytes[i] = c.bytes[i]
  BY <1>1, <1>3, AppendProperties
<1>5. /\ t \in Seq(Marked) /\ Len(t) = n
      /\ \A i \in 1 .. n : t[i] = <<c.bytes[i], MarkAt(c, i - 1)>>
      /\ mark = MarkAt(c, n) /\ StreamOf(c).eci = c.hasECI
      /\ StreamOf(c) = [text |-> t, current |-> mark, eci |-> c.hasECI]
  BY StreamParts
<1>6. mark \in Marks  BY <1>1, <1>5, MarkType
<1> HIDE DEF d, t, mark
<1>7. /\ u \in Seq(Marked) /\ Len(u) = n + 1 /\ u[n + 1] = <<b, mark>>
      /\ \A i \in 1 .. n : u[i] = t[i]
  <2>1. <<b, mark>> \in Marked  BY <1>6 DEF Marked
  <2> QED  BY <1>5, <2>1, AppendProperties
<1> HIDE DEF u
<1>8. \A i \in Int : MarkAt(d, i) = MarkAt(c, i)
  BY <1>2, <1>3, SameMark
<1>9. MarkAt(d, n + 1) = MarkAt(c, n)
  <2>1. \A j \in DOMAIN c.encodings : c.encodings[j].pos <= n + 1 <=> c.encodings[j].pos <= n
    BY <1>1, ContentsParts DEF NoneBehind
  <2>2. n + 1 \in Int /\ n \in Int  BY <1>1
  <2>3. MarkAt(c, n + 1) = MarkAt(c, n)  BY <2>1, <2>2, SameMark, Zenon
  <2> QED  BY <1>8, <2>2, <2>3, Zenon
<1>10. \A i \in 1 .. Len(d.bytes) : u[i] = <<d.bytes[i], MarkAt(d, i - 1)>>
  <2> TAKE i \in 1 .. Len(d.bytes)
  <2>1. CASE i = n + 1
    <3>1. i - 1 = n /\ n \in Int  BY <1>1, <2>1
    <3> QED  BY <1>4, <1>5, <1>7, <1>8, <2>1, <3>1
  <2>2. CASE i \in 1 .. n
    <3>1. i - 1 \in Int  BY <2>2
    <3> QED  BY <1>4, <1>5, <1>7, <1>8, <2>2, <3>1
  <2> QED  BY <1>1, <1>4, <2>1, <2>2
<1>11. StreamOf(d) = [text |-> u, current |-> mark, eci |-> c.hasECI]
  <2>1. Len(u) = Len(d.bytes) /\ mark = MarkAt(d, Len(d.bytes)) /\ c.hasECI = d.hasECI
    BY <1>3, <1>4, <1>5, <1>7, <1>9
  <2> QED  BY <1>2, <1>7, <1>10, <2>1, StreamIs, Zenon
<1>12. StreamOf(d) = [StreamOf(c) EXCEPT !.text = u]
  BY <1>5, <1>11
<1> QED  BY <1>12 DEF d, t, u, mark

(* A switch at the end of the bytes does not change how they are read.     *)
LEMMA SwitchMarks ==
  ASSUME NEW c \in Contents, NoneBehind(c), NEW d \in Contents, d.bytes = c.bytes,
         NEW kept \in Seq(Encoding), NEW e \in Encoding, e.pos = Len(c.bytes),
         d.encodings = Append(kept, e), kept = c.encodings \/ kept = <<>>
  PROVE  /\ MarkAt(d, Len(c.bytes)) = e.eci
         /\ \A i \in 1 .. Len(c.bytes) :
              MarkAt(d, i - 1) = IF kept = <<>> THEN NoSwitch ELSE MarkAt(c, i - 1)
<1> DEFINE n == Len(c.bytes)  k == Len(kept)
<1>1. /\ n \in Nat /\ k \in Nat /\ DOMAIN kept = 1 .. k
      /\ \A j \in 1 .. k : kept[j].pos <= n
  <2>1. DOMAIN <<>> = {}  OBVIOUS
  <2>2. n \in Nat /\ k \in Nat /\ DOMAIN kept = 1 .. k  BY ContentsParts, LenProperties
  <2>3. \A j \in DOMAIN c.encodings : c.encodings[j].pos <= n  BY DEF NoneBehind
  <2> QED  BY <2>1, <2>2, <2>3
<1>2. /\ Len(d.encodings) = k + 1 /\ DOMAIN d.encodings = 1 .. k + 1
      /\ d.encodings[k + 1] = e /\ \A j \in 1 .. k : d.encodings[j] = kept[j]
  BY AppendProperties, ContentsParts
<1> HIDE DEF n, k
<1>3. MarkAt(d, n) = e.eci
  <2>1. \A j \in 1 .. k + 1 : d.encodings[j].pos <= n
    BY <1>1, <1>2 DEF n
  <2>2. Splits(d, n, k + 1)  BY <1>1, <1>2, <2>1 DEF Splits
  <2>3. Entry(d, k + 1) = e.eci  BY <1>1, <1>2 DEF Entry
  <2> QED  BY <1>1, <2>2, <2>3, MarkOfSplit
<1>4. ASSUME NEW i \in 1 .. n
      PROVE  MarkAt(d, i - 1) = IF kept = <<>> THEN NoSwitch ELSE MarkAt(c, i - 1)
  <2>0. i - 1 \in Int /\ i - 1 < n /\ ~(e.pos <= i - 1)  BY <1>1 DEF n
  <2>1. CASE kept = <<>>
    <3>1. k = 0  BY <2>1, EmptySeq DEF k
    <3>2. \A j \in DOMAIN d.encodings : ~(d.encodings[j].pos <= i - 1)
      BY <1>2, <2>0, <3>1
    <3> QED  BY <2>0, <2>1, <3>2, NoMarkBefore
  <2>2. CASE kept # <<>>
    <3>1. kept = c.encodings  BY <2>2
    <3>2. /\ Len(c.encodings) = k
          /\ \A j \in 1 .. k : d.encodings[j] = c.encodings[j]
      BY <1>2, <3>1 DEF k
    <3>3. Len(c.encodings) <= Len(d.encodings)  BY <1>1, <1>2, <3>2
    <3>4. \A j \in Len(c.encodings) + 1 .. Len(d.encodings) : ~(d.encodings[j].pos <= i - 1)
      <4>1. \A j \in Len(c.encodings) + 1 .. Len(d.encodings) : j = k + 1
        BY <1>1, <1>2, <3>2
      <4> QED  BY <1>2, <2>0, <4>1
    <3>5. \A j \in 1 .. Len(c.encodings) :
            /\ d.encodings[j].eci = c.encodings[j].eci
            /\ d.encodings[j].pos <= i - 1 <=> c.encodings[j].pos <= i - 1
      BY <3>2
    <3>6. MarkAt(d, i - 1) = MarkAt(c, i - 1)
      BY <2>0, <3>3, <3>4, <3>5, PrefixMark, Zenon
    <3> QED  BY <2>2, <3>6
  <2> QED  BY <2>1, <2>2
<1> QED  BY <1>3, <1>4 DEF n

LEMMA UnmarkedParts ==
  ASSUME NEW c \in Contents, NEW mark \in Marks
  PROVE  /\ Stream!Unmarked(StreamOf(c), mark) \in Seq(Marked)
         /\ Len(Stream!Unmarked(StreamOf(c), mark)) = Len(c.bytes)
         /\ \A i \in 1 .. Len(c.bytes) :
              Stream!Unmarked(StreamOf(c), mark)[i] = <<c.bytes[i], mark>>
<1> DEFINE t == StreamOf(c).text
           u == Stream!Unmarked(StreamOf(c), mark)
           n == Len(c.bytes)
<1>1. /\ DOMAIN t = 1 .. n /\ n \in Nat
      /\ \A i \in 1 .. n : c.bytes[i] \in Bytes /\ t[i] = <<c.bytes[i], MarkAt(c, i - 1)>>
  BY StreamParts, ContentsParts
<1>2. u = [i \in DOMAIN t |-> <<t[i][1], mark>>]  BY DEF Stream!Unmarked
<1> HIDE DEF t, u, n
<1>3. DOMAIN u = 1 .. n /\ \A i \in 1 .. n : u[i] = <<c.bytes[i], mark>>
  BY <1>1, <1>2
<1>4. u \in [1 .. n -> Marked]
  <2>1. \A i \in 1 .. n : <<c.bytes[i], mark>> \in Marked  BY <1>1 DEF Marked
  <2>2. u = [i \in 1 .. n |-> <<c.bytes[i], mark>>]  BY <1>1, <1>2
  <2> QED  BY <2>1, <2>2
<1>5. u \in Seq(Marked)  BY <1>1, <1>4, SeqDef
<1>6. Len(u) \in Nat /\ DOMAIN u = 1 .. Len(u)  BY <1>5, LenProperties
<1>7. Len(u) = n  BY <1>1, <1>3, <1>6
<1> QED  BY <1>3, <1>5, <1>7 DEF u, n

LEMMA OnlyECIsParts ==
  ASSUME NEW c \in Contents
  PROVE  /\ Stream!OnlyECIs(StreamOf(c)) \in Seq(Marked)
         /\ Len(Stream!OnlyECIs(StreamOf(c))) = Len(c.bytes)
         /\ \A i \in 1 .. Len(c.bytes) :
              Stream!OnlyECIs(StreamOf(c))[i]
                = <<c.bytes[i], IF c.hasECI THEN MarkAt(c, i - 1) ELSE NoSwitch>>
<1>1. NoSwitch \in Marks  BY DEF Marks
<1>2. StreamOf(c).eci = c.hasECI  BY StreamParts
<1>3. CASE c.hasECI
  BY <1>2, <1>3, StreamParts DEF Stream!OnlyECIs
<1>4. CASE ~c.hasECI
  BY <1>1, <1>2, <1>4, UnmarkedParts DEF Stream!OnlyECIs
<1> QED  BY <1>3, <1>4

LEMMA SwitchECIStream ==
  ASSUME NEW c \in Contents, NoneBehind(c), NEW e \in ECIs
  PROVE  StreamOf(SwitchEncoding(c, e, TRUE))
           = [text |-> Stream!OnlyECIs(StreamOf(c)), current |-> e, eci |-> TRUE]
<1> DEFINE d == SwitchEncoding(c, e, TRUE)
           u == Stream!OnlyECIs(StreamOf(c))
           kept == IF c.hasECI THEN c.encodings ELSE <<>>
           s == [eci |-> e, pos |-> Len(c.bytes)]
<1>1. d \in Contents  BY SwitchInOrder
<1>2. d.encodings = Append(kept, s) /\ d.hasECI = TRUE /\ d.bytes = c.bytes
  BY ContentsParts DEF SwitchEncoding
<1>3. /\ kept \in Seq(Encoding) /\ s \in Encoding /\ s.pos = Len(c.bytes) /\ s.eci = e
      /\ kept = c.encodings \/ kept = <<>>
  <2>1. Len(c.bytes) \in Nat /\ c.encodings \in Seq(Encoding)  BY ContentsParts
  <2>2. s \in Encoding  BY <2>1 DEF Encoding
  <2> QED  BY <2>1, <2>2, EmptySeq
<1>4. /\ u \in Seq(Marked) /\ Len(u) = Len(c.bytes)
      /\ \A i \in 1 .. Len(c.bytes) :
           u[i] = <<c.bytes[i], IF c.hasECI THEN MarkAt(c, i - 1) ELSE NoSwitch>>
  BY OnlyECIsParts
<1>5. kept = <<>> /\ c.hasECI =>
        \A i \in 1 .. Len(c.bytes) : MarkAt(c, i - 1) = NoSwitch
  <2> SUFFICES ASSUME kept = <<>>, c.hasECI, NEW i \in 1 .. Len(c.bytes)
               PROVE  MarkAt(c, i - 1) = NoSwitch
    OBVIOUS
  <2>1. DOMAIN c.encodings = {}  OBVIOUS
  <2>2. i - 1 \in Int  BY ContentsParts
  <2> QED  BY <2>1, <2>2, NoMarkBefore
<1>6. ~c.hasECI => kept = <<>>  OBVIOUS
<1> HIDE DEF d, u, kept, s
<1>7. /\ MarkAt(d, Len(c.bytes)) = e
      /\ \A i \in 1 .. Len(c.bytes) :
           MarkAt(d, i - 1) = IF kept = <<>> THEN NoSwitch ELSE MarkAt(c, i - 1)
  BY <1>1, <1>2, <1>3, SwitchMarks
<1>8. \A i \in 1 .. Len(d.bytes) : u[i] = <<d.bytes[i], MarkAt(d, i - 1)>>
  BY <1>2, <1>4, <1>5, <1>6, <1>7
<1>9. Len(u) = Len(d.bytes) /\ e = MarkAt(d, Len(d.bytes)) /\ TRUE = d.hasECI
  BY <1>2, <1>4, <1>7
<1>10. StreamOf(d) = [text |-> u, current |-> e, eci |-> TRUE]
  BY <1>1, <1>4, <1>8, <1>9, StreamIs, Zenon
<1> QED  BY <1>10 DEF d, u

LEMMA SwitchCharsetStream ==
  ASSUME NEW c \in Contents, NoneBehind(c), NEW cs \in CharacterSets
  PROVE  StreamOf(SwitchEncoding(c, cs, FALSE))
           = IF StreamOf(c).eci THEN StreamOf(c) ELSE [StreamOf(c) EXCEPT !.current = cs]
<1> DEFINE d == SwitchEncoding(c, cs, FALSE)
           t == StreamOf(c).text
           s == [eci |-> cs, pos |-> Len(c.bytes)]
<1>0. StreamOf(c).eci = c.hasECI  BY StreamParts
<1>1. CASE c.hasECI
  <2>1. d = [bytes |-> c.bytes, encodings |-> c.encodings, hasECI |-> c.hasECI]
    BY <1>1, ContentsParts DEF SwitchEncoding
  <2>2. d = c  BY <2>1, ContentsParts, Zenon
  <2> QED  BY <1>0, <1>1, <2>2
<1>2. CASE ~c.hasECI
  <2>1. d \in Contents  BY SwitchInOrder
  <2>2. d.encodings = Append(c.encodings, s) /\ d.hasECI = FALSE /\ d.bytes = c.bytes
    BY <1>2, ContentsParts DEF SwitchEncoding
  <2>3. c.encodings \in Seq(Encoding) /\ s \in Encoding /\ s.pos = Len(c.bytes) /\ s.eci = cs
    <3>1. Len(c.bytes) \in Nat /\ c.encodings \in Seq(Encoding)  BY ContentsParts
    <3> QED  BY <3>1 DEF Encoding
  <2>4. /\ t \in Seq(Marked) /\ Len(t) = Len(c.bytes)
        /\ \A i \in 1 .. Len(c.bytes) : t[i] = <<c.bytes[i], MarkAt(c, i - 1)>>
        /\ StreamOf(c) = [text |-> t, current |-> MarkAt(c, Len(c.bytes)), eci |-> c.hasECI]
    BY StreamParts
  <2>5. c.encodings = <<>> => \A i \in 1 .. Len(c.bytes) : MarkAt(c, i - 1) = NoSwitch
    <3> SUFFICES ASSUME c.encodings = <<>>, NEW i \in 1 .. Len(c.bytes)
                 PROVE  MarkAt(c, i - 1) = NoSwitch
      OBVIOUS
    <3>1. DOMAIN c.encodings = {}  OBVIOUS
    <3>2. i - 1 \in Int  BY ContentsParts
    <3> QED  BY <3>1, <3>2, NoMarkBefore
  <2> HIDE DEF d, t, s
  <2>6. /\ MarkAt(d, Len(c.bytes)) = cs
        /\ \A i \in 1 .. Len(c.bytes) :
             MarkAt(d, i - 1) = IF c.encodings = <<>> THEN NoSwitch ELSE MarkAt(c, i - 1)
    BY <2>1, <2>2, <2>3, SwitchMarks
  <2>7. \A i \in 1 .. Len(d.bytes) : t[i] = <<d.bytes[i], MarkAt(d, i - 1)>>
    BY <2>2, <2>4, <2>5, <2>6
  <2>8. Len(t) = Len(d.bytes) /\ cs = MarkAt(d, Len(d.bytes))
    BY <2>2, <2>4, <2>6
  <2>9. c.hasECI = d.hasECI
    <3>1. c.hasECI = FALSE  BY <1>2, ContentsParts
    <3> QED  BY <2>2, <3>1, Zenon
  <2> DEFINE eci == c.hasECI
             mark == MarkAt(c, Len(c.bytes))
  <2>10. StreamOf(d) = [text |-> t, current |-> cs, eci |-> eci]
    BY <2>1, <2>4, <2>7, <2>8, <2>9, StreamIs, Zenon
  <2>11. StreamOf(c) = [text |-> t, current |-> mark, eci |-> eci]
    BY <2>4, Zenon
  <2> HIDE DEF eci, mark
  <2>12. StreamOf(d) = [StreamOf(c) EXCEPT !.current = cs]  BY <2>10, <2>11
  <2> QED  BY <1>0, <1>2, <2>12 DEF d
<1> QED  BY <1>1, <1>2


LEMMA CutOfText ==
  ASSUME NEW s \in Seq(Marked), NEW pos \in Nat, NEW n \in Nat, pos + n <= Len(s)
  PROVE  /\ Cut(s, pos, n) \in Seq(Marked) /\ Len(Cut(s, pos, n)) = Len(s) - n
         /\ IsCut(Cut(s, pos, n), s, pos, n)
  BY CutParts, Zenon

LEMMA PutInText ==
  ASSUME NEW s \in Seq(Marked), NEW t \in Seq(Marked), NEW pos \in Nat, pos <= Len(s)
  PROVE  /\ Put(s, pos, t) \in Seq(Marked) /\ Len(Put(s, pos, t)) = Len(s) + Len(t)
         /\ IsPut(Put(s, pos, t), s, pos, t)
  BY PutParts, Zenon

(* The switches of c, moved from `first` on by n, lie before h if they lay  *)
(* before i.                                                               *)
SameSide(c, first, n, i, h) ==
  \A j \in DOMAIN c.encodings :
    LET p == c.encodings[j].pos
    IN  IF p >= first THEN p + n <= h <=> p <= i ELSE p <= h <=> p <= i

LEMMA MovedMark ==
  ASSUME NEW c \in Contents, NEW d \in Contents, NEW first \in Int, NEW n \in Int,
         d.encodings = MovedFrom(c, first, n), NEW i \in Int, NEW h \in Int,
         SameSide(c, first, n, i, h)
  PROVE  MarkAt(d, h) = MarkAt(c, i)
<1> DEFINE E == c.encodings
           m == MovedFrom(c, first, n)
<1>0. /\ m \in Seq(Encoding) /\ DOMAIN m = DOMAIN E
      /\ \A j \in DOMAIN E :
           /\ m[j].eci = E[j].eci
           /\ m[j].pos = IF E[j].pos >= first THEN E[j].pos + n ELSE E[j].pos
  BY MovedParts, Zenon
<1> HIDE DEF m
<1>1. /\ DOMAIN d.encodings = DOMAIN E
      /\ \A j \in DOMAIN E :
           /\ d.encodings[j].eci = E[j].eci
           /\ d.encodings[j].pos = IF E[j].pos >= first THEN E[j].pos + n ELSE E[j].pos
  <2>1. d.encodings = m  BY DEF m
  <2> QED  BY <1>0, <2>1, Zenon
<1>2. Len(d.encodings) = Len(E)
  <2>1. DOMAIN d.encodings = 1 .. Len(d.encodings) /\ DOMAIN E = 1 .. Len(E)
        /\ Len(d.encodings) \in Nat /\ Len(E) \in Nat
    BY ContentsParts
  <2>2. 1 .. Len(d.encodings) = 1 .. Len(E)  BY <1>1, <2>1, Zenon
  <2> QED  BY <2>1, <2>2, SameLength
<1>3. ASSUME NEW j \in DOMAIN E
      PROVE  /\ d.encodings[j].eci = E[j].eci
             /\ d.encodings[j].pos <= h <=> E[j].pos <= i
  BY <1>1 DEF SameSide
<1> QED  BY <1>2, <1>3, SameMark, Zenon

LEMMA EraseStream ==
  ASSUME NEW c \in Contents, NEW pos \in Nat, NEW n \in Nat,
         pos + n <= Len(c.bytes), pos = 0 \/ n \in {0, 1}
  PROVE  StreamOf(Erase(c, pos, n))
           = [StreamOf(c) EXCEPT !.text = SubSeq(@, 1, pos) \o SubSeq(@, pos + n + 1, Len(@))]
<1> DEFINE d == Erase(c, pos, n)
           t == StreamOf(c).text
           u == Cut(t, pos, n)
           len == Len(c.bytes)
           mark == MarkAt(c, len)
           eci == c.hasECI
<1>1. d \in Contents  BY EraseInOrder
<1>2. /\ d.bytes = Cut(c.bytes, pos, n)
      /\ d.encodings = MovedFrom(c, pos + 1, -n) /\ d.hasECI = eci
  BY DEF Erase, Cut
<1>3. c.bytes \in Seq(Bytes) /\ len \in Nat /\ pos + n <= len  BY ContentsParts
<1>4. /\ t \in Seq(Marked) /\ Len(t) = len
      /\ \A i \in 1 .. len : t[i] = <<c.bytes[i], MarkAt(c, i - 1)>>
      /\ StreamOf(c) = [text |-> t, current |-> mark, eci |-> eci]
  BY StreamParts, Zenon
<1> HIDE DEF d, t, mark, eci
<1> HIDE DEF u
<1>5. /\ u \in Seq(Marked) /\ Len(u) = len - n
      /\ \A i \in 1 .. len - n : u[i] = IF i <= pos THEN t[i] ELSE t[i + n]
  <2>1. pos + n <= Len(t)  BY <1>3, <1>4
  <2>2. t \in Seq(Marked) /\ Len(t) = len  BY <1>4
  <2>3. Cut(t, pos, n) \in Seq(Marked)  BY <2>1, <2>2, CutOfText, Zenon
  <2>4. Len(Cut(t, pos, n)) = Len(t) - n  BY <2>1, <2>2, CutOfText, Zenon
  <2>5. IsCut(Cut(t, pos, n), t, pos, n)  BY <2>1, <2>2, CutOfText, Zenon
  <2> QED  BY <2>2, <2>3, <2>4, <2>5 DEF u, IsCut
<1>6. /\ Len(d.bytes) = len - n
      /\ \A i \in 1 .. len - n :
           d.bytes[i] = IF i <= pos THEN c.bytes[i] ELSE c.bytes[i + n]
  <2>1. pos + n <= Len(c.bytes) /\ c.bytes \in Seq(Bytes)  BY <1>3
  <2>2. Len(Cut(c.bytes, pos, n)) = Len(c.bytes) - n
    BY <2>1, CutOfBytes, Zenon
  <2>3. IsCut(Cut(c.bytes, pos, n), c.bytes, pos, n)  BY <2>1, CutOfBytes, Zenon
  <2>4. d.bytes = Cut(c.bytes, pos, n)  BY <1>2
  <2> QED  BY <2>2, <2>3, <2>4 DEF IsCut
<1>7. \A j \in DOMAIN c.encodings : c.encodings[j].pos \in Int  BY ContentsParts
<1>8. ASSUME NEW h \in Int, pos <= h  PROVE MarkAt(d, h) = MarkAt(c, h + n)
  <2>1. SameSide(c, pos + 1, -n, h + n, h)
    BY <1>3, <1>7, <1>8 DEF SameSide
  <2>2. pos + 1 \in Nat /\ -n \in Int /\ h + n \in Int  OBVIOUS
  <2> QED  BY <1>1, <1>2, <2>1, <2>2, MovedMark
<1>9. ASSUME NEW h \in Nat, h < pos  PROVE MarkAt(d, h) = MarkAt(c, h)
  <2>1. SameSide(c, pos + 1, -n, h, h)
    BY <1>3, <1>7, <1>9 DEF SameSide
  <2>2. pos + 1 \in Nat /\ -n \in Int  OBVIOUS
  <2> QED  BY <1>1, <1>2, <2>1, <2>2, MovedMark
<1>10. \A i \in 1 .. Len(d.bytes) : u[i] = <<d.bytes[i], MarkAt(d, i - 1)>>
  <2> TAKE i \in 1 .. Len(d.bytes)
  <2>0. i \in 1 .. len - n /\ i - 1 \in Nat  BY <1>3, <1>6
  <2>1. CASE i <= pos
    <3>1. i \in 1 .. len /\ i - 1 < pos  BY <1>3, <2>0, <2>1
    <3>2. MarkAt(d, i - 1) = MarkAt(c, i - 1)  BY <1>9, <2>0, <3>1
    <3> QED  BY <1>4, <1>5, <1>6, <2>0, <2>1, <3>1, <3>2
  <2>2. CASE ~(i <= pos)
    <3>1. i + n \in 1 .. len /\ pos <= i - 1 /\ (i - 1) + n = (i + n) - 1
      BY <1>3, <2>0, <2>2
    <3>2. MarkAt(d, i - 1) = MarkAt(c, (i - 1) + n)  BY <1>8, <2>0, <3>1
    <3>3. MarkAt(d, i - 1) = MarkAt(c, (i + n) - 1)  BY <3>1, <3>2, Zenon
    <3>4. u[i] = t[i + n] /\ d.bytes[i] = c.bytes[i + n]
      BY <1>5, <1>6, <2>0, <2>2, Zenon
    <3> QED  BY <1>4, <3>1, <3>3, <3>4, Zenon
  <2> QED  BY <2>1, <2>2
<1>11. Len(u) = Len(d.bytes) /\ mark = MarkAt(d, Len(d.bytes))
  <2>1. len - n \in Int /\ pos <= len - n /\ (len - n) + n = len  BY <1>3
  <2>2. MarkAt(d, len - n) = MarkAt(c, (len - n) + n)  BY <1>8, <2>1
  <2>3. MarkAt(d, len - n) = MarkAt(c, len)  BY <2>1, <2>2, Zenon
  <2> QED  BY <1>5, <1>6, <2>3, Zenon DEF mark
<1>12. StreamOf(d) = [text |-> u, current |-> mark, eci |-> eci]
  BY <1>1, <1>2, <1>5, <1>10, <1>11, StreamIs, Zenon
<1>13. StreamOf(d) = [StreamOf(c) EXCEPT !.text = u]
  BY <1>4, <1>12
<1> QED  BY <1>13 DEF d, t, u, Cut

LEMMA InsertStream ==
  ASSUME NEW c \in Contents, NEW pos \in Nat, NEW s \in Seq(Bytes), pos <= Len(c.bytes)
  PROVE  StreamOf(Insert(c, pos, s))
           = [StreamOf(c) EXCEPT !.text =
                SubSeq(@, 1, pos)
                  \o [x \in DOMAIN s |-> <<s[x], MarkAt(c, pos)>>]
                  \o SubSeq(@, pos + 1, Len(@))]
<1> DEFINE d == Insert(c, pos, s)
           t == StreamOf(c).text
           here == MarkAt(c, pos)
           v == [x \in DOMAIN s |-> <<s[x], here>>]
           u == Put(t, pos, v)
           len == Len(c.bytes)
           n == Len(s)
           mark == MarkAt(c, len)
           eci == c.hasECI
<1>1. d \in Contents  BY InsertInOrder
<1>2. /\ d.bytes = Put(c.bytes, pos, s)
      /\ d.encodings = MovedFrom(c, pos + 1, n) /\ d.hasECI = eci
  BY DEF Insert, Put
<1>3. /\ c.bytes \in Seq(Bytes) /\ len \in Nat /\ n \in Nat /\ pos <= len
      /\ DOMAIN s = 1 .. n
  BY ContentsParts, LenProperties
<1>4. /\ t \in Seq(Marked) /\ Len(t) = len
      /\ \A i \in 1 .. len : t[i] = <<c.bytes[i], MarkAt(c, i - 1)>>
      /\ StreamOf(c) = [text |-> t, current |-> mark, eci |-> eci]
  BY StreamParts, Zenon
<1>5. here = MarkAt(c, pos) /\ here \in Marks  BY MarkType
<1> HIDE DEF d, t, mark, eci, here
<1>6. v \in Seq(Marked) /\ Len(v) = n /\ \A x \in 1 .. n : v[x] = <<s[x], here>>
  <2>1. \A x \in 1 .. n : s[x] \in Bytes  BY ElementOfSeq
  <2>2. \A x \in 1 .. n : <<s[x], here>> \in Marked  BY <1>5, <2>1 DEF Marked
  <2>3. v \in [1 .. n -> Marked]  BY <1>3, <2>2
  <2>4. v \in Seq(Marked)  BY <1>3, <2>3, SeqDef
  <2>5. Len(v) \in Nat /\ DOMAIN v = 1 .. Len(v)  BY <2>4, LenProperties
  <2>6. DOMAIN v = 1 .. n  BY <1>3
  <2> HIDE DEF v
  <2>7. 1 .. Len(v) = 1 .. n  BY <2>5, <2>6, Zenon
  <2>8. Len(v) = n  BY <1>3, <2>5, <2>7, SameLength
  <2> QED  BY <1>3, <2>4, <2>8 DEF v
<1> HIDE DEF v, n
<1> HIDE DEF u
<1>7. /\ u \in Seq(Marked) /\ Len(u) = len + n
      /\ \A i \in 1 .. len + n :
           u[i] = IF i <= pos THEN t[i] ELSE IF i <= pos + n THEN v[i - pos] ELSE t[i - n]
  <2>1. pos <= Len(t)  BY <1>3, <1>4
  <2>2. /\ t \in Seq(Marked) /\ Len(t) = len
        /\ v \in Seq(Marked) /\ Len(v) = n
    BY <1>4, <1>6
  <2>3. Put(t, pos, v) \in Seq(Marked)  BY <2>1, <2>2, PutInText, Zenon
  <2>4. Len(Put(t, pos, v)) = Len(t) + Len(v)  BY <2>1, <2>2, PutInText, Zenon
  <2>5. IsPut(Put(t, pos, v), t, pos, v)  BY <2>1, <2>2, PutInText, Zenon
  <2> QED  BY <2>2, <2>3, <2>4, <2>5 DEF u, IsPut
<1>8. /\ Len(d.bytes) = len + n
      /\ \A i \in 1 .. len + n :
           d.bytes[i] = IF i <= pos THEN c.bytes[i]
                        ELSE IF i <= pos + n THEN s[i - pos] ELSE c.bytes[i - n]
  <2>1. pos <= Len(c.bytes) /\ c.bytes \in Seq(Bytes)  BY <1>3
  <2>2. Len(Put(c.bytes, pos, s)) = Len(c.bytes) + Len(s)
    BY <2>1, PutInBytes, Zenon
  <2>3. IsPut(Put(c.bytes, pos, s), c.bytes, pos, s)  BY <2>1, PutInBytes, Zenon
  <2>4. d.bytes = Put(c.bytes, pos, s)  BY <1>2
  <2> QED  BY <2>2, <2>3, <2>4 DEF n, IsPut
<1> HIDE DEF u, len
<1>9. ASSUME NEW h \in Int, NEW i \in Int,
             \/ h < pos /\ i = h
             \/ pos <= h /\ h < pos + n /\ i = pos
             \/ pos + n <= h /\ i = h - n
      PROVE  MarkAt(d, h) = MarkAt(c, i)
  <2>1. \A j \in DOMAIN c.encodings : c.encodings[j].pos \in Int  BY ContentsParts
  <2>2. SameSide(c, pos + 1, n, i, h)
    <3>1. ASSUME NEW p \in Int
          PROVE  IF p >= pos + 1 THEN p + n <= h <=> p <= i ELSE p <= h <=> p <= i
      BY <1>3, <1>9
    <3> QED  BY <2>1, <3>1, Zenon DEF SameSide
  <2>3. pos + 1 \in Nat /\ n \in Int  BY <1>3
  <2> QED  BY <1>1, <1>2, <2>2, <2>3, MovedMark
<1>10. \A i \in 1 .. Len(d.bytes) : u[i] = <<d.bytes[i], MarkAt(d, i - 1)>>
  <2> TAKE i \in 1 .. Len(d.bytes)
  <2>0. i \in 1 .. len + n /\ i - 1 \in Int /\ pos \in Int  BY <1>3, <1>8
  <2>1. CASE i <= pos
    <3>1. i \in 1 .. len /\ i - 1 < pos  BY <1>3, <2>0, <2>1
    <3>2. MarkAt(d, i - 1) = MarkAt(c, i - 1)  BY <1>9, <2>0, <3>1
    <3> QED  BY <1>4, <1>7, <1>8, <2>0, <2>1, <3>1, <3>2
  <2>2. CASE ~(i <= pos) /\ i <= pos + n
    <3>1. i - pos \in 1 .. n /\ pos <= i - 1 /\ i - 1 < pos + n
      BY <1>3, <2>0, <2>2
    <3>2. MarkAt(d, i - 1) = here  BY <1>5, <1>9, <2>0, <3>1
    <3>3. u[i] = v[i - pos] /\ d.bytes[i] = s[i - pos]
      BY <1>7, <1>8, <2>0, <2>2, Zenon
    <3>4. v[i - pos] = <<s[i - pos], here>>  BY <1>6, <3>1, Zenon
    <3> QED  BY <3>2, <3>3, <3>4, Zenon
  <2>3. CASE ~(i <= pos) /\ ~(i <= pos + n)
    <3>1. /\ i - n \in 1 .. len /\ pos + n <= i - 1 /\ (i - n) - 1 = (i - 1) - n
          /\ (i - n) - 1 \in Int
      BY <1>3, <2>0, <2>3
    <3>2. MarkAt(d, i - 1) = MarkAt(c, (i - n) - 1)  BY <1>9, <2>0, <3>1
    <3>3. u[i] = t[i - n] /\ d.bytes[i] = c.bytes[i - n]
      BY <1>7, <1>8, <2>0, <2>3, Zenon
    <3> QED  BY <1>4, <3>1, <3>2, <3>3, Zenon
  <2> QED  BY <2>1, <2>2, <2>3
<1>11. Len(u) = Len(d.bytes) /\ mark = MarkAt(d, Len(d.bytes))
  <2>1. len + n \in Int /\ pos + n <= len + n /\ len = (len + n) - n /\ len \in Int
    BY <1>3
  <2>2. MarkAt(d, len + n) = MarkAt(c, len)  BY <1>9, <2>1
  <2> QED  BY <1>7, <1>8, <2>2, Zenon DEF mark
<1>12. StreamOf(d) = [text |-> u, current |-> mark, eci |-> eci]
  BY <1>1, <1>2, <1>7, <1>10, <1>11, StreamIs, Zenon
<1>13. StreamOf(d) = [StreamOf(c) EXCEPT !.text = u]
  BY <1>4, <1>12
<1> QED  BY <1>13 DEF d, t, u, v, here, Put

(* The switches of m that remain: all or none.                             *)
Remaining(m, kept) == kept \in Seq(Encoding) /\ kept \in {m.encodings, <<>>}
JoinedTo(m, o, kept, d) ==
  d \in Contents /\ d.encodings = kept \o Behind(o, Len(m.bytes))

MarkBefore(m, kept, h) == IF kept = <<>> THEN NoSwitch ELSE MarkAt(m, h)
MarkBehind(m, o, kept, h) ==
  IF MarkAt(o, h - Len(m.bytes)) # NoSwitch THEN MarkAt(o, h - Len(m.bytes))
  ELSE MarkBefore(m, kept, Len(m.bytes))
FromStart(o) == \A i \in DOMAIN o.encodings : o.encodings[i].pos >= 0

(* How the bytes of m and of o are read when the switches of o follow      *)
(* those kept of m.                                                        *)
LEMMA JoinedMarks ==
  ASSUME NEW m \in Contents, NoneBehind(m), NEW o \in Contents,
         NEW d, NEW kept, Remaining(m, kept), JoinedTo(m, o, kept, d), NEW h \in Int
  PROVE  /\ h < Len(m.bytes) /\ FromStart(o) => MarkAt(d, h) = MarkBefore(m, kept, h)
         /\ h >= Len(m.bytes) => MarkAt(d, h) = MarkBehind(m, o, kept, h)
<1> DEFINE L == Len(m.bytes)
           K == Len(kept)
           B == Behind(o, L)
           N == Len(o.encodings)
<1>0. /\ kept \in Seq(Encoding)
      /\ kept = m.encodings \/ kept = <<>>
      /\ d \in Contents /\ d.encodings = kept \o Behind(o, Len(m.bytes))
  BY DEF Remaining, JoinedTo
<1>1. /\ L \in Nat /\ K \in Nat /\ N \in Nat
      /\ DOMAIN m.encodings = 1 .. Len(m.encodings)
      /\ DOMAIN o.encodings = 1 .. N /\ DOMAIN d.encodings = 1 .. Len(d.encodings)
      /\ DOMAIN kept = 1 .. K
  BY <1>0, ContentsParts, LenProperties
<1>2. /\ B \in Seq(Encoding) /\ Len(B) = N
      /\ \A i \in 1 .. N : /\ B[i].eci = o.encodings[i].eci
                           /\ B[i].pos = o.encodings[i].pos + L
                           /\ o.encodings[i].pos \in Int
  BY <1>1, BehindParts
<1>3. \A j \in 1 .. K : kept[j].pos \in Int /\ kept[j].pos <= L
  <2>1. DOMAIN <<>> = {}  OBVIOUS
  <2>2. \A j \in DOMAIN m.encodings : m.encodings[j].pos \in Int /\ m.encodings[j].pos <= L
    BY ContentsParts DEF NoneBehind
  <2> QED  BY <1>0, <1>1, <2>1, <2>2
<1> HIDE DEF L, K, B, N
<1>4. d \in Contents /\ kept \in Seq(Encoding) /\ d.encodings = kept \o B
  <2>1. B = Behind(o, Len(m.bytes))  BY DEF B, L
  <2>2. d.encodings = kept \o B  BY <1>0, <2>1, Zenon
  <2> QED  BY <1>0, <2>2
<1>5. /\ Len(d.encodings) = K + N
      /\ \A j \in 1 .. K + N :
           d.encodings[j] = IF j <= K THEN kept[j] ELSE B[j - K]
  <2>1. Len(kept \o B) = Len(kept) + Len(B)
    BY <1>2, <1>4, ConcatOfEncodings, Zenon
  <2>2. \A j \in 1 .. Len(kept) + Len(B) :
          (kept \o B)[j] = IF j <= Len(kept) THEN kept[j] ELSE B[j - Len(kept)]
    BY <1>2, <1>4, ConcatOfEncodings, Zenon
  <2> QED  BY <1>2, <1>4, <2>1, <2>2 DEF K
<1>6. \A j \in 1 .. K : d.encodings[j] = kept[j]
  BY <1>1, <1>5
<1>7. \A j \in 1 .. N : /\ d.encodings[K + j].eci = o.encodings[j].eci
                        /\ d.encodings[K + j].pos = o.encodings[j].pos + L
                        /\ o.encodings[j].pos \in Int
  <2> TAKE j \in 1 .. N
  <2>1. K + j \in 1 .. K + N /\ ~(K + j <= K) /\ (K + j) - K = j  BY <1>1
  <2>2. d.encodings[K + j] = B[j]  BY <1>5, <2>1
  <2> QED  BY <1>2, <2>2
<1>8. ASSUME h < L, FromStart(o)
      PROVE  MarkAt(d, h) = IF kept = <<>> THEN NoSwitch ELSE MarkAt(m, h)
  <2>1. ASSUME NEW j \in K + 1 .. K + N  PROVE ~(d.encodings[j].pos <= h)
    <3>1. j - K \in 1 .. N /\ K + (j - K) = j  BY <1>1
    <3>2. o.encodings[j - K].pos >= 0  BY <1>1, <1>8, <3>1 DEF FromStart
    <3>3. d.encodings[j].pos = o.encodings[j - K].pos + L /\ o.encodings[j - K].pos \in Int
      BY <1>7, <3>1
    <3> QED  BY <1>1, <1>8, <3>2, <3>3
  <2>2. CASE kept = <<>>
    <3>1. K = 0  BY <2>2, EmptySeq DEF K
    <3>2. \A j \in 1 .. K + N : ~(d.encodings[j].pos <= h)  BY <1>1, <2>1, <3>1
    <3>3. MarkAt(d, h) = NoSwitch  BY <1>1, <1>4, <1>5, <3>2, NoMarkBefore
    <3> QED  BY <2>2, <3>3
  <2>3. CASE kept # <<>>
    <3>1. kept = m.encodings /\ K = Len(m.encodings)  BY <1>0, <2>3 DEF K
    <3>2. \A j \in 1 .. Len(m.encodings) :
            /\ d.encodings[j].eci = m.encodings[j].eci
            /\ d.encodings[j].pos <= h <=> m.encodings[j].pos <= h
      BY <1>6, <3>1
    <3>3. /\ Len(m.encodings) <= Len(d.encodings)
          /\ \A j \in Len(m.encodings) + 1 .. Len(d.encodings) : ~(d.encodings[j].pos <= h)
      BY <1>1, <1>5, <2>1, <3>1
    <3>4. MarkAt(d, h) = MarkAt(m, h)  BY <1>4, <3>2, <3>3, PrefixMark, Zenon
    <3> QED  BY <2>3, <3>4
  <2> QED  BY <2>2, <2>3
<1>9. ASSUME h >= L
      PROVE  MarkAt(d, h) =
               IF MarkAt(o, h - L) # NoSwitch THEN MarkAt(o, h - L)
               ELSE IF kept = <<>> THEN NoSwitch ELSE MarkAt(m, L)
  <2> DEFINE k == LastSwitch(o, h - L)
  <2>0. h - L \in Int /\ L \in Int  BY <1>1
  <2>1. k \in 0 .. N  BY <2>0, LastSwitchType DEF N
  <2>2. \A j \in 1 .. K : d.encodings[j].pos <= h  BY <1>1, <1>3, <1>6, <1>9
  <2>3. \A j \in 1 .. Len(o.encodings) :
          d.encodings[K + j].pos <= h <=> o.encodings[j].pos <= h - L
    <3> TAKE j \in 1 .. Len(o.encodings)
    <3>1. /\ d.encodings[K + j].pos = o.encodings[j].pos + L
          /\ o.encodings[j].pos \in Int
      BY <1>7 DEF N
    <3>2. \A q \in Int : q + L <= h <=> q <= h - L  BY <2>0
    <3> QED  BY <3>1, <3>2
  <2>4. LastSwitch(d, h) = K + k
    <3>1. Len(d.encodings) = K + Len(o.encodings)  BY <1>5 DEF N
    <3>2. K \in Nat /\ d \in Contents  BY <1>1, <1>4
    <3> DEFINE i == h - L
    <3>3. i \in Int  BY <2>0
    <3>4. \A j \in 1 .. Len(o.encodings) :
            d.encodings[K + j].pos <= h <=> o.encodings[j].pos <= i
      BY <2>3
    <3> HIDE DEF i
    <3>5. LastSwitch(d, h) = K + LastSwitch(o, i)
      BY <2>2, <3>1, <3>2, <3>3, <3>4, LaterMark, ZenonT(30)
    <3> QED  BY <3>5 DEF i
  <2> HIDE DEF k
  <2>5. MarkAt(d, h) = Entry(d, K + k) /\ MarkAt(o, h - L) = Entry(o, k)
    BY <2>4, MarkIsEntry DEF k
  <2>6. Entry(o, k) = NoSwitch <=> k = 0  BY <2>1, EntryType DEF N
  <2>7. CASE k # 0
    <3>1. k \in 1 .. N /\ K + k # 0  BY <1>1, <2>1, <2>7
    <3>2. d.encodings[K + k].eci = o.encodings[k].eci  BY <1>7, <3>1
    <3>3. Entry(d, K + k) = Entry(o, k)  BY <2>7, <3>1, <3>2 DEF Entry
    <3> QED  BY <2>5, <2>6, <2>7, <3>3
  <2>8. CASE k = 0
    <3>1. K + k = K  BY <1>1, <2>8
    <3>2. CASE kept = <<>>
      <4>1. K = 0  BY <3>2, EmptySeq DEF K
      <4> QED  BY <2>5, <2>6, <2>8, <3>1, <3>2, <4>1 DEF Entry
    <3>3. CASE kept # <<>>
      <4>1. kept = m.encodings /\ K = Len(m.encodings)  BY <1>0, <3>3 DEF K
      <4>2. Splits(m, L, K)  BY <1>1, <1>3, <4>1 DEF Splits
      <4>3. MarkAt(m, L) = Entry(m, K)  BY <2>0, <4>2, MarkOfSplit
      <4>4. Entry(m, K) = Entry(d, K)
        <5>1. K # 0 => K \in 1 .. K  BY <1>1
        <5> QED  BY <1>6, <4>1, <5>1 DEF Entry
      <4> QED  BY <2>5, <2>6, <2>8, <3>1, <3>3, <4>3, <4>4
    <3> QED  BY <3>2, <3>3
  <2> QED  BY <2>7, <2>8
<1> QED  BY <1>8, <1>9 DEF L, MarkBefore, MarkBehind

LEMMA FollowingParts ==
  ASSUME NEW c \in Contents, NEW mark \in Marks
  PROVE  /\ Stream!Following(mark, StreamOf(c).text) \in Seq(Marked)
         /\ Len(Stream!Following(mark, StreamOf(c).text)) = Len(c.bytes)
         /\ \A i \in 1 .. Len(c.bytes) :
              Stream!Following(mark, StreamOf(c).text)[i]
                = <<c.bytes[i], IF MarkAt(c, i - 1) # NoSwitch THEN MarkAt(c, i - 1) ELSE mark>>
<1> DEFINE t == StreamOf(c).text
           u == Stream!Following(mark, t)
           n == Len(c.bytes)
<1>1. /\ DOMAIN t = 1 .. n /\ n \in Nat
      /\ \A i \in 1 .. n : /\ c.bytes[i] \in Bytes /\ MarkAt(c, i - 1) \in Marks
                           /\ t[i] = <<c.bytes[i], MarkAt(c, i - 1)>>
  BY StreamParts, ContentsParts
<1>2. u = [i \in DOMAIN t |-> IF t[i][2] = NoSwitch THEN <<t[i][1], mark>> ELSE t[i]]
  BY DEF Stream!Following
<1> HIDE DEF t, u, n
<1>3. ASSUME NEW i \in 1 .. n
      PROVE  /\ u[i] = <<c.bytes[i], IF MarkAt(c, i - 1) # NoSwitch THEN MarkAt(c, i - 1)
                                                                   ELSE mark>>
             /\ u[i] \in Marked
  <2>1. t[i] = <<c.bytes[i], MarkAt(c, i - 1)>>  BY <1>1
  <2>2. t[i][1] = c.bytes[i] /\ t[i][2] = MarkAt(c, i - 1)  BY <2>1
  <2>3. u[i] = IF t[i][2] = NoSwitch THEN <<t[i][1], mark>> ELSE t[i]  BY <1>1, <1>2
  <2>4. CASE MarkAt(c, i - 1) = NoSwitch
    <3>1. u[i] = <<c.bytes[i], mark>>  BY <2>2, <2>3, <2>4, Zenon
    <3>2. <<c.bytes[i], mark>> \in Marked  BY <1>1 DEF Marked
    <3> QED  BY <2>4, <3>1, <3>2, Zenon
  <2>5. CASE MarkAt(c, i - 1) # NoSwitch
    <3>1. u[i] = <<c.bytes[i], MarkAt(c, i - 1)>>  BY <2>1, <2>2, <2>3, <2>5, Zenon
    <3>2. <<c.bytes[i], MarkAt(c, i - 1)>> \in Marked  BY <1>1 DEF Marked
    <3> QED  BY <2>5, <3>1, <3>2, Zenon
  <2> QED  BY <2>4, <2>5
<1>4. DOMAIN u = 1 .. n /\ u = [i \in DOMAIN u |-> u[i]]  BY <1>1, <1>2
<1>5. u \in [1 .. n -> Marked]  BY <1>3, <1>4
<1>6. u \in Seq(Marked)  BY <1>1, <1>5, SeqDef
<1>7. Len(u) \in Nat /\ DOMAIN u = 1 .. Len(u)  BY <1>6, LenProperties
<1>8. 1 .. Len(u) = 1 .. n  BY <1>4, <1>7, Zenon
<1>9. Len(u) = n  BY <1>1, <1>7, <1>8, SameLength
<1> QED  BY <1>3, <1>6, <1>9 DEF u, n, t

LEMMA ConcatOfText ==
  ASSUME NEW a \in Seq(Marked), NEW b \in Seq(Marked)
  PROVE  /\ a \o b \in Seq(Marked) /\ Len(a \o b) = Len(a) + Len(b)
         /\ \A i \in 1 .. Len(a) + Len(b) :
              (a \o b)[i] = IF i <= Len(a) THEN a[i] ELSE b[i - Len(a)]
  BY ConcatProperties

LEMMA ConcatOfBytesParts ==
  ASSUME NEW a \in Seq(Bytes), NEW b \in Seq(Bytes)
  PROVE  \A i \in 1 .. Len(a) + Len(b) :
           (a \o b)[i] = IF i <= Len(a) THEN a[i] ELSE b[i - Len(a)]
  BY ConcatProperties

(* The bytes of c as d marks them behind its first n.                      *)
MarkedBy(text, c, d, n) ==
  /\ text \in Seq(Marked) /\ Len(text) = Len(c.bytes)
  /\ \A i \in 1 .. Len(c.bytes) : text[i] = <<c.bytes[i], MarkAt(d, n + i - 1)>>

LEMMA BehindFirst ==
  ASSUME NEW L \in Nat, NEW N \in Nat, NEW i \in 1 .. L + N, ~(i <= L)
  PROVE  i - L \in 1 .. N /\ L + (i - L) - 1 = i - 1
OBVIOUS

(* The bytes of d are the L of m and the N of o.                           *)
BytesJoined(m, o, d, L, N) ==
  /\ m \in Contents /\ o \in Contents /\ d \in Contents
  /\ d.bytes = m.bytes \o o.bytes
  /\ L = Len(m.bytes) /\ N = Len(o.bytes)

LEMMA JoinedText ==
  ASSUME NEW m, NEW o, NEW d, NEW L, NEW N, BytesJoined(m, o, d, L, N),
         NEW a, NEW b, MarkedBy(a, m, d, 0), MarkedBy(b, o, d, L)
  PROVE  StreamOf(d) = [text |-> a \o b, current |-> MarkAt(d, L + N), eci |-> d.hasECI]
<1> DEFINE u == a \o b
<1>0. /\ m \in Contents /\ o \in Contents /\ d \in Contents
      /\ d.bytes = m.bytes \o o.bytes
      /\ L = Len(m.bytes) /\ N = Len(o.bytes)
  BY Zenon DEF BytesJoined
<1>1. L \in Nat /\ N \in Nat /\ m.bytes \in Seq(Bytes) /\ o.bytes \in Seq(Bytes)
  BY <1>0, ContentsParts
<1>a. /\ a \in Seq(Marked) /\ Len(a) = Len(m.bytes)
      /\ \A i \in 1 .. Len(m.bytes) : a[i] = <<m.bytes[i], MarkAt(d, i - 1)>>
  <2>1. \A i \in 1 .. Len(m.bytes) : 0 + i - 1 = i - 1  BY <1>0, <1>1
  <2> QED  BY <2>1, Zenon DEF MarkedBy
<1>b. /\ b \in Seq(Marked) /\ Len(b) = Len(o.bytes)
      /\ \A i \in 1 .. Len(o.bytes) :
           b[i] = <<o.bytes[i], MarkAt(d, Len(m.bytes) + i - 1)>>
  BY <1>0, Zenon DEF MarkedBy
<1>2. Len(d.bytes) = L + N
  BY <1>0, <1>1, ConcatOfBytes
<1>3. \A i \in 1 .. L + N :
        d.bytes[i] = IF i <= L THEN m.bytes[i] ELSE o.bytes[i - L]
  BY <1>0, <1>1, ConcatOfBytesParts
<1>4. u \in Seq(Marked) /\ Len(u) = L + N
  <2>1. a \o b \in Seq(Marked)  BY <1>a, <1>b, ConcatOfText, Zenon
  <2>2. Len(a \o b) = Len(a) + Len(b)  BY <1>a, <1>b, ConcatOfText, Zenon
  <2> QED  BY <1>0, <1>a, <1>b, <2>1, <2>2, Zenon
<1>5. \A i \in 1 .. L + N : u[i] = IF i <= L THEN a[i] ELSE b[i - L]
  <2>1. \A i \in 1 .. Len(a) + Len(b) :
          (a \o b)[i] = IF i <= Len(a) THEN a[i] ELSE b[i - Len(a)]
    BY <1>a, <1>b, ConcatOfText, Zenon
  <2> QED  BY <1>0, <1>a, <1>b, <2>1, Zenon
<1> HIDE DEF u
<1>6. \A i \in 1 .. Len(d.bytes) : u[i] = <<d.bytes[i], MarkAt(d, i - 1)>>
  <2> TAKE i \in 1 .. Len(d.bytes)
  <2>0. i \in 1 .. L + N  BY <1>2
  <2>1. CASE i <= L
    <3>1. i \in 1 .. L  BY <1>1, <2>0, <2>1
    <3>2. a[i] = <<m.bytes[i], MarkAt(d, i - 1)>>  BY <1>0, <1>a, <3>1
    <3> QED  BY <1>3, <1>5, <2>0, <2>1, <3>2, Zenon
  <2>2. CASE ~(i <= L)
    <3>1. i - L \in 1 .. N /\ L + (i - L) - 1 = i - 1  BY <1>1, <2>0, <2>2, BehindFirst
    <3>2. b[i - L] = <<o.bytes[i - L], MarkAt(d, L + (i - L) - 1)>>  BY <1>0, <1>b, <3>1
    <3>3. b[i - L] = <<o.bytes[i - L], MarkAt(d, i - 1)>>  BY <3>1, <3>2, Zenon
    <3>4. u[i] = b[i - L] /\ d.bytes[i] = o.bytes[i - L]  BY <1>3, <1>5, <2>0, <2>2, Zenon
    <3> QED  BY <3>3, <3>4, Zenon
  <2> QED  BY <2>1, <2>2
<1>7. Len(u) = Len(d.bytes) /\ MarkAt(d, L + N) = MarkAt(d, Len(d.bytes)) /\ d.hasECI = d.hasECI
  BY <1>2, <1>4, Zenon
<1>8. StreamOf(d) = [text |-> u, current |-> MarkAt(d, L + N), eci |-> d.hasECI]
  BY <1>0, <1>4, <1>6, <1>7, StreamIs, Zenon
<1> QED  BY <1>8 DEF u

LEMMA MergeStream ==
  ASSUME NEW m \in Contents, NoneBehind(m), NEW o \in Contents,
         m.bytes = <<>> \/ FromStart(o)
  PROVE  StreamOf(AppendContent(m, o)) = Stream!Join(StreamOf(m), StreamOf(o))
<1> DEFINE d == AppendContent(m, o)
           L == Len(m.bytes)
           N == Len(o.bytes)
           s == StreamOf(m)
           t == StreamOf(o)
           B == Behind(o, L)
<1>1. d \in Contents  BY AppendContentInOrder
<1>2. /\ d.bytes = m.bytes \o o.bytes
      /\ d.hasECI = (m.hasECI \/ o.hasECI)
      /\ d.encodings = IF o.hasECI \/ ~m.hasECI
                         THEN (IF ~m.hasECI /\ o.hasECI THEN <<>> ELSE m.encodings) \o B
                         ELSE m.encodings
  BY DEF AppendContent, Behind
<1>3. /\ L \in Nat /\ N \in Nat /\ m.hasECI \in BOOLEAN /\ o.hasECI \in BOOLEAN
      /\ m.encodings \in Seq(Encoding) /\ <<>> \in Seq(Encoding)
  BY ContentsParts, EmptySeq
<1>4. /\ s.text \in Seq(Marked) /\ Len(s.text) = L
      /\ s = [text |-> s.text, current |-> MarkAt(m, L), eci |-> m.hasECI]
      /\ s.current = MarkAt(m, L) /\ s.eci = m.hasECI
      /\ \A i \in 1 .. L : s.text[i] = <<m.bytes[i], MarkAt(m, i - 1)>>
  BY StreamParts
<1>5. /\ t.text \in Seq(Marked) /\ Len(t.text) = N
      /\ t = [text |-> t.text, current |-> MarkAt(o, N), eci |-> o.hasECI]
      /\ t.current = MarkAt(o, N) /\ t.eci = o.hasECI
      /\ \A i \in 1 .. N : t.text[i] = <<o.bytes[i], MarkAt(o, i - 1)>>
  BY StreamParts
<1>6. MarkAt(m, L) \in Marks /\ NoSwitch \in Marks
  BY <1>3, MarkType DEF Marks
<1>l. L = 0 \/ FromStart(o)  BY EmptySeq
<1>j. BytesJoined(m, o, d, L, N)
  BY <1>1, <1>2 DEF L, N, BytesJoined
<1> HIDE DEF d, s, t, L, N, B
<1>7. CASE m.hasECI = o.hasECI
  <2>1. d.encodings = m.encodings \o B /\ d.hasECI = m.hasECI
    <3>1. CASE m.hasECI = TRUE  BY <1>2, <1>7, <3>1
    <3>2. CASE m.hasECI = FALSE
      <4>1. o.hasECI = FALSE  BY <1>7, <3>2, Zenon
      <4>2. (m.hasECI \/ o.hasECI) = FALSE  BY <3>2, <4>1, Zenon
      <4>3. d.hasECI = FALSE  BY <1>2, <4>2, Zenon
      <4>4. d.encodings = m.encodings \o B  BY <1>2, <3>2, <4>1, Zenon
      <4> QED  BY <3>2, <4>3, <4>4, Zenon
    <3> QED  BY <1>3, <3>1, <3>2
  <2>2. m.encodings = <<>> => \A h \in Int : MarkAt(m, h) = NoSwitch
    <3> SUFFICES ASSUME m.encodings = <<>>, NEW h \in Int
                 PROVE  MarkAt(m, h) = NoSwitch
      OBVIOUS
    <3>1. DOMAIN m.encodings = {}  OBVIOUS
    <3> QED  BY <3>1, NoMarkBefore
  <2>j. Remaining(m, m.encodings) /\ JoinedTo(m, o, m.encodings, d)
    BY <1>1, <1>3, <2>1 DEF Remaining, JoinedTo, B, L
  <2>3. ASSUME NEW h \in Nat, h < L  PROVE MarkAt(d, h) = MarkAt(m, h)
    <3>1. MarkAt(d, h) = MarkBefore(m, m.encodings, h)
      BY <1>l, <2>j, <2>3, JoinedMarks DEF L
    <3> QED  BY <2>2, <3>1 DEF MarkBefore
  <2>4. ASSUME NEW h \in Int, h >= L
        PROVE  MarkAt(d, h) =
                 IF MarkAt(o, h - L) # NoSwitch THEN MarkAt(o, h - L) ELSE MarkAt(m, L)
    <3>1. MarkAt(d, h) = MarkBehind(m, o, m.encodings, h)
      BY <2>j, <2>4, JoinedMarks DEF L
    <3> QED  BY <1>3, <2>2, <3>1 DEF MarkBefore, MarkBehind, L
  <2> DEFINE a == s.text
             b == Stream!Following(MarkAt(m, L), t.text)
             current == Stream!LaterOf(MarkAt(m, L), MarkAt(o, N))
             eci == m.hasECI
  <2>5. Stream!Join(s, t) = [text |-> a \o b, current |-> current, eci |-> eci]
    BY <1>4, <1>5, <1>7 DEF Stream!Join
  <2>6. /\ b \in Seq(Marked) /\ Len(b) = N
        /\ \A i \in 1 .. N :
             b[i] = <<o.bytes[i], IF MarkAt(o, i - 1) # NoSwitch THEN MarkAt(o, i - 1)
                                  ELSE MarkAt(m, L)>>
    BY <1>6, FollowingParts DEF t, N
  <2> HIDE DEF b
  <2>7. \A i \in 1 .. L : a[i] = <<m.bytes[i], MarkAt(d, i - 1)>>
    BY <1>3, <1>4, <2>3
  <2>8. \A i \in 1 .. N : b[i] = <<o.bytes[i], MarkAt(d, L + i - 1)>>
    <3> TAKE i \in 1 .. N
    <3>1. L + i - 1 \in Int /\ L + i - 1 >= L /\ (L + i - 1) - L = i - 1  BY <1>3
    <3>2. MarkAt(d, L + i - 1) =
            IF MarkAt(o, i - 1) # NoSwitch THEN MarkAt(o, i - 1) ELSE MarkAt(m, L)
      BY <2>4, <3>1
    <3> QED  BY <2>6, <3>2
  <2>9. MarkAt(d, L + N) = current
    <3>1. L + N \in Int /\ L + N >= L /\ (L + N) - L = N  BY <1>3
    <3>2. MarkAt(d, L + N) =
            IF MarkAt(o, N) # NoSwitch THEN MarkAt(o, N) ELSE MarkAt(m, L)
      BY <2>4, <3>1
    <3> QED  BY <3>2 DEF Stream!LaterOf
  <2>10. StreamOf(d) = [text |-> a \o b, current |-> MarkAt(d, L + N), eci |-> d.hasECI]
    <3>1. MarkedBy(a, m, d, 0)
      <4>1. \A i \in 1 .. L : 0 + i - 1 = i - 1  BY <1>3
      <4> QED  BY <1>4, <2>7, <4>1, Zenon DEF MarkedBy, L
    <3>2. MarkedBy(b, o, d, L)  BY <2>6, <2>8, Zenon DEF MarkedBy, N
    <3> HIDE DEF a, current, eci
    <3> QED  BY <1>j, <3>1, <3>2, JoinedText
  <2> QED  BY <2>1, <2>5, <2>9, <2>10, Zenon DEF d, s, t
<1>8. CASE m.hasECI /\ ~o.hasECI
  <2>1. d.encodings = m.encodings /\ d.hasECI = m.hasECI
    BY <1>2, <1>3, <1>8
  <2>2. \A h \in Int : MarkAt(d, h) = MarkAt(m, h)
    BY <1>1, <2>1, SameMark
  <2>3. ASSUME NEW h \in Int, h >= L  PROVE MarkAt(d, h) = MarkAt(m, L)
    <3>1. \A j \in DOMAIN m.encodings :
            m.encodings[j].pos <= h <=> m.encodings[j].pos <= L
      BY <1>3, <2>3, ContentsParts DEF NoneBehind, L
    <3>2. h \in Int /\ L \in Int  BY <1>3
    <3>3. MarkAt(m, h) = MarkAt(m, L)  BY <3>1, <3>2, SameMark, Zenon
    <3> QED  BY <2>2, <3>3
  <2> DEFINE a == s.text
             b == Stream!Unmarked(t, MarkAt(m, L))
             current == MarkAt(m, L)
             eci == m.hasECI
  <2>5. Stream!Join(s, t) = [text |-> a \o b, current |-> current, eci |-> eci]
    BY <1>4, <1>5, <1>8 DEF Stream!Join
  <2>6. /\ b \in Seq(Marked) /\ Len(b) = N
        /\ \A i \in 1 .. N : b[i] = <<o.bytes[i], MarkAt(m, L)>>
    BY <1>6, UnmarkedParts DEF t, N
  <2> HIDE DEF b
  <2>7. \A i \in 1 .. L : a[i] = <<m.bytes[i], MarkAt(d, i - 1)>>
    BY <1>3, <1>4, <2>2
  <2>8. \A i \in 1 .. N : b[i] = <<o.bytes[i], MarkAt(d, L + i - 1)>>
    <3> TAKE i \in 1 .. N
    <3>1. L + i - 1 \in Int /\ L + i - 1 >= L  BY <1>3
    <3> QED  BY <2>3, <2>6, <3>1
  <2>9. MarkAt(d, L + N) = current
    <3>1. L + N \in Int /\ L + N >= L  BY <1>3
    <3> QED  BY <2>3, <3>1
  <2>10. StreamOf(d) = [text |-> a \o b, current |-> MarkAt(d, L + N), eci |-> d.hasECI]
    <3>1. MarkedBy(a, m, d, 0)
      <4>1. \A i \in 1 .. L : 0 + i - 1 = i - 1  BY <1>3
      <4> QED  BY <1>4, <2>7, <4>1, Zenon DEF MarkedBy, L
    <3>2. MarkedBy(b, o, d, L)  BY <2>6, <2>8, Zenon DEF MarkedBy, N
    <3> HIDE DEF a, current, eci
    <3> QED  BY <1>j, <3>1, <3>2, JoinedText
  <2> QED  BY <2>1, <2>5, <2>9, <2>10, Zenon DEF d, s, t
<1>9. CASE ~m.hasECI /\ o.hasECI
  <2>1. d.encodings = <<>> \o B /\ d.hasECI = o.hasECI
    BY <1>2, <1>3, <1>9
  <2>j. Remaining(m, <<>>) /\ JoinedTo(m, o, <<>>, d)
    BY <1>1, <1>3, <2>1 DEF Remaining, JoinedTo, B, L
  <2>3. ASSUME NEW h \in Nat, h < L  PROVE MarkAt(d, h) = NoSwitch
    <3>1. MarkAt(d, h) = MarkBefore(m, <<>>, h)
      BY <1>l, <2>j, <2>3, JoinedMarks DEF L
    <3> QED  BY <3>1 DEF MarkBefore
  <2>4. ASSUME NEW h \in Int, h >= L  PROVE MarkAt(d, h) = MarkAt(o, h - L)
    <3>1. MarkAt(d, h) = MarkBehind(m, o, <<>>, h)
      BY <2>j, <2>4, JoinedMarks DEF L
    <3> QED  BY <3>1 DEF MarkBefore, MarkBehind, L
  <2> DEFINE a == Stream!OnlyECIs(s)
             b == t.text
             current == MarkAt(o, N)
             eci == o.hasECI
  <2>5. Stream!Join(s, t) = [text |-> a \o b, current |-> current, eci |-> eci]
    BY <1>4, <1>5, <1>9 DEF Stream!Join
  <2>6. /\ a \in Seq(Marked) /\ Len(a) = L
        /\ \A i \in 1 .. L : a[i] = <<m.bytes[i], NoSwitch>>
    BY <1>9, OnlyECIsParts DEF s, L
  <2> HIDE DEF a
  <2>7. \A i \in 1 .. L : a[i] = <<m.bytes[i], MarkAt(d, i - 1)>>
    BY <1>3, <2>3, <2>6
  <2>8. \A i \in 1 .. N : b[i] = <<o.bytes[i], MarkAt(d, L + i - 1)>>
    <3> TAKE i \in 1 .. N
    <3>1. L + i - 1 \in Int /\ L + i - 1 >= L /\ (L + i - 1) - L = i - 1  BY <1>3
    <3>2. MarkAt(d, L + i - 1) = MarkAt(o, i - 1)  BY <2>4, <3>1
    <3> QED  BY <1>5, <3>2
  <2>9. MarkAt(d, L + N) = current
    <3>1. L + N \in Int /\ L + N >= L /\ (L + N) - L = N  BY <1>3
    <3> QED  BY <2>4, <3>1
  <2>10. StreamOf(d) = [text |-> a \o b, current |-> MarkAt(d, L + N), eci |-> d.hasECI]
    <3>1. MarkedBy(a, m, d, 0)
      <4>1. \A i \in 1 .. L : 0 + i - 1 = i - 1  BY <1>3
      <4> QED  BY <2>6, <2>7, <4>1, Zenon DEF MarkedBy, L
    <3>2. MarkedBy(b, o, d, L)  BY <1>5, <2>8, Zenon DEF MarkedBy, N
    <3> HIDE DEF a, current, eci
    <3> QED  BY <1>j, <3>1, <3>2, JoinedText
  <2> QED  BY <2>1, <2>5, <2>9, <2>10, Zenon DEF d, s, t
<1> QED  BY <1>3, <1>7, <1>8, <1>9

LEMMA EmptyStreamOf == StreamOf(Empty) = Stream!EmptyStream
<1>1. Empty \in Contents  BY EmptyInOrder
<1>2. Empty.bytes = <<>> /\ Empty.encodings = <<>> /\ Empty.hasECI = FALSE  BY DEF Empty
<1>3. <<>> \in Seq(Marked) /\ Len(<<>>) = 0  BY EmptySeq
<1>4. MarkAt(Empty, 0) = NoSwitch
  <2>1. DOMAIN Empty.encodings = {}  BY <1>2
  <2> QED  BY <1>1, <2>1, NoMarkBefore
<1>5. StreamOf(Empty) = [text |-> <<>>, current |-> NoSwitch, eci |-> FALSE]
  <2>1. \A i \in 1 .. Len(Empty.bytes) : <<>>[i] = <<Empty.bytes[i], MarkAt(Empty, i - 1)>>
    BY <1>2, <1>3
  <2>2. Len(<<>>) = Len(Empty.bytes) /\ NoSwitch = MarkAt(Empty, Len(Empty.bytes))
        /\ FALSE = Empty.hasECI
    BY <1>2, <1>3, <1>4
  <2> QED  BY <1>1, <1>3, <2>1, <2>2, StreamIs, Zenon
<1> QED  BY <1>5, Zenon DEF Stream!EmptyStream
-----------------------------------------------------------------------------
(* Content implements ContentStream: whatever a decoder appends, switches, *)
(* removes and inserts, and however contents are merged, the list of       *)
(* positions has every byte read in the encoding of the last switch before *)
(* it, and a header with a switch inside is removed with nothing else.     *)
(* Two calls are left out: the insertion past the end, and the merging of  *)
(* a content from which such a header was removed.                         *)
THEOREM StreamImplemented == Spec => ImplementsStream
<1> DEFINE c == StreamOf(content)
           m == StreamOf(merged)
<1>1. Init => Stream!Init
  BY EmptyStreamOf DEF Init, Stream!Init
<1>2. /\ TypeOK /\ EncodingsInOrder
      /\ [Next]_vars
      => [Stream!Next \/ PastEnd \/ MergeCut]_<<c, m>>
  <2> SUFFICES ASSUME TypeOK, EncodingsInOrder, [Next]_vars
               PROVE  [Stream!Next \/ PastEnd \/ MergeCut]_<<c, m>>
    OBVIOUS
  <2>0. /\ content \in Contents /\ NoneBehind(content)
        /\ merged \in Contents /\ NoneBehind(merged)
        /\ ~cut.content => InOrder(content)
    BY DEF TypeOK, EncodingsInOrder
  <2>s. ASSUME NEW x, content' = x, UNCHANGED merged
        PROVE  c' = StreamOf(x) /\ m' = m
    BY <2>s DEF StreamOf, MarkAt, LastSwitch
  <2>1. ASSUME NEW b \in Bytes, Push(b) PROVE Stream!Next
    <3>1. c' = [c EXCEPT !.text = Append(@, <<b, c.current>>)] /\ m' = m
      BY <2>0, <2>1, <2>s, PushStream DEF Push
    <3> HIDE DEF c, m
    <3> QED  BY <3>1 DEF Stream!Next, Stream!Add, c, m
  <2>2. ASSUME NEW e \in ECIs, SwitchECI(e) PROVE Stream!Next
    <3>1. c' = [text |-> Stream!OnlyECIs(c), current |-> e, eci |-> TRUE] /\ m' = m
      BY <2>0, <2>2, <2>s, SwitchECIStream DEF SwitchECI
    <3> QED  BY <3>1 DEF Stream!Next, Stream!SwitchECI
  <2>3. ASSUME NEW cs \in CharacterSets, SwitchCharset(cs) PROVE Stream!Next
    <3>1. c' = (IF c.eci THEN c ELSE [c EXCEPT !.current = cs]) /\ m' = m
      BY <2>0, <2>3, <2>s, SwitchCharsetStream DEF SwitchCharset
    <3> QED  BY <3>1 DEF Stream!Next, Stream!SwitchCharset
  <2>e. ASSUME NEW pos \in Nat, NEW n \in Nat, pos + n <= Len(content.bytes),
               pos = 0 \/ n \in {0, 1},
               content' = Erase(content, pos, n), UNCHANGED merged
        PROVE  Stream!Next \/ UNCHANGED <<c, m>>
    <3>1. /\ c' = [c EXCEPT !.text = SubSeq(@, 1, pos) \o SubSeq(@, pos + n + 1, Len(@))]
          /\ m' = m
      BY <2>0, <2>e, <2>s, EraseStream
    <3>2. /\ c.text \in Seq(Marked) /\ Len(c.text) = Len(content.bytes)
          /\ c = [text |-> c.text, current |-> c.current, eci |-> c.eci]
          /\ Len(content.bytes) \in Nat
      BY <2>0, StreamParts, ContentsParts
    <3> HIDE DEF c, m
    <3>3. CASE n = 0
      <4>1. SubSeq(c.text, 1, pos) \o SubSeq(c.text, pos + 1, Len(c.text)) = c.text
        <5>1. /\ 1 \in 1 .. Len(c.text) + 1 /\ pos \in 1 - 1 .. Len(c.text)
              /\ Len(c.text) \in pos .. Len(c.text)
          BY <2>e, <3>2, <3>3
        <5>2. SubSeq(c.text, 1, pos) \o SubSeq(c.text, pos + 1, Len(c.text))
                = SubSeq(c.text, 1, Len(c.text))
          BY <3>2, <5>1, ConcatAdjacentSubSeq, Zenon
        <5>3. SubSeq(c.text, 1, Len(c.text)) = c.text  BY <3>2, SubSeqFull, Zenon
        <5> QED  BY <5>2, <5>3, Zenon
      <4>2. pos + n + 1 = pos + 1  BY <3>3
      <4>3. c' = [c EXCEPT !.text = c.text]  BY <3>1, <4>1, <4>2
      <4>4. c' = c  BY <3>2, <4>3
      <4> QED  BY <3>1, <4>4
    <3>4. CASE n # 0
      <4>1. pos + n \in 1 .. Len(c.text) /\ pos \in 0 .. (pos + n) - 1
        BY <2>e, <3>2, <3>4
      <4>2. c' = [c EXCEPT !.text = SubSeq(@, 1, pos) \o SubSeq(@, (pos + n) + 1, Len(@))]
        BY <3>1
      <4> QED  BY <3>1, <4>1, <4>2 DEF Stream!Next, Stream!Remove, c, m
    <3> QED  BY <3>3, <3>4
  <2>4. ASSUME NEW call \in EraseCalls, EraseFNC1(call[1], call[2])
        PROVE  Stream!Next \/ UNCHANGED <<c, m>>
    <3>1. call[1] \in Nat /\ call[2] \in {0, 1}  BY CallsAssumption
    <3>3. call[1] + call[2] <= Len(content.bytes) /\ call[2] \in Nat
          /\ content' = Erase(content, call[1], call[2]) /\ UNCHANGED merged
      BY <2>4, <3>1 DEF EraseFNC1
    <3> QED  BY <2>e, <3>1, <3>3
  <2>5. ASSUME NEW n \in Headers, EraseHeader(n)
        PROVE  Stream!Next \/ UNCHANGED <<c, m>>
    <3>1. n \in Nat /\ 0 \in Nat  BY CallsAssumption
    <3>2. /\ 0 + n <= Len(content.bytes)
          /\ content' = Erase(content, 0, n) /\ UNCHANGED merged
      BY <2>5, <3>1 DEF EraseHeader
    <3> QED  BY <2>e, <3>1, <3>2
  <2>6. ASSUME NEW call \in InsertCalls, NEW b \in Bytes, InsertText(call, b)
        PROVE  Stream!Next
    <3> DEFINE pos == call[2]
               text == <<b, b>>
               mark == IF pos + 1 > Len(c.text) THEN c.current ELSE c.text[pos + 1][2]
    <3>1. pos \in Nat /\ text \in Seq(Bytes)  BY CallsAssumption
    <3>2. /\ pos <= Len(content.bytes)
          /\ content' = Insert(content, pos, text) /\ UNCHANGED merged
      BY <2>6 DEF InsertText
    <3> HIDE DEF pos, text
    <3>3. /\ c' = [c EXCEPT !.text =
                     SubSeq(@, 1, pos)
                       \o [x \in DOMAIN text |-> <<text[x], MarkAt(content, pos)>>]
                       \o SubSeq(@, pos + 1, Len(@))]
          /\ m' = m
      BY <2>0, <2>s, <3>1, <3>2, InsertStream
    <3>4. /\ Len(c.text) = Len(content.bytes) /\ Len(content.bytes) \in Nat
          /\ c.current = MarkAt(content, Len(content.bytes))
          /\ \A i \in 1 .. Len(content.bytes) :
               c.text[i] = <<content.bytes[i], MarkAt(content, i - 1)>>
      BY <2>0, StreamParts, ContentsParts
    <3> HIDE DEF c, m
    <3>5. MarkAt(content, pos) = mark
      <4>1. CASE pos < Len(content.bytes)
        <5>1. pos + 1 \in 1 .. Len(content.bytes) /\ (pos + 1) - 1 = pos
          BY <3>1, <3>4, <4>1
        <5>2. c.text[pos + 1] = <<content.bytes[pos + 1], MarkAt(content, pos)>>
          BY <3>4, <5>1
        <5>3. ~(pos + 1 > Len(c.text))  BY <3>1, <3>4, <4>1
        <5> QED  BY <5>2, <5>3
      <4>2. CASE pos = Len(content.bytes)  BY <3>1, <3>4, <4>2
      <4> QED  BY <3>1, <3>2, <3>4, <4>1, <4>2
    <3>6. pos + 1 \in 1 .. Len(c.text) + 1 /\ (pos + 1) - 1 = pos  BY <3>1, <3>2, <3>4
    <3>7. Stream!InsertBefore(pos + 1, text)
      BY <3>3, <3>5, <3>6, Zenon DEF Stream!InsertBefore, c, m
    <3> QED  BY <3>3, <3>6, <3>7, Zenon DEF Stream!Next, c, m, text
  <2>7. ASSUME NEW call \in InsertCalls, NEW b \in Bytes, InsertPastEnd(call, b)
        PROVE  PastEnd
    BY <2>7, Zenon DEF PastEnd
  <2>8. CASE MergeNext
    <3>1. m' = StreamOf(AppendContent(merged, content)) /\ c' = StreamOf(Empty)
      BY <2>8 DEF MergeNext, StreamOf, MarkAt, LastSwitch
    <3>2. CASE merged.bytes = <<>> \/ ~cut.content
      <4>1. merged.bytes = <<>> \/ FromStart(content)
        BY <2>0, <3>2 DEF FromStart, InOrder
      <4>2. m' = Stream!Join(m, c) /\ c' = Stream!EmptyStream
        BY <2>0, <3>1, <4>1, MergeStream, EmptyStreamOf
      <4> QED  BY <4>2 DEF Stream!Next, Stream!MergeNext
    <3>3. CASE ~(merged.bytes = <<>> \/ ~cut.content)
      BY <2>8, <3>3 DEF MergeCut
    <3> QED  BY <3>2, <3>3
  <2>9. CASE UNCHANGED vars
    BY <2>9 DEF vars, StreamOf, MarkAt, LastSwitch
  <2> QED  BY <2>1, <2>2, <2>3, <2>4, <2>5, <2>6, <2>7, <2>8, <2>9 DEF Next
<1> QED  BY <1>1, <1>2, ContentInOrder, PTL DEF Spec, ImplementsStream
-----------------------------------------------------------------------------
(* The blocks of ForEachECIBlock follow each other and each has the        *)
(* encoding of its bytes.                                                  *)
Blocks == [eci : ECIs \cup CharacterSets, begin : Nat, end : Nat]
EndOf(b, k) == IF k = 0 THEN 0 ELSE b[k].end
Uniform(c, r) ==
  /\ r.begin <= r.end /\ r.end <= Len(c.bytes)
  /\ \A j \in r.begin .. r.end - 1 : EncodingAt(c, j) = r.eci
Chain(c, b, x) ==
  /\ b \in Seq(Blocks) /\ EndOf(b, Len(b)) = x
  /\ \A k \in 1 .. Len(b) : b[k].begin = EndOf(b, k - 1) /\ Uniform(c, b[k])

LEMMA EmptyChain ==
  ASSUME NEW c
  PROVE  Chain(c, <<>>, 0)
<1>1. <<>> \in Seq(Blocks) /\ Len(<<>>) = 0  BY EmptySeq
<1> QED  BY <1>1 DEF Chain, EndOf

LEMMA LongerChain ==
  ASSUME NEW c, NEW b, NEW x, Chain(c, b, x), NEW r \in Blocks, r.begin = x, Uniform(c, r)
  PROVE  Chain(c, Append(b, r), r.end)
<1> DEFINE t == Append(b, r)  n == Len(b)
<1>1. b \in Seq(Blocks) /\ n \in Nat  BY LenProperties DEF Chain
<1>2. /\ t \in Seq(Blocks) /\ Len(t) = n + 1 /\ t[n + 1] = r
      /\ \A k \in 1 .. n : t[k] = b[k]
  BY <1>1, AppendProperties
<1> HIDE DEF t, n
<1>3. EndOf(t, n + 1) = r.end  BY <1>1, <1>2 DEF EndOf
<1>4. \A k \in 0 .. n : EndOf(t, k) = EndOf(b, k)
  <2> TAKE k \in 0 .. n
  <2>1. k # 0 => t[k] = b[k]  BY <1>1, <1>2
  <2> QED  BY <2>1 DEF EndOf
<1>5. ASSUME NEW k \in 1 .. n + 1
      PROVE  t[k].begin = EndOf(t, k - 1) /\ Uniform(c, t[k])
  <2>1. CASE k = n + 1
    <3>1. k - 1 = n /\ n \in 0 .. n /\ t[k] = r  BY <1>1, <1>2, <2>1
    <3>2. EndOf(b, n) = x  BY DEF Chain, n
    <3>3. EndOf(t, k - 1) = x  BY <1>4, <3>1, <3>2
    <3> QED  BY <3>1, <3>3
  <2>2. CASE k \in 1 .. n
    <3>1. k - 1 \in 0 .. n /\ t[k] = b[k]  BY <1>1, <1>2, <2>2
    <3>2. b[k].begin = EndOf(b, k - 1) /\ Uniform(c, b[k])  BY <2>2 DEF Chain, n
    <3> QED  BY <1>4, <3>1, <3>2
  <2> QED  BY <1>1, <2>1, <2>2
<1> QED  BY <1>2, <1>3, <1>5 DEF Chain, t

PosAfter(c, i) ==
  IF i = Len(c.encodings) THEN Len(c.bytes) ELSE c.encodings[i + 1].pos

LEMMA BlockParts ==
  ASSUME NEW c \in Contents, InOrder(c), NEW i \in 1 .. Len(c.encodings)
  PROVE  /\ Block(c, i) \in Blocks
         /\ Block(c, i).begin = PosAfter(c, i - 1) /\ Block(c, i).end = PosAfter(c, i)
         /\ Uniform(c, Block(c, i))
<1> DEFINE E == c.encodings
           n == Len(E)
           r == Block(c, i)
<1>0. DOMAIN E = 1 .. n /\ n \in Nat /\ Len(c.bytes) \in Nat  BY ContentsParts
<1>1. \A j \in 1 .. n : /\ E[j].eci \in ECIs \cup CharacterSets
                        /\ E[j].pos \in Nat /\ E[j].pos <= Len(c.bytes)
  <2> TAKE j \in 1 .. n
  <2>1. E[j] \in Encoding  BY ContentsParts, ElementOfSeq
  <2>2. E[j].pos \in 0 .. Len(c.bytes)  BY <1>0 DEF InOrder
  <2> QED  BY <1>0, <2>1, <2>2 DEF Encoding
<1>2. r = [eci |-> E[i].eci, begin |-> E[i].pos, end |-> PosAfter(c, i)]
  BY DEF Block, PosAfter
<1>3. /\ PosAfter(c, i) \in Nat /\ PosAfter(c, i) <= Len(c.bytes)
      /\ E[i].pos <= PosAfter(c, i)
  <2>1. CASE i = n  BY <1>0, <1>1, <2>1 DEF PosAfter
  <2>2. CASE i # n
    <3>1. i + 1 \in 1 .. n /\ i <= i + 1  BY <1>0, <2>2
    <3>2. E[i].pos <= E[i + 1].pos  BY <1>0, <3>1 DEF InOrder
    <3> QED  BY <1>1, <2>2, <3>1, <3>2 DEF PosAfter
  <2> QED  BY <2>1, <2>2
<1>4. PosAfter(c, i - 1) = E[i].pos
  <2>1. i - 1 # n /\ (i - 1) + 1 = i  BY <1>0
  <2> QED  BY <2>1 DEF PosAfter
<1> HIDE DEF r, E, n
<1>5. r.eci = E[i].eci /\ r.begin = E[i].pos /\ r.end = PosAfter(c, i)  BY <1>2
<1>6. r \in Blocks
  <2>1. E[i].eci \in ECIs \cup CharacterSets /\ E[i].pos \in Nat  BY <1>1 DEF n, E
  <2> QED  BY <1>2, <1>3, <2>1 DEF Blocks
<1>7. ASSUME NEW j \in E[i].pos .. PosAfter(c, i) - 1  PROVE EncodingAt(c, j) = E[i].eci
  <2>0. i \in 1 .. n /\ E[i].pos \in Nat /\ j \in Int  BY <1>1, <1>3 DEF n, E
  <2>1. ASSUME NEW k \in 1 .. n  PROVE E[k].pos <= j <=> k <= i
    <3>1. CASE k <= i
      <4>1. E[k].pos <= E[i].pos  BY <1>0, <2>0, <3>1 DEF InOrder, E
      <4> QED  BY <1>1, <2>0, <3>1, <4>1
    <3>2. CASE ~(k <= i)
      <4>1. i # n /\ i + 1 \in 1 .. n /\ i + 1 <= k  BY <1>0, <2>0, <3>2
      <4>2. E[i + 1].pos <= E[k].pos  BY <1>0, <4>1 DEF InOrder, E
      <4>3. PosAfter(c, i) = E[i + 1].pos  BY <4>1 DEF PosAfter, n, E
      <4> QED  BY <1>1, <1>3, <2>0, <3>2, <4>1, <4>2, <4>3
    <3> QED  BY <3>1, <3>2
  <2>2. Splits(c, j, i)
    <3>1. i \in 0 .. n  BY <2>0
    <3> QED  BY <1>0, <2>1, <3>1 DEF Splits, E, n
  <2>3. MarkAt(c, j) = Entry(c, i)  BY <2>0, <2>2, MarkOfSplit
  <2>4. i # 0 /\ i \in 0 .. Len(c.encodings)  BY <2>0 DEF n, E
  <2>5. Entry(c, i) # NoSwitch /\ Entry(c, i) = E[i].eci
    BY <2>4, EntryType DEF Entry, E
  <2> QED  BY <2>3, <2>5 DEF EncodingAt
<1>8. Uniform(c, r)  BY <1>3, <1>5, <1>7 DEF Uniform
<1> QED  BY <1>4, <1>5, <1>6, <1>8 DEF r

(* The first block: the bytes before any switch.                           *)
FirstBlock(c) ==
  [eci |-> DefaultECI(c), begin |-> 0,
   end |-> IF c.encodings = <<>> THEN Len(c.bytes) ELSE c.encodings[1].pos]
FirstBlocks(c) ==
  IF c.encodings = <<>> \/ FirstBlock(c).end # 0 THEN <<FirstBlock(c)>> ELSE <<>>

LEMMA FirstChain ==
  ASSUME NEW c \in Contents, InOrder(c)
  PROVE  Chain(c, FirstBlocks(c), PosAfter(c, 0))
<1> DEFINE E == c.encodings
           n == Len(E)
           r == FirstBlock(c)
           x == PosAfter(c, 0)
<1>0. DOMAIN E = 1 .. n /\ n \in Nat /\ Len(c.bytes) \in Nat  BY ContentsParts
<1>1. E = <<>> <=> n = 0  BY ContentsParts, EmptySeq
<1>2. r = [eci |-> DefaultECI(c), begin |-> 0, end |-> x]
  <2>1. 0 + 1 = 1  OBVIOUS
  <2> QED  BY <1>1, <2>1 DEF FirstBlock, PosAfter
<1>3. x \in Nat /\ x <= Len(c.bytes)
  <2>1. CASE n = 0  BY <1>0, <2>1 DEF PosAfter
  <2>2. CASE n # 0
    <3>1. 1 \in 1 .. n /\ 0 + 1 = 1  BY <1>0, <2>2
    <3>2. E[1].pos \in 0 .. Len(c.bytes)  BY <1>0, <3>1 DEF InOrder
    <3> QED  BY <1>0, <2>2, <3>1, <3>2 DEF PosAfter
  <2> QED  BY <2>1, <2>2
<1>4. DefaultECI(c) \in ECIs \cup CharacterSets
  BY EncodingsAssumption DEF DefaultECI
<1> HIDE DEF r, x
<1>5. r \in Blocks /\ r.begin = 0 /\ r.end = x /\ r.eci = DefaultECI(c)
  BY <1>2, <1>3, <1>4 DEF Blocks
<1>6. ASSUME NEW j \in 0 .. x - 1  PROVE EncodingAt(c, j) = DefaultECI(c)
  <2>0. j \in Int /\ j < x  BY <1>3
  <2>1. ASSUME NEW k \in 1 .. n  PROVE ~(E[k].pos <= j)
    <3>1. n # 0 /\ 1 \in 1 .. n /\ 1 <= k /\ 0 + 1 = 1  BY <1>0
    <3>2. E[1].pos <= E[k].pos  BY <1>0, <3>1 DEF InOrder
    <3>3. x = E[1].pos  BY <3>1 DEF PosAfter, x
    <3>4. E[k].pos \in 0 .. Len(c.bytes)  BY <1>0 DEF InOrder
    <3> QED  BY <1>0, <1>3, <2>0, <3>2, <3>3, <3>4
  <2>2. MarkAt(c, j) = NoSwitch  BY <1>0, <2>0, <2>1, NoMarkBefore
  <2> QED  BY <2>2 DEF EncodingAt
<1>7. Uniform(c, r)  BY <1>3, <1>5, <1>6 DEF Uniform
<1>8. CASE E = <<>> \/ x # 0
  <2>1. FirstBlocks(c) = <<r>>  BY <1>5, <1>8 DEF FirstBlocks, r
  <2>2. <<r>> = Append(<<>>, r)  OBVIOUS
  <2>3. Chain(c, Append(<<>>, r), r.end)
    BY <1>5, <1>7, EmptyChain, LongerChain
  <2> QED  BY <1>5, <2>1, <2>2, <2>3 DEF x
<1>9. CASE ~(E = <<>> \/ x # 0)
  <2>1. FirstBlocks(c) = <<>> /\ x = 0  BY <1>5, <1>9 DEF FirstBlocks, r
  <2> QED  BY <2>1, EmptyChain DEF x
<1> QED  BY <1>8, <1>9

LEMMA BlocksChain ==
  ASSUME NEW c \in Contents, InOrder(c)
  PROVE  Chain(c, ForEachECIBlock(c), Len(c.bytes))
<1> DEFINE n == Len(c.encodings)
           T == Seq(Blocks)
           Longer(b, i) ==
             IF Block(c, i).begin # Block(c, i).end THEN Append(b, Block(c, i)) ELSE b
           Calls(f) == f = [i \in 0 .. n |->
                              IF i = 0 THEN FirstBlocks(c) ELSE Longer(f[i - 1], i)]
           f == CHOOSE x : Calls(x)
<1>0. n \in Nat  BY ContentsParts
<1>1. ForEachECIBlock(c) = f[n]
  BY DEF ForEachECIBlock, FirstBlocks, FirstBlock
<1>2. ASSUME NEW i \in 1 .. n, NEW b \in T  PROVE Longer(b, i) \in T
  BY <1>2, BlockParts, AppendProperties
<1>3. FirstBlocks(c) \in T  BY FirstChain DEF Chain
<1>4. \E g : Calls(g)
  <2> DEFINE step == [p \in (1 .. n) \X T |-> Longer(p[2], p[1])]
  <2> HIDE DEF T
  <2>1. step \in [(1 .. n) \X T -> T]
    <3>1. ASSUME NEW p \in (1 .. n) \X T  PROVE Longer(p[2], p[1]) \in T
      <4>1. p[1] \in 1 .. n /\ p[2] \in T  OBVIOUS
      <4> HIDE DEF Longer, n
      <4> QED  BY <1>2, <4>1
    <3> HIDE DEF Longer
    <3> QED  BY <3>1
  <2>2. \A i \in 1 .. n : \A b \in T : step[<<i, b>>] = Longer(b, i)
    <3> HIDE DEF Longer
    <3> QED  OBVIOUS
  <2> HIDE DEF step, Longer, n
  <2>3. PICK g \in [0 .. n -> T] :
          g = [i \in 0 .. n |-> IF i = 0 THEN FirstBlocks(c) ELSE step[<<i, g[i - 1]>>]]
    <3> DEFINE start == FirstBlocks(c)
    <3>1. start \in T  BY <1>3
    <3> HIDE DEF start
    <3>2. \E g : Iterates(g, n, T, start, step)
      BY <1>0, <2>1, <3>1, Recursion
    <3> QED  BY <3>2 DEF start, Iterates
  <2>4. \A i \in 0 .. n : i # 0 => step[<<i, g[i - 1]>>] = Longer(g[i - 1], i)
    <3> TAKE i \in 0 .. n
    <3>1. i # 0 => i - 1 \in 0 .. n /\ i \in 1 .. n  BY <1>0
    <3> QED  BY <2>2, <2>3, <3>1
  <2>5. Calls(g)  BY <2>3, <2>4
  <2> QED  BY <2>5
<1>5. Calls(f)  BY <1>4
<1> HIDE DEF f
<1>6. f[0] = FirstBlocks(c) /\ \A i \in 1 .. n : f[i] = Longer(f[i - 1], i)
  <2>1. f = [i \in 0 .. n |-> IF i = 0 THEN FirstBlocks(c) ELSE Longer(f[i - 1], i)]
    BY <1>5
  <2> HIDE DEF Longer, n, Calls
  <2>2. 0 \in 0 .. n  BY <1>0
  <2>3. f[0] = FirstBlocks(c)  BY <2>1, <2>2
  <2>4. ASSUME NEW i \in 1 .. n  PROVE f[i] = Longer(f[i - 1], i)
    <3>1. i \in 0 .. n /\ i # 0  BY <1>0
    <3> QED  BY <2>1, <3>1
  <2> QED  BY <2>3, <2>4
<1> DEFINE S == {i \in 0 .. n : Chain(c, f[i], PosAfter(c, i))}
<1>7. 0 \in S  BY <1>0, <1>6, FirstChain
<1>8. ASSUME NEW i \in 0 .. n - 1, i \in S  PROVE i + 1 \in S
  <2>1. i + 1 \in 1 .. n /\ (i + 1) - 1 = i /\ i + 1 \in 0 .. n  BY <1>0
  <2>2. Chain(c, f[i], PosAfter(c, i))  BY <1>8
  <2> DEFINE r == Block(c, i + 1)
  <2>3. /\ r \in Blocks /\ r.begin = PosAfter(c, i) /\ r.end = PosAfter(c, i + 1)
        /\ Uniform(c, r)
    BY <2>1, BlockParts
  <2>4. f[i + 1] = IF r.begin # r.end THEN Append(f[i], r) ELSE f[i]
    BY <1>6, <2>1
  <2> HIDE DEF r
  <2>5. Chain(c, f[i + 1], PosAfter(c, i + 1))
    <3>1. CASE r.begin # r.end
      <4>1. Chain(c, Append(f[i], r), r.end)  BY <2>2, <2>3, LongerChain
      <4> QED  BY <2>3, <2>4, <3>1, <4>1
    <3>2. CASE r.begin = r.end  BY <2>2, <2>3, <2>4, <3>2
    <3> QED  BY <3>1, <3>2
  <2> QED  BY <2>1, <2>5
<1> HIDE DEF S
<1>9. n \in S
  <2>1. \A i \in 0 .. n : i \in S  BY <1>0, <1>7, <1>8, Induct
  <2> QED  BY <1>0, <2>1
<1>10. PosAfter(c, n) = Len(c.bytes)  BY DEF PosAfter
<1> QED  BY <1>1, <1>9, <1>10 DEF S
-----------------------------------------------------------------------------
(* Reading a text from one state of the parser to another.                 *)
Symbols == Bytes \cup ECIs \cup CharacterSets
Reads(g, s, p, q) ==
  /\ g[0] = p /\ g[Len(s)] = q
  /\ \A n \in 1 .. Len(s) : g[n] = Parse(g[n - 1], s[n])
Run(s, p, q) == \E g : Reads(g, s, p, q)

LEMMA RunNothing ==
  ASSUME NEW p
  PROVE  Run(<<>>, p, p)
<1> DEFINE g == [n \in 0 .. 0 |-> p]
<1>1. g[0] = p  OBVIOUS
<1> HIDE DEF g
<1>2. Reads(g, <<>>, p, p)  BY <1>1, EmptySeq DEF Reads
<1> QED  BY <1>2 DEF Run

LEMMA RunOne ==
  ASSUME NEW b \in Symbols, NEW p
  PROVE  Run(<<b>>, p, Parse(p, b))
<1> DEFINE q == Parse(p, b)
           g == [n \in 0 .. 1 |-> IF n = 0 THEN p ELSE q]
<1> HIDE DEF q
<1>1. g[0] = p /\ g[1] = q  OBVIOUS
<1>2. Len(<<b>>) = 1 /\ <<b>>[1] = b  OBVIOUS
<1> HIDE DEF g
<1>3. ASSUME NEW n \in 1 .. 1  PROVE g[n] = Parse(g[n - 1], <<b>>[n])
  <2>1. n = 1 /\ n - 1 = 0  OBVIOUS
  <2> QED  BY <1>1, <1>2, <2>1 DEF q
<1>4. Reads(g, <<b>>, p, q)  BY <1>1, <1>2, <1>3 DEF Reads
<1> QED  BY <1>4 DEF Run, q

LEMMA RunJoined ==
  ASSUME NEW s \in Seq(Symbols), NEW t \in Seq(Symbols), NEW p, NEW q, NEW r,
         Run(s, p, q), Run(t, q, r)
  PROVE  Run(s \o t, p, r)
<1>1. PICK g : Reads(g, s, p, q)  BY DEF Run
<1>2. PICK h : Reads(h, t, q, r)  BY DEF Run
<1> DEFINE m == Len(s)  k == Len(t)  u == s \o t
           f == [n \in 0 .. m + k |-> IF n <= m THEN g[n] ELSE h[n - m]]
<1>3. m \in Nat /\ k \in Nat  BY LenProperties
<1>4. /\ Len(u) = m + k
      /\ \A n \in 1 .. m + k : u[n] = IF n <= m THEN s[n] ELSE t[n - m]
  BY ConcatProperties
<1>5. \A n \in 0 .. m + k : f[n] = IF n <= m THEN g[n] ELSE h[n - m]  OBVIOUS
<1> HIDE DEF f, m, k, u
<1>6. /\ g[0] = p /\ g[m] = q /\ h[0] = q /\ h[k] = r
      /\ \A n \in 1 .. m : g[n] = Parse(g[n - 1], s[n])
      /\ \A n \in 1 .. k : h[n] = Parse(h[n - 1], t[n])
  BY <1>1, <1>2 DEF Reads, m, k
<1>7. f[0] = p  BY <1>3, <1>5, <1>6
<1>8. f[m + k] = r
  <2>1. CASE k = 0  BY <1>3, <1>5, <1>6, <2>1
  <2>2. CASE k # 0
    <3>1. m + k \in 0 .. m + k /\ ~(m + k <= m) /\ (m + k) - m = k  BY <1>3, <2>2
    <3> QED  BY <1>5, <1>6, <3>1
  <2> QED  BY <2>1, <2>2
<1>9. ASSUME NEW n \in 1 .. m + k  PROVE f[n] = Parse(f[n - 1], u[n])
  <2>0. n \in 0 .. m + k /\ n - 1 \in 0 .. m + k  BY <1>3
  <2>1. CASE n <= m
    <3>1. n \in 1 .. m /\ n - 1 <= m  BY <1>3, <2>1
    <3> QED  BY <1>4, <1>5, <1>6, <2>0, <2>1, <3>1
  <2>2. CASE ~(n <= m)
    <3>1. n - m \in 1 .. k /\ (n - m) - 1 = (n - 1) - m  BY <1>3, <2>2
    <3>2. f[n - 1] = h[(n - m) - 1]
      <4>1. CASE n - 1 <= m
        <5>1. n - 1 = m /\ (n - m) - 1 = 0  BY <1>3, <2>2, <4>1
        <5> QED  BY <1>5, <1>6, <2>0, <4>1, <5>1
      <4>2. CASE ~(n - 1 <= m)  BY <1>5, <2>0, <3>1, <4>2
      <4> QED  BY <4>1, <4>2
    <3>3. f[n] = h[n - m] /\ u[n] = t[n - m]  BY <1>4, <1>5, <2>0, <2>2
    <3>4. h[n - m] = Parse(h[(n - m) - 1], t[n - m])  BY <1>6, <3>1
    <3> QED  BY <3>2, <3>3, <3>4
  <2> QED  BY <2>1, <2>2
<1>10. Reads(f, u, p, r)  BY <1>4, <1>7, <1>8, <1>9 DEF Reads
<1> QED  BY <1>10 DEF Run, u

(* A text put together part by part, and the state after each part.        *)
Joins(f, N, part) ==
  f = [n \in 0 .. N |-> IF n = 0 THEN <<>> ELSE f[n - 1] \o part[n]]

LEMMA JoinExists ==
  ASSUME NEW N \in Nat, NEW part \in [1 .. N -> Seq(Symbols)]
  PROVE  \E f : Joins(f, N, part)
<1> DEFINE T == Seq(Symbols)
           step == [x \in (1 .. N) \X T |-> x[2] \o part[x[1]]]
           start == <<>>
<1>1. start \in T  BY EmptySeq
<1>2. ASSUME NEW x \in (1 .. N) \X T  PROVE x[2] \o part[x[1]] \in T
  <2>1. x[1] \in 1 .. N /\ x[2] \in Seq(Symbols)  OBVIOUS
  <2>2. part[x[1]] \in Seq(Symbols)  BY <2>1
  <2> QED  BY <2>1, <2>2, ConcatProperties
<1> HIDE DEF T, start
<1>3. step \in [(1 .. N) \X T -> T]  BY <1>2
<1>4. \A i \in 1 .. N : \A b \in T : step[<<i, b>>] = b \o part[i]  OBVIOUS
<1> HIDE DEF step
<1>5. PICK f : Iterates(f, N, T, start, step)  BY <1>1, <1>3, Recursion
<1>6. \A n \in 0 .. N : n # 0 => step[<<n, f[n - 1]>>] = f[n - 1] \o part[n]
  <2> TAKE n \in 0 .. N
  <2>1. n # 0 => n - 1 \in 0 .. N /\ n \in 1 .. N  OBVIOUS
  <2>2. n # 0 => f[n - 1] \in T  BY <1>5, <2>1 DEF Iterates
  <2> QED  BY <1>4, <2>1, <2>2
<1>7. Joins(f, N, part)  BY <1>5, <1>6 DEF Iterates, Joins, start
<1> QED  BY <1>7

LEMMA RunOfJoin ==
  ASSUME NEW N \in Nat, NEW part \in [1 .. N -> Seq(Symbols)], NEW st,
         \A n \in 1 .. N : Run(part[n], st[n - 1], st[n]),
         NEW f, Joins(f, N, part)
  PROVE  f[N] \in Seq(Symbols) /\ Run(f[N], st[0], st[N])
<1> DEFINE T == Seq(Symbols)
           S == {n \in 0 .. N : f[n] \in T /\ Run(f[n], st[0], st[n])}
<1>1. f[0] = <<>> /\ \A n \in 1 .. N : f[n] = f[n - 1] \o part[n]
  <2>0. f = [n \in 0 .. N |-> IF n = 0 THEN <<>> ELSE f[n - 1] \o part[n]]
    BY DEF Joins
  <2>1. f[0] = <<>>  BY <2>0
  <2>2. ASSUME NEW n \in 1 .. N  PROVE f[n] = f[n - 1] \o part[n]
    <3>1. n \in 0 .. N /\ n # 0  OBVIOUS
    <3> QED  BY <2>0, <3>1
  <2> QED  BY <2>1, <2>2
<1>2. 0 \in S
  <2>1. f[0] \in T  BY <1>1, EmptySeq
  <2>2. Run(f[0], st[0], st[0])  BY <1>1, RunNothing
  <2>3. 0 \in 0 .. N  OBVIOUS
  <2> QED  BY <2>1, <2>2, <2>3
<1>3. ASSUME NEW n \in 0 .. N - 1, n \in S  PROVE n + 1 \in S
  <2>1. n + 1 \in 1 .. N /\ (n + 1) - 1 = n /\ n + 1 \in 0 .. N  OBVIOUS
  <2>2. f[n] \in Seq(Symbols) /\ Run(f[n], st[0], st[n])  BY <1>3
  <2>3. part[n + 1] \in Seq(Symbols) /\ Run(part[n + 1], st[n], st[n + 1])  BY <2>1
  <2>4. f[n + 1] = f[n] \o part[n + 1]  BY <1>1, <2>1
  <2>5. f[n + 1] \in T  BY <2>2, <2>3, <2>4, ConcatProperties
  <2>6. Run(f[n + 1], st[0], st[n + 1])  BY <2>2, <2>3, <2>4, RunJoined
  <2> QED  BY <2>1, <2>5, <2>6
<1> HIDE DEF S
<1>4. N \in S
  <2>1. \A n \in 0 .. N : n \in S  BY <1>2, <1>3, Induct
  <2> QED  BY <2>1
<1> QED  BY <1>4 DEF S
-----------------------------------------------------------------------------
(* What is read of one byte and of one designator.                         *)
At(t, e) == [text |-> t, eci |-> e, escape |-> FALSE]
Doubled(b) == IF b = Backslash THEN <<Backslash, Backslash>> ELSE <<b>>

LEMMA PairOfSymbols ==
  ASSUME NEW a \in Symbols, NEW b \in Symbols
  PROVE  /\ <<a>> \in Seq(Symbols) /\ <<b>> \in Seq(Symbols) /\ <<a, b>> \in Seq(Symbols)
         /\ <<a>> \o <<b>> = <<a, b>>
<1> DEFINE s == <<a>>
           t == <<b>>
           u == <<a, b>>
<1>1. s \in Seq(Symbols) /\ Len(s) = 1 /\ s[1] = a  OBVIOUS
<1>2. t \in Seq(Symbols) /\ Len(t) = 1 /\ t[1] = b  OBVIOUS
<1>3. u \in Seq(Symbols) /\ Len(u) = 2 /\ u[1] = a /\ u[2] = b  OBVIOUS
<1> HIDE DEF s, t, u
<1>4. /\ s \o t \in Seq(Symbols) /\ Len(s \o t) = 1 + 1
      /\ \A i \in 1 .. 1 + 1 : (s \o t)[i] = IF i <= 1 THEN s[i] ELSE t[i - 1]
  BY <1>1, <1>2, ConcatProperties
<1>5. \A i \in 1 .. 2 : (s \o t)[i] = u[i]
  <2> TAKE i \in 1 .. 2
  <2>1. i = 1 \/ i = 2  OBVIOUS
  <2> QED  BY <1>1, <1>2, <1>3, <1>4, <2>1
<1>6. s \o t = u  BY <1>3, <1>4, <1>5, SeqEqual
<1> QED  BY <1>1, <1>2, <1>3, <1>6 DEF s, t, u

LEMMA RunByte ==
  ASSUME NEW b \in Bytes, NEW t, NEW e
  PROVE  /\ Doubled(b) \in Seq(Symbols)
         /\ Run(Doubled(b), At(t, e), At(Append(t, <<b, e>>), e))
<1>0. b \in Symbols /\ Backslash \in Symbols  BY EncodingsAssumption DEF Symbols
<1> DEFINE u == Append(t, <<b, e>>)
           w == [text |-> t, eci |-> e, escape |-> TRUE]
<1>1. CASE b = Backslash
  <2>1. Parse(At(t, e), Backslash) = w  BY DEF Parse, At
  <2>2. Parse(w, Backslash) = At(u, e)  BY <1>1 DEF Parse, At
  <2>3. Run(<<Backslash>>, At(t, e), w)  BY <1>0, <2>1, RunOne
  <2>4. Run(<<Backslash>>, w, At(u, e))  BY <1>0, <2>2, RunOne
  <2>5. <<Backslash>> \in Seq(Symbols) /\ <<Backslash, Backslash>> \in Seq(Symbols)
    BY <1>0
  <2>6. <<Backslash>> \o <<Backslash>> = <<Backslash, Backslash>>
    BY <1>0, PairOfSymbols
  <2> HIDE DEF u, w
  <2>7. Run(<<Backslash>> \o <<Backslash>>, At(t, e), At(u, e))
    BY <2>3, <2>4, <2>5, RunJoined
  <2>8. Doubled(b) = <<Backslash, Backslash>>  BY <1>1 DEF Doubled
  <2> QED  BY <2>5, <2>6, <2>7, <2>8 DEF u
<1>2. CASE b # Backslash
  <2>1. Parse(At(t, e), b) = At(u, e)  BY <1>2 DEF Parse, At
  <2>2. Doubled(b) = <<b>>  BY <1>2 DEF Doubled
  <2>3. Run(<<b>>, At(t, e), At(u, e))  BY <1>0, <2>1, RunOne
  <2>4. <<b>> \in Seq(Symbols)  BY <1>0
  <2> QED  BY <2>2, <2>3, <2>4
<1> QED  BY <1>1, <1>2

LEMMA RunDesignator ==
  ASSUME NEW d \in ECIs \cup CharacterSets, NEW t, NEW e
  PROVE  /\ <<Backslash, d>> \in Seq(Symbols)
         /\ Run(<<Backslash, d>>, At(t, e), At(t, d))
<1>0. d \in Symbols /\ Backslash \in Symbols /\ d # Backslash
  BY EncodingsAssumption DEF Symbols
<1> DEFINE w == [text |-> t, eci |-> e, escape |-> TRUE]
<1>1. Parse(At(t, e), Backslash) = w  BY DEF Parse, At
<1>2. Parse(w, d) = At(t, d)  BY <1>0 DEF Parse, At
<1>3. Run(<<Backslash>>, At(t, e), w)  BY <1>0, <1>1, RunOne
<1>4. Run(<<d>>, w, At(t, d))  BY <1>0, <1>2, RunOne
<1>5. /\ <<Backslash>> \in Seq(Symbols) /\ <<d>> \in Seq(Symbols)
      /\ <<Backslash, d>> \in Seq(Symbols)
  BY <1>0
<1>6. <<Backslash>> \o <<d>> = <<Backslash, d>>  BY <1>0, PairOfSymbols
<1> HIDE DEF w
<1>7. Run(<<Backslash>> \o <<d>>, At(t, e), At(t, d))  BY <1>3, <1>4, <1>5, RunJoined
<1> QED  BY <1>5, <1>6, <1>7

(* The text of the first n bytes.                                          *)
TextUpTo(c, n) == [i \in 1 .. n |-> <<c.bytes[i], EncodingAt(c, i - 1)>>]

LEMMA TextGrows ==
  ASSUME NEW c \in Contents, NEW n \in Nat, n < Len(c.bytes)
  PROVE  TextUpTo(c, n + 1) = Append(TextUpTo(c, n), <<c.bytes[n + 1], EncodingAt(c, n)>>)
<1> DEFINE val(i) == <<c.bytes[i], EncodingAt(c, i - 1)>>
           X == {val(i) : i \in 1 .. n + 1}
           s == TextUpTo(c, n)
           t == TextUpTo(c, n + 1)
           u == Append(s, val(n + 1))
<1>0. \A i \in 1 .. n + 1 : val(i) \in X  OBVIOUS
<1> HIDE DEF X
<1>1. s = [i \in 1 .. n |-> val(i)] /\ t = [i \in 1 .. n + 1 |-> val(i)]
  BY DEF TextUpTo
<1>2. val(n + 1) = <<c.bytes[n + 1], EncodingAt(c, n)>>
  <2>1. (n + 1) - 1 = n  OBVIOUS
  <2> QED  BY <2>1
<1> HIDE DEF val, s, t
<1>3. s \in [1 .. n -> X] /\ t \in [1 .. n + 1 -> X]
  <2>1. \A i \in 1 .. n : i \in 1 .. n + 1  OBVIOUS
  <2> QED  BY <1>0, <1>1, <2>1
<1>4. s \in Seq(X) /\ t \in Seq(X) /\ Len(s) = n /\ Len(t) = n + 1
  <2>1. n + 1 \in Nat  OBVIOUS
  <2> QED  BY <1>3, <2>1, LenProperties
<1>5. n + 1 \in 1 .. n + 1  OBVIOUS
<1>6. val(n + 1) \in X  BY <1>0, <1>5
<1>7. /\ u \in Seq(X) /\ Len(u) = n + 1 /\ u[n + 1] = val(n + 1)
      /\ \A i \in 1 .. n : u[i] = s[i]
  BY <1>4, <1>6, AppendProperties
<1> HIDE DEF u
<1>8. \A i \in 1 .. n + 1 : t[i] = u[i]
  <2> TAKE i \in 1 .. n + 1
  <2>1. i = n + 1 \/ i \in 1 .. n  OBVIOUS
  <2>2. t[i] = val(i)  BY <1>1
  <2>3. i \in 1 .. n => s[i] = val(i)  BY <1>1
  <2> QED  BY <1>7, <2>1, <2>2, <2>3
<1>9. t = u  BY <1>4, <1>7, <1>8, SeqEqual
<1> QED  BY <1>2, <1>9 DEF t, u, s
-----------------------------------------------------------------------------
(* The bytes of a block, read in the encoding of the block.                *)
BytesOf(c, r) == SubSeq(c.bytes, r.begin + 1, r.end)

LEMMA EscapedRun ==
  ASSUME NEW c \in Contents, NEW r \in Blocks, Uniform(c, r)
  PROVE  /\ Escaped(BytesOf(c, r)) \in Seq(Symbols)
         /\ Run(Escaped(BytesOf(c, r)),
                At(TextUpTo(c, r.begin), r.eci), At(TextUpTo(c, r.end), r.eci))
<1> DEFINE s == BytesOf(c, r)
           N == Len(s)
           part == [n \in 1 .. N |-> Doubled(s[n])]
           Calls(f) == f = [n \in 0 .. N |->
                              IF n = 0 THEN <<>>
                              ELSE f[n - 1] \o IF s[n] = Backslash THEN <<Backslash, Backslash>>
                                                                   ELSE <<s[n]>>]
           f == CHOOSE x : Calls(x)
           st == [n \in 0 .. N |-> At(TextUpTo(c, r.begin + n), r.eci)]
<1>0. /\ r.begin \in Nat /\ r.end \in Nat /\ Len(c.bytes) \in Nat
      /\ r.begin <= r.end /\ r.end <= Len(c.bytes)
  BY ContentsParts DEF Blocks, Uniform
<1>1. /\ s \in Seq(Bytes) /\ N = r.end - r.begin
      /\ \A n \in 1 .. N : s[n] = c.bytes[r.begin + n] /\ s[n] \in Bytes
  <2> DEFINE a == r.begin + 1
             z == r.end
  <2>1. \A i \in a .. z : c.bytes[i] \in Bytes
    <3> TAKE i \in a .. z
    <3>1. i \in 1 .. Len(c.bytes)  BY <1>0
    <3> QED  BY <3>1, ContentsParts, ElementOfSeq
  <2>2. a \in Int /\ z \in Int  BY <1>0
  <2>3. s = SubSeq(c.bytes, a, z)  BY DEF BytesOf
  <2> HIDE DEF a, z, s
  <2>4. /\ s \in Seq(Bytes) /\ Len(s) = IF a <= z THEN z - a + 1 ELSE 0
        /\ \A i \in 1 .. z - a + 1 : s[i] = c.bytes[a + i - 1]
    BY <2>1, <2>2, <2>3, SubSeqProperties
  <2>5. Len(s) = r.end - r.begin  BY <1>0, <2>4 DEF a, z
  <2>6. ASSUME NEW n \in 1 .. N  PROVE s[n] = c.bytes[r.begin + n] /\ s[n] \in Bytes
    <3>1. n \in 1 .. z - a + 1 /\ a + n - 1 = r.begin + n  BY <1>0, <2>5 DEF a, z
    <3>2. s[n] \in Bytes  BY <2>4, ElementOfSeq
    <3> QED  BY <2>4, <3>1, <3>2
  <2> QED  BY <2>4, <2>5, <2>6
<1>2. Escaped(s) = f[N]  BY DEF Escaped
<1> HIDE DEF s, N
<1>3. N \in Nat  BY <1>0, <1>1
<1>4. part \in [1 .. N -> Seq(Symbols)]  BY <1>1, RunByte
<1>5. \A x : Joins(x, N, part) <=> Calls(x)
  <2> TAKE x
  <2>1. \A n \in 0 .. N : n # 0 =>
          part[n] = IF s[n] = Backslash THEN <<Backslash, Backslash>> ELSE <<s[n]>>
    <3> TAKE n \in 0 .. N
    <3>1. n # 0 => n \in 1 .. N  BY <1>3
    <3> QED  BY <3>1 DEF Doubled
  <2> HIDE DEF part
  <2> QED  BY <2>1 DEF Joins
<1>6. ASSUME NEW n \in 1 .. N  PROVE Run(part[n], st[n - 1], st[n])
  <2> DEFINE i == r.begin + (n - 1)
             t == TextUpTo(c, i)
             b == c.bytes[i + 1]
  <2>1. /\ i \in Nat /\ i < Len(c.bytes) /\ i + 1 = r.begin + n
        /\ i \in r.begin .. r.end - 1 /\ n - 1 \in 0 .. N /\ n \in 0 .. N
    BY <1>0, <1>1, <1>3
  <2>2. EncodingAt(c, i) = r.eci  BY <2>1 DEF Uniform
  <2>3. TextUpTo(c, i + 1) = Append(t, <<b, EncodingAt(c, i)>>)
    <3> HIDE DEF i
    <3> QED  BY <2>1, TextGrows
  <2>4. s[n] = b /\ b \in Bytes  BY <1>1, <2>1
  <2>5. part[n] = Doubled(b)  BY <2>4
  <2>6. st[n - 1] = At(t, r.eci) /\ st[n] = At(TextUpTo(c, i + 1), r.eci)
    BY <2>1
  <2> HIDE DEF part, st, i, t, b
  <2>7. Run(Doubled(b), At(t, r.eci), At(Append(t, <<b, r.eci>>), r.eci))
    BY <2>4, RunByte
  <2> QED  BY <2>2, <2>3, <2>5, <2>6, <2>7
<1>7. st[0] = At(TextUpTo(c, r.begin), r.eci) /\ st[N] = At(TextUpTo(c, r.end), r.eci)
  <2>1. 0 \in 0 .. N /\ N \in 0 .. N /\ r.begin + 0 = r.begin /\ r.begin + N = r.end
    BY <1>0, <1>1, <1>3
  <2> QED  BY <2>1
<1> HIDE DEF part, st
<1>8. Joins(f, N, part)
  <2>1. \E x : Calls(x)  BY <1>3, <1>4, <1>5, JoinExists
  <2>2. Calls(f)  BY <2>1
  <2> HIDE DEF f
  <2> QED  BY <1>5, <2>2
<1> HIDE DEF f
<1>9. f[N] \in Seq(Symbols) /\ Run(f[N], st[0], st[N])
  BY <1>3, <1>4, <1>6, <1>8, RunOfJoin
<1> QED  BY <1>2, <1>7, <1>9 DEF s

(* A block in the protocol: its designator and its bytes.                  *)
LEMMA BlockRun ==
  ASSUME NEW c \in Contents, NEW r \in Blocks, Uniform(c, r), NEW e
  PROVE  LET s == <<Backslash, r.eci>> \o Escaped(BytesOf(c, r))
         IN  s \in Seq(Symbols)
             /\ Run(s, At(TextUpTo(c, r.begin), e), At(TextUpTo(c, r.end), r.eci))
<1>1. r.eci \in ECIs \cup CharacterSets  BY DEF Blocks
<1> DEFINE d == <<Backslash, r.eci>>
           x == Escaped(BytesOf(c, r))
           t == TextUpTo(c, r.begin)
           u == At(TextUpTo(c, r.end), r.eci)
<1>2. d \in Seq(Symbols) /\ Run(d, At(t, e), At(t, r.eci))  BY <1>1, RunDesignator
<1>3. x \in Seq(Symbols) /\ Run(x, At(t, r.eci), u)  BY EscapedRun
<1> HIDE DEF d, x, t, u
<1>4. d \o x \in Seq(Symbols) /\ Run(d \o x, At(t, e), u)
  BY <1>2, <1>3, RunJoined, ConcatProperties
<1> QED  BY <1>4 DEF d, x, t, u
-----------------------------------------------------------------------------
LEMMA ParsedOfRun ==
  ASSUME NEW s \in Seq(Symbols), NEW t, NEW e, Run(s, At(<<>>, ISO8859_1), At(t, e))
  PROVE  ParsedECI(s) = t
<1> DEFINE N == Len(s)
           start == At(<<>>, ISO8859_1)
           Calls(f) == f = [n \in 0 .. N |-> IF n = 0 THEN start ELSE Parse(f[n - 1], s[n])]
           f == CHOOSE x : Calls(x)
<1>0. N \in Nat  BY LenProperties
<1>1. ParsedECI(s) = f[N].text  BY DEF ParsedECI, At
<1>2. PICK g : Reads(g, s, start, At(t, e))  BY DEF Run
<1> HIDE DEF N, start
<1>3. /\ g[0] = start /\ g[N] = At(t, e)
      /\ \A n \in 1 .. N : g[n] = Parse(g[n - 1], s[n])
  BY <1>2 DEF Reads, N
<1>4. \E x : Calls(x)
  <2> DEFINE h == [n \in 0 .. N |-> g[n]]
  <2>1. \A n \in 0 .. N : h[n] = g[n]  OBVIOUS
  <2> HIDE DEF h
  <2>2. \A n \in 0 .. N : g[n] = IF n = 0 THEN start ELSE Parse(h[n - 1], s[n])
    <3> TAKE n \in 0 .. N
    <3>1. CASE n = 0  BY <1>3, <3>1
    <3>2. CASE n # 0
      <4>1. n \in 1 .. N /\ n - 1 \in 0 .. N  BY <1>0, <3>2
      <4> QED  BY <1>3, <2>1, <3>2, <4>1
    <3> QED  BY <3>1, <3>2
  <2>3. Calls(h)  BY <2>2 DEF h
  <2> QED  BY <2>3
<1>5. Calls(f)  BY <1>4
<1> HIDE DEF f
<1>6. f[0] = start /\ \A n \in 1 .. N : f[n] = Parse(f[n - 1], s[n])
  <2>0. f = [n \in 0 .. N |-> IF n = 0 THEN start ELSE Parse(f[n - 1], s[n])]
    BY <1>5
  <2>1. 0 \in 0 .. N  BY <1>0
  <2>2. f[0] = start  BY <2>0, <2>1
  <2>3. ASSUME NEW n \in 1 .. N  PROVE f[n] = Parse(f[n - 1], s[n])
    <3>1. n \in 0 .. N /\ n # 0  BY <1>0
    <3> QED  BY <2>0, <3>1
  <2> QED  BY <2>2, <2>3
<1> DEFINE S == {n \in 0 .. N : f[n] = g[n]}
<1>7. 0 \in S  BY <1>0, <1>3, <1>6
<1>8. ASSUME NEW n \in 0 .. N - 1, n \in S  PROVE n + 1 \in S
  <2>1. n + 1 \in 1 .. N /\ (n + 1) - 1 = n /\ n + 1 \in 0 .. N  BY <1>0
  <2>2. f[n] = g[n]  BY <1>8
  <2> QED  BY <1>3, <1>6, <2>1, <2>2
<1> HIDE DEF S
<1>9. N \in S
  <2>1. \A n \in 0 .. N : n \in S  BY <1>0, <1>7, <1>8, Induct
  <2> QED  BY <1>0, <2>1
<1>10. f[N] = At(t, e)  BY <1>3, <1>9 DEF S
<1> QED  BY <1>1, <1>10 DEF At

LEMMA SliceOfBlock ==
  ASSUME NEW c \in Contents, NEW r \in Blocks, Uniform(c, r)
  PROVE  AsView(c.bytes, r.begin, r.end) = BytesOf(c, r)
<1>1. /\ r.begin \in Nat /\ r.end \in Nat /\ Len(c.bytes) \in Nat
      /\ r.begin <= r.end /\ r.end <= Len(c.bytes)
  BY ContentsParts DEF Blocks, Uniform
<1>2. ~(r.begin < 0 \/ r.begin > Len(c.bytes)) /\ ~(r.end < r.begin \/ r.end > Len(c.bytes))
  BY <1>1
<1> QED  BY <1>2, Zenon DEF AsView, BytesOf

LEMMA RoundTripOfNothing ==
  ASSUME NEW c \in Contents, c.bytes = <<>>
  PROVE  RoundTrip(c)
<1>1. BytesECI(c) = <<>>  BY DEF BytesECI
<1>2. <<>> \in Seq(Symbols)  BY EmptySeq
<1>3. Run(<<>>, At(<<>>, ISO8859_1), At(<<>>, ISO8859_1))  BY RunNothing
<1>4. ParsedECI(<<>>) = <<>>  BY <1>2, <1>3, ParsedOfRun
<1>5. [i \in DOMAIN c.bytes |-> <<c.bytes[i], EncodingAt(c, i - 1)>>] = <<>>  OBVIOUS
<1> QED  BY <1>1, <1>4, <1>5, Zenon DEF RoundTrip

LEMMA RoundTripInOrder ==
  ASSUME NEW c \in Contents, InOrder(c), c.hasECI, c.bytes # <<>>
  PROVE  ParsedECI(BytesECI(c)) =
           [i \in DOMAIN c.bytes |-> <<c.bytes[i], EncodingAt(c, i - 1)>>]
<1> DEFINE blocks == ForEachECIBlock(c)
           N == Len(blocks)
           Part(n) == <<Backslash, blocks[n].eci>>
                        \o Escaped(AsView(c.bytes, blocks[n].begin, blocks[n].end))
           part == [n \in 1 .. N |-> Part(n)]
           Calls(f) == f = [n \in 0 .. N |-> IF n = 0 THEN <<>> ELSE f[n - 1] \o Part(n)]
           f == CHOOSE x : Calls(x)
           EciAt(n) == IF n = 0 THEN ISO8859_1 ELSE blocks[n].eci
           st == [n \in 0 .. N |-> At(TextUpTo(c, EndOf(blocks, n)), EciAt(n))]
<1>1. BytesECI(c) = f[N]  BY DEF BytesECI
<1>2. Chain(c, blocks, Len(c.bytes))  BY BlocksChain
<1> HIDE DEF blocks, N
<1>3. /\ N \in Nat /\ EndOf(blocks, N) = Len(c.bytes)
      /\ \A n \in 1 .. N : /\ blocks[n] \in Blocks /\ Uniform(c, blocks[n])
                           /\ blocks[n].begin = EndOf(blocks, n - 1)
                           /\ EndOf(blocks, n) = blocks[n].end
  <2>1. blocks \in Seq(Blocks) /\ N \in Nat  BY <1>2, LenProperties DEF Chain, N
  <2>2. ASSUME NEW n \in 1 .. N
        PROVE  blocks[n] \in Blocks /\ EndOf(blocks, n) = blocks[n].end
    <3>1. n # 0  BY <2>1
    <3> QED  BY <2>1, <3>1, ElementOfSeq DEF EndOf, N
  <2> QED  BY <1>2, <2>1, <2>2 DEF Chain, N
<1>4. ASSUME NEW n \in 1 .. N
      PROVE  Part(n) \in Seq(Symbols) /\ Run(Part(n), st[n - 1], st[n])
  <2> DEFINE r == blocks[n]
             e == EciAt(n - 1)
  <2>1. /\ r \in Blocks /\ Uniform(c, r) /\ r.begin = EndOf(blocks, n - 1)
        /\ r.end = EndOf(blocks, n)
    BY <1>3
  <2>2. n - 1 \in 0 .. N /\ n \in 0 .. N /\ n # 0  BY <1>3
  <2>3. st[n - 1] = At(TextUpTo(c, r.begin), e)  BY <2>1, <2>2
  <2>4. st[n] = At(TextUpTo(c, r.end), r.eci)  BY <2>1, <2>2
  <2>5. Part(n) = <<Backslash, r.eci>> \o Escaped(BytesOf(c, r))
    <3>1. AsView(c.bytes, blocks[n].begin, blocks[n].end) = BytesOf(c, r)
      BY <2>1, SliceOfBlock
    <3> QED  BY <3>1
  <2> HIDE DEF r, e, st, Part
  <2> QED  BY <2>1, <2>3, <2>4, <2>5, BlockRun
<1>5. st[0] = At(<<>>, ISO8859_1) /\ st[N] = At(TextUpTo(c, Len(c.bytes)), EciAt(N))
  <2>1. 0 \in 0 .. N /\ N \in 0 .. N /\ EndOf(blocks, 0) = 0  BY <1>3 DEF EndOf
  <2>2. TextUpTo(c, 0) = <<>>  BY DEF TextUpTo
  <2>3. st[0] = At(TextUpTo(c, 0), ISO8859_1)  BY <2>1
  <2>4. st[N] = At(TextUpTo(c, Len(c.bytes)), EciAt(N))  BY <1>3, <2>1
  <2> QED  BY <2>2, <2>3, <2>4
<1> HIDE DEF Part, st, EciAt
<1>6. part \in [1 .. N -> Seq(Symbols)] /\ \A n \in 1 .. N : part[n] = Part(n)
  BY <1>4
<1> HIDE DEF part
<1>7. \A x : Joins(x, N, part) <=> Calls(x)
  <2> TAKE x
  <2>1. \A n \in 0 .. N : n # 0 => part[n] = Part(n)
    <3> TAKE n \in 0 .. N
    <3>1. n # 0 => n \in 1 .. N  BY <1>3
    <3> QED  BY <1>6, <3>1
  <2> QED  BY <2>1 DEF Joins
<1>8. Joins(f, N, part)
  <2>1. \E x : Joins(x, N, part)  BY <1>3, <1>6, JoinExists
  <2>2. \E x : Calls(x)  BY <1>7, <2>1
  <2>3. Calls(f)  BY <2>2
  <2> HIDE DEF f
  <2> QED  BY <1>7, <2>3
<1> HIDE DEF f
<1>9. \A n \in 1 .. N : Run(part[n], st[n - 1], st[n])  BY <1>4, <1>6
<1>10. f[N] \in Seq(Symbols) /\ Run(f[N], st[0], st[N])
  BY <1>3, <1>6, <1>8, <1>9, RunOfJoin
<1>11. ParsedECI(f[N]) = TextUpTo(c, Len(c.bytes))  BY <1>5, <1>10, ParsedOfRun
<1>12. DOMAIN c.bytes = 1 .. Len(c.bytes)  BY ContentsParts, LenProperties
<1> QED  BY <1>1, <1>11, <1>12 DEF TextUpTo

(* Undoing the ECI protocol of bytesECI gives back every byte in its       *)
(* encoding, whatever the decoder did to the content, unless it removed a  *)
(* header with a switch inside.                                            *)
THEOREM ProtocolRoundTrips == Spec => []ProtocolRoundTrip
<1>1. ASSUME NEW c \in Contents, InOrder(c)  PROVE RoundTrip(c)
  <2>1. CASE c.bytes = <<>>  BY <2>1, RoundTripOfNothing
  <2>2. CASE c.bytes # <<>>
    <3>1. c.hasECI => ParsedECI(BytesECI(c)) =
            [i \in DOMAIN c.bytes |-> <<c.bytes[i], EncodingAt(c, i - 1)>>]
      BY <1>1, <2>2, RoundTripInOrder
    <3> QED  BY <3>1, Zenon DEF RoundTrip
  <2> QED  BY <2>1, <2>2
<1>2. TypeOK /\ EncodingsInOrder => ProtocolRoundTrip
  BY <1>1 DEF TypeOK, EncodingsInOrder, ProtocolRoundTrip
<1> QED  BY <1>2, ContentInOrder, PTL
=============================================================================
