---------------------------- MODULE QtReaderProofs ----------------------------
(***************************************************************************)
(* No image given to the asynchronous reader waits in vain, signals come   *)
(* in the order of the calls as long as the limit is not raised, options   *)
(* that were set are used, and every step of the reader is one of the      *)
(* abstract reader AsyncReads or changes nothing it can see.               *)
(*                                                                         *)
(* The invariant says what the queue is: the queued images, in the order   *)
(* of their numbers, below all images that are still new.  As a thread     *)
(* takes the first of them, images are read in that order by one thread.   *)
(***************************************************************************)
EXTENDS QtReader, FiniteSetTheorems, SequenceTheorems, WellFoundedInduction, TLAPS

Busy == {"reading", "found", "none", "emitted"}

QueueInv ==
  /\ \A k \in 1 .. Len(queue) : task[queue[k]] = "queued"
  /\ \A i \in Images : task[i] = "queued" => \E k \in 1 .. Len(queue) : queue[k] = i
  /\ \A k, l \in 1 .. Len(queue) : k < l => queue[k] < queue[l]
NewInv == \A i, j \in Images : task[i] = "new" /\ i < j => task[j] = "new"
CallerInv ==
  /\ caller # 0 => reader = "alive" /\ task[caller] \in Busy
  /\ reader = "gone" => queue = <<>> /\ Running = {}
SignalInv == \A i \in Images : i \in Signalled <=> task[i] \in {"emitted", "done"}
Served == queue # <<>> => Running # {}
OneThread ==
  limited =>
    /\ maxThreads <= 1
    /\ \A i, j \in Running : i = j
    /\ \A i \in Running : \A k \in 1 .. Len(queue) : i < queue[k]
OptionInv ==
  /\ since \subseteq Images
  /\ since # {} => tryHarder
  /\ \A i \in since : task[i] # "new"
  /\ \A i \in since \cap (Easy \cup Hard) : task[i] # "none"
  /\ OptionsTakeEffect
ReaderInv ==
  /\ TypeOK /\ QueueInv /\ NewInv /\ CallerInv /\ SignalInv /\ Served
  /\ OneThread /\ OptionInv
-----------------------------------------------------------------------------
(* Sets and sequences.                                                     *)
LEMMA Least ==
  ASSUME NEW S, S \subseteq Nat, S # {}
  PROVE  \E x \in S : \A y \in S : x <= y
<1> DEFINE less == OpToRel(<, Nat)
<1>1. \E x \in S : \A y \in S : <<y, x>> \notin less
  <2> HIDE DEF less
  <2>1. IsWellFoundedOn(less, Nat)
    BY NatLessThanWellFounded DEF less
  <2> QED BY <2>1, WFMin
<1>2. \A x, y \in Nat : <<y, x>> \notin less => x <= y
  BY DEF OpToRel
<1> QED BY <1>1, <1>2

LEMMA NextImageIsLeast ==
  ASSUME New # {}
  PROVE  /\ NextImage \in Images /\ task[NextImage] = "new"
         /\ \A i \in Images : task[i] = "new" => NextImage <= i
<1>1. New \subseteq Nat
  BY ImagesAssumption DEF New, Images
<1>2. \E i \in New : \A j \in New : i <= j
  BY <1>1, Least
<1>3. NextImage \in New /\ \A j \in New : NextImage <= j
  BY <1>2 DEF NextImage
<1> QED BY <1>3 DEF New

(* Active is a number that tells whether none, one or more are running.    *)
LEMMA ActiveMeans ==
  /\ Active \in Nat
  /\ Active >= 1 <=> Running # {}
  /\ \A i \in Running : Active > 1 => \E j \in Running : j # i
<1>1. IsFiniteSet(Images)
  BY ImagesAssumption, FS_Interval DEF Images
<1>2. IsFiniteSet(Running)
  BY <1>1, FS_Subset DEF Running
<1>3. Active \in Nat
  BY <1>2, FS_CardinalityType DEF Active
<1>4. Active = 0 <=> Running = {}
  BY <1>2, FS_EmptySet DEF Active
<1>5. ASSUME NEW i \in Running, Active > 1  PROVE \E j \in Running : j # i
  <2>1. Cardinality({i}) = 1
    BY FS_Singleton
  <2>2. Running # {i}
    BY <2>1, <1>5 DEF Active
  <2> QED BY <2>2
<1> QED BY <1>3, <1>4, <1>5

LEMMA Suffix ==
  ASSUME NEW S, NEW q \in Seq(S), NEW n \in 0 .. Len(q)
  PROVE  /\ SubSeq(q, n + 1, Len(q)) \in Seq(S)
         /\ Len(SubSeq(q, n + 1, Len(q))) = Len(q) - n
         /\ \A k \in 1 .. Len(q) - n : SubSeq(q, n + 1, Len(q))[k] = q[n + k]
<1>1. Len(q) \in Nat
  OBVIOUS
<1>2. \A k \in (n + 1) .. Len(q) : q[k] \in S
  BY <1>1
<1> QED BY <1>1, <1>2, SubSeqProperties
-----------------------------------------------------------------------------
(* The queue, whatever changes it.                                         *)
LEMMA OtherTask ==
  ASSUME TypeOK, QueueInv, NEW i \in Images, NEW s \in States,
         task[i] # "queued", s # "queued",
         queue' = queue, task' = [task EXCEPT ![i] = s]
  PROVE  QueueInv'
<1>1. \A k \in 1 .. Len(queue) : queue[k] \in Images /\ queue[k] # i
  BY DEF TypeOK, QueueInv
<1>2. task \in [Images -> States]
  BY DEF TypeOK
<1>3. \A j \in Images : task'[j] = IF j = i THEN s ELSE task[j]
  BY <1>2
<1> QED BY <1>1, <1>3 DEF QueueInv

LEMMA PutOnQueue ==
  ASSUME TypeOK, QueueInv, NewInv, New # {},
         queue' = Append(queue, NextImage), task' = [task EXCEPT ![NextImage] = "queued"]
  PROVE  QueueInv'
<1>1. /\ NextImage \in Images /\ task[NextImage] = "new"
      /\ queue \in Seq(Images) /\ task \in [Images -> States] /\ Images \subseteq Nat
  BY NextImageIsLeast, ImagesAssumption DEF TypeOK, Images
<1>2. /\ Len(queue) \in Nat /\ Len(queue') = Len(queue) + 1
      /\ \A k \in 1 .. Len(queue) : queue'[k] = queue[k] /\ queue[k] \in Images
      /\ queue'[Len(queue) + 1] = NextImage
  BY <1>1, AppendProperties
<1>3. \A j \in Images : task'[j] = IF j = NextImage THEN "queued" ELSE task[j]
  BY <1>1
<1>4. \A k \in 1 .. Len(queue) : queue[k] < NextImage
  <2> SUFFICES ASSUME NEW k \in 1 .. Len(queue), ~(queue[k] < NextImage)  PROVE FALSE
    OBVIOUS
  <2>1. task[queue[k]] = "queued" /\ queue[k] \in Images
    BY <1>2 DEF QueueInv
  <2>2. queue[k] # NextImage /\ queue[k] \in Nat /\ NextImage \in Nat
    BY <2>1, <1>1
  <2>3. NextImage < queue[k]
    BY <2>2
  <2> QED BY <2>1, <2>3, <1>1 DEF NewInv
<1>5. \A k \in 1 .. Len(queue') : task'[queue'[k]] = "queued"
  BY <1>1, <1>2, <1>3 DEF QueueInv
<1>6. ASSUME NEW j \in Images, task'[j] = "queued"
      PROVE  \E k \in 1 .. Len(queue') : queue'[k] = j
  <2>1. CASE j = NextImage
    BY <2>1, <1>2
  <2>2. CASE j # NextImage
    <3>1. PICK k \in 1 .. Len(queue) : queue[k] = j
      BY <2>2, <1>3, <1>6 DEF QueueInv
    <3> QED BY <3>1, <1>2
  <2> QED BY <2>1, <2>2
<1>7. \A k, l \in 1 .. Len(queue') : k < l => queue'[k] < queue'[l]
  BY <1>2, <1>4 DEF QueueInv
<1> QED BY <1>5, <1>6, <1>7 DEF QueueInv

(* The first n of the queue are read, while another image may be done.     *)
LEMMA TakenFromQueue ==
  ASSUME TypeOK, QueueInv, NEW n \in 0 .. Len(queue), NEW done \in SUBSET Images,
         \A i \in done : task[i] = "emitted",
         queue' = SubSeq(queue, n + 1, Len(queue)),
         task' = [i \in Images |-> IF i \in {queue[k] : k \in 1 .. n} THEN "reading"
                                  ELSE IF i \in done THEN "done" ELSE task[i]]
  PROVE  /\ queue' \in Seq(Images) /\ task' \in [Images -> States] /\ QueueInv'
         /\ \A k \in 1 .. n : queue[k] \in Images /\ task'[queue[k]] = "reading"
         /\ \A i \in Images : task[i] = "queued" => task'[i] \in {"queued", "reading"}
         /\ \A i \in Images : task[i] # "queued" =>
              task'[i] = IF i \in done THEN "done" ELSE task[i]
<1>1. /\ queue \in Seq(Images) /\ task \in [Images -> States]
      /\ Len(queue) \in Nat /\ \A k \in 1 .. Len(queue) : queue[k] \in Images
  BY DEF TypeOK
<1>2. /\ queue' \in Seq(Images) /\ Len(queue') = Len(queue) - n
      /\ \A k \in 1 .. Len(queue) - n : queue'[k] = queue[n + k]
  BY <1>1, Suffix
<1>3. task' \in [Images -> States]
  BY <1>1 DEF States
<1>4. \A k \in 1 .. n : queue[k] \in Images /\ task'[queue[k]] = "reading"
  BY <1>1
<1>5. \A i \in Images : task[i] # "queued" =>
        task'[i] = IF i \in done THEN "done" ELSE task[i]
  BY <1>1 DEF QueueInv
<1>6. \A i \in Images : task[i] = "queued" => task'[i] \in {"queued", "reading"}
  BY <1>1
<1>7. \A k \in 1 .. Len(queue) - n : task'[queue[n + k]] = "queued"
  <2> SUFFICES ASSUME NEW k \in 1 .. Len(queue) - n  PROVE task'[queue[n + k]] = "queued"
    OBVIOUS
  <2>1. n + k \in 1 .. Len(queue) /\ \A l \in 1 .. n : l \in 1 .. Len(queue) /\ l < n + k
    BY <1>1
  <2>2. task[queue[n + k]] = "queued" /\ queue[n + k] \in Images
    BY <2>1, <1>1 DEF QueueInv
  <2>3. \A l \in 1 .. n : queue[l] < queue[n + k] /\ queue[l] \in Nat /\ queue[n + k] \in Nat
    <3>1. Images \subseteq Nat  BY ImagesAssumption DEF Images
    <3>2. \A l \in 1 .. n : queue[l] \in Images  BY <1>4
    <3>3. \A l \in 1 .. n : queue[l] < queue[n + k]  BY <2>1, Zenon DEF QueueInv
    <3> QED  BY <2>2, <3>1, <3>2, <3>3, Zenon
  <2>4. queue[n + k] \notin {queue[l] : l \in 1 .. n}
    BY <2>3
  <2> QED BY <2>2, <2>4
<1>8. ASSUME NEW i \in Images, task'[i] = "queued"
      PROVE  \E k \in 1 .. Len(queue') : queue'[k] = i
  <2>1. task[i] = "queued" /\ i \notin {queue[l] : l \in 1 .. n}
    BY <1>8, <1>5, <1>4
  <2>2. PICK k \in 1 .. Len(queue) : queue[k] = i
    BY <2>1 DEF QueueInv
  <2>3. k - n \in 1 .. Len(queue') /\ n + (k - n) = k
    BY <2>1, <2>2, <1>2, <1>1
  <2> QED BY <2>2, <2>3, <1>2
<1>9. \A k, l \in 1 .. Len(queue') : k < l => queue'[k] < queue'[l]
  <2> SUFFICES ASSUME NEW k \in 1 .. Len(queue'), NEW l \in 1 .. Len(queue'), k < l
               PROVE  queue'[k] < queue'[l]
    OBVIOUS
  <2>1. n + k \in 1 .. Len(queue) /\ n + l \in 1 .. Len(queue) /\ n + k < n + l
    BY <1>1, <1>2
  <2>2. queue[n + k] < queue[n + l]  BY <2>1, Zenon DEF QueueInv
  <2>3. k \in 1 .. Len(queue) - n /\ l \in 1 .. Len(queue) - n  BY <1>2
  <2>4. queue'[k] = queue[n + k] /\ queue'[l] = queue[n + l]  BY <1>2, <2>3, Zenon
  <2> QED BY <2>2, <2>4
<1>10. ASSUME NEW k \in 1 .. Len(queue')  PROVE task'[queue'[k]] = "queued"
  <2>1. k \in 1 .. Len(queue) - n
    BY <1>2
  <2> QED BY <2>1, <1>2, <1>7
<1>11. QueueInv'
  BY <1>8, <1>9, <1>10 DEF QueueInv
<1> QED BY <1>2, <1>3, <1>4, <1>5, <1>6, <1>11
-----------------------------------------------------------------------------
(* The next image is handed over, whatever becomes of it.                  *)
LEMMA HandedOver ==
  ASSUME ReaderInv, HandOver, NEW s \in {"queued", "refused", "reading"},
         task' = [task EXCEPT ![NextImage] = s],
         UNCHANGED <<reader, tryHarder, maxThreads, signals, limited>>
  PROVE  /\ NextImage \in Images /\ task[NextImage] = "new" /\ caller = 0
         /\ \A i \in Images : task[i] # "new" => i < NextImage
         /\ task' \in [Images -> States] /\ NewInv' /\ SignalInv' /\ OptionInv'
<1>1. /\ NextImage \in Images /\ task[NextImage] = "new" /\ caller = 0
      /\ \A i \in Images : task[i] = "new" => NextImage <= i
  BY NextImageIsLeast DEF HandOver, OwnerFree
<1>2. task \in [Images -> States] /\ Images \subseteq Nat
  BY ImagesAssumption DEF ReaderInv, TypeOK, Images
<1>3. task' \in [Images -> States]
  BY <1>2 DEF States
<1>4. \A i \in Images : task'[i] = IF i = NextImage THEN s ELSE task[i]
  BY <1>2
<1>5. \A i \in Images : task[i] # "new" => i < NextImage
  <2> SUFFICES ASSUME NEW i \in Images, task[i] # "new", ~(i < NextImage)  PROVE FALSE
    OBVIOUS
  <2>1. i # NextImage /\ i \in Nat /\ NextImage \in Nat
    BY <1>1, <1>2
  <2>2. NextImage < i
    BY <2>1
  <2> QED BY <2>2, <1>1 DEF ReaderInv, NewInv
<1>6. NewInv'
  <2> SUFFICES ASSUME NEW i \in Images, NEW j \in Images, task'[i] = "new", i < j
               PROVE  task'[j] = "new"
    BY DEF NewInv
  <2>1. task[i] = "new" /\ task[j] = "new"
    BY <1>4 DEF ReaderInv, NewInv
  <2>2. NextImage <= i /\ i \in Nat /\ j \in Nat /\ NextImage \in Nat
    BY <2>1, <1>1, <1>2
  <2>3. j # NextImage
    BY <2>2
  <2> QED BY <2>1, <2>3, <1>4
<1>7. SignalInv'
  BY <1>1, <1>4 DEF ReaderInv, SignalInv, Signalled
<1>8. since' \subseteq since \cup {NextImage} /\ (since' # {} => tryHarder)
  BY DEF HandOver, ReaderInv, OptionInv
<1>9. /\ since' \subseteq Images
      /\ \A i \in since' : task'[i] # "new"
      /\ \A i \in since' \cap (Easy \cup Hard) : task'[i] # "none"
  BY <1>1, <1>4, <1>8 DEF ReaderInv, OptionInv
<1>10. OptionsTakeEffect'
  <2> SUFFICES ASSUME NEW k \in DOMAIN signals, signals[k][1] \in since' \cap (Easy \cup Hard)
               PROVE  signals[k][2] = "found"
    BY DEF OptionsTakeEffect
  <2>1. signals[k][1] \in Signalled
    BY DEF Signalled
  <2>2. signals[k][1] # NextImage
    BY <2>1, <1>1 DEF ReaderInv, SignalInv
  <2> QED BY <2>2, <1>8 DEF ReaderInv, OptionInv, OptionsTakeEffect
<1>11. OptionInv'
  BY <1>8, <1>9, <1>10 DEF OptionInv
<1> QED BY <1>1, <1>3, <1>5, <1>6, <1>7, <1>11

LEMMA QueuedInOrder ==
  ASSUME ReaderInv, HandOver, AllThreadsActive,
         queue' = Append(queue, NextImage), task' = [task EXCEPT ![NextImage] = "queued"],
         UNCHANGED <<reader, tryHarder, maxThreads, caller, signals, limited>>
  PROVE  ReaderInv'
<1>1. /\ NextImage \in Images /\ task[NextImage] = "new" /\ caller = 0
      /\ \A i \in Images : task[i] # "new" => i < NextImage
      /\ task' \in [Images -> States] /\ NewInv' /\ SignalInv' /\ OptionInv'
  BY HandedOver
<1>2. queue \in Seq(Images) /\ task \in [Images -> States]
  BY DEF ReaderInv, TypeOK
<1>3. \A i \in Images : task'[i] = IF i = NextImage THEN "queued" ELSE task[i]
  BY <1>2
<1>4. /\ queue' \in Seq(Images) /\ Len(queue) \in Nat /\ Len(queue') = Len(queue) + 1
      /\ \A k \in 1 .. Len(queue) : queue'[k] = queue[k]
      /\ queue'[Len(queue) + 1] = NextImage
  BY <1>1, <1>2, AppendProperties
<1>5. QueueInv'
  BY PutOnQueue DEF ReaderInv, HandOver
<1>6. TypeOK'
  BY <1>1, <1>4 DEF ReaderInv, TypeOK
<1>7. Running' = Running /\ \A i \in Running : i < NextImage
  BY <1>1, <1>3 DEF Running
<1>8. CallerInv'
  BY <1>1, <1>7 DEF CallerInv, HandOver, OwnerFree
<1>9. Served'
  BY <1>7, ActiveMeans DEF AllThreadsActive, Served
<1>10. ASSUME limited, NEW i \in Running, NEW k \in 1 .. Len(queue')  PROVE i < queue'[k]
  <2>1. CASE k = Len(queue) + 1
    BY <2>1, <1>4, <1>7
  <2>2. CASE k # Len(queue) + 1
    <3>1. k \in 1 .. Len(queue)
      BY <2>2, <1>4
    <3> QED BY <3>1, <1>4, <1>10 DEF ReaderInv, OneThread
  <2> QED BY <2>1, <2>2
<1>11. OneThread'
  BY <1>7, <1>10 DEF ReaderInv, OneThread
<1> QED BY <1>1, <1>5, <1>6, <1>8, <1>9, <1>11 DEF ReaderInv

LEMMA StartedAtOnce ==
  ASSUME ReaderInv, HandOver, ~AllThreadsActive,
         queue' = queue, task' = [task EXCEPT ![NextImage] = "reading"],
         UNCHANGED <<reader, tryHarder, maxThreads, caller, signals, limited>>
  PROVE  ReaderInv'
<1>1. /\ NextImage \in Images /\ task[NextImage] = "new" /\ caller = 0
      /\ task' \in [Images -> States] /\ NewInv' /\ SignalInv' /\ OptionInv'
  BY HandedOver
<1>2. task \in [Images -> States]
  BY DEF ReaderInv, TypeOK
<1>3. \A i \in Images : task'[i] = IF i = NextImage THEN "reading" ELSE task[i]
  BY <1>2
<1>4. QueueInv'
  BY <1>1, OtherTask DEF ReaderInv, States
<1>5. TypeOK'
  BY <1>1 DEF ReaderInv, TypeOK
<1>6. Running' = Running \cup {NextImage}
  <2>1. caller' = 0 /\ 0 \notin Images
    BY <1>1, ImagesAssumption DEF Images
  <2> QED BY <2>1, <1>1, <1>3 DEF Running
<1>7. CallerInv'
  BY <1>1 DEF CallerInv, HandOver, OwnerFree
<1>8. Served'
  BY <1>6 DEF Served
<1>9. limited => Running = {} /\ queue = <<>>
  <2>1. limited => maxThreads <= 1 /\ maxThreads \in Int
    BY ThreadCountsAssumption DEF ReaderInv, OneThread, TypeOK
  <2>2. limited => ~(Active >= 1)
    BY <2>1, ActiveMeans DEF AllThreadsActive
  <2> QED BY <2>2, ActiveMeans DEF ReaderInv, Served
<1>10. OneThread'
  BY <1>6, <1>9 DEF ReaderInv, OneThread
<1> QED BY <1>1, <1>4, <1>5, <1>7, <1>8, <1>10 DEF ReaderInv

LEMMA Refused ==
  ASSUME ReaderInv, HandOver, UNCHANGED queue,
         task' = [task EXCEPT ![NextImage] = "refused"],
         UNCHANGED <<reader, tryHarder, maxThreads, caller, signals, limited>>
  PROVE  ReaderInv'
<1>1. /\ NextImage \in Images /\ task[NextImage] = "new" /\ caller = 0
      /\ task' \in [Images -> States] /\ NewInv' /\ SignalInv' /\ OptionInv'
  BY HandedOver
<1>2. task \in [Images -> States]
  BY DEF ReaderInv, TypeOK
<1>3. \A i \in Images : task'[i] = IF i = NextImage THEN "refused" ELSE task[i]
  BY <1>2
<1>4. QueueInv'
  BY <1>1, OtherTask DEF ReaderInv, States
<1>5. TypeOK'
  BY <1>1 DEF ReaderInv, TypeOK
<1>6. Running' = Running
  BY <1>1, <1>3 DEF Running
<1>7. CallerInv' /\ Served' /\ OneThread'
  BY <1>1, <1>6 DEF ReaderInv, CallerInv, Served, OneThread, HandOver, OwnerFree
<1> QED BY <1>1, <1>4, <1>5, <1>7 DEF ReaderInv

LEMMA ReadKeepsInv == ReaderInv /\ Read => ReaderInv'
<1> SUFFICES ASSUME ReaderInv, Read  PROVE ReaderInv'
  OBVIOUS
<1>1. /\ NextImage \in Images /\ task[NextImage] = "new" /\ caller = 0
      /\ task' \in [Images -> States] /\ NewInv' /\ SignalInv' /\ OptionInv'
  BY HandedOver DEF Read
<1>2. task \in [Images -> States]
  BY DEF ReaderInv, TypeOK
<1>3. \A i \in Images : task'[i] = IF i = NextImage THEN "reading" ELSE task[i]
  BY <1>2 DEF Read
<1>4. QueueInv'
  BY <1>1, OtherTask DEF ReaderInv, States, Read
<1>5. TypeOK'
  BY <1>1 DEF ReaderInv, TypeOK, Read
<1>6. Running' = Running
  <2>1. caller' = NextImage /\ 0 \notin Images
    BY ImagesAssumption DEF Images, Read
  <2> QED BY <2>1, <1>1, <1>3 DEF Running
<1>7. CallerInv'
  BY <1>1, <1>3 DEF CallerInv, Read, HandOver, OwnerFree, Busy
<1>8. Served' /\ OneThread'
  BY <1>6 DEF ReaderInv, Served, OneThread, Read
<1> QED BY <1>1, <1>4, <1>5, <1>7, <1>8 DEF ReaderInv

LEMMA ReadReturnsKeepsInv == ReaderInv /\ ReadReturns => ReaderInv'
<1> SUFFICES ASSUME ReaderInv, ReadReturns  PROVE ReaderInv'
  OBVIOUS
<1>1. /\ task \in [Images -> States] /\ caller \in Images /\ 0 \notin Images
      /\ task[caller] = "emitted" /\ reader = "alive"
  BY ImagesAssumption DEF ReaderInv, TypeOK, CallerInv, ReadReturns, Images
<1>2. \A i \in Images : task'[i] = IF i = caller THEN "done" ELSE task[i]
  BY <1>1 DEF ReadReturns
<1>3. QueueInv'
  BY <1>1, OtherTask DEF ReaderInv, States, ReadReturns
<1>4. TypeOK'
  BY <1>1 DEF ReaderInv, TypeOK, ReadReturns, States
<1>5. Running' = Running
  <2>1. caller' = 0
    BY DEF ReadReturns
  <2> QED BY <2>1, <1>1, <1>2 DEF Running
<1>6. NewInv' /\ SignalInv'
  BY <1>1, <1>2 DEF ReaderInv, NewInv, SignalInv, Signalled, ReadReturns
<1>7. CallerInv' /\ Served' /\ OneThread'
  BY <1>1, <1>5 DEF ReaderInv, CallerInv, Served, OneThread, ReadReturns
<1>8. OptionInv'
  BY <1>1, <1>2 DEF ReaderInv, OptionInv, OptionsTakeEffect, ReadReturns
<1> QED BY <1>3, <1>4, <1>6, <1>7, <1>8 DEF ReaderInv

LEMMA SettersKeepInv ==
  ASSUME ReaderInv, NEW new \in BOOLEAN, SetTryHarder(new)
  PROVE  ReaderInv'
<1>1. UNCHANGED <<reader, maxThreads, queue, task, caller, signals, limited>>
      /\ tryHarder' = new /\ since' = {}
  BY DEF SetTryHarder
<1>2. TypeOK'
  BY <1>1 DEF ReaderInv, TypeOK
<1>3. Running' = Running /\ Signalled' = Signalled
  BY <1>1 DEF Running, Signalled
<1>4. QueueInv' /\ NewInv' /\ CallerInv' /\ SignalInv' /\ Served' /\ OneThread'
  BY <1>1, <1>3 DEF ReaderInv, QueueInv, NewInv, CallerInv, SignalInv, Served, OneThread
<1>5. OptionInv'
  BY <1>1 DEF OptionInv, OptionsTakeEffect
<1> QED BY <1>2, <1>4, <1>5 DEF ReaderInv

(* The limit changes: threads are started for the first n that wait.       *)
LEMMA MoreStarted ==
  ASSUME ReaderInv, OwnerFree, NEW limit \in Int, StartMore(limit),
         limit \in {0, 1} \cup ThreadCounts,
         reader' \in {"alive", "stopping"}, limited' \in BOOLEAN,
         limited' => limited /\ limit <= 0,
         UNCHANGED <<tryHarder, caller, signals, since>>
  PROVE  /\ ReaderInv'
         /\ \A i \in Images : IF task[i] = "queued" THEN task'[i] \in {"queued", "reading"}
                               ELSE task'[i] = task[i]
<1>1. /\ queue \in Seq(Images) /\ task \in [Images -> States] /\ Len(queue) \in Nat
      /\ caller = 0 /\ 0 \notin Images
  BY ImagesAssumption DEF ReaderInv, TypeOK, OwnerFree, Images
<1>2. PICK n \in 0 .. Len(queue) :
        /\ limit <= 0 => n = 0
        /\ queue' = SubSeq(queue, n + 1, Len(queue))
        /\ task' = [i \in Images |-> IF i \in {queue[k] : k \in 1 .. n}
                                     THEN "reading" ELSE task[i]]
  <2> DEFINE free == IF limit > Active THEN limit - Active ELSE 0
             n == IF Len(queue) < free THEN Len(queue) ELSE free
  <2>1. free \in Nat /\ (limit <= 0 => free = 0)
    BY ActiveMeans
  <2>2. n \in 0 .. Len(queue) /\ (limit <= 0 => n = 0)
    BY <2>1, <1>1
  <2>3. /\ queue' = SubSeq(queue, n + 1, Len(queue))
        /\ task' = [i \in Images |-> IF i \in {queue[k] : k \in 1 .. n}
                                     THEN "reading" ELSE task[i]]
    BY DEF StartMore
  <2> HIDE DEF n
  <2> QED BY <2>2, <2>3
<1>3. /\ queue' \in Seq(Images) /\ task' \in [Images -> States] /\ QueueInv'
      /\ \A k \in 1 .. n : queue[k] \in Images /\ task'[queue[k]] = "reading"
      /\ \A i \in Images : task[i] = "queued" => task'[i] \in {"queued", "reading"}
      /\ \A i \in Images : task[i] # "queued" => task'[i] = task[i]
  <2> DEFINE done == {}
  <2>1. task' = [i \in Images |-> IF i \in {queue[k] : k \in 1 .. n} THEN "reading"
                                 ELSE IF i \in done THEN "done" ELSE task[i]]
    BY <1>2
  <2>2. done \in SUBSET Images /\ \A i \in done : task[i] = "emitted" /\ i \notin done
    OBVIOUS
  <2> HIDE DEF done
  <2>3. /\ queue' \in Seq(Images) /\ task' \in [Images -> States] /\ QueueInv'
        /\ \A k \in 1 .. n : queue[k] \in Images /\ task'[queue[k]] = "reading"
        /\ \A i \in Images : task[i] = "queued" => task'[i] \in {"queued", "reading"}
        /\ \A i \in Images : task[i] # "queued" =>
             task'[i] = IF i \in done THEN "done" ELSE task[i]
    BY <2>1, <2>2, <1>2, TakenFromQueue DEF ReaderInv
  <2> QED BY <2>2, <2>3
<1>4. TypeOK'
  BY <1>3 DEF ReaderInv, TypeOK, StartMore
<1>5. NewInv' /\ SignalInv' /\ OptionInv'
  BY <1>1, <1>3 DEF ReaderInv, NewInv, SignalInv, Signalled, OptionInv, OptionsTakeEffect
<1>6. CallerInv'
  BY <1>1 DEF CallerInv
<1>7. Running \subseteq Running'
  BY <1>1, <1>3 DEF Running
<1>8. Served'
  <2>1. queue' # <<>> => queue # <<>>
    <3>1. CASE queue = <<>>
      BY <3>1, <1>2, SubSeqEmpty
    <3> QED BY <3>1
  <2> QED BY <2>1, <1>7 DEF ReaderInv, Served
<1>9. OneThread'
  <2> SUFFICES ASSUME limited'  PROVE OneThread'
    BY DEF OneThread
  <2>1. n = 0 /\ limited /\ maxThreads' <= 1
    BY <1>2 DEF StartMore
  <2>2. queue' = queue /\ task' = task
    <3>1. queue' = SubSeq(queue, 1, Len(queue))
      BY <2>1, <1>2
    <3>2. queue' = queue
      BY <3>1, <1>1, SubSeqFull
    <3> QED BY <3>2, <2>1, <1>1, <1>2
  <2>3. Running' = Running
    BY <2>2 DEF Running
  <2> QED BY <2>1, <2>2, <2>3 DEF ReaderInv, OneThread
<1> QED BY <1>3, <1>4, <1>5, <1>6, <1>8, <1>9 DEF ReaderInv
-----------------------------------------------------------------------------
(* The threads.                                                            *)
LEMMA ReadBarcodesKeepsInv ==
  ASSUME ReaderInv, NEW i \in Images, ReadBarcodes(i)
  PROVE  ReaderInv'
<1>1. task \in [Images -> States] /\ task[i] = "reading"
  BY DEF ReaderInv, TypeOK, ReadBarcodes
<1>2. PICK s \in {"found", "none"} :
        /\ task' = [task EXCEPT ![i] = s]
        /\ s = "none" => i \notin Easy /\ ~(i \in Hard /\ tryHarder)
  BY DEF ReadBarcodes
<1>3. \A j \in Images : task'[j] = IF j = i THEN s ELSE task[j]
  BY <1>1, <1>2
<1>4. UNCHANGED <<reader, tryHarder, maxThreads, queue, caller, signals, limited, since>>
  BY DEF ReadBarcodes
<1>5. QueueInv'
  BY <1>1, <1>2, <1>4, OtherTask DEF ReaderInv, States
<1>6. TypeOK'
  BY <1>1, <1>2, <1>4 DEF ReaderInv, TypeOK, States
<1>7. Running' = Running /\ Signalled' = Signalled
  BY <1>1, <1>3, <1>4 DEF Running, Signalled
<1>8. NewInv' /\ SignalInv'
  BY <1>1, <1>3, <1>7 DEF ReaderInv, NewInv, SignalInv
<1>9. CallerInv'
  BY <1>1, <1>3, <1>4, <1>7, ImagesAssumption DEF ReaderInv, TypeOK, CallerInv, Busy
<1>10. Served' /\ OneThread'
  BY <1>4, <1>7 DEF ReaderInv, Served, OneThread
<1>11. OptionInv'
  <2>1. i \in since \cap (Easy \cup Hard) => s # "none"
    BY <1>2 DEF ReaderInv, OptionInv
  <2> QED BY <2>1, <1>1, <1>2, <1>3, <1>4 DEF ReaderInv, OptionInv, OptionsTakeEffect
<1> QED BY <1>5, <1>6, <1>8, <1>9, <1>10, <1>11 DEF ReaderInv

LEMMA SignalAdded ==
  ASSUME TypeOK, NEW i \in Images, EmitFoundBarcodes(i)
  PROVE  /\ signals' \in Seq(Images \X {"found", "none"})
         /\ Signalled' = Signalled \cup {i}
         /\ \A k \in DOMAIN signals' : signals'[k] = <<i, task[i]>>
                                       \/ (k \in DOMAIN signals /\ signals'[k] = signals[k])
<1>1. /\ signals \in Seq(Images \X {"found", "none"}) /\ task[i] \in {"found", "none"}
      /\ signals' = Append(signals, <<i, task[i]>>)
  BY DEF TypeOK, EmitFoundBarcodes
<1>2. <<i, task[i]>> \in Images \X {"found", "none"}
  BY <1>1
<1>3. /\ signals' \in Seq(Images \X {"found", "none"})
      /\ Len(signals') = Len(signals) + 1 /\ Len(signals) \in Nat
      /\ \A k \in 1 .. Len(signals) : signals'[k] = signals[k]
      /\ signals'[Len(signals) + 1] = <<i, task[i]>>
  BY <1>1, <1>2, AppendProperties
<1>4. DOMAIN signals = 1 .. Len(signals) /\ DOMAIN signals' = 1 .. Len(signals) + 1
  BY <1>1, <1>3
<1>5. ASSUME NEW k \in DOMAIN signals'
      PROVE  \/ k = Len(signals) + 1 /\ signals'[k] = <<i, task[i]>>
             \/ k \in DOMAIN signals /\ signals'[k] = signals[k]
  BY <1>3, <1>4
<1>6. /\ \A k \in DOMAIN signals : k \in DOMAIN signals' /\ signals'[k] = signals[k]
      /\ Len(signals) + 1 \in DOMAIN signals'
  BY <1>3, <1>4
<1>7. <<i, task[i]>>[1] = i
  OBVIOUS
<1>8. Signalled' \subseteq Signalled \cup {i}
  BY <1>5, <1>7 DEF Signalled
<1>9. Signalled \cup {i} \subseteq Signalled'
  BY <1>3, <1>6, <1>7 DEF Signalled
<1> QED BY <1>3, <1>5, <1>8, <1>9

LEMMA EmitKeepsInv ==
  ASSUME ReaderInv, NEW i \in Images, EmitFoundBarcodes(i)
  PROVE  ReaderInv'
<1>1. task \in [Images -> States] /\ task[i] \in {"found", "none"}
  BY DEF ReaderInv, TypeOK, EmitFoundBarcodes
<1>2. /\ task' = [task EXCEPT ![i] = "emitted"]
      /\ UNCHANGED <<reader, tryHarder, maxThreads, queue, caller, limited, since>>
  BY DEF EmitFoundBarcodes
<1>3. \A j \in Images : task'[j] = IF j = i THEN "emitted" ELSE task[j]
  BY <1>1, <1>2
<1>4. QueueInv'
  BY <1>1, <1>2, OtherTask DEF ReaderInv, States
<1>5. /\ signals' \in Seq(Images \X {"found", "none"})
      /\ Signalled' = Signalled \cup {i}
      /\ \A k \in DOMAIN signals' : signals'[k] = <<i, task[i]>>
                                    \/ (k \in DOMAIN signals /\ signals'[k] = signals[k])
  BY SignalAdded DEF ReaderInv
<1>6. TypeOK'
  BY <1>1, <1>2, <1>5 DEF ReaderInv, TypeOK, States
<1>7. Running' = Running
  BY <1>1, <1>2, <1>3 DEF Running
<1>8. NewInv' /\ SignalInv'
  BY <1>1, <1>3, <1>5 DEF ReaderInv, NewInv, SignalInv
<1>9. CallerInv'
  BY <1>1, <1>2, <1>3, <1>7, ImagesAssumption DEF ReaderInv, TypeOK, CallerInv, Busy
<1>10. Served' /\ OneThread'
  BY <1>2, <1>7 DEF ReaderInv, Served, OneThread
<1>11. OptionsTakeEffect'
  <2> SUFFICES ASSUME NEW k \in DOMAIN signals', signals'[k][1] \in since \cap (Easy \cup Hard)
               PROVE  signals'[k][2] = "found"
    BY <1>2 DEF OptionsTakeEffect
  <2>1. CASE signals'[k] = <<i, task[i]>>
    <3>1. signals'[k][1] = i /\ signals'[k][2] = task[i]
      BY <2>1
    <3> QED BY <3>1, <1>1 DEF ReaderInv, OptionInv
  <2>2. CASE k \in DOMAIN signals /\ signals'[k] = signals[k]
    BY <2>2 DEF ReaderInv, OptionInv, OptionsTakeEffect
  <2> QED BY <2>1, <2>2, <1>5
<1>12. OptionInv'
  BY <1>2, <1>3, <1>11 DEF ReaderInv, OptionInv
<1> QED BY <1>4, <1>6, <1>8, <1>9, <1>10, <1>12 DEF ReaderInv

(* A thread that is done, with and without a runnable to go on with.       *)
LEMMA ThreadEnds ==
  ASSUME ReaderInv, NEW i \in Images, Finish(i), queue = <<>> \/ TooManyActive
  PROVE  ReaderInv'
<1>1. /\ task \in [Images -> States] /\ task[i] = "emitted" /\ i \in Running /\ i # caller
      /\ task' = [task EXCEPT ![i] = "done"]
      /\ UNCHANGED <<reader, tryHarder, maxThreads, queue, caller, signals, limited, since>>
  BY DEF ReaderInv, TypeOK, Finish, Running
<1>2. \A j \in Images : task'[j] = IF j = i THEN "done" ELSE task[j]
  BY <1>1
<1>3. QueueInv'
  BY <1>1, OtherTask DEF ReaderInv, States
<1>4. TypeOK'
  BY <1>1 DEF ReaderInv, TypeOK, States
<1>5. Running' = Running \ {i} /\ Signalled' = Signalled
  BY <1>1, <1>2 DEF Running, Signalled
<1>6. NewInv' /\ SignalInv'
  BY <1>1, <1>2, <1>5 DEF ReaderInv, NewInv, SignalInv
<1>7. CallerInv'
  BY <1>1, <1>2, <1>5, ImagesAssumption DEF ReaderInv, TypeOK, CallerInv, Busy
<1>8. Served'
  BY <1>1, <1>5, ActiveMeans DEF Served, TooManyActive
<1>9. OneThread' /\ OptionInv'
  BY <1>1, <1>2, <1>5 DEF ReaderInv, OneThread, OptionInv, OptionsTakeEffect
<1> QED BY <1>3, <1>4, <1>6, <1>7, <1>8, <1>9 DEF ReaderInv

LEMMA ThreadGoesOn ==
  ASSUME ReaderInv, NEW i \in Images, Finish(i), queue # <<>>, ~TooManyActive
  PROVE  /\ ReaderInv'
         /\ \A j \in Images : CASE j = i -> task'[j] = "done"
                              [] task[j] = "queued" -> task'[j] \in {"queued", "reading"}
                              [] OTHER -> task'[j] = task[j]
<1>1. /\ task \in [Images -> States] /\ task[i] = "emitted" /\ i \in Running /\ i # caller
      /\ queue \in Seq(Images) /\ Len(queue) \in Nat
      /\ task' = [task EXCEPT ![i] = "done", ![Head(queue)] = "reading"]
      /\ queue' = Tail(queue)
      /\ UNCHANGED <<reader, tryHarder, maxThreads, caller, signals, limited, since>>
  BY DEF ReaderInv, TypeOK, Finish, Running
<1>2. 1 \in 0 .. Len(queue) /\ Head(queue) = queue[1] /\ 1 \in 1 .. Len(queue)
  BY <1>1
<1>3. queue[1] \in Images /\ task[queue[1]] = "queued"
  BY <1>1, <1>2 DEF ReaderInv, QueueInv
<1>4. queue' = SubSeq(queue, 1 + 1, Len(queue))
  BY <1>1, TailIsSubSeq
<1>5. task' = [j \in Images |-> IF j \in {queue[k] : k \in 1 .. 1} THEN "reading"
                               ELSE IF j \in {i} THEN "done" ELSE task[j]]
  <2>1. {queue[k] : k \in 1 .. 1} = {queue[1]}
    OBVIOUS
  <2>2. task' = [j \in Images |-> IF j = queue[1] THEN "reading"
                                 ELSE IF j = i THEN "done" ELSE task[j]]
    BY <1>1, <1>2, <1>3
  <2> QED BY <2>1, <2>2
<1>6. /\ queue' \in Seq(Images) /\ task' \in [Images -> States] /\ QueueInv'
      /\ \A k \in 1 .. 1 : queue[k] \in Images /\ task'[queue[k]] = "reading"
      /\ \A j \in Images : task[j] = "queued" => task'[j] \in {"queued", "reading"}
      /\ \A j \in Images : task[j] # "queued" =>
           task'[j] = IF j \in {i} THEN "done" ELSE task[j]
  <2>1. {i} \in SUBSET Images /\ \A j \in {i} : task[j] = "emitted"
    BY <1>1
  <2> QED BY <2>1, <1>2, <1>4, <1>5, TakenFromQueue DEF ReaderInv
<1>7. TypeOK'
  BY <1>1, <1>6 DEF ReaderInv, TypeOK
<1>8. NewInv' /\ SignalInv' /\ OptionInv'
  BY <1>1, <1>6 DEF ReaderInv, NewInv, SignalInv, Signalled, OptionInv, OptionsTakeEffect
<1>9. queue[1] \in Running' /\ Running' \subseteq (Running \ {i}) \cup {j \in Images : task[j] = "queued"}
  <2>1. queue[1] # caller
    BY <1>3, ImagesAssumption DEF ReaderInv, CallerInv, TypeOK, Busy, Images
  <2> QED BY <2>1, <1>1, <1>3, <1>6 DEF Running
<1>10. CallerInv'
  <2>1. reader # "gone"
    BY <1>1 DEF ReaderInv, CallerInv
  <2>2. caller # 0 => reader = "alive" /\ task'[caller] \in Busy
    BY <1>1, <1>6, ImagesAssumption DEF ReaderInv, CallerInv, TypeOK, Busy
  <2> QED BY <2>1, <2>2, <1>1 DEF CallerInv
<1>11. Served'
  BY <1>9 DEF Served
<1>12. ASSUME limited, NEW j \in Running'  PROVE j = queue[1]
  <2>1. j \in Images /\ (j \in Running => j = i)
    BY <1>1, <1>9, <1>12 DEF ReaderInv, OneThread, Running
  <2>2. j \in Running => FALSE
    BY <2>1, <1>9, <1>1
  <2>3. task[j] = "queued" /\ task'[j] # "queued"
    BY <2>1, <2>2, <1>9, <1>12 DEF Running
  <2>4. j \in {queue[k] : k \in 1 .. 1}
    BY <2>1, <2>3, <1>1, <1>5
  <2> QED BY <2>4
<1>13. OneThread'
  <2> SUFFICES ASSUME limited  PROVE /\ maxThreads <= 1
                                     /\ \A j, k \in Running' : j = k
                                     /\ \A j \in Running' : \A k \in 1 .. Len(queue') : j < queue'[k]
    BY <1>1 DEF OneThread
  <2>1. Len(queue') = Len(queue) - 1 /\ \A k \in 1 .. Len(queue) - 1 : queue'[k] = queue[1 + k]
    BY <1>1, <1>2, <1>4, Suffix
  <2>2. \A k \in 1 .. Len(queue') : queue[1] < queue'[k]
    <3> SUFFICES ASSUME NEW k \in 1 .. Len(queue')  PROVE queue[1] < queue'[k]
      OBVIOUS
    <3>1. 1 + k \in 1 .. Len(queue) /\ 1 < 1 + k /\ k \in 1 .. Len(queue) - 1
      BY <2>1, <1>1
    <3> QED BY <3>1, <2>1, <1>2 DEF ReaderInv, QueueInv
  <2> QED BY <2>2, <1>12 DEF ReaderInv, OneThread
<1>14. ReaderInv'
  BY <1>6, <1>7, <1>8, <1>10, <1>11, <1>13 DEF ReaderInv
<1> QED BY <1>14, <1>1, <1>6

LEMMA FinishKeepsInv ==
  ASSUME ReaderInv, NEW i \in Images, Finish(i)
  PROVE  ReaderInv'
BY ThreadEnds, ThreadGoesOn

(* The owner's calls.                                                      *)
LEMMA AsyncKeepsInv == ReaderInv /\ (ReadAsync \/ TryReadAsync) => ReaderInv'
<1> SUFFICES ASSUME ReaderInv, ReadAsync \/ TryReadAsync  PROVE ReaderInv'
  OBVIOUS
<1>1. CASE ReadAsync /\ AllThreadsActive
  BY <1>1, QueuedInOrder DEF ReadAsync, Start
<1>2. CASE ReadAsync /\ ~AllThreadsActive
  BY <1>2, StartedAtOnce DEF ReadAsync, Start
<1>3. CASE TryReadAsync /\ AllThreadsActive
  BY <1>3, Refused DEF TryReadAsync, TryStart
<1>4. CASE TryReadAsync /\ ~AllThreadsActive
  BY <1>4, StartedAtOnce DEF TryReadAsync, TryStart
<1> QED BY <1>1, <1>2, <1>3, <1>4

LEMMA LimitKeepsInv ==
  ASSUME ReaderInv, Destroy \/ \E n \in ThreadCounts : SetMaxThreadCount(n)
  PROVE  /\ ReaderInv'
         /\ \A i \in Images : IF task[i] = "queued" THEN task'[i] \in {"queued", "reading"}
                               ELSE task'[i] = task[i]
<1>1. CASE Destroy
  <2>1. limited \in BOOLEAN
    BY DEF ReaderInv, TypeOK
  <2>2. /\ OwnerFree /\ StartMore(0) /\ reader' \in {"alive", "stopping"}
        /\ limited' \in BOOLEAN /\ (limited' => limited /\ 0 <= 0)
        /\ UNCHANGED <<tryHarder, caller, signals, since>>
    BY <1>1, <2>1 DEF Destroy
  <2> QED BY <2>2, MoreStarted
<1>2. ASSUME NEW n \in ThreadCounts, SetMaxThreadCount(n)
      PROVE  /\ ReaderInv'
             /\ \A i \in Images : IF task[i] = "queued" THEN task'[i] \in {"queued", "reading"}
                                   ELSE task'[i] = task[i]
  <2>1. n \in Int /\ n \in {0, 1} \cup ThreadCounts
    BY ThreadCountsAssumption
  <2>2. /\ OwnerFree /\ StartMore(n) /\ reader' \in {"alive", "stopping"}
        /\ limited' = FALSE /\ UNCHANGED <<tryHarder, caller, signals, since>>
    BY <1>2 DEF SetMaxThreadCount, OwnerFree
  <2> QED BY <2>1, <2>2, MoreStarted
<1> QED BY <1>1, <1>2

LEMMA DoneKeepsInv == ReaderInv /\ Done => ReaderInv'
<1> SUFFICES ASSUME ReaderInv, Done  PROVE ReaderInv'
  OBVIOUS
<1>1. /\ reader' = "gone" /\ queue = <<>> /\ Running = {} /\ caller = 0
      /\ UNCHANGED <<tryHarder, maxThreads, queue, task, caller, signals, limited, since>>
  BY ActiveMeans DEF ReaderInv, CallerInv, Done
<1>2. TypeOK'
  BY <1>1 DEF ReaderInv, TypeOK
<1>3. Running' = Running /\ Signalled' = Signalled
  BY <1>1 DEF Running, Signalled
<1>4. QueueInv' /\ NewInv' /\ CallerInv' /\ SignalInv' /\ Served' /\ OneThread'
  BY <1>1, <1>3 DEF ReaderInv, QueueInv, NewInv, CallerInv, SignalInv, Served, OneThread
<1>5. OptionInv'
  BY <1>1 DEF ReaderInv, OptionInv, OptionsTakeEffect
<1> QED BY <1>2, <1>4, <1>5 DEF ReaderInv

LEMMA InitEstablishes == Init => ReaderInv
<1> SUFFICES ASSUME Init  PROVE ReaderInv
  OBVIOUS
<1>1. /\ reader = "alive" /\ tryHarder = TRUE /\ maxThreads = 1 /\ queue = <<>>
      /\ task = [i \in Images |-> "new"] /\ caller = 0 /\ signals = <<>>
      /\ limited = TRUE /\ since = {}
  BY DEF Init
<1>2. Running = {} /\ Signalled = {} /\ Len(queue) = 0
  BY <1>1 DEF Running, Signalled
<1>3. TypeOK
  BY <1>1 DEF TypeOK, States
<1>4. QueueInv /\ NewInv /\ CallerInv /\ SignalInv /\ Served /\ OneThread
  BY <1>1, <1>2 DEF QueueInv, NewInv, CallerInv, SignalInv, Served, OneThread
<1>5. OptionInv
  BY <1>1 DEF OptionInv, OptionsTakeEffect
<1> QED BY <1>3, <1>4, <1>5 DEF ReaderInv

LEMMA StutteringKeepsInv == ReaderInv /\ UNCHANGED vars => ReaderInv'
BY DEF ReaderInv, TypeOK, QueueInv, NewInv, CallerInv, SignalInv, Served, OneThread, OptionInv,
       OptionsTakeEffect, Running, Signalled, vars

LEMMA ReaderKept == ReaderInv /\ [Next]_vars => ReaderInv'
<1> SUFFICES ASSUME ReaderInv, [Next]_vars  PROVE ReaderInv'
  OBVIOUS
<1>1. CASE ReadAsync \/ TryReadAsync
  BY <1>1, AsyncKeepsInv
<1>2. CASE Read
  BY <1>2, ReadKeepsInv
<1>3. CASE ReadReturns
  BY <1>3, ReadReturnsKeepsInv
<1>4. CASE \E new \in BOOLEAN : SetTryHarder(new)
  BY <1>4, SettersKeepInv
<1>5. CASE Destroy \/ \E n \in ThreadCounts : SetMaxThreadCount(n)
  BY <1>5, LimitKeepsInv
<1>6. CASE Done
  BY <1>6, DoneKeepsInv
<1>7. CASE \E i \in Images : Step(i)
  BY <1>7, ReadBarcodesKeepsInv, EmitKeepsInv, FinishKeepsInv DEF Step
<1>8. CASE UNCHANGED vars
  BY <1>8, StutteringKeepsInv
<1> QED BY <1>1, <1>2, <1>3, <1>4, <1>5, <1>6, <1>7, <1>8 DEF Next, Owner

(* The types, and what the queue and the threads have to do with them.     *)
THEOREM ReaderCorrect == Spec => []ReaderInv
BY ReaderKept, InitEstablishes, PTL DEF Spec

(* A queued image has a running thread before it, whatever limit is set    *)
(* and also while the destructor waits (ZXingQt.h, ~BarcodeReader).        *)
THEOREM NoImageStranded == Spec => []NoneStranded
<1>1. ReaderInv => NoneStranded
  <2>1. Active \in Nat /\ (Active >= 1 <=> Running # {})
    BY ActiveMeans
  <2> QED BY <2>1 DEF ReaderInv, Served, NoneStranded
<1> QED BY <1>1, ReaderCorrect, PTL

(* As long as nobody raises the limit of one thread, the signals of        *)
(* readAsync and tryReadAsync come in the order of the calls.              *)
THEOREM SignalsInOrder == Spec => []InOrderOfCalls
<1>1. ReaderInv => InOrderOfCalls
  <2> SUFFICES ASSUME ReaderInv, limited, NEW i \in Images, i # caller, task[i] = "emitted",
                      NEW j \in Running \cup {queue[k] : k \in DOMAIN queue}
               PROVE  i <= j
    BY DEF InOrderOfCalls
  <2>1. i \in Running /\ i \in Nat
    BY ImagesAssumption DEF Running, Images
  <2>2. CASE j \in Running
    BY <2>1, <2>2 DEF ReaderInv, OneThread
  <2>3. CASE j \in {queue[k] : k \in DOMAIN queue}
    <3>1. PICK k \in DOMAIN queue : j = queue[k]
      BY <2>3
    <3>2. queue \in Seq(Images) /\ k \in 1 .. Len(queue) /\ j \in Nat
      BY <3>1, ImagesAssumption DEF ReaderInv, TypeOK, Images
    <3>3. i < j
      BY <3>1, <3>2, <2>1 DEF ReaderInv, OneThread
    <3> QED BY <3>2, <3>3, <2>1
  <2> QED BY <2>2, <2>3
<1> QED BY <1>1, ReaderCorrect, PTL

(* Runnables read the options of the reader itself; an image handed over   *)
(* after an option was set is read with it.                                *)
THEOREM OptionsReachThreads == Spec => []OptionsTakeEffect
<1>1. ReaderInv => OptionsTakeEffect
  BY DEF ReaderInv, OptionInv
<1> QED BY <1>1, ReaderCorrect, PTL
-----------------------------------------------------------------------------
(* The steps of the reader are steps of AsyncReads.                        *)
LEMMA AbstractInit == Init => Reads!Init
BY DEF Init, Reads!Init, Pending, Signalled

LEMMA AcceptedOrRefused ==
  ASSUME ReaderInv, HandOver, NEW s \in {"queued", "refused", "reading"},
         task' = [task EXCEPT ![NextImage] = s], UNCHANGED <<reader, signals>>
  PROVE  [Reads!Next]_(Reads!vars)
<1>1. /\ NextImage \in Images /\ task[NextImage] = "new" /\ reader = "alive"
      /\ task \in [Images -> States]
  BY NextImageIsLeast DEF HandOver, OwnerFree, ReaderInv, TypeOK
<1>2. \A i \in Images : task'[i] = IF i = NextImage THEN s ELSE task[i]
  BY <1>1
<1>3. NextImage \notin Pending \cup Signalled
  BY <1>1 DEF Pending, ReaderInv, SignalInv
<1>4. Signalled' = Signalled /\ (reader' # "gone") = (reader # "gone")
  BY DEF Signalled
<1>5. CASE s = "refused"
  <2>1. Pending' = Pending
    BY <1>1, <1>2, <1>5 DEF Pending
  <2> QED BY <2>1, <1>4 DEF Reads!vars
<1>6. CASE s # "refused"
  <2>1. Pending' = Pending \cup {NextImage}
    BY <1>1, <1>2, <1>6 DEF Pending
  <2>2. Reads!Accept(NextImage)
    BY <2>1, <1>1, <1>3, <1>4 DEF Reads!Accept
  <2> QED BY <2>2, <1>1 DEF Reads!Next
<1> QED BY <1>5, <1>6

LEMMA EmitAnswers ==
  ASSUME ReaderInv, NEW i \in Images, EmitFoundBarcodes(i)
  PROVE  Reads!Answer(i)
<1>1. /\ task \in [Images -> States] /\ task[i] \in {"found", "none"}
      /\ task' = [task EXCEPT ![i] = "emitted"] /\ reader' = reader
  BY DEF ReaderInv, TypeOK, EmitFoundBarcodes
<1>2. Signalled' = Signalled \cup {i}
  BY SignalAdded DEF ReaderInv
<1>3. i \in Pending /\ Pending' = Pending \ {i}
  BY <1>1 DEF Pending
<1>4. reader # "gone"
  <2>1. CASE i = caller
    BY <2>1, ImagesAssumption DEF ReaderInv, CallerInv, Images
  <2>2. CASE i # caller
    BY <2>2, <1>1 DEF ReaderInv, CallerInv, Running
  <2> QED BY <2>1, <2>2
<1> QED BY <1>1, <1>2, <1>3, <1>4 DEF Reads!Answer

LEMMA DoneCloses ==
  ASSUME ReaderInv, Done
  PROVE  Reads!Close
<1>1. /\ reader' = "gone" /\ reader = "stopping" /\ queue = <<>> /\ Running = {} /\ caller = 0
      /\ UNCHANGED <<task, signals>>
  BY ActiveMeans DEF ReaderInv, CallerInv, Done
<1>2. \A i \in Images : task[i] # "queued"
  BY <1>1 DEF ReaderInv, QueueInv
<1>3. 0 \notin Images
  BY ImagesAssumption DEF Images
<1>4. Pending = {}
  BY <1>1, <1>2, <1>3 DEF Pending, Running
<1>5. Pending' = Pending /\ Signalled' = Signalled
  BY <1>1 DEF Pending, Signalled
<1> QED BY <1>1, <1>4, <1>5 DEF Reads!Close

(* Steps that AsyncReads does not see.                                     *)
LEMMA UnseenSteps ==
  ASSUME ReaderInv, UNCHANGED signals, reader' = "gone" <=> reader = "gone",
         task' \in [Images -> States],
         \A i \in Images :
           (task'[i] \in {"queued", "reading", "found", "none"})
             <=> (task[i] \in {"queued", "reading", "found", "none"})
  PROVE  UNCHANGED Reads!vars
BY DEF Reads!vars, Pending, Signalled

LEMMA AbstractStep == ReaderInv /\ [Next]_vars => [Reads!Next]_(Reads!vars)
<1> SUFFICES ASSUME ReaderInv, [Next]_vars  PROVE [Reads!Next]_(Reads!vars)
  OBVIOUS
<1> USE DEF States
<1>1. task \in [Images -> States] /\ ReaderInv'
  BY ReaderKept DEF ReaderInv, TypeOK
<1>2. task' \in [Images -> States]
  BY <1>1 DEF ReaderInv, TypeOK
<1>3. CASE ReadAsync \/ TryReadAsync \/ Read
  <2>1. PICK s \in {"queued", "refused", "reading"} : task' = [task EXCEPT ![NextImage] = s]
    BY <1>3 DEF ReadAsync, TryReadAsync, Read, Start, TryStart
  <2> QED BY <2>1, <1>3, AcceptedOrRefused DEF ReadAsync, TryReadAsync, Read
<1>4. CASE ReadReturns
  <2>1. caller \in Images /\ task[caller] = "emitted" /\ task' = [task EXCEPT ![caller] = "done"]
    BY <1>4 DEF ReadReturns, ReaderInv, TypeOK
  <2> QED BY <2>1, <1>1, <1>2, <1>4, UnseenSteps DEF ReadReturns
<1>5. CASE \E new \in BOOLEAN : SetTryHarder(new)
  BY <1>2, <1>5, UnseenSteps DEF SetTryHarder
<1>6. CASE Destroy \/ \E n \in ThreadCounts : SetMaxThreadCount(n)
  <2>1. \A i \in Images : IF task[i] = "queued" THEN task'[i] \in {"queued", "reading"}
                          ELSE task'[i] = task[i]
    BY <1>6, LimitKeepsInv
  <2>2. (reader' = "gone" <=> reader = "gone") /\ signals' = signals
    BY <1>6 DEF Destroy, SetMaxThreadCount, OwnerFree
  <2> QED BY <2>1, <2>2, <1>2, UnseenSteps
<1>7. CASE Done
  BY <1>7, DoneCloses DEF Reads!Next
<1>8. ASSUME NEW i \in Images, ReadBarcodes(i)  PROVE UNCHANGED Reads!vars
  <2>1. PICK s \in {"found", "none"} : task' = [task EXCEPT ![i] = s]
    BY <1>8 DEF ReadBarcodes
  <2> QED BY <2>1, <1>1, <1>2, <1>8, UnseenSteps DEF ReadBarcodes
<1>9. ASSUME NEW i \in Images, EmitFoundBarcodes(i)  PROVE Reads!Next
  BY <1>9, EmitAnswers DEF Reads!Next
<1>10. ASSUME NEW i \in Images, Finish(i)  PROVE UNCHANGED Reads!vars
  <2>1. task[i] = "emitted" /\ UNCHANGED <<reader, signals>>
    BY <1>10 DEF Finish
  <2>2. CASE queue = <<>> \/ TooManyActive
    <3>1. task' = [task EXCEPT ![i] = "done"]
      BY <1>10, <2>2 DEF Finish
    <3> QED BY <3>1, <2>1, <1>1, <1>2, UnseenSteps
  <2>3. CASE queue # <<>> /\ ~TooManyActive
    <3>1. \A j \in Images : CASE j = i -> task'[j] = "done"
                           [] task[j] = "queued" -> task'[j] \in {"queued", "reading"}
                           [] OTHER -> task'[j] = task[j]
      BY <1>10, <2>3, ThreadGoesOn
    <3>2. \A j \in Images : \/ j = i /\ task'[j] = "done"
                            \/ task[j] = "queued" /\ task'[j] \in {"queued", "reading"}
                            \/ task'[j] = task[j]
      BY <3>1, <2>1
    <3> QED BY <3>2, <2>1, <1>2, UnseenSteps
  <2> QED BY <2>2, <2>3
<1>11. CASE UNCHANGED vars
  BY <1>2, <1>11, UnseenSteps DEF vars
<1> QED BY <1>3, <1>4, <1>5, <1>6, <1>7, <1>8, <1>9, <1>10, <1>11 DEF Next, Owner, Step

(* Whatever the owner does, each accepted image is answered at most once,  *)
(* by a reader that is still there, and the reader goes only after all of  *)
(* them (ZXingQt.h, ~BarcodeReader: setMaxThreadCount(0), waitForDone).    *)
THEOREM ReadsImplemented == Spec => Reads!Init /\ [][Reads!Next]_(Reads!vars)
BY AbstractInit, AbstractStep, ReaderCorrect, PTL DEF Spec
=============================================================================
