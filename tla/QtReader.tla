------------------------------- MODULE QtReader -------------------------------
(***************************************************************************)
(* BarcodeReader of core/src/ZXingQt.h: images are read on the threads of  *)
(* a QThreadPool, whose runnables answer each one with a signal, while the *)
(* thread that owns the reader goes on changing its options, reads images  *)
(* itself and finally destroys it.                                         *)
(*                                                                         *)
(* Images are numbered in the order the owner hands them over.  `task` is  *)
(* what has become of each; the runnables read the options of the reader   *)
(* itself, not a copy.  QThreadPool is modelled as Qt documents it: at     *)
(* least one thread runs whatever the limit, and a thread that is done     *)
(* takes the next runnable off the queue.  The frames of a QVideoSink,     *)
(* whose thread would call tryReadAsync itself, are left out.              *)
(***************************************************************************)
EXTENDS Integers, Sequences, FiniteSets

CONSTANTS
  MaxImages,      \* bound: images handed over
  ThreadCounts,   \* arguments of setMaxThreadCount
  Easy, Hard      \* images with a barcode; Hard ones need tryHarder

Images == 1 .. MaxImages
ASSUME ImagesAssumption ==
  MaxImages \in Nat /\ Easy \subseteq Images /\ Hard \subseteq Images
ASSUME ThreadCountsAssumption == ThreadCounts \subseteq Int

VARIABLES
  reader,         \* alive, in its destructor, or destroyed
  tryHarder,      \* the option that stands for all of them
  maxThreads, queue,
  task,           \* the state of each image
  caller,         \* the image the owner reads itself, or 0
  signals,        \* what has been emitted, in this order
  limited,        \* history: setMaxThreadCount has not been called
  since           \* history: the images handed over since tryHarder was set

vars == <<reader, tryHarder, maxThreads, queue, task, caller, signals, limited, since>>

States == {"new", "refused", "queued", "reading", "found", "none", "emitted", "done"}
Running == {i \in Images : i # caller /\ task[i] \in {"reading", "found", "none", "emitted"}}
Active == Cardinality(Running)
New == {i \in Images : task[i] = "new"}
NextImage == CHOOSE i \in New : \A j \in New : i <= j
-----------------------------------------------------------------------------
(* QThreadPool.                                                            *)
AllThreadsActive == Active >= maxThreads /\ Active >= 1
TooManyAtLimit == Active > maxThreads          \* mutant: no thread left at 0
TooManyActive == Active > maxThreads /\ Active > 1

Start(i) ==
  IF AllThreadsActive
    THEN queue' = Append(queue, i) /\ task' = [task EXCEPT ![i] = "queued"]
    ELSE task' = [task EXCEPT ![i] = "reading"] /\ UNCHANGED queue

TryStart(i) ==
  /\ task' = [task EXCEPT ![i] = IF AllThreadsActive THEN "refused" ELSE "reading"]
  /\ UNCHANGED queue

(* Threads are started for what waits, as far as the new limit allows.     *)
StartMore(limit) ==
  LET free == IF limit > Active THEN limit - Active ELSE 0
      n == IF Len(queue) < free THEN Len(queue) ELSE free
      started == {queue[k] : k \in 1 .. n}
  IN  /\ maxThreads' = limit
      /\ queue' = SubSeq(queue, n + 1, Len(queue))
      /\ task' = [i \in Images |-> IF i \in started THEN "reading" ELSE task[i]]

(* A thread leaves its runnable.                                           *)
Finish(i) ==
  /\ i \in Running /\ task[i] = "emitted"
  /\ IF queue # <<>> /\ ~TooManyActive
       THEN /\ task' = [task EXCEPT ![i] = "done", ![Head(queue)] = "reading"]
            /\ queue' = Tail(queue)
       ELSE task' = [task EXCEPT ![i] = "done"] /\ UNCHANGED queue
  /\ UNCHANGED <<reader, tryHarder, maxThreads, caller, signals, limited, since>>
-----------------------------------------------------------------------------
InitDefault ==                                 \* mutant: the pool keeps Qt's default
  /\ reader = "alive" /\ tryHarder = TRUE /\ maxThreads = 8
  /\ queue = <<>> /\ task = [i \in Images |-> "new"]
  /\ caller = 0 /\ signals = <<>> /\ limited = TRUE /\ since = {}

Init ==
  /\ reader = "alive" /\ tryHarder = TRUE /\ maxThreads = 1
  /\ queue = <<>> /\ task = [i \in Images |-> "new"]
  /\ caller = 0 /\ signals = <<>> /\ limited = TRUE /\ since = {}

(* The thread that owns the reader.                                        *)
OwnerFree == reader = "alive" /\ caller = 0
HandOver ==
  /\ OwnerFree /\ New # {}
  /\ since' = IF tryHarder THEN since \cup {NextImage} ELSE since

ReadAsync ==
  /\ HandOver /\ Start(NextImage)
  /\ UNCHANGED <<reader, tryHarder, maxThreads, caller, signals, limited>>
TryReadAsync ==
  /\ HandOver /\ TryStart(NextImage)
  /\ UNCHANGED <<reader, tryHarder, maxThreads, caller, signals, limited>>
Read ==
  /\ HandOver
  /\ caller' = NextImage /\ task' = [task EXCEPT ![NextImage] = "reading"]
  /\ UNCHANGED <<reader, tryHarder, maxThreads, queue, signals, limited>>
ReadReturns ==
  /\ caller # 0 /\ task[caller] = "emitted"
  /\ caller' = 0 /\ task' = [task EXCEPT ![caller] = "done"]
  /\ UNCHANGED <<reader, tryHarder, maxThreads, queue, signals, limited, since>>

SetTryHarder(new) ==
  /\ OwnerFree /\ tryHarder # new /\ tryHarder' = new /\ since' = {}
  /\ UNCHANGED <<reader, maxThreads, queue, task, caller, signals, limited>>
SetMaxThreadCount(n) ==
  /\ OwnerFree /\ maxThreads # n /\ StartMore(n) /\ limited' = FALSE
  /\ UNCHANGED <<reader, tryHarder, caller, signals, since>>

(* ~BarcodeReader: setMaxThreadCount(0), then waitForDone(-1).             *)
Destroy ==
  /\ OwnerFree /\ StartMore(0) /\ reader' = "stopping"
  /\ UNCHANGED <<tryHarder, caller, signals, limited, since>>
DoneUnawaited ==                               \* mutant: no waitForDone
  /\ reader = "stopping"
  /\ reader' = "gone"
  /\ UNCHANGED <<tryHarder, maxThreads, queue, task, caller, signals, limited, since>>
Done ==
  /\ reader = "stopping" /\ queue = <<>> /\ Active = 0
  /\ reader' = "gone"
  /\ UNCHANGED <<tryHarder, maxThreads, queue, task, caller, signals, limited, since>>

(* read(), on whatever thread: ReadBarcodes, then one of the two signals.  *)
ReadBarcodesDefault(i) ==                      \* mutant: default options
  /\ task[i] = "reading"
  /\ task' = [task EXCEPT ![i] = IF i \in Easy THEN "found" ELSE "none"]
  /\ UNCHANGED <<reader, tryHarder, maxThreads, queue, caller, signals, limited, since>>
ReadBarcodes(i) ==
  /\ task[i] = "reading"
  /\ task' = [task EXCEPT ![i] =
       IF i \in Easy \/ (i \in Hard /\ tryHarder) THEN "found" ELSE "none"]
  /\ UNCHANGED <<reader, tryHarder, maxThreads, queue, caller, signals, limited, since>>
EmitFoundBarcodes(i) ==
  /\ task[i] \in {"found", "none"}
  /\ signals' = Append(signals, <<i, task[i]>>)
  /\ task' = [task EXCEPT ![i] = "emitted"]
  /\ UNCHANGED <<reader, tryHarder, maxThreads, queue, caller, limited, since>>

Owner ==
  \/ ReadAsync \/ TryReadAsync \/ Read \/ ReadReturns
  \/ \E new \in BOOLEAN : SetTryHarder(new)
  \/ \E n \in ThreadCounts : SetMaxThreadCount(n)
  \/ Destroy \/ Done
Step(i) == ReadBarcodes(i) \/ EmitFoundBarcodes(i) \/ Finish(i)
Next == Owner \/ \E i \in Images : Step(i)

(* Threads keep running, and the owner returns from read() and waits.      *)
Spec == Init /\ [][Next]_vars
             /\ \A i \in Images : WF_vars(Step(i))
             /\ WF_vars(ReadReturns) /\ WF_vars(Done)
-----------------------------------------------------------------------------
TypeOK ==
  /\ reader \in {"alive", "stopping", "gone"}
  /\ tryHarder \in BOOLEAN /\ limited \in BOOLEAN
  /\ maxThreads \in {0, 1} \cup ThreadCounts
  /\ queue \in Seq(Images) /\ task \in [Images -> States] /\ caller \in {0} \cup Images
  /\ signals \in Seq(Images \X {"found", "none"})

(* While an image waits there is a thread that will come to it, also when  *)
(* the limit has been lowered or the reader is being destroyed.            *)
NoneStranded == queue # <<>> => Active > 0

(* Unless the caller asks for more threads, images given to readAsync and  *)
(* tryReadAsync are answered in their order.  (`read` is not of the pool.) *)
Signalled == {signals[k][1] : k \in DOMAIN signals}
InOrderOfCalls ==
  limited => \A i \in Images : i # caller /\ task[i] = "emitted" =>
    \A j \in Running \cup {queue[k] : k \in DOMAIN queue} : i <= j

(* An image handed over after tryHarder was set is read with it, on any    *)
(* thread and however long it waits, unless the option is changed again.   *)
OptionsTakeEffect ==
  \A k \in DOMAIN signals : signals[k][1] \in since \cap (Easy \cup Hard)
                              => signals[k][2] = "found"

(* Every accepted image is answered once by a signal of a reader that is   *)
(* still there, and the destructor returns after the last of them.         *)
Pending == {i \in Images : task[i] \in {"queued", "reading", "found", "none"}}
Reads == INSTANCE AsyncReads WITH
  open <- reader # "gone", pending <- Pending, answered <- Signalled
ImplementsReads == Reads!Spec

(* The destructor waits for the pool but not forever.                      *)
Destroyed == reader = "stopping" ~> reader = "gone"
=============================================================================
