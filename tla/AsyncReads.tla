------------------------------ MODULE AsyncReads ------------------------------
(***************************************************************************)
(* What an asynchronous reader promises: every image it accepts is         *)
(* answered once, and it does not close before all of them are.            *)
(***************************************************************************)
CONSTANT Images
VARIABLES open, pending, answered
vars == <<open, pending, answered>>

Init == open = TRUE /\ pending = {} /\ answered = {}

Accept(i) ==
  /\ open /\ i \notin pending \cup answered
  /\ pending' = pending \cup {i} /\ UNCHANGED <<open, answered>>
Answer(i) ==
  /\ open /\ i \in pending
  /\ pending' = pending \ {i} /\ answered' = answered \cup {i} /\ UNCHANGED open
Close ==
  /\ open /\ pending = {}
  /\ open' = FALSE /\ UNCHANGED <<pending, answered>>

Next == Close \/ \E i \in Images : Accept(i) \/ Answer(i)

Spec == Init /\ [][Next]_vars /\ \A i \in Images : WF_vars(Answer(i))
=============================================================================
