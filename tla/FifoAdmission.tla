---------------------------- MODULE FifoAdmission ----------------------------
(***************************************************************************)
(* What slot admission promises, without tickets: requests queue in        *)
(* arrival order, may give up at any point of the queue, and the first in  *)
(* line - and only it - takes a free slot, which nobody else then holds.   *)
(***************************************************************************)
CONSTANTS Request, Slots

VARIABLES
  waiting,   \* requests in the queue
  ahead,     \* pairs <<a, b>> of waiting requests, a before b
  holding,   \* pairs <<r, s>>: r holds slot s
  finished   \* requests that were refused, gave up, or are done

vars == <<waiting, ahead, holding, finished>>

Holders == {p[1] : p \in holding}
Held == {p[2] : p \in holding}

Init == waiting = {} /\ ahead = {} /\ holding = {} /\ finished = {}

Without(r) == {p \in ahead : p[1] # r /\ p[2] # r}

Enter(r) ==
  /\ r \notin waiting \cup Holders \cup finished
  /\ waiting' = waiting \cup {r}
  /\ ahead' = ahead \cup {<<q, r>> : q \in waiting}
  /\ UNCHANGED <<holding, finished>>

Refuse(r) ==
  /\ r \notin waiting \cup Holders \cup finished
  /\ finished' = finished \cup {r}
  /\ UNCHANGED <<waiting, ahead, holding>>

GiveUp(r) ==
  /\ r \in waiting
  /\ waiting' = waiting \ {r}
  /\ ahead' = Without(r)
  /\ finished' = finished \cup {r}
  /\ UNCHANGED holding

TakeSlot(r, s) ==
  /\ r \in waiting
  /\ \A q \in waiting : <<q, r>> \notin ahead
  /\ s \notin Held
  /\ waiting' = waiting \ {r}
  /\ ahead' = Without(r)
  /\ holding' = holding \cup {<<r, s>>}
  /\ UNCHANGED finished

(* With nobody waiting, an arrival takes a free slot without queueing. *)
WalkIn(r, s) ==
  /\ r \notin waiting \cup Holders \cup finished
  /\ waiting = {}
  /\ s \notin Held
  /\ holding' = holding \cup {<<r, s>>}
  /\ UNCHANGED <<waiting, ahead, finished>>

Return(r, s) ==
  /\ <<r, s>> \in holding
  /\ holding' = holding \ {<<r, s>>}
  /\ finished' = finished \cup {r}
  /\ UNCHANGED <<waiting, ahead>>

Next ==
  \E r \in Request :
    \/ Enter(r) \/ Refuse(r) \/ GiveUp(r)
    \/ \E s \in Slots : TakeSlot(r, s) \/ WalkIn(r, s) \/ Return(r, s)

Spec == Init /\ [][Next]_vars
=============================================================================
