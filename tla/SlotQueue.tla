------------------------------ MODULE SlotQueue ------------------------------
(***************************************************************************)
(* Slot admission in the Metal server: the first part of Runtime::run      *)
(* (src/metal/metal_server.cpp), and the release of the slot at its end.   *)
(*                                                                         *)
(* Arriving requests draw slot tickets; the request whose ticket is being  *)
(* served takes the first idle slot and passes the turn.  A waiter whose   *)
(* client has gone leaves the queue: from the front by passing the turn,   *)
(* from the middle by leaving its ticket in cancelled_tickets_ for whoever *)
(* next holds route_ to skip.  All state here is guarded by route_, so a   *)
(* critical section is one step.  The wait is timed (250 ms): a tick drops *)
(* route_ to probe the client and takes it again.                          *)
(***************************************************************************)
EXTENDS Integers, FiniteSets

CONSTANTS
  Request,        \* the requests that may reach run()
  NSlots,         \* slots.size()
  QueueMax        \* QUEUE_MAX

ASSUME SlotQueueAssumption ==
  /\ IsFiniteSet(Request)
  /\ NSlots \in Nat \ {0}
  /\ QueueMax \in Nat \ {0}

Slot == 1 .. NSlots

Phase == {"Idle", "Prefill", "Decode", "Verify"}

VARIABLES
  slotNext,      \* slot_next_
  slotServing,   \* slot_serving_
  queueWaiters,  \* queue_waiters
  cancelled,     \* cancelled_tickets_
  ticket,        \* ticket[r]: the local `ticket' of r's run()
  qstate,        \* qstate[r]: where r's acquisition stands (see below)
  busy,          \* busy[s]: Slot::busy
  phase,         \* phase[s]: Slot::phase
  slot,          \* slot[r]: the local `slot' of r's run(), 0 before admission
  clientGone     \* clientGone[r]: r's socket is dead (environment)

queueVars == <<slotNext, slotServing, queueWaiters, cancelled, ticket,
               qstate, busy, phase, slot, clientGone>>

(* "out": not in run() yet; "wait": asleep on slot_free_; "probe": in      *)
(* live() with route_ released; "in": owns a slot; "left": run() is over   *)
(* for it, because it was refused, cancelled, or released its slot.        *)
QState == {"out", "wait", "probe", "in", "left"}

QueueInit ==
  /\ slotNext = 0
  /\ slotServing = 0
  /\ queueWaiters = 0
  /\ cancelled = {}
  /\ ticket = [r \in Request |-> 0]
  /\ qstate = [r \in Request |-> "out"]
  /\ busy = [s \in Slot |-> FALSE]
  /\ phase = [s \in Slot |-> "Idle"]
  /\ slot = [r \in Request |-> 0]
  /\ clientGone = [r \in Request |-> FALSE]

QueueTypeOK ==
  /\ slotNext \in Nat
  /\ slotServing \in Nat
  /\ queueWaiters \in Nat
  /\ cancelled \in SUBSET Nat
  /\ ticket \in [Request -> Nat]
  /\ qstate \in [Request -> QState]
  /\ busy \in [Slot -> BOOLEAN]
  /\ phase \in [Slot -> Phase]
  /\ slot \in [Request -> Slot \cup {0}]
  /\ clientGone \in [Request -> BOOLEAN]

-----------------------------------------------------------------------------
(* drain_cancelled(): while(cancelled_tickets_.erase(slot_serving_))       *)
(* slot_serving_++.  s is where the loop leaves slot_serving_; exactly one *)
(* s satisfies this, because slot_next_ itself is never cancelled.         *)
DrainedTo(s) ==
  /\ s \in slotServing .. slotNext
  /\ s \notin cancelled
  /\ slotServing .. s - 1 \subseteq cancelled

StillCancelled(s) == cancelled \ (slotServing .. s - 1)

(* A critical section that drains and leaves the turn where it is. *)
Drain(s) ==
  /\ DrainedTo(s)
  /\ slotServing' = s
  /\ cancelled' = StillCancelled(s)

(* ~TurnPass after a drain to s: the turn goes to the next ticket. *)
PassTurn(s) ==
  /\ DrainedTo(s)
  /\ slotServing' = s + 1
  /\ cancelled' = StillCancelled(s)

HasRoom(s) == slotNext - s < QueueMax

(* The overflow test of run() throws ServerOverloaded; no ticket drawn. *)
Overflow(r) ==
  /\ qstate[r] = "out"
  /\ \E s \in slotServing .. slotNext : Drain(s) /\ ~HasRoom(s)
  /\ qstate' = [qstate EXCEPT ![r] = "left"]
  /\ UNCHANGED <<slotNext, queueWaiters, ticket, busy, phase, slot, clientGone>>

IdleSlots == {i \in Slot : ~busy[i]}

(* wait_for's predicate for ticket k, the cancelled tickets drained up to  *)
(* s.  Without the ticket test any waiter or newcomer may barge in.        *)
MayAdmitBarging(k, s) == IdleSlots # {}
MayAdmit(k, s) == s = k /\ IdleSlots # {}

(* The scan after the wait: the first idle slot. *)
FirstIdle(i) == i \in IdleSlots /\ \A j \in IdleSlots : i <= j

TakeSlot(r) ==
  \E i \in Slot :
    /\ FirstIdle(i)
    /\ busy' = [busy EXCEPT ![i] = TRUE]
    /\ phase' = [phase EXCEPT ![i] = "Prefill"]
    /\ slot' = [slot EXCEPT ![r] = i]

(* Draw a ticket; the predicate fails at once, so sleep on slot_free_. *)
Join(r) ==
  /\ qstate[r] = "out"
  /\ \E s \in slotServing .. slotNext :
       Drain(s) /\ HasRoom(s) /\ ~MayAdmit(slotNext, s)
  /\ ticket' = [ticket EXCEPT ![r] = slotNext]
  /\ slotNext' = slotNext + 1
  /\ queueWaiters' = queueWaiters + 1
  /\ qstate' = [qstate EXCEPT ![r] = "wait"]
  /\ UNCHANGED <<busy, phase, slot, clientGone>>

(* Draw a ticket; the predicate holds at once: admitted in one critical    *)
(* section, queue_waiters raised and lowered again.                        *)
WalkIn(r) ==
  /\ qstate[r] = "out"
  /\ \E s \in slotServing .. slotNext :
       PassTurn(s) /\ HasRoom(s) /\ MayAdmit(slotNext, s)
  /\ ticket' = [ticket EXCEPT ![r] = slotNext]
  /\ slotNext' = slotNext + 1
  /\ TakeSlot(r)
  /\ qstate' = [qstate EXCEPT ![r] = "in"]
  /\ UNCHANGED <<queueWaiters, clientGone>>

(* A waiter's predicate holds: take the slot; ~TurnPass passes the turn at *)
(* the end of the same critical section.                                   *)
Admit(r) ==
  /\ qstate[r] = "wait"
  /\ \E s \in slotServing .. slotNext : PassTurn(s) /\ MayAdmit(ticket[r], s)
  /\ TakeSlot(r)
  /\ queueWaiters' = queueWaiters - 1
  /\ qstate' = [qstate EXCEPT ![r] = "in"]
  /\ UNCHANGED <<slotNext, ticket, clientGone>>

(* wait_for times out with its predicate false: drop route_ and probe. *)
WaitTick(r) ==
  /\ qstate[r] = "wait"
  /\ \E s \in slotServing .. slotNext : Drain(s) /\ ~MayAdmit(ticket[r], s)
  /\ qstate' = [qstate EXCEPT ![r] = "probe"]
  /\ UNCHANGED <<slotNext, queueWaiters, ticket, busy, phase, slot, clientGone>>

(* live() said the client is there: relock, drain, wait again.  A dead     *)
(* socket stays dead, so probing at the relock loses no behaviour.         *)
ProbeAlive(r) ==
  /\ qstate[r] = "probe"
  /\ ~clientGone[r]
  /\ \E s \in slotServing .. slotNext : Drain(s)
  /\ qstate' = [qstate EXCEPT ![r] = "wait"]
  /\ UNCHANGED <<slotNext, queueWaiters, ticket, busy, phase, slot, clientGone>>

(* A cancelled waiter behind the front leaves its ticket to be skipped.    *)
(* Bugs: forget it, or pass the turn although another ticket is served.    *)
ForgetTicket(r, s) == Drain(s)
RegisterCancelled(r, s) ==
  /\ DrainedTo(s)
  /\ slotServing' = s
  /\ cancelled' = StillCancelled(s) \cup {ticket[r]}

(* The probe finds the client gone: in front, the armed TurnPass passes    *)
(* the turn while ClientGone unwinds; elsewhere the ticket is registered   *)
(* and TurnPass disarmed.                                                  *)
Cancel(r) ==
  /\ qstate[r] = "probe"
  /\ clientGone[r]
  /\ \E s \in slotServing .. slotNext :
       \/ s = ticket[r] /\ PassTurn(s)
       \/ s # ticket[r] /\ RegisterCancelled(r, s)
  /\ queueWaiters' = queueWaiters - 1
  /\ qstate' = [qstate EXCEPT ![r] = "left"]
  /\ UNCHANGED <<slotNext, ticket, busy, phase, slot, clientGone>>

(* live() threw: the catch relocks and rethrows with TurnPass still armed, *)
(* wherever in the queue the request is, and queue_waiters is not restored.*)
ProbeThrows(r) ==
  /\ qstate[r] = "probe"
  /\ slotServing' = slotServing + 1
  /\ qstate' = [qstate EXCEPT ![r] = "left"]
  /\ UNCHANGED <<slotNext, queueWaiters, cancelled, ticket, busy, phase,
                 slot, clientGone>>

(* Prompt ingested: the slot's traffic becomes latency-sensitive. *)
SetGenerating(r, p) ==
  /\ qstate[r] = "in"
  /\ p \in {"Decode", "Verify"}
  /\ phase' = [phase EXCEPT ![slot[r]] = p]
  /\ UNCHANGED <<slotNext, slotServing, queueWaiters, cancelled, ticket,
                 qstate, busy, slot, clientGone>>

(* ~SlotRelease. *)
ReleaseSlot(r) ==
  /\ qstate[r] = "in"
  /\ busy' = [busy EXCEPT ![slot[r]] = FALSE]
  /\ phase' = [phase EXCEPT ![slot[r]] = "Idle"]
  /\ qstate' = [qstate EXCEPT ![r] = "left"]
  /\ UNCHANGED <<slotNext, slotServing, queueWaiters, cancelled, ticket,
                 slot, clientGone>>

(* The peer closes its connection while its request is being served        *)
(* (environment).                                                          *)
Disconnect(r) ==
  /\ ~clientGone[r]
  /\ qstate[r] # "left"
  /\ clientGone' = [clientGone EXCEPT ![r] = TRUE]
  /\ UNCHANGED <<slotNext, slotServing, queueWaiters, cancelled, ticket,
                 qstate, busy, phase, slot>>

(* What r's thread does while it is being admitted, as long as its probes  *)
(* return, and with its slot.                                              *)
Acquire(r) ==
  \/ Overflow(r) \/ Join(r) \/ WalkIn(r) \/ Admit(r) \/ WaitTick(r)
  \/ ProbeAlive(r) \/ Cancel(r)

OwnSlot(r) == ReleaseSlot(r) \/ \E p \in {"Decode", "Verify"} : SetGenerating(r, p)

QueueNext == \E r \in Request : Acquire(r) \/ OwnSlot(r) \/ Disconnect(r)

QueueSpec == QueueInit /\ [][QueueNext]_queueVars

(* The same with probes that may throw. *)
ThrowNext == QueueNext \/ \E r \in Request : ProbeThrows(r)

ThrowSpec == QueueInit /\ [][ThrowNext]_queueVars

(* Every handler thread keeps running, ticks included; clients need not    *)
(* disconnect.  Generations are finite (max_tokens), so a slot's owner     *)
(* gets to its release.                                                    *)
QueueFairness ==
  \A r \in Request : WF_queueVars(Acquire(r)) /\ WF_queueVars(ReleaseSlot(r))

QueueFairSpec == QueueSpec /\ QueueFairness

-----------------------------------------------------------------------------
Waiting(r) == qstate[r] \in {"wait", "probe"}
WaitingSet == {r \in Request : Waiting(r)}
Owner(r, i) == qstate[r] = "in" /\ slot[r] = i

(* No live waiter has been passed over: the FIFO never moves beyond a      *)
(* ticket whose request still waits for it.                                *)
NoWaiterSkipped == \A r \in Request : Waiting(r) => slotServing <= ticket[r]

(* The outstanding slot tickets are exactly those of the live waiters and  *)
(* the registered cancellations, each held once: no turn is lost, so the   *)
(* queue cannot wedge on a ticket nobody will pass on.                     *)
TurnsAccounted ==
  /\ slotServing <= slotNext
  /\ cancelled \subseteq slotServing .. slotNext - 1
  /\ \A r \in Request :
       Waiting(r) => /\ ticket[r] \in slotServing .. slotNext - 1
                     /\ ticket[r] \notin cancelled
  /\ \A r, q \in Request :
       Waiting(r) /\ Waiting(q) /\ r # q => ticket[r] # ticket[q]
  /\ \A k \in slotServing .. slotNext - 1 :
       k \in cancelled \/ \E r \in Request : Waiting(r) /\ ticket[r] = k

(* A busy slot has exactly one owner and an idle one none, on every exit   *)
(* path: two requests never drive one engine, and no slot leaks.           *)
SlotsExclusive ==
  /\ \A r \in Request : qstate[r] = "in" => slot[r] \in Slot /\ busy[slot[r]]
  /\ \A i \in Slot : busy[i] => \E r \in Request : Owner(r, i)
  /\ \A r, q \in Request :
       qstate[r] = "in" /\ qstate[q] = "in" /\ slot[r] = slot[q] => r = q

(* queue_waiters, which quantum_width reads to shrink prefill chunks, is   *)
(* the number of live waiters.                                             *)
WaitersCounted == queueWaiters = Cardinality(WaitingSet)

(* The ticket spread bounds the queue: at most QUEUE_MAX requests wait. *)
QueueBounded == Cardinality(WaitingSet) <= QueueMax

(* Slots are handed out in arrival order: whoever is admitted in a step,   *)
(* from the queue or straight from the door, had no live waiter ahead.     *)
AdmittedInOrder ==
  [][\A r, q \in Request :
       /\ qstate[r] # "in" /\ qstate'[r] = "in"
       /\ Waiting(q) /\ q # r
       => ticket'[r] < ticket[q]]_queueVars

(* Every request that joins the queue leaves it, into a slot or cancelled. *)
NobodyWaitsForever == \A r \in Request : Waiting(r) ~> ~Waiting(r)

(* Tickets seen as an order, slots as a relation: the queue implements     *)
(* first-come first-served admission.                                      *)
Ahead == {p \in WaitingSet \X WaitingSet : ticket[p[1]] < ticket[p[2]]}
Admitted == {r \in Request : qstate[r] = "in"}
Holding == {<<r, slot[r]>> : r \in Admitted}
Gone == {r \in Request : qstate[r] = "left"}

Fifo == INSTANCE FifoAdmission WITH
  Slots <- Slot, waiting <- WaitingSet, ahead <- Ahead, holding <- Holding, finished <- Gone

ImplementsFifoAdmission == Fifo!Spec
=============================================================================
