-------------------------- MODULE MetalServerProofs --------------------------
(***************************************************************************)
(* The Metal server for any number of requests and slots.                  *)
(*                                                                         *)
(* First slot admission by itself, for any queue bound and provided no     *)
(* liveness probe throws: turns are never lost or taken out of order,      *)
(* slots are never shared, the waiter count is exact and the queue is      *)
(* bounded.                                                                *)
(*                                                                         *)
(* Then the composed server, probes that throw included.  Every step of    *)
(* the server is a step of slot admission and of the lease, or leaves them *)
(* alone, so what is proved of the parts holds here too; the rest of the   *)
(* invariant ties them to where each request's thread is.                  *)
(*                                                                         *)
(* Last the HTTP layer: what clients are answered and what the trace says. *)
(***************************************************************************)
EXTENDS MetalServer, HttpApi, FiniteSetTheorems, TLAPS

(* TurnsAccounted over explicit arguments: turn sv, next ticket nx,        *)
(* cancellations C, waiters W with tickets tk.                             *)
Accounted(sv, nx, C, W, tk) ==
  /\ sv <= nx
  /\ C \subseteq sv .. nx - 1
  /\ \A r \in W : tk[r] \in sv .. nx - 1 /\ tk[r] \notin C
  /\ \A r, q \in W : r # q => tk[r] # tk[q]
  /\ \A k \in sv .. nx - 1 : k \in C \/ \E r \in W : tk[r] = k

LEMMA TurnsAsSets ==
  TurnsAccounted <=> Accounted(slotServing, slotNext, cancelled, WaitingSet, ticket)
  BY DEF TurnsAccounted, Accounted, WaitingSet

LEMMA TurnsAsSetsPrime ==
  TurnsAccounted' <=>
    Accounted(slotServing', slotNext', cancelled', WaitingSet', ticket')
  BY DEF TurnsAccounted, Accounted, WaitingSet

(* Draining skips cancelled tickets only. *)
LEMMA DrainKeepsTurns ==
  ASSUME NEW sv \in Nat, NEW nx \in Nat, NEW C, NEW W, NEW tk,
         NEW s \in sv .. nx,
         Accounted(sv, nx, C, W, tk), s \notin C, sv .. s - 1 \subseteq C
  PROVE  Accounted(s, nx, C \ (sv .. s - 1), W, tk)
<1>1. ASSUME NEW r \in W
      PROVE  tk[r] \in s .. nx - 1
  <2>1. tk[r] \in sv .. nx - 1 /\ tk[r] \notin sv .. s - 1
    BY DEF Accounted
  <2> QED BY <2>1
<1>2. C \ (sv .. s - 1) \subseteq s .. nx - 1
  BY DEF Accounted
<1> QED BY <1>1, <1>2 DEF Accounted

(* A newcomer draws the next ticket. *)
LEMMA JoinKeepsTurns ==
  ASSUME NEW s \in Nat, NEW nx \in Nat, NEW C, NEW W \in SUBSET Request,
         NEW tk \in [Request -> Nat], NEW r \in Request \ W,
         Accounted(s, nx, C, W, tk)
  PROVE  Accounted(s, nx + 1, C, W \cup {r}, [tk EXCEPT ![r] = nx])
<1> DEFINE tk2 == [tk EXCEPT ![r] = nx]
<1>1. \A q \in W : tk2[q] = tk[q]
  OBVIOUS
<1>2. tk2[r] = nx
  OBVIOUS
<1> HIDE DEF tk2
<1>3. ASSUME NEW k \in s .. (nx + 1) - 1
      PROVE  k \in C \/ \E q \in W \cup {r} : tk2[q] = k
  <2>1. CASE k = nx
    BY <2>1, <1>2
  <2>2. CASE k # nx
    <3>1. k \in s .. nx - 1
      BY <2>2
    <3> QED BY <3>1, <1>1 DEF Accounted
  <2> QED BY <2>1, <2>2
<1>4. \A q \in W \cup {r} : tk2[q] \in s .. (nx + 1) - 1 /\ tk2[q] \notin C
  BY <1>1, <1>2 DEF Accounted
<1>5. \A p, q \in W \cup {r} : p # q => tk2[p] # tk2[q]
  BY <1>1, <1>2 DEF Accounted
<1>6. C \subseteq s .. (nx + 1) - 1 /\ s <= nx + 1
  BY DEF Accounted
<1> QED BY <1>3, <1>4, <1>5, <1>6 DEF Accounted, tk2

(* The waiter being served leaves and passes the turn. *)
LEMMA PassKeepsTurns ==
  ASSUME NEW s \in Nat, NEW nx \in Nat, NEW C, NEW W, NEW tk, NEW r \in W,
         Accounted(s, nx, C, W, tk), tk[r] = s
  PROVE  Accounted(s + 1, nx, C, W \ {r}, tk)
<1>1. s \notin C /\ s < nx
  BY DEF Accounted
<1>2. ASSUME NEW k \in s + 1 .. nx - 1
      PROVE  k \in C \/ \E q \in W \ {r} : tk[q] = k
  <2>1. k \in s .. nx - 1 /\ k # s
    OBVIOUS
  <2> QED BY <2>1 DEF Accounted
<1>3. \A q \in W \ {r} : tk[q] \in s + 1 .. nx - 1 /\ tk[q] \notin C
  BY DEF Accounted
<1>4. C \subseteq s + 1 .. nx - 1
  BY <1>1 DEF Accounted
<1> QED BY <1>1, <1>2, <1>3, <1>4 DEF Accounted

(* A waiter behind the front leaves its ticket among the cancelled. *)
LEMMA CancelKeepsTurns ==
  ASSUME NEW s \in Nat, NEW nx \in Nat, NEW C, NEW W, NEW tk, NEW r \in W,
         Accounted(s, nx, C, W, tk)
  PROVE  Accounted(s, nx, C \cup {tk[r]}, W \ {r}, tk)
  BY DEF Accounted

(* Nobody holds a ticket: an arrival that walks in uses its own up. *)
LEMMA WalkInKeepsTurns ==
  ASSUME NEW nx \in Nat, NEW C, NEW W, NEW tk, NEW tk2,
         Accounted(nx, nx, C, W, tk)
  PROVE  W = {} /\ Accounted(nx + 1, nx + 1, C, W, tk2)
<1>1. C = {} /\ W = {}
  BY DEF Accounted
<1> QED BY <1>1 DEF Accounted

-----------------------------------------------------------------------------
(* What holds even when a probe throws: types, who owns which slot, and    *)
(* that queue_waiters covers the live waiters (a throw leaves it too high, *)
(* never too low, so it cannot wrap below zero).                           *)
WaitersCovered == queueWaiters >= Cardinality(WaitingSet)

OwnersInv == QueueTypeOK /\ SlotsExclusive /\ WaitersCovered

LEMMA WaitersFinite == IsFiniteSet(WaitingSet) /\ Cardinality(WaitingSet) \in Nat
<1>1. WaitingSet \in SUBSET Request
  BY DEF WaitingSet
<1>2. IsFiniteSet(WaitingSet)
  BY <1>1, FS_Subset, SlotQueueAssumption
<1> QED BY <1>2, FS_CardinalityType

(* A step that keeps every request's ticket, slots and ownership leaves    *)
(* SlotsExclusive alone.                                                   *)
LEMMA SlotsUntouched ==
  ASSUME SlotsExclusive, UNCHANGED <<busy, slot>>,
         \A r \in Request : (qstate'[r] = "in") <=> (qstate[r] = "in")
  PROVE  SlotsExclusive'
  BY DEF SlotsExclusive, Owner

(* An idle slot has no owner, so its taker is its only owner. *)
LEMMA TakeSlotExclusive ==
  ASSUME QueueTypeOK, SlotsExclusive, NEW r \in Request, qstate[r] # "in", TakeSlot(r),
         qstate' = [qstate EXCEPT ![r] = "in"]
  PROVE  /\ SlotsExclusive'
         /\ busy' \in [Slot -> BOOLEAN] /\ phase' \in [Slot -> Phase]
         /\ slot' \in [Request -> Slot \cup {0}]
<1>1. PICK i \in Slot : /\ i \in IdleSlots
                       /\ busy' = [busy EXCEPT ![i] = TRUE]
                       /\ phase' = [phase EXCEPT ![i] = "Prefill"]
                       /\ slot' = [slot EXCEPT ![r] = i]
  BY DEF TakeSlot, FirstIdle
<1>2. ~busy[i]
  BY <1>1 DEF IdleSlots
<1>3. /\ busy \in [Slot -> BOOLEAN] /\ slot \in [Request -> Slot \cup {0}]
      /\ qstate \in [Request -> QState] /\ phase \in [Slot -> Phase]
  BY DEF QueueTypeOK
<1>4. /\ busy' \in [Slot -> BOOLEAN] /\ slot' \in [Request -> Slot \cup {0}]
      /\ phase' \in [Slot -> Phase]
  BY <1>1, <1>3 DEF Phase
<1>5. \A q \in Request : q # r =>
        slot'[q] = slot[q] /\ (qstate'[q] = "in" <=> qstate[q] = "in")
  BY <1>1, <1>3
<1>6. slot'[r] = i /\ qstate'[r] = "in"
  BY <1>1, <1>3
<1>7. \A j \in Slot : busy'[j] <=> (j = i \/ busy[j])
  BY <1>1, <1>3
<1>8. \A q \in Request : qstate[q] = "in" => slot[q] \in Slot /\ busy[slot[q]] /\ slot[q] # i
  BY <1>2 DEF SlotsExclusive
<1>9. \A q \in Request : qstate'[q] = "in" => slot'[q] \in Slot /\ busy'[slot'[q]]
  BY <1>5, <1>6, <1>7, <1>8
<1>10. ASSUME NEW j \in Slot, busy'[j]
       PROVE  \E q \in Request : qstate'[q] = "in" /\ slot'[q] = j
  <2>1. CASE j = i
    BY <2>1, <1>6
  <2>2. CASE j # i
    <3>1. PICK q \in Request : qstate[q] = "in" /\ slot[q] = j
      BY <1>7, <1>10, <2>2 DEF SlotsExclusive, Owner
    <3> QED BY <3>1, <1>5, <1>6
  <2> QED BY <2>1, <2>2
<1>11. \A p, q \in Request :
         qstate'[p] = "in" /\ qstate'[q] = "in" /\ slot'[p] = slot'[q] => p = q
  BY <1>5, <1>6, <1>8 DEF SlotsExclusive
<1> QED BY <1>4, <1>9, <1>10, <1>11 DEF SlotsExclusive, Owner

(* The owner was the only one, so the slot it gives back has none. *)
LEMMA ReleaseExclusive ==
  ASSUME QueueTypeOK, SlotsExclusive, NEW r \in Request, ReleaseSlot(r)
  PROVE  SlotsExclusive'
<1>1. /\ slot[r] \in Slot /\ busy \in [Slot -> BOOLEAN] /\ qstate \in [Request -> QState]
      /\ qstate[r] = "in" /\ slot' = slot
      /\ busy' = [busy EXCEPT ![slot[r]] = FALSE]
      /\ qstate' = [qstate EXCEPT ![r] = "left"]
  BY DEF ReleaseSlot, QueueTypeOK, SlotsExclusive
<1>2. \A q \in Request : qstate'[q] = "in" <=> (q # r /\ qstate[q] = "in")
  BY <1>1
<1>3. \A j \in Slot : busy'[j] <=> (j # slot[r] /\ busy[j])
  BY <1>1
<1>4. \A q \in Request : qstate[q] = "in" /\ q # r => slot[q] # slot[r]
  BY <1>1 DEF SlotsExclusive
<1>5. \A q \in Request : qstate'[q] = "in" => slot'[q] \in Slot /\ busy'[slot'[q]]
  BY <1>1, <1>2, <1>3, <1>4 DEF SlotsExclusive
<1>6. ASSUME NEW j \in Slot, busy'[j]
      PROVE  \E q \in Request : qstate'[q] = "in" /\ slot'[q] = j
  <2>1. PICK q \in Request : qstate[q] = "in" /\ slot[q] = j
    BY <1>3, <1>6 DEF SlotsExclusive, Owner
  <2> QED BY <1>1, <1>2, <1>3, <1>6, <2>1
<1>7. \A p, q \in Request :
        qstate'[p] = "in" /\ qstate'[q] = "in" /\ slot'[p] = slot'[q] => p = q
  BY <1>1, <1>2 DEF SlotsExclusive
<1> QED BY <1>5, <1>6, <1>7 DEF SlotsExclusive, Owner

LEMMA OwnersInit == QueueInit => OwnersInv
<1> SUFFICES ASSUME QueueInit PROVE OwnersInv
  OBVIOUS
<1>1. QueueTypeOK
  BY SlotQueueAssumption DEF QueueInit, QueueTypeOK, QState, Phase
<1>2. SlotsExclusive
  BY DEF QueueInit, SlotsExclusive, Owner
<1>3. WaitingSet = {}
  BY DEF QueueInit, WaitingSet, Waiting
<1>4. WaitersCovered
  BY <1>3, FS_EmptySet DEF QueueInit, WaitersCovered
<1> QED BY <1>1, <1>2, <1>4 DEF OwnersInv

(* Every critical section keeps the turn and the cancellations typed. *)
LEMMA TurnTypes ==
  ASSUME QueueTypeOK, NEW r \in Request, NEW s \in slotServing .. slotNext,
         Drain(s) \/ PassTurn(s) \/ RegisterCancelled(r, s)
  PROVE  slotServing' \in Nat /\ cancelled' \in SUBSET Nat
<1>1. /\ slotServing \in Nat /\ slotNext \in Nat /\ cancelled \in SUBSET Nat
      /\ ticket[r] \in Nat
  BY DEF QueueTypeOK
<1>2. s \in Nat /\ s + 1 \in Nat /\ StillCancelled(s) \in SUBSET Nat
  BY <1>1 DEF StillCancelled
<1> QED BY <1>1, <1>2 DEF Drain, PassTurn, RegisterCancelled

(* One waiter more or less. *)
LEMMA WaitersMove ==
  ASSUME NEW r
  PROVE  /\ r \notin WaitingSet => Cardinality(WaitingSet \cup {r}) = Cardinality(WaitingSet) + 1
         /\ r \in WaitingSet => /\ Cardinality(WaitingSet \ {r}) = Cardinality(WaitingSet) - 1
                                /\ Cardinality(WaitingSet) - 1 \in Nat
<1>1. r \notin WaitingSet => Cardinality(WaitingSet \cup {r}) = Cardinality(WaitingSet) + 1
  BY WaitersFinite, FS_AddElement
<1>2. ASSUME r \in WaitingSet
      PROVE  /\ Cardinality(WaitingSet \ {r}) = Cardinality(WaitingSet) - 1
             /\ IsFiniteSet(WaitingSet \ {r})
  BY <1>2, WaitersFinite, FS_RemoveElement
<1>3. r \in WaitingSet => Cardinality(WaitingSet) - 1 \in Nat
  BY <1>2, FS_CardinalityType
<1> QED BY <1>1, <1>2, <1>3

(* Steps that neither hand out nor take back a slot. *)
LEMMA QueueingKeepsOwners ==
  ASSUME OwnersInv, NEW r \in Request,
         \/ Overflow(r) \/ Join(r) \/ WaitTick(r) \/ ProbeAlive(r)
         \/ Cancel(r) \/ ProbeThrows(r)
  PROVE  OwnersInv'
<1>1. SlotsExclusive'
  BY SlotsUntouched
  DEF OwnersInv, QueueTypeOK, Overflow, Join, WaitTick, ProbeAlive, Cancel, ProbeThrows
<1>2. slotServing' \in Nat /\ cancelled' \in SUBSET Nat
  <2>1. CASE ProbeThrows(r)
    BY <2>1 DEF ProbeThrows, OwnersInv, QueueTypeOK
  <2>2. CASE ~ProbeThrows(r)
    <3>1. \E s \in slotServing .. slotNext :
            Drain(s) \/ PassTurn(s) \/ RegisterCancelled(r, s)
      BY <2>2 DEF Overflow, Join, WaitTick, ProbeAlive, Cancel
    <3> QED BY <3>1, TurnTypes DEF OwnersInv
  <2> QED BY <2>1, <2>2
<1>3. Cardinality(WaitingSet) \in Nat /\ queueWaiters \in Nat
      /\ queueWaiters >= Cardinality(WaitingSet)
  BY WaitersFinite DEF OwnersInv, QueueTypeOK, WaitersCovered
<1>4. queueWaiters' \in Nat /\ WaitersCovered'
  <2>1. CASE Overflow(r) \/ WaitTick(r) \/ ProbeAlive(r)
    <3>1. WaitingSet' = WaitingSet /\ queueWaiters' = queueWaiters
      BY <2>1 DEF Overflow, WaitTick, ProbeAlive, WaitingSet, Waiting, OwnersInv, QueueTypeOK
    <3> QED BY <1>3, <3>1 DEF WaitersCovered
  <2>2. CASE Join(r)
    <3>1. WaitingSet' = WaitingSet \cup {r} /\ r \notin WaitingSet
          /\ queueWaiters' = queueWaiters + 1
      BY <2>2 DEF Join, WaitingSet, Waiting, OwnersInv, QueueTypeOK
    <3> QED BY <1>3, <3>1, WaitersMove DEF WaitersCovered
  <2>3. CASE Cancel(r) \/ ProbeThrows(r)
    <3>1. WaitingSet' = WaitingSet \ {r} /\ r \in WaitingSet
          /\ (queueWaiters' = queueWaiters - 1 \/ queueWaiters' = queueWaiters)
      BY <2>3 DEF Cancel, ProbeThrows, WaitingSet, Waiting, OwnersInv, QueueTypeOK
    <3>2. Cardinality(WaitingSet') = Cardinality(WaitingSet) - 1
          /\ Cardinality(WaitingSet) - 1 \in Nat
      BY <3>1, WaitersMove
    <3> QED BY <1>3, <3>1, <3>2 DEF WaitersCovered
  <2> QED BY <2>1, <2>2, <2>3
<1>5. QueueTypeOK'
  BY <1>2, <1>4
  DEF Overflow, Join, WaitTick, ProbeAlive, Cancel, ProbeThrows, OwnersInv, QueueTypeOK, QState
<1> QED BY <1>1, <1>4, <1>5 DEF OwnersInv

(* Steps that hand out a slot. *)
LEMMA AdmissionKeepsOwners ==
  ASSUME OwnersInv, NEW r \in Request, WalkIn(r) \/ Admit(r)
  PROVE  OwnersInv'
<1>1. SlotsExclusive' /\ busy' \in [Slot -> BOOLEAN] /\ phase' \in [Slot -> Phase]
      /\ slot' \in [Request -> Slot \cup {0}]
  BY TakeSlotExclusive DEF OwnersInv, WalkIn, Admit
<1>2. slotServing' \in Nat /\ cancelled' \in SUBSET Nat
  BY TurnTypes DEF OwnersInv, WalkIn, Admit
<1>3. Cardinality(WaitingSet) \in Nat /\ queueWaiters \in Nat
      /\ queueWaiters >= Cardinality(WaitingSet)
  BY WaitersFinite DEF OwnersInv, QueueTypeOK, WaitersCovered
<1>4. queueWaiters' \in Nat /\ WaitersCovered'
  <2>1. CASE WalkIn(r)
    <3>1. WaitingSet' = WaitingSet /\ queueWaiters' = queueWaiters
      BY <2>1 DEF WalkIn, WaitingSet, Waiting, OwnersInv, QueueTypeOK
    <3> QED BY <1>3, <3>1 DEF WaitersCovered
  <2>2. CASE Admit(r)
    <3>1. WaitingSet' = WaitingSet \ {r} /\ r \in WaitingSet
          /\ queueWaiters' = queueWaiters - 1
      BY <2>2 DEF Admit, WaitingSet, Waiting, OwnersInv, QueueTypeOK
    <3>2. Cardinality(WaitingSet') = Cardinality(WaitingSet) - 1
          /\ Cardinality(WaitingSet) - 1 \in Nat
      BY <3>1, WaitersMove
    <3> QED BY <1>3, <3>1, <3>2 DEF WaitersCovered
  <2> QED BY <2>1, <2>2
<1>5. QueueTypeOK'
  BY <1>1, <1>2, <1>4 DEF WalkIn, Admit, OwnersInv, QueueTypeOK, QState
<1> QED BY <1>1, <1>4, <1>5 DEF OwnersInv

LEMMA OwnSlotKeepsOwners ==
  ASSUME OwnersInv, NEW r \in Request, OwnSlot(r) \/ Disconnect(r)
  PROVE  OwnersInv'
<1>1. WaitingSet' = WaitingSet /\ queueWaiters' = queueWaiters
  BY DEF OwnSlot, ReleaseSlot, SetGenerating, Disconnect, WaitingSet, Waiting,
         OwnersInv, QueueTypeOK
<1>2. QueueTypeOK'
  BY DEF OwnSlot, ReleaseSlot, SetGenerating, Disconnect, OwnersInv, QueueTypeOK, QState, Phase
<1>3. SlotsExclusive'
  <2>1. CASE ReleaseSlot(r)
    BY <2>1, ReleaseExclusive DEF OwnersInv
  <2>2. CASE ~ReleaseSlot(r)
    BY <2>2, SlotsUntouched DEF OwnSlot, SetGenerating, Disconnect, OwnersInv
  <2> QED BY <2>1, <2>2
<1> QED BY <1>1, <1>2, <1>3 DEF OwnersInv, WaitersCovered

LEMMA OwnersStep ==
  OwnersInv /\ [ThrowNext]_queueVars => OwnersInv'
<1> SUFFICES ASSUME OwnersInv, [ThrowNext]_queueVars PROVE OwnersInv'
  OBVIOUS
<1>1. ASSUME NEW r \in Request, Acquire(r) \/ ProbeThrows(r) PROVE OwnersInv'
  BY <1>1, QueueingKeepsOwners, AdmissionKeepsOwners DEF Acquire
<1>2. CASE UNCHANGED queueVars
  <2>1. WaitingSet' = WaitingSet
    BY <1>2 DEF queueVars, WaitingSet, Waiting
  <2>2. SlotsExclusive'
    BY <1>2, SlotsUntouched DEF queueVars, OwnersInv
  <2> QED BY <1>2, <2>1, <2>2 DEF queueVars, OwnersInv, QueueTypeOK, WaitersCovered
<1> QED BY <1>1, <1>2, OwnSlotKeepsOwners DEF ThrowNext, QueueNext

-----------------------------------------------------------------------------
(* The ticket spread run() tests before it hands out another ticket. *)
SpreadBounded == slotNext - slotServing <= QueueMax

(* The inductive invariant.  TurnsAccounted says where every turn is,      *)
(* SlotsExclusive who owns each slot; the exact count is needed for        *)
(* queueWaiters never to go below zero.                                    *)
QueueIInv ==
  /\ QueueTypeOK
  /\ TurnsAccounted
  /\ SlotsExclusive
  /\ WaitersCounted
  /\ SpreadBounded

LEMMA QueueInitInv == QueueInit => QueueIInv
<1> SUFFICES ASSUME QueueInit PROVE QueueIInv
  OBVIOUS
<1>1. WaitingSet = {}
  BY DEF QueueInit, WaitingSet, Waiting
<1>2. QueueTypeOK
  BY SlotQueueAssumption DEF QueueInit, QueueTypeOK, QState, Phase
<1>3. TurnsAccounted /\ SlotsExclusive /\ SpreadBounded
  BY SlotQueueAssumption
  DEF QueueInit, TurnsAccounted, SlotsExclusive, SpreadBounded, Waiting, Owner
<1>4. WaitersCounted
  BY <1>1, FS_EmptySet DEF QueueInit, WaitersCounted
<1> QED BY <1>2, <1>3, <1>4 DEF QueueIInv

(* A critical section that only drains. *)
LEMMA DrainInv ==
  ASSUME QueueIInv, NEW s \in slotServing .. slotNext, Drain(s)
  PROVE  /\ slotServing' \in Nat /\ cancelled' \in SUBSET Nat
         /\ Accounted(slotServing', slotNext, cancelled', WaitingSet, ticket)
         /\ slotNext - slotServing' <= QueueMax
<1>1. Accounted(slotServing, slotNext, cancelled, WaitingSet, ticket)
  BY TurnsAsSets DEF QueueIInv
<1>2. slotServing \in Nat /\ slotNext \in Nat /\ cancelled \in SUBSET Nat
  BY DEF QueueIInv, QueueTypeOK
<1>3. Accounted(s, slotNext, StillCancelled(s), WaitingSet, ticket)
  BY <1>1, <1>2, DrainKeepsTurns DEF Drain, DrainedTo, StillCancelled
<1>4. slotNext - s <= QueueMax
  BY <1>2, SlotQueueAssumption DEF QueueIInv, SpreadBounded
<1> QED BY <1>2, <1>3, <1>4 DEF Drain, StillCancelled

(* A critical section that drains and passes the turn of waiter r. *)
LEMMA PassInv ==
  ASSUME QueueIInv, NEW r \in WaitingSet,
         NEW s \in slotServing .. slotNext, PassTurn(s), s = ticket[r]
  PROVE  /\ slotServing' \in Nat /\ cancelled' \in SUBSET Nat
         /\ Accounted(slotServing', slotNext, cancelled', WaitingSet \ {r}, ticket)
         /\ slotNext - slotServing' <= QueueMax
<1>1. Accounted(slotServing, slotNext, cancelled, WaitingSet, ticket)
  BY TurnsAsSets DEF QueueIInv
<1>2. slotServing \in Nat /\ slotNext \in Nat /\ cancelled \in SUBSET Nat
  BY DEF QueueIInv, QueueTypeOK
<1>3. Accounted(s, slotNext, StillCancelled(s), WaitingSet, ticket)
  BY <1>1, <1>2, DrainKeepsTurns DEF PassTurn, DrainedTo, StillCancelled
<1>4. Accounted(s + 1, slotNext, StillCancelled(s), WaitingSet \ {r}, ticket)
  BY <1>2, <1>3, PassKeepsTurns
<1>5. slotNext - (s + 1) <= QueueMax
  BY <1>2, SlotQueueAssumption DEF QueueIInv, SpreadBounded
<1>6. slotServing' = s + 1 /\ cancelled' = StillCancelled(s)
  BY DEF PassTurn
<1>7. s + 1 \in Nat
  BY <1>2
<1>8. StillCancelled(s) \in SUBSET Nat
  BY <1>2 DEF StillCancelled
<1> QED BY <1>4, <1>5, <1>6, <1>7, <1>8

(* Where the turns are after a step, and how many wait. *)
TurnsInv == TurnsAccounted /\ SpreadBounded /\ WaitersCounted

LEMMA QueueOwners == QueueIInv => OwnersInv
  BY WaitersFinite DEF QueueIInv, OwnersInv, WaitersCovered, WaitersCounted

LEMMA DrainOnlyTurns ==
  ASSUME QueueIInv, NEW r \in Request, Overflow(r) \/ WaitTick(r) \/ ProbeAlive(r)
  PROVE  TurnsInv'
<1>1. PICK s \in slotServing .. slotNext : Drain(s)
  BY DEF Overflow, WaitTick, ProbeAlive
<1>2. WaitingSet' = WaitingSet /\ UNCHANGED <<slotNext, ticket, queueWaiters>>
  BY DEF Overflow, WaitTick, ProbeAlive, WaitingSet, Waiting, QueueIInv, QueueTypeOK
<1>3. TurnsAccounted' /\ SpreadBounded'
  BY <1>1, <1>2, DrainInv, TurnsAsSetsPrime DEF SpreadBounded
<1>4. WaitersCounted'
  BY <1>2 DEF QueueIInv, WaitersCounted
<1> QED BY <1>3, <1>4 DEF TurnsInv

LEMMA JoinTurns ==
  ASSUME QueueIInv, NEW r \in Request, Join(r)
  PROVE  TurnsInv'
<1>1. PICK s \in slotServing .. slotNext : Drain(s) /\ HasRoom(s)
  BY DEF Join
<1>2. r \in Request \ WaitingSet /\ WaitingSet \in SUBSET Request
  BY DEF Join, WaitingSet, Waiting
<1>3. WaitingSet' = WaitingSet \cup {r}
  BY DEF Join, WaitingSet, Waiting, QueueIInv, QueueTypeOK
<1>4. slotNext \in Nat /\ ticket \in [Request -> Nat]
  BY DEF QueueIInv, QueueTypeOK
<1>5. /\ slotServing' \in Nat /\ cancelled' \in SUBSET Nat
      /\ Accounted(slotServing', slotNext, cancelled', WaitingSet, ticket)
  BY <1>1, DrainInv
<1>6. Accounted(slotServing', slotNext + 1, cancelled', WaitingSet \cup {r},
                [ticket EXCEPT ![r] = slotNext])
  BY <1>2, <1>4, <1>5, JoinKeepsTurns
<1>7. TurnsAccounted'
  BY <1>3, <1>6, TurnsAsSetsPrime DEF Join
<1>8. SpreadBounded'
  <2>1. slotServing' = s /\ s \in Nat /\ slotNext - s < QueueMax
    BY <1>1, <1>5 DEF HasRoom, Drain
  <2> QED BY <2>1, <1>4, SlotQueueAssumption DEF Join, SpreadBounded
<1>9. WaitersCounted'
  BY <1>2, <1>3, WaitersMove DEF Join, QueueIInv, WaitersCounted
<1> QED BY <1>7, <1>8, <1>9 DEF TurnsInv

LEMMA WalkInTurns ==
  ASSUME QueueIInv, NEW r \in Request, WalkIn(r)
  PROVE  TurnsInv'
<1>1. PICK s \in slotServing .. slotNext : PassTurn(s) /\ s = slotNext
  BY DEF WalkIn, MayAdmit
<1>2. WaitingSet' = WaitingSet
  BY DEF WalkIn, WaitingSet, Waiting, QueueIInv, QueueTypeOK
<1>3. slotServing \in Nat /\ slotNext \in Nat /\ cancelled \in SUBSET Nat
  BY DEF QueueIInv, QueueTypeOK
<1>4. Accounted(slotNext, slotNext, StillCancelled(slotNext), WaitingSet, ticket)
  <2>1. Accounted(slotServing, slotNext, cancelled, WaitingSet, ticket)
    BY TurnsAsSets DEF QueueIInv
  <2> QED BY <1>1, <1>3, <2>1, DrainKeepsTurns DEF PassTurn, DrainedTo, StillCancelled
<1>5. /\ WaitingSet = {}
      /\ Accounted(slotNext + 1, slotNext + 1, StillCancelled(slotNext), WaitingSet, ticket')
  BY <1>3, <1>4, WalkInKeepsTurns
<1>6. /\ slotServing' = slotNext + 1 /\ slotNext' = slotNext + 1
      /\ cancelled' = StillCancelled(slotNext)
  BY <1>1 DEF WalkIn, PassTurn
<1>7. TurnsAccounted' /\ SpreadBounded'
  BY <1>2, <1>3, <1>5, <1>6, TurnsAsSetsPrime, SlotQueueAssumption DEF SpreadBounded
<1>8. WaitersCounted'
  BY <1>2 DEF WalkIn, QueueIInv, WaitersCounted
<1> QED BY <1>7, <1>8 DEF TurnsInv

LEMMA AdmitTurns ==
  ASSUME QueueIInv, NEW r \in Request, Admit(r)
  PROVE  TurnsInv'
<1>1. PICK s \in slotServing .. slotNext : PassTurn(s) /\ s = ticket[r]
  BY DEF Admit, MayAdmit
<1>2. r \in WaitingSet
  BY DEF Admit, WaitingSet, Waiting
<1>3. WaitingSet' = WaitingSet \ {r}
  BY DEF Admit, WaitingSet, Waiting, QueueIInv, QueueTypeOK
<1>4. TurnsAccounted' /\ SpreadBounded'
  BY <1>1, <1>2, <1>3, PassInv, TurnsAsSetsPrime DEF Admit, SpreadBounded
<1>5. WaitersCounted'
  BY <1>2, <1>3, WaitersMove DEF Admit, QueueIInv, WaitersCounted
<1> QED BY <1>4, <1>5 DEF TurnsInv

LEMMA CancelTurns ==
  ASSUME QueueIInv, NEW r \in Request, Cancel(r)
  PROVE  TurnsInv'
<1>1. r \in WaitingSet
  BY DEF Cancel, WaitingSet, Waiting
<1>2. WaitingSet' = WaitingSet \ {r}
  BY DEF Cancel, WaitingSet, Waiting, QueueIInv, QueueTypeOK
<1>3. PICK s \in slotServing .. slotNext :
        \/ s = ticket[r] /\ PassTurn(s)
        \/ s # ticket[r] /\ RegisterCancelled(r, s)
  BY DEF Cancel
<1>4. TurnsAccounted' /\ SpreadBounded'
  <2>1. CASE s = ticket[r] /\ PassTurn(s)
    BY <1>1, <1>2, <2>1, PassInv, TurnsAsSetsPrime DEF Cancel, SpreadBounded
  <2>2. CASE RegisterCancelled(r, s)
    <3>1. /\ slotServing \in Nat /\ slotNext \in Nat /\ cancelled \in SUBSET Nat
          /\ ticket \in [Request -> Nat]
      BY DEF QueueIInv, QueueTypeOK
    <3>2. Accounted(s, slotNext, StillCancelled(s), WaitingSet, ticket)
      <4>1. Accounted(slotServing, slotNext, cancelled, WaitingSet, ticket)
        BY TurnsAsSets DEF QueueIInv
      <4> QED BY <2>2, <3>1, <4>1, DrainKeepsTurns
              DEF RegisterCancelled, DrainedTo, StillCancelled
    <3>3. Accounted(s, slotNext, StillCancelled(s) \cup {ticket[r]}, WaitingSet \ {r}, ticket)
      BY <1>1, <3>1, <3>2, CancelKeepsTurns
    <3>4. slotServing' = s /\ cancelled' = StillCancelled(s) \cup {ticket[r]}
      BY <2>2 DEF RegisterCancelled
    <3>5. s \in Nat /\ slotNext - s <= QueueMax
      BY <3>1, SlotQueueAssumption DEF QueueIInv, SpreadBounded
    <3> QED BY <1>2, <3>3, <3>4, <3>5, TurnsAsSetsPrime DEF Cancel, SpreadBounded
  <2> QED BY <1>3, <2>1, <2>2
<1>5. WaitersCounted'
  BY <1>1, <1>2, WaitersMove DEF Cancel, QueueIInv, WaitersCounted
<1> QED BY <1>4, <1>5 DEF TurnsInv

LEMMA TurnsUntouched ==
  ASSUME QueueIInv, WaitingSet' = WaitingSet,
         UNCHANGED <<slotNext, slotServing, cancelled, ticket, queueWaiters>>
  PROVE  TurnsInv'
  BY TurnsAsSets, TurnsAsSetsPrime DEF QueueIInv, TurnsInv, SpreadBounded, WaitersCounted

LEMMA QueueStepInv ==
  QueueIInv /\ [QueueNext]_queueVars => QueueIInv'
<1> SUFFICES ASSUME QueueIInv, [QueueNext]_queueVars PROVE QueueIInv'
  OBVIOUS
<1>1. OwnersInv'
  BY QueueOwners, OwnersStep DEF ThrowNext
<1>2. ASSUME NEW r \in Request, Acquire(r) PROVE TurnsInv'
  BY <1>2, DrainOnlyTurns, JoinTurns, WalkInTurns, AdmitTurns, CancelTurns DEF Acquire
<1>3. ASSUME NEW r \in Request, OwnSlot(r) \/ Disconnect(r) PROVE TurnsInv'
  <2>1. /\ WaitingSet' = WaitingSet
        /\ UNCHANGED <<slotNext, slotServing, cancelled, ticket, queueWaiters>>
    BY <1>3 DEF OwnSlot, ReleaseSlot, SetGenerating, Disconnect, WaitingSet, Waiting,
                QueueIInv, QueueTypeOK
  <2> QED BY <2>1, TurnsUntouched
<1>4. ASSUME UNCHANGED queueVars PROVE TurnsInv'
  <2>1. /\ WaitingSet' = WaitingSet
        /\ UNCHANGED <<slotNext, slotServing, cancelled, ticket, queueWaiters>>
    BY <1>4 DEF queueVars, WaitingSet, Waiting
  <2> QED BY <2>1, TurnsUntouched
<1>5. TurnsInv'
  BY <1>2, <1>3, <1>4 DEF QueueNext
<1> QED BY <1>1, <1>5 DEF QueueIInv, OwnersInv, TurnsInv

LEMMA QueueAlwaysInv ==
  QueueSpec => []QueueIInv
  BY QueueInitInv, QueueStepInv, PTL DEF QueueSpec

-----------------------------------------------------------------------------
(* Type correctness of the admission state. *)
THEOREM QueueTypeCorrect ==
  QueueSpec => []QueueTypeOK
<1>1. QueueIInv => QueueTypeOK
  BY DEF QueueIInv
<1> QED BY <1>1, QueueAlwaysInv, PTL

(* Every outstanding slot ticket belongs to one live waiter or is a        *)
(* registered cancellation: run()'s FIFO cannot wedge on a lost turn.      *)
THEOREM QueueTurnsAccounted ==
  QueueSpec => []TurnsAccounted
<1>1. QueueIInv => TurnsAccounted
  BY DEF QueueIInv
<1> QED BY <1>1, QueueAlwaysInv, PTL

(* As long as no probe throws (QueueSpec), no live waiter is passed over. *)
THEOREM QueueSkipsNobody ==
  QueueSpec => []NoWaiterSkipped
<1>1. QueueIInv => NoWaiterSkipped
  BY DEF QueueIInv, QueueTypeOK, TurnsAccounted, NoWaiterSkipped
<1> QED BY <1>1, QueueAlwaysInv, PTL

(* A busy slot has exactly one owner: two requests never drive an engine.  *)
THEOREM QueueSlotsExclusive ==
  QueueSpec => []SlotsExclusive
<1>1. QueueIInv => SlotsExclusive
  BY DEF QueueIInv
<1> QED BY <1>1, QueueAlwaysInv, PTL

(* The same when probes may throw: a throw can cost a waiter its turn, but *)
(* it never puts two requests on one slot and never leaks a slot.          *)
THEOREM ThrownProbeKeepsSlots ==
  ThrowSpec => []SlotsExclusive
<1>1. OwnersInv => SlotsExclusive
  BY DEF OwnersInv
<1> QED BY <1>1, OwnersInit, OwnersStep, PTL DEF ThrowSpec

(* queue_waiters is exactly the number of live waiters. *)
THEOREM QueueWaitersCounted ==
  QueueSpec => []WaitersCounted
<1>1. QueueIInv => WaitersCounted
  BY DEF QueueIInv
<1> QED BY <1>1, QueueAlwaysInv, PTL

(* At most QUEUE_MAX requests wait: tickets map the waiters one to one     *)
(* into the spread that run() tests.                                       *)
THEOREM QueueIsBounded ==
  QueueSpec => []QueueBounded
<1>1. QueueIInv => QueueBounded
  <2> SUFFICES ASSUME QueueIInv PROVE QueueBounded
    OBVIOUS
  <2> DEFINE I == slotServing .. slotNext - 1
             f == [r \in WaitingSet |-> ticket[r]]
  <2>1. slotServing \in Nat /\ slotNext \in Nat /\ slotServing <= slotNext
    BY DEF QueueIInv, QueueTypeOK, TurnsAccounted
  <2>2. IsFiniteSet(I) /\ Cardinality(I) = slotNext - slotServing
    <3>1. slotServing \in Int /\ slotNext - 1 \in Int
      BY <2>1
    <3>2. /\ IsFiniteSet(I)
          /\ Cardinality(I) = IF slotServing > slotNext - 1 THEN 0
                              ELSE slotNext - 1 - slotServing + 1
      BY <3>1, FS_Interval
    <3> QED BY <2>1, <3>2
  <2>3. f \in Injection(WaitingSet, I)
    <3>1. \A r \in WaitingSet : ticket[r] \in I
      BY DEF WaitingSet, QueueIInv, TurnsAccounted
    <3>2. \A r, q \in WaitingSet : ticket[r] = ticket[q] => r = q
      BY DEF WaitingSet, QueueIInv, TurnsAccounted
    <3> QED BY <3>1, <3>2 DEF Injection, IsInjective
  <2>4. Cardinality(WaitingSet) <= Cardinality(I)
    BY <2>2, <2>3, FS_Injection
  <2> QED BY <2>1, <2>2, <2>4, WaitersFinite, SlotQueueAssumption
          DEF QueueBounded, QueueIInv, SpreadBounded
<1> QED BY <1>1, QueueAlwaysInv, PTL

(* Slots go out in arrival order: a step that admits r leaves no live      *)
(* waiter with a smaller ticket behind.                                    *)
THEOREM QueueAdmitsInOrder ==
  QueueSpec => AdmittedInOrder
<1> DEFINE A == \A r, q \in Request :
                  /\ qstate[r] # "in" /\ qstate'[r] = "in"
                  /\ Waiting(q) /\ q # r
                  => ticket'[r] < ticket[q]
<1>1. QueueIInv /\ [QueueNext]_queueVars => [A]_queueVars
  <2> SUFFICES ASSUME QueueIInv, QueueNext,
                      NEW r \in Request, NEW q \in Request,
                      qstate[r] # "in", qstate'[r] = "in", Waiting(q), q # r
               PROVE  ticket'[r] < ticket[q]
    OBVIOUS
  <2>1. slotServing \in Nat /\ slotNext \in Nat /\ ticket \in [Request -> Nat]
        /\ qstate \in [Request -> QState]
    BY DEF QueueIInv, QueueTypeOK
  <2>2. WalkIn(r) \/ Admit(r)
    BY <2>1 DEF QueueNext, Acquire, OwnSlot, Disconnect, Overflow, Join, WalkIn, Admit,
                WaitTick, ProbeAlive, Cancel, ReleaseSlot, SetGenerating
  <2>3. ticket[q] \in slotServing .. slotNext - 1 /\ ticket[q] \notin cancelled
    BY DEF QueueIInv, TurnsAccounted
  <2>4. CASE WalkIn(r)
    <3>1. DrainedTo(slotNext)
      BY <2>4 DEF WalkIn, PassTurn, MayAdmit
    <3> QED BY <2>1, <2>3, <3>1 DEF DrainedTo
  <2>5. CASE Admit(r)
    <3>1. DrainedTo(ticket[r]) /\ ticket' = ticket
      BY <2>5 DEF Admit, PassTurn, MayAdmit
    <3>2. ticket[q] # ticket[r]
      BY <2>5 DEF Admit, Waiting, QueueIInv, TurnsAccounted
    <3> QED BY <2>1, <2>3, <3>1, <3>2 DEF DrainedTo
  <2> QED BY <2>2, <2>4, <2>5
<1> QED BY <1>1, QueueAlwaysInv, PTL DEF QueueSpec, AdmittedInOrder

-----------------------------------------------------------------------------
(* First-come first-served admission.  The refinement mapping over         *)
(* explicit arguments: the order in which waiters W drew tickets tk, and   *)
(* who among the admitted I holds which slot.                              *)
AheadOf(W, tk) == {p \in W \X W : tk[p[1]] < tk[p[2]]}
BeforeOf(W, r) == {<<q, r>> : q \in W}
HeldBy(I, sl) == {<<r, sl[r]>> : r \in I}

LEMMA AheadUnchanged ==
  ASSUME NEW W, NEW tk, NEW tk2, \A r \in W : tk2[r] = tk[r]
  PROVE  AheadOf(W, tk2) = AheadOf(W, tk)
  BY DEF AheadOf

(* A newcomer's ticket is above everyone's: all of W is ahead of it. *)
LEMMA AheadMore ==
  ASSUME NEW W, NEW tk, NEW tk2, NEW r, r \notin W, NEW n \in Nat,
         tk2[r] = n, \A q \in W : tk2[q] = tk[q] /\ tk[q] \in Nat /\ tk[q] < n
  PROVE  AheadOf(W \cup {r}, tk2) = AheadOf(W, tk) \cup BeforeOf(W, r)
<1>1. ASSUME NEW p \in AheadOf(W \cup {r}, tk2)
      PROVE  p \in AheadOf(W, tk) \cup BeforeOf(W, r)
  <2>1. PICK a \in W \cup {r}, b \in W \cup {r} : p = <<a, b>> /\ tk2[a] < tk2[b]
    BY <1>1 DEF AheadOf, BeforeOf
  <2>2. a \in W
    BY <2>1
  <2> QED BY <2>1, <2>2 DEF AheadOf, BeforeOf
<1>2. ASSUME NEW p \in AheadOf(W, tk) \cup BeforeOf(W, r)
      PROVE  p \in AheadOf(W \cup {r}, tk2)
  BY <1>2 DEF AheadOf, BeforeOf
<1> QED BY <1>1, <1>2

LEMMA HeldMore ==
  ASSUME NEW I, NEW sl, NEW sl2, NEW r, r \notin I, \A q \in I : sl2[q] = sl[q]
  PROVE  HeldBy(I \cup {r}, sl2) = HeldBy(I, sl) \cup {<<r, sl2[r]>>}
  BY DEF HeldBy

LEMMA HeldLess ==
  ASSUME NEW I, NEW sl, NEW r \in I
  PROVE  HeldBy(I \ {r}, sl) = HeldBy(I, sl) \ {<<r, sl[r]>>}
  BY DEF HeldBy

LEMMA HeldSides ==
  ASSUME NEW I, NEW sl
  PROVE  /\ {p[1] : p \in HeldBy(I, sl)} = I
         /\ {p[2] : p \in HeldBy(I, sl)} = {sl[r] : r \in I}
<1>1. \A p \in HeldBy(I, sl) : \E r \in I : p = <<r, sl[r]>>
  BY DEF HeldBy
<1>2. \A r \in I : <<r, sl[r]>> \in HeldBy(I, sl)
  BY DEF HeldBy
<1>3. \A p \in HeldBy(I, sl) : p[1] \in I /\ p[2] \in {sl[r] : r \in I}
  BY <1>1
<1>4. \A r \in I : r = (<<r, sl[r]>>)[1] /\ sl[r] = (<<r, sl[r]>>)[2]
  OBVIOUS
<1>5. \A r \in I : r \in {p[1] : p \in HeldBy(I, sl)}
  BY <1>2, <1>4
<1>6. \A r \in I : sl[r] \in {p[2] : p \in HeldBy(I, sl)}
  BY <1>2, <1>4
<1> QED BY <1>3, <1>5, <1>6

LEMMA MappedSets ==
  /\ Ahead = AheadOf(WaitingSet, ticket) /\ Holding = HeldBy(Admitted, slot)
  /\ Ahead' = AheadOf(WaitingSet', ticket') /\ Holding' = HeldBy(Admitted', slot')
  BY DEF Ahead, Holding, AheadOf, HeldBy

LEMMA FifoHolders == Fifo!Holders = Admitted
  BY MappedSets, HeldSides DEF Fifo!Holders

LEMMA FifoHeld == \A i : i \in Fifo!Held <=> \E r \in Admitted : slot[r] = i
<1>1. \A p \in Holding : \E r \in Admitted : p = <<r, slot[r]>>
  BY DEF Holding
<1>2. \A r \in Admitted : <<r, slot[r]>> \in Holding /\ (<<r, slot[r]>>)[2] = slot[r]
  BY DEF Holding
<1>3. ASSUME NEW i \in Fifo!Held
      PROVE  \E r \in Admitted : slot[r] = i
  <2>1. PICK p \in Holding : i = p[2]
    BY <1>3 DEF Fifo!Held
  <2> QED BY <1>1, <2>1
<1>4. ASSUME NEW r \in Admitted
      PROVE  slot[r] \in Fifo!Held
  BY <1>2 DEF Fifo!Held
<1> QED BY <1>3, <1>4

LEMMA FifoEnters ==
  ASSUME QueueIInv, NEW r \in Request, Join(r)
  PROVE  Fifo!Enter(r)
<1>1. r \notin WaitingSet \cup Admitted \cup Gone
  BY DEF Join, WaitingSet, Waiting, Admitted, Gone
<1>2. WaitingSet' = WaitingSet \cup {r} /\ Admitted' = Admitted /\ Gone' = Gone
  BY DEF Join, WaitingSet, Waiting, Admitted, Gone, QueueIInv, QueueTypeOK
<1>3. Ahead' = Ahead \cup {<<q, r>> : q \in WaitingSet}
  <2>1. /\ slotNext \in Nat /\ ticket'[r] = slotNext
        /\ \A q \in WaitingSet : ticket'[q] = ticket[q] /\ ticket[q] \in Nat /\ ticket[q] < slotNext
    BY <1>1 DEF Join, QueueIInv, QueueTypeOK, TurnsAccounted, WaitingSet
  <2>2. r \notin WaitingSet
    BY <1>1
  <2>3. AheadOf(WaitingSet \cup {r}, ticket')
          = AheadOf(WaitingSet, ticket) \cup BeforeOf(WaitingSet, r)
    BY <2>1, <2>2, AheadMore
  <2> QED BY <1>2, <2>3, MappedSets DEF BeforeOf
<1>4. Holding' = Holding
  BY <1>2, MappedSets DEF Join
<1> QED BY <1>1, <1>2, <1>3, <1>4, FifoHolders DEF Fifo!Enter

(* What a step on r leaves of the mapped state when r's place in the       *)
(* queue, its admission and its slot stay as they are.                     *)
LEMMA FifoStutters ==
  ASSUME QueueIInv, UNCHANGED <<ticket, slot>>,
         WaitingSet' = WaitingSet, Admitted' = Admitted, Gone' = Gone
  PROVE  UNCHANGED Fifo!vars
<1>1. Ahead' = Ahead /\ Holding' = Holding
  BY MappedSets
<1> QED BY <1>1 DEF Fifo!vars

LEMMA FifoRefuses ==
  ASSUME QueueIInv, NEW r \in Request, Overflow(r)
  PROVE  Fifo!Refuse(r)
<1>1. r \notin WaitingSet \cup Admitted \cup Gone
  BY DEF Overflow, WaitingSet, Waiting, Admitted, Gone
<1>2. WaitingSet' = WaitingSet /\ Admitted' = Admitted /\ Gone' = Gone \cup {r}
  BY DEF Overflow, WaitingSet, Waiting, Admitted, Gone, QueueIInv, QueueTypeOK
<1>3. Ahead' = Ahead /\ Holding' = Holding
  BY <1>2, MappedSets DEF Overflow
<1> QED BY <1>1, <1>2, <1>3, FifoHolders DEF Fifo!Refuse

LEMMA FifoWithout ==
  ASSUME NEW r, WaitingSet' = WaitingSet \ {r}, ticket' = ticket
  PROVE  Ahead' = Fifo!Without(r)
  BY DEF Ahead, Fifo!Without

LEMMA FifoGivesUp ==
  ASSUME QueueIInv, NEW r \in Request, Cancel(r)
  PROVE  Fifo!GiveUp(r)
<1>1. r \in WaitingSet
  BY DEF Cancel, WaitingSet, Waiting
<1>2. WaitingSet' = WaitingSet \ {r} /\ Admitted' = Admitted /\ Gone' = Gone \cup {r}
  BY DEF Cancel, WaitingSet, Waiting, Admitted, Gone, QueueIInv, QueueTypeOK
<1>3. Ahead' = Fifo!Without(r) /\ Holding' = Holding
  BY <1>2, FifoWithout, MappedSets DEF Cancel
<1> QED BY <1>1, <1>2, <1>3 DEF Fifo!GiveUp

(* The slot that is handed over was idle, and an idle slot has no owner. *)
LEMMA FifoHandsOver ==
  ASSUME QueueIInv, NEW r \in Request, r \notin Admitted, TakeSlot(r),
         Admitted' = Admitted \cup {r}
  PROVE  \E i \in Slot : i \notin Fifo!Held /\ Holding' = Holding \cup {<<r, i>>}
<1>1. PICK i \in Slot : i \in IdleSlots /\ slot' = [slot EXCEPT ![r] = i]
  BY DEF TakeSlot, FirstIdle
<1>2. \A q \in Admitted : slot[q] # i
  BY <1>1 DEF IdleSlots, Admitted, QueueIInv, SlotsExclusive
<1>3. slot \in [Request -> Slot \cup {0}]
  BY DEF QueueIInv, QueueTypeOK
<1>4. slot'[r] = i /\ \A q \in Admitted : slot'[q] = slot[q]
  BY <1>1, <1>3 DEF Admitted
<1>5. HeldBy(Admitted \cup {r}, slot') = HeldBy(Admitted, slot) \cup {<<r, slot'[r]>>}
  BY <1>4, HeldMore
<1>6. Holding' = Holding \cup {<<r, i>>}
  BY <1>4, <1>5, MappedSets
<1> QED BY <1>2, <1>6, FifoHeld

LEMMA FifoTakesSlot ==
  ASSUME QueueIInv, NEW r \in Request, Admit(r)
  PROVE  \E i \in Slot : Fifo!TakeSlot(r, i)
<1>1. r \in WaitingSet /\ r \notin Admitted
  BY DEF Admit, WaitingSet, Waiting, Admitted
<1>2. /\ WaitingSet' = WaitingSet \ {r} /\ Admitted' = Admitted \cup {r} /\ Gone' = Gone
      /\ ticket' = ticket
  BY DEF Admit, WaitingSet, Waiting, Admitted, Gone, QueueIInv, QueueTypeOK
<1>3. ASSUME NEW q \in WaitingSet
      PROVE  <<q, r>> \notin Ahead
  <2>1. DrainedTo(ticket[r])
    BY DEF Admit, PassTurn, MayAdmit
  <2>2. /\ ticket[q] \in slotServing .. slotNext - 1 /\ ticket[q] \notin cancelled
        /\ slotServing \in Nat /\ slotNext \in Nat /\ ticket[r] \in Nat
    BY DEF WaitingSet, QueueIInv, QueueTypeOK, TurnsAccounted
  <2>3. ~(ticket[q] < ticket[r])
    BY <2>1, <2>2 DEF DrainedTo
  <2> QED BY <2>3 DEF Ahead
<1>4. PICK i \in Slot : i \notin Fifo!Held /\ Holding' = Holding \cup {<<r, i>>}
  BY <1>1, <1>2, FifoHandsOver DEF Admit
<1>5. Ahead' = Fifo!Without(r)
  BY <1>2, FifoWithout
<1> QED BY <1>1, <1>2, <1>3, <1>4, <1>5 DEF Fifo!TakeSlot

LEMMA FifoWalksIn ==
  ASSUME QueueIInv, NEW r \in Request, WalkIn(r)
  PROVE  \E i \in Slot : Fifo!WalkIn(r, i)
<1>1. r \notin WaitingSet \cup Admitted \cup Gone
  BY DEF WalkIn, WaitingSet, Waiting, Admitted, Gone
<1>2. WaitingSet' = WaitingSet /\ Admitted' = Admitted \cup {r} /\ Gone' = Gone
  BY DEF WalkIn, WaitingSet, Waiting, Admitted, Gone, QueueIInv, QueueTypeOK
<1>3. WaitingSet = {}
  <2>1. DrainedTo(slotNext)
    BY DEF WalkIn, PassTurn, MayAdmit
  <2>2. slotServing \in Nat /\ slotNext \in Nat
    BY DEF QueueIInv, QueueTypeOK
  <2>3. \A q \in WaitingSet :
          ticket[q] \in slotServing .. slotNext - 1 /\ ticket[q] \notin cancelled
    BY DEF WaitingSet, QueueIInv, TurnsAccounted
  <2> QED BY <2>1, <2>2, <2>3 DEF DrainedTo
<1>4. PICK i \in Slot : i \notin Fifo!Held /\ Holding' = Holding \cup {<<r, i>>}
  BY <1>1, <1>2, FifoHandsOver DEF WalkIn
<1>5. Ahead' = Ahead
  BY <1>2, <1>3, AheadUnchanged, MappedSets
<1> QED BY <1>1, <1>2, <1>3, <1>4, <1>5, FifoHolders DEF Fifo!WalkIn

LEMMA FifoReturns ==
  ASSUME QueueIInv, NEW r \in Request, ReleaseSlot(r)
  PROVE  \E i \in Slot : Fifo!Return(r, i)
<1>1. r \in Admitted /\ slot[r] \in Slot /\ ticket' = ticket /\ slot' = slot
  BY DEF ReleaseSlot, Admitted, QueueIInv, SlotsExclusive
<1>2. WaitingSet' = WaitingSet /\ Admitted' = Admitted \ {r} /\ Gone' = Gone \cup {r}
  BY DEF ReleaseSlot, WaitingSet, Waiting, Admitted, Gone, QueueIInv, QueueTypeOK
<1>3. Ahead' = Ahead
  BY <1>1, <1>2, MappedSets
<1>4. Holding' = Holding \ {<<r, slot[r]>>}
  <2>1. HeldBy(Admitted \ {r}, slot) = HeldBy(Admitted, slot) \ {<<r, slot[r]>>}
    BY <1>1, HeldLess
  <2> QED BY <1>1, <1>2, <2>1, MappedSets
<1>5. <<r, slot[r]>> \in Holding
  BY <1>1 DEF Holding
<1> QED BY <1>1, <1>2, <1>3, <1>4, <1>5 DEF Fifo!Return

(* A tick, a probe that finds the client, a phase change and a             *)
(* disconnection are no steps of the queue a client sees.                  *)
LEMMA FifoQuiet ==
  ASSUME QueueIInv, NEW r \in Request,
         \/ WaitTick(r) \/ ProbeAlive(r) \/ Disconnect(r)
         \/ \E p \in {"Decode", "Verify"} : SetGenerating(r, p)
  PROVE  UNCHANGED Fifo!vars
<1>1. /\ UNCHANGED <<ticket, slot>>
      /\ WaitingSet' = WaitingSet /\ Admitted' = Admitted /\ Gone' = Gone
  BY DEF WaitTick, ProbeAlive, Disconnect, SetGenerating, WaitingSet, Waiting,
         Admitted, Gone, QueueIInv, QueueTypeOK
<1> QED BY <1>1, FifoStutters

(* run()'s tickets, drains and probes implement first-come first-served    *)
(* admission: whatever the interleaving, the queue a client sees is        *)
(* FifoAdmission's.                                                        *)
THEOREM QueueImplementsFifo ==
  QueueSpec => ImplementsFifoAdmission
<1>1. QueueInit => Fifo!Init
  BY DEF QueueInit, Fifo!Init, WaitingSet, Waiting, Ahead, Admitted, Holding, Gone
<1>2. QueueIInv /\ [QueueNext]_queueVars => [Fifo!Next]_(Fifo!vars)
  <2> SUFFICES ASSUME QueueIInv, [QueueNext]_queueVars
               PROVE  Fifo!Next \/ UNCHANGED Fifo!vars
    OBVIOUS
  <2>1. ASSUME NEW r \in Request, Acquire(r)
        PROVE  Fifo!Next \/ UNCHANGED Fifo!vars
    BY <2>1, FifoRefuses, FifoEnters, FifoWalksIn, FifoTakesSlot, FifoGivesUp, FifoQuiet
    DEF Acquire, Fifo!Next
  <2>2. ASSUME NEW r \in Request, OwnSlot(r) \/ Disconnect(r)
        PROVE  Fifo!Next \/ UNCHANGED Fifo!vars
    BY <2>2, FifoReturns, FifoQuiet DEF OwnSlot, Fifo!Next
  <2>3. CASE UNCHANGED queueVars
    <3>1. WaitingSet' = WaitingSet /\ Admitted' = Admitted /\ Gone' = Gone
      BY <2>3 DEF queueVars, WaitingSet, Waiting, Admitted, Gone
    <3> QED BY <2>3, <3>1, FifoStutters DEF queueVars
  <2> QED BY <2>1, <2>2, <2>3 DEF QueueNext
<1> QED BY <1>1, <1>2, QueueAlwaysInv, PTL DEF QueueSpec, ImplementsFifoAdmission, Fifo!Spec

-----------------------------------------------------------------------------
(***************************************************************************)
(* The composed server                                                     *)
(***************************************************************************)

Lease == INSTANCE TicketLock WITH Thread <- Request

(* Where run() owns a slot: from admission to ~SlotRelease. *)
RunLoc == LeaseLoc \cup {"probe", "phase", "deliver", "release"}

(* Where a thread may be while the operator knows the server is quiet. *)
QuietLoc == {"idle", "counted", "rejected", "done"}

LeaseInv == LockTypeOK /\ TicketsAccounted

(* The control state, and how it goes with the slot, the lease and the     *)
(* width: a slot is owned exactly inside run(), a lease is asked for only  *)
(* at a quantum, and a width is pending only for the chunk it was read for.*)
PlacedInv ==
  /\ loc \in [Request -> Loc]
  /\ width \in [Request -> Widths \cup {0}]
  /\ quanta \in [Request -> Nat]
  /\ \A r \in Request : qstate[r] = "in" <=> loc[r] \in RunLoc
  /\ \A r \in Request : lstate[r] # "out" => loc[r] \in LeaseLoc
  /\ \A r \in Request : width[r] # 0 => loc[r] = "chunk"

(* active_requests counts every open scope: one for each request between   *)
(* its RequestScope's two ends, one more while a stream has both scopes.   *)
Inside == {r \in Request : loc[r] \notin {"idle", "done"}}
Streaming == {r \in Request : loc[r] = "provider"}
ActiveCounted == active = Cardinality(Inside) + Cardinality(Streaming)

(* The inductive form of DrainedMeansQuiet. *)
DrainHeld == drained => draining /\ \A r \in Request : loc[r] \in QuietLoc

DrainingInv ==
  /\ draining \in BOOLEAN /\ drained \in BOOLEAN /\ drains \in Nat
  /\ DrainHeld

ServerInv ==
  /\ OwnersInv
  /\ LeaseInv
  /\ PlacedInv
  /\ OneFullWidthChunk
  /\ ActiveCounted
  /\ DrainingInv

-----------------------------------------------------------------------------
(* The lease: what TicketLock shows, for the server's requests. *)
LEMMA LeaseInit == LockInit => LeaseInv
  BY Lease!LockInitInv
  DEF LeaseInv, LockInit, LockTypeOK, TicketsAccounted, Contender,
      Lease!LockInv, Lease!LockInit, Lease!LockTypeOK, Lease!TicketsAccounted, Lease!Contender

LEMMA LeaseStep == LeaseInv /\ [LockNext]_lockVars => LeaseInv'
  BY Lease!LockStepInv
  DEF LeaseInv, LockNext, lockVars, TakeTicket, Enter, Exit,
      LockTypeOK, TicketsAccounted, Contender,
      Lease!LockNext, Lease!lockVars, Lease!TakeTicket, Lease!Enter, Lease!Exit,
      Lease!LockInv, Lease!LockTypeOK, Lease!TicketsAccounted, Lease!Contender

(* Every step of the server is a step of admission, or leaves it alone. *)
LEMMA ServerStepsQueue == [Next]_vars => [ThrowNext]_queueVars
<1> SUFFICES ASSUME [Next]_vars PROVE ThrowNext \/ UNCHANGED queueVars
  OBVIOUS
<1>1. ASSUME NEW r \in Request, Queue(r)
      PROVE  ThrowNext
  BY <1>1 DEF Queue, ThrowNext, QueueNext
<1>2. ASSUME NEW r \in Request, StartGenerating(r) \/ Release(r) \/ ClientGoes(r)
      PROVE  ThrowNext
  BY <1>2 DEF StartGenerating, Release, ClientGoes, ThrowNext, QueueNext, OwnSlot
<1>3. ASSUME NEW r \in Request,
             \/ Count(r) \/ LookAtDraining(r) \/ Uncount(r) \/ BadRequest(r) \/ PlainRun(r)
             \/ OpenStream(r) \/ StreamRun(r) \/ Leave(r) \/ DrawLease(r) \/ EnterLease(r)
             \/ Quantum(r) \/ ChunkCancel(r) \/ ChunkWidth(r) \/ TooLong(r) \/ Deliver(r)
      PROVE  UNCHANGED queueVars
  BY <1>3 DEF Count, LookAtDraining, Uncount, BadRequest, PlainRun, OpenStream, StreamRun,
              Leave, DrawLease, EnterLease, Quantum, ChunkCancel, ChunkWidth, TooLong, Deliver
<1>4. ASSUME Operator PROVE UNCHANGED queueVars
  BY <1>4 DEF Operator, StartDrain, SeeDrained, Resume
<1>5. ASSUME UNCHANGED vars PROVE UNCHANGED queueVars
  BY <1>5 DEF vars
<1> QED BY <1>1, <1>2, <1>3, <1>4, <1>5 DEF Next, Step

(* Every step of the server is a step of the lease, or leaves it alone. *)
LEMMA ServerStepsLease == [Next]_vars => [LockNext]_lockVars
<1> SUFFICES ASSUME [Next]_vars PROVE LockNext \/ UNCHANGED leaseVars
  BY DEF lockVars, leaseVars
<1>1. ASSUME NEW r \in Request, DrawLease(r) \/ EnterLease(r) \/ Quantum(r)
      PROVE  LockNext
  BY <1>1 DEF DrawLease, EnterLease, Quantum, LockNext
<1>2. ASSUME NEW r \in Request,
             \/ Count(r) \/ LookAtDraining(r) \/ Uncount(r) \/ BadRequest(r) \/ PlainRun(r)
             \/ OpenStream(r) \/ StreamRun(r) \/ Leave(r) \/ Queue(r)
             \/ ChunkCancel(r) \/ ChunkWidth(r) \/ TooLong(r) \/ StartGenerating(r)
             \/ Deliver(r) \/ Release(r) \/ ClientGoes(r)
      PROVE  UNCHANGED leaseVars
  BY <1>2 DEF Count, LookAtDraining, Uncount, BadRequest, PlainRun, OpenStream, StreamRun,
              Leave, Queue, ChunkCancel, ChunkWidth, TooLong, StartGenerating, Deliver,
              Release, ClientGoes
<1>3. ASSUME Operator PROVE UNCHANGED leaseVars
  BY <1>3 DEF Operator, StartDrain, SeeDrained, Resume
<1>4. ASSUME UNCHANGED vars PROVE UNCHANGED leaseVars
  BY <1>4 DEF vars
<1> QED BY <1>1, <1>2, <1>3, <1>4 DEF Next, Step

-----------------------------------------------------------------------------
(* Where the threads are. *)

(* A thread moves without touching its slot, its lease or its width. *)
LEMMA MovePlaced ==
  ASSUME PlacedInv, NEW r \in Request, NEW to \in Loc,
         loc' = [loc EXCEPT ![r] = to], UNCHANGED <<qstate, lstate, width, quanta>>,
         loc[r] \in RunLoc <=> to \in RunLoc,
         lstate[r] = "out" \/ to \in LeaseLoc, width[r] = 0
  PROVE  PlacedInv'
  BY DEF PlacedInv

(* Scopes: not in run() before, not in run() after. *)
LEMMA ScopesPlaced ==
  ASSUME PlacedInv, NEW r \in Request,
         \/ Count(r) \/ LookAtDraining(r) \/ Uncount(r) \/ BadRequest(r) \/ PlainRun(r)
         \/ OpenStream(r) \/ StreamRun(r) \/ Leave(r)
  PROVE  PlacedInv'
<1>1. PICK to \in Loc : loc' = [loc EXCEPT ![r] = to] /\ to \notin RunLoc
  BY DEF Count, LookAtDraining, Uncount, BadRequest, PlainRun, OpenStream, StreamRun,
         Leave, Goto, Loc, RunLoc, LeaseLoc
<1>2. loc[r] \notin RunLoc
  BY DEF Count, LookAtDraining, Uncount, BadRequest, PlainRun, OpenStream, StreamRun,
         Leave, Goto, RunLoc, LeaseLoc
<1>3. lstate[r] = "out" /\ width[r] = 0
  BY <1>2 DEF PlacedInv, RunLoc, LeaseLoc
<1>4. UNCHANGED <<qstate, lstate, width, quanta>>
  BY DEF Count, LookAtDraining, Uncount, BadRequest, PlainRun, OpenStream, StreamRun,
         Leave, queueVars, leaseVars
<1> QED BY <1>1, <1>2, <1>3, <1>4, MovePlaced

(* Only r's own admission state moves in its critical section. *)
LEMMA AcquireOwn ==
  ASSUME QueueTypeOK, NEW r \in Request, Acquire(r) \/ ProbeThrows(r)
  PROVE  /\ qstate' \in [Request -> QState]
         /\ \A q \in Request : q # r => qstate'[q] = qstate[q]
  BY DEF QueueTypeOK, QState, Acquire, Overflow, Join, WalkIn, Admit, WaitTick, ProbeAlive,
         Cancel, ProbeThrows

LEMMA QueuePlaced ==
  ASSUME PlacedInv, QueueTypeOK, NEW r \in Request, Queue(r)
  PROVE  PlacedInv'
<1> DEFINE to == CASE qstate'[r] = "in" -> "restore"
                   [] qstate'[r] = "left" -> "leave"
                   [] OTHER -> "acquire"
<1>1. /\ qstate' \in [Request -> QState]
      /\ \A q \in Request : q # r => qstate'[q] = qstate[q]
  BY AcquireOwn DEF Queue
<1>2. to \in Loc /\ (qstate'[r] = "in" <=> to \in RunLoc)
  BY DEF Loc, RunLoc, LeaseLoc
<1>3. loc[r] = "acquire" /\ loc' = [loc EXCEPT ![r] = to] /\ UNCHANGED <<lstate, width, quanta>>
  BY DEF Queue, leaseVars
<1>4. lstate[r] = "out" /\ width[r] = 0
  BY <1>3 DEF PlacedInv, LeaseLoc
<1> HIDE DEF to
<1> QED BY <1>1, <1>2, <1>3, <1>4 DEF PlacedInv

LEMMA LeasePlaced ==
  ASSUME PlacedInv, LockTypeOK, NEW r \in Request, DrawLease(r) \/ EnterLease(r)
  PROVE  PlacedInv'
<1>1. UNCHANGED <<loc, width, quanta, qstate>>
  BY DEF DrawLease, EnterLease, queueVars, serverVars
<1>2. loc[r] \in LeaseLoc /\ \A q \in Request : q # r => lstate'[q] = lstate[q]
  BY DEF DrawLease, EnterLease, TakeTicket, Enter, PlacedInv, LockTypeOK
<1> QED BY <1>1, <1>2 DEF PlacedInv

(* A quantum leads somewhere in run(). *)
LEMMA AfterQuantum ==
  ASSUME NEW r, loc[r] \in LeaseLoc, NEW to \in After(r)
  PROVE  to \in Loc /\ to \in RunLoc /\ to # "chunk"
  BY DEF After, AfterRestore, AfterChunk, AfterTail, AfterInsert, AfterBegin, AfterRound,
         Loop, Loc, RunLoc, LeaseLoc

LEMMA QuantumPlaced ==
  ASSUME PlacedInv, LockTypeOK, NEW r \in Request, Quantum(r)
  PROVE  PlacedInv'
<1>1. PICK to \in After(r) : loc' = [loc EXCEPT ![r] = to]
  BY DEF Quantum
<1>2. to \in Loc /\ to \in RunLoc
  BY AfterQuantum DEF Quantum
<1>3. /\ loc[r] \in LeaseLoc /\ lstate' = [lstate EXCEPT ![r] = "out"]
      /\ width' = [width EXCEPT ![r] = 0] /\ qstate' = qstate
  BY DEF Quantum, Exit, queueVars
<1>4. quanta' \in [Request -> Nat]
  BY DEF Quantum, PlacedInv
<1>5. loc' \in [Request -> Loc] /\ width' \in [Request -> Widths \cup {0}]
  BY <1>1, <1>2, <1>3 DEF PlacedInv
<1>6. \A q \in Request : q # r => /\ loc'[q] = loc[q] /\ width'[q] = width[q]
                                  /\ lstate'[q] = lstate[q]
  BY <1>1, <1>3 DEF PlacedInv, LockTypeOK
<1>7. loc'[r] = to /\ width'[r] = 0 /\ lstate'[r] = "out" /\ loc[r] \in RunLoc
  BY <1>1, <1>3 DEF PlacedInv, LockTypeOK, RunLoc
<1> QED BY <1>2, <1>3, <1>4, <1>5, <1>6, <1>7 DEF PlacedInv

(* Between leases, a thread in run() stays there until ~SlotRelease. *)
LEMMA BetweenPlaced ==
  ASSUME PlacedInv, LockTypeOK, NEW r \in Request, ChunkCancel(r) \/ TooLong(r) \/ Deliver(r)
  PROVE  PlacedInv'
<1>1. PICK to \in Loc : loc' = [loc EXCEPT ![r] = to] /\ to \in RunLoc
  BY DEF ChunkCancel, TooLong, Deliver, Goto, Loop, Loc, RunLoc, LeaseLoc
<1>2. /\ loc[r] \in RunLoc /\ loc[r] # "chunk" /\ lstate[r] = "out"
      /\ UNCHANGED <<qstate, lstate, width, quanta>>
  BY DEF ChunkCancel, TooLong, Deliver, Goto, RunLoc, LeaseLoc, PlacedInv, LockTypeOK,
         queueVars, leaseVars
<1>3. width[r] = 0
  BY <1>2 DEF PlacedInv
<1> QED BY <1>1, <1>2, <1>3, MovePlaced

LEMMA WidthInWidths == \A i : QuantumWidth(i) \in Widths
  BY DEF QuantumWidth, Widths

LEMMA ChunkWidthPlaced ==
  ASSUME PlacedInv, NEW r \in Request, ChunkWidth(r)
  PROVE  PlacedInv'
<1>1. /\ loc[r] = "probe" /\ loc' = [loc EXCEPT ![r] = "chunk"]
      /\ width' = [width EXCEPT ![r] = QuantumWidth(slot[r])]
      /\ UNCHANGED <<qstate, lstate, quanta>>
  BY DEF ChunkWidth, Goto, queueVars, leaseVars
<1>2. "chunk" \in Loc /\ "chunk" \in LeaseLoc /\ "chunk" \in RunLoc /\ "probe" \in RunLoc
  BY DEF Loc, LeaseLoc, RunLoc
<1> QED BY <1>1, <1>2, WidthInWidths DEF PlacedInv

LEMMA StartGeneratingPlaced ==
  ASSUME PlacedInv, NEW r \in Request, StartGenerating(r)
  PROVE  PlacedInv'
<1>1. /\ loc[r] = "phase" /\ loc' = [loc EXCEPT ![r] = "begin"]
      /\ UNCHANGED <<qstate, lstate, width, quanta>>
  BY DEF StartGenerating, SetGenerating, Goto, leaseVars
<1>2. "begin" \in Loc /\ "begin" \in LeaseLoc /\ "begin" \in RunLoc /\ "phase" \in RunLoc
  BY DEF Loc, LeaseLoc, RunLoc
<1>3. width[r] = 0
  BY <1>1 DEF PlacedInv
<1> QED BY <1>1, <1>2, <1>3, MovePlaced

LEMMA ReleasePlaced ==
  ASSUME PlacedInv, QueueTypeOK, NEW r \in Request, Release(r)
  PROVE  PlacedInv'
<1>1. /\ loc[r] = "release" /\ loc' = [loc EXCEPT ![r] = "leave"]
      /\ qstate' = [qstate EXCEPT ![r] = "left"]
      /\ UNCHANGED <<lstate, width, quanta>>
  BY DEF Release, ReleaseSlot, Goto, leaseVars
<1>2. "leave" \in Loc /\ "leave" \notin RunLoc
  BY DEF Loc, LeaseLoc, RunLoc
<1>3. lstate[r] = "out" /\ width[r] = 0
  BY <1>1 DEF PlacedInv, LeaseLoc
<1>4. \A q \in Request : q # r => qstate'[q] = qstate[q] /\ loc'[q] = loc[q]
  BY <1>1 DEF PlacedInv, QueueTypeOK
<1>5. qstate'[r] = "left" /\ loc'[r] = "leave" /\ loc' \in [Request -> Loc]
  BY <1>1, <1>2 DEF PlacedInv, QueueTypeOK
<1> QED BY <1>1, <1>2, <1>3, <1>4, <1>5 DEF PlacedInv

LEMMA StillPlaced ==
  ASSUME PlacedInv, UNCHANGED <<loc, width, quanta, qstate, lstate>>
  PROVE  PlacedInv'
  BY DEF PlacedInv

LEMMA PlacedStep ==
  ASSUME ServerInv, [Next]_vars
  PROVE  PlacedInv'
<1>1. PlacedInv /\ QueueTypeOK /\ LockTypeOK
  BY DEF ServerInv, OwnersInv, LeaseInv
<1>2. ASSUME NEW r \in Request, ClientGoes(r) PROVE PlacedInv'
  BY <1>1, <1>2, StillPlaced DEF ClientGoes, Disconnect, leaseVars, serverVars
<1>3. ASSUME Operator PROVE PlacedInv'
  BY <1>1, <1>3, StillPlaced DEF Operator, StartDrain, SeeDrained, Resume, queueVars, leaseVars
<1>4. ASSUME UNCHANGED vars PROVE PlacedInv'
  BY <1>1, <1>4, StillPlaced DEF vars, queueVars, leaseVars, serverVars
<1> QED BY <1>1, <1>2, <1>3, <1>4, ScopesPlaced, QueuePlaced, LeasePlaced, QuantumPlaced,
           BetweenPlaced, ChunkWidthPlaced, StartGeneratingPlaced, ReleasePlaced DEF Next, Step

-----------------------------------------------------------------------------
(* Widths.  Whoever reads a width while another chunk is pending sees that *)
(* chunk's slot busy: the width it reads is not the full one.              *)
LEMMA SecondReaderSeesFirst ==
  ASSUME ServerInv, NEW r \in Request, NEW q \in Request, q # r,
         loc[r] \in RunLoc, width[q] # 0
  PROVE  QuantumWidth(slot[r]) # 96
<1>1. qstate[r] = "in" /\ qstate[q] = "in"
  BY DEF ServerInv, PlacedInv, RunLoc, LeaseLoc
<1>2. slot[q] \in Slot /\ busy[slot[q]] /\ slot[q] # slot[r]
  BY <1>1 DEF ServerInv, OwnersInv, SlotsExclusive
<1>3. slot[q] \in OthersBusy(slot[r])
  BY <1>2 DEF OthersBusy
<1> QED BY <1>3 DEF QuantumWidth

LEMMA WidthStep ==
  ASSUME ServerInv, [Next]_vars
  PROVE  OneFullWidthChunk'
<1>1. OneFullWidthChunk /\ width \in [Request -> Widths \cup {0}]
  BY DEF ServerInv, PlacedInv
<1>2. ASSUME NEW r \in Request, ChunkWidth(r) PROVE OneFullWidthChunk'
  <2>1. loc[r] \in RunLoc /\ width' = [width EXCEPT ![r] = QuantumWidth(slot[r])]
    BY <1>2 DEF ChunkWidth, Goto, RunLoc
  <2>2. ASSUME NEW q \in Request, q # r, width'[q] = 96 PROVE width'[r] # 96
    <3>1. width[q] # 0
      BY <1>1, <2>1, <2>2
    <3> QED BY <1>1, <2>1, <2>2, <3>1, SecondReaderSeesFirst
  <2>3. ASSUME NEW p \in Request, NEW q \in Request, width'[p] = 96, width'[q] = 96, p # r, q # r
        PROVE  p = q
    BY <1>1, <2>1, <2>3 DEF OneFullWidthChunk
  <2> QED BY <2>2, <2>3 DEF OneFullWidthChunk
<1>3. ASSUME NEW r \in Request, Quantum(r) PROVE OneFullWidthChunk'
  <2>1. width' = [width EXCEPT ![r] = 0]
    BY <1>3 DEF Quantum
  <2> QED BY <1>1, <2>1 DEF OneFullWidthChunk
<1>4. ASSUME UNCHANGED width PROVE OneFullWidthChunk'
  BY <1>1, <1>4 DEF OneFullWidthChunk
<1>5. ASSUME NEW r \in Request,
             \/ Count(r) \/ LookAtDraining(r) \/ Uncount(r) \/ BadRequest(r) \/ PlainRun(r)
             \/ OpenStream(r) \/ StreamRun(r) \/ Leave(r) \/ Queue(r) \/ DrawLease(r)
             \/ EnterLease(r) \/ ChunkCancel(r) \/ TooLong(r) \/ StartGenerating(r)
             \/ Deliver(r) \/ Release(r) \/ ClientGoes(r)
      PROVE  UNCHANGED width
  BY <1>5 DEF Count, LookAtDraining, Uncount, BadRequest, PlainRun, OpenStream, StreamRun,
              Leave, Queue, DrawLease, EnterLease, ChunkCancel, TooLong, StartGenerating,
              Deliver, Release, ClientGoes, serverVars
<1>6. ASSUME Operator \/ UNCHANGED vars PROVE UNCHANGED width
  BY <1>6 DEF Operator, StartDrain, SeeDrained, Resume, vars, serverVars
<1> QED BY <1>2, <1>3, <1>4, <1>5, <1>6 DEF Next, Step

-----------------------------------------------------------------------------
(* Scopes and drain. *)

(* How many scopes a request at location l has open. *)
Scopes(l) == IF l \in {"idle", "done"} THEN 0 ELSE IF l = "provider" THEN 2 ELSE 1

LEMMA CountMember ==
  ASSUME NEW S \in SUBSET Request, NEW T \in SUBSET Request, NEW r \in Request,
         \A q \in Request : q # r => (q \in T <=> q \in S)
  PROVE  /\ Cardinality(S) \in Nat /\ Cardinality(T) \in Nat
         /\ Cardinality(T) = Cardinality(S) + (IF r \in T THEN 1 ELSE 0)
                                            - (IF r \in S THEN 1 ELSE 0)
<1>1. /\ IsFiniteSet(S) /\ IsFiniteSet(T)
      /\ Cardinality(S) \in Nat /\ Cardinality(T) \in Nat
  BY SlotQueueAssumption, FS_Subset, FS_CardinalityType
<1>2. CASE r \in S /\ r \notin T
  <2>1. T = S \ {r}
    BY <1>2
  <2> QED BY <1>1, <1>2, <2>1, FS_RemoveElement
<1>3. CASE r \notin S /\ r \in T
  <2>1. T = S \cup {r}
    BY <1>3
  <2> QED BY <1>1, <1>3, <2>1, FS_AddElement
<1>4. CASE r \in S <=> r \in T
  <2>1. T = S
    BY <1>4
  <2> QED BY <1>1, <2>1
<1> QED BY <1>2, <1>3, <1>4

LEMMA ActiveMoves ==
  ASSUME ServerInv, NEW r \in Request, NEW to \in Loc, loc' = [loc EXCEPT ![r] = to],
         active' = active + Scopes(to) - Scopes(loc[r])
  PROVE  ActiveCounted'
<1>1. Inside \in SUBSET Request /\ Streaming \in SUBSET Request
      /\ Inside' \in SUBSET Request /\ Streaming' \in SUBSET Request
  BY DEF Inside, Streaming
<1>2. loc'[r] = to /\ \A q \in Request : q # r => loc'[q] = loc[q]
  BY DEF ServerInv, PlacedInv
<1>3. /\ \A q \in Request : q # r => (q \in Inside' <=> q \in Inside)
      /\ \A q \in Request : q # r => (q \in Streaming' <=> q \in Streaming)
  BY <1>2 DEF Inside, Streaming
<1>4. /\ r \in Inside <=> loc[r] \notin {"idle", "done"}
      /\ r \in Inside' <=> to \notin {"idle", "done"}
      /\ r \in Streaming <=> loc[r] = "provider"
      /\ r \in Streaming' <=> to = "provider"
  BY <1>2 DEF Inside, Streaming
<1>5. /\ Cardinality(Inside) \in Nat /\ Cardinality(Inside') \in Nat
      /\ Cardinality(Inside') = Cardinality(Inside) + (IF r \in Inside' THEN 1 ELSE 0)
                                                    - (IF r \in Inside THEN 1 ELSE 0)
  BY <1>1, <1>3, CountMember
<1>6. /\ Cardinality(Streaming) \in Nat /\ Cardinality(Streaming') \in Nat
      /\ Cardinality(Streaming') = Cardinality(Streaming) + (IF r \in Streaming' THEN 1 ELSE 0)
                                                          - (IF r \in Streaming THEN 1 ELSE 0)
  BY <1>1, <1>3, CountMember
<1>7. active = Cardinality(Inside) + Cardinality(Streaming)
  BY DEF ServerInv, ActiveCounted
<1> QED BY <1>4, <1>5, <1>6, <1>7 DEF ActiveCounted, Scopes

LEMMA ActiveStays ==
  ASSUME ServerInv, UNCHANGED <<loc, active>>
  PROVE  ActiveCounted'
  BY DEF ServerInv, ActiveCounted, Inside, Streaming

LEMMA ActiveStep ==
  ASSUME ServerInv, [Next]_vars
  PROVE  ActiveCounted'
<1>1. active \in Nat
  <2>1. Inside \in SUBSET Request /\ Streaming \in SUBSET Request
    BY DEF Inside, Streaming
  <2>2. Cardinality(Inside) \in Nat /\ Cardinality(Streaming) \in Nat
    BY <2>1, SlotQueueAssumption, FS_Subset, FS_CardinalityType
  <2> QED BY <2>2 DEF ServerInv, ActiveCounted
<1>2. ASSUME NEW r \in Request,
             \/ Count(r) \/ Uncount(r) \/ OpenStream(r) \/ StreamRun(r) \/ Leave(r)
             \/ LookAtDraining(r) \/ BadRequest(r) \/ PlainRun(r)
      PROVE  ActiveCounted'
  <2>1. \E to \in Loc : /\ loc' = [loc EXCEPT ![r] = to]
                        /\ active' = active + Scopes(to) - Scopes(loc[r])
    <3>1. /\ Scopes("idle") = 0 /\ Scopes("done") = 0 /\ Scopes("provider") = 2
          /\ \A l \in {"counted", "rejected", "handler", "acquire", "leave"} : Scopes(l) = 1
          /\ {"counted", "rejected", "handler", "provider", "acquire", "leave", "done"}
               \subseteq Loc
      BY DEF Scopes, Loc
    <3>2. CASE Count(r) \/ OpenStream(r)
      BY <1>1, <3>1, <3>2 DEF Count, OpenStream, StreamScopeOpens, Goto
    <3>3. CASE Uncount(r) \/ StreamRun(r) \/ Leave(r)
      BY <1>1, <3>1, <3>3 DEF Uncount, StreamRun, Leave, Goto
    <3>4. CASE LookAtDraining(r) \/ BadRequest(r) \/ PlainRun(r)
      BY <1>1, <3>1, <3>4 DEF LookAtDraining, BadRequest, PlainRun, Goto
    <3> QED BY <1>2, <3>2, <3>3, <3>4
  <2> QED BY <2>1, ActiveMoves
<1>3. ASSUME NEW r \in Request,
             \/ Queue(r) \/ Quantum(r) \/ ChunkCancel(r) \/ ChunkWidth(r) \/ TooLong(r)
             \/ StartGenerating(r) \/ Deliver(r) \/ Release(r)
      PROVE  ActiveCounted'
  <2>1. PICK to \in Loc : /\ loc' = [loc EXCEPT ![r] = to]
                          /\ Scopes(to) = 1 /\ Scopes(loc[r]) = 1 /\ active' = active
    <3>1. CASE Quantum(r)
      <4>1. \A to \in After(r) : to \in Loc /\ to \in RunLoc
        BY <3>1, AfterQuantum DEF Quantum
      <4>2. \A l \in RunLoc : Scopes(l) = 1
        BY DEF RunLoc, LeaseLoc, Scopes
      <4>3. loc[r] \in RunLoc
        BY <3>1 DEF Quantum, RunLoc
      <4> QED BY <3>1, <4>1, <4>2, <4>3 DEF Quantum
    <3>2. CASE ~Quantum(r)
      BY <1>3, <3>2 DEF Queue, ChunkCancel, ChunkWidth, TooLong, StartGenerating, Deliver,
                        Release, Goto, Loop, Scopes, Loc, LeaseLoc
    <3> QED BY <3>1, <3>2
  <2>2. active' = active + Scopes(to) - Scopes(loc[r])
    BY <1>1, <2>1
  <2> QED BY <2>1, <2>2, ActiveMoves
<1>4. ASSUME NEW r \in Request, DrawLease(r) \/ EnterLease(r) \/ ClientGoes(r)
      PROVE  ActiveCounted'
  BY <1>4, ActiveStays DEF DrawLease, EnterLease, ClientGoes, serverVars
<1>5. ASSUME Operator \/ UNCHANGED vars PROVE ActiveCounted'
  BY <1>5, ActiveStays DEF Operator, StartDrain, SeeDrained, Resume, vars, serverVars
<1> QED BY <1>2, <1>3, <1>4, <1>5 DEF Next, Step

(* No scope open: every request is before its scope or past it. *)
LEMMA NoneActive ==
  ASSUME ServerInv, active = 0
  PROVE  \A r \in Request : loc[r] \in QuietLoc
<1>1. Inside \in SUBSET Request /\ Streaming \in SUBSET Request
  BY DEF Inside, Streaming
<1>2. /\ IsFiniteSet(Inside) /\ Cardinality(Inside) \in Nat /\ Cardinality(Streaming) \in Nat
  BY <1>1, SlotQueueAssumption, FS_Subset, FS_CardinalityType
<1>3. Cardinality(Inside) = 0
  BY <1>2 DEF ServerInv, ActiveCounted
<1>4. Inside = {}
  BY <1>2, <1>3, FS_EmptySet
<1> QED BY <1>4 DEF Inside, QuietLoc

LEMMA DrainStep ==
  ASSUME ServerInv, [Next]_vars
  PROVE  DrainingInv'
<1>1. DrainingInv /\ loc \in [Request -> Loc]
  BY DEF ServerInv, PlacedInv
<1>2. ASSUME NEW r \in Request, Count(r) \/ LookAtDraining(r) \/ Uncount(r) PROVE DrainingInv'
  <2>1. /\ UNCHANGED <<draining, drained, drains>>
        /\ drained => \E to \in QuietLoc : loc' = [loc EXCEPT ![r] = to]
    BY <1>1, <1>2 DEF Count, LookAtDraining, Uncount, Goto, QuietLoc, DrainingInv, DrainHeld
  <2> QED BY <1>1, <2>1 DEF DrainingInv, DrainHeld
<1>3. ASSUME NEW r \in Request,
             \/ BadRequest(r) \/ PlainRun(r) \/ OpenStream(r) \/ StreamRun(r) \/ Leave(r)
             \/ Queue(r) \/ Quantum(r) \/ ChunkCancel(r) \/ ChunkWidth(r) \/ TooLong(r)
             \/ StartGenerating(r) \/ Deliver(r) \/ Release(r)
      PROVE  DrainingInv'
  <2>1. loc[r] \notin QuietLoc /\ UNCHANGED <<draining, drained, drains>>
    BY <1>3 DEF BadRequest, PlainRun, OpenStream, StreamRun, Leave, Queue, Quantum,
                ChunkCancel, ChunkWidth, TooLong, StartGenerating, Deliver, Release, Goto,
                QuietLoc, LeaseLoc
  <2> QED BY <1>1, <2>1 DEF DrainingInv, DrainHeld
<1>4. ASSUME NEW r \in Request, DrawLease(r) \/ EnterLease(r) \/ ClientGoes(r)
      PROVE  DrainingInv'
  BY <1>1, <1>4 DEF DrawLease, EnterLease, ClientGoes, serverVars, DrainingInv, DrainHeld
<1>5. CASE StartDrain
  BY <1>1, <1>5 DEF StartDrain, DrainingInv, DrainHeld
<1>6. CASE SeeDrained
  BY <1>1, <1>6, NoneActive DEF SeeDrained, DrainingInv, DrainHeld
<1>7. CASE Resume
  BY <1>1, <1>7 DEF Resume, DrainingInv, DrainHeld
<1>8. CASE UNCHANGED vars
  BY <1>1, <1>8 DEF vars, serverVars, DrainingInv, DrainHeld
<1> QED BY <1>2, <1>3, <1>4, <1>5, <1>6, <1>7, <1>8 DEF Next, Step, Operator

-----------------------------------------------------------------------------
LEMMA ServerInit == Init => ServerInv
<1> SUFFICES ASSUME Init PROVE ServerInv
  OBVIOUS
<1>1. OwnersInv /\ LeaseInv
  BY OwnersInit, LeaseInit DEF Init
<1>2. PlacedInv /\ OneFullWidthChunk
  BY DEF Init, QueueInit, LockInit, PlacedInv, OneFullWidthChunk, RunLoc, LeaseLoc, Loc, Widths
<1>3. Inside = {} /\ Streaming = {}
  BY DEF Init, Inside, Streaming
<1>4. ActiveCounted
  BY <1>3, FS_EmptySet DEF Init, ActiveCounted
<1>5. DrainingInv
  BY DEF Init, DrainingInv, DrainHeld
<1> QED BY <1>1, <1>2, <1>4, <1>5 DEF ServerInv

LEMMA ServerAlwaysInv == Spec => []ServerInv
<1>1. ServerInv /\ [Next]_vars => ServerInv'
  <2> SUFFICES ASSUME ServerInv, [Next]_vars PROVE ServerInv'
    OBVIOUS
  <2>1. OwnersInv'
    BY ServerStepsQueue, OwnersStep DEF ServerInv
  <2>2. LeaseInv'
    BY ServerStepsLease, LeaseStep DEF ServerInv
  <2> QED BY <2>1, <2>2, PlacedStep, WidthStep, ActiveStep, DrainStep DEF ServerInv
<1> QED BY <1>1, ServerInit, PTL DEF Spec

LEMMA ServerTypes == ServerInv => TypeOK
<1> SUFFICES ASSUME ServerInv PROVE TypeOK
  OBVIOUS
<1>1. active \in Nat
  <2>1. Inside \in SUBSET Request /\ Streaming \in SUBSET Request
    BY DEF Inside, Streaming
  <2>2. Cardinality(Inside) \in Nat /\ Cardinality(Streaming) \in Nat
    BY <2>1, SlotQueueAssumption, FS_Subset, FS_CardinalityType
  <2> QED BY <2>2 DEF ServerInv, ActiveCounted
<1> QED BY <1>1 DEF ServerInv, OwnersInv, LeaseInv, PlacedInv, DrainingInv, TypeOK

(* Whoever is inside the lease is inside run(), so it owns its slot alone. *)
LEMMA ServerExclusive == ServerInv => EngineExclusive
<1> SUFFICES ASSUME ServerInv PROVE EngineExclusive
  OBVIOUS
<1>1. LeaseExclusive
  BY DEF ServerInv, LeaseInv, TicketsAccounted, LeaseExclusive, Contender
<1>2. \A r \in Request : lstate[r] = "in" => qstate[r] = "in"
  BY DEF ServerInv, PlacedInv, RunLoc
<1> QED BY <1>1, <1>2 DEF ServerInv, OwnersInv, SlotsExclusive, EngineExclusive

(* Outstanding lease tickets map one to one to slots: each is drawn by a   *)
(* contender, a contender is inside run(), and run()'s slots are distinct. *)
LEMMA ServerGateBounded == ServerInv => GateWaitBounded
<1> SUFFICES ASSUME ServerInv PROVE GateWaitBounded
  OBVIOUS
<1> DEFINE I == serving .. next - 1
           f == [k \in I |-> slot[CHOOSE t \in Request : Contender(t) /\ lticket[t] = k]]
<1>1. serving \in Nat /\ next \in Nat /\ serving <= next
  BY DEF ServerInv, LeaseInv, LockTypeOK, TicketsAccounted
<1>2. IsFiniteSet(I) /\ Cardinality(I) = next - serving
  <2>1. serving \in Int /\ next - 1 \in Int
    BY <1>1
  <2>2. /\ IsFiniteSet(I)
        /\ Cardinality(I) = IF serving > next - 1 THEN 0 ELSE next - 1 - serving + 1
    BY <2>1, FS_Interval
  <2> QED BY <1>1, <2>2
<1>3. IsFiniteSet(Slot) /\ Cardinality(Slot) = NSlots
  <2>1. /\ IsFiniteSet(1 .. NSlots)
        /\ Cardinality(1 .. NSlots) = IF 1 > NSlots THEN 0 ELSE NSlots - 1 + 1
    BY SlotQueueAssumption, FS_Interval
  <2> QED BY <2>1, SlotQueueAssumption DEF Slot
<1>4. \A k \in I : \E t \in Request : /\ Contender(t) /\ lticket[t] = k
                                      /\ qstate[t] = "in" /\ slot[t] \in Slot
                                      /\ f[k] = slot[t]
  <2> SUFFICES ASSUME NEW k \in I
               PROVE  \E t \in Request : /\ Contender(t) /\ lticket[t] = k
                                         /\ qstate[t] = "in" /\ slot[t] \in Slot
                                         /\ f[k] = slot[t]
    OBVIOUS
  <2> DEFINE t == CHOOSE u \in Request : Contender(u) /\ lticket[u] = k
  <2>1. \E u \in Request : Contender(u) /\ lticket[u] = k
    BY DEF ServerInv, LeaseInv, TicketsAccounted
  <2>2. t \in Request /\ Contender(t) /\ lticket[t] = k
    BY <2>1
  <2>3. f[k] = slot[t]
    OBVIOUS
  <2> HIDE DEF t, f
  <2>4. qstate[t] = "in"
    BY <2>2 DEF Contender, ServerInv, PlacedInv, RunLoc
  <2>5. slot[t] \in Slot
    BY <2>2, <2>4 DEF ServerInv, OwnersInv, SlotsExclusive
  <2> QED BY <2>2, <2>3, <2>4, <2>5
<1>5. \A k \in I : f[k] \in Slot
  BY <1>4
<1>6. \A j, k \in I : f[j] = f[k] => j = k
  <2> SUFFICES ASSUME NEW j \in I, NEW k \in I, f[j] = f[k] PROVE j = k
    OBVIOUS
  <2>1. PICK t \in Request : lticket[t] = j /\ qstate[t] = "in" /\ f[j] = slot[t]
    BY <1>4
  <2>2. PICK u \in Request : lticket[u] = k /\ qstate[u] = "in" /\ f[k] = slot[u]
    BY <1>4
  <2> HIDE DEF f
  <2>3. t = u
    BY <2>1, <2>2 DEF ServerInv, OwnersInv, SlotsExclusive
  <2> QED BY <2>1, <2>2, <2>3
<1>7. f \in Injection(I, Slot)
  <2>1. f \in [I -> Slot]
    BY <1>5
  <2> HIDE DEF f
  <2> QED BY <1>6, <2>1 DEF Injection, IsInjective
<1>8. Cardinality(I) <= Cardinality(Slot)
  BY <1>2, <1>3, <1>7, FS_Injection
<1> QED BY <1>2, <1>3, <1>8 DEF GateWaitBounded

(* The lease does its work, for any number of requests and slots and with  *)
(* probes that throw: run()'s state stays typed, an engine has one driver, *)
(* a lease ticket has at most NSlots - 1 quanta ahead of it, and however   *)
(* stale the widths quantum_width gave out, never two full chunks pend.    *)
THEOREM ServerLeaseRight == Spec => []LeaseRight
<1>1. ServerInv => LeaseRight
  BY ServerTypes, ServerExclusive, ServerGateBounded DEF LeaseRight, ServerInv
<1> QED BY <1>1, ServerAlwaysInv, PTL

(* Once /admin/drain's caller has seen active_requests = 0, no request is  *)
(* in a handler or in run() until the operator resumes.                    *)
THEOREM ServerDrainedQuiet == Spec => []DrainedMeansQuiet
<1>1. ServerInv => DrainedMeansQuiet
  BY DEF ServerInv, DrainingInv, DrainHeld, QuietLoc, DrainedMeansQuiet
<1> QED BY <1>1, ServerAlwaysInv, PTL

(* However probes end, a busy slot of the composed server has exactly one  *)
(* owner and an idle slot none.                                            *)
THEOREM ServerSlotsExclusive == Spec => []SlotsExclusive
<1>1. ServerInv => SlotsExclusive
  BY DEF ServerInv, OwnersInv
<1> QED BY <1>1, ServerAlwaysInv, PTL

-----------------------------------------------------------------------------
(* As long as probes return, the server's steps are exactly admission's,   *)
(* so everything proved of the queue alone holds of the composed server.   *)
LEMMA ServerIsQueue ==
  ASSUME ~ProbeMayThrow
  PROVE  Spec => QueueSpec
<1>1. Init => QueueInit
  BY DEF Init
<1>2. [Next]_vars => [QueueNext]_queueVars
  <2> SUFFICES ASSUME [Next]_vars PROVE QueueNext \/ UNCHANGED queueVars
    OBVIOUS
  <2>1. ASSUME NEW r \in Request,
               Queue(r) \/ StartGenerating(r) \/ Release(r) \/ ClientGoes(r)
        PROVE  QueueNext
    BY <2>1 DEF Queue, StartGenerating, Release, ClientGoes, QueueNext, OwnSlot
  <2>2. ASSUME NEW r \in Request,
               \/ Count(r) \/ LookAtDraining(r) \/ Uncount(r) \/ BadRequest(r) \/ PlainRun(r)
               \/ OpenStream(r) \/ StreamRun(r) \/ Leave(r) \/ DrawLease(r) \/ EnterLease(r)
               \/ Quantum(r) \/ ChunkCancel(r) \/ ChunkWidth(r) \/ TooLong(r) \/ Deliver(r)
        PROVE  UNCHANGED queueVars
    BY <2>2 DEF Count, LookAtDraining, Uncount, BadRequest, PlainRun, OpenStream, StreamRun,
                Leave, DrawLease, EnterLease, Quantum, ChunkCancel, ChunkWidth, TooLong, Deliver
  <2>3. ASSUME Operator \/ UNCHANGED vars PROVE UNCHANGED queueVars
    BY <2>3 DEF Operator, StartDrain, SeeDrained, Resume, vars
  <2> QED BY <2>1, <2>2, <2>3 DEF Next, Step
<1> QED BY <1>1, <1>2, PTL DEF Spec, QueueSpec

(* With probes that return, the composed server admits requests first come *)
(* first served: leases, widths, drains and disconnections never let one   *)
(* overtake another.                                                       *)
THEOREM ServerImplementsFifo ==
  ASSUME ~ProbeMayThrow
  PROVE  Spec => ImplementsFifoAdmission
  BY ServerIsQueue, QueueImplementsFifo, PTL

-----------------------------------------------------------------------------
(* The HTTP layer: every answer and every traced event of one request comes *)
(* from its own handler, and a step of one request leaves the accounts of    *)
(* the others alone because no two share an id.                              *)

EventKinds == {"arrival", "request", "outcome", "error", "cancel", "prefix_prewarm"}
Events == [kind : EventKinds, id : (Apis \cup {"arrival"}) \X Nat, status : Nat]
CallEnds == RunEnds \cup {"none", "draining", "invalid", "too_long", "forbidden", "evicted"}
HttpCalls == [req : HttpRequest, pc : {"new", "handler", "run", "done"}, arrival : Nat, own : Nat,
              n : Int, end : CallEnds]
Replies == [status : Nat, wire : {"none", "openai", "anthropic", "json", "open", "finished",
                                  "severed", "overloaded_error", "api_error"}]

HttpTypes ==
  /\ call \in [HttpReqs -> HttpCalls]
  /\ answer \in [HttpReqs -> Replies]
  /\ log \in Seq(Events) /\ counter \in Nat \ {0}

(* No two requests have one id, and none has one that is still to be given. *)
IdInv ==
  /\ \A q \in HttpReqs :
       /\ call[q].own < counter /\ call[q].arrival < counter
       /\ call[q].pc \in {"new", "handler"} => call[q].own = 0
  /\ \A q, f \in HttpReqs : call[q].own = call[f].own => call[q].own = 0 \/ q = f
  /\ \A i \in DOMAIN log : log[i].id[2] < counter

(* The request with this id is logged once, before all else that has it. *)
LoggedFirst(l, id) ==
  \E i \in DOMAIN l :
    /\ l[i] = Event("request", id, 0)
    /\ \A j \in DOMAIN l : l[j].id = id => i <= j /\ (l[j].kind = "request" => j = i)

Final(e, id) == e.id = id /\ e.kind \in {"outcome", "error", "cancel"}
EndsIn(l, id) == {i \in DOMAIN l : Final(l[i], id)}

EndTrue(l, id, end, status) ==
  IF end \in {"gone", "cancelled"}
  THEN \E i \in EndsIn(l, id) : l[i].kind = "cancel" /\ \A j \in EndsIn(l, id) : i <= j
  ELSE \E i \in DOMAIN l :
         /\ EndsIn(l, id) = {i}
         /\ IF end = "ok" THEN l[i] = Event("outcome", id, 200)
            ELSE l[i].kind = "error" /\ (l[i].status = 400 <=> status = 400)

(* What the trace has of a request c that is answered by a, while it runs  *)
(* and when it has ended; its own event is there unless the cut split it.  *)
AccountOk(c, a, l) ==
  c.own # 0 /\ c.req.api # "prewarm" =>
    /\ c.req.body # "long" => LoggedFirst(l, <<c.req.api, c.own>>)
    /\ c.pc = "run" => EndsIn(l, <<c.req.api, c.own>>) = {}
    /\ c.pc = "done" => EndTrue(l, <<c.req.api, c.own>>, c.end, a.status)

BlameOk(c, a) ==
  /\ c.pc = "done" =>
       /\ c.end \in {"invalid", "too_long"} => a.status = 400
       /\ c.end \in {"overloaded", "draining"} => a.status = 503 \/ a.wire = "overloaded_error"
       /\ c.end = "failed" => a.status = 500 \/ a.wire = "api_error"
       /\ c.end \in {"gone", "cancelled"} => a.status = 499 \/ a.wire = "severed"
       /\ c.end = "ok" => a.status = 200 /\ a.wire \in {"json", "finished"}
       /\ c.end \in {"none", "forbidden", "evicted"} => a.status \in {403, 507}
  /\ c.pc = "run" /\ c.req.api # "prewarm" =>
       /\ c.req.prompt + c.n <= Context
       /\ max_tokens(c.req) > 0 => c.n > 0

HttpInv ==
  /\ HttpTypes /\ IdInv
  /\ \A q \in HttpReqs : BlameOk(call[q], answer[q]) /\ AccountOk(call[q], answer[q], log)

-----------------------------------------------------------------------------
(* The trace grows *)

LEMMA Joined ==
  ASSUME NEW l \in Seq(Events), NEW es \in Seq(Events)
  PROVE  /\ l \o es \in Seq(Events) /\ DOMAIN (l \o es) = 1 .. Len(l) + Len(es)
         /\ \A i \in DOMAIN l : i \in 1 .. Len(l) /\ (l \o es)[i] = l[i]
         /\ \A k \in DOMAIN es : k \in 1 .. Len(es) /\ (l \o es)[Len(l) + k] = es[k]
         /\ \A i \in DOMAIN (l \o es) :
              i \in DOMAIN l \/ \E k \in DOMAIN es : i = Len(l) + k
         /\ Len(l) \in Nat /\ Len(es) \in Nat
<1>1. Len(l) \in Nat /\ Len(es) \in Nat /\ DOMAIN l = 1 .. Len(l) /\ DOMAIN es = 1 .. Len(es)
  OBVIOUS
<1>2. l \o es \in Seq(Events) /\ Len(l \o es) = Len(l) + Len(es)
  OBVIOUS
<1>3. DOMAIN (l \o es) = 1 .. Len(l) + Len(es)
  BY <1>2
<1>4. \A i \in 1 .. Len(l) : (l \o es)[i] = l[i]
  BY <1>1
<1>5. \A k \in 1 .. Len(es) : (l \o es)[Len(l) + k] = es[k]
  BY <1>1
<1>6. ASSUME NEW i \in 1 .. Len(l) + Len(es)
      PROVE  i \in 1 .. Len(l) \/ \E k \in 1 .. Len(es) : i = Len(l) + k
  <2>1. CASE i <= Len(l)
    BY <1>1, <2>1
  <2>2. CASE i > Len(l)
    <3>1. i - Len(l) \in 1 .. Len(es) /\ i = Len(l) + (i - Len(l))
      BY <1>1, <2>2
    <3> QED BY <3>1
  <2> QED BY <1>1, <2>1, <2>2
<1> QED BY <1>1, <1>2, <1>3, <1>4, <1>5, <1>6

LEMMA FirstKept ==
  ASSUME NEW l \in Seq(Events), NEW es \in Seq(Events), NEW id, LoggedFirst(l, id),
         \A k \in DOMAIN es : es[k].id = id => es[k].kind # "request"
  PROVE  LoggedFirst(l \o es, id)
<1> DEFINE m == l \o es
<1>1. PICK i \in DOMAIN l :
        /\ l[i] = Event("request", id, 0)
        /\ \A j \in DOMAIN l : l[j].id = id => i <= j /\ (l[j].kind = "request" => j = i)
  BY DEF LoggedFirst
<1>2. i \in DOMAIN m /\ m[i] = l[i] /\ i \in 1 .. Len(l) /\ Len(l) \in Nat /\ Len(es) \in Nat
  BY Joined
<1>3. ASSUME NEW j \in DOMAIN m, m[j].id = id PROVE i <= j /\ (m[j].kind = "request" => j = i)
  <2>1. CASE j \in DOMAIN l
    BY <1>1, <1>3, <2>1, Joined
  <2>2. CASE \E k \in DOMAIN es : j = Len(l) + k
    <3>1. PICK k \in DOMAIN es : j = Len(l) + k
      BY <2>2
    <3>2. m[j] = es[k] /\ k \in 1 .. Len(es)
      BY <3>1, Joined
    <3>3. m[j].kind # "request"
      BY <1>3, <3>2
    <3>4. i <= j
      BY <1>2, <3>1, <3>2
    <3> QED BY <3>3, <3>4
  <2> QED BY <2>1, <2>2, Joined
<1> QED BY <1>1, <1>2, <1>3 DEF LoggedFirst

LEMMA FirstOpens ==
  ASSUME NEW l \in Seq(Events), NEW es \in Seq(Events), NEW id,
         \A i \in DOMAIN l : l[i].id # id, 1 \in DOMAIN es, es[1] = Event("request", id, 0),
         \A k \in DOMAIN es : es[k].id = id /\ es[k].kind = "request" => k = 1
  PROVE  LoggedFirst(l \o es, id)
<1> DEFINE m == l \o es
           i == Len(l) + 1
<1>1. /\ i \in DOMAIN m /\ m[i] = Event("request", id, 0) /\ Len(l) \in Nat /\ Len(es) \in Nat
  BY Joined
<1>2. ASSUME NEW j \in DOMAIN m, m[j].id = id PROVE i <= j /\ (m[j].kind = "request" => j = i)
  <2>1. ~(j \in DOMAIN l)
    BY <1>2, Joined
  <2>2. PICK k \in DOMAIN es : j = Len(l) + k
    BY <2>1, Joined
  <2>3. m[j] = es[k] /\ k \in 1 .. Len(es)
    BY <2>2, Joined
  <2>4. m[j].kind = "request" => k = 1
    BY <1>2, <2>3
  <2> QED BY <1>1, <2>2, <2>3, <2>4
<1> QED BY <1>1, <1>2 DEF LoggedFirst

LEMMA EndsGrow ==
  ASSUME NEW l \in Seq(Events), NEW es \in Seq(Events), NEW id
  PROVE  EndsIn(l \o es, id) =
           EndsIn(l, id) \cup {Len(l) + k : k \in {x \in DOMAIN es : Final(es[x], id)}}
<1> DEFINE m == l \o es
           N == {Len(l) + k : k \in {x \in DOMAIN es : Final(es[x], id)}}
<1>1. ASSUME NEW i \in EndsIn(m, id) PROVE i \in EndsIn(l, id) \cup N
  <2>1. i \in DOMAIN m /\ Final(m[i], id)
    BY <1>1 DEF EndsIn
  <2>2. CASE i \in DOMAIN l
    BY <2>1, <2>2, Joined DEF EndsIn
  <2>3. CASE \E k \in DOMAIN es : i = Len(l) + k
    BY <2>1, <2>3, Joined
  <2> QED BY <2>1, <2>2, <2>3, Joined
<1>2. ASSUME NEW i \in EndsIn(l, id) PROVE i \in EndsIn(m, id)
  <2>1. i \in DOMAIN l /\ Final(l[i], id)
    BY <1>2 DEF EndsIn
  <2>2. i \in DOMAIN m /\ m[i] = l[i]
    BY <2>1, Joined
  <2> QED BY <2>1, <2>2 DEF EndsIn
<1>3. ASSUME NEW i \in N PROVE i \in EndsIn(m, id)
  <2>1. PICK k \in DOMAIN es : Final(es[k], id) /\ i = Len(l) + k
    BY <1>3
  <2>2. i \in DOMAIN m /\ m[i] = es[k]
    BY <2>1, Joined
  <2> QED BY <2>1, <2>2 DEF EndsIn
<1> QED BY <1>1, <1>2, <1>3

(* Nothing that is logged for others changes what is logged for id. *)
LEMMA TraceOfOthers ==
  ASSUME NEW l \in Seq(Events), NEW es \in Seq(Events), NEW id, NEW end, NEW st,
         \A k \in DOMAIN es : es[k].id # id
  PROVE  /\ EndsIn(l \o es, id) = EndsIn(l, id)
         /\ EndTrue(l, id, end, st) => EndTrue(l \o es, id, end, st)
<1> DEFINE m == l \o es
<1>1. EndsIn(m, id) = EndsIn(l, id)
  <2> DEFINE E == {x \in DOMAIN es : Final(es[x], id)}
  <2>1. E = {}
    BY DEF Final
  <2>2. EndsIn(m, id) = EndsIn(l, id) \cup {Len(l) + k : k \in E}
    BY EndsGrow
  <2> HIDE DEF E
  <2> QED BY <2>1, <2>2
<1>2. \A i \in DOMAIN l : i \in DOMAIN m /\ m[i] = l[i]
  BY Joined
<1>3. EndsIn(l, id) \subseteq DOMAIN l
  BY DEF EndsIn
<1> HIDE DEF m
<1>4. EndTrue(l, id, end, st) => EndTrue(m, id, end, st)
  <2>1. CASE end \in {"gone", "cancelled"}
    BY <1>1, <1>2, <1>3, <2>1 DEF EndTrue
  <2>2. CASE end \notin {"gone", "cancelled"}
    <3> SUFFICES ASSUME EndTrue(l, id, end, st) PROVE EndTrue(m, id, end, st)
      OBVIOUS
    <3>1. PICK i \in DOMAIN l :
            /\ EndsIn(l, id) = {i}
            /\ IF end = "ok" THEN l[i] = Event("outcome", id, 200)
               ELSE l[i].kind = "error" /\ (l[i].status = 400 <=> st = 400)
      BY <2>2 DEF EndTrue
    <3>2. i \in DOMAIN m /\ m[i] = l[i]
      BY <1>2
    <3> QED BY <1>1, <2>2, <3>1, <3>2 DEF EndTrue
  <2> QED BY <2>1, <2>2
<1> QED BY <1>1, <1>4 DEF m

LEMMA EndsPlaced ==
  ASSUME NEW l \in Seq(Events), NEW es \in Seq(Events), NEW id, EndsIn(l, id) = {},
         NEW k \in DOMAIN es, Final(es[k], id),
         \A x \in DOMAIN es \ {k} : ~Final(es[x], id)
  PROVE  /\ EndsIn(l \o es, id) = {Len(l) + k} /\ Len(l) + k \in DOMAIN (l \o es)
         /\ (l \o es)[Len(l) + k] = es[k]
<1>1. {x \in DOMAIN es : Final(es[x], id)} = {k}
  OBVIOUS
<1>2. EndsIn(l \o es, id) = {Len(l) + x : x \in {k}}
  BY <1>1, EndsGrow
<1>3. (l \o es)[Len(l) + k] = es[k]
  BY Joined
<1>4. Len(l) + k \in DOMAIN (l \o es)
  BY <1>2 DEF EndsIn
<1> QED BY <1>2, <1>3, <1>4

(* A cancellation is the first of the ends that are logged. *)
LEMMA CancelFirst ==
  ASSUME NEW l \in Seq(Events), NEW es \in Seq(Events), NEW id, NEW end, NEW st,
         EndsIn(l, id) = {}, 1 \in DOMAIN es, es[1].id = id, es[1].kind = "cancel",
         end \in {"gone", "cancelled"}
  PROVE  EndTrue(l \o es, id, end, st)
<1> DEFINE m == l \o es
           i == Len(l) + 1
<1>1. m[i] = es[1] /\ Len(l) \in Nat /\ i \in EndsIn(m, id)
  <2>1. i \in {Len(l) + k : k \in {x \in DOMAIN es : Final(es[x], id)}}
    BY DEF Final
  <2>2. i \in EndsIn(m, id)
    BY <2>1, EndsGrow
  <2> QED BY <2>2, Joined
<1>2. ASSUME NEW j \in EndsIn(m, id) PROVE i <= j
  <2>1. j \in {Len(l) + k : k \in {x \in DOMAIN es : Final(es[x], id)}}
    BY <1>2, EndsGrow
  <2>2. PICK k \in DOMAIN es : j = Len(l) + k
    BY <2>1
  <2>3. k \in Nat /\ 1 <= k
    OBVIOUS
  <2> QED BY <1>1, <2>2, <2>3
<1> QED BY <1>1, <1>2 DEF EndTrue

-----------------------------------------------------------------------------
(* The steps *)

LEMMA HttpInits == HttpInit => HttpInv
<1> SUFFICES ASSUME HttpInit PROVE HttpInv
  OBVIOUS
<1>1. PICK calls \in [HttpReqs -> NewCalls] : HttpBegins(calls)
  BY DEF HttpInit
<1>2. /\ call = calls /\ answer = [q \in HttpReqs |-> Nothing] /\ log = <<>> /\ counter = 1
  BY <1>1 DEF HttpBegins
<1>3. ASSUME NEW q \in HttpReqs
      PROVE  /\ call[q] \in HttpCalls /\ call[q].own = 0 /\ call[q].arrival = 0
             /\ call[q].pc = "new"
  <2>1. PICK r \in HttpRequest :
          call[q] = [req |-> r, pc |-> "new", arrival |-> 0, own |-> 0, n |-> 0, end |-> "none"]
    BY <1>2 DEF NewCalls
  <2>2. "none" \in CallEnds
    BY DEF CallEnds
  <2> QED BY <2>1, <2>2 DEF HttpCalls
<1>4. Nothing \in Replies
  BY DEF Nothing, Replies
<1>5. HttpTypes
  <2>1. call \in [HttpReqs -> HttpCalls]
    BY <1>2, <1>3
  <2>2. log \in Seq(Events) /\ counter \in Nat \ {0}
    BY <1>2
  <2> QED BY <1>2, <1>4, <2>1, <2>2 DEF HttpTypes
<1>6. IdInv
  <2>1. DOMAIN log = {}
    BY <1>2
  <2> QED BY <1>2, <1>3, <2>1 DEF IdInv
<1> QED BY <1>3, <1>5, <1>6 DEF HttpInv, BlameOk, AccountOk

(* A step of one request: c and a are what it becomes and what its client  *)
(* has got, es what is logged.                                             *)
LEMMA HttpTurn ==
  ASSUME HttpInv, NEW q \in HttpReqs, NEW c \in HttpCalls, NEW a \in Replies,
         NEW es \in Seq(Events),
         call' = [call EXCEPT ![q] = c], answer' = [answer EXCEPT ![q] = a], log' = log \o es,
         counter' \in {counter, counter + 1},
         c.own < counter', c.arrival < counter', c.own \in {call[q].own, counter},
         c.pc \in {"new", "handler"} => c.own = 0,
         \A k \in DOMAIN es :
           es[k].id[2] < counter' /\ (es[k].id[1] = "arrival" \/ es[k].id = <<c.req.api, c.own>>),
         BlameOk(c, a), AccountOk(c, a, log \o es)
  PROVE  HttpInv'
<1>1. /\ call \in [HttpReqs -> HttpCalls] /\ answer \in [HttpReqs -> Replies]
      /\ log \in Seq(Events) /\ counter \in Nat \ {0}
  BY DEF HttpInv, HttpTypes
<1>2. /\ call' \in [HttpReqs -> HttpCalls] /\ call'[q] = c
      /\ \A f \in HttpReqs \ {q} : call'[f] = call[f]
  BY <1>1
<1>3. /\ answer' \in [HttpReqs -> Replies] /\ answer'[q] = a
      /\ \A f \in HttpReqs \ {q} : answer'[f] = answer[f]
  BY <1>1
<1>4. log' \in Seq(Events)
  BY <1>1, Joined
<1>5. counter' \in Nat \ {0} /\ counter <= counter'
  BY <1>1
<1>6. HttpTypes'
  BY <1>2, <1>3, <1>4, <1>5 DEF HttpTypes
<1>7. \A f \in HttpReqs : call[f].own \in Nat /\ call[f].arrival \in Nat /\ call[f].own < counter
                          /\ call[f].arrival < counter
  BY <1>1 DEF HttpCalls, HttpInv, IdInv
<1>8. IdInv'
  <2>1. ASSUME NEW f \in HttpReqs
        PROVE  /\ call'[f].own < counter' /\ call'[f].arrival < counter'
               /\ call'[f].pc \in {"new", "handler"} => call'[f].own = 0
    <3>1. CASE f = q
      BY <1>2, <3>1 DEF HttpInv, IdInv
    <3>2. CASE f # q
      <4>1. call'[f] = call[f]
        BY <1>2, <3>2
      <4>2. call[f].own < counter' /\ call[f].arrival < counter'
        BY <1>1, <1>5, <1>7
      <4> QED BY <4>1, <4>2 DEF HttpInv, IdInv
    <3> QED BY <3>1, <3>2
  <2>2. ASSUME NEW f \in HttpReqs, NEW g \in HttpReqs, call'[f].own = call'[g].own
        PROVE  call'[f].own = 0 \/ f = g
    <3>1. \A x, y \in HttpReqs : call[x].own = call[y].own => call[x].own = 0 \/ x = y
      BY DEF HttpInv, IdInv
    <3>2. \A x \in HttpReqs : call[x].own # counter
      BY <1>1, <1>7
    <3>3. \A x \in HttpReqs : call'[x].own = IF x = q THEN c.own ELSE call[x].own
      BY <1>2
    <3> QED BY <2>2, <3>1, <3>2, <3>3
  <2>3. ASSUME NEW i \in DOMAIN log' PROVE log'[i].id[2] < counter'
    <3>1. CASE i \in DOMAIN log
      <4>1. log'[i] = log[i] /\ log[i].id[2] < counter
        BY <1>1, <3>1, Joined DEF HttpInv, IdInv
      <4>2. log[i] \in Events
        BY <1>1, <3>1
      <4>3. log[i].id[2] \in Nat
        BY <4>2 DEF Events
      <4> QED BY <1>1, <1>5, <4>1, <4>3
    <3>2. CASE \E k \in DOMAIN es : i = Len(log) + k
      BY <1>1, <3>2, Joined
    <3> QED BY <1>1, <2>3, <3>1, <3>2, Joined
  <2> QED BY <2>1, <2>2, <2>3 DEF IdInv
<1>9. ASSUME NEW f \in HttpReqs \ {q} PROVE AccountOk(call[f], answer[f], log')
  <2> DEFINE d == call[f]
             id == <<d.req.api, d.own>>
  <2>1. AccountOk(d, answer[f], log)
    BY DEF HttpInv
  <2> SUFFICES ASSUME d.own # 0, d.req.api # "prewarm"
               PROVE  /\ d.req.body # "long" => LoggedFirst(log', id)
                      /\ d.pc = "run" => EndsIn(log', id) = {}
                      /\ d.pc = "done" => EndTrue(log', id, d.end, answer[f].status)
    BY DEF AccountOk
  <2>2. d.req.api \in Apis /\ d.own # counter
    BY <1>1, <1>7 DEF HttpCalls, HttpRequest
  <2>3. d.own # c.own
    BY <2>2 DEF HttpInv, IdInv
  <2>4. \A k \in DOMAIN es : es[k].id # id
    BY <2>2, <2>3 DEF Apis
  <2>5. /\ d.req.body # "long" => LoggedFirst(log, id)
        /\ d.pc = "run" => EndsIn(log, id) = {}
        /\ d.pc = "done" => EndTrue(log, id, d.end, answer[f].status)
    BY <2>1 DEF AccountOk
  <2> HIDE DEF d, id
  <2>6. LoggedFirst(log, id) => LoggedFirst(log \o es, id)
    BY <1>1, <2>4, FirstKept
  <2>7. /\ EndsIn(log \o es, id) = EndsIn(log, id)
        /\ EndTrue(log, id, d.end, answer[f].status) =>
             EndTrue(log \o es, id, d.end, answer[f].status)
    BY <1>1, <2>4, TraceOfOthers
  <2> QED BY <2>5, <2>6, <2>7
<1>10. ASSUME NEW f \in HttpReqs
       PROVE  BlameOk(call'[f], answer'[f]) /\ AccountOk(call'[f], answer'[f], log')
  <2>1. CASE f = q
    BY <1>2, <1>3, <2>1
  <2>2. CASE f # q
    <3>1. call'[f] = call[f] /\ answer'[f] = answer[f]
      BY <1>2, <1>3, <2>2
    <3>2. BlameOk(call[f], answer[f])
      BY DEF HttpInv
    <3> QED BY <1>9, <2>2, <3>1, <3>2
  <2> QED BY <2>1, <2>2
<1>11. \A f \in HttpReqs :
         BlameOk(call[f], answer[f])' /\ AccountOk(call[f], answer[f], log)'
  BY <1>10 DEF BlameOk, AccountOk
<1> QED BY <1>6, <1>8, <1>11 DEF HttpInv

-----------------------------------------------------------------------------
(* What is logged in one step *)

LEMMA EventMade ==
  ASSUME NEW kind \in EventKinds, NEW id \in (Apis \cup {"arrival"}) \X Nat, NEW status \in Nat
  PROVE  /\ Event(kind, id, status) \in Events /\ Event(kind, id, status).kind = kind
         /\ Event(kind, id, status).id = id /\ Event(kind, id, status).status = status
BY DEF Event, Events

LEMMA OneEvent ==
  ASSUME NEW e \in Events
  PROVE  <<e>> \in Seq(Events) /\ DOMAIN <<e>> = {1} /\ <<e>>[1] = e
OBVIOUS

LEMMA TwoEvents ==
  ASSUME NEW e \in Events, NEW f \in Events
  PROVE  /\ <<e, f>> \in Seq(Events) /\ DOMAIN <<e, f>> = {1, 2}
         /\ <<e, f>>[1] = e /\ <<e, f>>[2] = f
OBVIOUS

LEMMA Appended ==
  ASSUME NEW l \in Seq(Events), NEW e \in Events, NEW f \in Events
  PROVE  /\ Append(l, e) = l \o <<e>> /\ Append(Append(l, e), f) = l \o <<e, f>>
         /\ (l \o <<e>>) \o <<f>> = l \o <<e, f>> /\ l \o <<>> = l
<1>1. Append(l, e) = l \o <<e>>
  OBVIOUS
<1>2. Append(Append(l, e), f) = l \o <<e, f>>
  OBVIOUS
<1>3. (l \o <<e>>) \o <<f>> = l \o <<e, f>>
  <2>1. l \o <<e>> \in Seq(Events)
    OBVIOUS
  <2>2. (l \o <<e>>) \o <<f>> = Append(l \o <<e>>, f)
    BY <2>1
  <2> QED BY <1>1, <1>2, <2>2
<1>4. l \o <<>> = l
  OBVIOUS
<1> QED BY <1>1, <1>2, <1>3, <1>4

LEMMA NoEnd ==
  ASSUME NEW l \in Seq(Events), NEW es \in Seq(Events), NEW id, EndsIn(l, id) = {},
         \A x \in DOMAIN es : ~Final(es[x], id)
  PROVE  EndsIn(l \o es, id) = {}
<1> DEFINE E == {x \in DOMAIN es : Final(es[x], id)}
<1>1. E = {}
  OBVIOUS
<1>2. EndsIn(l \o es, id) = EndsIn(l, id) \cup {Len(l) + k : k \in E}
  BY EndsGrow
<1> HIDE DEF E
<1> QED BY <1>1, <1>2

(* The event that ends the account of a request *)
Closes(end, status, id, e) ==
  /\ end \notin {"gone", "cancelled"} /\ Final(e, id)
  /\ IF end = "ok" THEN e = Event("outcome", id, 200)
     ELSE e.kind = "error" /\ (e.status = 400 <=> status = 400)

LEMMA LogClosed ==
  ASSUME NEW l \in Seq(Events), NEW id, EndsIn(l, id) = {},
         NEW end, NEW status, NEW es \in Seq(Events), 1 \in DOMAIN es,
         \A x \in DOMAIN es : x = 1, Closes(end, status, id, es[1])
  PROVE  EndTrue(l \o es, id, end, status)
<1>1. Final(es[1], id)
  BY DEF Closes
<1>2. /\ EndsIn(l \o es, id) = {Len(l) + 1} /\ Len(l) + 1 \in DOMAIN (l \o es)
      /\ (l \o es)[Len(l) + 1] = es[1]
  <2>1. PICK k \in DOMAIN es : k = 1
    OBVIOUS
  <2>2. Final(es[k], id)
    BY <1>1, <2>1
  <2>3. \A x \in DOMAIN es \ {k} : ~Final(es[x], id)
    BY <2>1
  <2>4. /\ EndsIn(l \o es, id) = {Len(l) + k} /\ Len(l) + k \in DOMAIN (l \o es)
        /\ (l \o es)[Len(l) + k] = es[k]
    BY <2>2, <2>3, EndsPlaced
  <2> QED BY <2>1, <2>4
<1> QED BY <1>2 DEF EndTrue, Closes

LEMMA LogOpenedAndClosed ==
  ASSUME NEW l \in Seq(Events), NEW id, \A i \in DOMAIN l : l[i].id # id,
         NEW end, NEW status, NEW es \in Seq(Events), DOMAIN es = {1, 2},
         es[1] = Event("request", id, 0), Closes(end, status, id, es[2])
  PROVE  LoggedFirst(l \o es, id) /\ EndTrue(l \o es, id, end, status)
<1>1. Final(es[2], id) /\ es[2].kind # "request" /\ ~Final(es[1], id)
  BY DEF Final, Closes, Event
<1>2. LoggedFirst(l \o es, id)
  BY <1>1, FirstOpens
<1>3. EndsIn(l, id) = {}
  BY DEF EndsIn, Final
<1>4. /\ EndsIn(l \o es, id) = {Len(l) + 2} /\ Len(l) + 2 \in DOMAIN (l \o es)
      /\ (l \o es)[Len(l) + 2] = es[2]
  <2>1. PICK k \in DOMAIN es : k = 2
    OBVIOUS
  <2>2. Final(es[k], id) /\ \A x \in DOMAIN es \ {k} : ~Final(es[x], id)
    BY <1>1, <2>1
  <2>3. /\ EndsIn(l \o es, id) = {Len(l) + k} /\ Len(l) + k \in DOMAIN (l \o es)
        /\ (l \o es)[Len(l) + k] = es[k]
    BY <1>3, <2>2, EndsPlaced
  <2> QED BY <2>1, <2>3
<1>5. EndTrue(l \o es, id, end, status)
  BY <1>4 DEF EndTrue, Closes
<1> QED BY <1>2, <1>5

(* What the invariant says of one request *)
LEMMA OfOne ==
  ASSUME HttpInv, NEW q \in HttpReqs
  PROVE  /\ call[q] \in HttpCalls /\ answer[q] \in Replies /\ log \in Seq(Events)
         /\ counter \in Nat \ {0} /\ call[q].own < counter /\ call[q].arrival < counter
         /\ call[q].own \in Nat /\ call[q].arrival \in Nat /\ call[q].req.api \in Apis
         /\ call[q].pc \in {"new", "handler"} => call[q].own = 0
         /\ call[q].req.prompt \in Nat \ {0} /\ max_tokens(call[q].req) \in Nat
         /\ BlameOk(call[q], answer[q]) /\ AccountOk(call[q], answer[q], log)
         /\ \A i \in DOMAIN log, api \in Apis : log[i].id # <<api, counter>>
         /\ call \in [HttpReqs -> HttpCalls] /\ answer \in [HttpReqs -> Replies]
<1>1. /\ call \in [HttpReqs -> HttpCalls] /\ answer \in [HttpReqs -> Replies]
      /\ log \in Seq(Events) /\ counter \in Nat \ {0}
  BY DEF HttpInv, HttpTypes
<1>2. call[q] \in HttpCalls /\ call[q].own \in Nat /\ call[q].arrival \in Nat
      /\ call[q].req \in HttpRequest
  BY <1>1 DEF HttpCalls
<1>3. /\ call[q].req.api \in Apis /\ call[q].req.prompt \in Nat \ {0}
      /\ max_tokens(call[q].req) \in Nat
  BY <1>2, HttpAssumption DEF HttpRequest, max_tokens
<1>4. ASSUME NEW i \in DOMAIN log, NEW api \in Apis PROVE log[i].id # <<api, counter>>
  <2>1. log[i].id[2] < counter
    BY DEF HttpInv, IdInv
  <2> QED BY <1>1, <2>1
<1> QED BY <1>1, <1>2, <1>3, <1>4 DEF HttpInv, IdInv

-----------------------------------------------------------------------------
(* The wrappers and the handlers *)

LEMMA ArriveStep ==
  ASSUME HttpInv, NEW q \in HttpReqs, NEW admitted \in BOOLEAN, Arrive(q, admitted)
  PROVE  HttpInv'
<1> DEFINE c == [call[q] EXCEPT !.arrival = counter,
                                !.pc = IF admitted THEN "handler" ELSE "done",
                                !.end = IF admitted THEN "none" ELSE "draining"]
           a == IF admitted THEN answer[q] ELSE [status |-> 503, wire |-> Envelope(q)]
           id == <<"arrival", counter>>
           e == Event("arrival", id, 0)
           f == Event("error", id, 503)
           es == IF admitted THEN <<e>> ELSE <<e, f>>
<1>1. /\ call[q] \in HttpCalls /\ answer[q] \in Replies /\ log \in Seq(Events)
      /\ counter \in Nat \ {0} /\ call[q].own = 0 /\ call[q].pc = "new"
      /\ call \in [HttpReqs -> HttpCalls] /\ answer \in [HttpReqs -> Replies]
  BY OfOne DEF Arrive
<1>2. counter' = counter + 1
  BY DEF Arrive
<1>3. /\ c \in HttpCalls /\ c.own = 0 /\ c.arrival = counter
      /\ c.pc = (IF admitted THEN "handler" ELSE "done")
      /\ c.end = (IF admitted THEN "none" ELSE "draining")
  BY <1>1 DEF HttpCalls, CallEnds
<1>4. call' = [call EXCEPT ![q] = c]
  BY <1>1 DEF Arrive
<1>5. a \in Replies
  BY <1>1 DEF Replies, Envelope
<1>6. answer' = [answer EXCEPT ![q] = a]
  BY <1>1 DEF Arrive, Respond
<1>7. e \in Events /\ f \in Events /\ e.id = id /\ f.id = id
  BY <1>1, EventMade DEF EventKinds
<1>8. es \in Seq(Events) /\ \A k \in DOMAIN es : es[k].id = id
  <2>1. CASE admitted
    BY <1>7, <2>1, OneEvent
  <2>2. CASE ~admitted
    BY <1>7, <2>2, TwoEvents
  <2> QED BY <2>1, <2>2
<1>9. log' = log \o es
  <2>1. log' = IF admitted THEN Append(log, e) ELSE Append(Append(log, e), f)
    BY DEF Arrive
  <2> HIDE DEF e, f
  <2> QED BY <1>1, <1>7, <2>1, Appended
<1>10. BlameOk(c, a)
  BY <1>3 DEF BlameOk
<1>11. AccountOk(c, a, log \o es)
  BY <1>3 DEF AccountOk
<1>12. c.own < counter' /\ c.arrival < counter'
  BY <1>1, <1>2, <1>3
<1>13. \A k \in DOMAIN es : es[k].id[2] < counter' /\ es[k].id[1] = "arrival"
  BY <1>1, <1>2, <1>8
<1> HIDE DEF c, a, es
<1> QED BY <1>1, <1>2, <1>3, <1>4, <1>5, <1>6, <1>8, <1>9, <1>10, <1>11, <1>12, <1>13, HttpTurn

LEMMA RefuseStep ==
  ASSUME HttpInv, NEW q \in HttpReqs, Refuse(q)
  PROVE  HttpInv'
<1> DEFINE c == [call[q] EXCEPT !.pc = "done", !.end = "invalid"]
           a == [status |-> 400, wire |-> Envelope(q)]
           id == <<"arrival", call[q].arrival>>
           e == Event("request", id, 0)
           f == Event("error", id, 400)
           es == <<e, f>>
<1>1. /\ call[q] \in HttpCalls /\ answer[q] \in Replies /\ log \in Seq(Events)
      /\ counter \in Nat \ {0} /\ call[q].own = 0 /\ call[q].arrival < counter
      /\ call \in [HttpReqs -> HttpCalls] /\ answer \in [HttpReqs -> Replies]
      /\ call[q].arrival \in Nat
  BY OfOne DEF Refuse
<1>2. counter' = counter
  BY DEF Refuse
<1>3. /\ c \in HttpCalls /\ c.own = 0 /\ c.arrival = call[q].arrival
      /\ c.pc = "done" /\ c.end = "invalid"
  BY <1>1 DEF HttpCalls, CallEnds
<1>4. call' = [call EXCEPT ![q] = c]
  BY <1>1 DEF Refuse
<1>5. a \in Replies /\ a.status = 400
  BY <1>1 DEF Replies, Envelope
<1>6. answer' = [answer EXCEPT ![q] = a]
  BY <1>1 DEF Refuse, Respond
<1>7. e \in Events /\ f \in Events /\ e.id = id /\ f.id = id
  BY <1>1, EventMade DEF EventKinds
<1>8. es \in Seq(Events) /\ \A k \in DOMAIN es : es[k].id = id
  BY <1>7, TwoEvents
<1>9. log' = log \o es
  BY DEF Refuse, Arrival
<1>10. BlameOk(c, a)
  BY <1>3, <1>5 DEF BlameOk
<1>11. AccountOk(c, a, log \o es)
  BY <1>3 DEF AccountOk
<1>12. \A k \in DOMAIN es : es[k].id[2] < counter' /\ es[k].id[1] = "arrival"
  BY <1>1, <1>2, <1>8
<1>13. c.own < counter' /\ c.arrival < counter' /\ c.own = call[q].own
       /\ counter' \in {counter, counter + 1}
  BY <1>1, <1>2, <1>3
<1> HIDE DEF c, a, es
<1>14. c \in HttpCalls /\ a \in Replies /\ es \in Seq(Events)
       /\ c.pc = "done" /\ c.own \in {call[q].own, counter}
  BY <1>3, <1>5, <1>8, <1>13
<1> QED BY <1>4, <1>6, <1>9, <1>10, <1>11, <1>12, <1>13, <1>14, HttpTurn

(* A handler takes the next id and refuses the prompt. *)
TurnsAway(q, end) ==
  /\ counter' = counter + 1
  /\ call' = [call EXCEPT ![q].pc = "done", ![q].own = counter, ![q].end = end]
  /\ Respond(q, 400, Envelope(q))
  /\ log' = log \o <<Event("request", <<call[q].req.api, counter>>, 0),
                     Event("error", <<call[q].req.api, counter>>, 400)>>

LEMMA TurnsAwayStep ==
  ASSUME HttpInv, NEW q \in HttpReqs, NEW end \in {"invalid", "too_long"}, TurnsAway(q, end)
  PROVE  HttpInv'
<1> DEFINE c == [call[q] EXCEPT !.pc = "done", !.own = counter, !.end = end]
           a == [status |-> 400, wire |-> Envelope(q)]
           id == <<call[q].req.api, counter>>
           e == Event("request", id, 0)
           f == Event("error", id, 400)
           es == <<e, f>>
<1>1. /\ call[q] \in HttpCalls /\ answer[q] \in Replies /\ log \in Seq(Events)
      /\ counter \in Nat \ {0} /\ call[q].arrival < counter
      /\ call \in [HttpReqs -> HttpCalls] /\ answer \in [HttpReqs -> Replies]
      /\ call[q].arrival \in Nat /\ call[q].req.api \in Apis
      /\ \A i \in DOMAIN log : log[i].id # id
      /\ counter' = counter + 1
  BY OfOne DEF TurnsAway
<1>2. /\ c \in HttpCalls /\ c.own = counter /\ c.arrival = call[q].arrival
      /\ c.pc = "done" /\ c.end = end /\ c.req = call[q].req
  BY <1>1 DEF HttpCalls, CallEnds
<1>3. call' = [call EXCEPT ![q] = c]
  BY <1>1 DEF TurnsAway
<1>4. a \in Replies /\ a.status = 400
  BY <1>1 DEF Replies, Envelope
<1>5. answer' = [answer EXCEPT ![q] = a]
  BY <1>1 DEF TurnsAway, Respond
<1>6. /\ e \in Events /\ f \in Events /\ e.id = id /\ f.id = id /\ f.kind = "error"
      /\ f.status = 400
  <2>1. id \in (Apis \cup {"arrival"}) \X Nat
    BY <1>1
  <2> HIDE DEF id
  <2> QED BY <2>1, EventMade DEF EventKinds
<1>7. /\ es \in Seq(Events) /\ DOMAIN es = {1, 2} /\ es[1] = e /\ es[2] = f
      /\ \A k \in DOMAIN es : es[k].id = id
  <2> HIDE DEF e, f, id
  <2> QED BY <1>6, TwoEvents
<1>8. BlameOk(c, a)
  BY <1>2, <1>4 DEF BlameOk
<1>9. Closes(end, 400, id, f)
  BY <1>6 DEF Closes, Final
<1>10. \A k \in DOMAIN es : es[k].id[2] < counter' /\ es[k].id = <<c.req.api, c.own>>
  BY <1>1, <1>2, <1>7
<1>11. c.own < counter' /\ c.arrival < counter'
  BY <1>1, <1>2
<1>12. id = <<c.req.api, c.own>>
  BY <1>2
<1>13. LoggedFirst(log \o es, id) /\ EndTrue(log \o es, id, end, 400)
  <2>1. log \in Seq(Events) /\ \A i \in DOMAIN log : log[i].id # id
    BY <1>1
  <2>2. es \in Seq(Events) /\ DOMAIN es = {1, 2} /\ es[1] = Event("request", id, 0)
    BY <1>7
  <2>3. Closes(end, 400, id, es[2])
    BY <1>7, <1>9
  <2> HIDE DEF es, id
  <2> QED BY <2>1, <2>2, <2>3, LogOpenedAndClosed
<1> HIDE DEF c, a, es, id
<1>14. AccountOk(c, a, log \o es)
  BY <1>2, <1>4, <1>12, <1>13 DEF AccountOk
<1>15. log' = log \o es
  BY DEF TurnsAway, es, id
<1>16. counter' \in {counter, counter + 1} /\ c.own \in {call[q].own, counter} /\ c.pc = "done"
  BY <1>1, <1>2
<1>17. c \in HttpCalls /\ a \in Replies /\ es \in Seq(Events)
  BY <1>2, <1>4, <1>7
<1> QED BY <1>3, <1>5, <1>8, <1>10, <1>11, <1>14, <1>15, <1>16, <1>17, HttpTurn

LEMMA CountTokensStep ==
  ASSUME HttpInv, NEW q \in HttpReqs, CountTokens(q)
  PROVE  HttpInv'
<1>1. CASE call[q].req.body = "empty"
  <2>1. TurnsAway(q, "invalid")
    BY <1>1 DEF CountTokens, TurnsAway
  <2> QED BY <2>1, TurnsAwayStep
<1>2. CASE call[q].req.body # "empty"
  <2> DEFINE c == [call[q] EXCEPT !.pc = "done", !.own = counter, !.end = "ok"]
             a == [status |-> 200, wire |-> "json"]
             id == <<"count_tokens", counter>>
             e == Event("request", id, 0)
             f == Event("outcome", id, 200)
             es == IF Traceable(q) THEN <<e, f>> ELSE <<f>>
  <2>1. /\ call[q] \in HttpCalls /\ answer[q] \in Replies /\ log \in Seq(Events)
        /\ counter \in Nat \ {0} /\ call[q].arrival < counter
        /\ call \in [HttpReqs -> HttpCalls] /\ answer \in [HttpReqs -> Replies]
        /\ call[q].arrival \in Nat /\ call[q].req.api = "count_tokens"
        /\ "count_tokens" \in Apis /\ counter' = counter + 1
        /\ \A i \in DOMAIN log : log[i].id # id
    BY OfOne DEF CountTokens
  <2>2. /\ c \in HttpCalls /\ c.own = counter /\ c.arrival = call[q].arrival
        /\ c.pc = "done" /\ c.end = "ok" /\ c.req = call[q].req
    BY <2>1 DEF HttpCalls, CallEnds, RunEnds
  <2>3. call' = [call EXCEPT ![q] = c]
    BY <1>2, <2>1 DEF CountTokens
  <2>4. a \in Replies /\ a.status = 200 /\ a.wire = "json"
    BY DEF Replies
  <2>5. answer' = [answer EXCEPT ![q] = a]
    BY <1>2, <2>1 DEF CountTokens, Respond
  <2>6. e \in Events /\ f \in Events /\ e.id = id /\ f.id = id /\ f.kind = "outcome"
    <3>1. id \in (Apis \cup {"arrival"}) \X Nat
      BY <2>1
    <3> HIDE DEF id
    <3> QED BY <3>1, EventMade DEF EventKinds
  <2>7. /\ es \in Seq(Events) /\ \A k \in DOMAIN es : es[k].id = id
        /\ Traceable(q) => DOMAIN es = {1, 2} /\ es[1] = e /\ es[2] = f
        /\ ~Traceable(q) => DOMAIN es = {1} /\ es[1] = f
    <3>1. CASE Traceable(q)
      BY <2>6, <3>1, TwoEvents
    <3>2. CASE ~Traceable(q)
      BY <2>6, <3>2, OneEvent
    <3> QED BY <3>1, <3>2
  <2>8. BlameOk(c, a)
    BY <2>2, <2>4 DEF BlameOk
  <2>9. Closes("ok", 200, id, f)
    BY <2>6 DEF Closes, Final
  <2>10. \A k \in DOMAIN es : es[k].id[2] < counter' /\ es[k].id = <<c.req.api, c.own>>
    BY <2>1, <2>2, <2>7
  <2>11. c.own < counter' /\ c.arrival < counter'
    BY <2>1, <2>2
  <2>12. log' = log \o es
    <3>1. log' = (log \o (IF Traceable(q) THEN <<e>> ELSE <<>>)) \o <<f>>
      BY <1>2 DEF CountTokens
    <3> HIDE DEF e, f, id
    <3> QED BY <2>1, <2>6, <3>1, Appended
  <2>13. id = <<c.req.api, c.own>> /\ (c.req.body # "long" => Traceable(q))
    BY <2>1, <2>2 DEF Traceable
  <2>14. /\ Traceable(q) => es[1] = Event("request", id, 0) /\ Closes("ok", 200, id, es[2])
         /\ ~Traceable(q) => Closes("ok", 200, id, es[1])
    BY <2>7, <2>9
  <2> HIDE DEF c, a, es, id
  <2>15. Traceable(q) => LoggedFirst(log \o es, id) /\ EndTrue(log \o es, id, "ok", 200)
    BY <2>1, <2>7, <2>14, LogOpenedAndClosed
  <2>16. ~Traceable(q) => EndTrue(log \o es, id, "ok", 200)
    <3>1. EndsIn(log, id) = {}
      BY <2>1 DEF EndsIn, Final
    <3> QED BY <2>1, <2>7, <2>14, <3>1, LogClosed
  <2>17. AccountOk(c, a, log \o es)
    BY <2>2, <2>4, <2>13, <2>15, <2>16 DEF AccountOk
  <2>18. counter' \in {counter, counter + 1} /\ c.own \in {call[q].own, counter} /\ c.pc = "done"
    BY <2>1, <2>2
  <2>19. c \in HttpCalls /\ a \in Replies /\ es \in Seq(Events)
    BY <2>2, <2>4, <2>7
  <2> QED BY <2>3, <2>5, <2>8, <2>10, <2>11, <2>12, <2>17, <2>18, <2>19, HttpTurn
<1> QED BY <1>1, <1>2

(* What a handler asks of the runtime *)
LEMMA BudgetHolds ==
  ASSUME Context > 1, NEW tokens \in Nat \ {0}, NEW n \in Nat, ~prompt_overflow(tokens)
  PROVE  /\ BudgetAfter(tokens, n) \in Int /\ tokens + BudgetAfter(tokens, n) <= Context
         /\ n > 0 => BudgetAfter(tokens, n) > 0
BY HttpAssumption DEF prompt_overflow, max_prompt_tokens, BudgetAfter

LEMMA PreflightStep ==
  ASSUME Context > 1, HttpInv, NEW q \in HttpReqs, Preflight(q)
  PROVE  HttpInv'
<1>1. CASE prompt_overflow(call[q].req.prompt)
  <2>1. TurnsAway(q, "too_long")
    BY <1>1 DEF Preflight, TurnsAway
  <2> QED BY <2>1, TurnsAwayStep
<1>2. CASE ~prompt_overflow(call[q].req.prompt)
  <2> DEFINE n == BudgetAfter(call[q].req.prompt, max_tokens(call[q].req))
             c == [call[q] EXCEPT !.pc = "run", !.own = counter, !.n = n]
             a == IF call[q].req.stream THEN [status |-> 200, wire |-> "open"] ELSE answer[q]
             id == <<call[q].req.api, counter>>
             e == Event("request", id, 0)
             es == IF Traceable(q) THEN <<e>> ELSE <<>>
  <2>1. /\ call[q] \in HttpCalls /\ answer[q] \in Replies /\ log \in Seq(Events)
        /\ counter \in Nat \ {0} /\ call[q].arrival < counter
        /\ call \in [HttpReqs -> HttpCalls] /\ answer \in [HttpReqs -> Replies]
        /\ call[q].arrival \in Nat /\ call[q].req.api \in Apis
        /\ counter' = counter + 1
        /\ \A i \in DOMAIN log : log[i].id # id
    BY OfOne DEF Preflight
  <2>2. n \in Int /\ call[q].req.prompt + n <= Context /\ (max_tokens(call[q].req) > 0 => n > 0)
    <3>1. call[q].req.prompt \in Nat \ {0} /\ max_tokens(call[q].req) \in Nat
      BY OfOne
    <3> QED BY <1>2, <3>1, BudgetHolds
  <2>3. call' = [call EXCEPT ![q] = c]
    BY <1>2, <2>1 DEF Preflight
  <2>4. answer' = [answer EXCEPT ![q] = a]
    BY <1>2, <2>1 DEF Preflight, Respond
  <2>5. e \in Events /\ e.id = id
    <3>1. id \in (Apis \cup {"arrival"}) \X Nat
      BY <2>1
    <3> HIDE DEF id
    <3> QED BY <3>1, EventMade DEF EventKinds
  <2>6. /\ es \in Seq(Events) /\ \A k \in DOMAIN es : es[k].id = id
        /\ Traceable(q) => DOMAIN es = {1} /\ es[1] = e
    <3> HIDE DEF e, id
    <3>1. CASE Traceable(q)
      BY <2>5, <3>1, OneEvent
    <3>2. CASE ~Traceable(q)
      BY <3>2
    <3> QED BY <3>1, <3>2
  <2>7. log' = log \o es
    <3>1. log' = IF Traceable(q) THEN Append(log, e) ELSE log
      BY <1>2 DEF Preflight
    <3> HIDE DEF e, id
    <3> QED BY <2>1, <2>5, <3>1, Appended
  <2> HIDE DEF n
  <2>8. /\ c \in HttpCalls /\ c.own = counter /\ c.arrival = call[q].arrival /\ c.n = n
        /\ c.pc = "run" /\ c.req = call[q].req
    BY <2>1, <2>2 DEF HttpCalls
  <2>9. a \in Replies
    BY <2>1 DEF Replies
  <2>10. BlameOk(c, a)
    BY <2>2, <2>8 DEF BlameOk
  <2>11. \A k \in DOMAIN es : es[k].id[2] < counter' /\ es[k].id = <<c.req.api, c.own>>
    BY <2>1, <2>6, <2>8
  <2>12. c.own < counter' /\ c.arrival < counter'
    BY <2>1, <2>8
  <2>13. id = <<c.req.api, c.own>> /\ (c.req.body # "long" => Traceable(q))
    BY <2>8 DEF Traceable
  <2>14. (Traceable(q) => LoggedFirst(log \o es, id)) /\ EndsIn(log \o es, id) = {}
    <3>1. log \in Seq(Events) /\ \A i \in DOMAIN log : log[i].id # id
      BY <2>1
    <3>2. es \in Seq(Events) /\ (Traceable(q) => DOMAIN es = {1} /\ es[1] = Event("request", id, 0))
      BY <2>6
    <3>3. \A k \in DOMAIN es : ~Final(es[k], id)
      BY <2>6 DEF Final, Event
    <3> HIDE DEF es, id
    <3>4. EndsIn(log, id) = {}
      BY <3>1 DEF EndsIn, Final
    <3>5. Traceable(q) => LoggedFirst(log \o es, id)
      BY <3>1, <3>2, FirstOpens
    <3> QED BY <3>1, <3>2, <3>3, <3>4, <3>5, NoEnd
  <2> HIDE DEF c, a, es, id
  <2>15. AccountOk(c, a, log \o es)
    BY <2>8, <2>13, <2>14 DEF AccountOk
  <2>16. counter' \in {counter, counter + 1} /\ c.own \in {call[q].own, counter} /\ c.pc = "run"
    BY <2>1, <2>8
  <2>17. c \in HttpCalls /\ a \in Replies /\ es \in Seq(Events)
    BY <2>6, <2>8, <2>9
  <2> QED BY <2>3, <2>4, <2>7, <2>10, <2>11, <2>12, <2>15, <2>16, <2>17, HttpTurn
<1> QED BY <1>1, <1>2

-----------------------------------------------------------------------------
(* The runtime's answers *)

EndLog(q, end) ==
  LET own(kind, status) == Event(kind, Own(q), status)
  IN  CASE end = "ok" -> <<own("outcome", 200)>>
        [] end = "overloaded" -> <<own("error", 503)>>
        [] end = "failed" -> <<own("error", 500)>>
        [] end = "cancelled" /\ call[q].req.api = "responses" ->
              <<own("cancel", 0), own("outcome", 499)>>
        [] OTHER -> <<own("cancel", 0)>>

Says(end, a) ==
  /\ a.status # 400
  /\ end = "overloaded" => a.status = 503 \/ a.wire = "overloaded_error"
  /\ end = "failed" => a.status = 500 \/ a.wire = "api_error"
  /\ end \in {"gone", "cancelled"} => a.status = 499 \/ a.wire = "severed"
  /\ end = "ok" => a.status = 200 /\ a.wire \in {"json", "finished"}

Finishes(q, end, a) ==
  /\ call[q].pc = "run" /\ Says(end, a)
  /\ call' = [call EXCEPT ![q].pc = "done", ![q].end = end]
  /\ answer' = [answer EXCEPT ![q] = a]
  /\ log' = log \o EndLog(q, end)
  /\ UNCHANGED counter

LEMMA EndLogged ==
  ASSUME HttpInv, NEW q \in HttpReqs, NEW end \in RunEnds
  PROVE  /\ EndLog(q, end) \in Seq(Events)
         /\ \A k \in DOMAIN EndLog(q, end) : EndLog(q, end)[k].id = Own(q)
         /\ \A k \in DOMAIN EndLog(q, end) : EndLog(q, end)[k].kind # "request"
         /\ 1 \in DOMAIN EndLog(q, end)
         /\ end \in {"gone", "cancelled"} => EndLog(q, end)[1].kind = "cancel"
         /\ end \notin {"gone", "cancelled"} =>
              /\ \A k \in DOMAIN EndLog(q, end) : k = 1
              /\ \A status : status # 400 => Closes(end, status, Own(q), EndLog(q, end)[1])
<1> DEFINE id == Own(q)
           o == Event("outcome", id, 200)
           x == Event("outcome", id, 499)
           e == Event("error", id, 503)
           f == Event("error", id, 500)
           g == Event("cancel", id, 0)
<1>1. id \in (Apis \cup {"arrival"}) \X Nat
  <2>1. call[q].own \in Nat /\ call[q].req.api \in Apis
    BY OfOne
  <2> QED BY <2>1 DEF Own
<1> HIDE DEF id
<1>2. /\ o \in Events /\ o.kind = "outcome" /\ o.id = id
      /\ x \in Events /\ x.kind = "outcome" /\ x.id = id
  BY <1>1, EventMade DEF EventKinds
<1>3. /\ e \in Events /\ e.kind = "error" /\ e.id = id /\ e.status = 503
      /\ f \in Events /\ f.kind = "error" /\ f.id = id /\ f.status = 500
  BY <1>1, EventMade DEF EventKinds
<1>4. g \in Events /\ g.kind = "cancel" /\ g.id = id
  BY <1>1, EventMade DEF EventKinds
<1>5. EndLog(q, end) = CASE end = "ok" -> <<o>> [] end = "overloaded" -> <<e>>
                         [] end = "failed" -> <<f>>
                         [] end = "cancelled" /\ call[q].req.api = "responses" -> <<g, x>>
                         [] OTHER -> <<g>>
  BY DEF EndLog, id
<1>6. \A status : status # 400 => /\ Closes("ok", status, id, o)
                                  /\ Closes("overloaded", status, id, e)
                                  /\ Closes("failed", status, id, f)
  BY <1>2, <1>3 DEF Closes, Final
<1> DEFINE l == EndLog(q, end)
<1> HIDE DEF o, x, e, f, g, l
<1> SUFFICES /\ l \in Seq(Events) /\ \A k \in DOMAIN l : l[k].id = id /\ l[k].kind # "request"
             /\ 1 \in DOMAIN l /\ (end \in {"gone", "cancelled"} => l[1].kind = "cancel")
             /\ end \notin {"gone", "cancelled"} =>
                  /\ \A k \in DOMAIN l : k = 1
                  /\ \A status : status # 400 => Closes(end, status, id, l[1])
  BY DEF l, id
<1>7. CASE end = "ok"
  <2>1. l = <<o>>
    BY <1>5, <1>7 DEF l
  <2> QED BY <1>2, <1>6, <1>7, <2>1, OneEvent
<1>8. CASE end = "overloaded"
  <2>1. l = <<e>>
    BY <1>5, <1>8 DEF l
  <2> QED BY <1>3, <1>6, <1>8, <2>1, OneEvent
<1>9. CASE end = "failed"
  <2>1. l = <<f>>
    BY <1>5, <1>9 DEF l
  <2> QED BY <1>3, <1>6, <1>9, <2>1, OneEvent
<1>10. CASE end \in {"gone", "cancelled"}
  <2>1. l = <<g, x>> \/ l = <<g>>
    BY <1>5, <1>10 DEF l
  <2>2. CASE l = <<g>>
    BY <1>4, <1>10, <2>2, OneEvent
  <2>3. CASE l = <<g, x>>
    BY <1>2, <1>4, <1>10, <2>3, TwoEvents
  <2> QED BY <2>1, <2>2, <2>3
<1> QED BY <1>7, <1>8, <1>9, <1>10 DEF RunEnds

LEMMA FinishesStep ==
  ASSUME HttpInv, NEW q \in HttpReqs, NEW end \in RunEnds, NEW a \in Replies, Finishes(q, end, a)
  PROVE  HttpInv'
<1> DEFINE c == [call[q] EXCEPT !.pc = "done", !.end = end]
           id == Own(q)
           es == EndLog(q, end)
<1>1. /\ call[q] \in HttpCalls /\ log \in Seq(Events) /\ counter \in Nat \ {0}
      /\ call[q].own < counter /\ call[q].arrival < counter
      /\ call \in [HttpReqs -> HttpCalls] /\ AccountOk(call[q], answer[q], log)
      /\ call[q].pc = "run" /\ counter' = counter /\ Says(end, a)
  BY OfOne DEF Finishes
<1>2. /\ c \in HttpCalls /\ c.own = call[q].own /\ c.arrival = call[q].arrival
      /\ c.pc = "done" /\ c.end = end /\ c.req = call[q].req
  BY <1>1 DEF HttpCalls, CallEnds
<1>3. call' = [call EXCEPT ![q] = c]
  BY <1>1 DEF Finishes
<1>4. answer' = [answer EXCEPT ![q] = a] /\ log' = log \o es
  BY DEF Finishes
<1>5. /\ es \in Seq(Events) /\ \A k \in DOMAIN es : es[k].id = id
      /\ \A k \in DOMAIN es : es[k].kind # "request"
      /\ 1 \in DOMAIN es /\ (end \in {"gone", "cancelled"} => es[1].kind = "cancel")
      /\ end \notin {"gone", "cancelled"} =>
            (\A k \in DOMAIN es : k = 1) /\ Closes(end, a.status, id, es[1])
  <2>1. a.status # 400
    BY <1>1 DEF Says
  <2>2. /\ es \in Seq(Events) /\ \A k \in DOMAIN es : es[k].id = id
        /\ \A k \in DOMAIN es : es[k].kind # "request"
        /\ 1 \in DOMAIN es /\ (end \in {"gone", "cancelled"} => es[1].kind = "cancel")
    BY EndLogged, Zenon
  <2>3. end \notin {"gone", "cancelled"} =>
          /\ \A k \in DOMAIN es : k = 1
          /\ \A status : status # 400 => Closes(end, status, id, es[1])
    BY EndLogged, Zenon
  <2> HIDE DEF es, id
  <2> QED BY <2>1, <2>2, <2>3
<1>6. id = <<c.req.api, c.own>> /\ id[2] < counter'
  BY <1>1, <1>2 DEF Own
<1>7. BlameOk(c, a)
  BY <1>1, <1>2 DEF BlameOk, Says, RunEnds
<1> HIDE DEF c, id, es
<1>8. /\ LoggedFirst(log, id) => LoggedFirst(log \o es, id)
      /\ EndsIn(log, id) = {} => EndTrue(log \o es, id, end, a.status)
  <2>1. CASE end \in {"gone", "cancelled"}
    BY <1>1, <1>5, <2>1, CancelFirst, FirstKept
  <2>2. CASE end \notin {"gone", "cancelled"}
    BY <1>1, <1>5, <2>2, LogClosed, FirstKept
  <2> QED BY <2>1, <2>2
<1>9. AccountOk(c, a, log \o es)
  BY <1>1, <1>2, <1>6, <1>8 DEF AccountOk
<1>10. \A k \in DOMAIN es : es[k].id[2] < counter' /\ es[k].id = <<c.req.api, c.own>>
  BY <1>5, <1>6
<1>11. c.own < counter' /\ c.arrival < counter'
  BY <1>1, <1>2
<1>12. /\ counter' \in {counter, counter + 1} /\ c.own \in {call[q].own, counter} /\ c.pc = "done"
       /\ c \in HttpCalls /\ es \in Seq(Events)
  BY <1>1, <1>2, <1>5
<1> QED BY <1>3, <1>4, <1>7, <1>9, <1>10, <1>11, <1>12, HttpTurn

(* RunLog and what the catches add to it *)
LEMMA RunLogged ==
  ASSUME HttpInv, NEW q \in HttpReqs, NEW end \in RunEnds, NEW es,
         end = "ok" => es = <<Event("outcome", Own(q), 200)>>,
         end = "overloaded" => es = <<Event("error", Own(q), 503)>>,
         end = "failed" => es = <<Event("error", Own(q), 500)>>,
         end = "cancelled" =>
           es = IF call[q].req.api = "responses" THEN <<Event("outcome", Own(q), 499)>> ELSE <<>>,
         end = "gone" => es = <<>>
  PROVE  (log \o RunLog(q, end)) \o es = log \o EndLog(q, end)
<1> DEFINE id == Own(q)
           x == Event("outcome", id, 499)
           g == Event("cancel", id, 0)
<1>1. id \in (Apis \cup {"arrival"}) \X Nat /\ log \in Seq(Events)
  <2>1. call[q].own \in Nat /\ call[q].req.api \in Apis /\ log \in Seq(Events)
    BY OfOne
  <2> QED BY <2>1 DEF Own
<1> HIDE DEF id
<1>2. x \in Events /\ g \in Events
  BY <1>1, EventMade DEF EventKinds
<1>3. CASE end \in {"ok", "overloaded", "failed"}
  <2>1. RunLog(q, end) = <<>> /\ EndLog(q, end) = es
    BY <1>3 DEF RunLog, EndLog
  <2>2. log \o <<>> = log
    BY <1>1, <1>2, Appended
  <2> QED BY <2>1, <2>2
<1>4. CASE end \in {"gone", "cancelled"}
  <2>1. RunLog(q, end) = <<g>>
    BY <1>4 DEF RunLog, id
  <2>2. CASE end = "cancelled" /\ call[q].req.api = "responses"
    <3>1. EndLog(q, end) = <<g, x>> /\ es = <<x>>
      BY <2>2 DEF EndLog, id
    <3> HIDE DEF x, g
    <3>2. (log \o <<g>>) \o <<x>> = log \o <<g, x>>
      BY <1>1, <1>2, Appended
    <3> QED BY <2>1, <3>1, <3>2
  <2>3. CASE ~(end = "cancelled" /\ call[q].req.api = "responses")
    <3>1. EndLog(q, end) = <<g>> /\ es = <<>>
      BY <1>4, <2>3 DEF EndLog, id
    <3> HIDE DEF g
    <3>2. log \o <<g>> \in Seq(Events)
      BY <1>1, <1>2, OneEvent, Joined
    <3>3. (log \o <<g>>) \o <<>> = log \o <<g>>
      BY <1>2, <3>2, Appended
    <3> QED BY <2>1, <3>1, <3>3
  <2> QED BY <2>2, <2>3
<1> QED BY <1>3, <1>4 DEF RunEnds

LEMMA BufferedStep ==
  ASSUME HttpInv, NEW q \in HttpReqs, NEW end \in RunEnds, BufferedEnds(q, end)
  PROVE  HttpInv'
<1> DEFINE status == engine_guard(end)
           a == [status |-> status, wire |-> IF status = 200 THEN "json" ELSE Envelope(q)]
           es == CASE status \in {500, 503} -> <<Event("error", Own(q), status)>>
                   [] status = 400 -> <<Event("error", Arrival(q), 400)>>
                   [] status = 200 -> <<Event("outcome", Own(q), status)>>
                   [] end = "cancelled" /\ call[q].req.api = "responses" ->
                         <<Event("outcome", Own(q), status)>>
                   [] OTHER -> <<>>
<1>1. /\ end = "ok" => status = 200
      /\ end = "overloaded" => status = 503
      /\ end = "failed" => status = 500
      /\ end \in {"gone", "cancelled"} => status = 499
  BY DEF engine_guard
<1>2. status \in {200, 499, 500, 503}
  BY <1>1 DEF RunEnds
<1>3. log' = (log \o RunLog(q, end)) \o es
  BY DEF BufferedEnds
<1>4. /\ call[q].pc = "run" /\ call' = [call EXCEPT ![q].pc = "done", ![q].end = end]
      /\ answer' = [answer EXCEPT ![q] = a] /\ UNCHANGED counter
  BY DEF BufferedEnds, Respond
<1> HIDE DEF status
<1>5. a \in Replies /\ a.status = status /\ (status = 200 => a.wire = "json")
  BY <1>2 DEF Replies, Envelope
<1>6. /\ end = "ok" => es = <<Event("outcome", Own(q), 200)>>
      /\ end = "overloaded" => es = <<Event("error", Own(q), 503)>>
      /\ end = "failed" => es = <<Event("error", Own(q), 500)>>
      /\ end = "cancelled" =>
           es = IF call[q].req.api = "responses" THEN <<Event("outcome", Own(q), 499)>> ELSE <<>>
      /\ end = "gone" => es = <<>>
  BY <1>1
<1>7. Says(end, a)
  BY <1>1, <1>2, <1>5 DEF Says
<1> HIDE DEF a, es
<1>8. log' = log \o EndLog(q, end)
  BY <1>3, <1>6, RunLogged
<1>9. Finishes(q, end, a)
  BY <1>4, <1>7, <1>8 DEF Finishes
<1> QED BY <1>5, <1>9, FinishesStep

LEMMA StreamStep ==
  ASSUME HttpInv, NEW q \in HttpReqs, NEW end \in RunEnds, StreamEnds(q, end)
  PROVE  HttpInv'
<1> DEFINE status == engine_guard(end)
           wire == CASE end = "ok" -> "finished"
                     [] end \in {"gone", "cancelled"} -> "severed"
                     [] end = "overloaded" -> "overloaded_error"
                     [] end = "failed" -> "api_error"
           a == [status |-> 200, wire |-> wire]
           es == CASE end = "ok" -> <<Event("outcome", Own(q), status)>>
                   [] end \in {"overloaded", "failed"} -> <<Event("error", Own(q), status)>>
                   [] end = "cancelled" /\ call[q].req.api = "responses" ->
                         <<Event("outcome", Own(q), status)>>
                   [] OTHER -> <<>>
<1>1. /\ end = "ok" => status = 200 /\ wire = "finished"
      /\ end = "overloaded" => status = 503 /\ wire = "overloaded_error"
      /\ end = "failed" => status = 500 /\ wire = "api_error"
      /\ end \in {"gone", "cancelled"} => status = 499 /\ wire = "severed"
  BY DEF engine_guard
<1>2. wire \in {"finished", "severed", "overloaded_error", "api_error"}
  BY <1>1 DEF RunEnds
<1>3. log' = (log \o RunLog(q, end)) \o es
  BY DEF StreamEnds
<1>4. /\ call[q].pc = "run" /\ call' = [call EXCEPT ![q].pc = "done", ![q].end = end]
      /\ answer' = [answer EXCEPT ![q] = a] /\ UNCHANGED counter
  BY DEF StreamEnds, Respond
<1> HIDE DEF status, wire
<1>5. a \in Replies /\ a.status = 200 /\ a.wire = wire
  BY <1>2 DEF Replies
<1>6. /\ end = "ok" => es = <<Event("outcome", Own(q), 200)>>
      /\ end = "overloaded" => es = <<Event("error", Own(q), 503)>>
      /\ end = "failed" => es = <<Event("error", Own(q), 500)>>
      /\ end = "cancelled" =>
           es = IF call[q].req.api = "responses" THEN <<Event("outcome", Own(q), 499)>> ELSE <<>>
      /\ end = "gone" => es = <<>>
  BY <1>1
<1>7. Says(end, a)
  BY <1>1, <1>5 DEF Says
<1> HIDE DEF a, es
<1>8. log' = log \o EndLog(q, end)
  BY <1>3, <1>6, RunLogged
<1>9. Finishes(q, end, a)
  BY <1>4, <1>7, <1>8 DEF Finishes
<1> QED BY <1>5, <1>9, FinishesStep

LEMMA PrewarmGuardStep ==
  ASSUME HttpInv, NEW q \in HttpReqs, NEW admin \in BOOLEAN, NEW admitted \in BOOLEAN,
         PrewarmGuard(q, admin, admitted)
  PROVE  HttpInv'
<1> DEFINE end == CASE ~admin -> "forbidden" [] ~admitted -> "draining"
                    [] Invalid(q) -> "invalid"
                    [] call[q].req.prompt > max_prompt_tokens -> "too_long" [] OTHER -> "none"
           status == CASE end = "forbidden" -> 403 [] end = "draining" -> 503 [] OTHER -> 400
           refused == [call[q] EXCEPT !.pc = "done", !.end = end]
           runs == [call[q] EXCEPT !.pc = "run", !.own = counter]
           a == [status |-> status, wire |-> Envelope(q)]
<1>1. /\ call[q] \in HttpCalls /\ answer[q] \in Replies /\ log \in Seq(Events)
      /\ counter \in Nat \ {0} /\ call[q].own = 0 /\ call[q].arrival < counter
      /\ call \in [HttpReqs -> HttpCalls] /\ answer \in [HttpReqs -> Replies]
      /\ call[q].arrival \in Nat /\ call[q].req.api = "prewarm"
  BY OfOne DEF PrewarmGuard
<1>2. log' = log \o <<>> /\ <<>> \in Seq(Events) /\ DOMAIN <<>> = {}
  BY <1>1 DEF PrewarmGuard
<1>3. /\ end = "none" => /\ counter' = counter + 1
                         /\ call' = [call EXCEPT ![q].pc = "run", ![q].own = counter]
                         /\ UNCHANGED answer
      /\ end # "none" => /\ call' = [call EXCEPT ![q].pc = "done", ![q].end = end]
                         /\ Respond(q, status, Envelope(q))
                         /\ UNCHANGED counter
  BY Zenon DEF PrewarmGuard
<1>4. end \in {"forbidden", "draining", "invalid", "too_long", "none"}
  OBVIOUS
<1>5. /\ end = "forbidden" => status = 403
      /\ end = "draining" => status = 503
      /\ end \in {"invalid", "too_long"} => status = 400
  OBVIOUS
<1> HIDE DEF end
<1>6. status \in Nat
  OBVIOUS
<1> HIDE DEF status
<1>7. CASE end = "none"
  <2>1. /\ runs \in HttpCalls /\ runs.own = counter /\ runs.arrival = call[q].arrival
        /\ runs.pc = "run" /\ runs.req = call[q].req
    BY <1>1 DEF HttpCalls
  <2>2. call' = [call EXCEPT ![q] = runs] /\ answer' = [answer EXCEPT ![q] = answer[q]]
    BY <1>1, <1>3, <1>7
  <2>3. BlameOk(runs, answer[q]) /\ AccountOk(runs, answer[q], log \o <<>>)
    BY <1>1, <2>1 DEF BlameOk, AccountOk
  <2>4. /\ counter' \in {counter, counter + 1} /\ runs.own < counter' /\ runs.arrival < counter'
        /\ runs.own \in {call[q].own, counter}
    BY <1>1, <1>3, <1>7, <2>1
  <2> HIDE DEF runs
  <2> QED BY <1>1, <1>2, <2>1, <2>2, <2>3, <2>4, HttpTurn
<1>8. CASE end # "none"
  <2>1. /\ refused \in HttpCalls /\ refused.own = 0 /\ refused.arrival = call[q].arrival
        /\ refused.pc = "done" /\ refused.end = end
    BY <1>1, <1>4 DEF HttpCalls, CallEnds
  <2>2. call' = [call EXCEPT ![q] = refused] /\ answer' = [answer EXCEPT ![q] = a]
    BY <1>1, <1>3, <1>8 DEF Respond
  <2>3. a \in Replies /\ a.status = status
    BY <1>6 DEF Replies, Envelope
  <2>4. BlameOk(refused, a) /\ AccountOk(refused, a, log \o <<>>)
    BY <1>4, <1>5, <1>8, <2>1, <2>3 DEF BlameOk, AccountOk
  <2>5. /\ counter' \in {counter, counter + 1} /\ refused.own < counter'
        /\ refused.arrival < counter' /\ refused.own \in {call[q].own, counter}
    BY <1>1, <1>3, <1>8, <2>1
  <2> HIDE DEF refused, a
  <2> QED BY <1>1, <1>2, <2>1, <2>2, <2>3, <2>4, <2>5, HttpTurn
<1> QED BY <1>7, <1>8

LEMMA PrewarmEndsStep ==
  ASSUME HttpInv, NEW q \in HttpReqs, NEW end \in RunEnds, NEW retained \in BOOLEAN,
         PrewarmEnds(q, end, retained)
  PROVE  HttpInv'
<1> DEFINE status == IF end # "ok" THEN engine_guard(end) ELSE IF retained THEN 200 ELSE 507
           last == IF status = 507 THEN "evicted" ELSE end
           kind == IF end = "ok" THEN "prefix_prewarm" ELSE "error"
           c == [call[q] EXCEPT !.pc = "done", !.end = last]
           a == [status |-> status, wire |-> IF status = 200 THEN "json" ELSE Envelope(q)]
           id == Own(q)
           e == Event(kind, id, status)
           es == <<e>>
<1>1. /\ call[q] \in HttpCalls /\ answer[q] \in Replies /\ log \in Seq(Events)
      /\ counter \in Nat \ {0} /\ call[q].own < counter /\ call[q].arrival < counter
      /\ call \in [HttpReqs -> HttpCalls] /\ answer \in [HttpReqs -> Replies]
      /\ call[q].own \in Nat /\ call[q].req.api \in Apis
  BY OfOne
<1>2. /\ call[q].req.api = "prewarm" /\ end \in {"ok", "overloaded", "failed"}
      /\ log' = Append(log, e) /\ answer' = [answer EXCEPT ![q] = a]
      /\ call' = [call EXCEPT ![q].pc = "done", ![q].end = last] /\ counter' = counter
  BY DEF PrewarmEnds, Respond
<1>3. /\ \/ status = 507 /\ last = "evicted"
         \/ status = 200 /\ last = "ok"
         \/ status = 503 /\ last = "overloaded"
         \/ status = 500 /\ last = "failed"
      /\ kind \in EventKinds
  <2>1. end \in {"ok", "overloaded", "failed"}
    BY DEF PrewarmEnds
  <2> QED BY <2>1 DEF engine_guard, EventKinds
<1> HIDE DEF status, last, kind
<1>4. status \in Nat /\ last \in CallEnds
  BY <1>3 DEF CallEnds, RunEnds
<1>5. /\ c \in HttpCalls /\ c.own = call[q].own /\ c.arrival = call[q].arrival
      /\ c.pc = "done" /\ c.end = last /\ c.req = call[q].req
  BY <1>1, <1>4 DEF HttpCalls
<1>6. call' = [call EXCEPT ![q] = c]
  BY <1>1, <1>2
<1>7. a \in Replies /\ a.status = status /\ (status = 200 => a.wire = "json")
  BY <1>4 DEF Replies, Envelope
<1>8. e \in Events /\ e.id = id
  <2>1. id \in (Apis \cup {"arrival"}) \X Nat
    BY <1>1 DEF Own
  <2> HIDE DEF id
  <2> QED BY <1>3, <1>4, <2>1, EventMade
<1>9. id = <<c.req.api, c.own>> /\ id[2] < counter'
  BY <1>1, <1>2, <1>5 DEF Own
<1>10. BlameOk(c, a)
  BY <1>3, <1>5, <1>7 DEF BlameOk
<1>11. AccountOk(c, a, log \o es)
  BY <1>2, <1>5 DEF AccountOk
<1> HIDE DEF c, a, id, e
<1>12. es \in Seq(Events) /\ \A k \in DOMAIN es : es[k].id = id
  BY <1>8, OneEvent
<1>13. log' = log \o es
  BY <1>1, <1>2, <1>8, Appended
<1> HIDE DEF es
<1>14. \A k \in DOMAIN es : es[k].id[2] < counter' /\ es[k].id = <<c.req.api, c.own>>
  BY <1>9, <1>12
<1>15. c.own < counter' /\ c.arrival < counter'
  BY <1>1, <1>2, <1>5
<1>16. /\ counter' \in {counter, counter + 1} /\ c.own \in {call[q].own, counter} /\ c.pc = "done"
       /\ c \in HttpCalls /\ a \in Replies /\ es \in Seq(Events)
  BY <1>2, <1>5, <1>7, <1>12
<1>17. answer' = [answer EXCEPT ![q] = a]
  BY <1>2
<1> QED BY <1>6, <1>10, <1>11, <1>13, <1>14, <1>15, <1>16, <1>17, HttpTurn

LEMMA HttpSteps ==
  ASSUME Context > 1, HttpInv, [HttpNext]_httpVars
  PROVE  HttpInv'
<1>1. CASE HttpNext
  <2>1. PICK q \in HttpReqs :
          \/ \E admitted \in BOOLEAN : guarded(q, admitted)
          \/ \E admitted \in BOOLEAN : anthropic_guarded(q, admitted)
          \/ Refuse(q)
          \/ CountTokens(q)
          \/ Completions(q) \/ Chat(q) \/ Messages(q) \/ Responses(q)
          \/ \E end \in RunEnds : BufferedEnds(q, end)
          \/ \E end \in RunEnds : StreamEnds(q, end)
          \/ \E admin, admitted \in BOOLEAN : PrewarmGuard(q, admin, admitted)
          \/ \E end \in RunEnds, retained \in BOOLEAN : PrewarmEnds(q, end, retained)
    BY <1>1 DEF HttpNext
  <2>2. CASE \E admitted \in BOOLEAN : guarded(q, admitted) \/ anthropic_guarded(q, admitted)
    BY <2>2, ArriveStep DEF guarded, anthropic_guarded
  <2>3. CASE Refuse(q)
    BY <2>3, RefuseStep
  <2>4. CASE CountTokens(q)
    BY <2>4, CountTokensStep
  <2>5. CASE Completions(q) \/ Chat(q) \/ Messages(q) \/ Responses(q)
    BY <2>5, PreflightStep DEF Completions, Chat, Messages, Responses
  <2>6. CASE \E end \in RunEnds : BufferedEnds(q, end)
    BY <2>6, BufferedStep
  <2>7. CASE \E end \in RunEnds : StreamEnds(q, end)
    BY <2>7, StreamStep
  <2>8. CASE \E admin, admitted \in BOOLEAN : PrewarmGuard(q, admin, admitted)
    BY <2>8, PrewarmGuardStep
  <2>9. CASE \E end \in RunEnds, retained \in BOOLEAN : PrewarmEnds(q, end, retained)
    BY <2>9, PrewarmEndsStep
  <2> QED BY <2>1, <2>2, <2>3, <2>4, <2>5, <2>6, <2>7, <2>8, <2>9
<1>2. CASE UNCHANGED httpVars
  BY <1>2 DEF httpVars, HttpInv, HttpTypes, IdInv, BlameOk, AccountOk
<1> QED BY <1>1, <1>2

LEMMA BlameFollows == HttpInv => BlameRight
<1> SUFFICES ASSUME HttpInv, NEW q \in HttpReqs
             PROVE  /\ call[q].pc = "done" =>
                         CASE call[q].end \in {"invalid", "too_long"} -> answer[q].status = 400
                           [] call[q].end \in {"overloaded", "draining"} ->
                                 answer[q].status = 503 \/ answer[q].wire = "overloaded_error"
                           [] call[q].end = "failed" ->
                                 answer[q].status = 500 \/ answer[q].wire = "api_error"
                           [] call[q].end \in {"gone", "cancelled"} ->
                                 answer[q].status = 499 \/ answer[q].wire = "severed"
                           [] call[q].end = "ok" ->
                                 answer[q].status = 200 /\ answer[q].wire \in {"json", "finished"}
                           [] OTHER -> answer[q].status \in {403, 507}
                    /\ call[q].pc = "run" /\ call[q].req.api # "prewarm" =>
                         /\ call[q].req.prompt + call[q].n <= Context
                         /\ max_tokens(call[q].req) > 0 => call[q].n > 0
  BY DEF BlameRight
<1>1. BlameOk(call[q], answer[q]) /\ call[q] \in HttpCalls
  BY OfOne
<1>2. call[q].end \in CallEnds
  BY <1>1 DEF HttpCalls
<1> QED BY <1>1, <1>2 DEF BlameOk, CallEnds, RunEnds

LEMMA AccountFollows == HttpInv => TraceAccounts
<1> SUFFICES ASSUME HttpInv, NEW q \in HttpReqs, call[q].own # 0, call[q].req.api # "prewarm"
             PROVE  /\ Traceable(q) =>
                         /\ \E i \in DOMAIN log : log[i] = Event("request", Own(q), 0)
                         /\ \A i, j \in DOMAIN log :
                              log[i].kind = "request" /\ log[i].id = Own(q) /\ log[j].id = Own(q) =>
                                i <= j
                    /\ call[q].pc = "done" =>
                         IF call[q].end \in {"gone", "cancelled"}
                         THEN \E i \in Ends(q) :
                                log[i].kind = "cancel" /\ \A j \in Ends(q) : i <= j
                         ELSE \E i \in DOMAIN log :
                                /\ Ends(q) = {i}
                                /\ IF call[q].end = "ok" THEN log[i] = Event("outcome", Own(q), 200)
                                   ELSE /\ log[i].kind = "error"
                                        /\ log[i].status = 400 <=> answer[q].status = 400
  BY DEF TraceAccounts
<1>1. AccountOk(call[q], answer[q], log)
  BY DEF HttpInv
<1>2. /\ Traceable(q) => LoggedFirst(log, Own(q))
      /\ call[q].pc = "done" => EndTrue(log, Own(q), call[q].end, answer[q].status)
  BY <1>1 DEF AccountOk, Own, Traceable
<1>3. Ends(q) = EndsIn(log, Own(q))
  BY DEF Ends, EndsIn, Final
<1>4. ASSUME Traceable(q)
      PROVE  /\ \E i \in DOMAIN log : log[i] = Event("request", Own(q), 0)
             /\ \A i, j \in DOMAIN log :
                  log[i].kind = "request" /\ log[i].id = Own(q) /\ log[j].id = Own(q) => i <= j
  BY <1>2, <1>4 DEF LoggedFirst
<1> QED BY <1>2, <1>3, <1>4 DEF EndTrue

LEMMA HttpStays ==
  ASSUME Context > 1
  PROVE  HttpSpec => []HttpInv
<1>1. HttpInit => HttpInv
  BY HttpInits
<1>2. HttpInv /\ [HttpNext]_httpVars => HttpInv'
  BY HttpSteps
<1> QED BY <1>1, <1>2, PTL DEF HttpSpec

(* Whatever the bodies, budgets and ends of runs, the class of an answer     *)
(* names who is to blame, and the runtime is asked for at least one token    *)
(* and no more than the context holds (engine_guard, the wrappers and the    *)
(* clamp of max_tokens in metal_server.cpp).  A context of one token is left *)
(* out: the server boots with --ctx 1, takes a prompt of one token and clamps *)
(* its budget to zero.                                                       *)
THEOREM BlameStaysRight ==
  ASSUME Context > 1
  PROVE  HttpSpec => []BlameRight
<1>1. HttpSpec => []HttpInv
  BY HttpStays
<1>2. HttpInv => BlameRight
  BY BlameFollows
<1> QED BY <1>1, <1>2, PTL

(* The trace accounts for every answer too: a request ends once and in the  *)
(* class of its answer, it is logged before anything that happens to it     *)
(* unless the 64 KB cut of its prompt splits a character, and what other    *)
(* requests log in between changes none of it (TraceLog, traced_engine and  *)
(* the handlers of metal_server.cpp).                                       *)
THEOREM AnswersStayTrue ==
  ASSUME Context > 1
  PROVE  HttpSpec => []AnswersTrue
<1>1. HttpSpec => []HttpInv
  BY HttpStays
<1>2. HttpInv => AnswersTrue
  BY BlameFollows, AccountFollows DEF AnswersTrue
<1> QED BY <1>1, <1>2, PTL
=============================================================================
