---------------------------- MODULE GpuGateProofs ----------------------------
(* The CUDA gate excludes and rotates, for any set of threads.  Besides    *)
(* the accounting of tickets, the argument needs the count of waiters: a   *)
(* holder that saw nwait positive has a sleeper behind it, so its yield    *)
(* always hands over a ticket somebody holds.                              *)
EXTENDS GpuGate, FiniteSetTheorems, TLAPS

Sleepers == {t \in Thread : gstate[t] = "wait"}

(* The inductive invariant.  That the sleepers are finitely many is what   *)
(* makes counting them mean something when Thread is not finite.           *)
GateInv ==
  /\ GateTypeOK
  /\ GateTicketsAccounted
  /\ WaitersSeen
  /\ IsFiniteSet(Sleepers)

LEMMA GateInitInv == GateInit => GateInv
<1> SUFFICES ASSUME GateInit PROVE GateInv
  OBVIOUS
<1>1. GateTypeOK
  BY DEF GateInit, GateTypeOK
<1>2. GateTicketsAccounted
  BY DEF GateInit, GateTicketsAccounted, Queued, Holds
<1>3. Sleepers = {}
  BY DEF GateInit, Sleepers
<1>4. IsFiniteSet(Sleepers) /\ Cardinality(Sleepers) = 0
  BY <1>3, FS_EmptySet
<1>5. WaitersSeen
  BY <1>4 DEF GateInit, WaitersSeen, Sleepers
<1> QED BY <1>1, <1>2, <1>4, <1>5 DEF GateInv

(* Exclusion: two holders would hold the one ticket being served. *)
LEMMA GateInvExclusive == GateInv => GateExclusive
  BY DEF GateInv, GateTicketsAccounted, GateExclusive, Queued, Holds

(* Counting: a thread that goes to sleep adds one to the count, one that   *)
(* wakes takes one off.                                                    *)
LEMMA SleeperAdded ==
  ASSUME NEW t \in Thread, GateInv, gstate[t] # "wait",
         gstate' = [gstate EXCEPT ![t] = "wait"], nwait' = nwait + 1
  PROVE  /\ IsFiniteSet(Sleepers')
         /\ nwait' \in Nat
         /\ nwait' = Cardinality(Sleepers')
<1>1. Sleepers' = Sleepers \cup {t}
  BY DEF GateInv, GateTypeOK, Sleepers
<1>2. t \notin Sleepers
  BY DEF Sleepers
<1>3. IsFiniteSet(Sleepers) /\ nwait = Cardinality(Sleepers) /\ nwait \in Nat
  BY DEF GateInv, WaitersSeen, GateTypeOK, Sleepers
<1>4. IsFiniteSet(Sleepers \cup {t}) /\ Cardinality(Sleepers \cup {t}) = nwait + 1
  BY <1>2, <1>3, FS_AddElement
<1> QED BY <1>1, <1>3, <1>4

LEMMA SleeperRemoved ==
  ASSUME NEW t \in Thread, GateInv, gstate[t] = "wait",
         gstate' = [gstate EXCEPT ![t] = "held"], nwait' = nwait - 1
  PROVE  /\ IsFiniteSet(Sleepers')
         /\ nwait' \in Nat
         /\ nwait' = Cardinality(Sleepers')
<1>1. Sleepers' = Sleepers \ {t}
  BY DEF GateInv, GateTypeOK, Sleepers
<1>2. t \in Sleepers
  BY DEF Sleepers
<1>3. IsFiniteSet(Sleepers) /\ nwait = Cardinality(Sleepers) /\ nwait \in Nat
  BY DEF GateInv, WaitersSeen, GateTypeOK, Sleepers
<1>4. IsFiniteSet(Sleepers \ {t}) /\ Cardinality(Sleepers \ {t}) = nwait - 1
  BY <1>2, <1>3, FS_RemoveElement
<1>5. Cardinality(Sleepers \ {t}) \in Nat
  BY <1>4, FS_CardinalityType
<1> QED BY <1>1, <1>4, <1>5

LEMMA SleepersSame ==
  ASSUME GateInv, \A u \in Thread : gstate'[u] = "wait" <=> gstate[u] = "wait",
         nwait' = nwait
  PROVE  /\ IsFiniteSet(Sleepers')
         /\ nwait' \in Nat
         /\ nwait' = Cardinality(Sleepers')
<1>1. Sleepers' = Sleepers
  BY DEF Sleepers
<1> QED BY <1>1 DEF GateInv, WaitersSeen, GateTypeOK, Sleepers

(* A holder that saw nwait positive has a sleeper's ticket behind its own. *)
LEMMA SomeoneBehind ==
  ASSUME NEW t \in Thread, GateInv, gstate[t] = "held", nwait > 0
  PROVE  gnext - gserving > 1
<1>1. Sleepers # {}
  BY FS_EmptySet DEF GateInv, WaitersSeen, Sleepers
<1>2. PICK u \in Thread : gstate[u] = "wait"
  BY <1>1 DEF Sleepers
<1>3. /\ gticket[t] = gserving
      /\ gticket[u] # gticket[t]
      /\ gticket[u] \in gserving .. gnext - 1
      /\ gserving \in Nat /\ gnext \in Nat
  BY <1>2 DEF GateInv, GateTypeOK, GateTicketsAccounted, Queued, Holds
<1> QED BY <1>3

-----------------------------------------------------------------------------
LEMMA AcquireInv ==
  ASSUME NEW t \in Thread, GateInv, Acquire(t)
  PROVE  GateInv'
<1>0. gnext \in Nat /\ gserving \in Nat /\ gserving <= gnext
  BY DEF GateInv, GateTypeOK, GateTicketsAccounted
<1>1. /\ IsFiniteSet(Sleepers')
      /\ nwait' \in Nat
      /\ nwait' = Cardinality(Sleepers')
  <2>1. CASE gnext = gserving
    <3>1. \A u \in Thread : gstate'[u] = "wait" <=> gstate[u] = "wait"
      BY <2>1 DEF Acquire, GateInv, GateTypeOK
    <3> QED BY <2>1, <3>1, SleepersSame DEF Acquire
  <2>2. CASE gnext # gserving
    BY <2>2, SleeperAdded DEF Acquire
  <2> QED BY <2>1, <2>2
<1>2. GateTypeOK'
  BY <1>1 DEF GateInv, GateTypeOK, Acquire
<1>3. GateTicketsAccounted'
  <2> USE DEF GateInv, Acquire, Queued, Holds
  <2>2. ASSUME NEW u \in Thread, Queued(u)'
        PROVE  gticket'[u] \in gserving' .. gnext' - 1
    BY <1>0, <2>2 DEF GateTypeOK, GateTicketsAccounted
  <2>3. ASSUME NEW u \in Thread, NEW v \in Thread, Queued(u)', Queued(v)', u # v
        PROVE  gticket'[u] # gticket'[v]
    BY <1>0, <2>3 DEF GateTypeOK, GateTicketsAccounted
  <2>4. ASSUME NEW k \in gserving' .. gnext' - 1
        PROVE  \E u \in Thread : Queued(u)' /\ gticket'[u] = k
    <3>1. CASE k = gnext
      BY <3>1 DEF GateTypeOK
    <3>2. CASE k # gnext
      <4>1. k \in gserving .. gnext - 1
        BY <1>0, <2>4, <3>2
      <4>2. PICK u \in Thread : Queued(u) /\ gticket[u] = k
        BY <4>1 DEF GateTicketsAccounted
      <4>3. u # t
        BY <4>2
      <4> QED BY <4>2, <4>3 DEF GateTypeOK
    <3> QED BY <3>1, <3>2
  <2>5. ASSUME NEW u \in Thread, Holds(u)'
        PROVE  gticket'[u] = gserving'
    BY <2>5 DEF GateTypeOK, GateTicketsAccounted
  <2>6. gserving' <= gnext'
    BY <1>0
  <2> QED BY <2>2, <2>3, <2>4, <2>5, <2>6 DEF GateTicketsAccounted
<1>4. ASSUME NEW u \in Thread, gstate'[u] = "yield"
      PROVE  gnext' - gserving' > 1
  <2>1. gstate[u] = "yield"
    BY <1>4 DEF Acquire, GateInv, GateTypeOK
  <2> QED BY <1>0, <2>1 DEF Acquire, GateInv, WaitersSeen
<1> QED BY <1>1, <1>2, <1>3, <1>4 DEF GateInv, WaitersSeen, Sleepers

LEMMA WakeInv ==
  ASSUME NEW t \in Thread, GateInv, Wake(t)
  PROVE  GateInv'
<1>1. /\ IsFiniteSet(Sleepers')
      /\ nwait' \in Nat
      /\ nwait' = Cardinality(Sleepers')
  BY SleeperRemoved DEF Wake
<1>2. GateTypeOK'
  BY <1>1 DEF GateInv, GateTypeOK, Wake
<1>3. GateTicketsAccounted'
  <2>1. \A u \in Thread : Queued(u)' <=> Queued(u)
    BY DEF Wake, GateInv, GateTypeOK, Queued
  <2>2. \A u \in Thread : Holds(u)' <=> (Holds(u) \/ u = t)
    BY DEF Wake, GateInv, GateTypeOK, Holds
  <2> QED BY <2>1, <2>2 DEF Wake, GateInv, GateTicketsAccounted
<1>4. ASSUME NEW u \in Thread, gstate'[u] = "yield"
      PROVE  gnext' - gserving' > 1
  BY <1>4 DEF Wake, GateInv, GateTypeOK, WaitersSeen
<1> QED BY <1>1, <1>2, <1>3, <1>4 DEF GateInv, WaitersSeen, Sleepers

LEMMA ReleaseInv ==
  ASSUME NEW t \in Thread, GateInv, Release(t)
  PROVE  GateInv'
<1>0. gticket[t] = gserving /\ gserving \in 0 .. gnext - 1 /\ gnext \in Nat
  BY DEF GateInv, GateTypeOK, GateTicketsAccounted, Release, Queued, Holds
<1>1. /\ IsFiniteSet(Sleepers')
      /\ nwait' \in Nat
      /\ nwait' = Cardinality(Sleepers')
  <2>1. \A u \in Thread : gstate'[u] = "wait" <=> gstate[u] = "wait"
    BY DEF Release, GateInv, GateTypeOK
  <2> QED BY <2>1, SleepersSame DEF Release
<1>2. GateTypeOK'
  BY <1>1 DEF GateInv, GateTypeOK, Release
<1>3. \A u \in Thread : ~ Holds(u)'
  BY GateInvExclusive DEF Release, GateInv, GateTypeOK, GateExclusive, Holds
<1>4. GateTicketsAccounted'
  <2> USE DEF GateInv, Release, Queued
  <2>1. ASSUME NEW u \in Thread, Queued(u)'
        PROVE  gticket'[u] \in gserving' .. gnext' - 1
    <3>1. u # t /\ Queued(u)
      BY <2>1 DEF GateTypeOK
    <3>2. gticket[u] # gserving /\ gticket[u] \in gserving .. gnext - 1
      BY <1>0, <3>1 DEF GateTicketsAccounted
    <3> QED BY <1>0, <3>2 DEF GateTypeOK
  <2>2. ASSUME NEW u \in Thread, NEW v \in Thread, Queued(u)', Queued(v)', u # v
        PROVE  gticket'[u] # gticket'[v]
    BY <2>2 DEF GateTypeOK, GateTicketsAccounted
  <2>3. ASSUME NEW k \in gserving' .. gnext' - 1
        PROVE  \E u \in Thread : Queued(u)' /\ gticket'[u] = k
    <3>1. k \in gserving .. gnext - 1 /\ k # gserving
      BY <1>0, <2>3
    <3>2. PICK u \in Thread : Queued(u) /\ gticket[u] = k
      BY <3>1 DEF GateTicketsAccounted
    <3>3. u # t
      BY <1>0, <3>1, <3>2
    <3> QED BY <3>2, <3>3 DEF GateTypeOK
  <2>4. gserving' <= gnext'
    BY <1>0
  <2> QED BY <1>3, <2>1, <2>2, <2>3, <2>4 DEF GateTicketsAccounted
<1>5. \A u \in Thread : gstate'[u] # "yield"
  BY <1>3 DEF Holds
<1> QED BY <1>1, <1>2, <1>4, <1>5 DEF GateInv, WaitersSeen, Sleepers

LEMMA ContendedInv ==
  ASSUME NEW t \in Thread, GateInv, Contended(t)
  PROVE  GateInv'
<1>1. /\ IsFiniteSet(Sleepers')
      /\ nwait' \in Nat
      /\ nwait' = Cardinality(Sleepers')
  <2>1. \A u \in Thread : gstate'[u] = "wait" <=> gstate[u] = "wait"
    BY DEF Contended, GateInv, GateTypeOK
  <2> QED BY <2>1, SleepersSame DEF Contended
<1>2. GateTypeOK'
  BY <1>1 DEF GateInv, GateTypeOK, Contended
<1>3. GateTicketsAccounted'
  <2>1. \A u \in Thread : (Queued(u)' <=> Queued(u)) /\ (Holds(u)' <=> Holds(u))
    BY DEF Contended, GateInv, GateTypeOK, Queued, Holds
  <2> QED BY <2>1 DEF Contended, GateInv, GateTicketsAccounted
<1>4. gnext' - gserving' > 1
  BY SomeoneBehind DEF Contended
<1> QED BY <1>1, <1>2, <1>3, <1>4 DEF GateInv, WaitersSeen, Sleepers

LEMMA MaybeYieldInv ==
  ASSUME NEW t \in Thread, GateInv, MaybeYield(t)
  PROVE  GateInv'
<1>0. /\ gticket[t] = gserving
      /\ gnext \in Nat /\ gserving \in Nat /\ gserving + 1 < gnext
      /\ gticket' = [gticket EXCEPT ![t] = gnext]
      /\ gnext' = gnext + 1
      /\ gserving' = gserving + 1
      /\ nwait' = nwait + 1
      /\ gstate[t] = "yield"
      /\ gstate' = [gstate EXCEPT ![t] = "wait"]
  BY DEF GateInv, GateTypeOK, GateTicketsAccounted, WaitersSeen, MaybeYield, Holds
<1>1. /\ IsFiniteSet(Sleepers')
      /\ nwait' \in Nat
      /\ nwait' = Cardinality(Sleepers')
  BY <1>0, SleeperAdded
<1>2. GateTypeOK'
  BY <1>0, <1>1 DEF GateInv, GateTypeOK
<1>3. \A u \in Thread : ~ Holds(u)'
  BY <1>0, GateInvExclusive DEF GateInv, GateTypeOK, GateExclusive, Holds
<1>4. GateTicketsAccounted'
  <2> USE <1>0 DEF GateInv, Queued
  <2>1. ASSUME NEW u \in Thread, Queued(u)'
        PROVE  gticket'[u] \in gserving' .. gnext' - 1
    <3>1. CASE u = t
      BY <3>1 DEF GateTypeOK
    <3>2. CASE u # t
      <4>1. gticket[u] # gserving /\ gticket[u] \in gserving .. gnext - 1
        BY <2>1, <3>2 DEF GateTypeOK, GateTicketsAccounted
      <4> QED BY <3>2, <4>1 DEF GateTypeOK
    <3> QED BY <3>1, <3>2
  <2>2. ASSUME NEW u \in Thread, NEW v \in Thread, Queued(u)', Queued(v)', u # v
        PROVE  gticket'[u] # gticket'[v]
    <3>1. \A w \in Thread : w # t /\ Queued(w)' => Queued(w) /\ gticket'[w] = gticket[w]
                                                   /\ gticket[w] \in gserving .. gnext - 1
      BY DEF GateTypeOK, GateTicketsAccounted
    <3>2. gticket'[t] = gnext
      BY DEF GateTypeOK
    <3> QED BY <2>2, <3>1, <3>2 DEF GateTicketsAccounted
  <2>3. ASSUME NEW k \in gserving' .. gnext' - 1
        PROVE  \E u \in Thread : Queued(u)' /\ gticket'[u] = k
    <3>1. CASE k = gnext
      BY <3>1 DEF GateTypeOK
    <3>2. CASE k # gnext
      <4>1. k \in gserving .. gnext - 1 /\ k # gserving
        BY <2>3, <3>2
      <4>2. PICK u \in Thread : Queued(u) /\ gticket[u] = k
        BY <4>1 DEF GateTicketsAccounted
      <4>3. u # t
        BY <4>1, <4>2
      <4> QED BY <4>2, <4>3 DEF GateTypeOK
    <3> QED BY <3>1, <3>2
  <2>4. gserving' <= gnext'
    OBVIOUS
  <2> QED BY <1>3, <2>1, <2>2, <2>3, <2>4 DEF GateTicketsAccounted
<1>5. \A u \in Thread : gstate'[u] # "yield"
  BY <1>3 DEF Holds
<1> QED BY <1>1, <1>2, <1>4, <1>5 DEF GateInv, WaitersSeen, Sleepers

LEMMA GateStepInv == GateInv /\ [GateNext]_gateVars => GateInv'
<1> SUFFICES ASSUME GateInv, [GateNext]_gateVars PROVE GateInv'
  OBVIOUS
<1>1. CASE GateNext
  BY <1>1, AcquireInv, WakeInv, ReleaseInv, ContendedInv, MaybeYieldInv DEF GateNext
<1>2. CASE UNCHANGED gateVars
  BY <1>2 DEF gateVars, GateInv, GateTypeOK, GateTicketsAccounted, WaitersSeen,
              Queued, Holds, Sleepers
<1> QED BY <1>1, <1>2

-----------------------------------------------------------------------------
(* No yield loses a ticket or hands one out twice, whatever the number of  *)
(* threads and the order in which they acquire, yield and release.         *)
THEOREM GateAccounts == GateSpec => []GateTicketsAccounted
<1>1. GateInv => GateTicketsAccounted
  BY DEF GateInv
<1> QED BY <1>1, GateInitInv, GateStepInv, PTL DEF GateSpec

(* GPU work of two threads never overlaps, whatever their number. *)
THEOREM GateExcludes == GateSpec => []GateExclusive
  BY GateInvExclusive, GateInitInv, GateStepInv, PTL DEF GateSpec

(* nwait counts the sleepers exactly, and a holder on its way into         *)
(* maybe_yield always has somebody behind it: the unlocked read of nwait   *)
(* in contended() cannot be overtaken by the waiter leaving.               *)
THEOREM GateSeesWaiters == GateSpec => []WaitersSeen
<1>1. GateInv => WaitersSeen
  BY DEF GateInv
<1> QED BY <1>1, GateInitInv, GateStepInv, PTL DEF GateSpec

(* Rotation is strict: nobody who starts waiting after t gets in before t, *)
(* a yielding holder included.                                             *)
THEOREM GateRotates == GateSpec => RotatesInOrder
<1> DEFINE InOrder ==
      \A t, u \in Thread :
        gstate[t] = "wait" /\ gstate'[t] = "wait" /\ gstate'[u] # gstate[u] =>
          /\ gstate'[u] = "wait" => gticket[t] < gticket'[u]
          /\ gstate'[u] = "held" /\ gstate[u] # "yield" => gticket'[u] < gticket[t]
<1>1. GateInv /\ [GateNext]_gateVars => [InOrder]_gateVars
  <2> SUFFICES ASSUME GateInv, GateNext,
                      NEW t \in Thread, NEW u \in Thread,
                      gstate[t] = "wait", gstate'[t] = "wait", gstate'[u] # gstate[u]
               PROVE  /\ gstate'[u] = "wait" => gticket[t] < gticket'[u]
                      /\ gstate'[u] = "held" /\ gstate[u] # "yield" => gticket'[u] < gticket[t]
    BY Zenon
  <2>1. /\ gticket[t] \in gserving .. gnext - 1
        /\ gserving \in Nat /\ gnext \in Nat /\ u # t
    BY DEF GateInv, GateTypeOK, GateTicketsAccounted, Queued
  <2>2. CASE Acquire(u)
    BY <2>1, <2>2 DEF Acquire, GateInv, GateTypeOK
  <2>3. CASE Wake(u)
    <3>1. gticket'[u] = gserving /\ gticket[t] # gserving
      BY <2>1, <2>3 DEF Wake, GateInv, GateTicketsAccounted, Queued
    <3>2. gstate'[u] = "held"
      BY <2>3 DEF Wake, GateInv, GateTypeOK
    <3> QED BY <2>1, <3>1, <3>2
  <2>4. CASE Release(u)
    BY <2>4 DEF Release, GateInv, GateTypeOK
  <2>5. CASE Contended(u)
    BY <2>5 DEF Contended, GateInv, GateTypeOK
  <2>6. CASE MaybeYield(u)
    BY <2>1, <2>6 DEF MaybeYield, GateInv, GateTypeOK
  <2>7. \A v \in Thread : Acquire(v) \/ Wake(v) \/ Release(v) \/ Contended(v) \/ MaybeYield(v)
                            => v = u
    BY DEF Acquire, Wake, Release, Contended, MaybeYield, GateInv, GateTypeOK
  <2> QED BY <2>2, <2>3, <2>4, <2>5, <2>6, <2>7 DEF GateNext
<1>2. GateInv /\ [GateNext]_gateVars => GateInv'
  BY GateStepInv
<1> QED BY <1>1, <1>2, GateInitInv, PTL DEF GateSpec, RotatesInOrder
=============================================================================
