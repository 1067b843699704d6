----------------------------- MODULE TicketLock -----------------------------
(***************************************************************************)
(* The FIFO ticket lock that serialises GPU work.  It is Runtime::Lease of *)
(* the Metal server (src/metal/metal_server.cpp); the CUDA server's        *)
(* GpuGate (module GpuGate) is the same lock with one more operation.      *)
(*                                                                         *)
(* A thread draws a ticket under the lock's mutex and sleeps until         *)
(* `serving' reaches it; leaving increments `serving' and wakes everyone.  *)
(* The mutex protects only the counters, so each critical section is one   *)
(* step; notify_all makes every sleeper re-test its predicate, so a        *)
(* sleeper is simply a thread whose Enter is not enabled yet.              *)
(***************************************************************************)
EXTENDS Naturals, TLAPS

CONSTANT Thread

VARIABLES
  next,      \* Lease::next, the next ticket to hand out
  serving,   \* Lease::serving, the ticket allowed in
  lticket,   \* lticket[t]: the ticket t drew last (a local of Guard's ctor)
  lstate     \* lstate[t]: "out", "wait" (in cv.wait) or "in" (Guard alive)

lockVars == <<next, serving, lticket, lstate>>

LockInit ==
  /\ next = 0
  /\ serving = 0
  /\ lticket = [t \in Thread |-> 0]
  /\ lstate = [t \in Thread |-> "out"]

LockTypeOK ==
  /\ next \in Nat
  /\ serving \in Nat
  /\ lticket \in [Thread -> Nat]
  /\ lstate \in [Thread -> {"out", "wait", "in"}]

(* Guard(Lease&): draw a ticket, then wait for it. *)
TakeTicket(t) ==
  /\ lstate[t] = "out"
  /\ lticket' = [lticket EXCEPT ![t] = next]
  /\ next' = next + 1
  /\ lstate' = [lstate EXCEPT ![t] = "wait"]
  /\ UNCHANGED serving

(* cv.wait's predicate holds: the guard is constructed. *)
Enter(t) ==
  /\ lstate[t] = "wait"
  /\ serving = lticket[t]
  /\ lstate' = [lstate EXCEPT ![t] = "in"]
  /\ UNCHANGED <<next, serving, lticket>>

(* ~Guard: pass the turn to the next ticket. *)
Exit(t) ==
  /\ lstate[t] = "in"
  /\ serving' = serving + 1
  /\ lstate' = [lstate EXCEPT ![t] = "out"]
  /\ UNCHANGED <<next, lticket>>

LockNext == \E t \in Thread : TakeTicket(t) \/ Enter(t) \/ Exit(t)

LockSpec == LockInit /\ [][LockNext]_lockVars

-----------------------------------------------------------------------------
(* Threads that have drawn a ticket and not left yet. *)
Contender(t) == lstate[t] # "out"

(* The outstanding tickets are exactly serving .. next - 1, each drawn by  *)
(* one contender: no ticket is lost (it would block the lock for ever) and *)
(* none is shared.  The thread inside is the one being served.             *)
TicketsAccounted ==
  /\ serving <= next
  /\ \A t \in Thread : Contender(t) => lticket[t] \in serving .. next - 1
  /\ \A t, u \in Thread :
       Contender(t) /\ Contender(u) /\ t # u => lticket[t] # lticket[u]
  /\ \A k \in serving .. next - 1 :
       \E t \in Thread : Contender(t) /\ lticket[t] = k
  /\ \A t \in Thread : lstate[t] = "in" => lticket[t] = serving

(* At most one thread is past the guard: engine calls never overlap on the *)
(* command queue the slots share.                                          *)
LeaseExclusive ==
  \A t, u \in Thread : lstate[t] = "in" /\ lstate[u] = "in" => t = u
-----------------------------------------------------------------------------
(* Proofs, for any set of threads: every outstanding ticket belongs to     *)
(* exactly one contender, and the thread inside is the one whose ticket is *)
(* being served.                                                           *)

LockInv == LockTypeOK /\ TicketsAccounted

LEMMA LockInitInv == LockInit => LockInv
  BY DEF LockInit, LockInv, LockTypeOK, TicketsAccounted, Contender

LEMMA TakeTicketInv ==
  ASSUME NEW t \in Thread, LockInv, TakeTicket(t)
  PROVE  LockInv'
<1> USE DEF LockInv, TakeTicket, Contender
<1>1. LockTypeOK'
  BY DEF LockTypeOK
<1>2. TicketsAccounted'
  <2>1. next \in Nat /\ serving \in Nat /\ serving <= next
    BY DEF LockTypeOK, TicketsAccounted
  <2>2. ASSUME NEW u \in Thread, Contender(u)'
        PROVE  lticket'[u] \in serving' .. next' - 1
    BY <2>1, <2>2 DEF LockTypeOK, TicketsAccounted
  <2>3. ASSUME NEW u \in Thread, NEW v \in Thread, Contender(u)', Contender(v)', u # v
        PROVE  lticket'[u] # lticket'[v]
    BY <2>1, <2>3 DEF LockTypeOK, TicketsAccounted
  <2>4. ASSUME NEW k \in serving' .. next' - 1
        PROVE  \E u \in Thread : Contender(u)' /\ lticket'[u] = k
    <3>1. CASE k = next
      BY <3>1 DEF LockTypeOK
    <3>2. CASE k # next
      <4>1. k \in serving .. next - 1
        BY <2>1, <2>4, <3>2
      <4>2. PICK u \in Thread : Contender(u) /\ lticket[u] = k
        BY <4>1 DEF TicketsAccounted
      <4>3. u # t
        BY <4>2
      <4> QED BY <4>2, <4>3 DEF LockTypeOK
    <3> QED BY <3>1, <3>2
  <2>5. ASSUME NEW u \in Thread, lstate'[u] = "in"
        PROVE  lticket'[u] = serving'
    BY <2>5 DEF LockTypeOK, TicketsAccounted
  <2> QED BY <2>1, <2>2, <2>3, <2>4, <2>5 DEF TicketsAccounted
<1> QED BY <1>1, <1>2

LEMMA EnterInv ==
  ASSUME NEW t \in Thread, LockInv, Enter(t)
  PROVE  LockInv'
<1> USE DEF LockInv, Enter, Contender
<1>1. LockTypeOK'
  BY DEF LockTypeOK
<1>2. \A u \in Thread : Contender(u)' <=> Contender(u)
  BY DEF LockTypeOK
<1>3. TicketsAccounted'
  BY <1>2 DEF LockTypeOK, TicketsAccounted
<1> QED BY <1>1, <1>3

LEMMA ExitInv ==
  ASSUME NEW t \in Thread, LockInv, Exit(t)
  PROVE  LockInv'
<1> USE DEF LockInv, Exit, Contender
<1>1. LockTypeOK'
  BY DEF LockTypeOK
<1>2. lticket[t] = serving /\ serving \in 0 .. next - 1
  BY DEF LockTypeOK, TicketsAccounted
<1>3. TicketsAccounted'
  <2>1. ASSUME NEW u \in Thread, Contender(u)'
        PROVE  lticket'[u] \in serving' .. next' - 1
    <3>1. u # t /\ Contender(u)
      BY <2>1 DEF LockTypeOK
    <3>2. lticket[u] # serving /\ lticket[u] \in serving .. next - 1
      BY <1>2, <3>1 DEF TicketsAccounted
    <3> QED BY <3>2, <1>2 DEF LockTypeOK
  <2>2. ASSUME NEW u \in Thread, NEW v \in Thread, Contender(u)', Contender(v)', u # v
        PROVE  lticket'[u] # lticket'[v]
    BY <2>2 DEF LockTypeOK, TicketsAccounted
  <2>3. ASSUME NEW k \in serving' .. next' - 1
        PROVE  \E u \in Thread : Contender(u)' /\ lticket'[u] = k
    <3>1. k \in serving .. next - 1 /\ k # serving
      BY <2>3, <1>2 DEF LockTypeOK
    <3>2. PICK u \in Thread : Contender(u) /\ lticket[u] = k
      BY <3>1 DEF TicketsAccounted
    <3>3. u # t
      BY <3>1, <3>2, <1>2
    <3> QED BY <3>2, <3>3 DEF LockTypeOK
  <2>4. ASSUME NEW u \in Thread, lstate'[u] = "in"
        PROVE  lticket'[u] = serving'
    <3>1. u # t /\ lstate[u] = "in"
      BY <2>4 DEF LockTypeOK
    <3> QED BY <3>1, <1>2 DEF TicketsAccounted
  <2>5. serving' <= next'
    BY <1>2 DEF LockTypeOK
  <2> QED BY <2>1, <2>2, <2>3, <2>4, <2>5 DEF TicketsAccounted
<1> QED BY <1>1, <1>3

(* A step of the lock, or of anything that leaves it alone, keeps its      *)
(* tickets accounted for.                                                  *)
LEMMA LockStepInv == LockInv /\ [LockNext]_lockVars => LockInv'
<1> SUFFICES ASSUME LockInv, [LockNext]_lockVars PROVE LockInv'
  OBVIOUS
<1>1. CASE LockNext
  BY <1>1, TakeTicketInv, EnterInv, ExitInv DEF LockNext
<1>2. CASE UNCHANGED lockVars
  BY <1>2 DEF lockVars, LockInv, LockTypeOK, TicketsAccounted, Contender
<1> QED BY <1>1, <1>2

(* Type correctness of the lock's counters and tickets. *)
THEOREM LockTypeCorrect == LockSpec => []LockTypeOK
<1>1. LockInv => LockTypeOK
  BY DEF LockInv
<1> QED BY <1>1, LockInitInv, LockStepInv, PTL DEF LockSpec

(* No ticket is lost or shared, whatever the number of threads. *)
THEOREM LockTicketsAccounted == LockSpec => []TicketsAccounted
<1>1. LockInv => TicketsAccounted
  BY DEF LockInv
<1> QED BY <1>1, LockInitInv, LockStepInv, PTL DEF LockSpec

(* At most one thread holds the lease, whatever the number of threads. *)
THEOREM LockExcludes == LockSpec => []LeaseExclusive
<1>1. LockInv => LeaseExclusive
  BY DEF LockInv, TicketsAccounted, LeaseExclusive, Contender
<1> QED BY <1>1, LockInitInv, LockStepInv, PTL DEF LockSpec
=============================================================================
