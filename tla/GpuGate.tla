------------------------------- MODULE GpuGate -------------------------------
(***************************************************************************)
(* GpuGate of the CUDA server (src/api_common.h): the FIFO ticket lock     *)
(* around GPU work, with a waiter count and a yield.  A holder that sees   *)
(* waiters hands the GPU over and draws its new ticket in the same         *)
(* critical section, so contended holders rotate.                          *)
(*                                                                         *)
(* Each critical section of the gate's mutex is one step; notify_all makes *)
(* every sleeper re-test `serving = t', so a sleeper is a thread whose     *)
(* Wake is not enabled yet.  contended() reads nwait without the mutex, a  *)
(* step of its own before the yield.                                       *)
(***************************************************************************)
EXTENDS Integers, FiniteSets

CONSTANT Thread

VARIABLES
  gnext,     \* GpuGate::next
  gserving,  \* GpuGate::serving
  nwait,     \* GpuGate::nwait
  gticket,   \* gticket[t]: the local `t' of acquire or maybe_yield
  gstate     \* gstate[t]: "out", "wait", "held", or "yield" between contended()
             \* and the critical section of maybe_yield()

gateVars == <<gnext, gserving, nwait, gticket, gstate>>

GateInit ==
  /\ gnext = 0
  /\ gserving = 0
  /\ nwait = 0
  /\ gticket = [t \in Thread |-> 0]
  /\ gstate = [t \in Thread |-> "out"]

GateTypeOK ==
  /\ gnext \in Nat
  /\ gserving \in Nat
  /\ nwait \in Nat
  /\ gticket \in [Thread -> Nat]
  /\ gstate \in [Thread -> {"out", "wait", "held", "yield"}]

(* acquire(): the next ticket; in at once when it is being served. *)
Acquire(t) ==
  /\ gstate[t] = "out"
  /\ gticket' = [gticket EXCEPT ![t] = gnext]
  /\ gnext' = gnext + 1
  /\ gstate' = [gstate EXCEPT ![t] = IF gnext = gserving THEN "held" ELSE "wait"]
  /\ nwait' = IF gnext = gserving THEN nwait ELSE nwait + 1
  /\ UNCHANGED gserving

(* cv.wait's predicate holds: the sleeper leaves the wait. *)
Wake(t) ==
  /\ gstate[t] = "wait"
  /\ gserving = gticket[t]
  /\ gstate' = [gstate EXCEPT ![t] = "held"]
  /\ nwait' = nwait - 1
  /\ UNCHANGED <<gnext, gserving, gticket>>

(* release() *)
Release(t) ==
  /\ gstate[t] = "held"
  /\ gserving' = gserving + 1
  /\ gstate' = [gstate EXCEPT ![t] = "out"]
  /\ UNCHANGED <<gnext, nwait, gticket>>

(* make_yield's hook: contended(), then the stream is drained. *)
Contended(t) ==
  /\ gstate[t] = "held"
  /\ nwait > 0
  /\ gstate' = [gstate EXCEPT ![t] = "yield"]
  /\ UNCHANGED <<gnext, gserving, nwait, gticket>>

(* A plausible bug: the yielder does not count itself as a waiter. *)
YieldUncounted(t) ==
  /\ gstate[t] = "yield"
  /\ IF gnext - gserving <= 1
       THEN /\ gstate' = [gstate EXCEPT ![t] = "held"]
            /\ UNCHANGED <<gnext, gserving, nwait, gticket>>
       ELSE /\ gticket' = [gticket EXCEPT ![t] = gnext]
            /\ gnext' = gnext + 1
            /\ gserving' = gserving + 1
            /\ gstate' = [gstate EXCEPT ![t] = "wait"]
            /\ UNCHANGED nwait

(* A plausible bug: the yielder queues right behind the thread it lets in. *)
YieldOneTurn(t) ==
  /\ gstate[t] = "yield"
  /\ gticket' = [gticket EXCEPT ![t] = gserving + 2]
  /\ gnext' = gnext + 1
  /\ gserving' = gserving + 1
  /\ nwait' = nwait + 1
  /\ gstate' = [gstate EXCEPT ![t] = "wait"]

(* maybe_yield(): nobody behind us, keep the gate; else hand it over and   *)
(* queue at the tail.                                                      *)
MaybeYield(t) ==
  /\ gstate[t] = "yield"
  /\ IF gnext - gserving <= 1
       THEN /\ gstate' = [gstate EXCEPT ![t] = "held"]
            /\ UNCHANGED <<gnext, gserving, nwait, gticket>>
       ELSE /\ gticket' = [gticket EXCEPT ![t] = gnext]
            /\ gnext' = gnext + 1
            /\ gserving' = gserving + 1
            /\ nwait' = nwait + 1
            /\ gstate' = [gstate EXCEPT ![t] = "wait"]

GateNext ==
  \E t \in Thread :
    \/ Acquire(t)
    \/ Wake(t)
    \/ Release(t)
    \/ Contended(t)
    \/ MaybeYield(t)

GateSpec == GateInit /\ [][GateNext]_gateVars

-----------------------------------------------------------------------------
Queued(t) == gstate[t] # "out"
Holds(t) == gstate[t] \in {"held", "yield"}

(* The outstanding tickets are exactly gserving .. gnext - 1, each drawn   *)
(* by one queued thread: a yield neither loses a ticket (which would wedge *)
(* the GPU) nor hands one out twice.                                       *)
GateTicketsAccounted ==
  /\ gserving <= gnext
  /\ \A t \in Thread : Queued(t) => gticket[t] \in gserving .. gnext - 1
  /\ \A t, u \in Thread : Queued(t) /\ Queued(u) /\ t # u => gticket[t] # gticket[u]
  /\ \A k \in gserving .. gnext - 1 : \E t \in Thread : Queued(t) /\ gticket[t] = k
  /\ \A t \in Thread : Holds(t) => gticket[t] = gserving

(* At most one thread is past acquire(): GPU work of two requests, or of a *)
(* request and the conductor, never overlaps.                              *)
GateExclusive == \A t, u \in Thread : Holds(t) /\ Holds(u) => t = u

(* nwait counts the sleepers, so contended() misses nobody who has drawn a *)
(* ticket, and a holder that saw it positive finds someone to yield to:    *)
(* maybe_yield's "waiter already gone" exit is never taken.                *)
WaitersSeen ==
  /\ nwait = Cardinality({t \in Thread : gstate[t] = "wait"})
  /\ \A t \in Thread : gstate[t] = "yield" => gnext - gserving > 1

(* Strict rotation: while t sleeps, whoever starts to wait, by acquire()   *)
(* or by yielding, waits behind t, and whoever gets in was ahead of t.     *)
RotatesInOrder ==
  [][\A t, u \in Thread :
       gstate[t] = "wait" /\ gstate'[t] = "wait" /\ gstate'[u] # gstate[u] =>
         /\ gstate'[u] = "wait" => gticket[t] < gticket'[u]
         /\ gstate'[u] = "held" /\ gstate[u] # "yield" => gticket'[u] < gticket[t]]_gateVars
=============================================================================
