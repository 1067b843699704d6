----------------------------- MODULE MetalServer -----------------------------
(***************************************************************************)
(* The Metal server's request scheduling (src/metal/metal_server.cpp): the *)
(* request and stream scopes that administrative drain counts, slot        *)
(* admission (module SlotQueue), and Runtime::run's walk through prompt    *)
(* ingestion and generation, one GPU quantum per lease (module TicketLock).*)
(*                                                                         *)
(* loc[r] is where r's handler thread is.  Every engine call is made under *)
(* a lease, so a location of LeaseLoc is passed in three steps: draw a     *)
(* lease ticket, enter, and leave with the quantum's outcome.  What the    *)
(* engine computes is abstracted to that outcome.                          *)
(***************************************************************************)
EXTENDS SlotQueue

CONSTANTS
  ProbeMayThrow, \* may live() throw while its request is queued?
  MaxQuanta,   \* bound: looping quanta (chunks and decode rounds) per request
  MaxDrains    \* bound: how often the operator drains

ASSUME MetalServerAssumption ==
  ProbeMayThrow \in BOOLEAN /\ MaxQuanta \in Nat /\ MaxDrains \in Nat

VARIABLES
  next, serving, lticket, lstate,  \* the GPU lease
  loc,        \* loc[r]: control location of r's thread
  width,      \* width[r]: the chunk width r read last, 0 when none is pending
  quanta,     \* quanta[r]: looping quanta r has run
  draining,   \* Runtime::draining
  active,     \* Runtime::active_requests
  drained,    \* the operator has seen active_requests = 0 while draining
  drains      \* how often the operator has drained

INSTANCE TicketLock WITH Thread <- Request

leaseVars == <<next, serving, lticket, lstate>>
serverVars == <<loc, width, quanta, draining, active, drained, drains>>
vars == <<queueVars, leaseVars, serverVars>>

(* Locations whose engine work runs under a lease:                         *)
(*   restore  the prefix-cache / disk restore at the start of run()        *)
(*   chunk    one prefill_chunk;  bank  the snapshot kept for a gone client*)
(*   tail     any further ingestion quantum: the serial tail, the coarse   *)
(*            MTP ingest, the exact-prefix save                            *)
(*   insert   capture_state into the prefix cache;  begin  tc.begin        *)
(*   round    one decode or MTP round;  cleanup  ~ConstraintCleanup        *)
LeaseLoc == {"restore", "chunk", "bank", "tail", "insert", "begin",
             "round", "cleanup"}

(* Between leases: "probe" is the top of the chunk loop, "phase" the phase *)
(* change after ingestion, "deliver" text delivery, "release"              *)
(* ~SlotRelease.  Around run(): "counted" RequestScope's fetch_add done,   *)
(* "rejected" it saw draining, "handler" admitted, "provider" a stream     *)
(* handler that holds its StreamScope too, "leave" scopes about to close.  *)
Loc == LeaseLoc \cup {"idle", "counted", "rejected", "handler", "provider",
                      "acquire", "probe", "phase", "deliver", "release",
                      "leave", "done"}

Widths == {12, 48, 96}

Init ==
  /\ QueueInit
  /\ LockInit
  /\ loc = [r \in Request |-> "idle"]
  /\ width = [r \in Request |-> 0]
  /\ quanta = [r \in Request |-> 0]
  /\ draining = FALSE
  /\ active = 0
  /\ drained = FALSE
  /\ drains = 0

TypeOK ==
  /\ QueueTypeOK
  /\ LockTypeOK
  /\ loc \in [Request -> Loc]
  /\ width \in [Request -> Widths \cup {0}]
  /\ quanta \in [Request -> Nat]
  /\ draining \in BOOLEAN
  /\ active \in Nat
  /\ drained \in BOOLEAN
  /\ drains \in Nat

Goto(r, from, to) == loc[r] = from /\ loc' = [loc EXCEPT ![r] = to]

-----------------------------------------------------------------------------
(* Request scopes and drain. *)

(* RequestScope's first half: the request is counted before it looks. *)
Count(r) ==
  /\ Goto(r, "idle", "counted")
  /\ active' = active + 1
  /\ UNCHANGED <<queueVars, leaseVars, width, quanta, draining, drained, drains>>

(* RequestScope's second half: the draining flag decides. *)
LookAtDraining(r) ==
  /\ Goto(r, "counted", IF draining THEN "rejected" ELSE "handler")
  /\ UNCHANGED <<queueVars, leaseVars, width, quanta, draining, active, drained, drains>>

(* A refused request takes itself off the count and answers 503. *)
Uncount(r) ==
  /\ Goto(r, "rejected", "done")
  /\ active' = active - 1
  /\ UNCHANGED <<queueVars, leaseVars, width, quanta, draining, drained, drains>>

(* The handler: a bad body is answered 400; a plain request runs inside    *)
(* its RequestScope; a stream opens its StreamScope and returns a provider *)
(* which httplib runs once the RequestScope is gone.                       *)
BadRequest(r) ==
  /\ Goto(r, "handler", "leave")
  /\ UNCHANGED <<queueVars, leaseVars, width, quanta, draining, active, drained, drains>>

PlainRun(r) ==
  /\ Goto(r, "handler", "acquire")
  /\ UNCHANGED <<queueVars, leaseVars, width, quanta, draining, active, drained, drains>>

StreamScopeForgotten(r) == UNCHANGED active
StreamScopeOpens(r) == active' = active + 1

OpenStream(r) ==
  /\ Goto(r, "handler", "provider")
  /\ StreamScopeOpens(r)
  /\ UNCHANGED <<queueVars, leaseVars, width, quanta, draining, drained, drains>>

StreamRun(r) ==
  /\ Goto(r, "provider", "acquire")
  /\ active' = active - 1
  /\ UNCHANGED <<queueVars, leaseVars, width, quanta, draining, drained, drains>>

(* The last scope of the request closes. *)
Leave(r) ==
  /\ Goto(r, "leave", "done")
  /\ active' = active - 1
  /\ UNCHANGED <<queueVars, leaseVars, width, quanta, draining, drained, drains>>

(* POST /admin/drain stores the flag; its reply, or a later poll, loads    *)
(* active_requests; POST /admin/resume clears the flag.                    *)
StartDrain ==
  /\ ~draining
  /\ drains < MaxDrains
  /\ draining' = TRUE
  /\ drains' = drains + 1
  /\ UNCHANGED <<queueVars, leaseVars, loc, width, quanta, active, drained>>

SeeDrained ==
  /\ draining
  /\ active = 0
  /\ ~drained
  /\ drained' = TRUE
  /\ UNCHANGED <<queueVars, leaseVars, loc, width, quanta, draining, active, drains>>

Resume ==
  /\ draining
  /\ draining' = FALSE
  /\ drained' = FALSE
  /\ UNCHANGED <<queueVars, leaseVars, loc, width, quanta, active, drains>>

-----------------------------------------------------------------------------
(* run(): admission. *)

Queue(r) ==
  /\ loc[r] = "acquire"
  /\ Acquire(r) \/ (ProbeMayThrow /\ ProbeThrows(r))
  /\ loc' = [loc EXCEPT ![r] = CASE qstate'[r] = "in" -> "restore"
                                 [] qstate'[r] = "left" -> "leave"
                                 [] OTHER -> "acquire"]
  /\ UNCHANGED <<leaseVars, width, quanta, draining, active, drained, drains>>

-----------------------------------------------------------------------------
(* run(): the lease around every quantum. *)

DrawLease(r) ==
  /\ loc[r] \in LeaseLoc
  /\ TakeTicket(r)
  /\ UNCHANGED <<queueVars, serverVars>>

EnterLease(r) ==
  /\ Enter(r)
  /\ UNCHANGED <<queueVars, serverVars>>

Again(r) == quanta[r] < MaxQuanta

(* Where a quantum may lead once its guard is released.  A throw unwinds   *)
(* through ~ConstraintCleanup if that was constructed, else straight to    *)
(* ~SlotRelease; a failed bank or cleanup is swallowed.                    *)
Loop(r, where) == IF Again(r) THEN {where} ELSE {}

AfterRestore(r) == {"probe", "tail", "insert", "release"}
AfterChunk(r) == Loop(r, "probe") \cup {"tail", "release"}
AfterTail(r) == Loop(r, "tail") \cup {"insert", "release"}
AfterInsert(r) == {"phase", "release"}
AfterBegin(r) == {"round", "deliver", "release"}
AfterRound(r) == Loop(r, "round") \cup {"deliver", "cleanup"}

After(r) ==
  CASE loc[r] = "restore" -> AfterRestore(r)
    [] loc[r] = "chunk"   -> AfterChunk(r)
    [] loc[r] = "tail"    -> AfterTail(r)
    [] loc[r] = "insert"  -> AfterInsert(r)
    [] loc[r] = "begin"   -> AfterBegin(r)
    [] loc[r] = "round"   -> AfterRound(r)
    [] loc[r] \in {"bank", "cleanup"} -> {"release"}

(* The guard of a quantum is scoped: whatever the outcome, the lease goes. *)
QuantumLeaksLease(r) ==
  /\ loc[r] \in LeaseLoc
  /\ \/ Exit(r)
     \/ /\ lstate[r] = "in"
        /\ lstate' = [lstate EXCEPT ![r] = "out"]
        /\ UNCHANGED <<next, serving, lticket>>
  /\ \E to \in After(r) : loc' = [loc EXCEPT ![r] = to]
  /\ quanta' = [quanta EXCEPT ![r] = IF loc[r] \in {"chunk", "tail", "round"} /\ Again(r)
                                     THEN @ + 1 ELSE @]
  /\ width' = [width EXCEPT ![r] = 0]
  /\ UNCHANGED <<queueVars, draining, active, drained, drains>>

Quantum(r) ==
  /\ loc[r] \in LeaseLoc
  /\ Exit(r)
  /\ \E to \in After(r) : loc' = [loc EXCEPT ![r] = to]
  /\ quanta' = [quanta EXCEPT ![r] = IF loc[r] \in {"chunk", "tail", "round"} /\ Again(r)
                                     THEN @ + 1 ELSE @]
  /\ width' = [width EXCEPT ![r] = 0]
  /\ UNCHANGED <<queueVars, draining, active, drained, drains>>

-----------------------------------------------------------------------------
(* run(): what happens between leases. *)

(* quantum_width(self), read under route_ before the lease is requested.   *)
(* A bug would ignore slots that are still prefilling.                     *)
OthersBusy(i) == {j \in Slot : j # i /\ busy[j]}
OthersLatency(i) == {j \in OthersBusy(i) : phase[j] # "Prefill"}

QuantumWidthIgnoresPrefill(i) ==
  IF OthersLatency(i) # {} \/ queueWaiters > 0 THEN 12 ELSE 96
QuantumWidth(i) ==
  IF OthersLatency(i) # {} \/ queueWaiters > 0 THEN 12
  ELSE IF OthersBusy(i) # {} THEN 48 ELSE 96

(* Top of the chunk loop: a gone client ends the request, after banking    *)
(* what is done if a save was armed; otherwise read the width.             *)
ChunkCancel(r) ==
  /\ clientGone[r]
  /\ \E to \in {"bank", "release"} : Goto(r, "probe", to)
  /\ UNCHANGED <<queueVars, leaseVars, width, quanta, draining, active, drained, drains>>

ChunkWidth(r) ==
  /\ ~clientGone[r]
  /\ Goto(r, "probe", "chunk")
  /\ width' = [width EXCEPT ![r] = QuantumWidth(slot[r])]
  /\ UNCHANGED <<queueVars, leaseVars, quanta, draining, active, drained, drains>>

(* "generation exceeds context", tested outside the lease. *)
TooLong(r) ==
  /\ lstate[r] = "out"
  /\ Goto(r, "insert", "release")
  /\ UNCHANGED <<queueVars, leaseVars, width, quanta, draining, active, drained, drains>>

StartGenerating(r) ==
  /\ Goto(r, "phase", "begin")
  /\ \E p \in {"Decode", "Verify"} : SetGenerating(r, p)
  /\ UNCHANGED <<leaseVars, width, quanta, draining, active, drained, drains>>

(* deliver() runs without the lease; it stops on EOS, a stop sequence, the *)
(* token budget or a failed write.                                         *)
Deliver(r) ==
  /\ \E to \in Loop(r, "round") \cup {"cleanup"} : Goto(r, "deliver", to)
  /\ UNCHANGED <<queueVars, leaseVars, width, quanta, draining, active, drained, drains>>

Release(r) ==
  /\ Goto(r, "release", "leave")
  /\ ReleaseSlot(r)
  /\ UNCHANGED <<leaseVars, width, quanta, draining, active, drained, drains>>

ClientGoes(r) ==
  /\ loc[r] \notin {"idle", "done"}
  /\ Disconnect(r)
  /\ UNCHANGED <<leaseVars, serverVars>>

-----------------------------------------------------------------------------
Step(r) ==
  \/ LookAtDraining(r) \/ Uncount(r) \/ BadRequest(r) \/ PlainRun(r)
  \/ OpenStream(r) \/ StreamRun(r) \/ Leave(r)
  \/ Queue(r) \/ DrawLease(r) \/ EnterLease(r) \/ Quantum(r)
  \/ ChunkCancel(r) \/ ChunkWidth(r) \/ TooLong(r) \/ StartGenerating(r)
  \/ Deliver(r) \/ Release(r)

Operator == StartDrain \/ SeeDrained \/ Resume

Next ==
  \/ \E r \in Request : Count(r) \/ Step(r) \/ ClientGoes(r)
  \/ Operator

Spec == Init /\ [][Next]_vars

(* Handler threads are scheduled and GPU quanta terminate; clients arrive, *)
(* disconnect, and the operator acts, as they please.                      *)
Fairness == \A r \in Request : WF_vars(Step(r))

FairSpec == Spec /\ Fairness
-----------------------------------------------------------------------------

(* Engine calls never overlap, and whoever is inside one owns a busy slot  *)
(* that no other request owns.                                             *)
EngineExclusive ==
  /\ LeaseExclusive
  /\ \A r \in Request : lstate[r] = "in" =>
       /\ qstate[r] = "in"
       /\ \A q \in Request : qstate[q] = "in" /\ slot[q] = slot[r] => q = r

(* The gate wait is bounded: only slot owners contend for the lease, so a  *)
(* ticket has at most NSlots - 1 quanta ahead of it ("a concurrent request *)
(* waits at most one active quantum" for two slots).                       *)
GateWaitBounded == next - serving <= NSlots

(* Once the operator has seen active_requests = 0 under drain, no request  *)
(* is in a handler or in run() until it resumes.                           *)
DrainedMeansQuiet ==
  drained => \A r \in Request : loc[r] \in {"idle", "counted", "rejected", "done"}

(* Widths are read before the lease and used under it.  However stale, two *)
(* full-width chunks are never pending together.                           *)
OneFullWidthChunk ==
  \A r, q \in Request : width[r] = 96 /\ width[q] = 96 => r = q

(* The lease does its work: an engine has one driver, a ticket has at most *)
(* NSlots - 1 quanta ahead of it, and of the widths that were read before  *)
(* the lease and are used under it never two are full at once              *)
(* (metal_server.cpp, Runtime::run and quantum_width).                     *)
LeaseRight == TypeOK /\ EngineExclusive /\ GateWaitBounded /\ OneFullWidthChunk

(* Every request that arrives gets an answer. *)
EveryRequestEnds == \A r \in Request : loc[r] = "counted" ~> loc[r] = "done"
=============================================================================
