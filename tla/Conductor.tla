------------------------------ MODULE Conductor ------------------------------
(***************************************************************************)
(* Continuous batching in the CUDA server: the conductor thread of         *)
(* src/conductor.h, which owns every decode round, and the request threads *)
(* of batch_generate (src/server.cu), which prefill under the GPU gate     *)
(* (module GpuGate), register their decode task and drain a TokenQueue.    *)
(*                                                                         *)
(* The queue and the DecodeTask live in the request thread's frame, and    *)
(* the slot's engine goes to the next request when that frame is gone;     *)
(* nothing but the closing of the queue tells the thread that the          *)
(* conductor has let go.  Every step of the conductor that follows a       *)
(* pointer of a member says so with Touch, and `dangling' collects the     *)
(* requests touched after their frame was destroyed.                       *)
(*                                                                         *)
(* Each mutex section is one step and a cv.wait is a guard.  Members are   *)
(* kept as sets: the order in which a round visits them is left open, a    *)
(* superset of the vector order of the code.  Tokens are counted; what the *)
(* model computes is abstracted to how many tokens a round emits and       *)
(* whether it ends the request.                                            *)
(***************************************************************************)
EXTENDS Integers, FiniteSets

CONSTANTS
  Request,     \* the HTTP requests (one handler thread each)
  Engine,      \* the server's slots, one engine each
  NMax,        \* bound: the largest emit budget
  RoundWidth,  \* bound: tokens one round may emit for one member
  MaxUnion,    \* ConductorCore::MAX_K / 2, the legal batch size
  MaxGaps,     \* bound: prefill chunk gaps of a prompt
  NoRequest, NoEngine, TheConductor

ASSUME ConductorAssumption ==
  /\ IsFiniteSet(Engine)
  /\ Cardinality(Engine) <= MaxUnion  \* server.cu clamps --slots to 8
  /\ NMax \in Nat
  /\ RoundWidth \in Nat \ {0}
  /\ MaxUnion \in Nat
  /\ MaxGaps \in Nat
  /\ NoRequest \notin Request
  /\ NoEngine \notin Engine
  /\ TheConductor \notin Request

VARIABLES
  gnext, gserving, nwait, gticket, gstate,  \* the GPU gate
  \* request threads
  rpc,        \* rpc[r]: where r's thread is
  eng,        \* eng[r]: the engine of the slot r claimed
  busy,       \* Slot::busy, the engines whose slot is taken
  gaps,       \* gaps[r]: prefill chunk gaps at which r may still yield
  nMax,       \* nMax[r]: DecodeTask::n_max, the emit budget
  ids,        \* ids[r]: tokens popped and not handed to the client yet
  delivered,  \* delivered[r]: tokens on_token accepted
  gone,       \* gone[r]: client_gone, or on_token threw
  \* the frame of batch_generate: the queue and the decode task
  buf,        \* TokenQueue::buf, as a count
  closed,     \* TokenQueue::closed
  failed,     \* TokenQueue::error is set
  cancel,     \* DecodeTask::cancel
  emitted,    \* DecodeTask::emitted
  finishes,   \* how often finish_decode has run for r's task
  \* engine
  gsEnd,      \* GenStats::end of each engine
  report,     \* report[r]: the end reason r's handler logged
  \* conductor thread
  stop, joinQ,          \* Conductor::stop, join_q (the mutex m)
  joins, members,       \* ConductorCore::joins, members
  dead,       \* members whose Member::q is null
  cpc,        \* where the conductor thread is
  todo,       \* members the current loop has not visited
  cur,        \* the member being processed
  left,       \* tokens of cur's round not emitted yet
  done,       \* done[] of the round
  dangling    \* requests touched after their frame was gone

INSTANCE GpuGate WITH Thread <- Request \cup {TheConductor}

gpuVars == <<gnext, gserving, nwait, gticket, gstate>>
slotVars == <<eng, busy>>
promptVars == <<gaps, nMax>>
clientVars == <<ids, delivered, gone>>
queueVars == <<buf, closed, failed>>
taskVars == <<cancel, emitted, finishes>>
statVars == <<gsEnd, report>>
sharedVars == <<stop, joinQ>>
roundVars == <<joins, members, dead, cpc, todo, cur, left, done, dangling>>
vars == <<gpuVars, rpc, slotVars, promptVars, clientVars, queueVars, taskVars, statVars,
          sharedVars, roundVars>>

(* Where a request thread is: "acquire" draws a gate ticket, "prefill"     *)
(* waits for the gate or prefills under it, "drain" is the loop's pop,     *)
(* "deliver" its body, "unwind" the catch block's drain, "closed" after    *)
(* pop returned false, "log" after batch_generate returned.                *)
RequestPc == {"idle", "acquire", "prefill", "register", "drain", "deliver",
              "unwind", "closed", "log", "done"}

(* Where the conductor is: "pre" the pre-check loop, "prefinished" a       *)
(* member finished there and is to leave, "solo" decode_step's own         *)
(* pre-check, "verify" the fused draft and verify, "post" the per-member   *)
(* bookkeeping loop, "emit" inside post_round, "fail" inside fail_member,  *)
(* "leavers" the leave loop; "adopt", "merge", "cancel", "cancelled" the   *)
(* shutdown drain.                                                         *)
ConductorPc == {"wait", "acquire", "gate", "pre", "prefinished", "solo", "verify",
                "post", "emit", "fail", "leavers", "aborted",
                "adopt", "merge", "cancel", "cancelled", "stopped"}

Ends == {"none", "refused", "cancelled", "n_max", "ctx-guard", "eos", "error"}

Init ==
  /\ GateInit
  /\ rpc = [r \in Request |-> "idle"]
  /\ eng = [r \in Request |-> NoEngine]
  /\ busy = {}
  /\ gaps \in [Request -> 0 .. MaxGaps]
  /\ nMax \in [Request -> 1 .. NMax]
  /\ ids = [r \in Request |-> 0]
  /\ delivered = [r \in Request |-> 0]
  /\ gone = [r \in Request |-> FALSE]
  /\ buf = [r \in Request |-> 0]
  /\ closed = [r \in Request |-> FALSE]
  /\ failed = [r \in Request |-> FALSE]
  /\ cancel = [r \in Request |-> FALSE]
  /\ emitted = [r \in Request |-> 0]
  /\ finishes = [r \in Request |-> 0]
  /\ gsEnd = [e \in Engine |-> "none"]
  /\ report = [r \in Request |-> "none"]
  /\ stop = FALSE
  /\ joinQ = {} /\ joins = {} /\ members = {} /\ dead = {}
  /\ cpc = "wait"
  /\ todo = {} /\ cur = NoRequest /\ left = 0 /\ done = {}
  /\ dangling = {}

TypeOK ==
  /\ GateTypeOK
  /\ rpc \in [Request -> RequestPc]
  /\ eng \in [Request -> Engine \cup {NoEngine}]
  /\ busy \subseteq Engine
  /\ gaps \in [Request -> Nat]
  /\ nMax \in [Request -> 1 .. NMax]
  /\ ids \in [Request -> Nat]
  /\ delivered \in [Request -> Nat]
  /\ gone \in [Request -> BOOLEAN]
  /\ buf \in [Request -> Nat]
  /\ closed \in [Request -> BOOLEAN]
  /\ failed \in [Request -> BOOLEAN]
  /\ cancel \in [Request -> BOOLEAN]
  /\ emitted \in [Request -> 0 .. NMax]
  /\ finishes \in [Request -> Nat]
  /\ gsEnd \in [Engine -> Ends]
  /\ report \in [Request -> Ends]
  /\ stop \in BOOLEAN
  /\ joinQ \subseteq Request /\ joins \subseteq Request /\ members \subseteq Request
  /\ dead \subseteq Request
  /\ cpc \in ConductorPc
  /\ todo \subseteq Request
  /\ cur \in Request \cup {NoRequest}
  /\ left \in Nat
  /\ done \subseteq Request
  /\ dangling \subseteq Request

RGoto(r, from, to) == rpc[r] = from /\ rpc' = [rpc EXCEPT ![r] = to]
CGoto(from, to) == cpc = from /\ cpc' = to
Set(f, r, v) == [f EXCEPT ![r] = v]

(* The frame of batch_generate: entered with the claimed slot, left when   *)
(* it returns or throws.                                                   *)
FrameLive(r) == rpc[r] \notin {"idle", "log", "done"}

(* The conductor follows Member::t, q or e of the requests in S. *)
Touch(S) == dangling' = dangling \cup {r \in S : ~FrameLive(r)}

-----------------------------------------------------------------------------
(* Request threads. *)

FreeEngine(e) == e \notin busy

(* claim_slot: any free slot; which one is routing policy. *)
ClaimSlot(r) ==
  \E e \in Engine :
    /\ FreeEngine(e)
    /\ RGoto(r, "idle", "acquire")
    /\ eng' = Set(eng, r, e)
    /\ busy' = busy \cup {e}
    /\ UNCHANGED <<gpuVars, promptVars, clientVars, queueVars, taskVars, statVars,
                   sharedVars, roundVars>>

(* The prefill lease: draw a ticket, sleep until it is served, yield at    *)
(* chunk gaps (round_gap through make_yield).                              *)
PrefillAcquire(r) ==
  /\ RGoto(r, "acquire", "prefill")
  /\ Acquire(r)
  /\ UNCHANGED <<slotVars, promptVars, clientVars, queueVars, taskVars, statVars,
                 sharedVars, roundVars>>

PrefillWake(r) ==
  /\ rpc[r] = "prefill"
  /\ Wake(r)
  /\ UNCHANGED <<rpc, slotVars, promptVars, clientVars, queueVars, taskVars, statVars,
                 sharedVars, roundVars>>

PrefillGap(r) ==
  /\ rpc[r] = "prefill"
  /\ gaps[r] > 0
  /\ Contended(r)
  /\ gaps' = Set(gaps, r, gaps[r] - 1)
  /\ UNCHANGED <<rpc, nMax, slotVars, clientVars, queueVars, taskVars, statVars,
                 sharedVars, roundVars>>

PrefillYield(r) ==
  /\ rpc[r] = "prefill"
  /\ MaybeYield(r)
  /\ UNCHANGED <<rpc, slotVars, promptVars, clientVars, queueVars, taskVars, statVars,
                 sharedVars, roundVars>>

(* generate_prefill succeeded: the task is made and the lease released. *)
PrefillDone(r) ==
  /\ RGoto(r, "prefill", "register")
  /\ Release(r)
  /\ gsEnd' = Set(gsEnd, eng[r], "none")
  /\ UNCHANGED <<slotVars, promptVars, clientVars, queueVars, taskVars, report,
                 sharedVars, roundVars>>

(* generate_prefill refused the prompt: batch_generate returns 0. *)
PrefillRefused(r) ==
  /\ RGoto(r, "prefill", "log")
  /\ Release(r)
  /\ gsEnd' = Set(gsEnd, eng[r], "refused")
  /\ UNCHANGED <<slotVars, promptVars, clientVars, queueVars, taskVars, report,
                 sharedVars, roundVars>>

(* register_member, under the conductor's mutex: refused when stopping. *)
StopUnseen == FALSE
StopSeen == stop

Register(r) ==
  /\ RGoto(r, "register", "drain")
  /\ IF StopSeen
       THEN /\ closed' = Set(closed, r, TRUE)
            /\ failed' = Set(failed, r, TRUE)
            /\ UNCHANGED joinQ
       ELSE /\ joinQ' = joinQ \cup {r}
            /\ UNCHANGED <<closed, failed>>
  /\ UNCHANGED <<gpuVars, slotVars, promptVars, clientVars, buf, taskVars, statVars,
                 stop, roundVars>>

(* TokenQueue::pop: sleep until there is a token or the queue is closed;   *)
(* false only when it is closed and nothing was left.                      *)
PopsAfterClose(r) == closed[r]
PopsNothing(r) == closed[r] /\ buf[r] = 0

PopFalse(r) ==
  /\ PopsNothing(r)
  /\ RGoto(r, "drain", "closed")
  /\ UNCHANGED <<gpuVars, slotVars, promptVars, clientVars, queueVars, taskVars, statVars,
                 sharedVars, roundVars>>

PopTokens(r) ==
  /\ buf[r] > 0
  /\ RGoto(r, "drain", "deliver")
  /\ ids' = Set(ids, r, buf[r])
  /\ buf' = Set(buf, r, 0)
  /\ UNCHANGED <<gpuVars, slotVars, promptVars, delivered, gone, closed, failed, taskVars,
                 statVars, sharedVars, roundVars>>

(* The drain loop's body, one on_token at a time. *)
OnToken(r) ==
  /\ rpc[r] = "deliver" /\ ids[r] > 0 /\ ~gone[r]
  /\ ids' = Set(ids, r, ids[r] - 1)
  /\ delivered' = Set(delivered, r, delivered[r] + 1)
  /\ UNCHANGED <<gpuVars, rpc, slotVars, promptVars, gone, queueVars, taskVars, statVars,
                 sharedVars, roundVars>>

(* on_token returned false: the client is gone, ask for cancellation. *)
ClientGone(r) ==
  /\ rpc[r] = "deliver" /\ ids[r] > 0 /\ ~gone[r]
  /\ ids' = Set(ids, r, ids[r] - 1)
  /\ gone' = Set(gone, r, TRUE)
  /\ cancel' = Set(cancel, r, TRUE)
  /\ UNCHANGED <<gpuVars, rpc, slotVars, promptVars, delivered, queueVars, emitted, finishes,
                 statVars, sharedVars, roundVars>>

(* The batch is handed over, or skipped because the client is gone. *)
BatchOver(r) ==
  /\ RGoto(r, "deliver", "drain")
  /\ ids[r] = 0 \/ gone[r]
  /\ ids' = Set(ids, r, 0)
  /\ UNCHANGED <<gpuVars, slotVars, promptVars, delivered, gone, queueVars, taskVars,
                 statVars, sharedVars, roundVars>>

(* on_token threw: cancel, then drain to the close before unwinding. *)
OnTokenThrows(r) ==
  /\ RGoto(r, "deliver", "unwind")
  /\ ids[r] > 0 /\ ~gone[r]
  /\ ids' = Set(ids, r, 0)
  /\ gone' = Set(gone, r, TRUE)
  /\ cancel' = Set(cancel, r, TRUE)
  /\ UNCHANGED <<gpuVars, slotVars, promptVars, delivered, queueVars, emitted, finishes,
                 statVars, sharedVars, roundVars>>

UnwindDrain(r) ==
  /\ rpc[r] = "unwind" /\ buf[r] > 0
  /\ buf' = Set(buf, r, 0)
  /\ UNCHANGED <<gpuVars, rpc, slotVars, promptVars, clientVars, closed, failed, taskVars,
                 statVars, sharedVars, roundVars>>

UnwindAtOnce(r) == TRUE
UnwindWaits(r) == PopsNothing(r)

(* The exception leaves batch_generate and the handler: the frame and the  *)
(* slot go, nothing is logged.                                             *)
Unwind(r) ==
  /\ UnwindWaits(r)
  /\ RGoto(r, "unwind", "done")
  /\ busy' = busy \ {eng[r]}
  /\ UNCHANGED <<gpuVars, eng, promptVars, clientVars, queueVars, taskVars, statVars,
                 sharedVars, roundVars>>

(* After the drain: surface the queue's error, return. *)
ErrorUnstamped(r) == UNCHANGED gsEnd
StampError(r) ==
  gsEnd' = IF failed[r] THEN Set(gsEnd, eng[r], "error") ELSE gsEnd

Return(r) ==
  /\ RGoto(r, "closed", "log")
  /\ StampError(r)
  /\ UNCHANGED <<gpuVars, slotVars, promptVars, clientVars, queueVars, taskVars, report,
                 sharedVars, roundVars>>

(* req_log, then free_slot by the slot guard. *)
FreeSlot(r) ==
  /\ RGoto(r, "log", "done")
  /\ report' = Set(report, r, gsEnd[eng[r]])
  /\ busy' = busy \ {eng[r]}
  /\ UNCHANGED <<gpuVars, eng, promptVars, clientVars, queueVars, taskVars, gsEnd,
                 sharedVars, roundVars>>

RequestStep(r) ==
  \/ ClaimSlot(r)
  \/ PrefillAcquire(r)
  \/ PrefillWake(r)
  \/ PrefillGap(r)
  \/ PrefillYield(r)
  \/ PrefillDone(r)
  \/ PrefillRefused(r)
  \/ Register(r)
  \/ PopFalse(r)
  \/ PopTokens(r)
  \/ OnToken(r)
  \/ ClientGone(r)
  \/ BatchOver(r)
  \/ OnTokenThrows(r)
  \/ UnwindDrain(r)
  \/ Unwind(r)
  \/ Return(r)
  \/ FreeSlot(r)

-----------------------------------------------------------------------------
(* The conductor thread: Conductor::run and ConductorCore::round. *)

requestVars == <<rpc, slotVars, promptVars, clientVars, report>>

(* The loop's wait: break when stopping, else take over the join queue. *)
DeafToStop == joinQ # {} \/ members # {}
WaitOver == stop \/ joinQ # {} \/ members # {}

Adopt ==
  /\ cpc = "wait"
  /\ WaitOver
  /\ IF stop
       THEN cpc' = "adopt" /\ UNCHANGED <<joinQ, joins>>
       ELSE cpc' = "acquire" /\ joins' = joins \cup joinQ /\ joinQ' = {}
  /\ UNCHANGED <<gpuVars, requestVars, queueVars, taskVars, gsEnd, stop,
                 members, dead, todo, cur, left, done, dangling>>

(* One lease per round. *)
RoundAcquire ==
  /\ CGoto("acquire", "gate")
  /\ Acquire(TheConductor)
  /\ UNCHANGED <<requestVars, queueVars, taskVars, gsEnd, sharedVars,
                 joins, members, dead, todo, cur, left, done, dangling>>

RoundWake ==
  /\ cpc = "gate"
  /\ Wake(TheConductor)
  /\ UNCHANGED <<requestVars, queueVars, taskVars, gsEnd, sharedVars, roundVars>>

(* round(): staged joins become members here and only here. *)
GateEntered == gstate[TheConductor] = "held"

RoundBegin ==
  /\ CGoto("gate", "pre")
  /\ GateEntered
  /\ members' = members \cup joins
  /\ joins' = {}
  /\ todo' = members \cup joins
  /\ UNCHANGED <<gpuVars, requestVars, queueVars, taskVars, gsEnd, sharedVars,
                 dead, cur, left, done, dangling>>

(* finish_decode: the task's single epilogue stamps the end reason. *)
FinishDecode(r, why) ==
  /\ finishes' = Set(finishes, r, finishes[r] + 1)
  /\ gsEnd' = Set(gsEnd, eng[r], why)

(* Engine::pre_round, in the order of its tests.  The context guard needs  *)
(* emitted tokens: claim_slot left room for the first round.               *)
PreRoundStops(r, why) ==
  \/ why = "cancelled" /\ cancel[r]
  \/ why = "n_max" /\ ~cancel[r] /\ emitted[r] >= nMax[r]
  \/ why = "ctx-guard" /\ ~cancel[r] /\ 0 < emitted[r] /\ emitted[r] < nMax[r]

PreRoundPasses(r) == ~cancel[r] /\ emitted[r] < nMax[r]

(* The pre-check loop of round(). *)
PreCheck ==
  \E r \in todo :
    /\ cpc = "pre"
    /\ PreRoundPasses(r)
    /\ Touch({r})
    /\ todo' = todo \ {r}
    /\ UNCHANGED <<gpuVars, requestVars, queueVars, taskVars, gsEnd, sharedVars,
                   joins, members, dead, cpc, cur, left, done>>

PreCheckStops ==
  \E r \in todo, why \in Ends :
    /\ CGoto("pre", "prefinished")
    /\ PreRoundStops(r, why)
    /\ Touch({r})
    /\ FinishDecode(r, why)
    /\ todo' = todo \ {r}
    /\ cur' = r
    /\ UNCHANGED <<gpuVars, requestVars, queueVars, cancel, emitted, sharedVars,
                   joins, members, dead, left, done>>

(* leave(): close the queue with the end reason, unless fail_member has    *)
(* already closed it and nulled the member's pointer.                      *)
LeaveCloses(r) == r \notin dead

Leave(r) ==
  /\ members' = members \ {r}
  /\ dead' = dead \ {r}
  /\ IF LeaveCloses(r)
       THEN Touch({r}) /\ closed' = Set(closed, r, TRUE)
       ELSE UNCHANGED <<dangling, closed>>

PreCheckLeave ==
  /\ CGoto("prefinished", "pre")
  /\ Leave(cur)
  /\ cur' = NoRequest
  /\ UNCHANGED <<gpuVars, requestVars, buf, failed, taskVars, gsEnd, sharedVars,
                 joins, todo, left, done>>

(* All pre-checked: nobody, a solo round, a batch too wide to form, or a   *)
(* fused round.                                                            *)
FormBatch ==
  /\ cpc = "pre" /\ todo = {}
  /\ cpc' = CASE members = {}                     -> "leavers"
              [] Cardinality(members) = 1         -> "solo"
              [] Cardinality(members) > MaxUnion  -> "aborted"
              [] OTHER                            -> "verify"
  /\ UNCHANGED <<gpuVars, requestVars, queueVars, taskVars, gsEnd, sharedVars,
                 joins, members, dead, todo, cur, left, done, dangling>>

(* decode_step checks again before the solo round. *)
SoloChecked ==
  \E r \in members :
    /\ CGoto("solo", "post")
    /\ PreRoundPasses(r)
    /\ Touch({r})
    /\ todo' = {r}
    /\ UNCHANGED <<gpuVars, requestVars, queueVars, taskVars, gsEnd, sharedVars,
                   joins, members, dead, cur, left, done>>

SoloStops ==
  \E r \in members, why \in Ends :
    /\ CGoto("solo", "leavers")
    /\ PreRoundStops(r, why)
    /\ Touch({r})
    /\ FinishDecode(r, why)
    /\ done' = {r}
    /\ UNCHANGED <<gpuVars, requestVars, queueVars, cancel, emitted, sharedVars,
                   joins, members, dead, todo, cur, left>>

(* Draft, trim, grant and the fused verify touch every member's engine. *)
FusedVerify ==
  /\ CGoto("verify", "post")
  /\ Touch(members)
  /\ todo' = members
  /\ UNCHANGED <<gpuVars, requestVars, queueVars, taskVars, gsEnd, sharedVars,
                 joins, members, dead, cur, left, done>>

(* The bookkeeping loop: round counters first, then post_round emits the   *)
(* round's tokens one by one through the queue sink.                       *)
PostBegin ==
  \E r \in todo, n \in 1 .. RoundWidth :
    /\ CGoto("post", "emit")
    /\ Touch({r})
    /\ todo' = todo \ {r}
    /\ cur' = r
    /\ left' = n
    /\ UNCHANGED <<gpuVars, requestVars, queueVars, taskVars, gsEnd, sharedVars,
                   joins, members, dead, done>>

MoreToEmit == left > 0 /\ emitted[cur] < nMax[cur]

Emit ==
  /\ cpc = "emit" /\ MoreToEmit
  /\ Touch({cur})
  /\ buf' = Set(buf, cur, buf[cur] + 1)
  /\ emitted' = Set(emitted, cur, emitted[cur] + 1)
  /\ left' = left - 1
  /\ UNCHANGED <<gpuVars, requestVars, closed, failed, cancel, finishes, gsEnd,
                 sharedVars, joins, members, dead, cpc, todo, cur, done>>

(* The next token is EOS: finish_decode, and the member is done. *)
IsDone(r) == done \cup {r}

EmitEos ==
  /\ CGoto("emit", "post") /\ MoreToEmit
  /\ Touch({cur})
  /\ FinishDecode(cur, "eos")
  /\ done' = IsDone(cur)
  /\ cur' = NoRequest
  /\ left' = 0
  /\ UNCHANGED <<gpuVars, requestVars, queueVars, cancel, emitted, sharedVars,
                 joins, members, dead, todo>>

EmitOver ==
  /\ CGoto("emit", "post") /\ ~MoreToEmit
  /\ Touch({cur})
  /\ cur' = NoRequest
  /\ left' = 0
  /\ UNCHANGED <<gpuVars, requestVars, queueVars, taskVars, gsEnd, sharedVars,
                 joins, members, dead, todo, done>>

(* A host exception anywhere in the bookkeeping: fail_member finishes the  *)
(* task with "error" and nulls the member's queue pointer ...              *)
QueueNulled(r) == dead \cup {r}

HostThrow ==
  /\ CGoto("emit", "fail")
  /\ Touch({cur})
  /\ FinishDecode(cur, "error")
  /\ dead' = QueueNulled(cur)
  /\ left' = 0
  /\ UNCHANGED <<gpuVars, requestVars, queueVars, cancel, emitted, sharedVars,
                 joins, members, todo, cur, done>>

(* ... and TokenQueue::fail is its last access to the frame. *)
FailQueue ==
  /\ CGoto("fail", "post")
  /\ Touch({cur})
  /\ closed' = Set(closed, cur, TRUE)
  /\ failed' = Set(failed, cur, TRUE)
  /\ done' = done \cup {cur}
  /\ cur' = NoRequest
  /\ UNCHANGED <<gpuVars, requestVars, buf, taskVars, gsEnd, sharedVars,
                 joins, members, dead, todo, left>>

PostOver ==
  /\ CGoto("post", "leavers") /\ todo = {}
  /\ UNCHANGED <<gpuVars, requestVars, queueVars, taskVars, gsEnd, sharedVars,
                 joins, members, dead, todo, cur, left, done, dangling>>

(* Members that finished in this round leave. *)
LeaveDone ==
  \E r \in done :
    /\ cpc = "leavers"
    /\ Leave(r)
    /\ done' = done \ {r}
    /\ UNCHANGED <<gpuVars, requestVars, buf, failed, taskVars, gsEnd, sharedVars,
                   joins, cpc, todo, cur, left>>

RoundEnd ==
  /\ CGoto("leavers", "wait") /\ done = {}
  /\ Release(TheConductor)
  /\ UNCHANGED <<requestVars, queueVars, taskVars, gsEnd, sharedVars,
                 joins, members, dead, todo, cur, left, done, dangling>>

(* Shutdown drain: last-instant joins are staged, the staged become        *)
(* members, and every member is cancelled, finished and closed.            *)
ShutdownAdopt ==
  /\ CGoto("adopt", "merge")
  /\ joins' = joins \cup joinQ
  /\ joinQ' = {}
  /\ UNCHANGED <<gpuVars, requestVars, queueVars, taskVars, gsEnd, stop,
                 members, dead, todo, cur, left, done, dangling>>

MergeForgotten == members
MergeStaged == members \cup joins

ShutdownMerge ==
  /\ CGoto("merge", "cancel")
  /\ members' = MergeStaged
  /\ joins' = {}
  /\ UNCHANGED <<gpuVars, requestVars, queueVars, taskVars, gsEnd, sharedVars,
                 dead, todo, cur, left, done, dangling>>

ShutdownCancel ==
  \E r \in members :
    /\ CGoto("cancel", "cancelled")
    /\ Touch({r})
    /\ cancel' = Set(cancel, r, TRUE)
    /\ FinishDecode(r, "cancelled")
    /\ cur' = r
    /\ UNCHANGED <<gpuVars, requestVars, queueVars, emitted, sharedVars,
                   joins, members, dead, todo, left, done>>

ShutdownLeave ==
  /\ CGoto("cancelled", "cancel")
  /\ Leave(cur)
  /\ cur' = NoRequest
  /\ UNCHANGED <<gpuVars, requestVars, buf, failed, taskVars, gsEnd, sharedVars,
                 joins, todo, left, done>>

ShutdownOver ==
  /\ CGoto("cancel", "stopped") /\ members = {}
  /\ UNCHANGED <<gpuVars, requestVars, queueVars, taskVars, gsEnd, sharedVars,
                 joins, members, dead, todo, cur, left, done, dangling>>

ConductorStep ==
  \/ Adopt
  \/ RoundAcquire
  \/ RoundWake
  \/ RoundBegin
  \/ PreCheck
  \/ PreCheckStops
  \/ PreCheckLeave
  \/ FormBatch
  \/ SoloChecked
  \/ SoloStops
  \/ FusedVerify
  \/ PostBegin
  \/ Emit
  \/ EmitEos
  \/ EmitOver
  \/ HostThrow
  \/ FailQueue
  \/ PostOver
  \/ LeaveDone
  \/ RoundEnd
  \/ ShutdownAdopt
  \/ ShutdownMerge
  \/ ShutdownCancel
  \/ ShutdownLeave
  \/ ShutdownOver

(* request_stop(), from the owner of the conductor, at any moment. *)
RequestStop ==
  /\ ~stop
  /\ stop' = TRUE
  /\ UNCHANGED <<gpuVars, requestVars, queueVars, taskVars, gsEnd, joinQ, roundVars>>

Next ==
  \/ \E r \in Request : RequestStep(r)
  \/ ConductorStep
  \/ RequestStop

Spec == Init /\ [][Next]_vars

(* Every thread keeps running: a thread with an enabled step takes one.    *)
(* Nothing forces a shutdown, a yield or a client's departure.             *)
Fairness ==
  /\ WF_vars(ConductorStep)
  /\ \A r \in Request : WF_vars(RequestStep(r))

FairSpec == Spec /\ Fairness

-----------------------------------------------------------------------------
(* The conductor never follows a pointer of a member whose request thread  *)
(* has returned from batch_generate (the LIFETIME and CLOSE-EDGE rules of  *)
(* conductor.h): whichever way a member ends, the closing of its queue is  *)
(* the conductor's last access.                                            *)
NoDangling == dangling = {}

(* Members the conductor still owes a close, wherever they are staged. *)
Owed == (joinQ \cup joins \cup members) \ dead

(* An owed member's thread is in its drain loop behind an open queue, it   *)
(* has its slot to itself, and its task has not been finished unless it is *)
(* the one the conductor is just finishing.                                *)
OwedAreDraining ==
  /\ \A r \in Owed :
       /\ rpc[r] \in {"drain", "deliver", "unwind"}
       /\ ~closed[r] /\ ~failed[r]
       /\ finishes[r] = IF r \in done \/ (r = cur /\ cpc \in {"prefinished", "cancelled"})
                          THEN 1 ELSE 0
  /\ \A r, s \in Owed : r # s => eng[r] # eng[s]

(* finish_decode runs exactly once for a task that was accepted, by the    *)
(* time its queue closes, and never for one that was refused.              *)
FinishedOnce ==
  \A r \in Request :
    /\ finishes[r] <= 1
    /\ closed[r] => finishes[r] = 1 \/ (failed[r] /\ emitted[r] = 0)
    /\ rpc[r] \in {"closed", "log", "done"} => (emitted[r] > 0 => finishes[r] = 1)

(* Prefill of one request and the conductor's round never overlap on the   *)
(* GPU, and no thread sleeps on its queue while it holds the gate.         *)
InRound == cpc \in {"pre", "prefinished", "solo", "verify", "post", "emit", "fail",
                    "leavers"}
GpuExclusive ==
  /\ InRound => \A r \in Request : ~Holds(r)
  /\ \A r, s \in Request : Holds(r) /\ Holds(s) => r = s
  /\ \A r \in Request : Queued(r) => rpc[r] = "prefill"

(* Every token the conductor emitted reaches a client that stays, and a    *)
(* client never sees more than it asked for.                               *)
NothingLost ==
  \A r \in Request :
    /\ ~gone[r] => delivered[r] + ids[r] + buf[r] = emitted[r]
    /\ rpc[r] \in {"closed", "log", "done"} /\ ~gone[r] => delivered[r] = emitted[r]

(* The end reason a handler logs is the fate of its own task, whoever has  *)
(* used the engine before: an error is never reported as a normal finish,  *)
(* and only a departed client or a shutdown cancels.                       *)
HonestEnd ==
  \A r \in Request :
    rpc[r] = "done" =>
      /\ report[r] = "error" => failed[r]
      /\ failed[r] => report[r] = "error" \/ (gone[r] /\ report[r] = "none")
      /\ report[r] = "cancelled" => gone[r] \/ stop
      /\ report[r] = "n_max" => emitted[r] = nMax[r]
      /\ report[r] = "refused" => emitted[r] = 0 /\ finishes[r] = 0
      /\ report[r] = "none" => gone[r]

(* A batch is never wider than the lanes allow: with no more slots than    *)
(* MAX_K / 2 the hard check of round() cannot fire.                        *)
NeverAborts == cpc # "aborted"

(* The batch is what the conductor may touch: no frame is used after its   *)
(* queue was closed, whoever is owed a close is waiting for it and has its *)
(* engine to itself, the batch never outgrows the lanes, a task is         *)
(* finished exactly once, and no prefill overlaps a round on the GPU       *)
(* (conductor.h, round and fail).                                          *)
BatchSound ==
  TypeOK /\ NoDangling /\ OwedAreDraining /\ NeverAborts /\ FinishedOnce /\ GpuExclusive

(* Once the conductor has stopped nobody is left behind: every thread that *)
(* is or will be draining has a closed queue, or its registration will be  *)
(* refused.                                                                *)
StoppedLeavesNobody ==
  cpc = "stopped" =>
    /\ stop
    /\ \A r \in Request : rpc[r] \in {"drain", "deliver", "unwind"} => closed[r]

(* A request that got a slot ends, whatever the client, the rounds and a   *)
(* shutdown do; and a shutdown ends.                                       *)
EveryRequestEnds == \A r \in Request : rpc[r] = "acquire" ~> rpc[r] = "done"
StopEnds == stop ~> cpc = "stopped"
=============================================================================
