--------------------------- MODULE ConductorProofs ---------------------------
(* Continuous batching for any number of requests, slots, tokens and       *)
(* prefill chunks.  The invariant has one part per question: where the     *)
(* conductor is in its round and whom it still has to visit, what a        *)
(* request's thread and its task know of each other, who owns an engine,   *)
(* where the tokens are, and whose end reason the engine carries.          *)
EXTENDS Conductor, FiniteSetTheorems, TLAPS

Gate == INSTANCE GpuGateProofs WITH Thread <- Request \cup {TheConductor}

Early == {"idle", "acquire", "prefill", "register"}
Draining == {"drain", "deliver", "unwind"}
Over == {"closed", "log", "done"}

(* The types, the gate's apart. *)
TypesInv ==
  /\ rpc \in [Request -> RequestPc]
  /\ eng \in [Request -> Engine \cup {NoEngine}]
  /\ busy \subseteq Engine
  /\ gaps \in [Request -> Nat]
  /\ nMax \in [Request -> 1 .. NMax]
  /\ ids \in [Request -> Nat]
  /\ delivered \in [Request -> Nat]
  /\ gone \in [Request -> BOOLEAN]
  /\ buf \in [Request -> Nat]
  /\ closed \in [Request -> BOOLEAN]
  /\ failed \in [Request -> BOOLEAN]
  /\ cancel \in [Request -> BOOLEAN]
  /\ emitted \in [Request -> 0 .. NMax]
  /\ finishes \in [Request -> Nat]
  /\ gsEnd \in [Engine -> Ends]
  /\ report \in [Request -> Ends]
  /\ stop \in BOOLEAN
  /\ joinQ \subseteq Request /\ joins \subseteq Request /\ members \subseteq Request
  /\ cpc \in ConductorPc
  /\ cur \in Request \cup {NoRequest}
  /\ left \in Nat

(* The conductor's round: whom it has still to visit, whom it is at, who   *)
(* is done, and which queue pointers are null.                             *)
AtCur == {"prefinished", "emit", "fail", "cancelled"}

RoundInv ==
  /\ joinQ \cap joins = {} /\ (joinQ \cup joins) \cap members = {}
  /\ dead \subseteq members /\ todo \subseteq members /\ done \subseteq members
  /\ todo \cap done = {}
  /\ cpc \in AtCur => cur \in members \ (todo \cup done)
  /\ todo # {} => cpc \in {"pre", "prefinished", "post", "emit", "fail"}
  /\ done # {} => cpc \in {"post", "emit", "fail", "leavers"}
  /\ dead \subseteq done \cup {r \in {cur} : cpc = "fail"}
  /\ cpc = "fail" => cur \in dead
  /\ cpc \in {"adopt", "merge", "cancel", "cancelled", "stopped"} => stop
  /\ cpc \in {"merge", "cancel", "cancelled", "stopped"} => joinQ = {}
  /\ cpc \in {"cancel", "cancelled", "stopped"} => joins = {}
  /\ cpc = "stopped" => members = {}
  /\ cpc # "aborted"

(* A slot is taken for as long as its request runs, and by it alone. *)
EngineInv ==
  /\ \A r \in Request : rpc[r] \notin {"idle", "done"} => eng[r] \in busy
  /\ \A r, s \in Request :
       /\ rpc[r] \notin {"idle", "done"} /\ rpc[s] \notin {"idle", "done"}
       /\ eng[r] = eng[s]
       => r = s

(* The task before it is registered, or never registered at all. *)
Fresh(r) ==
  /\ ~closed[r] /\ ~failed[r] /\ ~gone[r] /\ ~cancel[r]
  /\ finishes[r] = 0 /\ emitted[r] = 0 /\ buf[r] = 0 /\ ids[r] = 0 /\ delivered[r] = 0

Failing(r) == cpc = "fail" /\ cur = r
Finishing(r) == r \in done \/ (r = cur /\ cpc \in {"prefinished", "cancelled"})

(* The thread's frame and the task: until its queue is closed, the thread  *)
(* of an accepted task stays in its drain loop.                            *)
FrameOk(r) ==
  /\ rpc[r] \in Early => Fresh(r) /\ r \notin joinQ \cup joins \cup members
  /\ rpc[r] \in {"log", "done"} /\ ~closed[r] => Fresh(r)
  /\ rpc[r] = "closed" => closed[r]
  /\ rpc[r] \in Draining => closed[r] \/ r \in Owed \/ Failing(r)
  /\ r \in Owed => /\ rpc[r] \in Draining /\ ~closed[r] /\ ~failed[r]
                   /\ finishes[r] = IF Finishing(r) THEN 1 ELSE 0
  /\ Failing(r) => rpc[r] \in Draining /\ ~closed[r] /\ ~failed[r] /\ finishes[r] = 1
  /\ finishes[r] <= 1
  /\ closed[r] => finishes[r] = 1 \/ (failed[r] /\ emitted[r] = 0)

FrameInv == \A r \in Request : FrameOk(r)

(* Where the tokens are. *)
TokenOk(r) ==
  /\ ~gone[r] => delivered[r] + ids[r] + buf[r] = emitted[r]
  /\ rpc[r] # "deliver" => ids[r] = 0
  /\ rpc[r] \in Over => buf[r] = 0
  /\ rpc[r] = "unwind" => gone[r]
  /\ emitted[r] <= nMax[r]

TokenInv == \A r \in Request : TokenOk(r)

(* The end reason of a finished task, and what a handler is about to log. *)
Fate(r, w) ==
  /\ w \in {"cancelled", "n_max", "ctx-guard", "eos", "error"}
  /\ w = "error" => failed[r] \/ Failing(r)
  /\ w = "cancelled" => gone[r] \/ stop
  /\ w = "n_max" => emitted[r] = nMax[r]

LogFate(r, w) ==
  /\ w \in Ends \ {"none"}
  /\ w = "error" <=> failed[r]
  /\ w = "cancelled" => gone[r] \/ stop
  /\ w = "n_max" => emitted[r] = nMax[r]
  /\ w = "refused" => emitted[r] = 0 /\ finishes[r] = 0

Honest(r) ==
  /\ report[r] = "error" => failed[r]
  /\ failed[r] => report[r] = "error" \/ (gone[r] /\ report[r] = "none")
  /\ report[r] = "cancelled" => gone[r] \/ stop
  /\ report[r] = "n_max" => emitted[r] = nMax[r]
  /\ report[r] = "refused" => emitted[r] = 0 /\ finishes[r] = 0
  /\ report[r] = "none" => gone[r]

EndOk(r) ==
  /\ cancel[r] => gone[r] \/ stop
  /\ finishes[r] = 1 /\ rpc[r] \in Draining \cup {"closed"} => Fate(r, gsEnd[eng[r]])
  /\ rpc[r] = "log" => LogFate(r, gsEnd[eng[r]])
  /\ rpc[r] # "done" => report[r] = "none"
  /\ rpc[r] = "done" => Honest(r)

EndInv == \A r \in Request : EndOk(r)

(* Who may be queued at the gate, and that a round runs under it. *)
GateUse ==
  /\ \A r \in Request : Queued(r) => rpc[r] = "prefill"
  /\ InRound => gstate[TheConductor] = "held"

ConductorInv ==
  /\ Gate!GateInv /\ GateUse
  /\ TypesInv /\ RoundInv /\ EngineInv /\ FrameInv /\ TokenInv /\ EndInv
  /\ NoDangling

-----------------------------------------------------------------------------
(* Types. *)
LEMMA TypesInit == Init => TypesInv
<1> SUFFICES ASSUME Init PROVE TypesInv
  OBVIOUS
<1>1. gaps \in [Request -> Nat] /\ nMax \in [Request -> 1 .. NMax]
  BY ConductorAssumption DEF Init
<1>2. emitted \in [Request -> 0 .. NMax]
  BY ConductorAssumption DEF Init
<1> QED BY <1>1, <1>2 DEF Init, TypesInv, RequestPc, ConductorPc, Ends

(* A request at work has an engine. *)
LEMMA HasEngine ==
  ASSUME TypesInv, EngineInv, NEW r \in Request, rpc[r] \notin {"idle", "done"}
  PROVE  eng[r] \in Engine
  BY DEF TypesInv, EngineInv

LEMMA TypesRequest ==
  ASSUME TypesInv, EngineInv, NEW r \in Request, RequestStep(r)
  PROVE  TypesInv'
<1> USE DEF TypesInv, RGoto, Set, slotVars, promptVars, clientVars, queueVars, taskVars,
            statVars, sharedVars, roundVars
<1>1. CASE ClaimSlot(r)
  BY <1>1 DEF ClaimSlot, RequestPc
<1>2. CASE PrefillAcquire(r) \/ PrefillWake(r) \/ PrefillYield(r)
  BY <1>2 DEF PrefillAcquire, PrefillWake, PrefillYield, RequestPc
<1>3. CASE PrefillGap(r)
  BY <1>3 DEF PrefillGap
<1>4. CASE PrefillDone(r) \/ PrefillRefused(r)
  BY <1>4, HasEngine DEF PrefillDone, PrefillRefused, RequestPc, Ends
<1>5. CASE Register(r)
  BY <1>5 DEF Register, RequestPc
<1>6. CASE PopFalse(r) \/ PopTokens(r)
  BY <1>6 DEF PopFalse, PopTokens, RequestPc
<1>7. CASE OnToken(r)
  BY <1>7 DEF OnToken
<1>8. CASE ClientGone(r)
  BY <1>8 DEF ClientGone
<1>9. CASE BatchOver(r)
  BY <1>9 DEF BatchOver, RequestPc
<1>10. CASE OnTokenThrows(r)
  BY <1>10 DEF OnTokenThrows, RequestPc
<1>11. CASE UnwindDrain(r) \/ Unwind(r)
  BY <1>11 DEF UnwindDrain, Unwind, RequestPc
<1>12. CASE Return(r)
  BY <1>12, HasEngine DEF Return, StampError, RequestPc, Ends
<1>13. CASE FreeSlot(r)
  BY <1>13, HasEngine DEF FreeSlot, RequestPc
<1> QED BY <1>1, <1>2, <1>3, <1>4, <1>5, <1>6, <1>7, <1>8, <1>9, <1>10, <1>11,
           <1>12, <1>13 DEF RequestStep

(* Whom the conductor finishes is at its drain loop, so it has an engine. *)
LEMMA OwedLive ==
  ASSUME TypesInv, EngineInv, FrameInv, NEW r \in Owed
  PROVE  /\ r \in Request /\ rpc[r] \in Draining /\ ~closed[r] /\ ~failed[r]
         /\ eng[r] \in Engine
<1>1. r \in Request
  BY DEF Owed, TypesInv
<1>2. rpc[r] \in Draining /\ ~closed[r] /\ ~failed[r]
  BY <1>1 DEF FrameInv, FrameOk
<1> QED BY <1>1, <1>2, HasEngine DEF Draining

(* Members to be visited, and the one being emitted for, are owed a close. *)
LEMMA VisitedOwed ==
  ASSUME RoundInv
  PROVE  /\ todo \subseteq Owed
         /\ cpc \in {"prefinished", "emit", "cancelled"} => cur \in Owed
         /\ cpc \in {"solo", "verify", "cancel", "gate", "pre"} => members \subseteq Owed
  BY DEF RoundInv, Owed, AtCur

LEMMA TypesConductor ==
  ASSUME TypesInv, EngineInv, FrameInv, RoundInv, ConductorStep
  PROVE  TypesInv'
<1> USE DEF TypesInv, CGoto, Set, requestVars, slotVars, promptVars, clientVars, queueVars,
            taskVars, statVars, sharedVars
<1>1. CASE Adopt \/ RoundAcquire \/ RoundWake \/ RoundBegin
  BY <1>1 DEF Adopt, RoundAcquire, RoundWake, RoundBegin, roundVars, ConductorPc
<1>2. CASE PreCheck \/ FormBatch \/ SoloChecked \/ FusedVerify \/ PostOver
  BY <1>2 DEF PreCheck, FormBatch, SoloChecked, FusedVerify, PostOver, ConductorPc
<1>3. CASE PreCheckStops
  <2>1. PICK r \in todo, why \in Ends :
          /\ cpc' = "prefinished" /\ FinishDecode(r, why) /\ cur' = r
          /\ UNCHANGED <<requestVars, queueVars, cancel, emitted, sharedVars, joins, members, left>>
    BY <1>3 DEF PreCheckStops
  <2>2. r \in Request /\ eng[r] \in Engine
    BY <2>1, VisitedOwed, OwedLive
  <2> QED BY <2>1, <2>2 DEF FinishDecode, ConductorPc
<1>4. CASE SoloStops
  <2>1. PICK r \in members, why \in Ends :
          /\ cpc = "solo" /\ cpc' = "leavers" /\ FinishDecode(r, why)
          /\ UNCHANGED <<requestVars, queueVars, cancel, emitted, sharedVars, joins, members, cur, left>>
    BY <1>4 DEF SoloStops
  <2>2. r \in Request /\ eng[r] \in Engine
    BY <2>1, VisitedOwed, OwedLive
  <2> QED BY <2>1, <2>2 DEF FinishDecode, ConductorPc
<1>5. CASE PreCheckLeave \/ ShutdownLeave
  BY <1>5 DEF PreCheckLeave, ShutdownLeave, Leave, ConductorPc, RoundInv, AtCur
<1>6. CASE PostBegin
  BY <1>6 DEF PostBegin, ConductorPc, RoundInv
<1>7. CASE Emit
  BY <1>7, ConductorAssumption DEF Emit, MoreToEmit, RoundInv, AtCur
<1>8. CASE EmitEos \/ HostThrow
  <2>1. CASE cpc = "emit"
    <3>1. cur \in Request /\ eng[cur] \in Engine
      BY <2>1, VisitedOwed, OwedLive
    <3> QED BY <1>8, <3>1 DEF EmitEos, HostThrow, FinishDecode, ConductorPc, Ends
  <2> QED BY <1>8, <2>1 DEF EmitEos, HostThrow
<1>9. CASE EmitOver
  BY <1>9 DEF EmitOver, ConductorPc
<1>10. CASE FailQueue
  BY <1>10 DEF FailQueue, ConductorPc, RoundInv, AtCur
<1>11. CASE LeaveDone \/ RoundEnd
  BY <1>11 DEF LeaveDone, Leave, RoundEnd, ConductorPc, RoundInv
<1>12. CASE ShutdownAdopt \/ ShutdownMerge \/ ShutdownOver
  BY <1>12 DEF ShutdownAdopt, ShutdownMerge, MergeStaged, ShutdownOver, ConductorPc
<1>13. CASE ShutdownCancel
  <2>1. PICK r \in members :
          /\ cpc = "cancel" /\ cpc' = "cancelled" /\ FinishDecode(r, "cancelled") /\ cur' = r
          /\ cancel' = [cancel EXCEPT ![r] = TRUE]
          /\ UNCHANGED <<requestVars, queueVars, emitted, sharedVars, joins, members, left>>
    BY <1>13 DEF ShutdownCancel
  <2>2. r \in Request /\ eng[r] \in Engine
    BY <2>1, VisitedOwed, OwedLive
  <2> QED BY <2>1, <2>2 DEF FinishDecode, ConductorPc, Ends
<1> QED BY <1>1, <1>2, <1>3, <1>4, <1>5, <1>6, <1>7, <1>8, <1>9, <1>10, <1>11,
           <1>12, <1>13 DEF ConductorStep

-----------------------------------------------------------------------------
(* The gate: every step is a step of the gate or leaves it alone. *)
LEMMA StepsGate == [Next]_vars => [GateNext]_gateVars
<1> SUFFICES ASSUME [Next]_vars PROVE GateNext \/ UNCHANGED gpuVars
  BY DEF gateVars, gpuVars
<1>1. ASSUME NEW r \in Request,
             \/ PrefillAcquire(r) \/ PrefillWake(r) \/ PrefillGap(r) \/ PrefillYield(r)
             \/ PrefillDone(r) \/ PrefillRefused(r)
      PROVE  GateNext
  BY <1>1 DEF PrefillAcquire, PrefillWake, PrefillGap, PrefillYield, PrefillDone,
              PrefillRefused, GateNext
<1>2. ASSUME NEW r \in Request,
             \/ ClaimSlot(r) \/ Register(r) \/ PopFalse(r) \/ PopTokens(r) \/ OnToken(r)
             \/ ClientGone(r) \/ BatchOver(r) \/ OnTokenThrows(r) \/ UnwindDrain(r)
             \/ Unwind(r) \/ Return(r) \/ FreeSlot(r)
      PROVE  UNCHANGED gpuVars
  BY <1>2 DEF ClaimSlot, Register, PopFalse, PopTokens, OnToken, ClientGone, BatchOver,
              OnTokenThrows, UnwindDrain, Unwind, Return, FreeSlot
<1>3. ASSUME RoundAcquire \/ RoundWake \/ RoundEnd PROVE GateNext
  BY <1>3 DEF RoundAcquire, RoundWake, RoundEnd, GateNext
<1>4. ASSUME ConductorStep, ~(RoundAcquire \/ RoundWake \/ RoundEnd)
      PROVE  UNCHANGED gpuVars
  BY <1>4 DEF ConductorStep, Adopt, RoundBegin, PreCheck, PreCheckStops, PreCheckLeave,
              FormBatch, SoloChecked, SoloStops, FusedVerify, PostBegin, Emit, EmitEos,
              EmitOver, HostThrow, FailQueue, PostOver, LeaveDone, ShutdownAdopt,
              ShutdownMerge, ShutdownCancel, ShutdownLeave, ShutdownOver
<1>5. ASSUME RequestStop \/ UNCHANGED vars PROVE UNCHANGED gpuVars
  BY <1>5 DEF RequestStop, vars
<1> QED BY <1>1, <1>2, <1>3, <1>4, <1>5 DEF Next, RequestStep

LEMMA GateStep == Gate!GateInv /\ [Next]_vars => Gate!GateInv'
  BY StepsGate, Gate!GateStepInv
  DEF GateNext, gateVars, Acquire, Wake, Release, Contended, MaybeYield,
      Gate!GateNext, Gate!gateVars, Gate!Acquire, Gate!Wake, Gate!Release,
      Gate!Contended, Gate!MaybeYield

LEMMA GateFacts ==
  ASSUME Gate!GateInv
  PROVE  GateTypeOK /\ GateExclusive
<1>1. GateTypeOK
  BY DEF Gate!GateInv, Gate!GateTypeOK, GateTypeOK
<1>2. GateExclusive
  BY Gate!GateInvExclusive DEF Gate!GateExclusive, GateExclusive, Gate!Holds, Holds
<1> QED BY <1>1, <1>2

(* Only its own thread moves a thread's place at the gate. *)
LEMMA GateUseStep ==
  ASSUME Gate!GateInv, GateUse, TypesInv, [Next]_vars
  PROVE  GateUse'
<1>1. /\ rpc \in [Request -> RequestPc] /\ TheConductor \notin Request
      /\ gstate \in [Request \cup {TheConductor} -> {"out", "wait", "held", "yield"}]
  BY GateFacts, ConductorAssumption DEF TypesInv, GateTypeOK
<1>2. ASSUME NEW r \in Request,
             PrefillAcquire(r) \/ PrefillWake(r) \/ PrefillGap(r) \/ PrefillYield(r)
      PROVE  GateUse'
  BY <1>1, <1>2 DEF PrefillAcquire, PrefillWake, PrefillGap, PrefillYield, Acquire, Wake,
                    Contended, MaybeYield, RGoto, GateUse, Queued, InRound, roundVars
<1>3. ASSUME NEW r \in Request, PrefillDone(r) \/ PrefillRefused(r) PROVE GateUse'
  BY <1>1, <1>3 DEF PrefillDone, PrefillRefused, Release, RGoto, GateUse, Queued, InRound,
                    roundVars
<1>4. ASSUME NEW r \in Request,
             \/ ClaimSlot(r) \/ Register(r) \/ PopFalse(r) \/ PopTokens(r) \/ OnToken(r)
             \/ ClientGone(r) \/ BatchOver(r) \/ OnTokenThrows(r) \/ UnwindDrain(r)
             \/ Unwind(r) \/ Return(r) \/ FreeSlot(r)
      PROVE  GateUse'
  <2>1. /\ UNCHANGED <<gstate, cpc>> /\ rpc[r] # "prefill"
        /\ \A q \in Request : q # r => rpc'[q] = rpc[q]
    BY <1>1, <1>4 DEF ClaimSlot, Register, PopFalse, PopTokens, OnToken, ClientGone, BatchOver,
              OnTokenThrows, UnwindDrain, Unwind, Return, FreeSlot, RGoto, gpuVars, roundVars
  <2> QED BY <2>1 DEF GateUse, Queued, InRound
<1>5. ASSUME RoundAcquire \/ RoundWake \/ RoundEnd PROVE GateUse'
  BY <1>1, <1>5 DEF RoundAcquire, RoundWake, RoundEnd, Acquire, Wake, Release, CGoto,
                    GateUse, Queued, InRound, requestVars, roundVars
<1>6. ASSUME RoundBegin PROVE GateUse'
  BY <1>6 DEF RoundBegin, GateEntered, GateUse, Queued, InRound, gpuVars, requestVars
<1>7. ASSUME \/ PreCheck \/ PreCheckStops \/ PreCheckLeave
             \/ FormBatch \/ SoloChecked \/ SoloStops \/ FusedVerify \/ PostBegin \/ Emit
             \/ EmitEos \/ EmitOver \/ HostThrow \/ FailQueue \/ PostOver \/ LeaveDone
      PROVE  GateUse'
  <2>1. UNCHANGED <<gstate, rpc>> /\ InRound
    BY <1>7 DEF PreCheck, PreCheckStops, PreCheckLeave,
              FormBatch, SoloChecked, SoloStops, FusedVerify, PostBegin, Emit, EmitEos,
              EmitOver, HostThrow, FailQueue, PostOver, LeaveDone, InRound, CGoto,
              gpuVars, requestVars
  <2> QED BY <2>1 DEF GateUse, Queued
<1>8. ASSUME \/ Adopt \/ ShutdownAdopt \/ ShutdownMerge \/ ShutdownCancel \/ ShutdownLeave
             \/ ShutdownOver
      PROVE  GateUse'
  <2>1. UNCHANGED <<gstate, rpc>> /\ ~InRound'
    BY <1>8 DEF Adopt, ShutdownAdopt, ShutdownMerge, ShutdownCancel, ShutdownLeave,
              ShutdownOver, InRound, CGoto, gpuVars, requestVars
  <2> QED BY <2>1 DEF GateUse, Queued
<1>9. ASSUME RequestStop \/ UNCHANGED vars PROVE GateUse'
  BY <1>9 DEF RequestStop, vars, gpuVars, requestVars, roundVars, GateUse, Queued, InRound
<1> QED BY <1>2, <1>3, <1>4, <1>5, <1>6, <1>7, <1>8, <1>9 DEF Next, RequestStep, ConductorStep

-----------------------------------------------------------------------------
(* The round. *)
LEMMA RoundRequest ==
  ASSUME RoundInv, FrameInv, TypesInv, NEW r \in Request, RequestStep(r)
  PROVE  RoundInv'
<1>1. CASE Register(r)
  <2>1. r \notin joinQ \cup joins \cup members
    BY <1>1 DEF Register, RGoto, FrameInv, FrameOk, Early
  <2>2. /\ UNCHANGED <<joins, members, dead, cpc, todo, cur, done, stop>>
        /\ joinQ' = joinQ \/ (~stop /\ joinQ' = joinQ \cup {r})
    BY <1>1 DEF Register, StopSeen, roundVars
  <2> QED BY <2>1, <2>2 DEF RoundInv, AtCur
<1>2. CASE ~Register(r)
  <2>1. UNCHANGED <<joinQ, joins, members, dead, cpc, todo, cur, done, stop>>
    BY <1>2 DEF RequestStep, ClaimSlot, PrefillAcquire, PrefillWake, PrefillGap, PrefillYield,
                PrefillDone, PrefillRefused, PopFalse, PopTokens, OnToken, ClientGone,
                BatchOver, OnTokenThrows, UnwindDrain, Unwind, Return, FreeSlot,
                roundVars, sharedVars
  <2> QED BY <2>1 DEF RoundInv
<1> QED BY <1>1, <1>2

(* The members of a batch have an engine each: a batch that forms fits. *)
LEMMA BatchFits ==
  ASSUME TypesInv, EngineInv, FrameInv, RoundInv, cpc = "pre"
  PROVE  ~(Cardinality(members) > MaxUnion)
<1> DEFINE f == [r \in members |-> eng[r]]
<1>1. members \subseteq Owed
  BY VisitedOwed
<1>2. \A r \in members : r \in Request /\ rpc[r] \in Draining /\ eng[r] \in Engine
  BY <1>1, OwedLive
<1>3. \A r, q \in members : eng[r] = eng[q] => r = q
  BY <1>2 DEF EngineInv, Draining
<1>4. f \in Injection(members, Engine)
  BY <1>2, <1>3 DEF Injection, IsInjective
<1>5. IsFiniteSet(members) /\ Cardinality(members) <= Cardinality(Engine)
  BY <1>4, ConductorAssumption, FS_Injection
<1>6. Cardinality(members) \in Nat /\ Cardinality(Engine) \in Nat
  BY <1>5, ConductorAssumption, FS_CardinalityType
<1> QED BY <1>5, <1>6, ConductorAssumption

LEMMA RoundConductor ==
  ASSUME RoundInv, TypesInv, EngineInv, FrameInv, ConductorStep
  PROVE  RoundInv'
<1> USE DEF RoundInv, AtCur, CGoto, sharedVars
<1>1. CASE Adopt
  BY <1>1 DEF Adopt
<1>2. CASE RoundAcquire \/ RoundWake
  BY <1>2 DEF RoundAcquire, RoundWake, roundVars
<1>3. CASE RoundBegin
  BY <1>3 DEF RoundBegin
<1>4. CASE PreCheck
  BY <1>4 DEF PreCheck
<1>5. CASE PreCheckStops
  BY <1>5 DEF PreCheckStops
<1>6. CASE PreCheckLeave
  BY <1>6 DEF PreCheckLeave, Leave
<1>7. CASE FormBatch
  <2>1. cpc = "pre" /\ cpc' \in {"leavers", "solo", "verify"}
    BY <1>7, BatchFits DEF FormBatch
  <2> QED BY <1>7, <2>1 DEF FormBatch
<1>8. CASE SoloChecked \/ SoloStops
  BY <1>8 DEF SoloChecked, SoloStops
<1>9. CASE FusedVerify
  BY <1>9 DEF FusedVerify
<1>10. CASE PostBegin
  BY <1>10 DEF PostBegin
<1>11. CASE Emit
  BY <1>11 DEF Emit
<1>12. CASE EmitEos
  BY <1>12 DEF EmitEos, IsDone
<1>13. CASE EmitOver
  BY <1>13 DEF EmitOver
<1>14. CASE HostThrow
  BY <1>14 DEF HostThrow, QueueNulled
<1>15. CASE FailQueue
  BY <1>15 DEF FailQueue
<1>16. CASE PostOver
  BY <1>16 DEF PostOver
<1>17. CASE LeaveDone
  BY <1>17 DEF LeaveDone, Leave
<1>18. CASE RoundEnd
  BY <1>18 DEF RoundEnd
<1>19. CASE ShutdownAdopt \/ ShutdownMerge \/ ShutdownOver
  BY <1>19 DEF ShutdownAdopt, ShutdownMerge, MergeStaged, ShutdownOver
<1>20. CASE ShutdownCancel
  BY <1>20 DEF ShutdownCancel
<1>21. CASE ShutdownLeave
  BY <1>21 DEF ShutdownLeave, Leave
<1> QED BY <1>1, <1>2, <1>3, <1>4, <1>5, <1>6, <1>7, <1>8, <1>9, <1>10, <1>11, <1>12, <1>13,
           <1>14, <1>15, <1>16, <1>17, <1>18, <1>19, <1>20, <1>21 DEF ConductorStep

-----------------------------------------------------------------------------
(* Engines. *)
LEMMA EngineRequest ==
  ASSUME EngineInv, TypesInv, NEW r \in Request, RequestStep(r)
  PROVE  EngineInv'
<1> USE DEF EngineInv, TypesInv
<1>1. CASE ClaimSlot(r)
  <2>1. PICK e \in Engine : /\ e \notin busy /\ busy' = busy \cup {e}
                            /\ rpc[r] = "idle" /\ rpc' = [rpc EXCEPT ![r] = "acquire"]
                            /\ eng' = [eng EXCEPT ![r] = e]
    BY <1>1 DEF ClaimSlot, FreeEngine, RGoto, Set
  <2> QED BY <2>1
<1>2. CASE Unwind(r) \/ FreeSlot(r)
  <2>1. /\ rpc[r] \notin {"idle", "done"} /\ rpc' = [rpc EXCEPT ![r] = "done"]
        /\ busy' = busy \ {eng[r]} /\ eng' = eng
    BY <1>2 DEF Unwind, FreeSlot, RGoto
  <2> QED BY <2>1
<1>3. CASE ~(ClaimSlot(r) \/ Unwind(r) \/ FreeSlot(r))
  <2>1. /\ UNCHANGED <<eng, busy>> /\ rpc[r] \notin {"idle", "done"}
        /\ \A q \in Request : q # r => rpc'[q] = rpc[q]
    BY <1>3 DEF RequestStep, PrefillAcquire, PrefillWake, PrefillGap, PrefillYield,
                PrefillDone, PrefillRefused, Register, PopFalse, PopTokens, OnToken, ClientGone,
                BatchOver, OnTokenThrows, UnwindDrain, Return, slotVars, RGoto
  <2> QED BY <2>1
<1> QED BY <1>1, <1>2, <1>3

(* Whatever leaves the request threads and their slots alone. *)
LEMMA EngineConductor ==
  ASSUME EngineInv, ConductorStep \/ RequestStop \/ UNCHANGED vars
  PROVE  EngineInv'
<1>1. UNCHANGED <<rpc, eng, busy>>
  BY DEF ConductorStep, Adopt, RoundAcquire, RoundWake, RoundBegin, PreCheck, PreCheckStops,
         PreCheckLeave, FormBatch, SoloChecked, SoloStops, FusedVerify, PostBegin, Emit, EmitEos,
         EmitOver, HostThrow, FailQueue, PostOver, LeaveDone, RoundEnd, ShutdownAdopt,
         ShutdownMerge, ShutdownCancel, ShutdownLeave, ShutdownOver, RequestStop,
         requestVars, slotVars, vars
<1> QED BY <1>1 DEF EngineInv

-----------------------------------------------------------------------------
(* Frames: whoever is touched has not returned. *)
LEMMA TouchLive ==
  ASSUME NoDangling, NEW S, Touch(S), \A r \in S : rpc[r] \in Draining
  PROVE  NoDangling'
  BY DEF NoDangling, Touch, FrameLive, Draining

LEMMA DanglingStep ==
  ASSUME NoDangling, TypesInv, EngineInv, RoundInv, FrameInv, ConductorStep
  PROVE  NoDangling'
<1>1. \A r \in Owed : rpc[r] \in Draining
  BY OwedLive
<1>2. CASE PreCheck \/ PreCheckStops \/ PostBegin
  <2>1. PICK r \in todo : Touch({r})
    BY <1>2 DEF PreCheck, PreCheckStops, PostBegin
  <2> QED BY <1>1, <2>1, TouchLive, VisitedOwed
<1>3. CASE SoloChecked \/ SoloStops \/ ShutdownCancel
  <2>1. PICK r \in members : Touch({r}) /\ cpc \in {"solo", "cancel"}
    BY <1>3 DEF SoloChecked, SoloStops, ShutdownCancel, CGoto
  <2> QED BY <1>1, <2>1, TouchLive, VisitedOwed
<1>4. CASE FusedVerify
  <2>1. Touch(members) /\ cpc = "verify"
    BY <1>4 DEF FusedVerify, CGoto
  <2> QED BY <1>1, <2>1, TouchLive, VisitedOwed
<1>5. CASE Emit \/ EmitEos \/ EmitOver \/ HostThrow
  <2>1. Touch({cur}) /\ cpc = "emit"
    BY <1>5 DEF Emit, EmitEos, EmitOver, HostThrow, CGoto
  <2> QED BY <1>1, <2>1, TouchLive, VisitedOwed
<1>6. CASE FailQueue
  <2>1. Touch({cur}) /\ cpc = "fail" /\ cur \in Request
    BY <1>6 DEF FailQueue, CGoto, RoundInv, AtCur, TypesInv
  <2>2. rpc[cur] \in Draining
    BY <2>1 DEF FrameInv, FrameOk, Failing
  <2> QED BY <2>1, <2>2, TouchLive
<1>7. CASE PreCheckLeave \/ ShutdownLeave
  <2>1. cpc \in {"prefinished", "cancelled"} /\ Leave(cur)
    BY <1>7 DEF PreCheckLeave, ShutdownLeave, CGoto
  <2>2. rpc[cur] \in Draining /\ cur \notin dead
    BY <1>1, <2>1, VisitedOwed DEF Owed
  <2> QED BY <2>1, <2>2, TouchLive DEF Leave, LeaveCloses
<1>8. CASE LeaveDone
  <2>1. PICK r \in done : Leave(r)
    BY <1>8 DEF LeaveDone
  <2>2. CASE r \in dead
    BY <2>1, <2>2 DEF Leave, LeaveCloses, NoDangling
  <2>3. CASE r \notin dead
    <3>1. rpc[r] \in Draining
      BY <1>1, <2>3 DEF RoundInv, Owed
    <3> QED BY <2>1, <2>3, <3>1, TouchLive DEF Leave, LeaveCloses
  <2> QED BY <2>2, <2>3
<1>9. CASE \/ Adopt \/ RoundAcquire \/ RoundWake \/ RoundBegin \/ FormBatch \/ PostOver
           \/ RoundEnd \/ ShutdownAdopt \/ ShutdownMerge \/ ShutdownOver
  BY <1>9 DEF Adopt, RoundAcquire, RoundWake, RoundBegin, FormBatch, PostOver, RoundEnd,
              ShutdownAdopt, ShutdownMerge, ShutdownOver, roundVars, NoDangling
<1> QED BY <1>2, <1>3, <1>4, <1>5, <1>6, <1>7, <1>8, <1>9 DEF ConductorStep

-----------------------------------------------------------------------------
(* What a request's thread and its task hold, and that a step of another   *)
(* thread leaves it alone.                                                 *)
Same(q) ==
  /\ rpc'[q] = rpc[q] /\ eng'[q] = eng[q] /\ nMax'[q] = nMax[q]
  /\ ids'[q] = ids[q] /\ delivered'[q] = delivered[q] /\ gone'[q] = gone[q]
  /\ buf'[q] = buf[q] /\ closed'[q] = closed[q] /\ failed'[q] = failed[q]
  /\ cancel'[q] = cancel[q] /\ emitted'[q] = emitted[q] /\ finishes'[q] = finishes[q]
  /\ report'[q] = report[q]

LEMMA RequestOthers ==
  ASSUME TypesInv, NEW r \in Request, RequestStep(r), NEW q \in Request, q # r
  PROVE  Same(q)
<1> USE DEF TypesInv, Same, RGoto, Set, slotVars, promptVars, clientVars, queueVars, taskVars,
            statVars
<1>1. CASE ClaimSlot(r) \/ PrefillAcquire(r) \/ PrefillWake(r) \/ PrefillGap(r) \/ PrefillYield(r)
  BY <1>1 DEF ClaimSlot, PrefillAcquire, PrefillWake, PrefillGap, PrefillYield
<1>2. CASE PrefillDone(r) \/ PrefillRefused(r) \/ Register(r) \/ PopFalse(r) \/ PopTokens(r)
  BY <1>2 DEF PrefillDone, PrefillRefused, Register, PopFalse, PopTokens
<1>3. CASE OnToken(r) \/ ClientGone(r) \/ BatchOver(r) \/ OnTokenThrows(r)
  BY <1>3 DEF OnToken, ClientGone, BatchOver, OnTokenThrows
<1>4. CASE UnwindDrain(r) \/ Unwind(r) \/ Return(r) \/ FreeSlot(r)
  BY <1>4 DEF UnwindDrain, Unwind, Return, FreeSlot
<1> QED BY <1>1, <1>2, <1>3, <1>4 DEF RequestStep

(* A request's thread moves nobody in the conductor, itself excepted when  *)
(* it registers.                                                           *)
LEMMA RequestRound ==
  ASSUME NEW r \in Request, RequestStep(r)
  PROVE  /\ UNCHANGED <<joins, members, dead, cpc, todo, cur, left, done, dangling, stop>>
         /\ joinQ' = joinQ \/ (Register(r) /\ joinQ' = joinQ \cup {r})
  BY DEF RequestStep, ClaimSlot, PrefillAcquire, PrefillWake, PrefillGap, PrefillYield,
         PrefillDone, PrefillRefused, Register, PopFalse, PopTokens, OnToken, ClientGone,
         BatchOver, OnTokenThrows, UnwindDrain, Unwind, Return, FreeSlot,
         roundVars, sharedVars

(* FrameOk speaks of nothing else. *)
LEMMA FrameSame ==
  ASSUME NEW q \in Request, FrameOk(q), Same(q),
         q \in (joinQ \cup joins \cup members)' <=> q \in joinQ \cup joins \cup members,
         q \in dead' <=> q \in dead, q \in done' <=> q \in done,
         Failing(q)' <=> Failing(q), Finishing(q)' <=> Finishing(q)
  PROVE  FrameOk(q)'
  BY DEF FrameOk, Same, Owed, Fresh

LEMMA FrameRequest ==
  ASSUME TypesInv, RoundInv, FrameInv, TokenInv, NEW r \in Request, RequestStep(r)
  PROVE  FrameInv'
<1>1. UNCHANGED <<joins, members, dead, cpc, todo, cur, left, done, dangling, stop>>
      /\ (joinQ' = joinQ \/ (Register(r) /\ joinQ' = joinQ \cup {r}))
  BY RequestRound
<1>2. ASSUME NEW q \in Request, q # r PROVE FrameOk(q)'
  <2>1. FrameOk(q) /\ Same(q)
    BY <1>2, RequestOthers DEF FrameInv
  <2> QED BY <1>1, <1>2, <2>1, FrameSame DEF Failing, Finishing
<1>3. FrameOk(r)'
  <2> DEFINE TaskSame == /\ closed'[r] = closed[r] /\ failed'[r] = failed[r]
                         /\ emitted'[r] = emitted[r] /\ finishes'[r] = finishes[r]
             AllSame == /\ TaskSame /\ gone'[r] = gone[r] /\ cancel'[r] = cancel[r]
                        /\ buf'[r] = buf[r] /\ ids'[r] = ids[r] /\ delivered'[r] = delivered[r]
  <2>0. FrameOk(r)
    BY DEF FrameInv
  <2>1. CASE ClaimSlot(r) \/ PrefillAcquire(r) \/ PrefillWake(r) \/ PrefillGap(r)
             \/ PrefillYield(r) \/ PrefillDone(r)
    <3>1. rpc[r] \in Early /\ rpc'[r] \in Early /\ AllSame /\ joinQ' = joinQ
      BY <2>1 DEF ClaimSlot, PrefillAcquire, PrefillWake, PrefillGap, PrefillYield, PrefillDone,
         Early, TypesInv, RGoto, slotVars, promptVars, clientVars, queueVars, taskVars, sharedVars
    <3> QED BY <1>1, <2>0, <3>1 DEF FrameOk, Fresh, Owed, Failing, Finishing, Early, Draining
  <2>2. CASE PrefillRefused(r)
    <3>1. rpc[r] = "prefill" /\ rpc'[r] = "log" /\ AllSame /\ joinQ' = joinQ
      BY <2>2 DEF PrefillRefused, TypesInv, RGoto, clientVars, queueVars, taskVars, sharedVars
    <3> QED BY <1>1, <2>0, <3>1 DEF FrameOk, Fresh, Owed, Failing, Finishing, Early, Draining
  <2>3. CASE Register(r)
    <3>1. /\ rpc[r] = "register" /\ rpc'[r] = "drain" /\ finishes'[r] = finishes[r]
          /\ emitted'[r] = emitted[r]
          /\ \/ joinQ' = joinQ /\ closed'[r] /\ failed'[r]
             \/ /\ joinQ' = joinQ \cup {r} /\ closed'[r] = closed[r]
                /\ failed'[r] = failed[r]
      BY <2>3 DEF Register, StopSeen, TypesInv, RGoto, Set, taskVars
    <3>2. r \notin members /\ r \notin done /\ r \notin dead /\ (cpc \in AtCur => cur # r)
      BY <2>0, <3>1 DEF FrameOk, Early, RoundInv
    <3> QED BY <1>1, <2>0, <3>1, <3>2 DEF FrameOk, Fresh, Owed, Failing, Finishing, Early,
                                          Draining, AtCur
  <2>4. CASE \/ PopTokens(r) \/ OnToken(r) \/ ClientGone(r) \/ BatchOver(r) \/ OnTokenThrows(r)
             \/ UnwindDrain(r)
    <3>1. rpc[r] \in Draining /\ rpc'[r] \in Draining /\ TaskSame /\ joinQ' = joinQ
      BY <2>4 DEF PopTokens, OnToken, ClientGone, BatchOver, OnTokenThrows, UnwindDrain, Draining,
         TypesInv, RGoto, queueVars, taskVars, sharedVars
    <3> QED BY <1>1, <2>0, <3>1 DEF FrameOk, Owed, Failing, Finishing, Early, Draining
  <2>5. CASE PopFalse(r) \/ Unwind(r)
    <3>1. /\ rpc[r] \in {"drain", "unwind"} /\ closed[r]
          /\ rpc'[r] \in {"closed", "done"} /\ AllSame /\ joinQ' = joinQ
      BY <2>5 DEF PopFalse, Unwind, UnwindWaits, PopsNothing,
         TypesInv, RGoto, clientVars, queueVars, taskVars, sharedVars
    <3> QED BY <1>1, <2>0, <3>1 DEF FrameOk, Fresh, Owed, Failing, Finishing, Early, Draining
  <2>6. CASE Return(r) \/ FreeSlot(r)
    <3>1. /\ rpc[r] \in {"closed", "log"} /\ rpc'[r] \in {"log", "done"}
          /\ AllSame /\ joinQ' = joinQ
      BY <2>6 DEF Return, FreeSlot, TypesInv, RGoto, clientVars, queueVars, taskVars, sharedVars
    <3> QED BY <1>1, <2>0, <3>1 DEF FrameOk, Fresh, Owed, Failing, Finishing, Early, Draining
  <2> QED BY <2>1, <2>2, <2>3, <2>4, <2>5, <2>6 DEF RequestStep
<1> QED BY <1>2, <1>3 DEF FrameInv

(* Steps of the conductor that only move members from one list to another, *)
(* or only read them.                                                      *)
QuietStep ==
  \/ Adopt \/ RoundAcquire \/ RoundWake \/ RoundBegin \/ PreCheck \/ FormBatch \/ SoloChecked
  \/ FusedVerify \/ PostBegin \/ EmitOver \/ PostOver \/ RoundEnd
  \/ ShutdownAdopt \/ ShutdownMerge \/ ShutdownOver

LEMMA QuietFacts ==
  ASSUME RoundInv, QuietStep
  PROVE  /\ UNCHANGED <<rpc, eng, nMax, ids, delivered, gone, buf, closed, failed, cancel,
                        emitted, finishes, gsEnd, report, stop, dead, done>>
         /\ (joinQ \cup joins \cup members)' = joinQ \cup joins \cup members
         /\ cpc \notin {"fail", "prefinished", "cancelled"}
         /\ cpc' \notin {"fail", "prefinished", "cancelled"}
<1> USE DEF CGoto, requestVars, slotVars, promptVars, clientVars, queueVars, taskVars,
            statVars, sharedVars, roundVars
<1>1. CASE Adopt \/ RoundAcquire \/ RoundWake \/ RoundBegin
  BY <1>1 DEF Adopt, RoundAcquire, RoundWake, RoundBegin
<1>2. CASE PreCheck \/ FormBatch \/ SoloChecked \/ FusedVerify
  BY <1>2 DEF PreCheck, FormBatch, SoloChecked, FusedVerify
<1>3. CASE PostBegin \/ EmitOver \/ PostOver \/ RoundEnd
  BY <1>3 DEF PostBegin, EmitOver, PostOver, RoundEnd
<1>4. CASE ShutdownAdopt \/ ShutdownMerge \/ ShutdownOver
  BY <1>4 DEF ShutdownAdopt, ShutdownMerge, ShutdownOver, MergeStaged
<1> QED BY <1>1, <1>2, <1>3, <1>4 DEF QuietStep

(* A step that finishes the task of r, a member the conductor is at, for   *)
(* the reason why.                                                         *)
FinishStep(r, why) ==
  /\ FinishDecode(r, why) /\ ~Finishing(r)
  /\ UNCHANGED <<rpc, eng, nMax, ids, delivered, gone, buf, closed, failed, emitted,
                 report, stop, joinQ, joins, members>>
  /\ IF why = "error" THEN Failing(r)' /\ dead' = dead \cup {r}
                      ELSE Finishing(r)' /\ dead' = dead
  /\ \/ UNCHANGED cancel /\ (why \in {"eos", "error"} \/ PreRoundStops(r, why))
     \/ cancel' = Set(cancel, r, TRUE) /\ why = "cancelled" /\ stop
  /\ \A q \in Request : q # r => /\ Finishing(q)' <=> Finishing(q)
                                /\ ~Failing(q) /\ ~Failing(q)'

LEMMA FinishFacts ==
  ASSUME RoundInv, PreCheckStops \/ SoloStops \/ EmitEos \/ HostThrow \/ ShutdownCancel
  PROVE  \E r \in Owed, why \in Ends : FinishStep(r, why)
<1> USE DEF CGoto, requestVars, slotVars, promptVars, clientVars, queueVars, sharedVars, Finishing,
            Failing, RoundInv, AtCur
<1>1. CASE PreCheckStops
  <2>1. PICK r \in todo, why \in Ends :
          /\ cpc = "pre" /\ cpc' = "prefinished" /\ PreRoundStops(r, why) /\ FinishDecode(r, why)
          /\ cur' = r
          /\ UNCHANGED <<requestVars, queueVars, cancel, emitted, sharedVars, joins, members,
                         dead, done>>
    BY <1>1 DEF PreCheckStops
  <2>2. r \in Owed /\ why # "error"
    BY <2>1, VisitedOwed DEF PreRoundStops
  <2>3. FinishStep(r, why)
    BY <2>1, <2>2 DEF FinishStep
  <2> QED BY <2>2, <2>3
<1>2. CASE SoloStops
  <2>1. PICK r \in members, why \in Ends :
          /\ cpc = "solo" /\ cpc' = "leavers" /\ PreRoundStops(r, why) /\ FinishDecode(r, why)
          /\ done' = {r}
          /\ UNCHANGED <<requestVars, queueVars, cancel, emitted, sharedVars, joins, members,
                         dead, cur>>
    BY <1>2 DEF SoloStops
  <2>2. r \in Owed /\ why # "error"
    BY <2>1, VisitedOwed DEF PreRoundStops
  <2>3. FinishStep(r, why)
    BY <2>1, <2>2 DEF FinishStep
  <2> QED BY <2>2, <2>3
<1>3. CASE EmitEos
  <2>1. PICK r \in Owed : r = cur
    BY <1>3, VisitedOwed DEF EmitEos
  <2>2. FinishStep(r, "eos")
    BY <1>3, <2>1 DEF FinishStep, EmitEos, IsDone
  <2> QED BY <2>1, <2>2 DEF Ends
<1>4. CASE HostThrow
  <2>1. PICK r \in Owed : r = cur
    BY <1>4, VisitedOwed DEF HostThrow
  <2>2. FinishStep(r, "error")
    BY <1>4, <2>1 DEF FinishStep, HostThrow, QueueNulled
  <2> QED BY <2>1, <2>2 DEF Ends
<1>5. CASE ShutdownCancel
  <2>1. PICK r \in members :
          /\ cpc = "cancel" /\ cpc' = "cancelled" /\ FinishDecode(r, "cancelled") /\ cur' = r
          /\ cancel' = Set(cancel, r, TRUE)
          /\ UNCHANGED <<requestVars, queueVars, emitted, sharedVars, joins, members, dead, done>>
    BY <1>5 DEF ShutdownCancel
  <2>2. r \in Owed
    BY <2>1, VisitedOwed
  <2>3. FinishStep(r, "cancelled")
    BY <2>1, <2>2 DEF FinishStep
  <2> QED BY <2>2, <2>3 DEF Ends
<1> QED BY <1>1, <1>2, <1>3, <1>4, <1>5

(* A step that lets go of r: its queue is closed unless it already was. *)
CloseStep(r) ==
  /\ UNCHANGED <<rpc, eng, nMax, ids, delivered, gone, buf, cancel, emitted, finishes, gsEnd,
                 report, stop, joinQ, joins>>
  /\ \/ r \in Owed /\ Finishing(r) /\ closed' = Set(closed, r, TRUE) /\ UNCHANGED failed
     \/ r \in dead \cap done /\ UNCHANGED <<closed, failed>>
     \/ Failing(r) /\ closed' = Set(closed, r, TRUE) /\ failed' = Set(failed, r, TRUE)
  /\ r \notin Owed' /\ ~Failing(r)'
  /\ \A q \in Request :
       q # r => /\ q \in members' <=> q \in members
                /\ q \in dead' <=> q \in dead
                /\ Finishing(q)' <=> Finishing(q)
                /\ ~Failing(q) /\ ~Failing(q)'

LEMMA CloseFacts ==
  ASSUME RoundInv, PreCheckLeave \/ LeaveDone \/ FailQueue \/ ShutdownLeave
  PROVE  \E r \in members : CloseStep(r)
<1> USE DEF CGoto, requestVars, slotVars, promptVars, clientVars, queueVars, sharedVars,
            Finishing, Failing, RoundInv, AtCur, taskVars, statVars
<1>1. CASE PreCheckLeave
  <2>1. PICK r \in Owed : r = cur /\ r \in members
    BY <1>1, VisitedOwed DEF PreCheckLeave
  <2>2. CloseStep(r)
    BY <1>1, <2>1 DEF CloseStep, PreCheckLeave, Leave, LeaveCloses, Owed
  <2> QED BY <2>1, <2>2
<1>2. CASE ShutdownLeave
  <2>1. PICK r \in Owed : r = cur /\ r \in members
    BY <1>2, VisitedOwed DEF ShutdownLeave
  <2>2. CloseStep(r)
    BY <1>2, <2>1 DEF CloseStep, ShutdownLeave, Leave, LeaveCloses, Owed
  <2> QED BY <2>1, <2>2
<1>3. CASE LeaveDone
  <2>1. PICK r \in done :
          /\ cpc = "leavers" /\ Leave(r) /\ done' = done \ {r}
          /\ UNCHANGED <<requestVars, buf, failed, taskVars, gsEnd, sharedVars, joins, cpc, cur>>
    BY <1>3 DEF LeaveDone
  <2>2. CloseStep(r)
    BY <2>1 DEF CloseStep, Leave, LeaveCloses, Owed
  <2> QED BY <2>1, <2>2
<1>4. CASE FailQueue
  <2>1. PICK r \in members : r = cur /\ r \in dead
    BY <1>4 DEF FailQueue
  <2>2. CloseStep(r)
    BY <1>4, <2>1 DEF CloseStep, FailQueue, Owed
  <2> QED BY <2>1, <2>2
<1> QED BY <1>1, <1>2, <1>3, <1>4

(* Each token is pushed for an owed member that has budget left. *)
LEMMA EmitFacts ==
  ASSUME RoundInv, Emit
  PROVE  /\ cur \in Owed /\ emitted[cur] < nMax[cur]
         /\ buf' = Set(buf, cur, buf[cur] + 1) /\ emitted' = Set(emitted, cur, emitted[cur] + 1)
         /\ UNCHANGED <<rpc, eng, nMax, ids, delivered, gone, closed, failed, cancel, finishes,
                        gsEnd, report, stop, joinQ, joins, members, dead, done, cpc, cur>>
  BY VisitedOwed DEF Emit, MoreToEmit, requestVars, slotVars, promptVars, clientVars, sharedVars

(* The four kinds of conductor steps. *)
LEMMA ConductorKinds ==
  ASSUME ConductorStep
  PROVE  \/ QuietStep \/ Emit
         \/ PreCheckStops \/ SoloStops \/ EmitEos \/ HostThrow \/ ShutdownCancel
         \/ PreCheckLeave \/ LeaveDone \/ FailQueue \/ ShutdownLeave
  BY DEF ConductorStep, QuietStep

LEMMA FrameConductor ==
  ASSUME TypesInv, RoundInv, FrameInv, ConductorStep
  PROVE  FrameInv'
<1> SUFFICES ASSUME NEW q \in Request, FrameOk(q) PROVE FrameOk(q)'
  BY DEF FrameInv
<1>1. CASE QuietStep
  BY <1>1, QuietFacts, FrameSame DEF Same, Failing, Finishing
<1>2. CASE Emit
  <2>1. PICK r \in Owed : r = cur
    BY <1>2, EmitFacts
  <2>2. CASE q # r
    BY <1>2, <2>1, <2>2, EmitFacts, FrameSame DEF TypesInv, Same, Set, Failing, Finishing
  <2>3. CASE q = r
    BY <1>2, <2>1, <2>3, EmitFacts DEF FrameOk, Owed, Failing, Finishing, Early, Draining
  <2> QED BY <2>2, <2>3
<1>3. CASE PreCheckStops \/ SoloStops \/ EmitEos \/ HostThrow \/ ShutdownCancel
  <2>1. PICK r \in Owed, why \in Ends : FinishStep(r, why)
    BY <1>3, FinishFacts
  <2>2. CASE q # r
    <3>1. Same(q)
      BY <2>1, <2>2 DEF FinishStep, FinishDecode, TypesInv, Same, Set
    <3> QED BY <2>1, <2>2, <3>1 DEF FinishStep, FrameOk, Same, Fresh, Owed
  <2>3. CASE q = r
    <3>1. /\ rpc'[q] = rpc[q] /\ closed'[q] = closed[q] /\ failed'[q] = failed[q]
          /\ finishes[q] = 0 /\ finishes'[q] = 1 /\ rpc[q] \in Draining
          /\ ~closed[q] /\ ~failed[q]
      BY <2>1, <2>3 DEF FinishStep, FinishDecode, TypesInv, Set, FrameOk
    <3> QED BY <2>1, <2>3, <3>1 DEF FinishStep, FrameOk, Owed, Early, Draining
  <2> QED BY <2>2, <2>3
<1>4. CASE PreCheckLeave \/ LeaveDone \/ FailQueue \/ ShutdownLeave
  <2>1. PICK r \in members : CloseStep(r)
    BY <1>4, CloseFacts
  <2>2. CASE q # r
    <3>1. Same(q)
      BY <2>1, <2>2 DEF CloseStep, TypesInv, Same, Set
    <3> QED BY <2>1, <2>2, <3>1 DEF CloseStep, FrameOk, Same, Fresh, Owed
  <2>3. CASE q = r
    <3> DEFINE Kept == /\ rpc'[q] = rpc[q] /\ finishes'[q] = finishes[q]
                       /\ q \notin Owed' /\ ~Failing(q)'
    <3>1. CASE Failing(q) \/ (q \in Owed /\ Finishing(q))
      <4>1. Kept /\ closed'[q] /\ rpc[q] \in Draining /\ finishes[q] = 1
        BY <2>1, <2>3, <3>1 DEF CloseStep, FrameOk, Set, TypesInv, Owed, Failing, RoundInv, AtCur
      <4> QED BY <4>1 DEF FrameOk, Early, Draining
    <3>2. CASE q \in dead \cap done
      <4>1. ~Failing(q) /\ q \notin Owed
        BY <3>2 DEF Failing, RoundInv, AtCur, Owed
      <4>2. /\ Kept /\ closed' = closed /\ failed' = failed
            /\ UNCHANGED <<gone, cancel, emitted, buf, ids, delivered, joinQ, joins>>
        BY <2>1, <2>3, <4>1 DEF CloseStep
      <4> QED BY <2>3, <4>1, <4>2 DEF FrameOk, Fresh
    <3> QED BY <2>1, <2>3, <3>1, <3>2 DEF CloseStep
  <2> QED BY <2>2, <2>3
<1> QED BY <1>1, <1>2, <1>3, <1>4, ConductorKinds

-----------------------------------------------------------------------------
(* Tokens. *)
LEMMA TokenRequest ==
  ASSUME TypesInv, FrameInv, TokenInv, NEW r \in Request, RequestStep(r)
  PROVE  TokenInv'
<1>1. ASSUME NEW q \in Request, q # r PROVE TokenOk(q)'
  BY <1>1, RequestOthers DEF TokenInv, TokenOk, Same, Over
<1>2. TokenOk(r)'
  <2> DEFINE Total == /\ emitted'[r] = emitted[r] /\ nMax'[r] = nMax[r]
             Kept == /\ Total /\ gone'[r] = gone[r] /\ buf'[r] = buf[r] /\ ids'[r] = ids[r]
                     /\ delivered'[r] = delivered[r]
  <2>0. /\ TokenOk(r) /\ FrameOk(r)
        /\ ids[r] \in Nat /\ buf[r] \in Nat /\ delivered[r] \in Nat /\ emitted[r] \in Int
    BY ConductorAssumption DEF TokenInv, FrameInv, TypesInv
  <2> USE DEF TypesInv, RGoto, Set, promptVars, clientVars, queueVars, taskVars
  <2>1. CASE \/ ClaimSlot(r) \/ PrefillAcquire(r) \/ PrefillWake(r) \/ PrefillGap(r)
             \/ PrefillYield(r) \/ PrefillDone(r) \/ Register(r)
    <3>1. /\ rpc[r] \in Early /\ rpc'[r] \in Early \cup {"drain"} /\ Kept
      BY <2>1 DEF ClaimSlot, PrefillAcquire, PrefillWake, PrefillGap, PrefillYield, PrefillDone,
         Register, Early
    <3> QED BY <2>0, <3>1 DEF TokenOk, FrameOk, Fresh, Early, Over
  <2>2. CASE PrefillRefused(r)
    <3>1. rpc[r] = "prefill" /\ rpc'[r] = "log" /\ Kept
      BY <2>2 DEF PrefillRefused
    <3> QED BY <2>0, <3>1 DEF TokenOk, FrameOk, Fresh, Early, Over
  <2>3. CASE PopFalse(r) \/ Unwind(r)
    <3>1. /\ buf[r] = 0 /\ rpc[r] \in {"drain", "unwind"} /\ rpc'[r] \in {"closed", "done"} /\ Kept
      BY <2>3 DEF PopFalse, Unwind, UnwindWaits, PopsNothing
    <3> QED BY <2>0, <3>1 DEF TokenOk, Over
  <2>4. CASE PopTokens(r)
    <3>1. /\ rpc[r] = "drain" /\ rpc'[r] = "deliver" /\ ids'[r] = buf[r] /\ buf'[r] = 0
          /\ delivered'[r] = delivered[r] /\ gone'[r] = gone[r] /\ Total
      BY <2>4 DEF PopTokens
    <3> QED BY <2>0, <3>1 DEF TokenOk, Over
  <2>5. CASE OnToken(r)
    <3>1. /\ rpc[r] = "deliver" /\ rpc'[r] = "deliver" /\ ids'[r] = ids[r] - 1
          /\ delivered'[r] = delivered[r] + 1 /\ buf'[r] = buf[r] /\ gone'[r] = gone[r] /\ Total
      BY <2>5 DEF OnToken
    <3> QED BY <2>0, <3>1 DEF TokenOk, Over
  <2>6. CASE ClientGone(r) \/ OnTokenThrows(r)
    <3>1. /\ gone'[r] /\ Total
          /\ rpc'[r] = "deliver" \/ (rpc'[r] = "unwind" /\ ids'[r] = 0)
      BY <2>6 DEF ClientGone, OnTokenThrows
    <3> QED BY <2>0, <3>1 DEF TokenOk, Over
  <2>7. CASE BatchOver(r)
    <3>1. /\ rpc'[r] = "drain" /\ ids'[r] = 0 /\ (ids[r] = 0 \/ gone[r]) /\ buf'[r] = buf[r]
          /\ delivered'[r] = delivered[r] /\ gone'[r] = gone[r] /\ Total
      BY <2>7 DEF BatchOver
    <3> QED BY <2>0, <3>1 DEF TokenOk, Over
  <2>8. CASE UnwindDrain(r)
    <3>1. /\ rpc[r] = "unwind" /\ rpc'[r] = "unwind" /\ ids'[r] = ids[r] /\ gone'[r] = gone[r]
          /\ Total
      BY <2>8 DEF UnwindDrain
    <3> QED BY <2>0, <3>1 DEF TokenOk, Over
  <2>9. CASE Return(r) \/ FreeSlot(r)
    <3>1. rpc[r] \in {"closed", "log"} /\ rpc'[r] \in {"log", "done"} /\ Kept
      BY <2>9 DEF Return, FreeSlot
    <3> QED BY <2>0, <3>1 DEF TokenOk, Over
  <2> QED BY <2>1, <2>2, <2>3, <2>4, <2>5, <2>6, <2>7, <2>8, <2>9 DEF RequestStep
<1> QED BY <1>1, <1>2 DEF TokenInv

LEMMA TokenConductor ==
  ASSUME TypesInv, RoundInv, FrameInv, TokenInv, ConductorStep
  PROVE  TokenInv'
<1>1. CASE ~Emit
  <2>1. UNCHANGED <<rpc, gone, delivered, ids, buf, emitted, nMax>>
    BY <1>1, ConductorKinds, QuietFacts, FinishFacts, CloseFacts DEF FinishStep, CloseStep
  <2> QED BY <2>1 DEF TokenInv, TokenOk
<1>2. CASE Emit
  <2> SUFFICES ASSUME NEW q \in Request PROVE TokenOk(q)'
    BY DEF TokenInv
  <2>1. PICK r \in Owed : r = cur /\ r \in Request
    BY <1>2, EmitFacts DEF Owed, TypesInv
  <2>2. CASE q # r
    BY <1>2, <2>1, <2>2, EmitFacts DEF TokenInv, TokenOk, TypesInv, Set
  <2>3. CASE q = r
    <3>1. /\ emitted[q] < nMax[q] /\ buf'[q] = buf[q] + 1 /\ emitted'[q] = emitted[q] + 1
          /\ UNCHANGED <<rpc, gone, delivered, ids, nMax>>
      BY <1>2, <2>1, <2>3, EmitFacts DEF TypesInv, Set
    <3>2. TokenOk(q) /\ rpc[q] \in Draining
      BY <2>1, <2>3 DEF TokenInv, FrameInv, FrameOk
    <3>3. /\ ids[q] \in Nat /\ buf[q] \in Nat /\ delivered[q] \in Nat
          /\ emitted[q] \in Nat /\ nMax[q] \in Nat
      BY ConductorAssumption DEF TypesInv
    <3> QED BY <3>1, <3>2, <3>3 DEF TokenOk, Draining, Over
  <2> QED BY <2>2, <2>3
<1> QED BY <1>1, <1>2

-----------------------------------------------------------------------------
(* End reasons: a request's own engine carries its own. *)
LEMMA EndSame ==
  ASSUME NEW q \in Request, EndOk(q), Same(q),
         Failing(q)' <=> Failing(q), stop => stop',
         rpc[q] \in Draining \cup {"closed", "log"} => gsEnd'[eng[q]] = gsEnd[eng[q]]
  PROVE  EndOk(q)'
<1>1. \A w : Fate(q, w) => Fate(q, w)'
  BY DEF Same, Fate
<1>2. \A w : LogFate(q, w) => LogFate(q, w)'
  BY DEF Same, LogFate
<1>3. Honest(q) => Honest(q)'
  BY DEF Same, Honest
<1> QED BY <1>1, <1>2, <1>3 DEF EndOk, Same, Draining, Fate, LogFate

(* A step of r's thread writes at most r's own engine. *)
LEMMA EndsElsewhere ==
  ASSUME TypesInv, EngineInv, NEW r \in Request, RequestStep(r),
         NEW q \in Request, q # r, rpc[q] \notin {"idle", "done"}
  PROVE  gsEnd'[eng[q]] = gsEnd[eng[q]]
<1>1. CASE PrefillDone(r) \/ PrefillRefused(r) \/ Return(r)
  <2>1. rpc[r] \notin {"idle", "done"}
    BY <1>1 DEF PrefillDone, PrefillRefused, Return, RGoto
  <2>2. eng[q] # eng[r] /\ eng[q] \in Engine /\ eng[r] \in Engine
    BY <2>1, HasEngine DEF EngineInv
  <2> QED BY <1>1, <2>2 DEF PrefillDone, PrefillRefused, Return, StampError, Set, TypesInv
<1>2. CASE ~(PrefillDone(r) \/ PrefillRefused(r) \/ Return(r))
  <2>1. gsEnd' = gsEnd
    BY <1>2 DEF RequestStep, ClaimSlot, PrefillAcquire, PrefillWake, PrefillGap, PrefillYield,
         Register, PopFalse, PopTokens, OnToken, ClientGone,
         BatchOver, OnTokenThrows, UnwindDrain, Unwind, FreeSlot, statVars
  <2> QED BY <2>1
<1> QED BY <1>1, <1>2

LEMMA EndRequest ==
  ASSUME TypesInv, EngineInv, FrameInv, TokenInv, EndInv, NEW r \in Request, RequestStep(r)
  PROVE  EndInv'
<1>1. UNCHANGED <<cpc, cur, stop>>
  BY RequestRound
<1>2. ASSUME NEW q \in Request, q # r PROVE EndOk(q)'
  <2>1. EndOk(q) /\ Same(q)
    BY <1>2, RequestOthers DEF EndInv
  <2>2. rpc[q] \in Draining \cup {"closed", "log"} => gsEnd'[eng[q]] = gsEnd[eng[q]]
    BY <1>2, EndsElsewhere DEF Draining
  <2> QED BY <1>1, <2>1, <2>2, EndSame DEF Failing
<1>3. EndOk(r)'
  <2> DEFINE TaskSame == /\ failed'[r] = failed[r] /\ closed'[r] = closed[r]
                         /\ emitted'[r] = emitted[r] /\ finishes'[r] = finishes[r]
                         /\ nMax'[r] = nMax[r]
             Kept == /\ TaskSame /\ gone'[r] = gone[r] /\ cancel'[r] = cancel[r]
  <2>0. EndOk(r) /\ FrameOk(r) /\ TokenOk(r) /\ (rpc[r] \notin {"idle", "done"} => eng[r] \in Engine)
    BY HasEngine DEF EndInv, FrameInv, TokenInv
  <2>1. CASE \/ ClaimSlot(r) \/ PrefillAcquire(r) \/ PrefillWake(r) \/ PrefillGap(r)
             \/ PrefillYield(r) \/ PrefillDone(r) \/ Register(r)
    <3>1. /\ rpc[r] \in Early /\ rpc'[r] \in Early \cup {"drain"}
          /\ finishes'[r] = finishes[r] /\ report'[r] = report[r] /\ gone'[r] = gone[r]
          /\ cancel'[r] = cancel[r]
      BY <2>1 DEF ClaimSlot, PrefillAcquire, PrefillWake, PrefillGap, PrefillYield, PrefillDone,
         Register, Early, TypesInv, RGoto, promptVars, clientVars, taskVars, statVars
    <3> QED BY <1>1, <2>0, <3>1 DEF EndOk, FrameOk, Fresh, Early, Draining
  <2>2. CASE PrefillRefused(r)
    <3>1. /\ rpc[r] = "prefill" /\ rpc'[r] = "log" /\ Kept /\ report'[r] = report[r]
          /\ eng'[r] = eng[r] /\ gsEnd'[eng[r]] = "refused"
      BY <2>0, <2>2 DEF PrefillRefused, TypesInv, RGoto, Set, slotVars, promptVars, clientVars,
         queueVars, taskVars
    <3>2. LogFate(r, gsEnd[eng[r]])'
      BY <2>0, <3>1 DEF LogFate, Ends, FrameOk, Fresh, Early
    <3> QED BY <1>1, <2>0, <3>1, <3>2 DEF EndOk, Draining
  <2>3. CASE \/ PopFalse(r) \/ PopTokens(r) \/ OnToken(r) \/ ClientGone(r) \/ BatchOver(r)
             \/ OnTokenThrows(r) \/ UnwindDrain(r)
    <3>1. /\ rpc[r] \in Draining /\ rpc'[r] \in Draining \cup {"closed"} /\ TaskSame
          /\ gone[r] => gone'[r]
          /\ cancel'[r] = cancel[r] \/ gone'[r]
          /\ report'[r] = report[r] /\ gsEnd' = gsEnd /\ eng'[r] = eng[r]
      BY <2>3 DEF PopFalse, PopTokens, OnToken, ClientGone, BatchOver, OnTokenThrows, UnwindDrain,
         Draining, TypesInv, RGoto, Set, slotVars, promptVars, clientVars, queueVars, taskVars,
         statVars
    <3>2. Fate(r, gsEnd[eng[r]]) => Fate(r, gsEnd[eng[r]])'
      BY <1>1, <3>1 DEF Fate, Failing
    <3> QED BY <1>1, <2>0, <3>1, <3>2 DEF EndOk, Draining
  <2>4. CASE Unwind(r)
    <3>1. /\ rpc[r] = "unwind" /\ rpc'[r] = "done" /\ Kept /\ report'[r] = report[r]
      BY <2>4 DEF Unwind, TypesInv, RGoto, promptVars, clientVars, queueVars, taskVars, statVars
    <3>2. report'[r] = "none" /\ gone'[r]
      BY <2>0, <3>1 DEF EndOk, TokenOk
    <3>3. Honest(r)'
      BY <3>2 DEF Honest
    <3> QED BY <1>1, <2>0, <3>1, <3>3 DEF EndOk, Draining
  <2>5. CASE Return(r)
    <3>1. /\ rpc[r] = "closed" /\ rpc'[r] = "log" /\ Kept /\ report'[r] = report[r]
          /\ eng'[r] = eng[r]
          /\ gsEnd'[eng[r]] = IF failed[r] THEN "error" ELSE gsEnd[eng[r]]
      BY <2>0, <2>5 DEF Return, StampError, TypesInv, RGoto, Set, slotVars, promptVars, clientVars,
         queueVars, taskVars
    <3>2. ~failed[r] => Fate(r, gsEnd[eng[r]]) /\ ~Failing(r)
      BY <2>0, <3>1 DEF EndOk, FrameOk, Draining
    <3>3. CASE failed[r]
      <4>1. LogFate(r, gsEnd[eng[r]])'
        BY <1>1, <3>1, <3>3 DEF LogFate, Ends
      <4> QED BY <1>1, <2>0, <3>1, <4>1 DEF EndOk, Draining
    <3>4. CASE ~failed[r]
      <4>1. LogFate(r, gsEnd[eng[r]])'
        BY <1>1, <3>1, <3>2, <3>4 DEF LogFate, Fate, Ends
      <4> QED BY <1>1, <2>0, <3>1, <4>1 DEF EndOk, Draining
    <3> QED BY <3>3, <3>4
  <2>6. CASE FreeSlot(r)
    <3>1. /\ rpc[r] = "log" /\ rpc'[r] = "done" /\ Kept /\ report'[r] = gsEnd[eng[r]]
      BY <2>6 DEF FreeSlot, TypesInv, RGoto, Set, promptVars, clientVars, queueVars, taskVars
    <3>2. LogFate(r, gsEnd[eng[r]])
      BY <2>0, <3>1 DEF EndOk
    <3>3. Honest(r)'
      BY <1>1, <3>1, <3>2 DEF Honest, LogFate
    <3> QED BY <1>1, <2>0, <3>1, <3>3 DEF EndOk, Draining
  <2> QED BY <2>1, <2>2, <2>3, <2>4, <2>5, <2>6 DEF RequestStep
<1> QED BY <1>2, <1>3 DEF EndInv

LEMMA EndConductor ==
  ASSUME TypesInv, RoundInv, EngineInv, FrameInv, TokenInv, EndInv, ConductorStep
  PROVE  EndInv'
<1> SUFFICES ASSUME NEW q \in Request, EndOk(q) PROVE EndOk(q)'
  BY DEF EndInv
<1>1. CASE QuietStep
  BY <1>1, QuietFacts, EndSame DEF Same, Failing
<1>2. CASE Emit
  <2>1. PICK r \in Owed : r = cur
    BY <1>2, EmitFacts
  <2>2. CASE q # r
    BY <1>2, <2>1, <2>2, EmitFacts, EndSame DEF TypesInv, Same, Set, Failing
  <2>3. CASE q = r
    <3>1. finishes[q] = 0 /\ rpc[q] \in Draining
      <4>1. FrameOk(q) /\ q \in Owed
        BY <2>1, <2>3 DEF FrameInv
      <4>2. ~Finishing(q)
        BY <1>2, <2>1, <2>3 DEF Emit, Finishing, RoundInv, AtCur
      <4> QED BY <4>1, <4>2 DEF FrameOk
    <3>2. UNCHANGED <<rpc, finishes, cancel, gone, stop, report>>
      BY <1>2, EmitFacts
    <3> QED BY <3>1, <3>2 DEF EndOk, Draining
  <2> QED BY <2>2, <2>3
<1>3. CASE PreCheckStops \/ SoloStops \/ EmitEos \/ HostThrow \/ ShutdownCancel
  <2>1. PICK r \in Owed, why \in Ends : FinishStep(r, why)
    BY <1>3, FinishFacts
  <2>2. /\ r \in Request /\ rpc[r] \in Draining /\ eng[r] \in Engine
        /\ gsEnd' = [gsEnd EXCEPT ![eng[r]] = why]
        /\ UNCHANGED <<rpc, eng, nMax, ids, delivered, gone, buf, closed, failed, emitted,
                       report, stop>>
    BY <2>1, OwedLive DEF FinishStep, FinishDecode, Set
  <2>3. CASE q # r
    <3>1. Same(q)
      BY <2>1, <2>3 DEF FinishStep, FinishDecode, TypesInv, Same, Set
    <3>2. rpc[q] \in Draining \cup {"closed", "log"} => gsEnd'[eng[q]] = gsEnd[eng[q]]
      BY <2>2, <2>3, HasEngine DEF EngineInv, Draining, TypesInv
    <3> QED BY <2>1, <2>2, <2>3, <3>1, <3>2, EndSame DEF FinishStep
  <2>4. CASE q = r
    <3>1. gsEnd'[eng[q]] = why
      BY <2>2, <2>4 DEF TypesInv
    <3>2. /\ cancel[q] => gone[q] \/ stop
          /\ emitted[q] <= nMax[q] /\ emitted[q] \in Int /\ nMax[q] \in Int
      BY ConductorAssumption DEF EndOk, TokenInv, TokenOk, TypesInv
    <3>3. Fate(q, why)'
      <4>1. why = "error" => Failing(q)'
        BY <2>1, <2>4 DEF FinishStep
      <4>2. \/ why \in {"eos", "error", "ctx-guard"}
            \/ why = "cancelled" /\ (cancel[q] \/ stop)
            \/ why = "n_max" /\ emitted[q] >= nMax[q]
        BY <2>1, <2>4 DEF FinishStep, PreRoundStops
      <4>3. why = "cancelled" => gone'[q] \/ stop'
        BY <2>2, <3>2, <4>2
      <4>4. why = "n_max" => emitted'[q] = nMax'[q]
        BY <2>2, <3>2, <4>2
      <4> QED BY <4>1, <4>2, <4>3, <4>4 DEF Fate
    <3>4. Fate(q, gsEnd[eng[q]])'
      BY <2>2, <3>1, <3>3 DEF Fate
    <3>5. cancel'[q] => gone'[q] \/ stop'
      <4>1. cancel' = cancel \/ stop
        BY <2>1 DEF FinishStep
      <4> QED BY <2>2, <3>2, <4>1
    <3> QED BY <2>2, <2>4, <3>4, <3>5 DEF EndOk, Draining
  <2> QED BY <2>3, <2>4
<1>4. CASE PreCheckLeave \/ LeaveDone \/ FailQueue \/ ShutdownLeave
  <2>1. PICK r \in members : CloseStep(r)
    BY <1>4, CloseFacts
  <2>2. UNCHANGED <<rpc, eng, nMax, ids, delivered, gone, buf, cancel, emitted, finishes, gsEnd,
                    report, stop>>
    BY <2>1 DEF CloseStep
  <2>3. CASE q # r
    <3>1. Same(q)
      BY <2>1, <2>3 DEF CloseStep, TypesInv, Same, Set
    <3> QED BY <2>1, <2>2, <2>3, <3>1, EndSame DEF CloseStep
  <2>4. CASE q = r /\ failed' = failed
    <3>1. ~Failing(q)
      BY <2>1, <2>4 DEF CloseStep, Failing, RoundInv, AtCur, Owed, Set, TypesInv, FrameInv, FrameOk
    <3>2. \A w : Fate(q, w) => Fate(q, w)'
      BY <2>2, <2>4, <3>1 DEF Fate
    <3>3. \A w : LogFate(q, w) => LogFate(q, w)'
      BY <2>2, <2>4 DEF LogFate
    <3>4. Honest(q) => Honest(q)'
      BY <2>2, <2>4 DEF Honest
    <3> QED BY <2>2, <3>2, <3>3, <3>4 DEF EndOk, Fate, LogFate
  <2>5. CASE q = r /\ Failing(q) /\ failed' = Set(failed, r, TRUE)
    <3>1. rpc[q] \in Draining /\ failed'[q]
      BY <2>5 DEF FrameInv, FrameOk, Set, TypesInv
    <3>2. \A w : Fate(q, w) => Fate(q, w)'
      BY <2>2, <3>1 DEF Fate
    <3> QED BY <2>2, <3>1, <3>2 DEF EndOk, Draining, Fate
  <2> QED BY <2>1, <2>3, <2>4, <2>5 DEF CloseStep
<1> QED BY <1>1, <1>2, <1>3, <1>4, ConductorKinds

-----------------------------------------------------------------------------
(* The whole invariant. *)
LEMMA ConductorInit == Init => ConductorInv
<1> SUFFICES ASSUME Init PROVE ConductorInv
  OBVIOUS
<1>1. Gate!GateInv
  BY Gate!GateInitInv DEF Init, GateInit, Gate!GateInit
<1>2. GateUse
  BY DEF Init, GateInit, GateUse, Queued, InRound
<1>3. TypesInv
  BY TypesInit
<1>4. RoundInv /\ EngineInv /\ NoDangling
  BY DEF Init, RoundInv, AtCur, EngineInv, NoDangling
<1>5. FrameInv
  BY DEF Init, FrameInv, FrameOk, Fresh, Early, Draining, Owed, Failing, Finishing
<1>6. TokenInv
  BY ConductorAssumption DEF Init, TokenInv, TokenOk, Over
<1>7. EndInv
  BY DEF Init, EndInv, EndOk, Draining
<1> QED BY <1>1, <1>2, <1>3, <1>4, <1>5, <1>6, <1>7 DEF ConductorInv

(* request_stop() only raises the flag, and a stutter changes nothing. *)
LEMMA StopStep ==
  ASSUME ConductorInv, RequestStop \/ UNCHANGED vars
  PROVE  TypesInv' /\ RoundInv' /\ FrameInv' /\ TokenInv' /\ EndInv' /\ NoDangling'
<1>1. /\ UNCHANGED <<rpc, eng, busy, gaps, nMax, ids, delivered, gone, buf, closed, failed,
                     cancel, emitted, finishes, gsEnd, report, joinQ, joins, members, dead, cpc,
                     todo, cur, left, done, dangling>>
      /\ stop' = stop \/ stop' = TRUE
  BY DEF RequestStop, vars, requestVars, slotVars, promptVars, clientVars, queueVars, taskVars,
         statVars, sharedVars, roundVars
<1>2. TypesInv'
  BY <1>1 DEF ConductorInv, TypesInv
<1>3. RoundInv' /\ NoDangling'
  BY <1>1 DEF ConductorInv, RoundInv, NoDangling
<1>4. ASSUME NEW q \in Request PROVE FrameOk(q)' /\ TokenOk(q)' /\ EndOk(q)'
  <2>1. FrameOk(q) /\ TokenOk(q) /\ EndOk(q) /\ Same(q)
    BY <1>1 DEF ConductorInv, FrameInv, TokenInv, EndInv, Same
  <2>2. (Failing(q)' <=> Failing(q)) /\ (Finishing(q)' <=> Finishing(q))
    BY <1>1 DEF Failing, Finishing
  <2>3. FrameOk(q)' /\ EndOk(q)'
    BY <1>1, <2>1, <2>2, FrameSame, EndSame
  <2>4. TokenOk(q)'
    BY <1>1, <2>1 DEF TokenOk
  <2> QED BY <2>3, <2>4
<1> QED BY <1>2, <1>3, <1>4 DEF FrameInv, TokenInv, EndInv

LEMMA ConductorNext == ConductorInv /\ [Next]_vars => ConductorInv'
<1> SUFFICES ASSUME ConductorInv, [Next]_vars PROVE ConductorInv'
  OBVIOUS
<1> USE DEF ConductorInv
<1>1. Gate!GateInv' /\ GateUse'
  BY GateStep, GateUseStep
<1>2. ASSUME NEW r \in Request, RequestStep(r) PROVE ConductorInv'
  <2>1. TypesInv' /\ RoundInv' /\ EngineInv'
    BY <1>2, TypesRequest, RoundRequest, EngineRequest
  <2>2. FrameInv' /\ TokenInv' /\ EndInv'
    BY <1>2, FrameRequest, TokenRequest, EndRequest
  <2>3. NoDangling'
    BY <1>2, RequestRound DEF NoDangling
  <2> QED BY <1>1, <2>1, <2>2, <2>3
<1>3. CASE ConductorStep
  <2>1. TypesInv' /\ RoundInv' /\ EngineInv'
    BY <1>3, TypesConductor, RoundConductor, EngineConductor
  <2>2. FrameInv' /\ TokenInv' /\ EndInv'
    BY <1>3, FrameConductor, TokenConductor, EndConductor
  <2>3. NoDangling'
    BY <1>3, DanglingStep
  <2> QED BY <1>1, <2>1, <2>2, <2>3
<1>4. CASE RequestStop \/ UNCHANGED vars
  BY <1>1, <1>4, StopStep, EngineConductor
<1> QED BY <1>2, <1>3, <1>4 DEF Next

LEMMA ConductorAlways == Spec => []ConductorInv
  BY ConductorInit, ConductorNext, PTL DEF Spec

-----------------------------------------------------------------------------
(* For any number of requests, slots and tokens: the conductor follows no  *)
(* pointer into a frame that is gone, whoever is owed a close waits for it *)
(* with an engine of its own, every accepted task is finished exactly      *)
(* once, a prefill never overlaps a round, and the hard check on the batch *)
(* size in round() cannot fire.                                            *)
THEOREM ConductorBatchSound == Spec => []BatchSound
<1>1. ASSUME ConductorInv PROVE BatchSound
  <2> USE DEF ConductorInv
  <2>1. TypeOK
    <3>1. /\ dead \subseteq Request /\ todo \subseteq Request /\ done \subseteq Request
          /\ dangling \subseteq Request
      BY <1>1 DEF RoundInv, TypesInv, NoDangling
    <3> QED BY <1>1, <3>1, GateFacts DEF TypesInv, TypeOK
  <2>2. OwedAreDraining
    <3>1. \A r \in Owed : r \in Request /\ FrameOk(r)
      BY <1>1 DEF Owed, TypesInv, FrameInv
    <3>2. \A r \in Owed : rpc[r] \in Draining /\ ~closed[r] /\ ~failed[r]
      BY <3>1 DEF FrameOk
    <3>3. \A r \in Owed : finishes[r] = IF Finishing(r) THEN 1 ELSE 0
      BY <3>1 DEF FrameOk
    <3>4. \A r, s \in Owed : r # s => eng[r] # eng[s]
      BY <1>1, <3>1, <3>2 DEF EngineInv, Draining
    <3> QED BY <3>2, <3>3, <3>4 DEF OwedAreDraining, Draining, Finishing
  <2>3. FinishedOnce
    <3> SUFFICES ASSUME NEW r \in Request
                 PROVE  /\ finishes[r] <= 1
                        /\ closed[r] => finishes[r] = 1 \/ (failed[r] /\ emitted[r] = 0)
                        /\ rpc[r] \in Over => (emitted[r] > 0 => finishes[r] = 1)
      BY DEF FinishedOnce, Over
    <3>1. FrameOk(r) /\ emitted[r] \in Int
      BY <1>1, ConductorAssumption DEF FrameInv, TypesInv
    <3> QED BY <3>1 DEF FrameOk, Fresh, Over
  <2>4. GpuExclusive
    <3>1. GateExclusive /\ TheConductor \notin Request
      BY <1>1, GateFacts, ConductorAssumption
    <3>2. \A r, s \in Request \cup {TheConductor} : Holds(r) /\ Holds(s) => r = s
      BY <3>1 DEF GateExclusive
    <3>3. InRound => Holds(TheConductor)
      BY <1>1 DEF GateUse, Holds
    <3> QED BY <1>1, <3>1, <3>2, <3>3 DEF GpuExclusive, GateUse
  <2>5. NoDangling /\ NeverAborts
    BY <1>1 DEF RoundInv, NeverAborts
  <2> QED BY <2>1, <2>2, <2>3, <2>4, <2>5 DEF BatchSound
<1> QED BY <1>1, ConductorAlways, PTL

(* The end reason a handler logs is the fate of its own task, however many *)
(* requests have used the engine in between.                               *)
THEOREM ConductorHonestEnd == Spec => []HonestEnd
<1>1. ConductorInv => HonestEnd
  BY DEF ConductorInv, EndInv, EndOk, Honest, HonestEnd
<1> QED BY <1>1, ConductorAlways, PTL

(* A conductor that has stopped owes nobody a close. *)
THEOREM ConductorLeavesNobody == Spec => []StoppedLeavesNobody
<1>1. ASSUME ConductorInv, cpc = "stopped" PROVE StoppedLeavesNobody
  <2>1. stop /\ Owed = {}
    BY <1>1 DEF ConductorInv, RoundInv, Owed
  <2>2. \A r \in Request : FrameOk(r) /\ ~Failing(r)
    BY <1>1 DEF ConductorInv, FrameInv, Failing
  <2> QED BY <2>1, <2>2 DEF FrameOk, Draining, StoppedLeavesNobody
<1>2. ConductorInv => StoppedLeavesNobody
  BY <1>1 DEF StoppedLeavesNobody
<1> QED BY <1>2, ConductorAlways, PTL

(* Every token emitted for a client that stays is delivered to it, once,   *)
(* whatever the rounds' widths and however its thread is scheduled.        *)
THEOREM ConductorNothingLost == Spec => []NothingLost
<1>1. ASSUME ConductorInv, NEW r \in Request
      PROVE  /\ ~gone[r] => delivered[r] + ids[r] + buf[r] = emitted[r]
             /\ rpc[r] \in Over /\ ~gone[r] => delivered[r] = emitted[r]
  <2>1. TokenOk(r) /\ delivered[r] \in Nat
    BY <1>1 DEF ConductorInv, TokenInv, TypesInv
  <2> QED BY <2>1 DEF TokenOk, Over
<1>2. ConductorInv => NothingLost
  BY <1>1 DEF NothingLost, Over
<1> QED BY <1>2, ConductorAlways, PTL
=============================================================================
