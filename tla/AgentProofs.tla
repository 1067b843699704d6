----------------------------- MODULE AgentProofs -----------------------------
(***************************************************************************)
(* What the ds4-agent's control plane keeps, for every queue size, bound   *)
(* and saved session: signals, events, the client's lines and the          *)
(* transcript; what its interactive loop keeps on the terminal; and what   *)
(* the q27-tui frontend that drives it shows.                              *)
(***************************************************************************)
EXTENDS AgentControl, AgentRepl, TuiClient, FiniteSetTheorems, SequenceTheorems,
        WellFoundedInduction, TLAPS

-----------------------------------------------------------------------------
(* Signals *)

(* A signal that ends the session stays visible: the interrupt is up, but  *)
(* for the moment in which try_ack_sigint has taken it down and not looked *)
(* at last_signal again.                                                   *)
SignalInv ==
  /\ hard => lastSignal # "int"
  /\ hard /\ mpc \notin {"ack_check", "join", "stop", "done"} => interrupted
  /\ hard /\ mpc \in {"ack_clear", "ack_check"} => lastSignal = "hard"

(* Steps that neither change a signal nor enter or leave the               *)
(* acknowledgement.                                                        *)
CalmStep ==
  /\ UNCHANGED signalVars
  /\ mpc' \notin {"ack_clear", "ack_check"}
  /\ mpc # "ack_check"
  /\ mpc \in {"join", "stop", "done"} => mpc' \in {"join", "stop", "done"}

LEMMA CalmSignal == ASSUME SignalInv, CalmStep PROVE SignalInv'
  BY DEF SignalInv, CalmStep, signalVars

LEMMA ReaderSignal == ASSUME SignalInv, Reader PROVE SignalInv'
  BY DEF SignalInv, Reader, ReaderTop, ReaderEof, ParseLine, ReaderWoken, BurstEnd,
         signalVars, mainVars

LEMMA SignalSignal == ASSUME SignalInv, Signal PROVE SignalInv'
  BY DEF SignalInv, Signal, mainVars

LEMMA AckSignalSignal == ASSUME SignalInv, AckSignal PROVE SignalInv'
  BY DEF SignalInv, AckSignal, Goto, EndSession

LEMMA EndLoopSignal == ASSUME SignalInv, EndLoop PROVE SignalInv'
  BY DEF SignalInv, EndLoop, Goto

LEMMA ChooseCalm ==
  ASSUME WorkerStarted \/ LoopTop \/ DrainControl \/ DrainPrompts \/ WaitOp
  PROVE  CalmStep
  BY DEF CalmStep, WorkerStarted, LoopTop, DrainControl, DrainPrompts, WaitOp, Goto

LEMMA DispatchCalm == ASSUME Dispatch PROVE CalmStep
  BY DEF CalmStep, Dispatch, Immediate, SaveOp, CompactOp, NewOp, ToolOp, PromptOp, Goto,
         Start

LEMMA CommandCalm ==
  ASSUME SubmitTask \/ AwaitEvent \/ OutputFails \/ BusyOps PROVE CalmStep
  BY DEF CalmStep, SubmitTask, AwaitEvent, OutputFails, BusyOps, Goto

LEMMA ResultsCalm == ASSUME Results PROVE CalmStep
  BY DEF CalmStep, Results, AfterPrepare, CompactionStep, CompactionFails, AfterTurn,
         AfterTool, AfterManual, AfterSave, AfterRecount, AfterAutosave, AtResult, Settle,
         Start, Goto

LEMMA SettleCalm ==
  ASSUME \/ SettleCancel \/ SettleSignal \/ RecoverTurn \/ RecoverTool \/ Idle
         \/ ControlStop \/ WorkerJoined
  PROVE  CalmStep
  BY DEF CalmStep, SettleCancel, SettleSignal, RecoverTurn, RecoverTool, Idle, ControlStop,
         WorkerJoined, EndSession, Start, Goto

LEMMA WorkerSignal ==
  ASSUME SignalInv, UNCHANGED controlVars PROVE SignalInv'
  BY DEF SignalInv, controlVars, signalVars, mainVars

LEMMA SignalNext == ASSUME SignalInv, [Next]_vars PROVE SignalInv'
<1>1. CASE Reader
  BY <1>1, ReaderSignal
<1>2. CASE Signal
  BY <1>2, SignalSignal
<1>3. CASE MainStep \/ OutputFails \/ BusyOps
  BY <1>3, CalmSignal, AckSignalSignal, EndLoopSignal, ChooseCalm, DispatchCalm,
     CommandCalm, ResultsCalm, SettleCalm DEF MainStep
<1>4. CASE WorkerStep \/ NoMemory
  BY <1>4, WorkerSignal DEF WorkerStep, NoMemory
<1>5. CASE UNCHANGED vars
  BY <1>5, WorkerSignal DEF vars
<1> QED BY <1>1, <1>2, <1>3, <1>4, <1>5 DEF Next

LEMMA SignalInit == Init => SignalInv
  BY DEF Init, ControlInit, SignalInv

(* Whatever signals arrive between whichever two steps of try_ack_sigint,  *)
(* the loop never goes on without the interrupt of one that ends the       *)
(* session.                                                                *)
THEOREM AgentKeepsHardSignal == Spec => []HardSignalKept
<1>1. SignalInv => HardSignalKept
  BY DEF SignalInv, HardSignalKept
<1> QED BY <1>1, SignalInit, SignalNext, PTL DEF Spec

-----------------------------------------------------------------------------
(* Events *)

EventRecord == [type : {"state", "delta", "done"}, command : Nat, status : Status]

WorkerTypeOK ==
  /\ wstop \in BOOLEAN /\ ready \in BOOLEAN /\ active \in BOOLEAN
  /\ command \in Nat
  /\ outcome \in Status
  /\ events \in Seq(EventRecord)

(* The worker owes a terminal event. *)
WorkerBusy == ready \/ wpc \in {"announce", "run", "finish"}

(* While the worker owes a terminal none is queued and two places are      *)
(* free; once it has none left to send and was not told to stop, a command *)
(* that is still active has its terminal in the queue.  Away from its      *)
(* event loop the main thread has read everything.                         *)
EventInv ==
  /\ WorkerTypeOK
  /\ ready => wpc \notin {"announce", "run", "finish"}
  /\ WorkerBusy => active /\ Len(events) <= EventMax - 2
  /\ WorkerBusy => \A i \in 1..Len(events) : ~IsTerminal(events[i])
  /\ \A i \in 1..Len(events) : events[i].command = command
  /\ \A i \in 1..Len(events) : IsTerminal(events[i]) => i = Len(events)
  /\ wstate = "error" => ~active
  /\ wstate = "stopped" => wstop
  /\ mpc # "await" /\ ~wstop => events = <<>> /\ ~active
  /\ wpc = "open" => mpc = "start" /\ ~active

(* Steps that leave the worker alone. *)
AwayStep ==
  /\ UNCHANGED workerVars
  /\ mpc = "await" => mpc' = "await"
  /\ mpc = "start" /\ wpc = "open" => mpc' = "start"

LEMMA AwayEvents == ASSUME EventInv, AwayStep PROVE EventInv'
  BY DEF EventInv, AwayStep, workerVars, WorkerTypeOK, WorkerBusy, IsTerminal

LEMMA ReaderAway == ASSUME Reader \/ Signal PROVE AwayStep
  BY DEF Reader, ReaderTop, ReaderEof, ParseLine, ReaderWoken, BurstEnd, Signal, mainVars,
         AwayStep

LEMMA ChooseAway ==
  ASSUME WorkerStarted \/ LoopTop \/ DrainControl \/ DrainPrompts \/ WaitOp \/ Dispatch
  PROVE  AwayStep
  BY DEF AwayStep, WorkerStarted, LoopTop, DrainControl, DrainPrompts, WaitOp, Dispatch,
         Immediate, SaveOp, CompactOp, NewOp, ToolOp, PromptOp

LEMMA ResultsAway == ASSUME Results \/ BusyOps PROVE AwayStep
  BY DEF AwayStep, Results, AfterPrepare, CompactionStep, AfterTurn, AfterTool, AfterManual,
         AfterSave, AfterRecount, AfterAutosave, AtResult, BusyOps

LEMMA SettleAway ==
  ASSUME \/ SettleCancel \/ SettleSignal \/ AckSignal \/ RecoverTurn \/ RecoverTool \/ Idle
         \/ EndLoop \/ WorkerJoined
  PROVE  AwayStep
  BY DEF AwayStep, SettleCancel, SettleSignal, AckSignal, RecoverTurn, RecoverTool, Idle,
         EndLoop, WorkerJoined

LEMMA SubmitEvents == ASSUME EventInv, SubmitTask PROVE EventInv'
<1>1. CASE Submit(CommandOf(task)) /\ mpc' = "await"
  <2>1. /\ wstop' = wstop /\ active' = TRUE /\ ready' = TRUE /\ outcome' = outcome
        /\ command' = command + 1 /\ wpc' = wpc /\ events = <<>> /\ events' = <<>>
        /\ wpc \notin {"announce", "run", "finish"} /\ wstate' = Running(CommandOf(task))
        /\ mpc = "submit"
    BY <1>1 DEF EventInv, WorkerTypeOK, SubmitTask, Submit, Accepts, WorkerBusy
  <2>2. wstate' \notin {"error", "stopped"}
    BY <2>1 DEF Running
  <2>3. WorkerTypeOK'
    BY <2>1 DEF EventInv, WorkerTypeOK
  <2>4. EventMax - 2 >= 0
    BY WorkerAssumption
  <2> QED BY <1>1, <2>1, <2>2, <2>3, <2>4 DEF EventInv, WorkerBusy
<1>2. CASE UNCHANGED workerVars /\ mpc' = "result"
  <2>1. AwayStep
    BY <1>2 DEF SubmitTask, AwayStep
  <2> QED BY <2>1, AwayEvents
<1> QED BY <1>1, <1>2 DEF SubmitTask, Goto

(* An ordinary event of a busy worker. *)
LEMMA EnqueueEvents ==
  ASSUME EventInv, NEW t \in {"state", "delta"}, Enqueue(Event(t, "ok")),
         wpc \in {"announce", "run"}, wpc' = "run",
         UNCHANGED <<mpc, wstate, wstop, ready, active, command, kind, outcome>>
  PROVE  EventInv'
<1>1. /\ Len(events) < EventMax - 2 /\ events' = Append(events, Event(t, "ok"))
      /\ events \in Seq(EventRecord)
  BY DEF Enqueue, Room, CountLimit, EventInv, WorkerTypeOK
<1>2. /\ Event(t, "ok") \in EventRecord /\ ~IsTerminal(Event(t, "ok"))
      /\ Event(t, "ok").command = command
  BY DEF Event, EventRecord, Status, IsTerminal, EventInv, WorkerTypeOK
<1>3. /\ events' \in Seq(EventRecord) /\ Len(events') = Len(events) + 1
      /\ events'[Len(events) + 1] = Event(t, "ok")
      /\ \A i \in 1..Len(events) : events'[i] = events[i]
  BY <1>1, <1>2
<1>4. /\ \A i \in 1..Len(events') : ~IsTerminal(events'[i])
      /\ \A i \in 1..Len(events') : events'[i].command = command
  BY <1>2, <1>3 DEF EventInv, WorkerBusy
<1>5. Len(events') <= EventMax - 2
  BY <1>1, <1>3, WorkerAssumption
<1>6. WorkerTypeOK'
  BY <1>3 DEF EventInv, WorkerTypeOK
<1> QED BY <1>3, <1>4, <1>5, <1>6 DEF EventInv, WorkerBusy, IsTerminal

(* The worker gives up or finishes: it still owes the terminal. *)
FinishingStep ==
  /\ wpc \in {"announce", "run"}
  /\ wpc' = "finish"
  /\ outcome' \in Status
  /\ UNCHANGED <<mpc, wstate, wstop, ready, active, command, kind, events>>

LEMMA FinishingEvents == ASSUME EventInv, FinishingStep PROVE EventInv'
  BY DEF EventInv, FinishingStep, WorkerTypeOK, WorkerBusy, IsTerminal

LEMMA PublishEvents == ASSUME EventInv, Publish, mpc' = mpc PROVE EventInv'
<1> DEFINE e == Event("done", outcome)
<1>1. /\ events' = Append(events, e) /\ events \in Seq(EventRecord) /\ wpc' = "wait"
      /\ wpc = "finish" /\ ~ready /\ ready' = ready /\ active /\ active' = active
      /\ wstop' = wstop /\ wstate' = wstate /\ command' = command /\ outcome' = "ok"
  BY DEF Publish, EventInv, WorkerTypeOK, WorkerBusy
<1>2. e \in EventRecord /\ e.command = command
  BY DEF Event, EventRecord, Status, EventInv, WorkerTypeOK
<1>3. /\ events' \in Seq(EventRecord) /\ Len(events') = Len(events) + 1
      /\ events'[Len(events) + 1] = e
      /\ \A i \in 1..Len(events) : events'[i] = events[i]
  BY <1>1, <1>2
<1>4. /\ \A i \in 1..Len(events') : IsTerminal(events'[i]) => i = Len(events')
      /\ \A i \in 1..Len(events') : events'[i].command = command
  BY <1>1, <1>2, <1>3 DEF EventInv, WorkerBusy
<1>5. WorkerTypeOK'
  BY <1>1, <1>3 DEF EventInv, WorkerTypeOK, Status
<1>6. wstate' = "error" => ~active'
  BY <1>1 DEF EventInv
<1>7. mpc' # "await" /\ ~wstop' => events' = <<>> /\ ~active'
  BY <1>1 DEF EventInv
<1>8. ~WorkerBusy'
  BY <1>1 DEF WorkerBusy
<1> QED BY <1>1, <1>4, <1>5, <1>6, <1>7, <1>8 DEF EventInv, IsTerminal

LEMMA PublishFailsEvents == ASSUME EventInv, PublishFails, mpc' = mpc PROVE EventInv'
  BY DEF EventInv, PublishFails, WorkerTypeOK, WorkerBusy, IsTerminal, Status

LEMMA WorkerEvents ==
  ASSUME EventInv, WorkerStep \/ NoMemory
  PROVE  EventInv'
<1>1. mpc' = mpc
  BY DEF WorkerStep, NoMemory, controlVars, mainVars
<1>2. CASE OpenEngine \/ WorkerExits \/ TakeRequest
  <2>1. CASE OpenEngine
    BY <1>1, <2>1 DEF OpenEngine, EventInv, WorkerTypeOK, WorkerBusy, IsTerminal
  <2>2. CASE WorkerExits
    BY <1>1, <2>2 DEF WorkerExits, EventInv, WorkerTypeOK, WorkerBusy, IsTerminal
  <2>3. CASE TakeRequest
    <3>1. wstate' \notin {"error", "stopped"}
      BY <2>3 DEF TakeRequest, Running
    <3> QED BY <1>1, <2>3, <3>1 DEF TakeRequest, EventInv, WorkerTypeOK, WorkerBusy, IsTerminal
  <2> QED BY <1>2, <2>1, <2>2, <2>3
<1>3. CASE Announce(Alive)
  <2>1. CASE Enqueue(Event("state", "ok")) /\ wpc' = "run"
    BY <1>1, <1>3, <2>1, EnqueueEvents DEF Announce
  <2>2. CASE FinishingStep
    BY <2>2, FinishingEvents
  <2> QED BY <1>1, <1>3, <2>1, <2>2 DEF Announce, FinishingStep, Status
<1>4. CASE Emit(Alive)
  <2>1. CASE Enqueue(Event("delta", "ok")) /\ wpc' = wpc
    BY <1>1, <1>4, <2>1, EnqueueEvents DEF Emit
  <2>2. CASE FinishingStep
    BY <2>2, FinishingEvents
  <2> QED BY <1>1, <1>4, <2>1, <2>2 DEF Emit, FinishingStep, Status
<1>5. CASE Returns(Alive) \/ EmitFails(Alive)
  <2>1. FinishingStep
    BY <1>1, <1>5 DEF Returns, EmitFails, FinishingStep, Status
  <2> QED BY <2>1, FinishingEvents
<1>6. CASE Publish
  BY <1>1, <1>6, PublishEvents
<1>7. CASE PublishFails
  BY <1>1, <1>7, PublishFailsEvents
<1> QED BY <1>2, <1>3, <1>4, <1>5, <1>6, <1>7 DEF WorkerStep, NoMemory

(* The main thread takes the event at the head. *)
LEMMA TakeEvents ==
  ASSUME EventInv, mpc = "await", events # <<>>
  PROVE  /\ Tail(events) \in Seq(EventRecord)
         /\ Len(Tail(events)) = Len(events) - 1
         /\ \A i \in 1..Len(Tail(events)) : Tail(events)[i] = events[i + 1]
         /\ IsTerminal(Head(events)) => Tail(events) = <<>> /\ ~WorkerBusy
         /\ Head(events).command = command
<1>1. /\ events \in Seq(EventRecord) /\ Len(events) \in Nat /\ Len(events) >= 1
      /\ Head(events) = events[1]
  BY DEF EventInv, WorkerTypeOK
<1>2. /\ Tail(events) \in Seq(EventRecord)
      /\ Len(Tail(events)) = Len(events) - 1
      /\ \A i \in 1..Len(Tail(events)) : Tail(events)[i] = events[i + 1]
  BY <1>1
<1>3. 1 \in 1..Len(events)
  BY <1>1
<1>4. IsTerminal(Head(events)) => Len(events) = 1 /\ ~WorkerBusy
  BY <1>1, <1>3 DEF EventInv
<1>5. Head(events).command = command
  BY <1>1, <1>3 DEF EventInv
<1> QED BY <1>1, <1>2, <1>4, <1>5

LEMMA TailEvents ==
  ASSUME EventInv, mpc = "await", events # <<>>, events' = Tail(events), command' = command
  PROVE  /\ \A i \in 1..Len(events') : events'[i].command = command'
         /\ \A i \in 1..Len(events') : IsTerminal(events'[i]) => i = Len(events')
         /\ WorkerBusy => Len(events') <= EventMax - 2
         /\ WorkerBusy => \A i \in 1..Len(events') : ~IsTerminal(events'[i])
<1>1. /\ Len(events) \in Nat /\ Len(events') = Len(events) - 1
      /\ \A i \in 1..Len(events') : i + 1 \in 1..Len(events) /\ events'[i] = events[i + 1]
  BY TakeEvents DEF EventInv, WorkerTypeOK
<1>2. ASSUME NEW i \in 1..Len(events')
      PROVE  /\ events'[i].command = command'
             /\ IsTerminal(events'[i]) => i = Len(events')
             /\ WorkerBusy => ~IsTerminal(events'[i])
  <2>1. i + 1 \in 1..Len(events) /\ events'[i] = events[i + 1]
    BY <1>1
  <2>2. /\ events[i + 1].command = command
        /\ IsTerminal(events[i + 1]) => i + 1 = Len(events)
        /\ WorkerBusy => ~IsTerminal(events[i + 1])
    BY <2>1 DEF EventInv
  <2>3. IsTerminal(events'[i]) <=> IsTerminal(events[i + 1])
    BY <2>1 DEF IsTerminal
  <2> DEFINE n == Len(events)
             k == Len(events')
  <2>4. n \in Nat /\ k = n - 1 /\ i \in 1..k
    BY <1>1
  <2> HIDE DEF n, k
  <2>6. i + 1 = n => i = k
    BY <2>4
  <2>7. i + 1 = Len(events) => i = Len(events')
    BY <2>6 DEF n, k
  <2>5. events'[i].command = command'
    BY <2>1, <2>2
  <2> QED BY <2>2, <2>3, <2>5, <2>7
<1>3. WorkerBusy => Len(events') <= EventMax - 2
  <2>1. WorkerBusy => Len(events) <= EventMax - 2
    BY DEF EventInv
  <2> QED BY <1>1, <2>1, WorkerAssumption DEF WorkerBusy
<1> QED BY <1>2, <1>3

LEMMA AwaitEvents == ASSUME EventInv, AwaitEvent PROVE EventInv'
<1>1. CASE NextEvent /\ IsTerminal(Head(events)) /\ mpc' = "result"
  <2>1. /\ events' = <<>> /\ active' = FALSE /\ ~WorkerBusy /\ mpc = "await"
        /\ wstop' = wstop /\ ready' = ready /\ command' = command /\ wpc' = wpc
        /\ outcome' = outcome
        /\ wstate' = wstate \/ wstate' \in {"error", "idle"}
    BY <1>1, TakeEvents DEF NextEvent, AwaitEvent
  <2>2. WorkerTypeOK' /\ ~WorkerBusy'
    BY <2>1, EmptySeq DEF EventInv, WorkerTypeOK, WorkerBusy
  <2> QED BY <1>1, <2>1, <2>2 DEF EventInv, WorkerTypeOK, WorkerBusy
<1>2. CASE NextEvent /\ ~IsTerminal(Head(events)) /\ mpc' = mpc
  <2>1. /\ events # <<>> /\ events' = Tail(events) /\ mpc = "await"
        /\ UNCHANGED <<active, wstate, wstop, ready, command, wpc, outcome>>
    BY <1>2 DEF NextEvent, AwaitEvent
  <2>2. events' \in Seq(EventRecord)
    BY <2>1, TakeEvents
  <2>3. WorkerTypeOK' /\ (WorkerBusy' <=> WorkerBusy)
    BY <2>1, <2>2 DEF EventInv, WorkerTypeOK, WorkerBusy
  <2> QED BY <1>2, <2>1, <2>3, TailEvents DEF EventInv
<1>3. CASE StreamEnded /\ UNCHANGED workerVars /\ mpc' = "result"
  BY <1>3 DEF AwaitEvent, StreamEnded, workerVars, EventInv, WorkerTypeOK, WorkerBusy, IsTerminal
<1> QED BY <1>1, <1>2, <1>3 DEF AwaitEvent, Goto

LEMMA OutputFailsEvents == ASSUME EventInv, OutputFails PROVE EventInv'
<1>1. /\ events # <<>> /\ events' = Tail(events) /\ mpc = "await" /\ wstop' = TRUE
      /\ active' = (active /\ ~IsTerminal(Head(events)))
      /\ UNCHANGED <<ready, command, wpc, outcome>>
      /\ wstate' = wstate \/ wstate' = "stopping"
  BY DEF OutputFails
<1>2. events' \in Seq(EventRecord) /\ (IsTerminal(Head(events)) => ~WorkerBusy)
  BY <1>1, TakeEvents
<1>3. WorkerTypeOK' /\ (WorkerBusy' <=> WorkerBusy)
  BY <1>1, <1>2 DEF EventInv, WorkerTypeOK, WorkerBusy
<1>4. WorkerBusy => active'
  BY <1>1, <1>2 DEF EventInv
<1>5. wstate' = "error" => ~active'
  BY <1>1 DEF EventInv
<1> QED BY <1>1, <1>3, <1>4, <1>5, TailEvents DEF EventInv

LEMMA ControlStopEvents == ASSUME EventInv, ControlStop PROVE EventInv'
  BY DEF EventInv, ControlStop, RequestStop, Goto, WorkerTypeOK, WorkerBusy, IsTerminal

LEMMA EventNext == ASSUME EventInv, [Next]_vars PROVE EventInv'
<1>1. CASE MainStep \/ OutputFails \/ BusyOps
  BY <1>1, AwayEvents, ChooseAway, ResultsAway, SettleAway, SubmitEvents, AwaitEvents,
     OutputFailsEvents, ControlStopEvents DEF MainStep
<1>2. CASE Reader \/ Signal
  BY <1>2, AwayEvents, ReaderAway
<1>3. CASE WorkerStep \/ NoMemory
  BY <1>3, WorkerEvents
<1>4. CASE UNCHANGED vars
  <2>1. AwayStep
    BY <1>4 DEF vars, controlVars, mainVars, AwayStep
  <2> QED BY <2>1, AwayEvents
<1> QED BY <1>1, <1>2, <1>3, <1>4 DEF Next

LEMMA EventInit == Init => EventInv
<1> SUFFICES ASSUME Init PROVE EventInv
  OBVIOUS
<1>1. /\ events = <<>> /\ wpc = "open" /\ mpc = "start" /\ wstate = "starting"
      /\ wstop = FALSE /\ ready = FALSE /\ active = FALSE /\ command = 0 /\ outcome = "ok"
  BY DEF Init, WorkerInit, ControlInit
<1>2. events \in Seq(EventRecord) /\ Len(events) = 0
  BY <1>1, EmptySeq
<1>3. WorkerTypeOK
  BY <1>1, <1>2 DEF WorkerTypeOK, Status
<1> QED BY <1>1, <1>2, <1>3 DEF EventInv, WorkerBusy

(* The terminal event of a command always finds a place, it is the last    *)
(* one of its command, and no command is submitted before it was read.     *)
THEOREM AgentEventsInPlace == Spec => []EventsInPlace
<1>1. EventInv => EventsInPlace
  BY WorkerAssumption
     DEF EventInv, WorkerTypeOK, WorkerBusy, EventsInPlace, TerminalNeverBlocks,
         EventsAreTheCommands
<1> QED BY <1>1, EventInit, EventNext, PTL DEF Spec

-----------------------------------------------------------------------------
(* The client's lines *)

Line == [id : Nat \ {0}, op : LineOp]

Distinct(s) == \A i, j \in 1..Len(s) : s[i].id = s[j].id => i = j

LEMMA IdsEmpty ==
  <<>> \in Seq(Line) /\ Ids(<<>>) = {} /\ Distinct(<<>>)
<1>1. <<>> \in Seq(Line) /\ Len(<<>>) = 0
  BY EmptySeq
<1> QED BY <1>1 DEF Ids, Distinct

LEMMA IdsAppend ==
  ASSUME NEW s \in Seq(Line), NEW x \in Line
  PROVE  /\ Append(s, x) \in Seq(Line)
         /\ Ids(Append(s, x)) = Ids(s) \cup {x.id}
         /\ Distinct(s) /\ x.id \notin Ids(s) => Distinct(Append(s, x))
<1> DEFINE t == Append(s, x)
<1>1. /\ t \in Seq(Line) /\ Len(s) \in Nat /\ Len(t) = Len(s) + 1 /\ t[Len(s) + 1] = x
      /\ \A i \in 1..Len(s) : t[i] = s[i]
  OBVIOUS
<1> HIDE DEF t
<1>2. Ids(t) = Ids(s) \cup {x.id}
  <2>1. Ids(t) \subseteq Ids(s) \cup {x.id}
    BY <1>1 DEF Ids
  <2>2. Ids(s) \subseteq Ids(t)
    BY <1>1 DEF Ids
  <2>3. x.id \in Ids(t)
    BY <1>1 DEF Ids
  <2> QED BY <2>1, <2>2, <2>3
<1>3. ASSUME Distinct(s), x.id \notin Ids(s), NEW i \in 1..Len(t), NEW j \in 1..Len(t),
             t[i].id = t[j].id
      PROVE  i = j
  <2>1. \A k \in 1..Len(s) : s[k].id # x.id
    BY <1>3 DEF Ids
  <2> QED BY <1>1, <1>3, <2>1 DEF Distinct
<1> QED BY <1>1, <1>2, <1>3 DEF t, Distinct

LEMMA IdsTail ==
  ASSUME NEW s \in Seq(Line), s # <<>>
  PROVE  /\ Head(s) \in Line /\ Tail(s) \in Seq(Line)
         /\ Ids(s) = {Head(s).id} \cup Ids(Tail(s))
         /\ Distinct(s) => Distinct(Tail(s)) /\ Head(s).id \notin Ids(Tail(s))
<1> DEFINE t == Tail(s)
<1>1. /\ t \in Seq(Line) /\ Len(s) \in Nat \ {0} /\ Len(t) = Len(s) - 1
      /\ Head(s) = s[1] /\ s[1] \in Line
      /\ \A i \in 1..Len(t) : t[i] = s[i + 1]
  OBVIOUS
<1> HIDE DEF t
<1>2. \A i \in 2..Len(s) : i - 1 \in 1..Len(t) /\ t[i - 1] = s[i]
  BY <1>1
<1>3. Ids(s) = {s[1].id} \cup Ids(t)
  <2>1. Ids(s) \subseteq {s[1].id} \cup Ids(t)
    <3> SUFFICES ASSUME NEW i \in 1..Len(s), i # 1 PROVE s[i].id \in Ids(t)
      BY DEF Ids
    <3>1. i \in 2..Len(s)
      BY <1>1
    <3> QED BY <1>2, <3>1 DEF Ids
  <2>2. Ids(t) \subseteq Ids(s)
    <3> SUFFICES ASSUME NEW i \in 1..Len(t) PROVE t[i].id \in Ids(s)
      BY DEF Ids
    <3>1. i + 1 \in 1..Len(s) /\ t[i] = s[i + 1]
      BY <1>1
    <3> QED BY <3>1 DEF Ids
  <2>3. s[1].id \in Ids(s)
    BY <1>1 DEF Ids
  <2> QED BY <2>1, <2>2, <2>3
<1>4. ASSUME Distinct(s) PROVE Distinct(t) /\ s[1].id \notin Ids(t)
  <2>1. Distinct(t)
    <3> SUFFICES ASSUME NEW i \in 1..Len(t), NEW j \in 1..Len(t), t[i].id = t[j].id
                 PROVE  i = j
      BY DEF Distinct
    <3>1. i + 1 \in 1..Len(s) /\ j + 1 \in 1..Len(s) /\ s[i + 1].id = s[j + 1].id
      BY <1>1
    <3>2. i + 1 = j + 1
      BY <1>4, <3>1 DEF Distinct
    <3> QED BY <1>1, <3>2
  <2>2. ASSUME NEW i \in 1..Len(t), t[i].id = s[1].id PROVE FALSE
    <3>1. i + 1 \in 1..Len(s) /\ 1 \in 1..Len(s) /\ s[i + 1].id = s[1].id
      BY <1>1, <2>2
    <3>2. i + 1 = 1
      BY <1>4, <3>1 DEF Distinct
    <3> QED BY <1>1, <3>2
  <2> QED BY <2>1, <2>2 DEF Ids
<1> QED BY <1>1, <1>3, <1>4 DEF t

LEMMA IdsConcat ==
  ASSUME NEW s \in Seq(Line), NEW u \in Seq(Line)
  PROVE  /\ s \o u \in Seq(Line)
         /\ Ids(s \o u) = Ids(s) \cup Ids(u)
         /\ Distinct(s) /\ Distinct(u) /\ Ids(s) \cap Ids(u) = {} => Distinct(s \o u)
<1> DEFINE t == s \o u
<1>1. /\ t \in Seq(Line) /\ Len(s) \in Nat /\ Len(u) \in Nat /\ Len(t) = Len(s) + Len(u)
      /\ \A i \in 1..Len(s) : t[i] = s[i]
      /\ \A i \in 1..Len(u) : t[Len(s) + i] = u[i]
  OBVIOUS
<1> HIDE DEF t
<1>2. ASSUME NEW i \in 1..Len(t)
      PROVE  \/ i \in 1..Len(s) /\ t[i] = s[i] /\ s[i].id \in Ids(s)
             \/ i - Len(s) \in 1..Len(u) /\ t[i] = u[i - Len(s)] /\ u[i - Len(s)].id \in Ids(u)
  <2>1. CASE i <= Len(s)
    BY <1>1, <2>1 DEF Ids
  <2>2. CASE i > Len(s)
    <3>1. i - Len(s) \in 1..Len(u) /\ Len(s) + (i - Len(s)) = i
      BY <1>1, <2>2
    <3> QED BY <1>1, <3>1 DEF Ids
  <2> QED BY <1>1, <2>1, <2>2
<1>3. Ids(t) = Ids(s) \cup Ids(u)
  <2>1. Ids(t) \subseteq Ids(s) \cup Ids(u)
    BY <1>2 DEF Ids
  <2>2. ASSUME NEW i \in 1..Len(s) PROVE s[i].id \in Ids(t)
    <3>1. i \in 1..Len(t) /\ t[i] = s[i]
      BY <1>1
    <3> QED BY <3>1 DEF Ids
  <2>3. ASSUME NEW i \in 1..Len(u) PROVE u[i].id \in Ids(t)
    <3>1. Len(s) + i \in 1..Len(t)
      BY <1>1
    <3>2. t[Len(s) + i] = u[i]
      BY <1>1
    <3> QED BY <3>1, <3>2 DEF Ids
  <2>4. Ids(s) \subseteq Ids(t) /\ Ids(u) \subseteq Ids(t)
    BY <2>2, <2>3 DEF Ids
  <2> QED BY <2>1, <2>4
<1>4. ASSUME Distinct(s), Distinct(u), Ids(s) \cap Ids(u) = {},
             NEW i \in 1..Len(t), NEW j \in 1..Len(t), t[i].id = t[j].id
      PROVE  i = j
  <2>1. CASE i \in 1..Len(s) /\ t[i] = s[i] /\ j \in 1..Len(s) /\ t[j] = s[j]
    BY <1>4, <2>1 DEF Distinct
  <2>2. CASE /\ i - Len(s) \in 1..Len(u) /\ t[i] = u[i - Len(s)]
             /\ j - Len(s) \in 1..Len(u) /\ t[j] = u[j - Len(s)]
    <3>1. i - Len(s) = j - Len(s)
      BY <1>4, <2>2 DEF Distinct
    <3> QED BY <1>1, <3>1
  <2> QED BY <1>2, <1>4, <2>1, <2>2
<1> QED BY <1>1, <1>3, <1>4 DEF t, Distinct

LEMMA IdsCounted ==
  ASSUME NEW s \in Seq(Line), Distinct(s)
  PROVE  Len(s) = Cardinality(Ids(s))
<1> DEFINE f == [i \in 1..Len(s) |-> s[i].id]
<1>1. Len(s) \in Nat
  OBVIOUS
<1>2. f \in Bijection(1..Len(s), Ids(s))
  <2>1. f \in [1..Len(s) -> Ids(s)]
    BY DEF Ids
  <2>2. \A i, j \in 1..Len(s) : f[i] = f[j] => i = j
    BY DEF Distinct
  <2>3. \A x \in Ids(s) : \E i \in 1..Len(s) : f[i] = x
    BY DEF Ids
  <2> HIDE DEF f
  <2>4. DOMAIN f = 1..Len(s)
    BY <2>1
  <2> QED BY <2>1, <2>2, <2>3, <2>4 DEF Bijection, Injection, Surjection, IsInjective
<1>3. IsFiniteSet(1..Len(s)) /\ Cardinality(1..Len(s)) = Len(s)
  <2>1. 1 \in Int /\ Len(s) \in Int
    BY <1>1
  <2>2. /\ IsFiniteSet(1..Len(s))
        /\ Cardinality(1..Len(s)) = IF 1 > Len(s) THEN 0 ELSE Len(s) - 1 + 1
    BY <2>1, FS_Interval
  <2> QED BY <1>1, <2>2
<1> QED BY <1>2, <1>3, FS_Bijection DEF ExistsBijection

(* The line in the main loop's hands. *)
InHand == IF cur.id = 0 THEN {} ELSE {cur.id}

Between == {"start", "top", "drain", "wait"}
Stopped == {"stop", "done"}

LineTypeOK ==
  /\ lines \in Nat
  /\ ctlq \in Seq(Line) /\ drops \in Seq(Line) /\ pq \in Seq(Line)
  /\ cur \in Line \cup {NoLine}
  /\ Distinct(ctlq) /\ Distinct(drops) /\ Distinct(pq)

(* Four places hold the lines, no two of them the same one.                *)
Apart ==
  /\ Ids(ctlq) \cap Ids(drops) = {}
  /\ Ids(ctlq) \cap Ids(pq) = {}
  /\ Ids(drops) \cap Ids(pq) = {}
  /\ InHand \cap (Ids(ctlq) \cup Ids(drops) \cup Ids(pq)) = {}

InPlaces == Ids(ctlq) \cup Ids(drops) \cup Ids(pq) \cup InHand

(* A line is in one place, its number was given out, and until the queues  *)
(* are freed the lines in the four places are the ones still owed.         *)
LineInv ==
  /\ LineTypeOK
  /\ Apart
  /\ InPlaces \subseteq 1..lines
  /\ mpc \notin Stopped => owed = InPlaces
  /\ mpc \in Between => cur = NoLine

(* Steps that leave the lines where they are. *)
KeepLines ==
  /\ UNCHANGED <<lines, ctlq, drops, pq, cur, owed>>
  /\ mpc' \in Between => mpc \in Between
  /\ mpc \in Stopped => mpc' \in Stopped

LEMMA KeepLinesInv == ASSUME LineInv, KeepLines PROVE LineInv'
  BY DEF LineInv, KeepLines, LineTypeOK, Apart, InPlaces, InHand

(* Steps that answer the line in hand. *)
AnswerCur ==
  /\ cur' = NoLine
  /\ owed' = owed \ {cur.id}
  /\ UNCHANGED <<lines, ctlq, drops, pq>>
  /\ mpc \notin Stopped

LEMMA NoLineHand ==
  /\ NoLine.id = 0
  /\ \A x \in Line : x.id \in Nat \ {0}
  BY DEF NoLine, Line

LEMMA AnswerCurInv == ASSUME LineInv, AnswerCur PROVE LineInv'
<1>1. InHand' = {}
  BY NoLineHand DEF AnswerCur, InHand
<1>2. InHand = {cur.id} \/ (InHand = {} /\ cur.id = 0)
  BY DEF InHand
<1>3. LineTypeOK'
  BY DEF AnswerCur, LineInv, LineTypeOK
<1>4. Apart'
  BY <1>1 DEF AnswerCur, LineInv, Apart
<1>5. InPlaces' = InPlaces \ {cur.id} /\ InPlaces' \subseteq 1..lines
  <2>1. 0 \notin InPlaces
    BY DEF LineInv, LineTypeOK
  <2> QED BY <1>1, <1>2, <2>1 DEF AnswerCur, LineInv, Apart, InPlaces
<1>6. mpc' \notin Stopped => owed' = InPlaces'
  BY <1>5 DEF AnswerCur, LineInv
<1> QED BY <1>3, <1>4, <1>5, <1>6 DEF LineInv, AnswerCur

(* The first control operation leaves its queue ... *)
LEMMA HeadOfControl ==
  ASSUME LineInv, ctlq # <<>>, ctlq' = Tail(ctlq)
  PROVE  /\ Head(ctlq) \in Line /\ ctlq' \in Seq(Line) /\ Distinct(ctlq')
         /\ Ids(ctlq) = {Head(ctlq).id} \cup Ids(ctlq')
         /\ Head(ctlq).id \notin Ids(ctlq') \cup Ids(drops) \cup Ids(pq) \cup InHand
<1>1. /\ Head(ctlq) \in Line /\ ctlq' \in Seq(Line) /\ Distinct(ctlq')
      /\ Ids(ctlq) = {Head(ctlq).id} \cup Ids(ctlq') /\ Head(ctlq).id \notin Ids(ctlq')
  BY IdsTail DEF LineInv, LineTypeOK
<1> QED BY <1>1 DEF LineInv, Apart

(* ... to be run, *)
ControlToHand ==
  /\ ctlq # <<>> /\ ctlq' = Tail(ctlq) /\ cur' = Head(ctlq)
  /\ mpc \in Between /\ mpc' \notin Between \cup Stopped
  /\ UNCHANGED <<lines, drops, pq, owed>>

LEMMA ControlToHandInv == ASSUME LineInv, ControlToHand PROVE LineInv'
<1>1. InHand = {} /\ InHand' = {Head(ctlq).id}
  BY NoLineHand, HeadOfControl DEF ControlToHand, LineInv, InHand
<1>2. LineTypeOK'
  BY HeadOfControl DEF ControlToHand, LineInv, LineTypeOK
<1>3. Apart'
  BY <1>1, HeadOfControl DEF ControlToHand, LineInv, Apart
<1>4. InPlaces' = InPlaces
  BY <1>1, HeadOfControl DEF ControlToHand, InPlaces
<1>5. mpc \notin Stopped
  BY DEF ControlToHand, Between, Stopped
<1> QED BY <1>2, <1>3, <1>4, <1>5 DEF LineInv, ControlToHand

(* ... to join the prompts, *)
ControlToPrompts ==
  /\ ctlq # <<>> /\ ctlq' = Tail(ctlq) /\ pq' = Append(pq, Head(ctlq))
  /\ mpc' = mpc
  /\ UNCHANGED <<lines, drops, cur, owed>>

LEMMA ControlToPromptsInv == ASSUME LineInv, ControlToPrompts PROVE LineInv'
<1>1. /\ pq' \in Seq(Line) /\ Ids(pq') = Ids(pq) \cup {Head(ctlq).id} /\ Distinct(pq')
  BY HeadOfControl, IdsAppend DEF ControlToPrompts, LineInv, LineTypeOK
<1>2. InHand' = InHand
  BY DEF ControlToPrompts, InHand
<1>3. LineTypeOK'
  BY <1>1, HeadOfControl DEF ControlToPrompts, LineInv, LineTypeOK
<1>4. Apart'
  BY <1>1, <1>2, HeadOfControl DEF ControlToPrompts, LineInv, Apart
<1>5. InPlaces' = InPlaces
  BY <1>1, <1>2, HeadOfControl DEF ControlToPrompts, InPlaces
<1> QED BY <1>3, <1>4, <1>5 DEF LineInv, ControlToPrompts

(* ... or to be answered, alone or with all the prompts. *)
ControlAnswered ==
  /\ ctlq # <<>> /\ ctlq' = Tail(ctlq)
  /\ \/ pq' = pq /\ owed' = owed \ {Head(ctlq).id}
     \/ pq' = <<>> /\ owed' = owed \ ({Head(ctlq).id} \cup Ids(pq))
  /\ mpc' = mpc
  /\ UNCHANGED <<lines, drops, cur>>

LEMMA ControlAnsweredInv == ASSUME LineInv, ControlAnswered PROVE LineInv'
<1>1. InHand' = InHand
  BY DEF ControlAnswered, InHand
<1>2. CASE pq' = pq /\ owed' = owed \ {Head(ctlq).id}
  <2>1. LineTypeOK'
    BY <1>2, HeadOfControl DEF ControlAnswered, LineInv, LineTypeOK
  <2>2. Apart'
    BY <1>1, <1>2, HeadOfControl DEF ControlAnswered, LineInv, Apart
  <2>3. InPlaces' = InPlaces \ {Head(ctlq).id}
    BY <1>1, <1>2, HeadOfControl DEF ControlAnswered, InPlaces
  <2> QED BY <1>2, <2>1, <2>2, <2>3 DEF LineInv, ControlAnswered
<1>3. CASE pq' = <<>> /\ owed' = owed \ ({Head(ctlq).id} \cup Ids(pq))
  <2>1. pq' \in Seq(Line) /\ Ids(pq') = {} /\ Distinct(pq')
    BY <1>3, IdsEmpty
  <2>2. LineTypeOK'
    BY <2>1, HeadOfControl DEF ControlAnswered, LineInv, LineTypeOK
  <2>3. Apart'
    BY <1>1, <2>1, HeadOfControl DEF ControlAnswered, LineInv, Apart
  <2>4. InPlaces' = InPlaces \ ({Head(ctlq).id} \cup Ids(pq))
    BY <1>1, <2>1, HeadOfControl DEF ControlAnswered, LineInv, Apart, InPlaces
  <2> QED BY <1>3, <2>2, <2>3, <2>4 DEF LineInv, ControlAnswered
<1> QED BY <1>2, <1>3 DEF ControlAnswered

(* The first prompt is run. *)
PromptToHand ==
  /\ pq # <<>> /\ pq' = Tail(pq) /\ cur' = Head(pq)
  /\ mpc \in Between /\ mpc' \notin Between \cup Stopped
  /\ UNCHANGED <<lines, ctlq, drops, owed>>

LEMMA PromptToHandInv == ASSUME LineInv, PromptToHand PROVE LineInv'
<1>1. /\ Head(pq) \in Line /\ pq' \in Seq(Line) /\ Distinct(pq')
      /\ Ids(pq) = {Head(pq).id} \cup Ids(pq') /\ Head(pq).id \notin Ids(pq')
  BY IdsTail DEF LineInv, LineTypeOK, PromptToHand
<1>2. InHand = {} /\ InHand' = {Head(pq).id}
  BY <1>1, NoLineHand DEF PromptToHand, LineInv, InHand
<1>3. LineTypeOK'
  BY <1>1 DEF PromptToHand, LineInv, LineTypeOK
<1>4. Apart'
  BY <1>1, <1>2 DEF PromptToHand, LineInv, Apart
<1>5. InPlaces' = InPlaces
  BY <1>1, <1>2 DEF PromptToHand, InPlaces
<1>6. mpc \notin Stopped
  BY DEF PromptToHand, Between, Stopped
<1> QED BY <1>3, <1>4, <1>5, <1>6 DEF LineInv, PromptToHand

(* The dropped operations are answered. *)
DropsAnswered ==
  /\ drops' = <<>> /\ owed' = owed \ Ids(drops)
  /\ mpc \notin Stopped
  /\ mpc' \in Between => mpc \in Between
  /\ UNCHANGED <<lines, ctlq, pq, cur>>

LEMMA DropsAnsweredInv == ASSUME LineInv, DropsAnswered PROVE LineInv'
<1>1. drops' \in Seq(Line) /\ Ids(drops') = {} /\ Distinct(drops') /\ InHand' = InHand
  BY IdsEmpty DEF DropsAnswered, InHand
<1>2. LineTypeOK'
  BY <1>1 DEF DropsAnswered, LineInv, LineTypeOK
<1>3. Apart'
  BY <1>1 DEF DropsAnswered, LineInv, Apart
<1>4. InPlaces' = InPlaces \ Ids(drops)
  BY <1>1 DEF DropsAnswered, LineInv, Apart, InPlaces
<1> QED BY <1>2, <1>3, <1>4 DEF LineInv, DropsAnswered

LEMMA ReaderLines == ASSUME LineInv, Reader PROVE LineInv'
<1>1. CASE ReaderTop \/ ReaderEof \/ ReaderWoken \/ BurstEnd
  <2>1. KeepLines
    BY <1>1 DEF ReaderTop, ReaderEof, ReaderWoken, BurstEnd, KeepLines, mainVars
  <2> QED BY <2>1, KeepLinesInv
<1>2. CASE ParseLine
  <2>1. PICK o \in LineOp : ApplyOp([id |-> lines', op |-> o])
    BY <1>2 DEF ParseLine
  <2> DEFINE line == [id |-> lines', op |-> o]
  <2>2. /\ lines \in Nat /\ lines' = lines + 1 /\ line \in Line /\ line.id = lines + 1
        /\ InHand' = InHand /\ UNCHANGED <<pq, cur, mpc>>
    BY <1>2 DEF ParseLine, Line, LineInv, LineTypeOK, InHand, mainVars
  <2>3. lines + 1 \notin InPlaces /\ (InPlaces \cup {lines + 1}) \subseteq 1..lines'
    BY <2>2 DEF LineInv
  <2> HIDE DEF line
  <2>4. CASE UNCHANGED <<ctlq, drops, owed>>
    BY <2>2, <2>3, <2>4 DEF LineInv, LineTypeOK, Apart, InPlaces
  <2>5. CASE owed' = owed \cup {lines + 1} /\ drops' = Append(drops, line) /\ ctlq' = ctlq
    <3>1. /\ drops' \in Seq(Line) /\ Ids(drops') = Ids(drops) \cup {lines + 1}
          /\ Distinct(drops')
      BY <2>2, <2>3, <2>5, IdsAppend DEF LineInv, LineTypeOK, InPlaces
    <3>2. LineTypeOK'
      BY <2>2, <2>5, <3>1 DEF LineInv, LineTypeOK
    <3>3. Apart'
      BY <2>2, <2>3, <2>5, <3>1 DEF LineInv, Apart, InPlaces
    <3>4. InPlaces' = InPlaces \cup {lines + 1}
      BY <2>2, <2>5, <3>1 DEF InPlaces
    <3> QED BY <2>2, <2>3, <2>5, <3>2, <3>3, <3>4 DEF LineInv
  <2>6. CASE owed' = owed \cup {lines + 1} /\ ctlq' = Append(ctlq, line) /\ drops' = drops
    <3>1. /\ ctlq' \in Seq(Line) /\ Ids(ctlq') = Ids(ctlq) \cup {lines + 1}
          /\ Distinct(ctlq')
      BY <2>2, <2>3, <2>6, IdsAppend DEF LineInv, LineTypeOK, InPlaces
    <3>2. LineTypeOK'
      BY <2>2, <2>6, <3>1 DEF LineInv, LineTypeOK
    <3>3. Apart'
      BY <2>2, <2>3, <2>6, <3>1 DEF LineInv, Apart, InPlaces
    <3>4. InPlaces' = InPlaces \cup {lines + 1}
      BY <2>2, <2>6, <3>1 DEF InPlaces
    <3> QED BY <2>2, <2>3, <2>6, <3>2, <3>3, <3>4 DEF LineInv
  <2>7. \/ UNCHANGED <<ctlq, drops, owed>>
        \/ owed' = owed \cup {lines + 1} /\ drops' = Append(drops, line) /\ ctlq' = ctlq
        \/ owed' = owed \cup {lines + 1} /\ ctlq' = Append(ctlq, line) /\ drops' = drops
    BY <2>1, <2>2 DEF ApplyOp, line
  <2> QED BY <2>4, <2>5, <2>6, <2>7
<1> QED BY <1>1, <1>2 DEF Reader

LEMMA ChooseLines ==
  ASSUME LineInv, WorkerStarted \/ LoopTop \/ DrainControl \/ DrainPrompts \/ WaitOp
  PROVE  LineInv'
<1> USE DEF Between, Stopped
<1>1. CASE WorkerStarted
  BY <1>1, KeepLinesInv DEF WorkerStarted, KeepLines, readerVars, Goto
<1>2. CASE LoopTop
  BY <1>2, KeepLinesInv, DropsAnsweredInv
     DEF LoopTop, KeepLines, DropsAnswered, Goto, Answer
<1>3. CASE DrainControl
  BY <1>3, ControlToHandInv, ControlToPromptsInv, ControlAnsweredInv
     DEF DrainControl, QueuePrompt, ControlToHand, ControlToPrompts, ControlAnswered, Goto,
         Answer
<1>4. CASE DrainPrompts
  BY <1>4, KeepLinesInv, PromptToHandInv DEF DrainPrompts, KeepLines, PromptToHand,
     readerVars, Goto
<1>5. CASE WaitOp
  BY <1>5, KeepLinesInv, ControlToHandInv DEF WaitOp, KeepLines, ControlToHand, Goto
<1> QED BY <1>1, <1>2, <1>3, <1>4, <1>5

LEMMA ImmediateLines == ASSUME LineInv, Immediate PROVE LineInv'
<1>1. /\ cur' = NoLine /\ mpc = "dispatch" /\ mpc' = "top"
      /\ UNCHANGED <<lines, ctlq, drops>>
      /\ \/ pq' = pq /\ owed' = owed \ {cur.id}
         \/ pq' = <<>> /\ owed' = owed \ ({cur.id} \cup Ids(pq))
  BY DEF Immediate, Answer, Goto, readerVars
<1>2. CASE pq' = pq /\ owed' = owed \ {cur.id}
  BY <1>1, <1>2, AnswerCurInv DEF AnswerCur, Stopped
<1>3. CASE pq' = <<>> /\ owed' = owed \ ({cur.id} \cup Ids(pq))
  <2>1. pq' \in Seq(Line) /\ Ids(pq') = {} /\ Distinct(pq')
    BY <1>3, IdsEmpty
  <2>2. InHand' = {} /\ (InHand = {cur.id} \/ (InHand = {} /\ cur.id = 0))
    BY <1>1, NoLineHand DEF InHand
  <2>3. LineTypeOK'
    BY <1>1, <2>1 DEF LineInv, LineTypeOK
  <2>4. Apart'
    BY <1>1, <2>1, <2>2 DEF LineInv, Apart
  <2>5. 0 \notin InPlaces
    BY DEF LineInv, LineTypeOK
  <2>6. InPlaces' = InPlaces \ ({cur.id} \cup Ids(pq))
    BY <1>1, <2>1, <2>2, <2>5 DEF LineInv, Apart, InPlaces
  <2> QED BY <1>1, <1>3, <2>3, <2>4, <2>6 DEF LineInv, Stopped
<1> QED BY <1>1, <1>2, <1>3

LEMMA DispatchLines == ASSUME LineInv, Dispatch PROVE LineInv'
<1>1. CASE Immediate
  BY <1>1, ImmediateLines
<1>2. CASE SaveOp \/ CompactOp \/ NewOp \/ ToolOp \/ PromptOp
  <2>1. KeepLines \/ AnswerCur
    BY <1>2 DEF SaveOp, CompactOp, NewOp, ToolOp, PromptOp, KeepLines, AnswerCur, readerVars,
       Answer, Goto, Start, Between, Stopped
  <2> QED BY <2>1, KeepLinesInv, AnswerCurInv
<1> QED BY <1>1, <1>2 DEF Dispatch

LEMMA CommandLines ==
  ASSUME SubmitTask \/ AwaitEvent \/ OutputFails PROVE KeepLines
  BY DEF SubmitTask, AwaitEvent, OutputFails, KeepLines, readerVars, Goto, Between, Stopped

LEMMA ResultsLines ==
  ASSUME Results PROVE KeepLines \/ AnswerCur
<1> USE DEF Goto, Start, Between, Stopped, KeepLines, readerVars, Give, AtResult
<1>1. ASSUME AfterPrepare \/ AfterTurn \/ AfterTool \/ AfterManual PROVE KeepLines
  BY <1>1 DEF AfterPrepare, AfterTurn, AfterTool, AfterManual, Settle
<1>2. ASSUME CompactionStep PROVE KeepLines
  BY <1>2 DEF CompactionStep, CompactionFails, Settle
<1>3. ASSUME AfterRecount \/ AfterAutosave PROVE KeepLines
  BY <1>3 DEF AfterRecount, AfterAutosave
<1>4. ASSUME AfterSave PROVE AnswerCur
  BY <1>4 DEF AfterSave, AnswerCur, Answer
<1> QED BY <1>1, <1>2, <1>3, <1>4 DEF Results

LEMMA BusyLines == ASSUME LineInv, BusyOps PROVE LineInv'
  BY DropsAnsweredInv, ControlToPromptsInv, ControlAnsweredInv
     DEF BusyOps, QueuePrompt, DropsAnswered, ControlToPrompts, ControlAnswered, Answer,
         Between, Stopped

LEMMA SettleLines ==
  ASSUME \/ SettleCancel \/ SettleSignal \/ AckSignal \/ RecoverTurn \/ RecoverTool \/ Idle
         \/ EndLoop \/ WorkerJoined
  PROVE  KeepLines \/ AnswerCur
  BY DEF SettleCancel, SettleSignal, AckSignal, RecoverTurn, RecoverTool, Idle, EndLoop,
         WorkerJoined, KeepTurn, EndSession, Answer, Goto, Start, readerVars, KeepLines,
         AnswerCur, Between, Stopped

LEMMA ControlStopLines == ASSUME LineInv, ControlStop PROVE LineInv'
<1>1. /\ ctlq' = <<>> /\ pq' = <<>> /\ drops' = <<>> /\ mpc' = "stop"
      /\ UNCHANGED <<lines, cur>>
  BY DEF ControlStop, Goto
<1>2. <<>> \in Seq(Line) /\ Ids(<<>>) = {} /\ Distinct(<<>>)
  BY IdsEmpty
<1>3. InHand' = InHand
  BY <1>1 DEF InHand
<1>4. LineTypeOK'
  BY <1>1, <1>2 DEF LineInv, LineTypeOK
<1>5. Apart' /\ InPlaces' \subseteq 1..lines'
  BY <1>1, <1>2, <1>3 DEF LineInv, Apart, InPlaces
<1> QED BY <1>1, <1>4, <1>5 DEF LineInv, Between, Stopped

LEMMA LineNext == ASSUME LineInv, [Next]_vars PROVE LineInv'
<1>1. CASE Reader
  BY <1>1, ReaderLines
<1>2. CASE MainStep \/ OutputFails \/ BusyOps
  BY <1>2, ChooseLines, DispatchLines, CommandLines, ResultsLines, BusyLines, SettleLines,
     ControlStopLines, KeepLinesInv, AnswerCurInv DEF MainStep
<1>3. CASE Signal \/ WorkerStep \/ NoMemory \/ UNCHANGED vars
  <2>1. KeepLines
    BY <1>3 DEF Signal, WorkerStep, NoMemory, vars, controlVars, readerVars, mainVars,
       KeepLines
  <2> QED BY <2>1, KeepLinesInv
<1> QED BY <1>1, <1>2, <1>3 DEF Next

LEMMA LineInit == Init => LineInv
<1> SUFFICES ASSUME Init PROVE LineInv
  OBVIOUS
<1>1. /\ lines = 0 /\ ctlq = <<>> /\ drops = <<>> /\ pq = <<>> /\ cur = NoLine
      /\ owed = {} /\ mpc = "start"
  BY DEF Init, ControlInit
<1>2. <<>> \in Seq(Line) /\ Ids(<<>>) = {} /\ Distinct(<<>>) /\ InHand = {}
  BY <1>1, IdsEmpty, NoLineHand DEF InHand
<1>3. LineTypeOK
  BY <1>1, <1>2 DEF LineTypeOK
<1>4. Apart /\ InPlaces = {}
  BY <1>1, <1>2 DEF Apart, InPlaces
<1> QED BY <1>1, <1>3, <1>4 DEF LineInv

(* Every line the client was promised an answer to is in exactly one of    *)
(* the queues, the ring or the main loop's hands until it is answered.     *)
THEOREM AgentLosesNoLine == Spec => []NothingUnanswered
<1>1. ASSUME LineInv, mpc \notin Stopped
      PROVE  LET held == ctlq \o drops \o pq \o (IF cur.id = 0 THEN <<>> ELSE <<cur>>)
             IN owed = Ids(held) /\ Len(held) = Cardinality(owed)
  <2> DEFINE hand == IF cur.id = 0 THEN <<>> ELSE <<cur>>
             held == ctlq \o drops \o pq \o hand
  <2>1. hand \in Seq(Line) /\ Ids(hand) = InHand /\ Distinct(hand)
    <3>1. CASE cur.id = 0
      BY <3>1, IdsEmpty DEF InHand
    <3>2. CASE cur.id # 0
      <4>1. cur \in Line /\ hand = <<cur>>
        BY <1>1, <3>2, NoLineHand DEF LineInv, LineTypeOK
      <4>2. /\ <<cur>> \in Seq(Line) /\ Ids(<<cur>>) = {cur.id} /\ Distinct(<<cur>>)
        BY <4>1 DEF Ids, Distinct
      <4> QED BY <3>2, <4>1, <4>2 DEF InHand
    <3> QED BY <3>1, <3>2
  <2> HIDE DEF hand
  <2>2. /\ ctlq \o drops \in Seq(Line) /\ Ids(ctlq \o drops) = Ids(ctlq) \cup Ids(drops)
        /\ Distinct(ctlq \o drops)
    BY <1>1, IdsConcat DEF LineInv, LineTypeOK, Apart
  <2>3. /\ ctlq \o drops \o pq \in Seq(Line) /\ Distinct(ctlq \o drops \o pq)
        /\ Ids(ctlq \o drops \o pq) = Ids(ctlq) \cup Ids(drops) \cup Ids(pq)
    <3>1. Ids(ctlq \o drops) \cap Ids(pq) = {}
      BY <1>1, <2>2 DEF LineInv, Apart
    <3> QED BY <1>1, <2>2, <3>1, IdsConcat DEF LineInv, LineTypeOK
  <2>4. /\ held \in Seq(Line) /\ Ids(held) = InPlaces /\ Distinct(held)
    <3>1. Ids(ctlq \o drops \o pq) \cap Ids(hand) = {}
      BY <1>1, <2>1, <2>3 DEF LineInv, Apart
    <3> QED BY <2>1, <2>3, <3>1, IdsConcat DEF InPlaces
  <2> HIDE DEF held
  <2>5. owed = Ids(held) /\ Len(held) = Cardinality(owed)
    BY <1>1, <2>4, IdsCounted DEF LineInv
  <2> QED BY <2>5 DEF held, hand
<1>2. LineInv => NothingUnanswered
  BY <1>1 DEF NothingUnanswered, Stopped
<1> QED BY <1>2, LineInit, LineNext, PTL DEF Spec

-----------------------------------------------------------------------------
(* The transcript *)

Message == {"system", "user", "anchor", "call", "response", "answer", "note", "ack"}

LEMMA LeastNatural ==
  ASSUME NEW T \in SUBSET Nat, T # {}
  PROVE  \E n \in T : \A k \in T : n <= k
<1>1. PICK n \in T : \A k \in T : ~ (<<k, n>> \in OpToRel(<, Nat))
  BY NatLessThanWellFounded, WFMin
<1>2. \A k \in T : ~ (k < n)
  BY <1>1 DEF OpToRel
<1> QED BY <1>2

(* Compaction finds its cut: among more than Keep roots there is one with  *)
(* Keep roots from it on.  Counting back from the end, the first position  *)
(* with Keep roots behind it is one.                                       *)
LEMMA CutExists ==
  ASSUME NEW s \in Seq(Message), Cardinality(Roots(s)) > Keep
  PROVE  \E i \in Roots(s) : Cardinality({j \in Roots(s) : j >= i}) = Keep
<1> DEFINE R == Roots(s)
           From(i) == {j \in R : j >= i}
           Count(i) == Cardinality(From(i))
           L == Len(s)
           T == {n \in Nat : Count(L + 1 - n) >= Keep}
<1>1. L \in Nat /\ Keep \in Nat \ {0} /\ R \subseteq 2..L
  BY ControlAssumption DEF Roots
<1>2. IsFiniteSet(2..L)
  BY <1>1, FS_Interval
<1>3. \A i \in Int : IsFiniteSet(From(i)) /\ Count(i) \in Nat
  <2> SUFFICES ASSUME NEW i \in Int PROVE IsFiniteSet(From(i)) /\ Count(i) \in Nat
    OBVIOUS
  <2>1. From(i) \in SUBSET (2..L)
    BY <1>1
  <2>2. IsFiniteSet(From(i))
    BY <1>2, <2>1, FS_Subset
  <2> QED BY <2>2, FS_CardinalityType
<1>4. Count(0) > Keep /\ Count(L + 1) = 0
  <2>1. From(0) = R /\ From(L + 1) = {}
    BY <1>1
  <2> QED BY <2>1, FS_EmptySet
<1>5. ASSUME NEW i \in Int
      PROVE  Count(i) = IF i \in R THEN Count(i + 1) + 1 ELSE Count(i + 1)
  <2>1. CASE i \notin R
    <3>1. From(i) = From(i + 1)
      BY <1>1, <2>1
    <3> QED BY <2>1, <3>1
  <2>2. CASE i \in R
    <3>1. From(i) \subseteq From(i + 1) \cup {i} /\ i \notin From(i + 1)
      BY <1>1
    <3>2. From(i + 1) \cup {i} \subseteq From(i)
      BY <1>1, <2>2
    <3>3. From(i) = From(i + 1) \cup {i}
      BY <3>1, <3>2
    <3>4. IsFiniteSet(From(i + 1))
      BY <1>3
    <3> HIDE DEF From
    <3>5. Cardinality(From(i + 1) \cup {i}) = Cardinality(From(i + 1)) + 1
      BY <3>1, <3>4, FS_AddElement
    <3> QED BY <2>2, <3>3, <3>5
  <2> QED BY <2>1, <2>2
<1>5a. \A i \in Int : Count(i) \in Nat
  BY <1>3
<1> HIDE DEF R, Count, L
<1>6. L + 1 \in T
  <2>1. L + 1 \in Nat /\ L + 1 - (L + 1) = 0
    BY <1>1
  <2>2. Count(0) \in Nat /\ Count(0) >= Keep
    BY <1>1, <1>4, <1>5a
  <2>3. Count(L + 1 - (L + 1)) >= Keep
    BY <2>1, <2>2
  <2> QED BY <2>1, <2>3
<1>7. PICK n \in T : \A k \in T : n <= k
  BY <1>6, LeastNatural
<1>8. n \in Nat /\ Count(L + 1 - n) >= Keep
  BY <1>7
<1>9. n # 0
  <2> SUFFICES ASSUME n = 0 PROVE FALSE
    OBVIOUS
  <2>1. L + 1 - n = L + 1
    BY <1>1
  <2> QED BY <1>1, <1>4, <1>8, <2>1
<1>10. PICK i \in Int : i = L + 1 - n
  BY <1>1, <1>8
<1>11. ~ (Count(i + 1) >= Keep)
  <2> SUFFICES ASSUME Count(i + 1) >= Keep PROVE FALSE
    OBVIOUS
  <2>1. n - 1 \in Nat /\ L + 1 - (n - 1) = i + 1
    BY <1>1, <1>8, <1>9, <1>10
  <2>2. n - 1 \in T
    BY <2>1
  <2> QED BY <1>7, <1>8, <2>2
<1>12. Count(i) \in Nat /\ Count(i + 1) \in Nat
  <2>1. i \in Int /\ i + 1 \in Int
    BY <1>10
  <2> QED BY <1>5a, <2>1
<1>13. i \in R /\ Count(i) = Keep
  BY <1>1, <1>5, <1>8, <1>10, <1>11, <1>12
<1> QED BY <1>13 DEF R, Count

LEMMA CutIsRoot ==
  ASSUME NEW s \in Seq(Message), Eligible(s)
  PROVE  CompactionCut(s) \in Roots(s) /\ CompactionCut(s) > 2
<1>1. CompactionCut(s) > 2
  BY DEF Eligible
<1>2. ~(Len(s) < 5 \/ Cardinality(Roots(s)) <= Keep)
  BY <1>1 DEF CompactionCut
<1>3. Cardinality(Roots(s)) \in Nat
  <2>1. Len(s) \in Nat /\ Roots(s) \in SUBSET (2..Len(s))
    BY DEF Roots
  <2>2. IsFiniteSet(2..Len(s))
    BY <2>1, FS_Interval
  <2>3. IsFiniteSet(Roots(s))
    BY <2>1, <2>2, FS_Subset
  <2> QED BY <2>3, FS_CardinalityType
<1>4. Cardinality(Roots(s)) > Keep
  BY <1>2, <1>3, ControlAssumption
<1>5. CompactionCut(s) = CHOOSE i \in Roots(s) : Cardinality({j \in Roots(s) : j >= i}) = Keep
  BY <1>2 DEF CompactionCut
<1>6. CompactionCut(s) \in Roots(s)
  BY <1>4, <1>5, CutExists
<1> QED BY <1>1, <1>6

(* A transcript on its way: closed but for its last message. *)
Sound(s) ==
  /\ s \in Seq(Message) /\ Len(s) >= 1 /\ s[1] = "system"
  /\ \A i \in 2..Len(s) :
       /\ Assistant(s[i]) <=> i % 2 = 1
       /\ s[i] = "call" /\ i < Len(s) => s[i + 1] = "response"
       /\ s[i] = "response" => s[i - 1] = "call"

LEMMA ClosedSound ==
  ASSUME NEW s, Sound(s)
  PROVE  Closed(s) <=> Len(s) % 2 = 1 /\ s[Len(s)] # "call"
<1>1. Len(s) \in Nat /\ Len(s) >= 1 /\ s[1] = "system"
  BY DEF Sound
<1>2. ASSUME Closed(s) PROVE Len(s) % 2 = 1 /\ s[Len(s)] # "call"
  <2>1. CASE Len(s) = 1
    BY <1>1, <1>2, <2>1 DEF Closed
  <2>2. CASE Len(s) # 1
    <3>1. Len(s) \in 2..Len(s) /\ ~(Len(s) < Len(s))
      BY <1>1, <2>2
    <3> QED BY <1>2, <3>1 DEF Closed
  <2> QED BY <2>1, <2>2
<1>3. ASSUME Len(s) % 2 = 1, s[Len(s)] # "call" PROVE Closed(s)
  <2> SUFFICES ASSUME NEW i \in 2..Len(s)
               PROVE  /\ Assistant(s[i]) <=> i % 2 = 1
                      /\ s[i] = "call" => i < Len(s) /\ s[i + 1] = "response"
                      /\ s[i] = "response" => s[i - 1] = "call"
    BY <1>3 DEF Closed
  <2>1. s[i] = "call" => i < Len(s)
    BY <1>1, <1>3
  <2> QED BY <2>1 DEF Sound
<1> QED BY <1>2, <1>3

(* The message that may follow: an assistant's after a user's, a user's    *)
(* after an assistant's, and a response after a call and only there.       *)
LEMMA SoundAppend ==
  ASSUME NEW s, Sound(s), NEW m \in Message,
         Assistant(m) <=> Len(s) % 2 = 0,
         m = "response" <=> s[Len(s)] = "call"
  PROVE  Sound(Append(s, m)) /\ Len(Append(s, m)) = Len(s) + 1
         /\ Append(s, m)[Len(s) + 1] = m
<1> DEFINE t == Append(s, m)
<1>1. /\ s \in Seq(Message) /\ Len(s) \in Nat /\ Len(s) >= 1 /\ s[1] = "system"
      /\ t \in Seq(Message) /\ Len(t) = Len(s) + 1 /\ t[Len(s) + 1] = m
      /\ \A i \in 1..Len(s) : t[i] = s[i]
  BY DEF Sound
<1> HIDE DEF t
<1>2. ASSUME NEW i \in 2..Len(t)
      PROVE  /\ Assistant(t[i]) <=> i % 2 = 1
             /\ t[i] = "call" /\ i < Len(t) => t[i + 1] = "response"
             /\ t[i] = "response" => t[i - 1] = "call"
  <2>1. CASE i = Len(t)
    <3>1. t[i] = m /\ i - 1 = Len(s) /\ t[i - 1] = s[Len(s)] /\ (i % 2 = 1 <=> Len(s) % 2 = 0)
      BY <1>1, <2>1
    <3> QED BY <2>1, <3>1
  <2>2. CASE i = Len(s)
    <3>1. /\ i \in 2..Len(s) /\ t[i] = s[i] /\ t[i + 1] = m /\ t[i - 1] = s[i - 1]
      BY <1>1, <2>2
    <3> QED BY <2>2, <3>1 DEF Sound
  <2>3. CASE i < Len(s)
    <3>1. /\ i \in 2..Len(s) /\ t[i] = s[i] /\ t[i + 1] = s[i + 1] /\ t[i - 1] = s[i - 1]
      BY <1>1, <2>3
    <3> QED BY <2>3, <3>1 DEF Sound
  <2> QED BY <1>1, <2>1, <2>2, <2>3
<1>3. Sound(t)
  BY <1>1, <1>2 DEF Sound
<1> QED BY <1>1, <1>3 DEF t

(* fp1_close_incomplete_turn closes any transcript on its way. *)
LEMMA CloseIncompleteCloses ==
  ASSUME NEW s, Sound(s)
  PROVE  Sound(CloseIncomplete(s)) /\ Closed(CloseIncomplete(s))
<1> DEFINE n == Len(s)
           last == s[n]
<1>1. /\ s \in Seq(Message) /\ n \in Nat /\ n >= 1 /\ s[1] = "system" /\ last \in Message
      /\ n = 1 \/ n \in 2..n
  <2>1. s \in Seq(Message) /\ n \in Nat /\ n >= 1 /\ s[1] = "system"
    BY DEF Sound
  <2>2. n \in 1..n
    BY <2>1
  <2>3. last \in Message
    BY <2>1, <2>2, ElementOfSeq
  <2>4. ASSUME n # 1 PROVE n \in 2..n
    <3>1. \A k \in Nat : k >= 1 /\ k # 1 => k \in 2..k
      OBVIOUS
    <3> QED BY <2>1, <2>4, <3>1
  <2> QED BY <2>1, <2>3, <2>4
<1>2. n # 1 => (Assistant(last) <=> n % 2 = 1)
  BY <1>1 DEF Sound
<1>3. CASE IsRoot(s, n)
  <2> DEFINE t == SubSeq(s, 1, n - 1)
  <2>1. last \in {"user", "anchor"} /\ n >= 2 /\ n % 2 = 0
    BY <1>1, <1>2, <1>3 DEF IsRoot, Assistant
  <2>2. CloseIncomplete(s) = t
    BY <1>3 DEF CloseIncomplete
  <2>3. /\ t \in Seq(Message) /\ Len(t) = n - 1 /\ \A i \in 1..n - 1 : t[i] = s[i]
    BY <1>1, <2>1
  <2> HIDE DEF t
  <2>4. ASSUME NEW i \in 2..Len(t)
        PROVE  /\ Assistant(t[i]) <=> i % 2 = 1
               /\ t[i] = "call" => i < Len(t) /\ t[i + 1] = "response"
               /\ t[i] = "response" => t[i - 1] = "call"
    <3>1. i \in 2..n /\ i < n /\ t[i] = s[i] /\ t[i - 1] = s[i - 1]
      BY <1>1, <2>3
    <3>2. /\ Assistant(s[i]) <=> i % 2 = 1
          /\ s[i] = "call" => s[i + 1] = "response"
          /\ s[i] = "response" => s[i - 1] = "call"
      BY <3>1 DEF Sound
    <3>3. s[i] = "call" => i # n - 1
      BY <2>1, <3>1, <3>2
    <3>4. s[i] = "call" => i < Len(t) /\ t[i + 1] = s[i + 1]
      BY <1>1, <2>3, <3>1, <3>3
    <3> QED BY <3>1, <3>2, <3>4
  <2>5. Len(t) >= 1 /\ t[1] = "system" /\ Len(t) % 2 = 1
    <3>1. 1 \in 1..n - 1
      BY <1>1, <2>1
    <3>2. t[1] = "system" /\ Len(t) >= 1
      BY <1>1, <2>1, <2>3, <3>1
    <3>3. (n - 1) % 2 = 1
      BY <1>1, <2>1
    <3> QED BY <2>3, <3>2, <3>3
  <2> QED BY <2>2, <2>3, <2>4, <2>5 DEF Sound, Closed
<1>4. CASE ~IsRoot(s, n) /\ last = "call"
  <2> DEFINE r == Append(s, "response")
             t == Append(r, "note")
  <2>1. n % 2 = 1
    BY <1>1, <1>2, <1>4 DEF Assistant
  <2>2. Sound(r) /\ Len(r) = n + 1 /\ r[n + 1] = "response"
    BY <1>4, <2>1, SoundAppend DEF Assistant, Message
  <2> HIDE DEF r
  <2>3. Len(r) % 2 = 0
    BY <1>1, <2>1, <2>2
  <2>4. Sound(t) /\ Len(t) = Len(r) + 1 /\ t[Len(r) + 1] = "note"
    BY <2>2, <2>3, SoundAppend DEF Assistant, Message
  <2>5. CloseIncomplete(s) = t
    BY <1>4, <2>3 DEF CloseIncomplete, r
  <2> HIDE DEF t
  <2>6. Len(t) % 2 = 1
    BY <1>1, <2>2, <2>3, <2>4
  <2> QED BY <2>4, <2>5, <2>6, ClosedSound
<1>5. CASE ~IsRoot(s, n) /\ last # "call" /\ n % 2 = 0
  <2> DEFINE t == Append(s, "note")
  <2>1. Sound(t) /\ Len(t) = n + 1 /\ t[n + 1] = "note"
    BY <1>5, SoundAppend DEF Assistant, Message
  <2>2. CloseIncomplete(s) = t
    BY <1>5 DEF CloseIncomplete
  <2> HIDE DEF t
  <2>3. Len(t) % 2 = 1
    BY <1>1, <1>5, <2>1
  <2> QED BY <2>1, <2>2, <2>3, ClosedSound
<1>6. CASE ~IsRoot(s, n) /\ last # "call" /\ n % 2 = 1
  <2>1. CloseIncomplete(s) = s
    BY <1>6 DEF CloseIncomplete
  <2> QED BY <1>6, <2>1, ClosedSound
<1> QED BY <1>1, <1>3, <1>4, <1>5, <1>6

LEMMA ConcatAt ==
  ASSUME NEW S, NEW a \in Seq(S), NEW b \in Seq(S)
  PROVE  /\ a \o b \in Seq(S) /\ Len(a \o b) = Len(a) + Len(b)
         /\ \A i \in 1..Len(a) : (a \o b)[i] = a[i]
         /\ \A i \in 1..Len(b) : (a \o b)[Len(a) + i] = b[i]
  OBVIOUS

CutAway(s, c) == <<"system", "anchor", "ack">> \o SubSeq(s, c, Len(s))

(* Compaction keeps the transcript as it is from its cut on, and what it   *)
(* puts before has the cut's parity.                                       *)
LEMMA CutSound ==
  ASSUME NEW s, Sound(s), NEW c \in 3..Len(s), IsRoot(s, c)
  PROVE  /\ Sound(CutAway(s, c)) /\ Len(CutAway(s, c)) % 2 = Len(s) % 2
         /\ CutAway(s, c)[Len(CutAway(s, c))] = s[Len(s)]
         /\ Closed(s) => Closed(CutAway(s, c))
<1> DEFINE n == Len(s)
           head == <<"system", "anchor", "ack">>
           rest == SubSeq(s, c, n)
           t == head \o rest
<1>1. s \in Seq(Message) /\ n \in Nat /\ n >= 1
  BY DEF Sound
<1>2. c \in 3..n /\ s[c] \in {"user", "anchor"}
  BY DEF IsRoot
<1>3. c % 2 = 0
  <2>1. c \in 2..n /\ c \in Int
    BY <1>1, <1>2
  <2>2. ~Assistant(s[c])
    BY <1>2 DEF Assistant
  <2>3. ~(c % 2 = 1)
    BY <2>1, <2>2 DEF Sound
  <2> QED BY <2>1, <2>3
<1>4. /\ rest \in Seq(Message) /\ Len(rest) = n - c + 1
      /\ \A i \in 1..n - c + 1 : rest[i] = s[c + i - 1]
  BY <1>1, <1>2
<1>5. /\ head \in Seq(Message) /\ Len(head) = 3
      /\ head[1] = "system" /\ head[2] = "anchor" /\ head[3] = "ack"
  BY DEF Message
<1> HIDE DEF rest, head
<1>6. /\ t \in Seq(Message) /\ Len(t) = n - c + 4
      /\ t[1] = "system" /\ t[2] = "anchor" /\ t[3] = "ack"
      /\ \A i \in 1..Len(rest) : t[3 + i] = rest[i]
  <2>1. /\ t \in Seq(Message) /\ Len(t) = Len(head) + Len(rest)
        /\ \A i \in 1..Len(head) : t[i] = head[i]
        /\ \A i \in 1..Len(rest) : t[Len(head) + i] = rest[i]
    <3>1. head \in Seq(Message) /\ rest \in Seq(Message)
      BY <1>4, <1>5
    <3> QED BY <3>1, ConcatAt
  <2> HIDE DEF t
  <2>2. t[1] = head[1] /\ t[2] = head[2] /\ t[3] = head[3]
    BY <1>5, <2>1
  <2>3. Len(t) = n - c + 4
    BY <1>1, <1>2, <1>4, <1>5, <2>1
  <2> QED BY <1>5, <2>1, <2>2, <2>3
<1> HIDE DEF t
<1>7. ASSUME NEW i \in 4..Len(t)
      PROVE  i + c - 4 \in c..n /\ t[i] = s[i + c - 4]
  <2>1. i - 3 \in 1..Len(rest) /\ 3 + (i - 3) = i /\ c + (i - 3) - 1 = i + c - 4
    BY <1>1, <1>2, <1>4, <1>6
  <2>2. t[i] = rest[i - 3]
    BY <1>6, <2>1
  <2>3. rest[i - 3] = s[i + c - 4]
    BY <1>4, <2>1
  <2>4. i + c - 4 \in c..n
    BY <1>1, <1>2, <1>6
  <2> QED BY <2>2, <2>3, <2>4
<1>8. ASSUME NEW i \in 2..Len(t)
      PROVE  /\ Assistant(t[i]) <=> i % 2 = 1
             /\ t[i] = "call" /\ i < Len(t) => t[i + 1] = "response"
             /\ t[i] = "response" => t[i - 1] = "call"
  <2>1. CASE i \in 2..3
    BY <1>6, <2>1 DEF Assistant
  <2>2. CASE i >= 4
    <3> DEFINE k == i + c - 4
    <3>1. i \in 4..Len(t) /\ k \in c..n /\ k \in 2..n /\ t[i] = s[k]
      BY <1>1, <1>2, <1>6, <1>7, <2>2
    <3>2. k % 2 = i % 2
      BY <1>2, <1>3, <3>1
    <3>3. i < Len(t) => k < n /\ t[i + 1] = s[k + 1]
      <4> SUFFICES ASSUME i < Len(t) PROVE k < n /\ t[i + 1] = s[k + 1]
        OBVIOUS
      <4>1. i + 1 \in 4..Len(t) /\ (i + 1) + c - 4 = k + 1
        BY <1>1, <1>2, <1>6, <3>1
      <4> QED BY <1>1, <1>2, <1>6, <1>7, <3>1, <4>1
    <3>4. i # 4 => t[i - 1] = s[k - 1]
      <4> SUFFICES ASSUME i # 4 PROVE t[i - 1] = s[k - 1]
        OBVIOUS
      <4>1. i - 1 \in 4..Len(t) /\ (i - 1) + c - 4 = k - 1
        BY <1>1, <1>2, <1>6, <3>1
      <4> QED BY <1>7, <4>1
    <3>5. i = 4 => t[i] # "response"
      <4>1. i = 4 => k = c
        BY <1>2
      <4> QED BY <1>2, <3>1, <4>1
    <3> HIDE DEF k
    <3>6. /\ Assistant(s[k]) <=> k % 2 = 1
          /\ s[k] = "call" /\ k < n => s[k + 1] = "response"
          /\ s[k] = "response" => s[k - 1] = "call"
      BY <3>1 DEF Sound
    <3> QED BY <3>1, <3>2, <3>3, <3>4, <3>5, <3>6
  <2> QED BY <1>6, <2>1, <2>2
<1>9. Sound(t) /\ Len(t) >= 4
  BY <1>1, <1>2, <1>6, <1>8 DEF Sound
<1>10. Len(t) % 2 = n % 2
  <2>1. n \in Int /\ c \in Int /\ c % 2 = 0 /\ Len(t) = n - c + 4
    BY <1>1, <1>2, <1>3, <1>6
  <2>2. (n - c + 4) % 2 = n % 2
    BY <2>1
  <2> QED BY <2>1, <2>2
<1>11. t[Len(t)] = s[n]
  <2>1. Len(t) \in 4..Len(t) /\ Len(t) + c - 4 = n
    BY <1>1, <1>2, <1>6
  <2> QED BY <1>7, <2>1
<1>12. Closed(s) => Closed(t)
  BY <1>9, <1>10, <1>11, ClosedSound
<1> QED BY <1>9, <1>10, <1>11, <1>12 DEF t, head, rest, CutAway

LEMMA CompactedSound ==
  ASSUME NEW s, Sound(s), Eligible(s)
  PROVE  /\ Sound(Compacted(s))
         /\ Len(Compacted(s)) % 2 = Len(s) % 2
         /\ Closed(s) => Closed(Compacted(s))
<1> DEFINE c == CompactionCut(s)
<1>1. s \in Seq(Message)
  BY DEF Sound
<1>2. c \in 3..Len(s) /\ IsRoot(s, c)
  BY <1>1, CutIsRoot DEF Roots
<1>3. Compacted(s) = CutAway(s, c)
  BY DEF Compacted, CutAway
<1> HIDE DEF c
<1> QED BY <1>2, <1>3, CutSound

Working == mpc \in {"submit", "await", "result"}
Settling == mpc \in {"settle", "signal", "ack", "ack_clear", "ack_check", "ack_store",
                     "ack_recheck", "recover"}
LoopOver == mpc \in {"end", "join", "stop", "done"}

TurnTask == {"prepare", "turn"}
CallTask == {"preflight", "tool"}
CompactionTask == {"summary", "anchor", "fit"}
ClosingTask == {"recount", "autosave"}

(* The operation a command belongs to. *)
TaskInv ==
  /\ Working => task \in TurnTask \cup CallTask \cup CompactionTask \cup ClosingTask
                         \cup {"manual", "save"}
  /\ Working /\ task \in TurnTask \cup CallTask => cur.op = "prompt"
  /\ Working /\ task \in CompactionTask \cup ClosingTask => cur.op \in {"prompt", "compact"}
  /\ Working /\ task = "manual" => cur.op = "tool"
  /\ Settling => cur.op \in {"prompt", "tool"}

(* A turn that waits for the model, for a tool, or has failed. *)
Asking == Working /\ cur.op = "prompt" /\ task \in TurnTask \cup CompactionTask
Calling == Working /\ task \in CallTask
Failed == Settling /\ cur.op = "prompt" /\ res = FALSE

(* The transcript is closed wherever the loop does not work on a turn; the *)
(* model is asked after a user's message and a tool runs after its call,   *)
(* and what compaction has decided to cut is still there to be cut.        *)
ChatInv ==
  /\ Sound(chat)
  /\ res \in BOOLEAN
  /\ TaskInv
  /\ Asking => Len(chat) % 2 = 0
  /\ Calling => chat[Len(chat)] = "call"
  /\ Working /\ task \in CompactionTask => Eligible(chat)
  /\ Asking \/ Calling \/ Failed \/ LoopOver \/ Closed(chat)

USE DEF Working, Settling, LoopOver, TurnTask, CallTask, CompactionTask, ClosingTask

(* Steps that stay where they are. *)
LEMMA SamePlaceChat ==
  ASSUME ChatInv, UNCHANGED <<chat, cur, task, res, mpc>>
  PROVE  ChatInv'
  BY DEF ChatInv, TaskInv, Asking, Calling, Failed

(* The main loop outside a turn. *)
LEMMA ChooseChat ==
  ASSUME ChatInv,
         WorkerStarted \/ LoopTop \/ DrainControl \/ DrainPrompts \/ WaitOp
  PROVE  ChatInv'
<1>1. /\ mpc \in {"start", "top", "drain", "wait"}
      /\ mpc' \in {"top", "drain", "wait", "dispatch", "end", "done"}
      /\ chat' = chat /\ res' \in {res, FALSE}
  BY DEF WorkerStarted, LoopTop, DrainControl, DrainPrompts, WaitOp, Goto
<1>2. Closed(chat)
  BY <1>1 DEF ChatInv, Asking, Calling, Failed
<1> QED BY <1>1, <1>2 DEF ChatInv, TaskInv, Asking, Calling, Failed

(* A new prompt is a user's message after whole exchanges. *)
LEMMA PromptChat == ASSUME ChatInv, PromptOp PROVE ChatInv'
<1>1. /\ chat' = Append(chat, "user") /\ mpc = "dispatch" /\ cur.op = "prompt"
      /\ mpc' = "submit" /\ task' = "prepare" /\ cur' = cur /\ res' = res
  BY DEF PromptOp, Start
<1>2. Sound(chat) /\ Len(chat) \in Nat /\ Len(chat) % 2 = 1 /\ chat[Len(chat)] # "call"
  <2>1. Sound(chat) /\ Closed(chat)
    BY <1>1 DEF ChatInv, Asking, Calling, Failed
  <2>2. Len(chat) \in Nat
    BY <2>1 DEF Sound
  <2> QED BY <2>1, <2>2, ClosedSound
<1>3. Sound(chat') /\ Len(chat') = Len(chat) + 1
  BY <1>1, <1>2, SoundAppend DEF Assistant, Message
<1>4. Len(chat') % 2 = 0
  BY <1>2, <1>3
<1> QED BY <1>1, <1>3, <1>4 DEF ChatInv, TaskInv, Asking, Calling, Failed

LEMMA DispatchChat == ASSUME ChatInv, Dispatch PROVE ChatInv'
<1>1. CASE PromptOp
  BY <1>1, PromptChat
<1>2. CASE NewOp /\ chat' = <<"system">>
  <2>1. Sound(<<"system">>) /\ Closed(<<"system">>)
    BY DEF Sound, Closed, Message
  <2>2. mpc' = "top" /\ res' = res /\ Sound(chat') /\ Closed(chat')
    BY <1>2, <2>1 DEF NewOp, Goto
  <2> QED BY <2>2 DEF ChatInv, TaskInv, Asking, Calling, Failed
<1>3. CASE Dispatch /\ ~PromptOp /\ chat' = chat
  <2>1. /\ mpc = "dispatch" /\ res' = res
        /\ \/ mpc' = "top"
           \/ mpc' = "submit" /\ task' = "save"
           \/ mpc' = "submit" /\ task' = "manual" /\ cur.op = "tool" /\ cur' = cur
           \/ mpc' = "submit" /\ task' = "summary" /\ Eligible(chat) /\ cur.op = "compact"
              /\ cur' = cur
    BY <1>3 DEF Dispatch, Immediate, SaveOp, CompactOp, NewOp, ToolOp, Goto, Start
  <2>2. Closed(chat)
    BY <2>1 DEF ChatInv, Asking, Calling, Failed
  <2> QED BY <1>3, <2>1, <2>2 DEF ChatInv, TaskInv, Asking, Calling, Failed
<1> QED BY <1>1, <1>2, <1>3 DEF Dispatch, Immediate, SaveOp, CompactOp, NewOp, ToolOp

LEMMA CommandChat ==
  ASSUME ChatInv, SubmitTask \/ AwaitEvent \/ OutputFails
  PROVE  ChatInv'
<1>1. /\ Working /\ mpc' \in {"submit", "await", "result"} /\ res' \in BOOLEAN
      /\ UNCHANGED <<chat, cur, task>>
  BY DEF ChatInv, SubmitTask, AwaitEvent, OutputFails, Goto
<1> QED BY <1>1 DEF ChatInv, TaskInv, Asking, Calling, Failed

LEMMA PrepareChat == ASSUME ChatInv, AfterPrepare PROVE ChatInv'
<1>1. /\ mpc = "result" /\ task = "prepare" /\ UNCHANGED <<chat, cur>>
      /\ \/ mpc' = "settle" /\ res' = FALSE
         \/ mpc' = "submit" /\ task' = "turn" /\ res' = res
         \/ mpc' = "submit" /\ task' = "summary" /\ Eligible(chat) /\ res' = res
  BY DEF AfterPrepare, AtResult, Settle, Start, Goto, Give
<1>2. cur.op = "prompt" /\ Len(chat) % 2 = 0
  BY <1>1 DEF ChatInv, TaskInv, Asking
<1> QED BY <1>1, <1>2 DEF ChatInv, TaskInv, Asking, Calling, Failed

(* A compaction that is given up leaves the transcript as it was, one that *)
(* succeeds leaves it as sound, and as closed.                             *)
LEMMA CompactionChat == ASSUME ChatInv, CompactionStep PROVE ChatInv'
<1>1. /\ mpc = "result" /\ task \in CompactionTask /\ cur' = cur
      /\ \/ /\ chat' = chat
            /\ \/ cur.op = "compact" /\ mpc' = "idle" /\ res' = res
               \/ cur.op # "compact" /\ mpc' = "submit" /\ task' = "turn" /\ res' = res
               \/ cur.op # "compact" /\ mpc' = "settle" /\ res' = FALSE
               \/ mpc' = "submit" /\ task' \in CompactionTask /\ res' = res
         \/ /\ chat' = Compacted(chat) /\ mpc' = "submit" /\ res' = res
            /\ task' = IF cur.op = "compact" THEN "recount" ELSE "turn"
  BY DEF CompactionStep, CompactionFails, Settle, Start, Goto, Give
<1>2. /\ cur.op = "compact" => Closed(chat)
      /\ cur.op # "compact" => cur.op = "prompt" /\ Len(chat) % 2 = 0
      /\ Sound(chat) /\ Eligible(chat)
  BY <1>1 DEF ChatInv, TaskInv, Asking, Calling, Failed
<1>3. CASE chat' = chat
  BY <1>1, <1>2, <1>3 DEF ChatInv, TaskInv, Asking, Calling, Failed
<1>4. CASE /\ chat' = Compacted(chat) /\ mpc' = "submit" /\ res' = res
           /\ task' = IF cur.op = "compact" THEN "recount" ELSE "turn"
  <2>1. /\ Sound(chat') /\ Len(chat') % 2 = Len(chat) % 2
        /\ Closed(chat) => Closed(chat')
    BY <1>2, <1>4, CompactedSound
  <2> QED BY <1>1, <1>2, <1>4, <2>1 DEF ChatInv, TaskInv, Asking, Calling, Failed
<1> QED BY <1>1, <1>3, <1>4

(* The model's message follows a user's; its call is open until the        *)
(* response is appended.                                                   *)
LEMMA TurnChat == ASSUME ChatInv, AfterTurn PROVE ChatInv'
<1>1. /\ mpc = "result" /\ task = "turn" /\ cur' = cur
      /\ \/ chat' = chat /\ mpc' = "settle" /\ res' = FALSE
         \/ chat' = Append(chat, "answer") /\ mpc' = "settle" /\ res' \in BOOLEAN
         \/ chat' = Append(chat, "call") /\ mpc' = "settle" /\ res' = FALSE
         \/ /\ chat' = chat \o <<"call", "response">>
            /\ mpc' = "submit" /\ task' = "prepare" /\ res' = res
         \/ /\ chat' = Append(chat, "call")
            /\ mpc' = "submit" /\ task' \in CallTask /\ res' = res
  BY DEF AfterTurn, AtResult, Settle, Start, Goto, Give
<1>2. /\ cur.op = "prompt" /\ Sound(chat) /\ Len(chat) \in Nat /\ Len(chat) % 2 = 0
      /\ chat[Len(chat)] # "call"
  <2>1. cur.op = "prompt" /\ Sound(chat) /\ Len(chat) % 2 = 0
    BY <1>1 DEF ChatInv, TaskInv, Asking
  <2>2. Len(chat) \in Nat /\ Len(chat) >= 1
    BY <2>1 DEF Sound
  <2>3. Len(chat) \in 2..Len(chat)
    BY <2>1, <2>2
  <2>4. ~Assistant(chat[Len(chat)])
    BY <2>1, <2>3 DEF Sound
  <2> QED BY <2>1, <2>2, <2>4 DEF Assistant
<1>3. ASSUME NEW m \in {"answer", "call"}
      PROVE  /\ Sound(Append(chat, m)) /\ Len(Append(chat, m)) = Len(chat) + 1
             /\ Append(chat, m)[Len(chat) + 1] = m
  BY <1>2, SoundAppend DEF Assistant, Message
<1>4. (Len(chat) + 1) % 2 = 1
  BY <1>2
<1>5. CASE chat' = chat /\ mpc' = "settle" /\ res' = FALSE
  BY <1>1, <1>2, <1>5 DEF ChatInv, TaskInv, Asking, Calling, Failed
<1>6. CASE chat' = Append(chat, "answer") /\ mpc' = "settle" /\ res' \in BOOLEAN
  <2>1. Sound(chat') /\ Len(chat') = Len(chat) + 1 /\ chat'[Len(chat) + 1] = "answer"
    BY <1>3, <1>6
  <2>2. Closed(chat')
    BY <1>4, <2>1, ClosedSound
  <2> QED BY <1>1, <1>2, <1>6, <2>1, <2>2 DEF ChatInv, TaskInv, Asking, Calling, Failed
<1>7. CASE /\ chat' = Append(chat, "call")
           /\ \/ mpc' = "settle" /\ res' = FALSE
              \/ mpc' = "submit" /\ task' \in CallTask /\ res' = res
  <2>1. Sound(chat') /\ chat'[Len(chat')] = "call"
    BY <1>3, <1>7
  <2> QED BY <1>1, <1>2, <1>7, <2>1 DEF ChatInv, TaskInv, Asking, Calling, Failed
<1>8. CASE /\ chat' = chat \o <<"call", "response">>
           /\ mpc' = "submit" /\ task' = "prepare" /\ res' = res
  <2> DEFINE open == Append(chat, "call")
  <2>1. Sound(open) /\ Len(open) = Len(chat) + 1 /\ open[Len(chat) + 1] = "call"
    BY <1>3
  <2>2. chat' = Append(open, "response")
    BY <1>2, <1>8 DEF Sound
  <2> HIDE DEF open
  <2>3. Sound(chat') /\ Len(chat') = Len(chat) + 2
    BY <1>2, <1>4, <2>1, <2>2, SoundAppend DEF Assistant, Message
  <2>4. Len(chat') % 2 = 0
    BY <1>2, <2>3
  <2> QED BY <1>1, <1>2, <1>8, <2>3, <2>4 DEF ChatInv, TaskInv, Asking, Calling, Failed
<1> QED BY <1>1, <1>5, <1>6, <1>7, <1>8

LEMMA ToolChat == ASSUME ChatInv, AfterTool PROVE ChatInv'
<1>1. /\ mpc = "result" /\ task \in CallTask /\ cur' = cur
      /\ \/ chat' = chat /\ mpc' = "settle" /\ res' = FALSE
         \/ chat' = chat /\ mpc' = "submit" /\ task' = "tool" /\ res' = res
         \/ /\ chat' = Append(chat, "response")
            /\ mpc' = "submit" /\ task' = "prepare" /\ res' = res
  BY DEF AfterTool, Settle, Start, Goto, Give
<1>2. cur.op = "prompt" /\ Sound(chat) /\ chat[Len(chat)] = "call"
  BY <1>1 DEF ChatInv, TaskInv, Calling
<1>3. CASE /\ chat' = chat
           /\ \/ mpc' = "settle" /\ res' = FALSE
              \/ mpc' = "submit" /\ task' = "tool" /\ res' = res
  BY <1>1, <1>2, <1>3 DEF ChatInv, TaskInv, Asking, Calling, Failed
<1>4. CASE /\ chat' = Append(chat, "response")
           /\ mpc' = "submit" /\ task' = "prepare" /\ res' = res
  <2>1. Len(chat) \in Nat /\ Len(chat) % 2 = 1
    <3>1. Len(chat) \in Nat /\ Len(chat) >= 1 /\ chat[1] = "system"
      BY <1>2 DEF Sound
    <3>2. Len(chat) \in 2..Len(chat)
      BY <1>2, <3>1
    <3> QED BY <1>2, <3>1, <3>2 DEF Sound, Assistant
  <2>2. Sound(chat') /\ Len(chat') = Len(chat) + 1
    BY <1>2, <1>4, <2>1, SoundAppend DEF Assistant, Message
  <2>3. Len(chat') % 2 = 0
    BY <2>1, <2>2
  <2> QED BY <1>1, <1>2, <1>4, <2>2, <2>3 DEF ChatInv, TaskInv, Asking, Calling, Failed
<1> QED BY <1>1, <1>3, <1>4

LEMMA OtherResultsChat ==
  ASSUME ChatInv, AfterManual \/ AfterSave \/ AfterRecount \/ AfterAutosave
  PROVE  ChatInv'
<1>1. /\ mpc = "result" /\ task \in {"manual", "save"} \cup ClosingTask
      /\ chat' = chat /\ res' = res
      /\ \/ mpc' = "settle" /\ cur' = cur /\ task = "manual"
         \/ mpc' = "submit" /\ task' = "autosave" /\ task = "recount" /\ cur' = cur
         \/ mpc' \in {"top", "idle", "end"}
  BY DEF AfterManual, AfterSave, AfterRecount, AfterAutosave, AtResult, Settle, Start, Goto,
         Give
<1>2. Closed(chat) /\ (task = "manual" => cur.op = "tool")
  BY <1>1 DEF ChatInv, TaskInv, Asking, Calling, Failed
<1> QED BY <1>1, <1>2 DEF ChatInv, TaskInv, Asking, Calling, Failed

LEMMA SettleChat ==
  ASSUME ChatInv, SettleCancel \/ SettleSignal \/ AckSignal \/ RecoverTool \/ Idle
  PROVE  ChatInv'
<1>1. CASE SettleCancel \/ SettleSignal \/ AckSignal
  <2>1. /\ Settling /\ UNCHANGED <<chat, cur, res>>
        /\ mpc' \in {"signal", "ack", "ack_clear", "ack_check", "ack_store", "ack_recheck",
                     "recover", "end"}
    BY <1>1 DEF SettleCancel, SettleSignal, AckSignal, KeepTurn, EndSession, Goto
  <2> QED BY <2>1 DEF ChatInv, TaskInv, Asking, Calling, Failed
<1>2. CASE RecoverTool \/ Idle
  <2>1. /\ mpc \in {"recover", "idle"} /\ (mpc = "recover" => cur.op = "tool")
        /\ mpc' \in {"idle", "top", "end"} /\ UNCHANGED <<chat, res>>
    BY <1>2 DEF RecoverTool, Idle, KeepTurn, EndSession, Goto
  <2> QED BY <2>1 DEF ChatInv, TaskInv, Asking, Calling, Failed
<1> QED BY <1>1, <1>2

LEMMA RecoverChat == ASSUME ChatInv, RecoverTurn PROVE ChatInv'
<1>1. /\ mpc = "recover" /\ cur.op = "prompt" /\ UNCHANGED <<cur, res>>
      /\ \/ mpc' = "end" /\ chat' = chat
         \/ /\ chat' = IF res THEN chat ELSE CloseIncomplete(chat)
            /\ mpc' = "submit" /\ task' = "recount"
  BY DEF RecoverTurn, EndSession, Start, Goto
<1>2. Sound(chat) /\ (res => Closed(chat)) /\ res \in BOOLEAN
  BY <1>1 DEF ChatInv, Asking, Calling, Failed
<1>3. Sound(CloseIncomplete(chat)) /\ Closed(CloseIncomplete(chat))
  BY <1>2, CloseIncompleteCloses
<1> QED BY <1>1, <1>2, <1>3 DEF ChatInv, TaskInv, Asking, Calling, Failed

LEMMA OverChat ==
  ASSUME ChatInv, EndLoop \/ ControlStop \/ WorkerJoined
  PROVE  ChatInv'
<1>1. LoopOver /\ mpc' \in {"join", "stop", "done"} /\ UNCHANGED <<chat, res>>
  BY DEF EndLoop, ControlStop, WorkerJoined, Goto
<1> QED BY <1>1 DEF ChatInv, TaskInv, Asking, Calling, Failed

LEMMA ChatNext == ASSUME ChatInv, [Next]_vars PROVE ChatInv'
<1>1. CASE MainStep \/ OutputFails
  BY <1>1, ChooseChat, DispatchChat, CommandChat, PrepareChat, CompactionChat, TurnChat,
     ToolChat, OtherResultsChat, SettleChat, RecoverChat, OverChat DEF MainStep, Results
<1>2. CASE Reader \/ Signal \/ BusyOps \/ WorkerStep \/ NoMemory \/ UNCHANGED vars
  <2>1. UNCHANGED <<chat, cur, task, res, mpc>>
    BY <1>2 DEF Reader, ReaderTop, ReaderEof, ParseLine, ReaderWoken, BurstEnd, Signal,
       BusyOps, WorkerStep, NoMemory, vars, controlVars, mainVars
  <2> QED BY <2>1, SamePlaceChat
<1> QED BY <1>1, <1>2 DEF Next

LEMMA ChatInit == Init => ChatInv
<1> SUFFICES ASSUME Init PROVE ChatInv
  OBVIOUS
<1>1. chat = <<"system">> \o Loaded /\ mpc = "start" /\ res = FALSE
  BY DEF Init, ControlInit
<1>2. <<"system">> \in Seq(Message) /\ Len(<<"system">>) = 1 /\ Loaded \in Seq(Message)
  BY LoadedAssumption DEF Message
<1>3. chat \in Seq(Message) /\ Len(chat) >= 1 /\ chat[1] = "system"
  BY <1>1, <1>2
<1>4. Closed(chat)
  BY <1>1, LoadedAssumption
<1>5. Sound(chat)
  BY <1>3, <1>4 DEF Sound, Closed
<1> QED BY <1>1, <1>4, <1>5 DEF ChatInv, TaskInv, Asking, Calling, Failed

(* Wherever a turn fails or is cancelled, the transcript between two       *)
(* operations consists of whole exchanges, and so does the one on disk:    *)
(* what LoadedAssumption takes from the session before, this one keeps.    *)
THEOREM AgentClosesTranscript == Spec => []TranscriptClosed
<1>1. ChatInv => TranscriptClosed
  BY DEF ChatInv, TranscriptClosed, Asking, Calling, Failed
<1> QED BY <1>1, ChatInit, ChatNext, PTL DEF Spec

-----------------------------------------------------------------------------
(* The interactive loop *)

KeyPress == [k : Keys, id : Nat]
ReplAts == {"top", "read", "line", "busy", "ending", "stopping", "settle", "over"}

Editors == [busy : BOOLEAN, hidden : BOOLEAN, open : BOOLEAN,
            buf : SUBSET Nat, restore : SUBSET Nat]
Screens == [row : {"clean", "text"}, erased : BOOLEAN, glued : BOOLEAN]
Mains == [at : ReplAts, run : {"none", "turn", "tool"}, ok : BOOLEAN, intr : BOOLEAN,
          last : {"none", "int", "term"}, pipe : BOOLEAN, line : SUBSET Nat,
          sigs : Nat, cut : BOOLEAN, spins : Nat]
Accounts == [keys : Nat, chars : SUBSET Nat, due : SUBSET Nat, lost : BOOLEAN, cut : BOOLEAN]

ReplTypes ==
  /\ ed \in Editors /\ scr \in Screens
  /\ tty \in Seq(KeyPress) /\ rq \in Seq(SUBSET Nat)
  /\ main \in Mains /\ acct \in Accounts

(* The prompt is hidden exactly while unfinished output stands on its row, *)
(* which a busy session alone can leave there.                             *)
ScreenInv ==
  /\ ~scr.erased
  /\ ed.hidden = ed.open
  /\ ~ed.hidden => scr.row = "clean"
  /\ ed.hidden => ed.busy
  /\ ed.busy <=> main.at \in {"busy", "ending", "stopping"}

(* What is queued. *)
Texts(q) == UNION {q[i] : i \in DOMAIN q}

(* Where the characters that are not settled are. *)
Placed ==
  \A c \in acct.chars :
    \/ c \in ed.buf \/ c \in ed.restore
    \/ c \in Chars(tty) \/ c \in main.line \/ c \in Texts(rq)

(* A character is due only while a busy session ends, and the terminal     *)
(* holds none of those once the drain is over: what is pressed afterwards  *)
(* has a higher number.  Between two edits the buffer, which the next one  *)
(* overwrites, is empty.                                                   *)
TypedInv ==
  /\ ~acct.lost
  /\ \A c \in Chars(tty) \cup acct.due : c <= acct.keys
  /\ main.at \notin {"ending", "stopping"} => acct.due = {}
  /\ main.at = "stopping" => acct.due \cap Chars(tty) = {}
  /\ main.at \in {"top", "line", "settle"} => ed.buf = {}
  /\ main.at # "line" => main.line = {}
  /\ main.at # "over" => Placed

(* Only a turn that has not succeeded leaves the transcript open. *)
TalkInv ==
  /\ Sound(talk)
  /\ \/ Closed(talk)
     \/ main.at = "over"
     \/ main.at = "busy" /\ main.run = "turn"
     \/ main.at \in {"ending", "stopping", "settle"} /\ main.run = "turn" /\ ~main.ok

ReplInv == ReplTypes /\ ScreenInv /\ TypedInv /\ TalkInv

LEMMA CharsNone == Chars(<<>>) = {}
  BY DEF Chars

LEMMA CharsAppend ==
  ASSUME NEW s \in Seq(KeyPress), NEW x \in KeyPress
  PROVE  /\ Chars(s) \subseteq Chars(Append(s, x))
         /\ x.k = "char" => x.id \in Chars(Append(s, x))
         /\ Chars(Append(s, x)) \subseteq Chars(s) \cup {x.id}
<1> DEFINE t == Append(s, x)
<1>1. Len(t) = Len(s) + 1 /\ DOMAIN t = 1 .. Len(s) + 1 /\ DOMAIN s = 1 .. Len(s)
  OBVIOUS
<1>2. \A i \in 1 .. Len(s) : t[i] = s[i]
  OBVIOUS
<1>3. t[Len(s) + 1] = x
  OBVIOUS
<1>4. Len(s) \in Nat
  OBVIOUS
<1> HIDE DEF t
<1>5. Chars(s) \subseteq Chars(t)
  BY <1>1, <1>2, <1>4 DEF Chars
<1>6. x.k = "char" => x.id \in Chars(t)
  BY <1>1, <1>3, <1>4 DEF Chars
<1>7. ASSUME NEW c \in Chars(t) PROVE c \in Chars(s) \cup {x.id}
  <2>1. PICK i \in DOMAIN t : t[i].k = "char" /\ c = t[i].id
    BY DEF Chars
  <2>2. CASE i = Len(s) + 1
    BY <1>3, <2>1, <2>2
  <2>3. CASE i # Len(s) + 1
    <3>1. i \in DOMAIN s /\ s[i] = t[i]
      BY <1>1, <1>2, <1>4, <2>1, <2>3
    <3> QED BY <2>1, <3>1 DEF Chars
  <2> QED BY <2>2, <2>3
<1> QED BY <1>5, <1>6, <1>7 DEF t

LEMMA CharsHead ==
  ASSUME NEW s \in Seq(KeyPress), s # <<>>
  PROVE  /\ \A c \in Chars(s) : c \in Chars(Tail(s)) \/ (Head(s).k = "char" /\ c = Head(s).id)
         /\ Chars(Tail(s)) \subseteq Chars(s)
<1> SUFFICES ASSUME NEW t, t = Tail(s)
             PROVE  /\ \A c \in Chars(s) : c \in Chars(t) \/ (Head(s).k = "char" /\ c = Head(s).id)
                    /\ Chars(t) \subseteq Chars(s)
  OBVIOUS
<1>2. DOMAIN s = 1 .. Len(s) /\ Len(s) \in Nat \ {0} /\ Head(s) = s[1]
  OBVIOUS
<1>3. DOMAIN t = 1 .. Len(s) - 1 /\ \A j \in 1 .. Len(s) - 1 : t[j] = s[j + 1]
  OBVIOUS
<1>4. ASSUME NEW c \in Chars(s)
      PROVE  c \in Chars(t) \/ (Head(s).k = "char" /\ c = Head(s).id)
  <2>1. PICK i \in DOMAIN s : s[i].k = "char" /\ c = s[i].id
    BY DEF Chars
  <2>2. CASE i = 1
    BY <1>2, <2>1, <2>2
  <2>3. CASE i # 1
    <3>1. i - 1 \in 1 .. Len(s) - 1 /\ t[i - 1] = s[(i - 1) + 1] /\ (i - 1) + 1 = i
      BY <1>2, <1>3, <2>3
    <3>2. i - 1 \in DOMAIN t /\ t[i - 1].k = "char" /\ t[i - 1].id = c
      BY <2>1, <1>3, <3>1
    <3>3. c \in Chars(t)
      BY <3>2 DEF Chars
    <3> QED BY <3>3
  <2> QED BY <2>2, <2>3
<1>5. ASSUME NEW c \in Chars(t) PROVE c \in Chars(s)
  <2>1. PICK j \in DOMAIN t : t[j].k = "char" /\ c = t[j].id
    BY DEF Chars
  <2>2. j + 1 \in DOMAIN s /\ s[j + 1] = t[j]
    BY <1>2, <1>3, <2>1
  <2> QED BY <2>1, <2>2 DEF Chars
<1> QED BY <1>4, <1>5

LEMMA TextsAppend ==
  ASSUME NEW q \in Seq(SUBSET Nat), NEW l \in SUBSET Nat
  PROVE  Texts(q) \subseteq Texts(Append(q, l)) /\ l \subseteq Texts(Append(q, l))
<1> DEFINE t == Append(q, l)
<1>1. DOMAIN t = 1 .. Len(q) + 1 /\ DOMAIN q = 1 .. Len(q) /\ Len(q) \in Nat
  OBVIOUS
<1>2. \A i \in 1 .. Len(q) : t[i] = q[i]
  OBVIOUS
<1>3. t[Len(q) + 1] = l
  OBVIOUS
<1> HIDE DEF t
<1>4. Texts(q) \subseteq Texts(t)
  BY <1>1, <1>2 DEF Texts
<1>5. l \subseteq Texts(t)
  BY <1>1, <1>3 DEF Texts
<1> QED BY <1>4, <1>5 DEF t

LEMMA TextsHead ==
  ASSUME NEW q \in Seq(SUBSET Nat), q # <<>>, NEW c \in Texts(q)
  PROVE  c \in Head(q) \/ c \in Texts(Tail(q))
<1> DEFINE t == Tail(q)
<1>1. PICK i \in DOMAIN q : c \in q[i]
  BY DEF Texts
<1>2. DOMAIN q = 1 .. Len(q) /\ Len(q) \in Nat \ {0} /\ Head(q) = q[1]
  OBVIOUS
<1>3. DOMAIN t = 1 .. Len(q) - 1 /\ \A j \in 1 .. Len(q) - 1 : t[j] = q[j + 1]
  OBVIOUS
<1> HIDE DEF t
<1>4. CASE i = 1
  BY <1>1, <1>2, <1>4
<1>5. CASE i # 1
  <2>1. i - 1 \in 1 .. Len(q) - 1 /\ t[i - 1] = q[(i - 1) + 1] /\ (i - 1) + 1 = i
    BY <1>2, <1>3, <1>5
  <2> QED BY <1>1, <1>3, <2>1 DEF Texts, t
<1> QED BY <1>4, <1>5

LEMMA CharsType ==
  ASSUME NEW s \in Seq(KeyPress) PROVE Chars(s) \subseteq Nat
<1>1. \A i \in DOMAIN s : s[i] \in KeyPress
  OBVIOUS
<1> QED BY <1>1 DEF Chars, KeyPress

(* What becomes of the account when raw mode is entered or left, text is   *)
(* cut, and a line is run or refused.                                      *)
LEMMA FlushedIs ==
  ASSUME NEW a \in Accounts, ~a.lost, a.due \cap Chars(tty) = {}
  PROVE  /\ Flushed(a) \in Accounts /\ Flushed(a).keys = a.keys
         /\ Flushed(a).chars = a.chars \ Chars(tty)
         /\ Flushed(a).due = {} /\ ~Flushed(a).lost
<1>1. Flushed(a) = [a EXCEPT !.chars = a.chars \ Chars(tty), !.due = {}, !.lost = FALSE]
  BY DEF Flushed, Accounts
<1> QED BY <1>1 DEF Accounts

LEMMA CutIs ==
  ASSUME NEW a \in Accounts, NEW text
  PROVE  /\ Cut(a, text) \in Accounts /\ Cut(a, text).keys = a.keys
         /\ Cut(a, text).chars = a.chars \ text
         /\ Cut(a, text).due = a.due /\ Cut(a, text).lost = a.lost
<1>1. PICK b \in BOOLEAN : Cut(a, text) = [a EXCEPT !.chars = a.chars \ text, !.cut = b]
  <2>1. PICK b \in BOOLEAN : b = (a.cut \/ text # {})
    OBVIOUS
  <2> QED BY <2>1 DEF Cut
<1> QED BY <1>1 DEF Accounts

LEMMA AccountedIs ==
  ASSUME NEW a \in Accounts, NEW text
  PROVE  /\ Accounted(a, text) \in Accounts /\ Accounted(a, text).keys = a.keys
         /\ Accounted(a, text).chars = a.chars \ text
         /\ Accounted(a, text).due = a.due /\ Accounted(a, text).lost = a.lost
  BY DEF Accounted, Accounts

LEMMA CarriedIs ==
  ASSUME NEW a \in Accounts, ~a.lost, a.due \cap Chars(tty) = {}
  PROVE  /\ Carried(a) \in Accounts /\ Carried(a).keys = a.keys
         /\ Carried(a).chars = (a.chars \ Chars(tty)) \ (ed.restore \ Fits(ed.restore))
         /\ Carried(a).due = {} /\ ~Carried(a).lost
  BY FlushedIs, CutIs DEF Carried

LEMMA FitsIn == ASSUME NEW t PROVE Fits(t) \subseteq t
  BY DEF Fits

LEMMA ExchangesClosed == ASSUME NEW t PROVE Exchanges(t) <=> Closed(t)
  BY DEF Exchanges, Closed, Spoken, Assistant

LEMMA ReplInitInv == ReplInit => ReplInv
<1> SUFFICES ASSUME ReplInit PROVE ReplInv
  OBVIOUS
<1>1. ReplTypes
  BY DEF ReplInit, ReplTypes, Editors, Screens, Mains, Accounts, ReplAts, KeyPress
<1>2. ScreenInv /\ TypedInv
  BY CharsNone DEF ReplInit, ScreenInv, TypedInv, Placed
<1>3. TalkInv
  <2> DEFINE t == <<"system">> \o Resumed
  <2>1. talk = t /\ Closed(t)
    BY ResumedAssumption, ExchangesClosed DEF ReplInit
  <2>2. <<"system">> \in Seq(Message) /\ Resumed \in Seq(Message)
    BY ResumedAssumption DEF Message
  <2>3. t \in Seq(Message) /\ Len(t) = 1 + Len(Resumed) /\ t[1] = "system"
    BY <2>2, ConcatAt
  <2>4. Len(t) >= 1
    BY <2>2, <2>3
  <2> HIDE DEF t
  <2>5. Sound(t)
    BY <2>1, <2>3, <2>4 DEF Sound, Closed
  <2> QED BY <2>1, <2>5 DEF TalkInv
<1> QED BY <1>1, <1>2, <1>3 DEF ReplInv

LEMMA PressRepl == ASSUME ReplInv, NEW k \in Keys, Press(k) PROVE ReplInv'
<1> DEFINE x == [k |-> k, id |-> acct.keys + 1]
<1>1. x \in KeyPress /\ tty \in Seq(KeyPress) /\ acct \in Accounts /\ acct.keys \in Nat
  BY DEF ReplInv, ReplTypes, Accounts, KeyPress
<1>2. tty' \in Seq(KeyPress)
  BY <1>1 DEF Press
<1>3. /\ Chars(tty) \subseteq Chars(tty')
      /\ k = "char" => acct.keys + 1 \in Chars(tty')
      /\ Chars(tty') \subseteq Chars(tty) \cup {acct.keys + 1}
  BY <1>1, CharsAppend DEF Press
<1>4. PICK n \in Nat, cs \in SUBSET Nat :
        /\ n = acct.keys + 1
        /\ cs = IF k = "char" THEN acct.chars \union {acct.keys + 1} ELSE acct.chars
        /\ acct' = [acct EXCEPT !.keys = n, !.chars = cs]
  <2>1. PICK n \in Nat : n = acct.keys + 1
    BY <1>1
  <2>2. PICK cs \in SUBSET Nat : cs = IF k = "char" THEN acct.chars \union {n} ELSE acct.chars
    BY <1>1 DEF Accounts
  <2> QED BY <2>1, <2>2 DEF Press
<1>5. /\ acct' \in Accounts /\ acct'.keys = acct.keys + 1 /\ acct'.chars = cs
      /\ acct'.due = acct.due /\ acct'.lost = acct.lost
  <2>1. /\ acct' \in Accounts /\ acct'.keys = n /\ acct'.chars = cs
        /\ acct'.due = acct.due /\ acct'.lost = acct.lost
    BY <1>1, <1>4 DEF Accounts
  <2> QED BY <1>4, <2>1
<1>u. UNCHANGED <<ed, scr, rq, main, talk>>
  BY DEF Press
<1>6. ReplTypes'
  BY <1>2, <1>5, <1>u DEF ReplInv, ReplTypes
<1>7. ScreenInv' /\ TalkInv'
  BY <1>u DEF ReplInv, ScreenInv, TalkInv
<1>8. TypedInv'
  <2>n. Chars(tty) \cup acct.due \subseteq Nat
    BY <1>1, CharsType DEF Accounts
  <2>1. \A c \in Chars(tty)' \cup acct'.due : c <= acct'.keys
    BY <1>1, <1>3, <1>5, <2>n DEF ReplInv, TypedInv
  <2>2. main'.at = "stopping" => acct'.due \cap Chars(tty)' = {}
    <3>1. acct.keys + 1 \notin acct.due
      BY <1>1, <2>n DEF ReplInv, TypedInv
    <3> QED BY <1>3, <1>5, <1>u, <3>1 DEF ReplInv, TypedInv
  <2>3. main'.at # "over" => Placed'
    BY <1>3, <1>4, <1>5, <1>u DEF ReplInv, TypedInv, Placed
  <2> QED BY <1>5, <1>u, <2>1, <2>2, <2>3 DEF ReplInv, TypedInv
<1> QED BY <1>6, <1>7, <1>8 DEF ReplInv

LEMMA OnSignalRepl == ASSUME ReplInv, NEW sig \in {"int", "term"}, OnSignal(sig) PROVE ReplInv'
<1>0. PICK n \in Nat :
        main' = [main EXCEPT !.intr = TRUE, !.last = sig, !.pipe = TRUE, !.sigs = n]
  <2>1. PICK n \in Nat : n = main.sigs + 1
    BY DEF ReplInv, ReplTypes, Mains
  <2> QED BY <2>1 DEF OnSignal
<1>1. /\ main' \in Mains /\ main'.at = main.at /\ main'.run = main.run /\ main'.ok = main.ok
      /\ main'.line = main.line
  BY <1>0 DEF ReplInv, ReplTypes, Mains
<1>u. UNCHANGED <<ed, scr, tty, rq, talk, acct>>
  BY DEF OnSignal
<1> QED BY <1>1, <1>u DEF ReplInv, ReplTypes, ScreenInv, TypedInv, Placed, TalkInv

(* Where nothing is due, raw mode is entered or left without a loss, and   *)
(* what the terminal does not hold any more need not be found.             *)
LEMMA NothingDue ==
  ASSUME ReplInv, main.at \notin {"ending", "stopping"}
  PROVE  /\ acct \in Accounts /\ ~acct.lost /\ acct.due = {} /\ acct.due \cap Chars(tty) = {}
         /\ acct.keys \in Nat
  BY DEF ReplInv, ReplTypes, TypedInv, Accounts

(* Leaving is safe from anywhere. *)
LEMMA LeaveRepl ==
  ASSUME ReplInv, main.at \notin {"busy", "ending", "stopping"}, NEW good \in BOOLEAN,
         ReplLeave(good), ed' = ed \/ ed' = [ed EXCEPT !.buf = {}],
         UNCHANGED <<scr, rq>>, Sound(talk'),
         tty' = tty \/ tty' = <<>>, acct' \in Accounts, acct'.due = {}, ~acct'.lost,
         acct'.keys = acct.keys
  PROVE  ReplInv'
<1>1. main' \in Mains /\ main'.at = "over" /\ main'.line = {}
  BY DEF ReplInv, ReplTypes, ReplLeave, Mains, ReplAts
<1>2. /\ ed' \in Editors /\ ed'.busy = ed.busy /\ ed'.hidden = ed.hidden /\ ed'.open = ed.open
  BY DEF ReplInv, ReplTypes, Editors
<1>3. tty' \in Seq(KeyPress) /\ Chars(tty)' \subseteq Chars(tty)
  <2>1. tty \in Seq(KeyPress) /\ <<>> \in Seq(KeyPress)
    BY DEF ReplInv, ReplTypes
  <2> QED BY <2>1, CharsNone
<1>4. ReplTypes' /\ ScreenInv'
  BY <1>1, <1>2, <1>3 DEF ReplInv, ReplTypes, ScreenInv
<1>5. TypedInv'
  BY <1>1, <1>3 DEF ReplInv, TypedInv
<1> QED BY <1>1, <1>4, <1>5 DEF ReplInv, TalkInv

LEMMA TopRepl == ASSUME ReplInv, ReplTop PROVE ReplInv'
<1>0. /\ tty \in Seq(KeyPress) /\ rq \in Seq(SUBSET Nat) /\ main \in Mains /\ ed \in Editors
      /\ main.at = "top" /\ UNCHANGED <<scr, talk>> /\ ed.buf = {}
  BY DEF ReplInv, ReplTypes, ReplTop, TypedInv
<1>d. /\ acct \in Accounts /\ ~acct.lost /\ acct.due = {} /\ acct.due \cap Chars(tty) = {}
      /\ acct.keys \in Nat
  BY <1>0, NothingDue
<1>1. CASE main.intr /\ ReplLeave(FALSE) /\ UNCHANGED <<ed, tty, rq, acct>>
  <2>1. Sound(talk')
    BY <1>0 DEF ReplInv, TalkInv
  <2> QED BY <1>0, <1>1, <1>d, <2>1, LeaveRepl
<1>2. CASE /\ ~main.intr /\ rq # <<>>
           /\ main' = [main EXCEPT !.at = "line", !.line = Head(rq)]
           /\ rq' = Tail(rq) /\ UNCHANGED <<ed, tty, acct>>
  <2>1. Head(rq) \in SUBSET Nat /\ rq' \in Seq(SUBSET Nat)
    BY <1>0, <1>2
  <2>2. main' \in Mains /\ main'.at = "line" /\ main'.line = Head(rq)
    BY <1>0, <1>2, <2>1 DEF Mains, ReplAts
  <2>3. \A c \in Texts(rq) : c \in main'.line \/ c \in Texts(rq')
    BY <1>0, <1>2, <2>2, TextsHead
  <2>e. main.line = {}
    BY <1>0 DEF ReplInv, TypedInv
  <2>4. Placed'
    BY <1>0, <1>2, <2>3, <2>e DEF ReplInv, TypedInv, Placed
  <2> QED BY <1>0, <1>2, <1>d, <2>1, <2>2, <2>4 DEF ReplInv, ReplTypes, ScreenInv, TypedInv, TalkInv
<1>3. CASE /\ ~main.intr /\ rq = <<>> /\ ReplGoto("read")
           /\ ed' = [ed EXCEPT !.buf = Fits(ed.restore), !.restore = {}]
           /\ tty' = <<>> /\ acct' = Carried(acct) /\ UNCHANGED rq
  <2>1. main' \in Mains /\ main'.at = "read" /\ main'.line = main.line
    BY <1>0, <1>3 DEF ReplGoto, Mains, ReplAts
  <2>2. /\ ed' \in Editors /\ ed'.busy = ed.busy /\ ed'.hidden = ed.hidden /\ ed'.open = ed.open
        /\ ed'.buf = Fits(ed.restore)
    BY <1>0, <1>3, FitsIn DEF Editors
  <2>3. /\ acct' \in Accounts /\ acct'.due = {} /\ ~acct'.lost
        /\ acct'.chars = (acct.chars \ Chars(tty)) \ (ed.restore \ Fits(ed.restore))
    BY <1>3, <1>d, CarriedIs
  <2>4. Placed'
    BY <1>0, <1>3, <2>1, <2>2, <2>3 DEF ReplInv, TypedInv, Placed
  <2>5. tty' \in Seq(KeyPress) /\ Chars(tty)' = {}
    BY <1>3, CharsNone
  <2> QED BY <1>0, <1>3, <2>1, <2>2, <2>3, <2>4, <2>5
             DEF ReplInv, ReplTypes, ScreenInv, TypedInv, TalkInv
<1> QED BY <1>1, <1>2, <1>3 DEF ReplTop

LEMMA TtyTail ==
  ASSUME ReplInv, tty # <<>>
  PROVE  /\ Head(tty) \in KeyPress /\ Tail(tty) \in Seq(KeyPress)
         /\ Chars(Tail(tty)) \subseteq Chars(tty) /\ Chars(tty) \subseteq Nat
         /\ \A c \in Chars(tty) :
              c \in Chars(Tail(tty)) \/ (Head(tty).k = "char" /\ c = Head(tty).id)
<1>1. tty \in Seq(KeyPress) /\ Head(tty) \in KeyPress /\ Tail(tty) \in Seq(KeyPress)
  BY DEF ReplInv, ReplTypes
<1> QED BY <1>1, CharsType, CharsHead

LEMMA ReadRepl == ASSUME ReplInv, ReplRead PROVE ReplInv'
<1>0. /\ tty \in Seq(KeyPress) /\ rq \in Seq(SUBSET Nat) /\ main \in Mains /\ ed \in Editors
      /\ main.at = "read" /\ UNCHANGED <<scr, rq, talk>> /\ main.line = {}
      /\ Sound(talk) /\ Closed(talk) /\ ed.buf \in SUBSET Nat
  BY DEF ReplInv, ReplTypes, ReplRead, TypedInv, TalkInv, Editors
<1>d. /\ acct \in Accounts /\ ~acct.lost /\ acct.due = {} /\ acct.due \cap Chars(tty) = {}
      /\ acct.keys \in Nat
  BY <1>0, NothingDue
<1> DEFINE k == Head(tty)
<1>f. /\ Flushed(acct) \in Accounts /\ Flushed(acct).keys = acct.keys
      /\ Flushed(acct).chars = acct.chars \ Chars(tty)
      /\ Flushed(acct).due = {} /\ ~Flushed(acct).lost
  BY <1>d, FlushedIs
<1>n. tty' = <<>> => tty' \in Seq(KeyPress) /\ Chars(tty)' = {}
  BY CharsNone
<1>1. CASE ReplLeave(FALSE) /\ ed' = [ed EXCEPT !.buf = {}] /\ UNCHANGED <<tty, acct>>
  BY <1>0, <1>1, <1>d, LeaveRepl
<1>2. CASE ReplLeave(TRUE) /\ UNCHANGED <<ed, tty, acct>>
  BY <1>0, <1>2, <1>d, LeaveRepl
<1>3. CASE /\ tty # <<>> /\ k.k = "char" /\ ed' = [ed EXCEPT !.buf = @ \union {k.id}]
           /\ tty' = Tail(tty) /\ UNCHANGED <<main, acct>>
  <2>1. /\ k.id \in Nat /\ tty' \in Seq(KeyPress) /\ Chars(tty)' \subseteq Chars(tty)
        /\ \A c \in Chars(tty) : c \in Chars(tty)' \/ c = k.id
    BY <1>3, TtyTail DEF KeyPress
  <2>2. /\ ed' \in Editors /\ ed'.busy = ed.busy /\ ed'.hidden = ed.hidden /\ ed'.open = ed.open
        /\ ed'.buf = ed.buf \cup {k.id} /\ ed'.restore = ed.restore
    BY <1>0, <1>3, <2>1 DEF Editors
  <2>3. TypedInv'
    BY <1>0, <1>3, <1>d, <2>1, <2>2 DEF ReplInv, TypedInv, Placed
  <2> QED BY <1>0, <1>3, <2>1, <2>2, <2>3 DEF ReplInv, ReplTypes, ScreenInv, TalkInv
<1>4. CASE /\ main' = [main EXCEPT !.at = IF ed.buf = {} THEN "top" ELSE "line",
                                   !.line = ed.buf]
           /\ ed' = [ed EXCEPT !.buf = {}] /\ tty' = <<>> /\ acct' = Flushed(acct)
  <2>1. /\ main' \in Mains /\ main'.at = (IF ed.buf = {} THEN "top" ELSE "line")
        /\ main'.line = ed.buf
    BY <1>0, <1>4 DEF Mains, ReplAts
  <2>2. /\ ed' \in Editors /\ ed'.busy = ed.busy /\ ed'.hidden = ed.hidden /\ ed'.open = ed.open
        /\ ed'.buf = {} /\ ed'.restore = ed.restore
    BY <1>0, <1>4 DEF Editors
  <2>3. TypedInv'
    BY <1>0, <1>4, <1>f, <1>n, <2>1, <2>2 DEF ReplInv, TypedInv, Placed
  <2> QED BY <1>0, <1>4, <1>f, <1>n, <2>1, <2>2, <2>3 DEF ReplInv, ReplTypes, ScreenInv, TalkInv
<1>5. CASE /\ ReplGoto("top") /\ ed' = [ed EXCEPT !.buf = {}] /\ tty' = <<>>
           /\ acct' = Accounted(Flushed(acct), ed.buf)
  <2>1. main' \in Mains /\ main'.at = "top" /\ main'.line = {}
    BY <1>0, <1>5 DEF ReplGoto, Mains, ReplAts
  <2>2. /\ ed' \in Editors /\ ed'.busy = ed.busy /\ ed'.hidden = ed.hidden /\ ed'.open = ed.open
        /\ ed'.buf = {} /\ ed'.restore = ed.restore
    BY <1>0, <1>5 DEF Editors
  <2>a. /\ acct' \in Accounts /\ acct'.chars = (acct.chars \ Chars(tty)) \ ed.buf
        /\ acct'.due = {} /\ ~acct'.lost
    BY <1>5, <1>f, AccountedIs
  <2>3. TypedInv'
    BY <1>0, <1>5, <1>n, <2>1, <2>2, <2>a DEF ReplInv, TypedInv, Placed
  <2> QED BY <1>0, <1>5, <1>n, <2>1, <2>2, <2>3, <2>a DEF ReplInv, ReplTypes, ScreenInv, TalkInv
<1>6. CASE /\ tty # <<>> /\ k.k = "ctrlD" /\ tty' = Tail(tty) /\ UNCHANGED <<ed, main, acct>>
  <2>1. /\ tty' \in Seq(KeyPress) /\ Chars(tty)' \subseteq Chars(tty)
        /\ \A c \in Chars(tty) : c \in Chars(tty)'
    BY <1>6, TtyTail
  <2>2. TypedInv'
    BY <1>0, <1>6, <2>1 DEF ReplInv, TypedInv, Placed
  <2> QED BY <1>0, <1>6, <2>1, <2>2 DEF ReplInv, ReplTypes, ScreenInv, TalkInv
<1> QED BY <1>1, <1>2, <1>3, <1>4, <1>5, <1>6 DEF ReplRead

(* A transcript that compaction has cut. *)
LEMMA CompactionsSound ==
  ASSUME NEW s, Sound(s), NEW u \in Compactions(s)
  PROVE  /\ Sound(u) /\ Len(u) % 2 = Len(s) % 2 /\ u[Len(u)] = s[Len(s)]
         /\ Closed(s) => Closed(u)
<1>1. PICK c \in 3..Len(s) :
        IsRoot(s, c) /\ u = CutAway(s, c)
  BY DEF Compactions, IsRoot, CutAway
<1> QED BY <1>1, CutSound

LEMMA NewSound == Sound(<<"system">>) /\ Closed(<<"system">>)
  BY DEF Sound, Closed, Message

LEMMA CommandRepl == ASSUME ReplInv, ReplCommand PROVE ReplInv'
<1>0. /\ main.at = "line" /\ acct' = Accounted(acct, main.line) /\ UNCHANGED <<ed, scr, tty, rq>>
      /\ main \in Mains /\ Sound(talk) /\ Closed(talk)
  BY DEF ReplInv, ReplTypes, ReplCommand, TalkInv
<1>d. acct \in Accounts /\ ~acct.lost /\ acct.due = {}
  BY <1>0, NothingDue
<1>a. /\ acct' \in Accounts /\ acct'.keys = acct.keys /\ acct'.chars = acct.chars \ main.line
      /\ acct'.due = {} /\ ~acct'.lost
  BY <1>0, <1>d, AccountedIs
<1>t. Sound(talk') /\ Closed(talk')
  <2>1. talk' = talk \/ talk' = <<"system">> \/ talk' \in Compactions(talk)
    BY DEF ReplCommand
  <2> QED BY <1>0, <2>1, NewSound, CompactionsSound
<1>1. CASE \E good \in BOOLEAN : ReplLeave(good)
  BY <1>0, <1>1, <1>a, <1>t, LeaveRepl
<1>2. CASE main' = [main EXCEPT !.at = "top", !.line = {}]
  <2>1. main' \in Mains /\ main'.at = "top" /\ main'.line = {}
    BY <1>0, <1>2 DEF Mains, ReplAts
  <2>2. TypedInv'
    BY <1>0, <1>a, <2>1 DEF ReplInv, TypedInv, Placed
  <2> QED BY <1>0, <1>a, <1>t, <2>1, <2>2 DEF ReplInv, ReplTypes, ScreenInv, TalkInv
<1> QED BY <1>1, <1>2 DEF ReplCommand

LEMMA RunRepl == ASSUME ReplInv, ReplRun PROVE ReplInv'
<1>0. /\ main.at = "line" /\ main \in Mains /\ ed \in Editors /\ Sound(talk) /\ Closed(talk)
      /\ UNCHANGED <<scr, rq>> /\ tty' = <<>> /\ ed.buf = {}
      /\ ed' = [ed EXCEPT !.busy = TRUE, !.hidden = FALSE, !.open = FALSE,
                          !.buf = Fits(ed.restore), !.restore = {}]
      /\ acct' = Accounted(Carried(acct), main.line)
  BY DEF ReplInv, ReplTypes, ReplRun, BeginBusy, TalkInv, TypedInv
<1>w. PICK what \in {"turn", "tool"} :
        /\ main' = [main EXCEPT !.at = "busy", !.run = what, !.line = {}]
        /\ talk' = IF what = "turn" THEN Append(talk, "user") ELSE talk
  BY DEF ReplRun
<1>m. main' \in Mains /\ main'.at = "busy" /\ main'.run = what /\ main'.line = {}
  BY <1>0, <1>w DEF Mains, ReplAts
<1>d. acct \in Accounts /\ ~acct.lost /\ acct.due = {} /\ acct.due \cap Chars(tty) = {}
  BY <1>0, NothingDue
<1>a. /\ acct' \in Accounts /\ acct'.due = {} /\ ~acct'.lost
      /\ acct'.chars = ((acct.chars \ Chars(tty)) \ (ed.restore \ Fits(ed.restore))) \ main.line
  BY <1>0, <1>d, CarriedIs, AccountedIs
<1>e. /\ ed' \in Editors /\ ed'.busy /\ ~ed'.hidden /\ ~ed'.open /\ ed'.buf = Fits(ed.restore)
  BY <1>0, FitsIn DEF Editors
<1>t. tty' \in Seq(KeyPress) /\ Chars(tty)' = {}
  BY <1>0, CharsNone
<1>s. ScreenInv'
  <2>1. ~ed.hidden
    BY <1>0 DEF ReplInv, ScreenInv
  <2> QED BY <1>0, <1>e, <1>m, <2>1 DEF ReplInv, ScreenInv, Editors
<1>p. TypedInv'
  BY <1>0, <1>a, <1>e, <1>m, <1>t DEF ReplInv, TypedInv, Placed
<1>k. TalkInv'
  <2>1. CASE what = "tool"
    BY <1>0, <1>w, <2>1 DEF TalkInv
  <2>2. CASE what = "turn"
    <3>1. Len(talk) % 2 = 1 /\ talk[Len(talk)] # "call"
      BY <1>0, ClosedSound
    <3>2. Sound(Append(talk, "user"))
      BY <1>0, <3>1, SoundAppend DEF Message, Assistant
    <3> QED BY <1>m, <1>w, <2>2, <3>2 DEF TalkInv
  <2> QED BY <2>1, <2>2
<1> QED BY <1>0, <1>a, <1>e, <1>m, <1>t, <1>s, <1>p, <1>k DEF ReplInv, ReplTypes

LEMMA CannotRunRepl == ASSUME ReplInv, ReplCannotRun PROVE ReplInv'
<1>0. /\ main.at = "line" /\ main \in Mains /\ Sound(talk)
      /\ UNCHANGED <<ed, scr, rq, talk>> /\ tty' = <<>>
      /\ acct' = Accounted(Flushed(acct), main.line)
  BY DEF ReplInv, ReplTypes, ReplCannotRun, TalkInv
<1>d. acct \in Accounts /\ ~acct.lost /\ acct.due = {} /\ acct.due \cap Chars(tty) = {}
  BY <1>0, NothingDue
<1>a. /\ acct' \in Accounts /\ acct'.due = {} /\ ~acct'.lost /\ acct'.keys = acct.keys
      /\ acct'.chars = (acct.chars \ Chars(tty)) \ main.line
  BY <1>0, <1>d, FlushedIs, AccountedIs
<1>t. tty' \in Seq(KeyPress) /\ Chars(tty)' = {}
  BY <1>0, CharsNone
<1>1. CASE ReplLeave(FALSE)
  BY <1>0, <1>1, <1>a, LeaveRepl
<1>2. CASE main' = [main EXCEPT !.at = "settle", !.run = "turn", !.ok = FALSE, !.line = {}]
  <2>1. /\ main' \in Mains /\ main'.at = "settle" /\ main'.run = "turn" /\ ~main'.ok
        /\ main'.line = {}
    BY <1>0, <1>2 DEF Mains, ReplAts
  <2>2. TypedInv'
    BY <1>0, <1>a, <1>t, <2>1 DEF ReplInv, TypedInv, Placed
  <2> QED BY <1>0, <1>a, <1>t, <2>1, <2>2 DEF ReplInv, ReplTypes, ScreenInv, TalkInv
<1> QED BY <1>1, <1>2 DEF ReplCannotRun

(* The prompt is shown on a row of its own. *)
LEMMA Shown ==
  ASSUME ReplInv
  PROVE  /\ ShowPrompt(ed, scr).e = [ed EXCEPT !.hidden = FALSE, !.open = FALSE]
         /\ ShowPrompt(ed, scr).s \in Screens
         /\ ~ShowPrompt(ed, scr).s.erased /\ ShowPrompt(ed, scr).s.row = "clean"
<1>1. ed \in Editors /\ scr \in Screens /\ ed.hidden = ed.open /\ ~scr.erased
  BY DEF ReplInv, ReplTypes, ScreenInv
<1>2. CASE ed.hidden
  BY <1>1, <1>2 DEF Editors, Screens, ShowPrompt, NewRow
<1>3. CASE ~ed.hidden
  <2>1. scr.row = "clean" /\ ed.hidden = FALSE /\ ed.open = FALSE
    BY <1>1, <1>3 DEF ReplInv, ScreenInv, Editors
  <2>2. ed = [ed EXCEPT !.hidden = FALSE, !.open = FALSE]
    BY <1>1, <2>1 DEF Editors
  <2> QED BY <1>1, <1>3, <2>1, <2>2 DEF ShowPrompt
<1> QED BY <1>2, <1>3

(* What a pump does while the session is busy or ends: whatever the key    *)
(* was, its character and the line it ends are still somewhere.            *)
Pumped ==
  /\ ed' \in Editors /\ scr' \in Screens
  /\ tty' \in Seq(KeyPress) /\ rq' \in Seq(SUBSET Nat) /\ acct' \in Accounts
  /\ ed'.busy = ed.busy /\ ed'.hidden = ed'.open /\ (ed'.hidden => ed'.busy)
  /\ ~scr'.erased /\ (~ed'.hidden => scr'.row = "clean")
  /\ acct'.keys = acct.keys /\ acct'.due = acct.due /\ acct'.lost = acct.lost
  /\ Chars(tty') \subseteq Chars(tty)
  /\ main'.line = main.line /\ Placed'

LEMMA KeyTaken ==
  ASSUME ReplInv, main.at \in {"busy", "ending"}, tty # <<>>, PumpKey, main'.line = main.line
  PROVE  Pumped
<1> DEFINE k == Head(tty)
           e0 == [ed EXCEPT !.hidden = FALSE, !.open = FALSE]
<1>0. /\ k \in KeyPress /\ tty' = Tail(tty) /\ tty' \in Seq(KeyPress)
      /\ Chars(tty') \subseteq Chars(tty)
      /\ \A c \in Chars(tty) : c \in Chars(tty') \/ (k.k = "char" /\ c = k.id)
  BY TtyTail DEF PumpKey
<1>1. /\ ShowPrompt(ed, scr).e = e0 /\ scr' \in Screens /\ ~scr'.erased /\ scr'.row = "clean"
  BY Shown DEF PumpKey
<1>2. /\ ed \in Editors /\ acct \in Accounts /\ rq \in Seq(SUBSET Nat) /\ ed.buf \in SUBSET Nat
      /\ Placed
  BY DEF ReplInv, ReplTypes, Editors, TypedInv
<1>3. CASE k.k = "char"
  <2>1. ed' = [e0 EXCEPT !.buf = @ \union {k.id}] /\ rq' = rq /\ acct' = acct
    BY <1>1, <1>3 DEF PumpKey
  <2>2. /\ ed' \in Editors /\ ed'.busy = ed.busy /\ ~ed'.hidden /\ ~ed'.open
        /\ ed'.buf = ed.buf \cup {k.id} /\ ed'.restore = ed.restore
    BY <1>0, <1>2, <2>1 DEF Editors, KeyPress
  <2>3. Placed'
    BY <1>0, <1>2, <2>1, <2>2 DEF Placed
  <2> QED BY <1>0, <1>1, <1>2, <2>1, <2>2, <2>3 DEF Pumped, Editors
<1>4. CASE k.k = "enter"
  <2>1. ed' = [e0 EXCEPT !.buf = {}] /\ PushLine(ed.buf)
    BY <1>1, <1>4 DEF PumpKey
  <2>2. /\ ed' \in Editors /\ ed'.busy = ed.busy /\ ~ed'.hidden /\ ~ed'.open
        /\ ed'.buf = {} /\ ed'.restore = ed.restore
    BY <1>2, <2>1 DEF Editors
  <2>3. /\ rq' \in Seq(SUBSET Nat) /\ Texts(rq) \subseteq Texts(rq')
        /\ acct' \in Accounts /\ acct'.keys = acct.keys
        /\ acct'.due = acct.due /\ acct'.lost = acct.lost
        /\ \A c \in acct'.chars : c \in acct.chars /\ (c \in ed.buf => c \in Texts(rq'))
    <3>1. CASE ed.buf = {}
      BY <1>2, <2>1, <3>1 DEF PushLine
    <3>2. CASE ed.buf # {} /\ Len(rq) < ReplQueueMax
      <4>1. rq' = Append(rq, ed.buf) /\ acct' = acct
        BY <2>1, <3>2 DEF PushLine
      <4>2. Append(rq, ed.buf) \in Seq(SUBSET Nat)
        BY <1>2
      <4> QED BY <1>2, <4>1, <4>2, TextsAppend
    <3>3. CASE ed.buf # {} /\ ~(Len(rq) < ReplQueueMax)
      <4>1. rq' = rq /\ acct' = Accounted(acct, ed.buf)
        BY <2>1, <3>3 DEF PushLine
      <4> QED BY <1>2, <4>1, AccountedIs
    <3> QED BY <3>1, <3>2, <3>3
  <2>4. Placed'
    BY <1>0, <1>2, <1>4, <2>2, <2>3 DEF Placed
  <2> QED BY <1>0, <1>1, <2>2, <2>3, <2>4 DEF Pumped, Editors
<1>5. CASE k.k \notin {"char", "enter"}
  <2>1. ed' = e0 /\ rq' = rq /\ acct' = acct
    BY <1>1, <1>5 DEF PumpKey
  <2>2. /\ ed' \in Editors /\ ed'.busy = ed.busy /\ ~ed'.hidden /\ ~ed'.open
        /\ ed'.buf = ed.buf /\ ed'.restore = ed.restore
    BY <1>2, <2>1 DEF Editors
  <2>3. Placed'
    BY <1>0, <1>2, <1>5, <2>1, <2>2 DEF Placed
  <2> QED BY <1>0, <1>1, <1>2, <2>1, <2>2, <2>3 DEF Pumped, Editors
<1> QED BY <1>3, <1>4, <1>5

(* Text that a read interrupted is held for the next edit, and what it     *)
(* displaces there is cut.                                                 *)
LEMMA TextHeld ==
  ASSUME ReplInv, main.at \in {"busy", "ending"}, PumpHolds, main'.line = main.line
  PROVE  Pumped
<1> DEFINE e0 == [ed EXCEPT !.hidden = FALSE, !.open = FALSE]
<1>1. /\ ShowPrompt(ed, scr).e = e0 /\ scr' \in Screens /\ ~scr'.erased /\ scr'.row = "clean"
  BY Shown DEF PumpHolds
<1>2. /\ ed \in Editors /\ acct \in Accounts /\ rq \in Seq(SUBSET Nat) /\ tty \in Seq(KeyPress)
      /\ Placed /\ ed.buf \in SUBSET Nat
  BY DEF ReplInv, ReplTypes, TypedInv, Editors
<1>3. /\ ed' = [e0 EXCEPT !.buf = {}, !.restore = ed.buf]
      /\ acct' = Cut(acct, ed.restore) /\ UNCHANGED <<tty, rq>>
  BY <1>1 DEF PumpHolds
<1>4. /\ ed' \in Editors /\ ed'.busy = ed.busy /\ ~ed'.hidden /\ ~ed'.open
      /\ ed'.buf = {} /\ ed'.restore = ed.buf
  BY <1>2, <1>3 DEF Editors
<1>5. /\ acct' \in Accounts /\ acct'.keys = acct.keys /\ acct'.chars = acct.chars \ ed.restore
      /\ acct'.due = acct.due /\ acct'.lost = acct.lost
  BY <1>2, <1>3, CutIs
<1>6. Placed'
  BY <1>2, <1>3, <1>4, <1>5 DEF Placed
<1> QED BY <1>1, <1>2, <1>3, <1>4, <1>5, <1>6 DEF Pumped, Editors

LEMMA FailureTaken ==
  ASSUME ReplInv, main.at \in {"busy", "ending"}, NEW told \in BOOLEAN, PumpFails(told),
         main'.line = main.line
  PROVE  Pumped
<1> DEFINE e0 == [ed EXCEPT !.hidden = FALSE, !.open = FALSE]
<1>2. /\ ed \in Editors /\ acct \in Accounts /\ rq \in Seq(SUBSET Nat) /\ tty \in Seq(KeyPress)
      /\ Placed /\ scr \in Screens
  BY DEF ReplInv, ReplTypes, TypedInv
<1>3. CASE UNCHANGED <<ed, scr, tty, rq, acct>>
  <2>1. Placed'
    BY <1>2, <1>3 DEF Placed
  <2> QED BY <1>2, <1>3, <2>1 DEF Pumped, ReplInv, ScreenInv
<1>4. CASE PumpHolds
  BY <1>4, TextHeld
<1>5. CASE /\ tty # <<>> /\ Head(tty).k = "enter"
           /\ ed' = [ShowPrompt(ed, scr).e EXCEPT !.buf = {}] /\ scr' = ShowPrompt(ed, scr).s
           /\ tty' = Tail(tty)
           /\ acct' = IF told THEN Accounted(acct, ed.buf) ELSE Cut(acct, ed.buf)
           /\ UNCHANGED rq
  <2>1. scr' \in Screens /\ ~scr'.erased /\ scr'.row = "clean"
    BY <1>5, Shown
  <2>2. /\ ed' \in Editors /\ ed'.busy = ed.busy /\ ~ed'.hidden /\ ~ed'.open
        /\ ed'.buf = {} /\ ed'.restore = ed.restore
    BY <1>2, <1>5, Shown DEF Editors
  <2>3. /\ tty' \in Seq(KeyPress) /\ Chars(tty') \subseteq Chars(tty)
        /\ \A c \in Chars(tty) : c \in Chars(tty')
    BY <1>5, TtyTail
  <2>4. /\ acct' \in Accounts /\ acct'.keys = acct.keys /\ acct'.chars = acct.chars \ ed.buf
        /\ acct'.due = acct.due /\ acct'.lost = acct.lost
    BY <1>2, <1>5, CutIs, AccountedIs
  <2>5. Placed'
    BY <1>2, <1>5, <2>2, <2>3, <2>4 DEF Placed
  <2> QED BY <1>2, <1>5, <2>1, <2>2, <2>3, <2>4, <2>5 DEF Pumped, Editors
<1> QED BY <1>3, <1>4, <1>5 DEF PumpFails

LEMMA PumpedRepl ==
  ASSUME ReplInv, main.at \in {"busy", "ending"}, Pumped, UNCHANGED talk,
         main' \in Mains, main'.at = main.at, main'.run = main.run, main'.ok = main.ok
  PROVE  ReplInv'
<1>1. ReplTypes' /\ ScreenInv'
  BY DEF Pumped, ReplInv, ReplTypes, ScreenInv
<1>2. TypedInv'
  BY DEF Pumped, ReplInv, TypedInv
<1> QED BY <1>1, <1>2 DEF ReplInv, TalkInv

LEMMA PumpRepl == ASSUME ReplInv, ReplPump PROVE ReplInv'
<1>0. main.at = "busy" /\ main \in Mains /\ UNCHANGED talk
  BY DEF ReplPump, ReplInv, ReplTypes
<1>1. CASE main' = [main EXCEPT !.pipe = FALSE] /\ UNCHANGED <<ed, scr, tty, rq, acct>>
  <2>1. main' \in Mains /\ main'.at = main.at /\ main'.run = main.run /\ main'.ok = main.ok
        /\ main'.line = main.line
    BY <1>0, <1>1 DEF Mains
  <2> QED BY <1>0, <1>1, <2>1 DEF ReplInv, ReplTypes, ScreenInv, TypedInv, Placed, TalkInv
<1>2. CASE main' \in {main, SoftInterrupt(main)}
  <2>1. main' \in Mains /\ main'.at = main.at /\ main'.run = main.run /\ main'.ok = main.ok
        /\ main'.line = main.line
    <3>1. main' = main \/ main' = [main EXCEPT !.intr = TRUE, !.last = "int", !.pipe = TRUE]
      BY <1>2 DEF SoftInterrupt
    <3> QED BY <1>0, <3>1 DEF Mains
  <2>2. CASE tty # <<>> /\ PumpKey
    BY <1>0, <2>1, <2>2, KeyTaken, PumpedRepl
  <2>3. CASE PumpHolds
    BY <1>0, <2>1, <2>3, TextHeld, PumpedRepl
  <2>4. CASE PumpFails(TRUE)
    BY <1>0, <2>1, <2>4, FailureTaken, PumpedRepl
  <2>5. CASE UNCHANGED <<ed, scr, tty, rq, acct>>
    BY <1>0, <2>1, <2>5 DEF ReplInv, ReplTypes, ScreenInv, TypedInv, Placed, TalkInv
  <2> QED BY <2>2, <2>3, <2>4, <2>5 DEF ReplPump
<1> QED BY <1>1, <1>2 DEF ReplPump

LEMMA WritesRepl == ASSUME ReplInv, ReplWrites PROVE ReplInv'
<1>b. ed.busy
  BY DEF ReplInv, ScreenInv, ReplWrites
<1>2. /\ ed' \in Editors /\ scr' \in Screens
      /\ ~scr'.erased /\ ed'.hidden = ed'.open /\ ed'.busy = ed.busy
      /\ ~ed'.hidden => scr'.row = "clean"
      /\ ed'.hidden => ed'.busy
      /\ ed'.buf = ed.buf /\ ed'.restore = ed.restore
  <2>1. CASE WriteErr
    BY <2>1 DEF ReplInv, ReplTypes, Editors, Screens, ScreenInv, WriteErr, Hide
  <2>2. ASSUME NEW nl \in BOOLEAN, WriteOut(nl) PROVE <1>2!:
    BY <2>2, <1>b DEF ReplInv, ReplTypes, Editors, Screens, ScreenInv, WriteOut, Hide
  <2> QED BY <2>1, <2>2 DEF ReplWrites
<1>3. UNCHANGED <<tty, rq, main, talk, acct>>
  BY DEF ReplWrites
<1>4. ReplTypes'
  BY <1>2, <1>3 DEF ReplInv, ReplTypes
<1>5. ScreenInv' /\ TalkInv'
  BY <1>2, <1>3 DEF ReplInv, ScreenInv, TalkInv
<1>6. TypedInv'
  BY <1>2, <1>3 DEF ReplInv, TypedInv, Placed
<1> QED BY <1>4, <1>5, <1>6 DEF ReplInv

LEMMA AskedEven ==
  ASSUME NEW s, Sound(s), Asked(s)
  PROVE  Len(s) % 2 = 0 /\ s[Len(s)] # "call"
<1>1. Len(s) \in Nat /\ Len(s) >= 1 /\ s[1] = "system" /\ s[Len(s)] \in {"user", "response"}
  BY DEF Sound, Asked
<1>2. Len(s) \in 2..Len(s) /\ ~Assistant(s[Len(s)])
  BY <1>1 DEF Assistant
<1>3. ~(Len(s) % 2 = 1)
  BY <1>2 DEF Sound
<1> QED BY <1>1, <1>3

LEMMA RecordsRepl == ASSUME ReplInv, ReplRecords PROVE ReplInv'
<1>0. /\ main.at = "busy" /\ main.run = "turn" /\ UNCHANGED <<ed, scr, tty, rq, main, acct>>
      /\ Sound(talk)
  BY DEF ReplInv, TalkInv, ReplRecords
<1>1. Sound(talk')
  <2>1. CASE Asked(talk) /\ talk' = Append(talk, "call")
    BY <1>0, <2>1, AskedEven, SoundAppend DEF Message, Assistant
  <2>2. CASE talk' \in Compactions(talk)
    BY <1>0, <2>2, CompactionsSound
  <2>3. CASE talk[Len(talk)] = "call" /\ talk' = Append(talk, "response")
    <3>1. Len(talk) \in 2..Len(talk)
      BY <1>0, <2>3 DEF Sound
    <3>2. Len(talk) % 2 = 1
      BY <1>0, <2>3, <3>1 DEF Sound, Assistant
    <3> QED BY <1>0, <2>3, <3>2, SoundAppend DEF Message, Assistant
  <2> QED BY <2>1, <2>2, <2>3 DEF ReplRecords
<1> QED BY <1>0, <1>1 DEF ReplInv, ReplTypes, ScreenInv, TypedInv, Placed, TalkInv

LEMMA DoneRepl == ASSUME ReplInv, NEW good \in BOOLEAN, ReplDone(good) PROVE ReplInv'
<1>0. /\ main.at = "busy" /\ main \in Mains /\ Sound(talk) /\ UNCHANGED <<ed, scr, tty, rq>>
      /\ main' = [main EXCEPT !.at = "ending", !.ok = good]
      /\ acct' = [acct EXCEPT !.due = @ \union Chars(tty)] /\ acct \in Accounts
      /\ Chars(tty) \subseteq Nat
  BY CharsType DEF ReplInv, ReplTypes, TalkInv, ReplDone
<1>m. /\ main' \in Mains /\ main'.at = "ending" /\ main'.run = main.run /\ main'.ok = good
      /\ main'.line = main.line
  BY <1>0 DEF Mains, ReplAts
<1>a. /\ acct' \in Accounts /\ acct'.keys = acct.keys /\ acct'.chars = acct.chars
      /\ acct'.lost = acct.lost /\ acct'.due = acct.due \cup Chars(tty)
  BY <1>0 DEF Accounts
<1>1. TypedInv'
  BY <1>0, <1>m, <1>a DEF ReplInv, TypedInv, Placed
<1>2. TalkInv'
  <2>1. CASE (main.run = "tool" \/ ~good) /\ UNCHANGED talk
    BY <1>0, <1>m, <2>1 DEF ReplInv, TalkInv
  <2>2. CASE Asked(talk) /\ talk' = Append(talk, "answer")
    <3>1. Len(talk) % 2 = 0 /\ talk[Len(talk)] # "call"
      BY <1>0, <2>2, AskedEven
    <3>2. Sound(talk') /\ Len(talk') = Len(talk) + 1 /\ talk'[Len(talk) + 1] = "answer"
      BY <1>0, <2>2, <3>1, SoundAppend DEF Message, Assistant
    <3>3. Len(talk) \in Nat
      BY <1>0 DEF Sound
    <3>4. Closed(talk')
      BY <3>1, <3>2, <3>3, ClosedSound
    <3> QED BY <3>2, <3>4 DEF TalkInv
  <2> QED BY <2>1, <2>2 DEF ReplDone
<1> QED BY <1>0, <1>m, <1>a, <1>1, <1>2 DEF ReplInv, ReplTypes, ScreenInv

LEMMA EndPumpRepl == ASSUME ReplInv, EndPump PROVE ReplInv'
<1>0. main.at = "ending" /\ main \in Mains /\ UNCHANGED talk /\ main.spins + 1 \in Nat
  BY DEF EndPump, ReplInv, ReplTypes, Mains
<1>1. PICK p \in BOOLEAN, b \in BOOLEAN, n \in Nat :
        main' = [main EXCEPT !.pipe = p, !.cut = b, !.spins = n]
  <2>1. CASE main' = [main EXCEPT !.pipe = FALSE, !.cut = TRUE]
    BY <1>0, <2>1 DEF Mains
  <2>2. CASE main' = [main EXCEPT !.cut = (Head(tty).k = "ctrlC"), !.spins = @ + 1]
    <3>1. PICK b \in BOOLEAN : b = (Head(tty).k = "ctrlC")
      OBVIOUS
    <3>2. main' = [main EXCEPT !.pipe = main.pipe, !.cut = b, !.spins = main.spins + 1]
      BY <1>0, <2>2, <3>1 DEF Mains
    <3>3. main.pipe \in BOOLEAN
      BY <1>0 DEF Mains
    <3> QED BY <1>0, <3>2, <3>3
  <2>3. CASE main' = [main EXCEPT !.spins = @ + 1]
    <3>2. main' = [main EXCEPT !.pipe = main.pipe, !.cut = main.cut, !.spins = main.spins + 1]
      BY <1>0, <2>3 DEF Mains
    <3>3. main.pipe \in BOOLEAN /\ main.cut \in BOOLEAN
      BY <1>0 DEF Mains
    <3> QED BY <1>0, <3>2, <3>3
  <2>4. CASE main' = [main EXCEPT !.cut = TRUE]
    <3>2. main' = [main EXCEPT !.pipe = main.pipe, !.cut = TRUE, !.spins = main.spins]
      BY <1>0, <2>4 DEF Mains
    <3>3. main.pipe \in BOOLEAN /\ main.spins \in Nat
      BY <1>0 DEF Mains
    <3> QED BY <3>2, <3>3
  <2> QED BY <2>1, <2>2, <2>3, <2>4 DEF EndPump
<1>2. main' \in Mains /\ main'.at = main.at /\ main'.run = main.run /\ main'.ok = main.ok
      /\ main'.line = main.line
  BY <1>0, <1>1 DEF Mains
<1>3. CASE UNCHANGED <<ed, scr, tty, rq, acct>>
  BY <1>0, <1>2, <1>3 DEF ReplInv, ReplTypes, ScreenInv, TypedInv, Placed, TalkInv
<1>4. CASE tty # <<>> /\ PumpKey
  BY <1>0, <1>2, <1>4, KeyTaken, PumpedRepl
<1>5. CASE PumpHolds
  BY <1>0, <1>2, <1>5, TextHeld, PumpedRepl
<1>6. CASE PumpFails(FALSE)
  BY <1>0, <1>2, <1>6, FailureTaken, PumpedRepl
<1> QED BY <1>3, <1>4, <1>5, <1>6 DEF EndPump

LEMMA DrainEndsRepl == ASSUME ReplInv, DrainEnds PROVE ReplInv'
<1>0. /\ main.at = "ending" /\ main \in Mains /\ UNCHANGED <<ed, scr, tty, rq, talk>>
      /\ main' = [main EXCEPT !.at = "stopping", !.cut = FALSE, !.spins = 0]
      /\ acct \in Accounts
  BY DEF DrainEnds, ReplInv, ReplTypes
<1>m. /\ main' \in Mains /\ main'.at = "stopping" /\ main'.run = main.run /\ main'.ok = main.ok
      /\ main'.line = main.line
  BY <1>0 DEF Mains, ReplAts
<1>a. /\ acct' \in Accounts /\ acct'.keys = acct.keys /\ acct'.chars = acct.chars
      /\ acct'.lost = acct.lost /\ acct'.due \subseteq acct.due
      /\ acct'.due \cap Chars(tty) = {}
  <2>1. CASE tty = <<>> /\ UNCHANGED acct
    BY <1>0, <2>1, CharsNone
  <2>2. CASE acct' = [acct EXCEPT !.due = @ \ Chars(tty)]
    BY <1>0, <2>2 DEF Accounts
  <2> QED BY <2>1, <2>2 DEF DrainEnds
<1>1. TypedInv'
  BY <1>0, <1>m, <1>a DEF ReplInv, TypedInv, Placed
<1> QED BY <1>0, <1>m, <1>a, <1>1 DEF ReplInv, ReplTypes, ScreenInv, TalkInv

LEMMA EndStopRepl == ASSUME ReplInv, EndStop PROVE ReplInv'
<1>0. /\ main.at = "stopping" /\ main \in Mains /\ ed \in Editors /\ scr \in Screens
      /\ UNCHANGED <<rq, talk>> /\ tty' = <<>> /\ acct' = Flushed(acct)
      /\ ed' = [ed EXCEPT !.busy = FALSE, !.hidden = FALSE, !.open = FALSE,
                          !.restore = @ \union ed.buf, !.buf = {}]
      /\ acct \in Accounts /\ ~acct.lost /\ acct.due \cap Chars(tty) = {}
  BY DEF EndStop, ReplInv, ReplTypes, TypedInv
<1>m. /\ main' \in Mains /\ main'.at = "settle" /\ main'.run = main.run /\ main'.ok = main.ok
      /\ main'.line = main.line
  BY <1>0 DEF Mains, ReplAts, EndStop, ReplGoto
<1>a. /\ acct' \in Accounts /\ acct'.chars = acct.chars \ Chars(tty)
      /\ acct'.due = {} /\ ~acct'.lost
  BY <1>0, FlushedIs
<1>e. /\ ed' \in Editors /\ ~ed'.busy /\ ~ed'.hidden /\ ~ed'.open
      /\ ed'.buf = {} /\ ed'.restore = ed.restore \cup ed.buf
  BY <1>0 DEF Editors
<1>t. tty' \in Seq(KeyPress) /\ Chars(tty)' = {}
  BY <1>0, CharsNone
<1>s. scr' \in Screens /\ ~scr'.erased /\ scr'.row = "clean"
  BY <1>0 DEF ReplInv, ScreenInv, Screens, EndStop, NewRow, Hide
<1>1. TypedInv'
  BY <1>0, <1>m, <1>a, <1>e, <1>t DEF ReplInv, TypedInv, Placed
<1>2. ScreenInv'
  BY <1>m, <1>e, <1>s DEF ScreenInv, Editors
<1> QED BY <1>0, <1>m, <1>a, <1>e, <1>t, <1>s, <1>1, <1>2 DEF ReplInv, ReplTypes, TalkInv

(* The interactive loop closes a turn that was cut short as the machine    *)
(* protocol does.                                                          *)
LEMMA CloseTurnCloses ==
  ASSUME NEW s, Sound(s)
  PROVE  Sound(CloseTurn(s)) /\ Closed(CloseTurn(s))
<1>1. CloseTurn(s) = CloseIncomplete(s)
  BY DEF CloseTurn, CloseIncomplete, IsRoot
<1> QED BY <1>1, CloseIncompleteCloses

LEMMA SettleRepl == ASSUME ReplInv, ReplSettle PROVE ReplInv'
<1> DEFINE soft == main.intr /\ Acks(main)
           on == [(IF soft THEN Acked(main) ELSE main) EXCEPT !.at = "top", !.run = "none",
                                                               !.ok = TRUE]
<1>0. /\ main.at = "settle" /\ main \in Mains /\ Sound(talk)
      /\ UNCHANGED <<ed, scr, tty, rq, acct>>
  BY DEF ReplSettle, ReplInv, ReplTypes, TalkInv
<1>d. acct \in Accounts /\ ~acct.lost /\ acct.due = {}
  BY <1>0, NothingDue
<1>1. CASE ReplLeave(FALSE) /\ UNCHANGED talk
  BY <1>0, <1>1, <1>d, LeaveRepl
<1>2. CASE main' = on /\ Sound(talk') /\ Closed(talk')
  <2>1. main' \in Mains /\ main'.at = "top" /\ main'.line = main.line
    BY <1>0, <1>2 DEF Mains, ReplAts, Acked
  <2>2. TypedInv'
    BY <1>0, <2>1 DEF ReplInv, TypedInv, Placed
  <2> QED BY <1>0, <1>2, <2>1, <2>2 DEF ReplInv, ReplTypes, ScreenInv, TalkInv
<1>3. \/ ReplLeave(FALSE) /\ UNCHANGED talk
      \/ main' = on /\ main.ok /\ UNCHANGED talk
      \/ main' = on /\ talk' = IF main.run = "turn" THEN CloseTurn(talk) ELSE talk
  BY DEF ReplSettle
<1>4. main.ok \/ main.run # "turn" => Closed(talk)
  BY <1>0 DEF ReplInv, TalkInv
<1> HIDE DEF on
<1>5. \/ ReplLeave(FALSE) /\ UNCHANGED talk
      \/ main' = on /\ Sound(talk') /\ Closed(talk')
  BY <1>0, <1>3, <1>4, CloseTurnCloses
<1> QED BY <1>1, <1>2, <1>5

LEMMA ReplSteps == ASSUME ReplInv, [ReplNext]_replVars PROVE ReplInv'
<1>1. CASE UNCHANGED replVars
  BY <1>1 DEF replVars, ReplInv, ReplTypes, ScreenInv, TypedInv, Placed, TalkInv
<1>2. CASE ReplNext
  BY <1>2, PressRepl, OnSignalRepl, TopRepl, ReadRepl, CommandRepl, RunRepl, CannotRunRepl,
     PumpRepl, WritesRepl, RecordsRepl, DoneRepl, EndPumpRepl, DrainEndsRepl, EndStopRepl,
     SettleRepl
     DEF ReplNext
<1> QED BY <1>1, <1>2

LEMMA ReplInvKeeps == ReplInv => ReplKeeps
<1> SUFFICES ASSUME ReplInv PROVE ReplKeeps
  OBVIOUS
<1>1. OutputKept
  BY DEF ReplInv, ScreenInv, OutputKept
<1>2. TypeAheadKept
  BY DEF ReplInv, TypedInv, Placed, TypeAheadKept, Texts
<1>3. ReplTranscriptClosed
  BY ExchangesClosed DEF ReplInv, TalkInv, ReplTranscriptClosed
<1> QED BY <1>1, <1>2, <1>3 DEF ReplKeeps

(* The interactive loop on the one terminal that output and input share:   *)
(* whatever is typed, printed, recorded, interrupted and fails, no redraw  *)
(* of the prompt erases output; what the terminal held when a turn or tool *)
(* ended is taken before raw mode is left, unless the drain was cut short; *)
(* a character the editor took is not dropped but for want of room in the  *)
(* next edit or a failed read; and the next line is never read on top of a *)
(* broken transcript (q27_agent_editor.c, q27_agent.c).                    *)
THEOREM ReplLosesNothing == ReplSpec => []ReplKeeps
<1>1. ReplInit => ReplInv
  BY ReplInitInv
<1>2. ReplInv /\ [ReplNext]_replVars => ReplInv'
  BY ReplSteps
<1> QED BY <1>1, <1>2, ReplInvKeeps, PTL DEF ReplSpec

-----------------------------------------------------------------------------
(* The q27-tui frontend *)

TuiOps == {o \in [k : SlashOps \cup {"prompt"}, id : Nat] : o.k = "prompt" <=> o.id # 0}
TuiPrompts == {o \in TuiOps : o.k = "prompt"}

EvTypes == {"hello", "idle", "bye", "queue", "rejected", "notice", "session_done", "state",
            "tool_start", "prefill_progress", "text_delta", "turn_done", "tool_output",
            "tool_done", "error", "exited"}
EvStates == {"idle", "stopped", "generating", "tool_running", "compacting", "none"}
TuiEvents == [type : EvTypes, state : EvStates, id : Nat, more : BOOLEAN, ok : BOOLEAN,
              items : SUBSET Nat]

InTurns == {"gen", "said", "handoff", "run", "turn", "squeeze"}
AgentPcs == InTurns \cup {"loading", "idle", "begin", "settle", "gone", "exited"}
TuiPhases == {"starting", "idle", "generating", "tool", "compacting", "stopped", "prefill", "error"}

AgSet == [pc : AgentPcs, cur : Nat, ctl : Seq(TuiOps), drops : Seq(TuiOps), pq : Seq(TuiPrompts),
          cancel : BOOLEAN, quit : BOOLEAN, after : BOOLEAN, rounds : Nat]
UiSet == [at : {"hello", "loop", "drain", "over"}, phase : TuiPhases, ready : BOOLEAN,
          pending : SUBSET Nat, qids : SUBSET Nat, bye : BOOLEAN, fatal : BOOLEAN,
          queue : BOOLEAN, open : Nat, buf : BOOLEAN, prompts : Nat, ops : Nat, asked : SUBSET Nat,
          gaveUp : BOOLEAN]
SeenSet == [ran : SUBSET Nat, cleared : SUBSET Nat, refused : SUBSET Nat, dropped : SUBSET Nat,
            killed : BOOLEAN, died : BOOLEAN]

TuiTypes == /\ inq \in Seq(TuiOps) /\ evs \in Seq(TuiEvents)
            /\ ag \in AgSet /\ ui \in UiSet /\ seen \in SeenSet

(* What the UI shows once the first n events of s are applied: an event of *)
(* M brings it about, those of K leave it alone, "now" is whether it holds *)
(* already.                                                                *)
AfterAt(s, n, M, K, now) ==
  \/ \E i \in 1 .. n : s[i] \in M /\ \A j \in 1 .. n : i < j => s[j] \in K
  \/ now /\ \A j \in 1 .. n : s[j] \in K
After(M, K, now) == AfterAt(evs, Len(evs), M, K, now)

BusyStates == {"generating", "tool_running", "compacting"}
Busies == {e \in TuiEvents :
             \/ e.type \in {"tool_start", "prefill_progress", "text_delta", "error"}
             \/ e.type \in {"state", "tool_output", "rejected", "notice"} /\ e.state \in BusyStates
             \/ e.type = "turn_done" /\ e.more}
KeepsBusy == {e \in TuiEvents : /\ e.type \notin {"idle", "bye"} /\ e.state # "stopped"
                                /\ e.type \in {"rejected", "notice"} => e.state # "idle"}
Idles == {e \in TuiEvents :
            e.type = "idle" \/ (e.type \in {"rejected", "notice"} /\ e.state = "idle")}
KeepsIdle == Idles \cup {e \in TuiEvents :
                           e.type \in {"queue", "session_done", "hello"} /\ e.state = "idle"}
EndsText == {e \in TuiEvents : e.type = "idle"}
NoText == {e \in TuiEvents : e.type # "text_delta"}
Closing == {e \in TuiEvents : e.type = "tool_done"}
NotOpening == {e \in TuiEvents : e.type \notin {"tool_start", "tool_output"}}
QueuesWithout(p) == {e \in TuiEvents : e.type = "queue" /\ p \notin e.items}
KeepsOut(p) == {e \in TuiEvents : e.type = "queue" => p \notin e.items}

(* The prompts on their way to the agent's queue, or in it. *)
Waiting == IdsOf(inq) \cup IdsOf(ag.ctl) \cup IdsOf(ag.drops) \cup IdsOf(ag.pq)
Outstanding == \E p \in Waiting : p # 0

DisplayInv ==
  ui.at # "over" =>
    /\ ag.pc \in InTurns => After(Busies, KeepsBusy, BusyPhase)
    /\ ag.pc = "idle" =>
         /\ After(Idles, KeepsIdle, ui.phase = "idle") \/ Outstanding
         /\ After(EndsText, NoText, ~ui.buf)
    /\ ag.pc \notin {"run", "exited"} => After(Closing, NotOpening, ui.open = 0)
    /\ ui.open <= 1
    /\ \A i \in DOMAIN evs :
         evs[i].type = "tool_start" => AfterAt(evs, i - 1, Closing, NotOpening, ui.open = 0)

StartInv ==
  /\ ag.pc = "loading" => evs = <<>> /\ ~ui.queue /\ ui.at \in {"hello", "over"}
  /\ ui.at = "hello" => ui.prompts = 0 /\ ui.pending = {}
  /\ ui.at \in {"loop", "drain"} => ui.queue
  /\ \A i \in DOMAIN evs : /\ evs[i].type = "exited" => ag.pc = "exited"
                           /\ evs[i].type = "bye" => ag.pc \in {"gone", "exited"}
  /\ ui.bye => ag.pc \in {"gone", "exited"}
  /\ ui.at = "over" => ~ui.queue \/ ui.gaveUp \/ (ag.pc \in {"gone", "exited"} /\ ~seen.killed)

Before(A, B) == \A a \in A, b \in B : a = 0 \/ b = 0 \/ a < b
Rising(s) == \A i, j \in DOMAIN s : i < j /\ s[i].id # 0 /\ s[j].id # 0 => s[i].id < s[j].id

Settled == seen.ran \cup seen.refused \cup seen.dropped

(* Prompts reach the queue in the order in which they were sent. *)
OrderInv ==
  /\ Rising(inq) /\ Rising(ag.ctl) /\ Before(IdsOf(ag.ctl), IdsOf(inq))
  /\ Before(IdsOf(ag.pq), IdsOf(ag.ctl)) /\ Before(IdsOf(ag.pq), IdsOf(inq))
  /\ Before(seen.dropped, IdsOf(ag.pq)) /\ Before(seen.dropped, IdsOf(ag.ctl))
  /\ Before(seen.dropped, IdsOf(inq))
  /\ \A p \in Waiting \cup Settled : p <= ui.prompts

(* No prompt is lost, and one that is still to be read came after a quit,  *)
(* once a quit was read.                                                   *)
TakenInv ==
  /\ ag.pc # "exited" => 1 .. ui.prompts \subseteq Waiting \cup Settled
  /\ \A n \in ui.asked : n <= ui.prompts
  /\ \A i \in DOMAIN inq : inq[i].k = "quit" =>
       \E n \in ui.asked : \A j \in DOMAIN inq : i < j => inq[j].id = 0 \/ n < inq[j].id
  /\ ag.quit \/ ag.after =>
       \E n \in ui.asked : \A p \in IdsOf(inq) : p = 0 \/ n < p

QuitServed ==
  /\ ui.asked # {}
  /\ \A n \in ui.asked : (\A m \in ui.asked : n <= m) => 1 .. n \subseteq Settled

ByeInv ==
  ag.pc = "gone" \/ (ag.pc = "exited" /\ ~seen.died) =>
    QuitServed \/ (~ui.queue /\ \A i \in DOMAIN evs : evs[i].type # "hello")

TurnTypes == {"state", "prefill_progress", "text_delta", "tool_start", "turn_done", "error"}

(* A pending prompt will be settled by an event that is printed or to come. *)
PendInv ==
  ui.at # "over" /\ ag.pc # "exited" =>
    /\ ui.pending \subseteq 1 .. ui.prompts
    /\ 1 .. ui.prompts \subseteq ui.pending \cup seen.ran \cup seen.refused \cup seen.cleared
    /\ \A i \in DOMAIN evs :
         /\ evs[i].type \in TurnTypes => evs[i].id \in seen.ran \cup {0}
         /\ evs[i].type = "rejected" => evs[i].id \in seen.refused \cup {0}
    /\ ag.cur \in seen.ran \cup {0}
    /\ \A p \in ui.pending \cap seen.ran :
         \/ \E i \in DOMAIN evs : evs[i].type \in TurnTypes /\ evs[i].id = p
         \/ ag.cur = p /\ ag.pc \in {"begin", "turn", "squeeze"}
    /\ \A p \in ui.pending \cap seen.refused :
         \E i \in DOMAIN evs : evs[i].type = "rejected" /\ evs[i].id = p
    /\ \A p \in seen.dropped : p # 0 => After(QueuesWithout(p), KeepsOut(p), p \notin ui.qids)
    /\ \A p \in ui.pending \cap seen.dropped :
         \/ ag.pc \in InTurns \cup {"settle"}
         \/ \E i \in DOMAIN evs :
              evs[i].type = "idle"
              /\ AfterAt(evs, i - 1, QueuesWithout(p), KeepsOut(p), p \notin ui.qids)

TuiInv == TuiTypes /\ DisplayInv /\ StartInv /\ OrderInv /\ TakenInv /\ ByeInv /\ PendInv

-----------------------------------------------------------------------------
(* Sequences *)

LEMMA SeqJoined ==
  ASSUME NEW S, NEW l \in Seq(S), NEW es \in Seq(S)
  PROVE  /\ l \o es \in Seq(S) /\ DOMAIN (l \o es) = 1 .. Len(l) + Len(es)
         /\ Len(l \o es) = Len(l) + Len(es)
         /\ \A i \in 1 .. Len(l) : (l \o es)[i] = l[i]
         /\ \A k \in 1 .. Len(es) : (l \o es)[Len(l) + k] = es[k]
         /\ \A i \in 1 .. Len(l) + Len(es) :
              i \in 1 .. Len(l) \/ \E k \in 1 .. Len(es) : i = Len(l) + k
         /\ Len(l) \in Nat /\ Len(es) \in Nat
         /\ DOMAIN l = 1 .. Len(l) /\ DOMAIN es = 1 .. Len(es)
<1>1. Len(l) \in Nat /\ Len(es) \in Nat /\ DOMAIN l = 1 .. Len(l) /\ DOMAIN es = 1 .. Len(es)
  OBVIOUS
<1>2. l \o es \in Seq(S) /\ Len(l \o es) = Len(l) + Len(es)
  OBVIOUS
<1>3. DOMAIN (l \o es) = 1 .. Len(l) + Len(es)
  BY <1>2
<1>4. \A i \in 1 .. Len(l) : (l \o es)[i] = l[i]
  BY <1>1
<1>5. \A k \in 1 .. Len(es) : (l \o es)[Len(l) + k] = es[k]
  BY <1>1
<1>6. ASSUME NEW i \in 1 .. Len(l) + Len(es)
      PROVE  i \in 1 .. Len(l) \/ \E k \in 1 .. Len(es) : i = Len(l) + k
  <2>1. CASE i <= Len(l)
    BY <1>1, <2>1
  <2>2. CASE i > Len(l)
    <3>1. i - Len(l) \in 1 .. Len(es) /\ i = Len(l) + (i - Len(l))
      BY <1>1, <2>2
    <3> QED BY <3>1
  <2> QED BY <1>1, <2>1, <2>2
<1> QED BY <1>1, <1>2, <1>3, <1>4, <1>5, <1>6

LEMMA SeqTail ==
  ASSUME NEW S, NEW s \in Seq(S), s # <<>>
  PROVE  /\ Tail(s) \in Seq(S) /\ Len(Tail(s)) = Len(s) - 1 /\ Len(s) \in Nat /\ Len(s) >= 1
         /\ DOMAIN s = 1 .. Len(s) /\ DOMAIN Tail(s) = 1 .. Len(s) - 1
         /\ Head(s) = s[1] /\ s[1] \in S
         /\ \A i \in 1 .. Len(s) - 1 : Tail(s)[i] = s[i + 1]
OBVIOUS

LEMMA IdsJoin ==
  ASSUME NEW s \in Seq(TuiOps), NEW o \in TuiOps
  PROVE  Append(s, o) \in Seq(TuiOps) /\ IdsOf(Append(s, o)) = IdsOf(s) \cup {o.id}
<1>1. /\ Append(s, o) \in Seq(TuiOps) /\ DOMAIN Append(s, o) = 1 .. Len(s) + 1
      /\ DOMAIN s = 1 .. Len(s) /\ Len(s) \in Nat
      /\ \A i \in 1 .. Len(s) : Append(s, o)[i] = s[i]
      /\ Append(s, o)[Len(s) + 1] = o
  OBVIOUS
<1>2. ASSUME NEW p \in IdsOf(Append(s, o)) PROVE p \in IdsOf(s) \cup {o.id}
  <2>1. PICK i \in 1 .. Len(s) + 1 : p = Append(s, o)[i].id
    BY <1>1, <1>2 DEF IdsOf
  <2>2. i \in 1 .. Len(s) \/ i = Len(s) + 1
    BY <1>1
  <2> QED BY <1>1, <2>1, <2>2 DEF IdsOf
<1>3. ASSUME NEW p \in IdsOf(s) PROVE p \in IdsOf(Append(s, o))
  <2>1. PICK i \in 1 .. Len(s) : p = s[i].id
    BY <1>1, <1>3 DEF IdsOf
  <2>2. i \in DOMAIN Append(s, o) /\ p = Append(s, o)[i].id
    BY <1>1, <2>1
  <2> QED BY <2>2 DEF IdsOf
<1>4. o.id \in IdsOf(Append(s, o))
  <2>1. Len(s) + 1 \in DOMAIN Append(s, o) /\ o.id = Append(s, o)[Len(s) + 1].id
    BY <1>1
  <2> QED BY <2>1 DEF IdsOf
<1> QED BY <1>1, <1>2, <1>3, <1>4

LEMMA PromptIdsTail ==
  ASSUME NEW s \in Seq(TuiOps), s # <<>>
  PROVE  /\ Tail(s) \in Seq(TuiOps) /\ IdsOf(s) = {Head(s).id} \cup IdsOf(Tail(s))
         /\ Head(s) \in TuiOps
<1>1. /\ Tail(s) \in Seq(TuiOps) /\ Len(Tail(s)) = Len(s) - 1 /\ Len(s) \in Nat /\ Len(s) >= 1
      /\ DOMAIN s = 1 .. Len(s) /\ DOMAIN Tail(s) = 1 .. Len(s) - 1
      /\ Head(s) = s[1] /\ s[1] \in TuiOps
      /\ \A i \in 1 .. Len(s) - 1 : Tail(s)[i] = s[i + 1]
  BY SeqTail
<1>2. ASSUME NEW p \in IdsOf(s) PROVE p \in {Head(s).id} \cup IdsOf(Tail(s))
  <2>1. PICK i \in 1 .. Len(s) : p = s[i].id
    BY <1>1, <1>2 DEF IdsOf
  <2>2. CASE i = 1
    BY <1>1, <2>1, <2>2
  <2>3. CASE i # 1
    <3>1. i - 1 \in DOMAIN Tail(s) /\ i = (i - 1) + 1 /\ i - 1 \in 1 .. Len(s) - 1
      BY <1>1, <2>3
    <3>2. p = Tail(s)[i - 1].id
      BY <1>1, <2>1, <3>1
    <3> QED BY <3>1, <3>2 DEF IdsOf
  <2> QED BY <2>2, <2>3
<1>3. Head(s).id \in IdsOf(s)
  <2>1. 1 \in DOMAIN s
    BY <1>1
  <2> QED BY <1>1, <2>1 DEF IdsOf
<1>4. ASSUME NEW p \in IdsOf(Tail(s)) PROVE p \in IdsOf(s)
  <2>1. PICK i \in 1 .. Len(s) - 1 : p = Tail(s)[i].id
    BY <1>1, <1>4 DEF IdsOf
  <2>2. i + 1 \in DOMAIN s /\ p = s[i + 1].id
    BY <1>1, <2>1
  <2> QED BY <2>2 DEF IdsOf
<1> QED BY <1>1, <1>2, <1>3, <1>4

-----------------------------------------------------------------------------
(* What the UI shows once it has applied events *)

Kept(es, K) == \A k \in DOMAIN es : es[k] \in K
Made(es, M, K) == \E k \in DOMAIN es : es[k] \in M /\ \A x \in DOMAIN es : k < x => es[x] \in K

LEMMA AfterSame ==
  ASSUME NEW s \in Seq(TuiEvents), NEW es \in Seq(TuiEvents), NEW n \in 0 .. Len(s),
         NEW M, NEW K, NEW now
  PROVE  AfterAt(s \o es, n, M, K, now) <=> AfterAt(s, n, M, K, now)
<1>1. Len(s) \in Nat /\ \A i \in 1 .. Len(s) : (s \o es)[i] = s[i]
  BY SeqJoined
<1>2. \A i \in 1 .. n : (s \o es)[i] = s[i]
  BY <1>1
<1> QED BY <1>2 DEF AfterAt

LEMMA AfterKept ==
  ASSUME NEW s \in Seq(TuiEvents), NEW es \in Seq(TuiEvents), NEW M, NEW K, NEW now,
         AfterAt(s, Len(s), M, K, now), Kept(es, K)
  PROVE  AfterAt(s \o es, Len(s \o es), M, K, now)
<1> DEFINE m == s \o es
<1>1. /\ Len(m) = Len(s) + Len(es) /\ Len(s) \in Nat /\ Len(es) \in Nat
      /\ DOMAIN es = 1 .. Len(es)
      /\ \A i \in 1 .. Len(s) : m[i] = s[i]
      /\ \A k \in 1 .. Len(es) : m[Len(s) + k] = es[k]
      /\ \A i \in 1 .. Len(m) : i \in 1 .. Len(s) \/ \E k \in 1 .. Len(es) : i = Len(s) + k
  BY SeqJoined
<1> HIDE DEF m
<1>2. ASSUME NEW i \in 1 .. Len(m), i \notin 1 .. Len(s) PROVE m[i] \in K
  BY <1>1, <1>2 DEF Kept
<1>3. CASE \E i \in 1 .. Len(s) : s[i] \in M /\ \A j \in 1 .. Len(s) : i < j => s[j] \in K
  <2>1. PICK i \in 1 .. Len(s) : s[i] \in M /\ \A j \in 1 .. Len(s) : i < j => s[j] \in K
    BY <1>3
  <2>2. i \in 1 .. Len(m) /\ m[i] \in M
    <3>1. i \in 1 .. Len(m)
      BY <1>1
    <3> QED BY <1>1, <2>1, <3>1
  <2>3. \A j \in 1 .. Len(m) : i < j => m[j] \in K
    BY <1>1, <1>2, <2>1
  <2> QED BY <2>2, <2>3 DEF AfterAt, m
<1>4. CASE now /\ \A j \in 1 .. Len(s) : s[j] \in K
  <2>1. \A j \in 1 .. Len(m) : m[j] \in K
    BY <1>1, <1>2, <1>4
  <2> QED BY <1>4, <2>1 DEF AfterAt, m
<1> QED BY <1>3, <1>4 DEF AfterAt

LEMMA AfterMade ==
  ASSUME NEW s \in Seq(TuiEvents), NEW es \in Seq(TuiEvents), NEW M, NEW K, NEW now,
         Made(es, M, K)
  PROVE  AfterAt(s \o es, Len(s \o es), M, K, now)
<1> DEFINE m == s \o es
<1>1. /\ Len(m) = Len(s) + Len(es) /\ Len(s) \in Nat /\ Len(es) \in Nat
      /\ DOMAIN es = 1 .. Len(es)
      /\ \A k \in 1 .. Len(es) : m[Len(s) + k] = es[k]
      /\ \A i \in 1 .. Len(m) : i \in 1 .. Len(s) \/ \E k \in 1 .. Len(es) : i = Len(s) + k
  BY SeqJoined
<1> HIDE DEF m
<1>2. PICK k \in 1 .. Len(es) : es[k] \in M /\ \A x \in 1 .. Len(es) : k < x => es[x] \in K
  BY <1>1 DEF Made
<1>3. Len(s) + k \in 1 .. Len(m) /\ m[Len(s) + k] \in M
  BY <1>1, <1>2
<1>4. ASSUME NEW j \in 1 .. Len(m), Len(s) + k < j PROVE m[j] \in K
  <2>1. PICK x \in 1 .. Len(es) : j = Len(s) + x
    BY <1>1, <1>4
  <2>2. k < x
    BY <1>1, <1>4, <2>1
  <2> QED BY <1>1, <1>2, <2>1, <2>2
<1> QED BY <1>3, <1>4 DEF AfterAt, m

LEMMA AfterTail ==
  ASSUME NEW s \in Seq(TuiEvents), s # <<>>, NEW n \in 1 .. Len(s), NEW M, NEW K, NEW now, NEW then,
         AfterAt(s, n, M, K, now), s[1] \in M => then, now /\ s[1] \in K => then
  PROVE  AfterAt(Tail(s), n - 1, M, K, then)
<1> DEFINE t == Tail(s)
<1>1. Len(s) \in Nat /\ \A i \in 1 .. Len(s) - 1 : t[i] = s[i + 1]
  BY SeqTail
<1> HIDE DEF t
<1>2. n \in Nat /\ \A i \in 1 .. n - 1 : i + 1 \in 1 .. n /\ t[i] = s[i + 1]
  BY <1>1
<1>3. CASE \E i \in 1 .. n : s[i] \in M /\ \A j \in 1 .. n : i < j => s[j] \in K
  <2>1. PICK i \in 1 .. n : s[i] \in M /\ \A j \in 1 .. n : i < j => s[j] \in K
    BY <1>3
  <2>2. CASE i = 1
    <3>1. \A j \in 1 .. n - 1 : t[j] \in K
      BY <1>2, <2>1, <2>2
    <3> QED BY <2>1, <2>2, <3>1 DEF AfterAt, t
  <2>3. CASE i # 1
    <3>1. i - 1 \in 1 .. n - 1 /\ t[i - 1] = s[(i - 1) + 1] /\ (i - 1) + 1 = i
      BY <1>2, <2>3
    <3>2. \A j \in 1 .. n - 1 : i - 1 < j => t[j] \in K
      BY <1>2, <2>1
    <3> QED BY <2>1, <3>1, <3>2 DEF AfterAt, t
  <2> QED BY <2>2, <2>3
<1>4. CASE now /\ \A j \in 1 .. n : s[j] \in K
  <2>1. then
    <3>1. 1 \in 1 .. n
      BY <1>2
    <3> QED BY <1>4, <3>1
  <2>2. \A j \in 1 .. n - 1 : t[j] \in K
    BY <1>2, <1>4
  <2> QED BY <2>1, <2>2 DEF AfterAt, t
<1> QED BY <1>3, <1>4 DEF AfterAt

LEMMA AfterNow ==
  ASSUME NEW s, NEW n, NEW M, NEW K, NEW now, NEW then, AfterAt(s, n, M, K, now), now => then
  PROVE  AfterAt(s, n, M, K, then)
BY DEF AfterAt

LEMMA AfterNone ==
  ASSUME NEW s, NEW M, NEW K, NEW now
  PROVE  AfterAt(s, 0, M, K, now) <=> now
BY DEF AfterAt

-----------------------------------------------------------------------------
(* Model::apply, field by field *)

Rest == {"idle", "stopped", "starting"}

(* What an event changes of the model *)
PendingAfter(m, e) == IF e.type = "idle" THEN m.pending \cap m.qids
                      ELSE IF e.type \in TurnTypes \cup {"rejected"} THEN m.pending \ {e.id}
                      ELSE m.pending
OpenAfter(m, e) == CASE e.type = "tool_start" -> m.open + 1
                     [] e.type = "tool_done" -> IF m.open > 0 THEN m.open - 1 ELSE m.open
                     [] e.type = "tool_output" -> IF m.open > 0 THEN m.open ELSE 1
                     [] e.type = "session_done" -> IF e.more /\ e.ok THEN 0 ELSE m.open
                     [] OTHER -> m.open
BufAfter(m, e) == CASE e.type = "idle" -> FALSE
                    [] e.type = "text_delta" -> TRUE
                    [] e.type = "turn_done" -> IF e.more THEN m.buf ELSE FALSE
                    [] e.type = "session_done" -> IF e.more /\ e.ok THEN FALSE ELSE m.buf
                    [] OTHER -> m.buf
PhaseAfter(m, e) ==
  CASE e.type = "idle" -> "idle"
    [] e.type = "prefill_progress" -> "prefill"
    [] e.type = "text_delta" -> "generating"
    [] e.type = "tool_start" -> "tool"
    [] e.type = "error" -> "error"
    [] e.type = "bye" -> "stopped"
    [] e.type = "turn_done" -> IF e.more THEN "tool" ELSE Mapped(m, e)
    [] e.type \in {"rejected", "notice"} -> IF e.state = "idle" THEN "idle" ELSE Mapped(m, e)
    [] e.type = "session_done" ->
          IF e.state = "idle" /\ Mapped(m, e) \in Rest THEN "idle" ELSE Mapped(m, e)
    [] OTHER -> Mapped(m, e)

Applied(m, e, a) ==
  /\ a.ready \in BOOLEAN
  /\ a = [at |-> m.at, phase |-> PhaseAfter(m, e), ready |-> a.ready,
          pending |-> PendingAfter(m, e),
          qids |-> IF e.type = "queue" THEN e.items ELSE m.qids,
          bye |-> m.bye \/ e.type = "bye", fatal |-> m.fatal,
          queue |-> m.queue \/ e.type = "hello", open |-> OpenAfter(m, e),
          buf |-> BufAfter(m, e), prompts |-> m.prompts, ops |-> m.ops, asked |-> m.asked,
          gaveUp |-> m.gaveUp]

(* The record an event leaves, when it is neither a hello nor a bye. *)
Left(m, ph, r, pe, q, o, b) ==
  [at |-> m.at, phase |-> ph, ready |-> r, pending |-> pe, qids |-> q, bye |-> m.bye,
   fatal |-> m.fatal, queue |-> m.queue, open |-> o, buf |-> b, prompts |-> m.prompts,
   ops |-> m.ops, asked |-> m.asked,
   gaveUp |-> m.gaveUp]

LEMMA LeftApplied ==
  ASSUME NEW m \in UiSet, NEW e \in TuiEvents, e.type \notin {"hello", "bye"}, NEW r \in BOOLEAN,
         NEW ph, NEW pe, NEW q, NEW o, NEW b,
         PhaseAfter(m, e) = ph, PendingAfter(m, e) = pe, OpenAfter(m, e) = o, BufAfter(m, e) = b,
         q = IF e.type = "queue" THEN e.items ELSE m.qids
  PROVE  Applied(m, e, Left(m, ph, r, pe, q, o, b))
<1> DEFINE bye == m.bye \/ e.type = "bye"
           queue == m.queue \/ e.type = "hello"
           l == Left(m, ph, r, pe, q, o, b)
<1>1. m.bye = bye /\ m.queue = queue
  BY DEF UiSet
<1> HIDE DEF bye, queue
<1>2. l.ready = r
  BY DEF Left
<1>3. l = [at |-> m.at, phase |-> ph, ready |-> l.ready, pending |-> pe, qids |-> q,
           bye |-> bye, fatal |-> m.fatal, queue |-> queue, open |-> o, buf |-> b,
           prompts |-> m.prompts, ops |-> m.ops, asked |-> m.asked,
           gaveUp |-> m.gaveUp]
  BY <1>1, <1>2 DEF Left
<1>4. l.ready \in BOOLEAN
  BY <1>2
<1> HIDE DEF l
<1>5. Applied(m, e, l)
  BY <1>3, <1>4 DEF Applied, bye, queue
<1> QED BY <1>5 DEF l

LEMMA Applies ==
  ASSUME NEW m \in UiSet, NEW e \in TuiEvents
  PROVE  Applied(m, e, Apply(m, e))
<1> DEFINE ph == Mapped(m, e)
           pe == IF e.type \in TurnTypes THEN m.pending \ {e.id} ELSE m.pending
           n == [at |-> m.at, phase |-> ph, ready |-> m.ready, pending |-> pe, qids |-> m.qids,
                 bye |-> m.bye, fatal |-> m.fatal, queue |-> m.queue, open |-> m.open,
                 buf |-> m.buf, prompts |-> m.prompts, ops |-> m.ops, asked |-> m.asked,
                 gaveUp |-> m.gaveUp]
           a == Apply(m, e)
<1>1. Reconcile([m EXCEPT !.phase = Mapped(m, e)], e) = n
  BY DEF Reconcile, Forget, UiSet, TurnTypes
<1>2. m.bye \in BOOLEAN /\ m.queue \in BOOLEAN /\ m.ready \in BOOLEAN /\ m.open \in Nat
  BY DEF UiSet
<1> HIDE DEF n
<1>3. CASE e.type = "hello"
  <2>1. a = [n EXCEPT !.queue = TRUE, !.ready = FALSE]
    BY <1>1, <1>3 DEF Apply
  <2>2. /\ PhaseAfter(m, e) = ph /\ PendingAfter(m, e) = pe
        /\ OpenAfter(m, e) = m.open /\ BufAfter(m, e) = m.buf
    BY <1>3 DEF PhaseAfter, PendingAfter, OpenAfter, BufAfter, TurnTypes
  <2> HIDE DEF ph, pe
  <2> QED BY <1>2, <1>3, <2>1, <2>2 DEF n, Applied
<1>4. CASE e.type = "idle"
  <2>1. a = ApplyIdle(n)
    BY <1>1, <1>4 DEF Apply
  <2>2. a = [n EXCEPT !.phase = "idle", !.ready = TRUE, !.pending = m.pending \cap m.qids,
                      !.buf = FALSE]
    BY <1>4, <2>1 DEF ApplyIdle, FinishAssistant, n, TurnTypes
  <2>3. /\ PhaseAfter(m, e) = "idle" /\ PendingAfter(m, e) = m.pending \cap m.qids
        /\ OpenAfter(m, e) = m.open /\ BufAfter(m, e) = FALSE
    BY <1>4 DEF PhaseAfter, PendingAfter, OpenAfter, BufAfter
  <2> HIDE DEF ph, pe
  <2> QED BY <1>2, <1>4, <2>2, <2>3 DEF n, Applied
<1>5. CASE e.type = "prefill_progress"
  <2>1. a = Busy(n, "prefill")
    BY <1>1, <1>5 DEF Apply
  <2>2. /\ PhaseAfter(m, e) = "prefill" /\ PendingAfter(m, e) = pe
        /\ OpenAfter(m, e) = m.open /\ BufAfter(m, e) = m.buf
    BY <1>5 DEF PhaseAfter, PendingAfter, OpenAfter, BufAfter, TurnTypes
  <2> HIDE DEF ph, pe
  <2> QED BY <1>2, <1>5, <2>1, <2>2 DEF n, Applied, Busy
<1>6. CASE e.type = "text_delta"
  <2>1. a = [Busy(n, "generating") EXCEPT !.buf = TRUE]
    BY <1>1, <1>6 DEF Apply
  <2>2. /\ PhaseAfter(m, e) = "generating" /\ PendingAfter(m, e) = pe
        /\ OpenAfter(m, e) = m.open /\ BufAfter(m, e) = TRUE
    BY <1>6 DEF PhaseAfter, PendingAfter, OpenAfter, BufAfter, TurnTypes
  <2> HIDE DEF ph, pe
  <2> QED BY <1>2, <1>6, <2>1, <2>2 DEF n, Applied, Busy
<1>7. CASE e.type = "turn_done"
  <2>1. a = IF e.more THEN [n EXCEPT !.phase = "tool"] ELSE FinishAssistant(n)
    BY <1>1, <1>7 DEF Apply
  <2>2. /\ PhaseAfter(m, e) = (IF e.more THEN "tool" ELSE ph) /\ PendingAfter(m, e) = pe
        /\ OpenAfter(m, e) = m.open /\ BufAfter(m, e) = (IF e.more THEN m.buf ELSE FALSE)
    BY <1>7 DEF PhaseAfter, PendingAfter, OpenAfter, BufAfter, TurnTypes
  <2> HIDE DEF ph, pe
  <2> QED BY <1>2, <1>7, <2>1, <2>2 DEF n, Applied, FinishAssistant
<1>8. CASE e.type = "tool_start"
  <2>1. a = [Busy(n, "tool") EXCEPT !.open = n.open + 1]
    BY <1>1, <1>8 DEF Apply, Busy, n
  <2>2. /\ PhaseAfter(m, e) = "tool" /\ PendingAfter(m, e) = pe
        /\ OpenAfter(m, e) = m.open + 1 /\ BufAfter(m, e) = m.buf
    BY <1>8 DEF PhaseAfter, PendingAfter, OpenAfter, BufAfter, TurnTypes
  <2> HIDE DEF ph, pe
  <2>3. n.queue = m.queue /\ n.open = m.open
    BY DEF n
  <2>4. a = [n EXCEPT !.phase = "tool", !.ready = m.queue, !.open = m.open + 1]
    BY <2>1, <2>3 DEF Busy
  <2> HIDE DEF a
  <2>5. a = Left(m, "tool", m.queue, pe, m.qids, m.open + 1, m.buf)
    BY <2>4 DEF n, Left
  <2> QED BY <1>2, <1>8, <2>2, <2>5, LeftApplied DEF a
<1>9. CASE e.type = "tool_output"
  <2>1. a = IF n.open > 0 THEN n ELSE [n EXCEPT !.open = 1]
    BY <1>1, <1>9 DEF Apply
  <2> QED BY <1>2, <1>9, <2>1 DEF n, Applied, PhaseAfter, PendingAfter, OpenAfter, BufAfter,
             TurnTypes
<1>10. CASE e.type = "tool_done"
  <2>1. a = IF n.open > 0 THEN [n EXCEPT !.open = n.open - 1] ELSE n
    BY <1>1, <1>10 DEF Apply, n
  <2> QED BY <1>2, <1>10, <2>1 DEF n, Applied, PhaseAfter, PendingAfter, OpenAfter, BufAfter,
             TurnTypes
<1>11. CASE e.type = "rejected"
  <2> DEFINE q == [n EXCEPT !.pending = Forget(n.pending, e.id)]
  <2>1. a = Reopen(q, e)
    BY <1>1, <1>11 DEF Apply, n
  <2>2. q = [at |-> m.at, phase |-> ph, ready |-> m.ready, pending |-> m.pending \ {e.id},
             qids |-> m.qids, bye |-> m.bye, fatal |-> m.fatal, queue |-> m.queue,
             open |-> m.open, buf |-> m.buf, prompts |-> m.prompts, ops |-> m.ops,
             asked |-> m.asked,
             gaveUp |-> m.gaveUp]
    BY <1>11 DEF n, Forget, TurnTypes
  <2> HIDE DEF q
  <2>3. CASE e.state = "idle"
    <3>1. a = [q EXCEPT !.ready = TRUE, !.phase = "idle"]
      BY <2>1, <2>3 DEF Reopen
    <3>2. /\ PhaseAfter(m, e) = "idle" /\ PendingAfter(m, e) = m.pending \ {e.id}
          /\ OpenAfter(m, e) = m.open /\ BufAfter(m, e) = m.buf
      BY <1>11, <2>3 DEF PhaseAfter, PendingAfter, OpenAfter, BufAfter
    <3> HIDE DEF ph
    <3> QED BY <1>2, <1>11, <2>2, <3>1, <3>2 DEF Applied
  <2>4. CASE e.state # "idle"
    <3>1. a = [q EXCEPT !.ready = q.queue]
      BY <2>1, <2>4 DEF Reopen
    <3>2. /\ PhaseAfter(m, e) = ph /\ PendingAfter(m, e) = m.pending \ {e.id}
          /\ OpenAfter(m, e) = m.open /\ BufAfter(m, e) = m.buf
      BY <1>11, <2>4 DEF PhaseAfter, PendingAfter, OpenAfter, BufAfter
    <3> HIDE DEF ph
    <3> QED BY <1>2, <1>11, <2>2, <3>1, <3>2 DEF Applied
  <2> QED BY <2>3, <2>4
<1>12. CASE e.type = "notice"
  <2>1. a = Reopen(n, e)
    BY <1>1, <1>12 DEF Apply
  <2>2. /\ PhaseAfter(m, e) = (IF e.state = "idle" THEN "idle" ELSE ph) /\ PendingAfter(m, e) = pe
        /\ OpenAfter(m, e) = m.open /\ BufAfter(m, e) = m.buf
    BY <1>12 DEF PhaseAfter, PendingAfter, OpenAfter, BufAfter, TurnTypes
  <2> HIDE DEF ph, pe
  <2>3. CASE e.state = "idle"
    <3>1. a = [n EXCEPT !.ready = TRUE, !.phase = "idle"]
      BY <2>1, <2>3 DEF Reopen
    <3>2. a = Left(m, "idle", TRUE, pe, m.qids, m.open, m.buf)
      BY <3>1 DEF n, Left
    <3> HIDE DEF a
    <3> QED BY <1>12, <2>2, <2>3, <3>2, LeftApplied DEF a
  <2>4. CASE e.state # "idle"
    <3>1. a = [n EXCEPT !.ready = m.queue]
      BY <2>1, <2>4 DEF Reopen, n
    <3>2. a = Left(m, ph, m.queue, pe, m.qids, m.open, m.buf)
      BY <3>1 DEF n, Left
    <3> HIDE DEF a
    <3> QED BY <1>2, <1>12, <2>2, <2>4, <3>2, LeftApplied DEF a
  <2> QED BY <2>3, <2>4
<1>13. CASE e.type = "error"
  <2>1. a = [n EXCEPT !.phase = "error", !.ready = TRUE]
    BY <1>1, <1>13 DEF Apply
  <2>2. /\ PhaseAfter(m, e) = "error" /\ PendingAfter(m, e) = pe
        /\ OpenAfter(m, e) = m.open /\ BufAfter(m, e) = m.buf
    BY <1>13 DEF PhaseAfter, PendingAfter, OpenAfter, BufAfter, TurnTypes
  <2> HIDE DEF ph, pe
  <2> QED BY <1>2, <1>13, <2>1, <2>2 DEF n, Applied
<1>14. CASE e.type = "session_done"
  <2> DEFINE q == IF e.more /\ e.ok THEN [n EXCEPT !.buf = FALSE, !.open = 0] ELSE n
             to == IF e.more /\ e.ok THEN 0 ELSE m.open
             tb == IF e.more /\ e.ok THEN FALSE ELSE m.buf
  <2>1. a = SessionDone(n, e)
    BY <1>1, <1>14 DEF Apply
  <2>2. q = [at |-> m.at, phase |-> ph, ready |-> m.ready, pending |-> m.pending,
             qids |-> m.qids, bye |-> m.bye, fatal |-> m.fatal, queue |-> m.queue,
             open |-> to, buf |-> tb, prompts |-> m.prompts, ops |-> m.ops,
             asked |-> m.asked,
             gaveUp |-> m.gaveUp]
    BY <1>14 DEF n, TurnTypes
  <2>3. n.phase = ph
    BY DEF n
  <2>4. a = IF e.state = "idle" /\ ph \in Rest
            THEN [q EXCEPT !.ready = TRUE, !.phase = "idle"] ELSE q
    BY <2>1, <2>3 DEF SessionDone, Rest
  <2>5. to = OpenAfter(m, e) /\ tb = BufAfter(m, e) /\ m.pending = PendingAfter(m, e)
    BY <1>14 DEF OpenAfter, BufAfter, PendingAfter, TurnTypes
  <2>8. PhaseAfter(m, e) = IF e.state = "idle" /\ ph \in Rest THEN "idle" ELSE ph
    BY <1>14 DEF PhaseAfter
  <2> HIDE DEF q, to, tb, ph
  <2>6. CASE e.state = "idle" /\ ph \in Rest
    BY <1>2, <1>14, <2>2, <2>4, <2>5, <2>6, <2>8 DEF Applied
  <2>7. CASE ~(e.state = "idle" /\ ph \in Rest)
    <3>1. a = q
      BY <2>4, <2>7
    <3>2. PhaseAfter(m, e) = ph
      BY <2>7, <2>8
    <3> QED BY <1>2, <1>14, <2>2, <2>5, <3>1, <3>2 DEF Applied
  <2> QED BY <2>6, <2>7
<1>15. CASE e.type = "bye"
  <2>1. a = [n EXCEPT !.phase = "stopped", !.ready = FALSE, !.bye = TRUE]
    BY <1>1, <1>15 DEF Apply
  <2>2. /\ PhaseAfter(m, e) = "stopped" /\ PendingAfter(m, e) = pe
        /\ OpenAfter(m, e) = m.open /\ BufAfter(m, e) = m.buf
    BY <1>15 DEF PhaseAfter, PendingAfter, OpenAfter, BufAfter, TurnTypes
  <2> HIDE DEF ph, pe
  <2> QED BY <1>2, <1>15, <2>1, <2>2 DEF n, Applied
<1>16. CASE e.type = "queue"
  <2>1. a = [n EXCEPT !.qids = e.items, !.ready = n.ready \/ (n.queue /\ n.phase # "stopped")]
    BY <1>1, <1>16 DEF Apply, n
  <2>2. /\ PhaseAfter(m, e) = ph /\ PendingAfter(m, e) = pe
        /\ OpenAfter(m, e) = m.open /\ BufAfter(m, e) = m.buf
    BY <1>16 DEF PhaseAfter, PendingAfter, OpenAfter, BufAfter, TurnTypes
  <2> HIDE DEF ph, pe
  <2> DEFINE r == m.ready \/ (m.queue /\ ph # "stopped")
  <2>3. n.ready = m.ready /\ n.queue = m.queue /\ n.phase = ph
    BY DEF n
  <2>4. r \in BOOLEAN /\ a = [n EXCEPT !.qids = e.items, !.ready = r]
    BY <2>1, <2>3
  <2> HIDE DEF r, a
  <2>5. a = Left(m, ph, r, pe, e.items, m.open, m.buf)
    BY <2>4 DEF n, Left
  <2> QED BY <1>16, <2>2, <2>4, <2>5, LeftApplied DEF a
<1>17. CASE e.type = "exited"
  <2>1. a = n
    BY <1>1, <1>17 DEF Apply
  <2>2. /\ PhaseAfter(m, e) = ph /\ PendingAfter(m, e) = pe
        /\ OpenAfter(m, e) = m.open /\ BufAfter(m, e) = m.buf
    BY <1>17 DEF PhaseAfter, PendingAfter, OpenAfter, BufAfter, TurnTypes
  <2> HIDE DEF ph, pe
  <2> QED BY <1>2, <1>17, <2>1, <2>2 DEF n, Applied
<1>18. CASE e.type = "state"
  <2>1. a = n
    BY <1>1, <1>18 DEF Apply
  <2>2. /\ PhaseAfter(m, e) = ph /\ PendingAfter(m, e) = pe
        /\ OpenAfter(m, e) = m.open /\ BufAfter(m, e) = m.buf
    BY <1>18 DEF PhaseAfter, PendingAfter, OpenAfter, BufAfter, TurnTypes
  <2> HIDE DEF ph, pe
  <2> QED BY <1>2, <1>18, <2>1, <2>2 DEF n, Applied
<1> QED BY <1>3, <1>4, <1>5, <1>6, <1>7, <1>8, <1>9, <1>10, <1>11, <1>12, <1>13, <1>14, <1>15,
            <1>16, <1>17, <1>18 DEF TuiEvents, EvTypes

LEMMA AppliedTypes ==
  ASSUME NEW m \in UiSet, NEW e \in TuiEvents
  PROVE  /\ PhaseAfter(m, e) \in TuiPhases /\ PendingAfter(m, e) \in SUBSET Nat
         /\ OpenAfter(m, e) \in Nat /\ BufAfter(m, e) \in BOOLEAN
         /\ Mapped(m, e) \in TuiPhases
<1>1. /\ m.phase \in TuiPhases /\ m.pending \in SUBSET Nat /\ m.open \in Nat /\ m.buf \in BOOLEAN
  BY DEF UiSet
<1>2. Mapped(m, e) \in TuiPhases
  BY <1>1 DEF Mapped, TuiPhases
<1>3. PhaseAfter(m, e) \in TuiPhases
  BY <1>2 DEF PhaseAfter, TuiPhases
<1>4. PendingAfter(m, e) \in SUBSET Nat
  BY <1>1 DEF PendingAfter
<1>5. OpenAfter(m, e) \in Nat
  BY <1>1 DEF OpenAfter
<1>6. BufAfter(m, e) \in BOOLEAN
  BY <1>1 DEF BufAfter
<1> QED BY <1>2, <1>3, <1>4, <1>5, <1>6

LEMMA ApplyFacts ==
  ASSUME NEW m \in UiSet, NEW e \in TuiEvents
  PROVE  LET a == Apply(m, e) IN
         /\ a \in UiSet /\ a.at = m.at /\ a.fatal = m.fatal /\ a.prompts = m.prompts
         /\ a.ops = m.ops /\ a.asked = m.asked
         /\ a.phase = PhaseAfter(m, e) /\ a.pending = PendingAfter(m, e)
         /\ a.open = OpenAfter(m, e) /\ a.buf = BufAfter(m, e)
         /\ a.qids = IF e.type = "queue" THEN e.items ELSE m.qids
         /\ a.bye = (m.bye \/ e.type = "bye")
         /\ a.queue = (m.queue \/ e.type = "hello")
<1> DEFINE a == Apply(m, e)
<1>1. Applied(m, e, a)
  BY Applies
<1> HIDE DEF a
<1>2. /\ PhaseAfter(m, e) \in TuiPhases /\ PendingAfter(m, e) \in SUBSET Nat
      /\ OpenAfter(m, e) \in Nat /\ BufAfter(m, e) \in BOOLEAN
  BY AppliedTypes
<1>3. /\ e.items \in SUBSET Nat /\ m.qids \in SUBSET Nat /\ m.bye \in BOOLEAN
      /\ m.queue \in BOOLEAN /\ m.at \in {"hello", "loop", "drain", "over"}
      /\ m.fatal \in BOOLEAN /\ m.prompts \in Nat /\ m.ops \in Nat /\ m.asked \in SUBSET Nat
      /\ m.gaveUp \in BOOLEAN
  BY DEF UiSet, TuiEvents
<1>4. /\ a.at = m.at /\ a.fatal = m.fatal /\ a.prompts = m.prompts
      /\ a.ops = m.ops /\ a.asked = m.asked
      /\ a.phase = PhaseAfter(m, e) /\ a.pending = PendingAfter(m, e)
      /\ a.open = OpenAfter(m, e) /\ a.buf = BufAfter(m, e)
      /\ a.qids = IF e.type = "queue" THEN e.items ELSE m.qids
      /\ a.bye = (m.bye \/ e.type = "bye")
      /\ a.queue = (m.queue \/ e.type = "hello")
  BY <1>1 DEF Applied
<1>5. a \in UiSet
  <2> DEFINE q == IF e.type = "queue" THEN e.items ELSE m.qids
             b == m.bye \/ e.type = "bye"
             h == m.queue \/ e.type = "hello"
             ph == PhaseAfter(m, e)
             pe == PendingAfter(m, e)
             op == OpenAfter(m, e)
             bu == BufAfter(m, e)
  <2>1. q \in SUBSET Nat /\ b \in BOOLEAN /\ h \in BOOLEAN
    BY <1>3
  <2>2. /\ a.ready \in BOOLEAN
        /\ a = [at |-> m.at, phase |-> ph, ready |-> a.ready, pending |-> pe, qids |-> q,
                bye |-> b, fatal |-> m.fatal, queue |-> h, open |-> op, buf |-> bu,
                prompts |-> m.prompts, ops |-> m.ops, asked |-> m.asked,
                gaveUp |-> m.gaveUp]
    BY <1>1 DEF Applied
  <2>3. ph \in TuiPhases /\ pe \in SUBSET Nat /\ op \in Nat /\ bu \in BOOLEAN
    BY <1>2
  <2> HIDE DEF q, b, h, ph, pe, op, bu
  <2> QED BY <1>3, <2>1, <2>2, <2>3 DEF UiSet
<1> QED BY <1>4, <1>5 DEF a

(* What an event does to what is shown *)
LEMMA PhaseFacts ==
  ASSUME NEW m \in UiSet, NEW e \in TuiEvents
  PROVE  /\ e \in Busies => PhaseAfter(m, e) \notin Rest
         /\ m.phase \notin Rest /\ e \in KeepsBusy => PhaseAfter(m, e) \notin Rest
         /\ e \in Idles => PhaseAfter(m, e) = "idle"
         /\ m.phase = "idle" /\ e \in KeepsIdle => PhaseAfter(m, e) = "idle"
<1>1. ASSUME e \in Busies PROVE PhaseAfter(m, e) \notin Rest
  BY <1>1 DEF Busies, BusyStates, PhaseAfter, Mapped, Rest
<1>2. ASSUME m.phase \notin Rest, e \in KeepsBusy PROVE PhaseAfter(m, e) \notin Rest
  BY <1>2 DEF KeepsBusy, PhaseAfter, Mapped, Rest
<1>3. ASSUME e \in Idles PROVE PhaseAfter(m, e) = "idle"
  BY <1>3 DEF Idles, PhaseAfter, Mapped, Rest
<1>4. ASSUME m.phase = "idle", e \in KeepsIdle PROVE PhaseAfter(m, e) = "idle"
  BY <1>4 DEF Idles, KeepsIdle, PhaseAfter, Mapped, Rest
<1> QED BY <1>1, <1>2, <1>3, <1>4

LEMMA CardFacts ==
  ASSUME NEW m \in UiSet, NEW e \in TuiEvents, m.open <= 1
  PROVE  /\ e \in EndsText => ~BufAfter(m, e)
         /\ ~m.buf /\ e \in NoText => ~BufAfter(m, e)
         /\ e \in Closing => OpenAfter(m, e) = 0
         /\ m.open = 0 /\ e \in NotOpening => OpenAfter(m, e) = 0
         /\ (e.type = "tool_start" => m.open = 0) => OpenAfter(m, e) <= 1
<1>1. m.open \in Nat /\ m.buf \in BOOLEAN
  BY DEF UiSet
<1> QED BY <1>1 DEF EndsText, NoText, Closing, NotOpening, BufAfter, OpenAfter

LEMMA QueueFacts ==
  ASSUME NEW m \in UiSet, NEW e \in TuiEvents, NEW p
  PROVE  LET q == IF e.type = "queue" THEN e.items ELSE m.qids IN
         /\ e \in QueuesWithout(p) => p \notin q
         /\ p \notin m.qids /\ e \in KeepsOut(p) => p \notin q
BY DEF QueuesWithout, KeepsOut

-----------------------------------------------------------------------------
(* The agent prints es *)

ShowsRight(es) ==
  /\ ag'.pc \in InTurns =>
       Made(es, Busies, KeepsBusy) \/ (ag.pc \in InTurns /\ Kept(es, KeepsBusy))
  /\ ag'.pc = "idle" =>
       /\ \/ Outstanding' \/ Made(es, Idles, KeepsIdle)
          \/ ag.pc = "idle" /\ Kept(es, KeepsIdle) /\ (Outstanding => Outstanding')
       /\ Made(es, EndsText, NoText) \/ (ag.pc = "idle" /\ Kept(es, NoText))
  /\ ag'.pc \notin {"run", "exited"} =>
       \/ Made(es, Closing, NotOpening)
       \/ ag.pc \notin {"run", "exited"} /\ Kept(es, NotOpening)
  /\ \A k \in DOMAIN es : es[k].type = "tool_start" => k = 1 /\ ag.pc \notin {"run", "exited"}

LEMMA DisplayPrints ==
  ASSUME TuiTypes, DisplayInv, NEW es \in Seq(TuiEvents), ui' = ui, evs' = evs \o es,
         ShowsRight(es)
  PROVE  DisplayInv'
<1>1. SUFFICES ASSUME ui.at # "over"
               PROVE  /\ ag'.pc \in InTurns => After(Busies, KeepsBusy, BusyPhase)'
                      /\ ag'.pc = "idle" =>
                           /\ After(Idles, KeepsIdle, ui.phase = "idle")' \/ Outstanding'
                           /\ After(EndsText, NoText, ~ui.buf)'
                      /\ ag'.pc \notin {"run", "exited"} => After(Closing, NotOpening, ui.open = 0)'
                      /\ ui'.open <= 1
                      /\ \A i \in DOMAIN evs' : evs'[i].type = "tool_start" =>
                           AfterAt(evs', i - 1, Closing, NotOpening, ui'.open = 0)
  BY DEF DisplayInv
<1> DEFINE m == evs \o es
<1>2. evs \in Seq(TuiEvents)
  BY DEF TuiTypes
<1>3. /\ ag.pc \in InTurns => AfterAt(evs, Len(evs), Busies, KeepsBusy, BusyPhase)
      /\ ag.pc = "idle" =>
           /\ AfterAt(evs, Len(evs), Idles, KeepsIdle, ui.phase = "idle") \/ Outstanding
           /\ AfterAt(evs, Len(evs), EndsText, NoText, ~ui.buf)
      /\ ag.pc \notin {"run", "exited"} => AfterAt(evs, Len(evs), Closing, NotOpening, ui.open = 0)
      /\ ui.open <= 1
      /\ \A i \in DOMAIN evs : evs[i].type = "tool_start" =>
           AfterAt(evs, i - 1, Closing, NotOpening, ui.open = 0)
  BY <1>1 DEF DisplayInv, After
<1>4. ASSUME ag'.pc \in InTurns PROVE AfterAt(m, Len(m), Busies, KeepsBusy, BusyPhase)
  <2>1. CASE Made(es, Busies, KeepsBusy)
    BY <1>2, <2>1, AfterMade
  <2>2. CASE ag.pc \in InTurns /\ Kept(es, KeepsBusy)
    BY <1>2, <1>3, <2>2, AfterKept
  <2> QED BY <1>4, <2>1, <2>2 DEF ShowsRight
<1>5. ASSUME ag'.pc = "idle", ~Outstanding'
      PROVE  AfterAt(m, Len(m), Idles, KeepsIdle, ui.phase = "idle")
  <2>1. CASE Made(es, Idles, KeepsIdle)
    BY <1>2, <2>1, AfterMade
  <2>2. CASE ag.pc = "idle" /\ Kept(es, KeepsIdle) /\ (Outstanding => Outstanding')
    <3>1. AfterAt(evs, Len(evs), Idles, KeepsIdle, ui.phase = "idle")
      BY <1>3, <1>5, <2>2
    <3> QED BY <1>2, <2>2, <3>1, AfterKept
  <2> QED BY <1>5, <2>1, <2>2 DEF ShowsRight
<1>6. ASSUME ag'.pc = "idle" PROVE AfterAt(m, Len(m), EndsText, NoText, ~ui.buf)
  <2>1. CASE Made(es, EndsText, NoText)
    BY <1>2, <2>1, AfterMade
  <2>2. CASE ag.pc = "idle" /\ Kept(es, NoText)
    <3>1. AfterAt(evs, Len(evs), EndsText, NoText, ~ui.buf)
      BY <1>3, <2>2
    <3> QED BY <1>2, <2>2, <3>1, AfterKept
  <2> QED BY <1>6, <2>1, <2>2 DEF ShowsRight
<1>7. ASSUME ag'.pc \notin {"run", "exited"}
      PROVE  AfterAt(m, Len(m), Closing, NotOpening, ui.open = 0)
  <2>1. CASE Made(es, Closing, NotOpening)
    BY <1>2, <2>1, AfterMade
  <2>2. CASE ag.pc \notin {"run", "exited"} /\ Kept(es, NotOpening)
    <3>1. AfterAt(evs, Len(evs), Closing, NotOpening, ui.open = 0)
      BY <1>3, <2>2
    <3> QED BY <1>2, <2>2, <3>1, AfterKept
  <2> QED BY <1>7, <2>1, <2>2 DEF ShowsRight
<1>8. ASSUME NEW i \in DOMAIN m, m[i].type = "tool_start"
      PROVE  AfterAt(m, i - 1, Closing, NotOpening, ui.open = 0)
  <2>1. /\ DOMAIN m = 1 .. Len(evs) + Len(es) /\ Len(evs) \in Nat /\ Len(es) \in Nat
        /\ DOMAIN evs = 1 .. Len(evs) /\ DOMAIN es = 1 .. Len(es)
        /\ \A x \in 1 .. Len(evs) : m[x] = evs[x]
        /\ \A k \in 1 .. Len(es) : m[Len(evs) + k] = es[k]
        /\ \A x \in 1 .. Len(evs) + Len(es) :
             x \in 1 .. Len(evs) \/ \E k \in 1 .. Len(es) : x = Len(evs) + k
    BY <1>2, SeqJoined
  <2>2. CASE i \in 1 .. Len(evs)
    <3>1. i - 1 \in 0 .. Len(evs) /\ evs[i].type = "tool_start"
      BY <1>8, <2>1, <2>2
    <3>2. AfterAt(evs, i - 1, Closing, NotOpening, ui.open = 0)
      BY <1>3, <2>1, <2>2, <3>1
    <3> QED BY <1>2, <3>1, <3>2, AfterSame
  <2>3. CASE \E k \in 1 .. Len(es) : i = Len(evs) + k
    <3>1. PICK k \in 1 .. Len(es) : i = Len(evs) + k
      BY <2>3
    <3>2. es[k].type = "tool_start"
      BY <1>8, <2>1, <3>1
    <3>3. k = 1 /\ ag.pc \notin {"run", "exited"}
      BY <2>1, <3>2 DEF ShowsRight
    <3>4. i - 1 = Len(evs) /\ Len(evs) \in 0 .. Len(evs)
      BY <2>1, <3>1, <3>3
    <3>5. AfterAt(evs, Len(evs), Closing, NotOpening, ui.open = 0)
      BY <1>3, <3>3
    <3> QED BY <1>2, <3>4, <3>5, AfterSame
  <2> QED BY <2>1, <2>2, <2>3
<1>9. BusyPhase' = BusyPhase
  BY DEF BusyPhase
<1> QED BY <1>3, <1>4, <1>5, <1>6, <1>7, <1>8, <1>9 DEF After

-----------------------------------------------------------------------------
(* The UI takes the oldest event *)

Takes ==
  /\ ui.at # "over" /\ evs # <<>> /\ evs' = Tail(evs) /\ inq' = inq /\ ag' = ag
  /\ ui' \in UiSet /\ ui'.prompts = ui.prompts /\ ui'.asked = ui.asked
  /\ ui'.at # "over" =>
       /\ ui'.phase = PhaseAfter(ui, Head(evs)) /\ ui'.pending = PendingAfter(ui, Head(evs))
       /\ ui'.open = OpenAfter(ui, Head(evs)) /\ ui'.buf = BufAfter(ui, Head(evs))
       /\ ui'.qids = IF Head(evs).type = "queue" THEN Head(evs).items ELSE ui.qids
       /\ ui'.at = ui.at \/ (ui'.at = "loop" /\ ui.queue)
       /\ seen'.killed = seen.killed
       /\ Head(evs).type = "idle" => ui.pending \ ui.qids \subseteq seen'.cleared
  /\ ui'.at = "over" =>
       /\ Head(evs).type \in {"exited", "bye"} \/ ui.bye
       /\ seen'.killed = AgentUp
  /\ ui.queue => ui'.queue
  /\ ui'.queue => ui.queue \/ Head(evs).type = "hello"
  /\ ui'.bye => ui.bye \/ Head(evs).type = "bye"
  /\ seen' \in SeenSet /\ seen'.ran = seen.ran /\ seen'.refused = seen.refused
  /\ seen'.dropped = seen.dropped /\ seen'.died = seen.died /\ seen.cleared \subseteq seen'.cleared

LEMMA DisplayTakes ==
  ASSUME TuiTypes, DisplayInv, Takes
  PROVE  DisplayInv'
<1>1. SUFFICES ASSUME ui'.at # "over"
               PROVE  /\ ag.pc \in InTurns => After(Busies, KeepsBusy, BusyPhase)'
                      /\ ag.pc = "idle" =>
                           /\ After(Idles, KeepsIdle, ui.phase = "idle")' \/ Outstanding'
                           /\ After(EndsText, NoText, ~ui.buf)'
                      /\ ag.pc \notin {"run", "exited"} => After(Closing, NotOpening, ui.open = 0)'
                      /\ ui'.open <= 1
                      /\ \A i \in DOMAIN evs' : evs'[i].type = "tool_start" =>
                           AfterAt(evs', i - 1, Closing, NotOpening, ui'.open = 0)
  BY DEF DisplayInv, Takes
<1> DEFINE e == Head(evs)
           m == Tail(evs)
<1>2. /\ evs \in Seq(TuiEvents) /\ evs # <<>> /\ ui \in UiSet /\ ui.at # "over" /\ evs' = m
      /\ ui'.phase = PhaseAfter(ui, e) /\ ui'.open = OpenAfter(ui, e) /\ ui'.buf = BufAfter(ui, e)
  BY <1>1 DEF TuiTypes, Takes
<1>3. /\ ag.pc \in InTurns => AfterAt(evs, Len(evs), Busies, KeepsBusy, BusyPhase)
      /\ ag.pc = "idle" =>
           /\ AfterAt(evs, Len(evs), Idles, KeepsIdle, ui.phase = "idle") \/ Outstanding
           /\ AfterAt(evs, Len(evs), EndsText, NoText, ~ui.buf)
      /\ ag.pc \notin {"run", "exited"} => AfterAt(evs, Len(evs), Closing, NotOpening, ui.open = 0)
      /\ ui.open <= 1
      /\ \A i \in DOMAIN evs : evs[i].type = "tool_start" =>
           AfterAt(evs, i - 1, Closing, NotOpening, ui.open = 0)
  BY <1>1, <1>2 DEF DisplayInv, After
<1>4. /\ m \in Seq(TuiEvents) /\ Len(m) = Len(evs) - 1 /\ Len(evs) \in Nat /\ Len(evs) >= 1
      /\ DOMAIN evs = 1 .. Len(evs) /\ DOMAIN m = 1 .. Len(evs) - 1
      /\ e = evs[1] /\ e \in TuiEvents
      /\ \A i \in 1 .. Len(evs) - 1 : m[i] = evs[i + 1]
  BY <1>2, SeqTail
<1>5. Len(evs) \in 1 .. Len(evs)
  BY <1>4
<1>6. /\ e \in Busies => PhaseAfter(ui, e) \notin Rest
      /\ ui.phase \notin Rest /\ e \in KeepsBusy => PhaseAfter(ui, e) \notin Rest
      /\ e \in Idles => PhaseAfter(ui, e) = "idle"
      /\ ui.phase = "idle" /\ e \in KeepsIdle => PhaseAfter(ui, e) = "idle"
  BY <1>2, <1>4, PhaseFacts
<1>7. /\ e \in EndsText => ~BufAfter(ui, e)
      /\ ~ui.buf /\ e \in NoText => ~BufAfter(ui, e)
      /\ e \in Closing => OpenAfter(ui, e) = 0
      /\ ui.open = 0 /\ e \in NotOpening => OpenAfter(ui, e) = 0
      /\ (e.type = "tool_start" => ui.open = 0) => OpenAfter(ui, e) <= 1
  BY <1>2, <1>3, <1>4, CardFacts
<1>8. (BusyPhase <=> ui.phase \notin Rest) /\ (BusyPhase' <=> ui'.phase \notin Rest)
  BY DEF BusyPhase, Rest
<1> HIDE DEF e, m
<1>9. ASSUME ag.pc \in InTurns PROVE AfterAt(m, Len(m), Busies, KeepsBusy, BusyPhase')
  <2>1. (evs[1] \in Busies => BusyPhase') /\ (BusyPhase /\ evs[1] \in KeepsBusy => BusyPhase')
    BY <1>2, <1>4, <1>6, <1>8
  <2> QED BY <1>2, <1>3, <1>4, <1>5, <1>9, <2>1, AfterTail DEF m
<1>10. ASSUME AfterAt(evs, Len(evs), Idles, KeepsIdle, ui.phase = "idle")
       PROVE  AfterAt(m, Len(m), Idles, KeepsIdle, ui'.phase = "idle")
  <2>1. /\ evs[1] \in Idles => ui'.phase = "idle"
        /\ ui.phase = "idle" /\ evs[1] \in KeepsIdle => ui'.phase = "idle"
    BY <1>2, <1>4, <1>6
  <2>2. AfterAt(Tail(evs), Len(evs) - 1, Idles, KeepsIdle, ui'.phase = "idle")
    BY <1>2, <1>5, <1>10, <2>1, AfterTail
  <2> QED BY <1>4, <2>2 DEF m
<1>11. ASSUME ag.pc = "idle" PROVE AfterAt(m, Len(m), EndsText, NoText, ~ui'.buf)
  <2>1. (evs[1] \in EndsText => ~ui'.buf) /\ (~ui.buf /\ evs[1] \in NoText => ~ui'.buf)
    BY <1>2, <1>4, <1>7
  <2> QED BY <1>2, <1>3, <1>4, <1>5, <1>11, <2>1, AfterTail DEF m
<1>12. ASSUME NEW n \in 1 .. Len(evs), AfterAt(evs, n, Closing, NotOpening, ui.open = 0)
       PROVE  AfterAt(m, n - 1, Closing, NotOpening, ui'.open = 0)
  <2>1. /\ evs[1] \in Closing => ui'.open = 0
        /\ ui.open = 0 /\ evs[1] \in NotOpening => ui'.open = 0
    BY <1>2, <1>4, <1>7
  <2> QED BY <1>2, <1>12, <2>1, AfterTail DEF m
<1>13. ui'.open <= 1
  <2>1. ASSUME e.type = "tool_start" PROVE ui.open = 0
    <3>1. 1 \in DOMAIN evs /\ evs[1].type = "tool_start" /\ 1 - 1 = 0
      BY <1>4, <2>1
    <3>2. AfterAt(evs, 0, Closing, NotOpening, ui.open = 0)
      BY <1>3, <3>1
    <3> QED BY <3>2, AfterNone
  <2> QED BY <1>2, <1>7, <2>1
<1>14. ASSUME NEW i \in DOMAIN m, m[i].type = "tool_start"
       PROVE  AfterAt(m, i - 1, Closing, NotOpening, ui'.open = 0)
  <2>1. /\ i \in 1 .. Len(evs) /\ i + 1 \in DOMAIN evs
        /\ evs[i + 1].type = "tool_start" /\ (i + 1) - 1 = i
    BY <1>4, <1>14
  <2>2. AfterAt(evs, i, Closing, NotOpening, ui.open = 0)
    BY <1>3, <2>1
  <2> QED BY <1>12, <2>1, <2>2
<1>15. Outstanding' <=> Outstanding
  BY DEF Outstanding, Waiting, Takes
<1>16. ag.pc \notin {"run", "exited"} => AfterAt(m, Len(m), Closing, NotOpening, ui'.open = 0)
  BY <1>3, <1>4, <1>5, <1>12
<1> QED BY <1>2, <1>3, <1>9, <1>10, <1>11, <1>13, <1>14, <1>15, <1>16 DEF After

-----------------------------------------------------------------------------
(* A key *)

KeyPressed ==
  /\ ui.at = "loop" /\ evs' = evs /\ ag' = ag /\ seen' = seen
  /\ ui' \in UiSet /\ ui'.at \in {"loop", "drain"} /\ inq' \in Seq(TuiOps)
  /\ ui'.qids = ui.qids /\ ui'.open = ui.open /\ ui'.buf = ui.buf
  /\ ui'.queue = ui.queue /\ ui'.bye = ui.bye
  /\ \/ ui'.phase = ui.phase
     \/ ui.phase = "idle" /\ ui'.phase = "generating" /\ Outstanding'
  /\ Outstanding => Outstanding'

LEMMA DisplayKeys ==
  ASSUME TuiTypes, DisplayInv, KeyPressed
  PROVE  DisplayInv'
<1>1. /\ ui.at # "over" /\ evs' = evs /\ ag' = ag /\ ui'.open = ui.open /\ ui'.buf = ui.buf
      /\ BusyPhase => BusyPhase'
      /\ ui.phase = "idle" => ui'.phase = "idle" \/ Outstanding'
      /\ Outstanding => Outstanding'
  BY DEF KeyPressed, BusyPhase
<1>2. /\ ag.pc \in InTurns => AfterAt(evs, Len(evs), Busies, KeepsBusy, BusyPhase)
      /\ ag.pc = "idle" =>
           /\ AfterAt(evs, Len(evs), Idles, KeepsIdle, ui.phase = "idle") \/ Outstanding
           /\ AfterAt(evs, Len(evs), EndsText, NoText, ~ui.buf)
      /\ ag.pc \notin {"run", "exited"} => AfterAt(evs, Len(evs), Closing, NotOpening, ui.open = 0)
      /\ ui.open <= 1
      /\ \A i \in DOMAIN evs : evs[i].type = "tool_start" =>
           AfterAt(evs, i - 1, Closing, NotOpening, ui.open = 0)
  BY <1>1 DEF DisplayInv, After
<1>3. ag.pc \in InTurns => AfterAt(evs, Len(evs), Busies, KeepsBusy, BusyPhase')
  BY <1>1, <1>2, AfterNow
<1>4. ASSUME ag.pc = "idle", ~Outstanding'
      PROVE  AfterAt(evs, Len(evs), Idles, KeepsIdle, ui'.phase = "idle")
  BY <1>1, <1>2, <1>4, AfterNow
<1> QED BY <1>1, <1>2, <1>3, <1>4 DEF DisplayInv, After

-----------------------------------------------------------------------------
(* The start and the end of the agent *)

EndsRight(es) ==
  /\ ag.pc # "exited" /\ ag'.pc # "loading" /\ (ag.pc = "gone" => ag'.pc = "exited")
  /\ seen'.killed = seen.killed
  /\ \A k \in DOMAIN es : /\ es[k].type = "exited" => ag'.pc = "exited"
                          /\ es[k].type = "bye" => ag'.pc \in {"gone", "exited"}

LEMMA StartPrints ==
  ASSUME TuiTypes, StartInv, NEW es \in Seq(TuiEvents), ui' = ui, evs' = evs \o es, EndsRight(es)
  PROVE  StartInv'
<1>1. /\ DOMAIN evs' = 1 .. Len(evs) + Len(es)
      /\ DOMAIN evs = 1 .. Len(evs) /\ DOMAIN es = 1 .. Len(es)
      /\ \A x \in 1 .. Len(evs) : evs'[x] = evs[x]
      /\ \A k \in 1 .. Len(es) : evs'[Len(evs) + k] = es[k]
      /\ \A x \in 1 .. Len(evs) + Len(es) :
           x \in 1 .. Len(evs) \/ \E k \in 1 .. Len(es) : x = Len(evs) + k
  BY SeqJoined DEF TuiTypes
<1>2. /\ ag.pc # "exited" /\ ag'.pc # "loading" /\ (ag.pc = "gone" => ag'.pc = "exited")
      /\ seen'.killed = seen.killed
  BY DEF EndsRight
<1>3. ASSUME NEW i \in DOMAIN evs'
      PROVE  /\ evs'[i].type = "exited" => ag'.pc = "exited"
             /\ evs'[i].type = "bye" => ag'.pc \in {"gone", "exited"}
  <2>1. CASE i \in 1 .. Len(evs)
    BY <1>1, <1>2, <2>1 DEF StartInv
  <2>2. CASE \E k \in 1 .. Len(es) : i = Len(evs) + k
    BY <1>1, <2>2 DEF EndsRight
  <2> QED BY <1>1, <2>1, <2>2
<1> QED BY <1>2, <1>3 DEF StartInv

LEMMA StartTakes ==
  ASSUME TuiTypes, StartInv, Takes
  PROVE  StartInv'
<1> DEFINE e == Head(evs)
<1>1. evs \in Seq(TuiEvents) /\ evs # <<>> /\ evs' = Tail(evs) /\ ag' = ag /\ ui.at # "over"
  BY DEF TuiTypes, Takes
<1>2. /\ DOMAIN evs = 1 .. Len(evs) /\ DOMAIN evs' = 1 .. Len(evs) - 1 /\ Len(evs) \in Nat
      /\ e = evs[1] /\ Len(evs) >= 1 /\ e \in TuiEvents
      /\ \A i \in 1 .. Len(evs) - 1 : evs'[i] = evs[i + 1]
  BY <1>1, SeqTail
<1>3. 1 \in DOMAIN evs /\ \A i \in DOMAIN evs' : i + 1 \in DOMAIN evs /\ evs'[i] = evs[i + 1]
  BY <1>2
<1>4. \A i \in DOMAIN evs' : /\ evs'[i].type = "exited" => ag.pc = "exited"
                             /\ evs'[i].type = "bye" => ag.pc \in {"gone", "exited"}
  BY <1>3 DEF StartInv
<1>5. e.type \in {"exited", "bye"} \/ ui.bye => ag.pc \in {"gone", "exited"}
  BY <1>2, <1>3 DEF StartInv
<1>6. ag.pc # "loading"
  BY <1>1 DEF StartInv
<1> HIDE DEF e
<1>7. ui'.bye => ag.pc \in {"gone", "exited"}
  BY <1>5 DEF Takes, e
<1>8. ui'.at = "over" => ag.pc \in {"gone", "exited"} /\ ~seen'.killed
  BY <1>5 DEF Takes, AgentUp, e
<1>9. ui'.at = "hello" => ui'.prompts = 0 /\ ui'.pending = {}
  <2>1. SUFFICES ASSUME ui'.at = "hello" PROVE ui'.prompts = 0 /\ ui'.pending = {}
    OBVIOUS
  <2>2. ui.at = "hello" /\ ui'.prompts = ui.prompts /\ ui'.pending = PendingAfter(ui, e)
    BY <2>1 DEF Takes, e
  <2>3. ui.prompts = 0 /\ ui.pending = {}
    BY <2>2 DEF StartInv
  <2> QED BY <2>2, <2>3 DEF PendingAfter
<1>10. ui'.at \in {"loop", "drain"} => ui'.queue
  <2>1. SUFFICES ASSUME ui'.at \in {"loop", "drain"} PROVE ui'.queue
    OBVIOUS
  <2>2. ui.queue
    BY <2>1 DEF Takes, StartInv
  <2> QED BY <2>2 DEF Takes
<1> QED BY <1>1, <1>4, <1>6, <1>7, <1>8, <1>9, <1>10 DEF StartInv

LEMMA StartKeys ==
  ASSUME TuiTypes, StartInv, KeyPressed
  PROVE  StartInv'
BY DEF StartInv, KeyPressed

-----------------------------------------------------------------------------
(* The order of prompts, and none lost *)

LEMMA OrderTakes ==
  ASSUME TuiTypes, OrderInv, TakenInv, Takes
  PROVE  OrderInv' /\ TakenInv' /\ (Waiting \cup Settled)' = Waiting \cup Settled
<1>1. /\ inq' = inq /\ ag' = ag /\ ui'.prompts = ui.prompts /\ ui'.asked = ui.asked
      /\ seen'.ran = seen.ran /\ seen'.refused = seen.refused /\ seen'.dropped = seen.dropped
  BY DEF Takes
<1>2. Waiting' = Waiting /\ Settled' = Settled
  BY <1>1 DEF Waiting, Settled
<1> QED BY <1>1, <1>2 DEF OrderInv, TakenInv

LEMMA ByeTakes ==
  ASSUME TuiTypes, ByeInv, Takes
  PROVE  ByeInv'
<1>1. /\ ag' = ag /\ ui'.asked = ui.asked /\ seen'.died = seen.died
      /\ ui'.queue => ui.queue \/ Head(evs).type = "hello"
      /\ seen'.ran = seen.ran /\ seen'.refused = seen.refused /\ seen'.dropped = seen.dropped
  BY DEF Takes
<1>2. QuitServed => QuitServed'
  BY <1>1 DEF QuitServed, Settled
<1>3. evs \in Seq(TuiEvents) /\ evs # <<>> /\ evs' = Tail(evs)
  BY DEF TuiTypes, Takes
<1>4. /\ DOMAIN evs = 1 .. Len(evs) /\ DOMAIN evs' = 1 .. Len(evs) - 1 /\ Len(evs) \in Nat
      /\ Head(evs) = evs[1] /\ Len(evs) >= 1
      /\ \A i \in 1 .. Len(evs) - 1 : evs'[i] = evs[i + 1]
  BY <1>3, SeqTail
<1>5. 1 \in DOMAIN evs /\ \A i \in DOMAIN evs' : i + 1 \in DOMAIN evs /\ evs'[i] = evs[i + 1]
  BY <1>4
<1>6. ASSUME ~ui.queue, \A i \in DOMAIN evs : evs[i].type # "hello"
      PROVE  ~ui'.queue /\ \A i \in DOMAIN evs' : evs'[i].type # "hello"
  BY <1>1, <1>4, <1>5, <1>6
<1> QED BY <1>1, <1>2, <1>6 DEF ByeInv

-----------------------------------------------------------------------------
(* Pending prompts *)

LEMMA PendTakes ==
  ASSUME TuiTypes, PendInv, Takes
  PROVE  PendInv'
<1>1. SUFFICES ASSUME ui'.at # "over", ag.pc # "exited"
               PROVE  PendInv'
  BY DEF PendInv, Takes
<1> DEFINE e == Head(evs)
           m == Tail(evs)
           out(n, p) == AfterAt(evs, n, QueuesWithout(p), KeepsOut(p), p \notin ui.qids)
           out2(n, p) == AfterAt(m, n, QueuesWithout(p), KeepsOut(p), p \notin ui'.qids)
<1>2. /\ evs \in Seq(TuiEvents) /\ evs # <<>> /\ ui \in UiSet /\ ui.at # "over" /\ evs' = m
      /\ ui'.pending = PendingAfter(ui, e) /\ ag' = ag /\ ui'.prompts = ui.prompts
      /\ ui'.qids = IF e.type = "queue" THEN e.items ELSE ui.qids
      /\ seen'.ran = seen.ran /\ seen'.refused = seen.refused
      /\ seen'.dropped = seen.dropped /\ seen.cleared \subseteq seen'.cleared
      /\ e.type = "idle" => ui.pending \ ui.qids \subseteq seen'.cleared
  BY <1>1 DEF TuiTypes, Takes
<1>3. /\ ui.pending \subseteq 1 .. ui.prompts
      /\ 1 .. ui.prompts \subseteq ui.pending \cup seen.ran \cup seen.refused \cup seen.cleared
      /\ \A i \in DOMAIN evs :
           /\ evs[i].type \in TurnTypes => evs[i].id \in seen.ran \cup {0}
           /\ evs[i].type = "rejected" => evs[i].id \in seen.refused \cup {0}
      /\ ag.cur \in seen.ran \cup {0}
      /\ \A p \in ui.pending \cap seen.ran :
           \/ \E i \in DOMAIN evs : evs[i].type \in TurnTypes /\ evs[i].id = p
           \/ ag.cur = p /\ ag.pc \in {"begin", "turn", "squeeze"}
      /\ \A p \in ui.pending \cap seen.refused :
           \E i \in DOMAIN evs : evs[i].type = "rejected" /\ evs[i].id = p
      /\ \A p \in seen.dropped : p # 0 => out(Len(evs), p)
      /\ \A p \in ui.pending \cap seen.dropped :
           \/ ag.pc \in InTurns \cup {"settle"}
           \/ \E i \in DOMAIN evs : evs[i].type = "idle" /\ out(i - 1, p)
  BY <1>1, <1>2 DEF PendInv, After
<1>4. /\ m \in Seq(TuiEvents) /\ Len(m) = Len(evs) - 1 /\ Len(evs) \in Nat /\ Len(evs) >= 1
      /\ DOMAIN evs = 1 .. Len(evs) /\ DOMAIN m = 1 .. Len(evs) - 1
      /\ e = evs[1] /\ e \in TuiEvents
      /\ \A i \in 1 .. Len(evs) - 1 : m[i] = evs[i + 1]
  BY <1>2, SeqTail
<1>5. /\ 1 \in DOMAIN evs /\ \A i \in DOMAIN m : i + 1 \in DOMAIN evs /\ m[i] = evs[i + 1]
      /\ Len(evs) \in 1 .. Len(evs)
      /\ \A i \in DOMAIN evs : i # 1 => i - 1 \in DOMAIN m /\ m[i - 1] = evs[i]
                                       /\ i - 1 \in 1 .. Len(evs) /\ (i - 1) - 1 = i - 2
  BY <1>4
<1> HIDE DEF e, m
<1>6. ui'.pending \subseteq ui.pending
  BY <1>2 DEF PendingAfter
<1>7. ASSUME NEW p \in ui.pending, p \notin ui'.pending
      PROVE  p \in seen'.ran \cup seen'.refused \cup seen'.cleared
  <2>0. p # 0
    BY <1>3, <1>7
  <2>1. CASE e.type = "idle"
    BY <1>2, <1>7, <2>1 DEF PendingAfter
  <2>2. CASE e.type \in TurnTypes
    <3>1. e.type # "idle" /\ e.id \in seen.ran \cup {0}
      BY <1>3, <1>4, <1>5, <2>2 DEF TurnTypes
    <3>2. p = e.id
      BY <1>2, <1>7, <2>2, <3>1 DEF PendingAfter
    <3> QED BY <1>2, <2>0, <3>1, <3>2
  <2>3. CASE e.type = "rejected"
    BY <1>2, <1>3, <1>4, <1>5, <1>7, <2>0, <2>3 DEF PendingAfter, TurnTypes
  <2> QED BY <1>2, <1>7, <2>1, <2>2, <2>3 DEF PendingAfter
<1>8. 1 .. ui.prompts \subseteq ui'.pending \cup seen'.ran \cup seen'.refused \cup seen'.cleared
  BY <1>2, <1>3, <1>7
<1>9. \A i \in DOMAIN m :
        /\ m[i].type \in TurnTypes => m[i].id \in seen.ran \cup {0}
        /\ m[i].type = "rejected" => m[i].id \in seen.refused \cup {0}
  BY <1>3, <1>5
<1>10. ASSUME NEW p \in ui'.pending \cap seen.ran
       PROVE  \/ \E i \in DOMAIN m : m[i].type \in TurnTypes /\ m[i].id = p
              \/ ag.cur = p /\ ag.pc \in {"begin", "turn", "squeeze"}
  <2>1. SUFFICES ASSUME NEW i \in DOMAIN evs, evs[i].type \in TurnTypes, evs[i].id = p
                 PROVE  \E x \in DOMAIN m : m[x].type \in TurnTypes /\ m[x].id = p
    BY <1>3, <1>6
  <2>2. i # 1
    <3>1. SUFFICES ASSUME i = 1 PROVE FALSE
      OBVIOUS
    <3>2. e.type \in TurnTypes /\ e.id = p /\ e.type # "idle"
      BY <1>4, <2>1, <3>1 DEF TurnTypes
    <3> QED BY <1>2, <3>2 DEF PendingAfter
  <2> QED BY <1>5, <2>1, <2>2
<1>11. ASSUME NEW p \in ui'.pending \cap seen.refused
       PROVE  \E i \in DOMAIN m : m[i].type = "rejected" /\ m[i].id = p
  <2>1. PICK i \in DOMAIN evs : evs[i].type = "rejected" /\ evs[i].id = p
    BY <1>3, <1>6
  <2>2. i # 1
    <3>1. SUFFICES ASSUME i = 1 PROVE FALSE
      OBVIOUS
    <3>2. e.type = "rejected" /\ e.id = p
      BY <1>4, <2>1, <3>1
    <3> QED BY <1>2, <3>2 DEF PendingAfter
  <2> QED BY <1>5, <2>1, <2>2
<1>12. ASSUME NEW p, NEW n \in 1 .. Len(evs), out(n, p) PROVE out2(n - 1, p)
  <2>1. /\ e \in QueuesWithout(p) => p \notin ui'.qids
        /\ p \notin ui.qids /\ e \in KeepsOut(p) => p \notin ui'.qids
    BY <1>2 DEF QueuesWithout, KeepsOut
  <2>2. /\ evs[1] \in QueuesWithout(p) => p \notin ui'.qids
        /\ p \notin ui.qids /\ evs[1] \in KeepsOut(p) => p \notin ui'.qids
    BY <1>4, <2>1
  <2> QED BY <1>2, <1>12, <2>2, AfterTail DEF m
<1>13. ASSUME NEW p \in ui'.pending \cap seen.dropped
       PROVE  \/ ag.pc \in InTurns \cup {"settle"}
              \/ \E i \in DOMAIN m : m[i].type = "idle" /\ out2(i - 1, p)
  <2>1. SUFFICES ASSUME NEW i \in DOMAIN evs, evs[i].type = "idle", out(i - 1, p)
                 PROVE  \E x \in DOMAIN m : m[x].type = "idle" /\ out2(x - 1, p)
    BY <1>3, <1>6
  <2>2. i # 1
    <3>1. SUFFICES ASSUME i = 1 PROVE FALSE
      OBVIOUS
    <3>2. e.type = "idle"
      BY <1>4, <2>1, <3>1
    <3>3. i - 1 = 0
      BY <3>1
    <3>4. p \notin ui.qids
      BY <2>1, <3>3, AfterNone
    <3> QED BY <1>2, <3>2, <3>4 DEF PendingAfter
  <2>3. out2((i - 1) - 1, p)
    BY <1>5, <1>12, <2>1, <2>2
  <2> QED BY <1>5, <2>1, <2>2, <2>3
<1>14. \A p \in seen.dropped : p # 0 => out2(Len(m), p)
  <2>1. TAKE p \in seen.dropped
  <2>2. HAVE p # 0
  <2>3. out2(Len(evs) - 1, p)
    BY <1>3, <1>5, <1>12, <2>2
  <2> QED BY <1>4, <2>3
<1>15. ui'.pending \subseteq 1 .. ui.prompts
  BY <1>3, <1>6
<1>16. /\ \A p \in seen'.dropped : p # 0 => After(QueuesWithout(p), KeepsOut(p), p \notin ui.qids)'
       /\ \A p \in (ui.pending \cap seen.dropped)' :
            \/ ag'.pc \in InTurns \cup {"settle"}
            \/ \E i \in DOMAIN evs' : evs'[i].type = "idle"
                  /\ AfterAt(evs', i - 1, QueuesWithout(p), KeepsOut(p), p \notin ui'.qids)
  BY <1>2, <1>13, <1>14 DEF After
<1> QED BY <1>2, <1>3, <1>8, <1>9, <1>10, <1>11, <1>15, <1>16 DEF PendInv

LEMMA PendKeys ==
  ASSUME TuiTypes, OrderInv, PendInv, KeyPressed,
         ag.pc # "exited" =>
           \/ ui'.prompts = ui.prompts /\ ui'.pending = ui.pending
           \/ ui'.prompts = ui.prompts + 1 /\ ui'.pending = ui.pending \cup {ui'.prompts}
  PROVE  PendInv'
<1>1. SUFFICES ASSUME ag.pc # "exited" PROVE PendInv'
  BY DEF PendInv, KeyPressed
<1>2. /\ ui.at # "over" /\ evs' = evs /\ ag' = ag /\ seen' = seen /\ ui'.qids = ui.qids
      /\ ui.prompts \in Nat
  BY DEF KeyPressed, TuiTypes, UiSet
<1>3. CASE ui'.prompts = ui.prompts /\ ui'.pending = ui.pending
  BY <1>1, <1>2, <1>3 DEF PendInv, After
<1>4. CASE ui'.prompts = ui.prompts + 1 /\ ui'.pending = ui.pending \cup {ui'.prompts}
  <2>1. ui'.prompts \notin seen.ran \cup seen.refused \cup seen.dropped
    BY <1>2, <1>4 DEF OrderInv, Settled
  <2>2. 1 .. ui'.prompts = 1 .. ui.prompts \cup {ui'.prompts}
    BY <1>2, <1>4
  <2>3. /\ ui'.pending \cap seen.ran = ui.pending \cap seen.ran
        /\ ui'.pending \cap seen.refused = ui.pending \cap seen.refused
        /\ ui'.pending \cap seen.dropped = ui.pending \cap seen.dropped
    BY <1>4, <2>1
  <2>4. /\ ui'.pending \subseteq 1 .. ui'.prompts
        /\ 1 .. ui'.prompts \subseteq ui'.pending \cup seen.ran \cup seen.refused \cup seen.cleared
    BY <1>1, <1>2, <1>4, <2>2 DEF PendInv
  <2> QED BY <1>1, <1>2, <2>3, <2>4 DEF PendInv, After
<1> QED BY <1>1, <1>3, <1>4

PendRight(es) ==
  /\ seen.ran \subseteq seen'.ran /\ seen.refused \subseteq seen'.refused
  /\ seen'.cleared = seen.cleared
  /\ \A k \in DOMAIN es : /\ es[k].type \in TurnTypes => es[k].id \in seen'.ran \cup {0}
                          /\ es[k].type = "rejected" => es[k].id \in seen'.refused \cup {0}
  /\ ag'.cur \in seen'.ran \cup {0}
  /\ \A p \in seen'.ran \ seen.ran : ag'.cur = p /\ ag'.pc = "begin"
  /\ ag.pc \in {"begin", "turn", "squeeze"} /\ ag.cur # 0 =>
       \/ \E k \in DOMAIN es : es[k].type \in TurnTypes /\ es[k].id = ag.cur
       \/ ag'.cur = ag.cur /\ ag'.pc \in {"begin", "turn", "squeeze"}
  /\ \A p \in seen'.refused \ seen.refused :
       p # 0 => \E k \in DOMAIN es : es[k].type = "rejected" /\ es[k].id = p
  /\ \A p \in seen'.dropped : p # 0 =>
       /\ p \in seen.dropped => Kept(es, KeepsOut(p))
       /\ p \notin seen.dropped => Made(es, QueuesWithout(p), KeepsOut(p))
       /\ \/ ag'.pc \in InTurns \cup {"settle"}
          \/ p \in seen.dropped /\ ag.pc \notin InTurns \cup {"settle"}
          \/ p \in seen.dropped /\ 1 \in DOMAIN es /\ es[1].type = "idle"
          \/ 2 \in DOMAIN es /\ es[1] \in QueuesWithout(p) /\ es[2].type = "idle"

LEMMA PendPrints ==
  ASSUME TuiTypes, PendInv, NEW es \in Seq(TuiEvents), ui' = ui, evs' = evs \o es,
         ag.pc # "exited", ag'.pc # "exited" => PendRight(es)
  PROVE  PendInv'
<1>1. SUFFICES ASSUME ui.at # "over", ag'.pc # "exited" PROVE PendInv'
  BY DEF PendInv
<1> DEFINE m == evs \o es
           out(n, p) == AfterAt(evs, n, QueuesWithout(p), KeepsOut(p), p \notin ui.qids)
           out2(n, p) == AfterAt(m, n, QueuesWithout(p), KeepsOut(p), p \notin ui.qids)
<1>2. evs \in Seq(TuiEvents) /\ evs' = m /\ PendRight(es)
  BY <1>1 DEF TuiTypes
<1>3. /\ ui.pending \subseteq 1 .. ui.prompts
      /\ 1 .. ui.prompts \subseteq ui.pending \cup seen.ran \cup seen.refused \cup seen.cleared
      /\ \A i \in DOMAIN evs :
           /\ evs[i].type \in TurnTypes => evs[i].id \in seen.ran \cup {0}
           /\ evs[i].type = "rejected" => evs[i].id \in seen.refused \cup {0}
      /\ ag.cur \in seen.ran \cup {0}
      /\ \A p \in ui.pending \cap seen.ran :
           \/ \E i \in DOMAIN evs : evs[i].type \in TurnTypes /\ evs[i].id = p
           \/ ag.cur = p /\ ag.pc \in {"begin", "turn", "squeeze"}
      /\ \A p \in ui.pending \cap seen.refused :
           \E i \in DOMAIN evs : evs[i].type = "rejected" /\ evs[i].id = p
      /\ \A p \in seen.dropped : p # 0 => out(Len(evs), p)
      /\ \A p \in ui.pending \cap seen.dropped :
           \/ ag.pc \in InTurns \cup {"settle"}
           \/ \E i \in DOMAIN evs : evs[i].type = "idle" /\ out(i - 1, p)
  BY <1>1 DEF PendInv, After
<1>4. /\ DOMAIN m = 1 .. Len(evs) + Len(es) /\ Len(evs) \in Nat /\ Len(es) \in Nat
      /\ DOMAIN evs = 1 .. Len(evs) /\ DOMAIN es = 1 .. Len(es) /\ Len(m) = Len(evs) + Len(es)
      /\ \A x \in 1 .. Len(evs) : m[x] = evs[x]
      /\ \A k \in 1 .. Len(es) : m[Len(evs) + k] = es[k]
      /\ \A x \in 1 .. Len(evs) + Len(es) :
           x \in 1 .. Len(evs) \/ \E k \in 1 .. Len(es) : x = Len(evs) + k
  BY <1>2, SeqJoined
<1> HIDE DEF m
<1>5. /\ \A i \in DOMAIN evs : i \in DOMAIN m /\ m[i] = evs[i]
      /\ \A k \in DOMAIN es : Len(evs) + k \in DOMAIN m /\ m[Len(evs) + k] = es[k]
  BY <1>4
<1>6. \A p \in ui.pending : p # 0
  BY <1>3
<1>7. ASSUME NEW i \in DOMAIN m
      PROVE  /\ m[i].type \in TurnTypes => m[i].id \in seen'.ran \cup {0}
             /\ m[i].type = "rejected" => m[i].id \in seen'.refused \cup {0}
  <2>1. CASE i \in 1 .. Len(evs)
    BY <1>2, <1>3, <1>4, <2>1 DEF PendRight
  <2>2. CASE \E k \in 1 .. Len(es) : i = Len(evs) + k
    <3>1. PICK k \in 1 .. Len(es) : i = Len(evs) + k
      BY <2>2
    <3>2. k \in DOMAIN es /\ m[i] = es[k]
      BY <1>4, <3>1
    <3> QED BY <1>2, <3>2 DEF PendRight
  <2> QED BY <1>4, <2>1, <2>2
<1>8. ASSUME NEW p \in ui.pending \cap seen'.ran
      PROVE  \/ \E i \in DOMAIN m : m[i].type \in TurnTypes /\ m[i].id = p
             \/ ag'.cur = p /\ ag'.pc \in {"begin", "turn", "squeeze"}
  <2>1. CASE p \notin seen.ran
    BY <1>2, <2>1 DEF PendRight
  <2>2. CASE \E i \in DOMAIN evs : evs[i].type \in TurnTypes /\ evs[i].id = p
    BY <1>5, <2>2
  <2>3. CASE ag.cur = p /\ ag.pc \in {"begin", "turn", "squeeze"}
    <3>1. \/ \E k \in DOMAIN es : es[k].type \in TurnTypes /\ es[k].id = p
          \/ ag'.cur = p /\ ag'.pc \in {"begin", "turn", "squeeze"}
      BY <1>2, <1>6, <2>3 DEF PendRight
    <3> QED BY <1>5, <3>1
  <2> QED BY <1>3, <2>1, <2>2, <2>3
<1>9. ASSUME NEW p \in ui.pending \cap seen'.refused
      PROVE  \E i \in DOMAIN m : m[i].type = "rejected" /\ m[i].id = p
  <2>1. CASE p \in seen.refused
    BY <1>3, <1>5, <2>1
  <2>2. CASE p \notin seen.refused
    BY <1>2, <1>5, <1>6, <2>2 DEF PendRight
  <2> QED BY <2>1, <2>2
<1>10. ASSUME NEW p \in seen'.dropped, p # 0 PROVE out2(Len(m), p)
  <2>1. CASE p \in seen.dropped
    <3>1. Kept(es, KeepsOut(p))
      BY <1>2, <1>10, <2>1 DEF PendRight
    <3> QED BY <1>2, <1>3, <1>10, <2>1, <3>1, AfterKept DEF m
  <2>2. CASE p \notin seen.dropped
    <3>1. Made(es, QueuesWithout(p), KeepsOut(p))
      BY <1>2, <1>10, <2>2 DEF PendRight
    <3> QED BY <1>2, <3>1, AfterMade DEF m
  <2> QED BY <2>1, <2>2
<1>11. ASSUME NEW p, NEW n \in 0 .. Len(evs), out(n, p) PROVE out2(n, p)
  BY <1>2, <1>11, AfterSame DEF m
<1>12. ASSUME NEW p \in ui.pending \cap seen'.dropped
       PROVE  \/ ag'.pc \in InTurns \cup {"settle"}
              \/ \E i \in DOMAIN m : m[i].type = "idle" /\ out2(i - 1, p)
  <2>1. CASE ag'.pc \in InTurns \cup {"settle"}
    BY <2>1
  <2>2. CASE p \in seen.dropped /\ ag.pc \notin InTurns \cup {"settle"}
    <3>1. PICK i \in DOMAIN evs : evs[i].type = "idle" /\ out(i - 1, p)
      BY <1>3, <2>2
    <3>2. i - 1 \in 0 .. Len(evs)
      BY <1>4
    <3> QED BY <1>5, <1>11, <3>1, <3>2
  <2>3. CASE p \in seen.dropped /\ 1 \in DOMAIN es /\ es[1].type = "idle"
    <3>1. /\ Len(evs) + 1 \in DOMAIN m /\ m[Len(evs) + 1].type = "idle"
          /\ (Len(evs) + 1) - 1 = Len(evs)
      BY <1>4, <1>5, <2>3
    <3>2. Len(evs) \in 0 .. Len(evs)
      BY <1>4
    <3>3. out2(Len(evs), p)
      BY <1>3, <1>6, <1>11, <2>3, <3>2
    <3> QED BY <3>1, <3>3
  <2>4. CASE 2 \in DOMAIN es /\ es[1] \in QueuesWithout(p) /\ es[2].type = "idle"
    <3>1. /\ Len(evs) + 2 \in DOMAIN m /\ m[Len(evs) + 2].type = "idle"
          /\ (Len(evs) + 2) - 1 = Len(evs) + 1
      BY <1>4, <1>5, <2>4
    <3>2. Len(evs) + 1 \in 1 .. Len(evs) + 1 /\ m[Len(evs) + 1] \in QueuesWithout(p)
      BY <1>4, <2>4
    <3>3. \A j \in 1 .. Len(evs) + 1 : ~(Len(evs) + 1 < j)
      BY <1>4
    <3>4. out2(Len(evs) + 1, p)
      BY <3>2, <3>3 DEF AfterAt
    <3> QED BY <3>1, <3>4
  <2> QED BY <1>2, <1>6, <2>1, <2>2, <2>3, <2>4 DEF PendRight
<1>13. /\ \A p \in seen'.dropped : p # 0 => After(QueuesWithout(p), KeepsOut(p), p \notin ui.qids)'
       /\ \A p \in (ui.pending \cap seen.dropped)' :
            \/ ag'.pc \in InTurns \cup {"settle"}
            \/ \E i \in DOMAIN evs' : evs'[i].type = "idle"
                  /\ AfterAt(evs', i - 1, QueuesWithout(p), KeepsOut(p), p \notin ui'.qids)
  BY <1>2, <1>10, <1>12 DEF After
<1>14. ag'.cur \in seen'.ran \cup {0}
       /\ 1 .. ui.prompts \subseteq ui.pending \cup seen'.ran \cup seen'.refused \cup seen'.cleared
  BY <1>2, <1>3 DEF PendRight
<1> QED BY <1>2, <1>3, <1>7, <1>8, <1>9, <1>13, <1>14 DEF PendInv

-----------------------------------------------------------------------------
(* Order, at the agent *)

LEMMA RisingTail ==
  ASSUME NEW s \in Seq(TuiOps), s # <<>>, Rising(s)
  PROVE  Rising(Tail(s)) /\ Before({Head(s).id}, IdsOf(Tail(s)))
<1>1. /\ Len(s) \in Nat /\ Len(s) >= 1 /\ DOMAIN s = 1 .. Len(s) /\ DOMAIN Tail(s) = 1 .. Len(s) - 1
      /\ Head(s) = s[1] /\ \A i \in 1 .. Len(s) - 1 : Tail(s)[i] = s[i + 1]
  BY SeqTail
<1>2. ASSUME NEW i \in DOMAIN Tail(s), NEW j \in DOMAIN Tail(s), i < j,
             Tail(s)[i].id # 0, Tail(s)[j].id # 0
      PROVE  Tail(s)[i].id < Tail(s)[j].id
  <2>1. /\ i + 1 \in DOMAIN s /\ j + 1 \in DOMAIN s /\ i + 1 < j + 1
        /\ Tail(s)[i] = s[i + 1] /\ Tail(s)[j] = s[j + 1]
    BY <1>1, <1>2
  <2> QED BY <1>2, <2>1 DEF Rising
<1>3. ASSUME NEW b \in IdsOf(Tail(s)), Head(s).id # 0, b # 0 PROVE Head(s).id < b
  <2>1. PICK j \in DOMAIN Tail(s) : b = Tail(s)[j].id
    BY DEF IdsOf
  <2>2. 1 \in DOMAIN s /\ j + 1 \in DOMAIN s /\ 1 < j + 1 /\ Tail(s)[j] = s[j + 1]
    BY <1>1
  <2> QED BY <1>1, <1>3, <2>1, <2>2 DEF Rising
<1> QED BY <1>2, <1>3 DEF Rising, Before

LEMMA RisingAppend ==
  ASSUME NEW s \in Seq(TuiOps), NEW o \in TuiOps, Rising(s), Before(IdsOf(s), {o.id})
  PROVE  Rising(Append(s, o))
<1>1. /\ Append(s, o) \in Seq(TuiOps) /\ DOMAIN Append(s, o) = 1 .. Len(s) + 1
      /\ DOMAIN s = 1 .. Len(s) /\ Len(s) \in Nat
      /\ \A i \in 1 .. Len(s) : Append(s, o)[i] = s[i]
      /\ Append(s, o)[Len(s) + 1] = o
  OBVIOUS
<1> DEFINE a == Append(s, o)
<1> HIDE DEF a
<1>2. ASSUME NEW i \in DOMAIN a, NEW j \in DOMAIN a, i < j, a[i].id # 0, a[j].id # 0
      PROVE  a[i].id < a[j].id
  <2>1. i \in DOMAIN s /\ a[i] = s[i]
    BY <1>1, <1>2 DEF a
  <2>2. CASE j \in DOMAIN s
    BY <1>1, <1>2, <2>1, <2>2 DEF Rising, a
  <2>3. CASE j = Len(s) + 1
    <3>1. a[j] = o
      BY <1>1, <2>3 DEF a
    <3>2. a[i].id \in IdsOf(s)
      BY <2>1 DEF IdsOf
    <3> QED BY <1>2, <3>1, <3>2 DEF Before
  <2> QED BY <1>1, <2>2, <2>3 DEF a
<1> QED BY <1>2 DEF Rising, a

LEMMA OrderKeeps ==
  ASSUME TuiTypes, OrderInv, inq' = inq, ui' = ui, seen'.dropped = seen.dropped,
         Rising(ag'.ctl), IdsOf(ag'.ctl) \subseteq IdsOf(ag.ctl),
         IdsOf(ag'.pq) \subseteq IdsOf(ag.pq),
         (Waiting \cup Settled)' \subseteq Waiting \cup Settled \cup {0}
  PROVE  OrderInv'
<1>1. /\ Rising(inq) /\ Before(IdsOf(ag'.ctl), IdsOf(inq))
      /\ Before(IdsOf(ag'.pq), IdsOf(ag'.ctl)) /\ Before(IdsOf(ag'.pq), IdsOf(inq))
      /\ Before(seen.dropped, IdsOf(ag'.pq)) /\ Before(seen.dropped, IdsOf(ag'.ctl))
      /\ Before(seen.dropped, IdsOf(inq))
  BY DEF OrderInv, Before
<1>2. ui.prompts \in Nat
  BY DEF TuiTypes, UiSet
<1>3. \A p \in (Waiting \cup Settled)' : p <= ui.prompts
  BY <1>2 DEF OrderInv
<1> QED BY <1>1, <1>3 DEF OrderInv

LEMMA TakenKeeps ==
  ASSUME TuiTypes, TakenInv, inq' = inq, ui' = ui, ag.pc # "exited",
         ag'.quit \/ ag'.after => ag.quit \/ ag.after,
         Waiting \cup Settled \subseteq (Waiting \cup Settled)' \cup {0}
  PROVE  TakenInv'
<1>1. \A p \in 1 .. ui.prompts : p # 0
  BY DEF TuiTypes, UiSet
<1>2. 1 .. ui.prompts \subseteq (Waiting \cup Settled)'
  BY <1>1 DEF TakenInv
<1> QED BY <1>2 DEF TakenInv

LEMMA SaysOne ==
  ASSUME NEW e \in TuiEvents
  PROVE  /\ <<e>> \in Seq(TuiEvents) /\ DOMAIN <<e>> = {1} /\ <<e>>[1] = e
         /\ \A M, K : e \in M => Made(<<e>>, M, K)
         /\ \A K : e \in K => Kept(<<e>>, K)
<1>1. <<e>> \in Seq(TuiEvents) /\ DOMAIN <<e>> = {1} /\ <<e>>[1] = e
  OBVIOUS
<1> QED BY <1>1 DEF Made, Kept

LEMMA SaysTwo ==
  ASSUME NEW d \in TuiEvents, NEW e \in TuiEvents
  PROVE  /\ <<d, e>> \in Seq(TuiEvents) /\ DOMAIN <<d, e>> = {1, 2}
         /\ <<d, e>>[1] = d /\ <<d, e>>[2] = e
         /\ \A M, K : e \in M => Made(<<d, e>>, M, K)
         /\ \A M, K : d \in M /\ e \in K => Made(<<d, e>>, M, K)
         /\ \A K : d \in K /\ e \in K => Kept(<<d, e>>, K)
<1>1. /\ <<d, e>> \in Seq(TuiEvents) /\ DOMAIN <<d, e>> = {1, 2}
      /\ <<d, e>>[1] = d /\ <<d, e>>[2] = e
  OBVIOUS
<1>2. ASSUME NEW M, NEW K, e \in M PROVE Made(<<d, e>>, M, K)
  <2>1. \A x \in {1, 2} : ~(2 < x)
    OBVIOUS
  <2> QED BY <1>1, <1>2, <2>1 DEF Made
<1>3. ASSUME NEW M, NEW K, d \in M, e \in K PROVE Made(<<d, e>>, M, K)
  <2>1. \A x \in {1, 2} : 1 < x => x = 2
    OBVIOUS
  <2> QED BY <1>1, <1>3, <2>1 DEF Made
<1>4. ASSUME NEW K, d \in K, e \in K PROVE Kept(<<d, e>>, K)
  BY <1>1, <1>4 DEF Kept
<1> QED BY <1>1, <1>2, <1>3, <1>4

LEMMA SaysNothing ==
  /\ <<>> \in Seq(TuiEvents) /\ DOMAIN <<>> = {} /\ \A s \in Seq(TuiEvents) : s \o <<>> = s
  /\ \A K : Kept(<<>>, K)
BY DEF Kept

(* A step that moves no prompt *)
Quiet(es) ==
  /\ ag' \in AgSet /\ inq' = inq /\ ui' = ui /\ seen' = seen /\ evs' = evs \o es
  /\ ag.pc \notin {"exited", "gone"} /\ ag'.pc \notin {"exited", "loading"}
  /\ ag'.pq = ag.pq /\ ag'.drops = ag.drops
  /\ \/ ag'.ctl = ag.ctl
     \/ ag.ctl # <<>> /\ ag'.ctl = Tail(ag.ctl) /\ Head(ag.ctl).id = 0
  /\ ag'.quit \/ ag'.after => ag.quit \/ ag.after
  /\ ag'.cur \in {ag.cur, 0}
  /\ ag.pc \in {"begin", "turn", "squeeze"} /\ ag.cur # 0 =>
       \/ \E k \in DOMAIN es : es[k].type \in TurnTypes /\ es[k].id = ag.cur
       \/ ag'.cur = ag.cur /\ ag'.pc \in {"begin", "turn", "squeeze"}
  /\ ag.pc \in InTurns \cup {"settle"} =>
       \/ ag'.pc \in InTurns \cup {"settle"}
       \/ 1 \in DOMAIN es /\ es[1].type = "idle"
  /\ \A k \in DOMAIN es :
       /\ es[k].type \notin {"queue", "exited"}
       /\ es[k].type \in TurnTypes => es[k].id \in {0, ag.cur}
       /\ es[k].type = "rejected" => es[k].id = 0
       /\ es[k].type = "bye" => ag'.pc = "gone"
  /\ (Outstanding => Outstanding') => ShowsRight(es)
  /\ ag'.pc = "gone" => ByeInv'

LEMMA QuietKeeps ==
  ASSUME TuiInv, NEW es \in Seq(TuiEvents), Quiet(es)
  PROVE  TuiInv'
<1>0. /\ TuiTypes /\ DisplayInv /\ StartInv /\ OrderInv /\ TakenInv /\ ByeInv /\ PendInv
  BY DEF TuiInv
<1>1. /\ ag' \in AgSet /\ inq' = inq /\ ui' = ui /\ seen' = seen /\ evs' = evs \o es
      /\ ag.pc \notin {"exited", "gone"} /\ ag'.pc \notin {"exited", "loading"}
      /\ ag'.pq = ag.pq /\ ag'.drops = ag.drops
      /\ ag'.quit \/ ag'.after => ag.quit \/ ag.after
  BY DEF Quiet
<1>2. TuiTypes'
  BY <1>0, <1>1, SeqJoined DEF TuiTypes
<1>3. /\ Rising(ag'.ctl) /\ IdsOf(ag'.ctl) \subseteq IdsOf(ag.ctl)
      /\ IdsOf(ag.ctl) \subseteq IdsOf(ag'.ctl) \cup {0}
  <2>1. CASE ag'.ctl = ag.ctl
    BY <1>0, <2>1 DEF OrderInv
  <2>2. CASE ag.ctl # <<>> /\ ag'.ctl = Tail(ag.ctl) /\ Head(ag.ctl).id = 0
    <3>1. ag.ctl \in Seq(TuiOps) /\ Rising(ag.ctl)
      BY <1>0 DEF TuiTypes, AgSet, OrderInv
    <3>2. IdsOf(ag.ctl) = {Head(ag.ctl).id} \cup IdsOf(Tail(ag.ctl)) /\ Rising(Tail(ag.ctl))
      BY <2>2, <3>1, PromptIdsTail, RisingTail
    <3> QED BY <2>2, <3>2
  <2> QED BY <2>1, <2>2 DEF Quiet
<1>4. Waiting \subseteq Waiting' \cup {0} /\ Waiting' \subseteq Waiting /\ Settled' = Settled
  BY <1>1, <1>3 DEF Waiting, Settled
<1>5. OrderInv'
  <2>1. IdsOf(ag'.pq) = IdsOf(ag.pq) /\ seen'.dropped = seen.dropped
    BY <1>1
  <2>2. (Waiting \cup Settled)' \subseteq Waiting \cup Settled \cup {0}
    BY <1>4
  <2> QED BY <1>0, <1>1, <1>3, <2>1, <2>2, OrderKeeps
<1>6. TakenInv'
  <2>1. Waiting \cup Settled \subseteq (Waiting \cup Settled)' \cup {0}
    BY <1>4
  <2> QED BY <1>0, <1>1, <2>1, TakenKeeps
<1>7. DisplayInv'
  <2>1. Outstanding => Outstanding'
    BY <1>4 DEF Outstanding
  <2>2. ShowsRight(es)
    BY <2>1 DEF Quiet
  <2> QED BY <1>0, <1>1, <2>2, DisplayPrints
<1>8. StartInv'
  <2>1. EndsRight(es)
    BY <1>1 DEF EndsRight, Quiet
  <2> QED BY <1>0, <1>1, <2>1, StartPrints
<1>9. PendInv'
  <2>1. \A p : Kept(es, KeepsOut(p))
    <3>1. \A k \in DOMAIN es : es[k] \in TuiEvents /\ es[k].type # "queue"
      BY DEF Quiet
    <3> QED BY <3>1 DEF Kept, KeepsOut
  <2>2. CASE ui.at = "over"
    BY <1>1, <2>2 DEF PendInv
  <2>3. CASE ui.at # "over"
    <3>1. ag.cur \in seen.ran \cup {0}
      BY <1>0, <1>1, <2>3 DEF PendInv
    <3>2. PendRight(es)
      BY <1>1, <2>1, <3>1 DEF PendRight, Quiet
    <3> QED BY <1>0, <1>1, <3>2, PendPrints
  <2> QED BY <2>2, <2>3
<1>10. ByeInv'
  <2>1. CASE ag'.pc = "gone"
    BY <2>1 DEF Quiet
  <2>2. CASE ag'.pc # "gone"
    BY <1>1, <2>2 DEF ByeInv
  <2> QED BY <2>1, <2>2
<1> QED BY <1>2, <1>5, <1>6, <1>7, <1>8, <1>9, <1>10 DEF TuiInv

(* A step of the turn *)
LEMMA TurnKeeps ==
  ASSUME TuiInv, NEW es \in Seq(TuiEvents), NEW pc \in InTurns \cup {"settle"},
         UNCHANGED <<inq, ui, seen>>, evs' = evs \o es,
         ag' = [ag EXCEPT !.pc = pc] \/ ag' = [ag EXCEPT !.pc = pc, !.rounds = @ + 1],
         ag.pc \in InTurns \cup {"begin"},
         ag.pc \in {"begin", "turn", "squeeze"} /\ ag.cur # 0 =>
           \/ \E k \in DOMAIN es : es[k].type \in TurnTypes /\ es[k].id = ag.cur
           \/ pc \in {"begin", "turn", "squeeze"},
         \A k \in DOMAIN es : /\ es[k].type \notin {"queue", "exited", "bye", "rejected"}
                              /\ es[k].type \in TurnTypes => es[k].id \in {0, ag.cur}
                              /\ es[k].type = "tool_start" => k = 1 /\ ag.pc # "run",
         pc \in InTurns => \/ Made(es, Busies, KeepsBusy)
                           \/ ag.pc \in InTurns /\ Kept(es, KeepsBusy),
         pc # "run" => Made(es, Closing, NotOpening) \/ (ag.pc # "run" /\ Kept(es, NotOpening))
  PROVE  TuiInv'
<1>1. ag \in AgSet
  BY DEF TuiInv, TuiTypes
<1>2. /\ ag' \in AgSet /\ ag'.pc = pc /\ ag'.cur = ag.cur /\ ag'.ctl = ag.ctl /\ ag'.pq = ag.pq
      /\ ag'.drops = ag.drops /\ ag'.quit = ag.quit /\ ag'.after = ag.after
  <2>1. ag.rounds + 1 \in Nat /\ pc \in AgentPcs
    BY <1>1 DEF AgSet, AgentPcs
  <2> QED BY <1>1, <2>1 DEF AgSet
<1>3. pc \notin {"exited", "loading", "idle", "gone"} /\ ag.pc \notin {"exited", "gone"}
  BY DEF InTurns
<1>4. ShowsRight(es)
  BY <1>2, <1>3 DEF ShowsRight
<1>5. Quiet(es)
  BY <1>2, <1>3, <1>4 DEF Quiet
<1> QED BY <1>5, QuietKeeps

LEMMA TurnSays ==
  ASSUME TuiInv, NEW e \in TuiEvents, NEW pc \in InTurns \cup {"settle"},
         UNCHANGED <<inq, ui, seen>>, evs' = evs \o <<e>>,
         ag' = [ag EXCEPT !.pc = pc] \/ ag' = [ag EXCEPT !.pc = pc, !.rounds = @ + 1],
         ag.pc \in InTurns \cup {"begin"},
         ag.pc \in {"begin", "turn", "squeeze"} /\ ag.cur # 0 =>
           \/ e.type \in TurnTypes /\ e.id = ag.cur
           \/ pc \in {"begin", "turn", "squeeze"},
         e.type \notin {"queue", "exited", "bye", "rejected"},
         e.type \in TurnTypes => e.id \in {0, ag.cur},
         e.type = "tool_start" => ag.pc # "run",
         pc \in InTurns => e \in Busies \/ (ag.pc \in InTurns /\ e \in KeepsBusy),
         pc # "run" => ag.pc # "run" /\ e \in NotOpening
  PROVE  TuiInv'
<1> DEFINE es == <<e>>
<1>1. /\ es \in Seq(TuiEvents) /\ DOMAIN es = {1} /\ es[1] = e
      /\ e \in Busies => Made(es, Busies, KeepsBusy)
      /\ e \in KeepsBusy => Kept(es, KeepsBusy)
      /\ e \in NotOpening => Kept(es, NotOpening)
  BY SaysOne
<1> HIDE DEF es
<1>2. evs' = evs \o es
  BY DEF es
<1>3. ag.pc \in {"begin", "turn", "squeeze"} /\ ag.cur # 0 =>
        \/ \E k \in DOMAIN es : es[k].type \in TurnTypes /\ es[k].id = ag.cur
        \/ pc \in {"begin", "turn", "squeeze"}
  BY <1>1
<1>4. \A k \in DOMAIN es : /\ es[k].type \notin {"queue", "exited", "bye", "rejected"}
                           /\ es[k].type \in TurnTypes => es[k].id \in {0, ag.cur}
                           /\ es[k].type = "tool_start" => k = 1 /\ ag.pc # "run"
  BY <1>1
<1> QED BY <1>1, <1>2, <1>3, <1>4, TurnKeeps

LEMMA TurnStep ==
  ASSUME TuiInv, AgentTurn
  PROVE  TuiInv'
<1>1. ag.cur \in Nat /\ UNCHANGED <<inq, ui, seen>>
  BY DEF TuiInv, TuiTypes, AgSet, AgentTurn
<1>2. ASSUME ag.pc \in {"begin", "turn"}, To("gen", <<StateEv("generating", ag.cur)>>) PROVE TuiInv'
  <2> DEFINE e == StateEv("generating", ag.cur)
  <2>1. e \in TuiEvents /\ e.type = "state" /\ e.state = "generating" /\ e.id = ag.cur
    BY <1>1 DEF StateEv, Printed, TuiEvents, EvTypes, EvStates
  <2> HIDE DEF e
  <2>2. e \in Busies /\ e \in NotOpening
    BY <2>1 DEF Busies, BusyStates, NotOpening
  <2>3. ag' = [ag EXCEPT !.pc = "gen"] /\ evs' = evs \o <<e>>
    BY <1>2 DEF To, AgentSays, e
  <2> QED BY <1>1, <1>2, <2>1, <2>2, <2>3, TurnSays DEF InTurns, TurnTypes
<1>3. ASSUME ag.pc \in {"begin", "turn"}, To("squeeze", <<StateEv("compacting", None)>>)
      PROVE  TuiInv'
  <2> DEFINE e == StateEv("compacting", None)
  <2>1. e \in TuiEvents /\ e.type = "state" /\ e.state = "compacting" /\ e.id = 0
    BY DEF StateEv, Printed, TuiEvents, EvTypes, EvStates, None
  <2> HIDE DEF e
  <2>2. e \in Busies /\ e \in NotOpening
    BY <2>1 DEF Busies, BusyStates, NotOpening
  <2>3. ag' = [ag EXCEPT !.pc = "squeeze"] /\ evs' = evs \o <<e>>
    BY <1>3 DEF To, AgentSays, e
  <2> QED BY <1>1, <1>3, <2>1, <2>2, <2>3, TurnSays DEF InTurns, TurnTypes
<1>4. ASSUME ag.pc \in {"begin", "turn", "said"}, To("settle", <<Printed("error", "idle", ag.cur)>>)
      PROVE  TuiInv'
  <2> DEFINE e == Printed("error", "idle", ag.cur)
  <2>1. e \in TuiEvents /\ e.type = "error" /\ e.id = ag.cur
    BY <1>1 DEF Printed, TuiEvents, EvTypes, EvStates
  <2> HIDE DEF e
  <2>2. e \in NotOpening
    BY <2>1 DEF NotOpening
  <2>3. ag' = [ag EXCEPT !.pc = "settle"] /\ evs' = evs \o <<e>>
    BY <1>4 DEF To, AgentSays, e
  <2> QED BY <1>1, <1>4, <2>1, <2>2, <2>3, TurnSays DEF InTurns, TurnTypes
<1>5. ASSUME ag.pc = "gen", To("said", <<Printed("prefill_progress", "generating", ag.cur),
                                         Printed("text_delta", "generating", ag.cur)>>)
      PROVE  TuiInv'
  <2> DEFINE d == Printed("prefill_progress", "generating", ag.cur)
             e == Printed("text_delta", "generating", ag.cur)
  <2>1. /\ d \in TuiEvents /\ d.type = "prefill_progress" /\ d.id = ag.cur
        /\ e \in TuiEvents /\ e.type = "text_delta" /\ e.id = ag.cur
    BY <1>1 DEF Printed, TuiEvents, EvTypes, EvStates
  <2> HIDE DEF d, e
  <2>2. e \in Busies /\ d \in NotOpening /\ e \in NotOpening
    BY <2>1 DEF Busies, NotOpening
  <2>3. ag' = [ag EXCEPT !.pc = "said"] /\ evs' = evs \o <<d, e>>
    BY <1>5 DEF To, AgentSays, d, e
  <2> DEFINE es == <<d, e>>
  <2>4. /\ es \in Seq(TuiEvents) /\ DOMAIN es = {1, 2} /\ es[1] = d /\ es[2] = e
        /\ Made(es, Busies, KeepsBusy) /\ Kept(es, NotOpening)
    BY <2>1, <2>2, SaysTwo
  <2> HIDE DEF es
  <2>5. \A k \in DOMAIN es : es[k].type \in {"prefill_progress", "text_delta"} /\ es[k].id = ag.cur
    BY <2>1, <2>4
  <2>6. evs' = evs \o es /\ "said" \in InTurns \cup {"settle"} /\ ag.pc \in InTurns \cup {"begin"}
    BY <1>5, <2>3 DEF es, InTurns
  <2>7. ag.pc \notin {"begin", "turn", "squeeze", "run"}
    BY <1>5
  <2> QED BY <1>1, <2>3, <2>4, <2>5, <2>6, <2>7, TurnKeeps
<1>6. ASSUME ag.pc = "said", ag' = [ag EXCEPT !.pc = "handoff", !.rounds = @ + 1],
             AgentSays(<<[Printed("turn_done", "idle", ag.cur) EXCEPT !.more = TRUE]>>)
      PROVE  TuiInv'
  <2> DEFINE e == [Printed("turn_done", "idle", ag.cur) EXCEPT !.more = TRUE]
  <2>1. e \in TuiEvents /\ e.type = "turn_done" /\ e.id = ag.cur /\ e.more
    BY <1>1 DEF Printed, TuiEvents, EvTypes, EvStates
  <2> HIDE DEF e
  <2>2. e \in Busies /\ e \in NotOpening
    BY <2>1 DEF Busies, NotOpening
  <2>3. evs' = evs \o <<e>>
    BY <1>6 DEF AgentSays, e
  <2> QED BY <1>1, <1>6, <2>1, <2>2, <2>3, TurnSays DEF InTurns, TurnTypes
<1>7. ASSUME ag.pc = "handoff", To("run", <<ToolStart(ag.cur)>>) PROVE TuiInv'
  <2> DEFINE e == ToolStart(ag.cur)
  <2>1. e \in TuiEvents /\ e.type = "tool_start" /\ e.id = ag.cur
    BY <1>1 DEF ToolStart, Printed, TuiEvents, EvTypes, EvStates
  <2> HIDE DEF e
  <2>2. e \in Busies
    BY <2>1 DEF Busies
  <2>3. ag' = [ag EXCEPT !.pc = "run"] /\ evs' = evs \o <<e>>
    BY <1>7 DEF To, AgentSays, e
  <2> QED BY <1>1, <1>7, <2>1, <2>2, <2>3, TurnSays DEF InTurns, TurnTypes
<1>8. ASSUME ag.pc \in {"said", "gen"}, To("settle", <<Printed("turn_done", "idle", ag.cur)>>)
      PROVE  TuiInv'
  <2> DEFINE e == Printed("turn_done", "idle", ag.cur)
  <2>1. e \in TuiEvents /\ e.type = "turn_done" /\ e.id = ag.cur
    BY <1>1 DEF Printed, TuiEvents, EvTypes, EvStates
  <2> HIDE DEF e
  <2>2. e \in NotOpening
    BY <2>1 DEF NotOpening
  <2>3. ag' = [ag EXCEPT !.pc = "settle"] /\ evs' = evs \o <<e>>
    BY <1>8 DEF To, AgentSays, e
  <2> QED BY <1>1, <1>8, <2>1, <2>2, <2>3, TurnSays DEF InTurns, TurnTypes
<1>9. ASSUME ag.pc = "run", NEW pc \in {"settle", "turn"},
             To(pc, <<Printed("tool_output", "tool_running", ag.cur),
                      Printed("tool_done", "idle", ag.cur)>>)
      PROVE  TuiInv'
  <2> DEFINE d == Printed("tool_output", "tool_running", ag.cur)
             e == Printed("tool_done", "idle", ag.cur)
  <2>1. /\ d \in TuiEvents /\ d.type = "tool_output" /\ d.state = "tool_running"
        /\ e \in TuiEvents /\ e.type = "tool_done" /\ e.state = "idle"
    BY <1>1 DEF Printed, TuiEvents, EvTypes, EvStates
  <2> HIDE DEF d, e
  <2>2. d \in KeepsBusy /\ e \in KeepsBusy /\ e \in Closing
    BY <2>1 DEF KeepsBusy, Closing
  <2>3. ag' = [ag EXCEPT !.pc = pc] /\ evs' = evs \o <<d, e>>
    BY <1>9 DEF To, AgentSays, d, e
  <2>4. pc \in InTurns \cup {"settle"}
    BY DEF InTurns
  <2> DEFINE es == <<d, e>>
  <2>5. /\ es \in Seq(TuiEvents) /\ DOMAIN es = {1, 2} /\ es[1] = d /\ es[2] = e
        /\ Kept(es, KeepsBusy) /\ Made(es, Closing, NotOpening)
    BY <2>1, <2>2, SaysTwo
  <2> HIDE DEF es
  <2>6. \A k \in DOMAIN es : es[k].type \in {"tool_output", "tool_done"}
    BY <2>1, <2>5
  <2>7. \A k \in DOMAIN es : /\ es[k].type \notin {"queue", "exited", "bye", "rejected"}
                             /\ es[k].type \notin TurnTypes /\ es[k].type # "tool_start"
    BY <2>6 DEF TurnTypes
  <2>8. evs' = evs \o es /\ ag.pc \in InTurns \cup {"begin"} /\ ag.pc \in InTurns
    BY <1>9, <2>3 DEF es, InTurns
  <2>9. ag.pc \notin {"begin", "turn", "squeeze"}
    BY <1>9
  <2> QED BY <1>1, <2>3, <2>4, <2>5, <2>7, <2>8, <2>9, TurnKeeps
<1>10. ASSUME ag.pc = "squeeze", NEW pc \in {"settle", "turn"}, pc = "settle" => ag.cur = 0,
              To(pc, <<Session>>)
       PROVE  TuiInv'
  <2>1. Session \in TuiEvents /\ Session.type = "session_done" /\ Session.state = "idle"
    BY DEF Session, Printed, TuiEvents, EvTypes, EvStates, None
  <2>2. Session \in KeepsBusy /\ Session \in NotOpening
    BY <2>1 DEF KeepsBusy, NotOpening
  <2>3. ag' = [ag EXCEPT !.pc = pc] /\ evs' = evs \o <<Session>>
    BY <1>10 DEF To, AgentSays
  <2>4. pc \in InTurns \cup {"settle"}
    BY DEF InTurns
  <2> QED BY <1>1, <1>10, <2>1, <2>2, <2>3, <2>4, TurnSays DEF InTurns, TurnTypes
<1>11. ASSUME ag.pc = "run",
              To(IF ag.cur = None \/ Stopping THEN "settle" ELSE "turn",
                 <<Printed("tool_output", "tool_running", ag.cur),
                   Printed("tool_done", "idle", ag.cur)>>)
       PROVE  TuiInv'
  BY <1>9, <1>11
<1>12. ASSUME ag.pc = "squeeze", To(IF ag.cur = None THEN "settle" ELSE "turn", <<Session>>)
       PROVE  TuiInv'
  BY <1>10, <1>12 DEF None
<1> QED BY <1>2, <1>3, <1>4, <1>5, <1>6, <1>7, <1>8, <1>11, <1>12 DEF AgentTurn

LEMMA HeadFacts ==
  ASSUME TuiInv, ag.ctl # <<>>
  PROVE  /\ ag \in AgSet /\ ag.ctl \in Seq(TuiOps) /\ Head(ag.ctl) \in TuiOps
         /\ Head(ag.ctl).id \in Nat /\ (Head(ag.ctl).k = "prompt" <=> Head(ag.ctl).id # 0)
         /\ Tail(ag.ctl) \in Seq(TuiOps)
         /\ IdsOf(ag.ctl) = {Head(ag.ctl).id} \cup IdsOf(Tail(ag.ctl))
         /\ Rising(Tail(ag.ctl)) /\ Before({Head(ag.ctl).id}, IdsOf(Tail(ag.ctl)))
<1>1. ag \in AgSet /\ ag.ctl \in Seq(TuiOps) /\ Rising(ag.ctl)
  BY DEF TuiInv, TuiTypes, AgSet, OrderInv
<1>2. /\ Tail(ag.ctl) \in Seq(TuiOps) /\ IdsOf(ag.ctl) = {Head(ag.ctl).id} \cup IdsOf(Tail(ag.ctl))
      /\ Head(ag.ctl) \in TuiOps
  BY <1>1, PromptIdsTail
<1>3. Rising(Tail(ag.ctl)) /\ Before({Head(ag.ctl).id}, IdsOf(Tail(ag.ctl)))
  BY <1>1, RisingTail
<1> QED BY <1>1, <1>2, <1>3 DEF TuiOps

LEMMA AnswersKeeps ==
  ASSUME TuiInv, ag.ctl # <<>>, Head(ag.ctl).k # "prompt", NEW es \in Seq(TuiEvents), Answers(es),
         ag.pc \in {"idle", "gen", "run", "squeeze"},
         \A k \in DOMAIN es : /\ es[k].type \in {"notice", "session_done", "rejected", "idle"}
                              /\ es[k].id = 0,
         ag.pc = "idle" => Made(es, Idles, KeepsIdle) \/ Kept(es, KeepsIdle),
         ag.pc # "idle" => Kept(es, KeepsBusy)
  PROVE  TuiInv'
<1>1. ag \in AgSet /\ Tail(ag.ctl) \in Seq(TuiOps) /\ Head(ag.ctl).id = 0
  BY HeadFacts
<1>2. ag' = [ag EXCEPT !.ctl = Tail(@)] /\ evs' = evs \o es /\ UNCHANGED <<inq, ui, seen>>
  BY DEF Answers, AgentSays
<1>3. /\ ag' \in AgSet /\ ag'.pc = ag.pc /\ ag'.cur = ag.cur /\ ag'.ctl = Tail(ag.ctl)
      /\ ag'.pq = ag.pq /\ ag'.drops = ag.drops /\ ag'.quit = ag.quit /\ ag'.after = ag.after
  BY <1>1, <1>2 DEF AgSet
<1>4. \A k \in DOMAIN es : es[k] \in TuiEvents /\ es[k] \in NoText /\ es[k] \in NotOpening
  BY DEF NoText, NotOpening
<1>5. Kept(es, NoText) /\ Kept(es, NotOpening)
  BY <1>4 DEF Kept
<1>6. \A k \in DOMAIN es : /\ es[k].type \notin {"queue", "exited", "bye", "tool_start"}
                           /\ es[k].type \notin TurnTypes
  BY DEF TurnTypes
<1>7. ag.pc \in {"gen", "run", "squeeze"} => ag.pc \in InTurns
  BY DEF InTurns
<1>8. ASSUME Outstanding => Outstanding' PROVE ShowsRight(es)
  BY <1>3, <1>5, <1>6, <1>7, <1>8 DEF ShowsRight, InTurns
<1>9. Quiet(es)
  BY <1>1, <1>2, <1>3, <1>6, <1>7, <1>8 DEF Quiet
<1> QED BY <1>9, QuietKeeps

LEMMA AnswersOne ==
  ASSUME TuiInv, ag.ctl # <<>>, Head(ag.ctl).k # "prompt", NEW e \in TuiEvents, Answers(<<e>>),
         ag.pc \in {"idle", "gen", "run", "squeeze"},
         e.type \in {"notice", "session_done", "rejected"}, e.id = 0,
         ag.pc = "idle" => e.state = "idle",
         ag.pc # "idle" => e.state \in {"generating", "tool_running"}
  PROVE  TuiInv'
<1> DEFINE es == <<e>>
<1>1. /\ es \in Seq(TuiEvents) /\ DOMAIN es = {1} /\ es[1] = e
      /\ e \in Idles => Made(es, Idles, KeepsIdle)
      /\ e \in KeepsIdle => Kept(es, KeepsIdle)
      /\ e \in KeepsBusy => Kept(es, KeepsBusy)
  BY SaysOne
<1> HIDE DEF es
<1>2. ag.pc = "idle" => e \in KeepsIdle
  BY DEF KeepsIdle, Idles
<1>3. ag.pc # "idle" => e \in KeepsBusy
  BY DEF KeepsBusy
<1>4. Answers(es)
  BY DEF es
<1>5. \A k \in DOMAIN es : /\ es[k].type \in {"notice", "session_done", "rejected", "idle"}
                           /\ es[k].id = 0
  BY <1>1
<1> QED BY <1>1, <1>2, <1>3, <1>4, <1>5, AnswersKeeps

LEMMA IdleEvFacts ==
  IdleEv \in TuiEvents /\ IdleEv.type = "idle" /\ IdleEv.state = "idle" /\ IdleEv.id = 0
  /\ IdleEv \in Idles /\ IdleEv \in EndsText /\ IdleEv \in NotOpening /\ IdleEv \in KeepsIdle
<1>1. IdleEv \in TuiEvents /\ IdleEv.type = "idle" /\ IdleEv.state = "idle" /\ IdleEv.id = 0
  BY DEF IdleEv, Printed, TuiEvents, EvTypes, EvStates, None
<1> QED BY <1>1 DEF Idles, EndsText, NotOpening, KeepsIdle

(* A manual tool or a compaction begins *)
LEMMA BeginsWork ==
  ASSUME TuiInv, ag.pc = "idle", ag.ctl # <<>>,
         NEW k, k = Head(ag.ctl).k, k \in {"compact", "tool"},
         ag' = [ag EXCEPT !.ctl = Tail(@), !.cancel = IF k = "tool" THEN FALSE ELSE @,
                          !.pc = IF k = "tool" THEN "run" ELSE "squeeze"],
         AgentSays(IF k = "tool" THEN <<ToolStart(None)>> ELSE <<StateEv("compacting", None)>>),
         UNCHANGED <<inq, ui, seen>>
  PROVE  TuiInv'
<1> DEFINE e == IF k = "tool" THEN ToolStart(None) ELSE StateEv("compacting", None)
           es == <<e>>
<1>1. /\ e \in TuiEvents /\ e.id = 0 /\ e.type \in {"tool_start", "state"}
      /\ e.type = "state" => e.state = "compacting" /\ k # "tool"
  BY DEF ToolStart, StateEv, Printed, TuiEvents, EvTypes, EvStates, None
<1> HIDE DEF e
<1>2. e \in Busies /\ (k # "tool" => e \in NotOpening)
  <2>1. e.type = "tool_start" => k = "tool"
    BY DEF e, ToolStart, StateEv, Printed
  <2> QED BY <1>1, <2>1 DEF Busies, BusyStates, NotOpening
<1>3. /\ es \in Seq(TuiEvents) /\ DOMAIN es = {1} /\ es[1] = e
      /\ Made(es, Busies, KeepsBusy)
      /\ e \in NotOpening => Kept(es, NotOpening)
  BY <1>1, <1>2, SaysOne
<1>4. evs' = evs \o es
  BY DEF AgentSays, e
<1> HIDE DEF es
<1>5. ag \in AgSet /\ Tail(ag.ctl) \in Seq(TuiOps) /\ Head(ag.ctl).id = 0
  BY HeadFacts
<1> DEFINE c == IF k = "tool" THEN FALSE ELSE ag.cancel
           w == IF k = "tool" THEN "run" ELSE "squeeze"
<1>6. /\ c \in BOOLEAN /\ w \in AgentPcs /\ w \in InTurns
      /\ w \notin {"exited", "loading", "idle", "gone"}
      /\ (w # "run" => k # "tool") /\ ag' = [ag EXCEPT !.ctl = Tail(@), !.cancel = c, !.pc = w]
  BY <1>5 DEF AgSet, AgentPcs, InTurns
<1> HIDE DEF c, w
<1>7. /\ ag' \in AgSet /\ ag'.pc = w /\ ag'.cur = ag.cur /\ ag'.ctl = Tail(ag.ctl)
      /\ ag'.pq = ag.pq /\ ag'.drops = ag.drops /\ ag'.quit = ag.quit /\ ag'.after = ag.after
  BY <1>5, <1>6 DEF AgSet
<1>8. ShowsRight(es)
  BY <1>2, <1>3, <1>6, <1>7 DEF ShowsRight
<1>9. ag.pc \notin InTurns
  BY DEF InTurns
<1>10. Quiet(es)
  BY <1>1, <1>3, <1>4, <1>5, <1>6, <1>7, <1>8, <1>9 DEF Quiet, TurnTypes
<1> QED BY <1>3, <1>10, QuietKeeps

LEMMA SettlesStep ==
  ASSUME TuiInv, AgentSettles
  PROVE  TuiInv'
<1> DEFINE es == <<IdleEv>>
<1>1. /\ es \in Seq(TuiEvents) /\ DOMAIN es = {1} /\ es[1] = IdleEv
      /\ Made(es, Idles, KeepsIdle) /\ Made(es, EndsText, NoText) /\ Kept(es, NotOpening)
  BY IdleEvFacts, SaysOne
<1>2. /\ ag \in AgSet /\ ag.pc = "settle" /\ evs' = evs \o es /\ UNCHANGED <<inq, ui, seen>>
      /\ ag' = [ag EXCEPT !.pc = "idle", !.cur = 0, !.cancel = FALSE]
  BY DEF TuiInv, TuiTypes, AgentSettles, AgentSays, None
<1> HIDE DEF es
<1>3. /\ ag' \in AgSet /\ ag'.pc = "idle" /\ ag'.cur = 0 /\ ag'.ctl = ag.ctl
      /\ ag'.pq = ag.pq /\ ag'.drops = ag.drops /\ ag'.quit = ag.quit /\ ag'.after = ag.after
  BY <1>2 DEF AgSet, AgentPcs
<1>4. ag'.pc \notin InTurns
  BY <1>3 DEF InTurns
<1>5. ShowsRight(es)
  BY <1>1, <1>2, <1>3, <1>4, IdleEvFacts DEF ShowsRight
<1>6. Quiet(es)
  BY <1>1, <1>2, <1>3, <1>5, IdleEvFacts DEF Quiet, TurnTypes
<1> QED BY <1>1, <1>6, QuietKeeps

LEMMA VoidsStep ==
  ASSUME TuiInv, AgentVoidsCancel
  PROVE  TuiInv'
<1>1. /\ ag \in AgSet /\ ag.pc = "idle" /\ UNCHANGED <<inq, evs, ui, seen>>
      /\ ag' = [ag EXCEPT !.cancel = FALSE] /\ evs \in Seq(TuiEvents)
  BY DEF TuiInv, TuiTypes, AgentVoidsCancel
<1>2. /\ ag' \in AgSet /\ ag'.pc = "idle" /\ ag'.cur = ag.cur /\ ag'.ctl = ag.ctl
      /\ ag'.pq = ag.pq /\ ag'.drops = ag.drops /\ ag'.quit = ag.quit /\ ag'.after = ag.after
  BY <1>1 DEF AgSet
<1> DEFINE es == <<>>
<1>3. es \in Seq(TuiEvents) /\ DOMAIN es = {} /\ evs' = evs \o es /\ \A K : Kept(es, K)
  BY <1>1, SaysNothing
<1> HIDE DEF es
<1>4. "idle" \notin InTurns
  BY DEF InTurns
<1>5. ASSUME Outstanding => Outstanding' PROVE ShowsRight(es)
  BY <1>1, <1>2, <1>3, <1>4, <1>5 DEF ShowsRight
<1>6. Quiet(es)
  BY <1>1, <1>2, <1>3, <1>4, <1>5 DEF Quiet
<1> QED BY <1>3, <1>6, QuietKeeps

LEMMA StartStep ==
  ASSUME TuiInv, AgentStart
  PROVE  TuiInv'
<1>1. /\ ag \in AgSet /\ ag.pc = "loading" /\ UNCHANGED <<inq, ui, seen>>
      /\ evs = <<>> /\ ~ui.queue /\ evs \in Seq(TuiEvents)
  BY DEF TuiInv, TuiTypes, AgentStart, StartInv
<1>2. "loading" \notin InTurns /\ "idle" \notin InTurns /\ "gone" \notin InTurns
  BY DEF InTurns
<1>3. CASE ag' = [ag EXCEPT !.pc = "idle"] /\ AgentSays(<<Printed("hello", "idle", None), IdleEv>>)
  <2> DEFINE d == Printed("hello", "idle", None)
             es == <<d, IdleEv>>
  <2>1. d \in TuiEvents /\ d.type = "hello" /\ d \in NotOpening
    BY DEF Printed, TuiEvents, EvTypes, EvStates, None, NotOpening
  <2> HIDE DEF d
  <2>2. /\ es \in Seq(TuiEvents) /\ DOMAIN es = {1, 2} /\ es[1] = d /\ es[2] = IdleEv
        /\ Made(es, Idles, KeepsIdle) /\ Made(es, EndsText, NoText) /\ Kept(es, NotOpening)
    BY <2>1, IdleEvFacts, SaysTwo
  <2>3. evs' = evs \o es
    BY <1>3 DEF AgentSays, d
  <2> HIDE DEF es
  <2>4. /\ ag' \in AgSet /\ ag'.pc = "idle" /\ ag'.cur = ag.cur /\ ag'.ctl = ag.ctl
        /\ ag'.pq = ag.pq /\ ag'.drops = ag.drops /\ ag'.quit = ag.quit /\ ag'.after = ag.after
    BY <1>1, <1>3 DEF AgSet, AgentPcs
  <2>5. \A k \in DOMAIN es : es[k].type \in {"hello", "idle"}
    BY <2>1, <2>2, IdleEvFacts
  <2>6. ShowsRight(es)
    BY <1>1, <1>2, <2>2, <2>4, <2>5 DEF ShowsRight
  <2>7. Quiet(es)
    BY <1>1, <1>2, <2>3, <2>4, <2>5, <2>6 DEF Quiet, TurnTypes
  <2> QED BY <2>2, <2>7, QuietKeeps
<1>4. CASE ag' = [ag EXCEPT !.pc = "gone"] /\ AgentSays(<<Printed("bye", "stopped", None)>>)
  <2> DEFINE e == Printed("bye", "stopped", None)
             es == <<e>>
  <2>1. e \in TuiEvents /\ e.type = "bye" /\ e \in NotOpening
    BY DEF Printed, TuiEvents, EvTypes, EvStates, None, NotOpening
  <2> HIDE DEF e
  <2>2. es \in Seq(TuiEvents) /\ DOMAIN es = {1} /\ es[1] = e /\ Kept(es, NotOpening)
    BY <2>1, SaysOne
  <2>3. evs' = evs \o es
    BY <1>4 DEF AgentSays, e
  <2>4. evs' = es
    BY <1>1, <2>2, <2>3
  <2> HIDE DEF es
  <2>5. /\ ag' \in AgSet /\ ag'.pc = "gone" /\ ag'.cur = ag.cur /\ ag'.ctl = ag.ctl
        /\ ag'.pq = ag.pq /\ ag'.drops = ag.drops /\ ag'.quit = ag.quit /\ ag'.after = ag.after
    BY <1>1, <1>4 DEF AgSet, AgentPcs
  <2>6. ShowsRight(es)
    BY <1>1, <1>2, <2>1, <2>2, <2>5 DEF ShowsRight
  <2>7. ByeInv'
    BY <1>1, <2>1, <2>2, <2>4 DEF ByeInv
  <2>8. Quiet(es)
    BY <1>1, <1>2, <2>1, <2>2, <2>3, <2>5, <2>6, <2>7 DEF Quiet, TurnTypes
  <2> QED BY <2>2, <2>8, QuietKeeps
<1> QED BY <1>3, <1>4 DEF AgentStart

LEMMA ByeStep ==
  ASSUME TuiInv, AgentBye
  PROVE  TuiInv'
<1>1. /\ ag \in AgSet /\ ag.pc = "idle" /\ UNCHANGED <<inq, ui, seen>> /\ evs \in Seq(TuiEvents)
      /\ ag.drops = <<>> /\ ag.ctl = <<>> /\ ag.pq = <<>> /\ (ag.quit \/ ag.after)
      /\ ag' = [ag EXCEPT !.pc = "gone"] /\ ui \in UiSet
  BY DEF TuiInv, TuiTypes, AgentBye
<1> DEFINE e == Printed("bye", "stopped", None)
           es == <<e>>
<1>2. e \in TuiEvents /\ e.type = "bye" /\ e \in NotOpening
  BY DEF Printed, TuiEvents, EvTypes, EvStates, None, NotOpening
<1> HIDE DEF e
<1>3. es \in Seq(TuiEvents) /\ DOMAIN es = {1} /\ es[1] = e /\ Kept(es, NotOpening)
  BY <1>2, SaysOne
<1>4. evs' = evs \o es
  BY DEF AgentBye, AgentSays, e
<1> HIDE DEF es
<1>5. /\ ag' \in AgSet /\ ag'.pc = "gone" /\ ag'.cur = ag.cur /\ ag'.ctl = ag.ctl
      /\ ag'.pq = ag.pq /\ ag'.drops = ag.drops /\ ag'.quit = ag.quit /\ ag'.after = ag.after
  BY <1>1 DEF AgSet, AgentPcs
<1>6. "idle" \notin InTurns /\ "gone" \notin InTurns
  BY DEF InTurns
<1>7. ShowsRight(es)
  BY <1>1, <1>2, <1>3, <1>5, <1>6 DEF ShowsRight
<1>8. QuitServed
  <2>1. Waiting = IdsOf(inq)
    BY <1>1 DEF Waiting, IdsOf
  <2>2. 1 .. ui.prompts \subseteq IdsOf(inq) \cup Settled /\ \A a \in ui.asked : a <= ui.prompts
    BY <1>1, <2>1 DEF TuiInv, TakenInv
  <2>3. PICK n \in ui.asked : \A p \in IdsOf(inq) : p = 0 \/ n < p
    BY <1>1 DEF TuiInv, TakenInv
  <2>4. ui.asked \subseteq Nat /\ n \in Nat /\ ui.prompts \in Nat /\ n <= ui.prompts
    BY <1>1, <2>2 DEF UiSet
  <2>5. ASSUME NEW a \in ui.asked, \A b \in ui.asked : a <= b, NEW p \in 1 .. a PROVE p \in Settled
    <3>1. a <= n /\ a \in Nat
      BY <2>4, <2>5
    <3>2. p \in 1 .. ui.prompts /\ p # 0 /\ ~(n < p)
      BY <2>4, <3>1
    <3> QED BY <2>2, <2>3, <3>2
  <2> QED BY <2>3, <2>5 DEF QuitServed
<1>9. ByeInv'
  BY <1>1, <1>8 DEF ByeInv, QuitServed, Settled
<1>10. Quiet(es)
  BY <1>1, <1>2, <1>3, <1>4, <1>5, <1>6, <1>7, <1>9 DEF Quiet, TurnTypes
<1> QED BY <1>3, <1>10, QuietKeeps

LEMMA ExitsStep ==
  ASSUME TuiInv, AgentExits
  PROVE  TuiInv'
<1>0. /\ TuiTypes /\ DisplayInv /\ StartInv /\ OrderInv /\ TakenInv /\ ByeInv /\ PendInv
  BY DEF TuiInv
<1>1. /\ ag \in AgSet /\ ag.pc # "exited" /\ UNCHANGED <<inq, ui>> /\ evs \in Seq(TuiEvents)
      /\ ag' = [ag EXCEPT !.pc = "exited"] /\ seen \in SeenSet
      /\ seen' = [seen EXCEPT !.died = (ag.pc # "gone")]
  BY DEF TuiInv, TuiTypes, AgentExits
<1> DEFINE e == Printed("exited", "none", None)
           es == <<e>>
<1>2. e \in TuiEvents /\ e.type = "exited"
  BY DEF Printed, TuiEvents, EvTypes, EvStates, None
<1> HIDE DEF e
<1>3. es \in Seq(TuiEvents) /\ DOMAIN es = {1} /\ es[1] = e
  BY <1>2, SaysOne
<1>4. evs' = evs \o es
  BY DEF AgentExits, AgentSays, e
<1> HIDE DEF es
<1>5. /\ ag' \in AgSet /\ ag'.pc = "exited" /\ ag'.ctl = ag.ctl
      /\ ag'.pq = ag.pq /\ ag'.drops = ag.drops /\ ag'.quit = ag.quit /\ ag'.after = ag.after
  BY <1>1 DEF AgSet, AgentPcs
<1>6. /\ seen' \in SeenSet /\ seen'.ran = seen.ran /\ seen'.refused = seen.refused
      /\ seen'.dropped = seen.dropped /\ seen'.killed = seen.killed
      /\ seen'.died <=> ag.pc # "gone"
  BY <1>1 DEF SeenSet
<1>7. TuiTypes'
  BY <1>0, <1>1, <1>3, <1>4, <1>5, <1>6, SeqJoined DEF TuiTypes
<1>8. "exited" \notin InTurns
  BY DEF InTurns
<1>9. DisplayInv'
  <2>1. ShowsRight(es)
    BY <1>2, <1>3, <1>5, <1>8 DEF ShowsRight
  <2> QED BY <1>0, <1>1, <1>3, <1>4, <2>1, DisplayPrints
<1>10. StartInv'
  <2>1. EndsRight(es)
    BY <1>1, <1>2, <1>3, <1>5, <1>6 DEF EndsRight
  <2> QED BY <1>0, <1>1, <1>3, <1>4, <2>1, StartPrints
<1>11. PendInv'
  BY <1>0, <1>1, <1>3, <1>4, <1>5, PendPrints
<1>12. Waiting' = Waiting /\ Settled' = Settled
  BY <1>1, <1>5, <1>6 DEF Waiting, Settled
<1>13. OrderInv'
  <2>1. Rising(ag'.ctl)
    BY <1>0, <1>5 DEF OrderInv
  <2> QED BY <1>0, <1>1, <1>5, <1>6, <1>12, <2>1, OrderKeeps
<1>14. TakenInv'
  BY <1>0, <1>1, <1>5, <1>12, TakenKeeps
<1>15. ByeInv'
  <2>1. CASE ag.pc # "gone"
    BY <1>5, <1>6, <2>1 DEF ByeInv
  <2>2. CASE ag.pc = "gone"
    <3>1. CASE QuitServed
      BY <1>1, <1>12, <3>1 DEF ByeInv, QuitServed
    <3>2. CASE ~ui.queue /\ \A i \in DOMAIN evs : evs[i].type # "hello"
      <4>1. \A i \in DOMAIN evs' : evs'[i].type # "hello"
        BY <1>1, <1>2, <1>3, <1>4, <3>2, SeqJoined
      <4> QED BY <1>1, <3>2, <4>1 DEF ByeInv
    <3> QED BY <1>0, <2>2, <3>1, <3>2 DEF ByeInv
  <2> QED BY <2>1, <2>2
<1> QED BY <1>7, <1>9, <1>10, <1>11, <1>13, <1>14, <1>15 DEF TuiInv

(* A step that moves prompts *)
LEMMA MovesKeep ==
  ASSUME TuiInv, NEW es \in Seq(TuiEvents), ui' = ui, inq' = inq, evs' = evs \o es,
         ag' \in AgSet, seen' \in SeenSet,
         ag.pc \notin {"gone", "exited"}, ag'.pc \notin {"gone", "exited", "loading"},
         OrderInv', ag'.quit \/ ag'.after => ag.quit \/ ag.after,
         Waiting \cup Settled \subseteq (Waiting \cup Settled)' \cup {0},
         seen'.killed = seen.killed,
         \A k \in DOMAIN es : es[k].type \notin {"exited", "bye"},
         ShowsRight(es), ui.at # "over" => PendRight(es)
  PROVE  TuiInv'
<1>0. /\ TuiTypes /\ DisplayInv /\ StartInv /\ OrderInv /\ TakenInv /\ ByeInv /\ PendInv
  BY DEF TuiInv
<1>1. TuiTypes'
  BY <1>0, SeqJoined DEF TuiTypes
<1>2. DisplayInv'
  BY <1>0, DisplayPrints
<1>3. StartInv'
  <2>1. EndsRight(es)
    BY DEF EndsRight
  <2> QED BY <1>0, <2>1, StartPrints
<1>4. TakenInv'
  BY <1>0, TakenKeeps
<1>5. ByeInv'
  BY DEF ByeInv
<1>6. PendInv'
  <2>1. CASE ui.at = "over"
    BY <2>1 DEF PendInv
  <2>2. CASE ui.at # "over"
    BY <1>0, <2>2, PendPrints
  <2> QED BY <2>1, <2>2
<1> QED BY <1>1, <1>2, <1>3, <1>4, <1>5, <1>6 DEF TuiInv

(* The state an answer is printed with *)
AnswerState(state) ==
  \/ ag.pc = "idle" /\ state = "idle"
  \/ ag.pc \in {"gen", "run", "squeeze"} /\ state \in {"generating", "tool_running"}

LEMMA RejectedFacts ==
  ASSUME NEW state, AnswerState(state), NEW id \in Nat
  PROVE  LET e == Rejected(state, id) IN
         /\ e \in TuiEvents /\ e.type = "rejected" /\ e.state = state /\ e.id = id
         /\ e \in NoText /\ e \in NotOpening /\ \A p : e \in KeepsOut(p)
         /\ ag.pc = "idle" => e \in Idles
         /\ ag.pc \in InTurns => e \in KeepsBusy
<1> DEFINE e == Rejected(state, id)
<1>1. state \in EvStates /\ (ag.pc = "idle" => state = "idle")
      /\ (ag.pc \in InTurns => state \in {"generating", "tool_running"})
  BY DEF AnswerState, EvStates, InTurns
<1>2. e \in TuiEvents /\ e.type = "rejected" /\ e.state = state /\ e.id = id
  BY <1>1 DEF Rejected, Printed, TuiEvents, EvTypes
<1> HIDE DEF e
<1>3. e \in NoText /\ e \in NotOpening /\ \A p : e \in KeepsOut(p)
  BY <1>2 DEF NoText, NotOpening, KeepsOut
<1>4. (ag.pc = "idle" => e \in Idles) /\ (ag.pc \in InTurns => e \in KeepsBusy)
  BY <1>1, <1>2 DEF Idles, KeepsBusy
<1> QED BY <1>2, <1>3, <1>4 DEF e

(* The agent refuses o *)
LEMMA RefusesKeeps ==
  ASSUME TuiInv, NEW state, AnswerState(state), NEW id \in Nat,
         evs' = evs \o <<Rejected(state, id)>>, UNCHANGED <<inq, ui>>,
         seen' = [seen EXCEPT !.refused = @ \cup {id}],
         ag' \in AgSet, ag'.pc = ag.pc, ag'.cur = ag.cur, ag'.pq = ag.pq,
         ag'.quit = ag.quit, ag'.after = ag.after,
         Rising(ag'.ctl), IdsOf(ag'.ctl) \subseteq IdsOf(ag.ctl),
         IdsOf(ag'.ctl) \cup IdsOf(ag'.drops) \cup {id} = IdsOf(ag.ctl) \cup IdsOf(ag.drops)
  PROVE  TuiInv'
<1>0. /\ TuiTypes /\ OrderInv /\ TakenInv /\ seen \in SeenSet
  BY DEF TuiInv, TuiTypes
<1> DEFINE e == Rejected(state, id)
           es == <<e>>
<1>1. /\ e \in TuiEvents /\ e.type = "rejected" /\ e.state = state /\ e.id = id
      /\ e \in NoText /\ e \in NotOpening /\ \A p : e \in KeepsOut(p)
      /\ ag.pc = "idle" => e \in Idles
      /\ ag.pc \in InTurns => e \in KeepsBusy
  BY RejectedFacts
<1> HIDE DEF e
<1>2. /\ es \in Seq(TuiEvents) /\ DOMAIN es = {1} /\ es[1] = e
      /\ e \in Idles => Made(es, Idles, KeepsIdle)
      /\ e \in KeepsBusy => Kept(es, KeepsBusy)
      /\ Kept(es, NoText) /\ Kept(es, NotOpening) /\ \A p : Kept(es, KeepsOut(p))
  BY <1>1, SaysOne
<1>3. evs' = evs \o es
  BY DEF e
<1> HIDE DEF es
<1>4. /\ seen' \in SeenSet /\ seen'.ran = seen.ran /\ seen'.refused = seen.refused \cup {id}
      /\ seen'.dropped = seen.dropped /\ seen'.killed = seen.killed /\ seen'.cleared = seen.cleared
  BY <1>0 DEF SeenSet
<1>5. (Waiting \cup Settled)' = Waiting \cup Settled
  BY <1>4 DEF Waiting, Settled
<1>6. OrderInv'
  BY <1>0, <1>4, <1>5, OrderKeeps
<1>7. ag.pc \in {"idle", "gen", "run", "squeeze"} /\ (ag.pc = "idle" => ag.pc \notin InTurns)
  BY DEF AnswerState, InTurns
<1>8. ShowsRight(es)
  BY <1>1, <1>2, <1>7 DEF ShowsRight
<1>9. ASSUME ui.at # "over" PROVE PendRight(es)
  <2>1. ag.cur \in seen.ran \cup {0}
    BY <1>7, <1>9 DEF TuiInv, PendInv
  <2> QED BY <1>1, <1>2, <1>4, <1>7, <2>1 DEF PendRight, TurnTypes
<1>10. \A k \in DOMAIN es : es[k].type \notin {"exited", "bye"}
  BY <1>1, <1>2
<1> QED BY <1>2, <1>3, <1>4, <1>5, <1>6, <1>7, <1>8, <1>9, <1>10, MovesKeep

LEMMA FlushKeeps ==
  ASSUME TuiInv, NEW state, AnswerState(state), FlushDrop(state)
  PROVE  TuiInv'
<1>1. ag \in AgSet /\ ag.drops \in Seq(TuiOps) /\ ag.drops # <<>> /\ Rising(ag.ctl)
  BY DEF TuiInv, TuiTypes, AgSet, OrderInv, FlushDrop
<1>2. /\ Tail(ag.drops) \in Seq(TuiOps)
      /\ IdsOf(ag.drops) = {Head(ag.drops).id} \cup IdsOf(Tail(ag.drops))
      /\ Head(ag.drops) \in TuiOps
  BY <1>1, PromptIdsTail
<1> DEFINE id == Head(ag.drops).id
<1>3. id \in Nat
  BY <1>2 DEF TuiOps
<1>4. /\ ag' = [ag EXCEPT !.drops = Tail(@)] /\ evs' = evs \o <<Rejected(state, id)>>
      /\ seen' = [seen EXCEPT !.refused = @ \cup {id}] /\ UNCHANGED <<inq, ui>>
  BY DEF FlushDrop, AgentSays
<1>5. /\ ag' \in AgSet /\ ag'.pc = ag.pc /\ ag'.cur = ag.cur /\ ag'.ctl = ag.ctl
      /\ ag'.pq = ag.pq /\ ag'.drops = Tail(ag.drops) /\ ag'.quit = ag.quit /\ ag'.after = ag.after
  BY <1>1, <1>2, <1>4 DEF AgSet
<1>6. IdsOf(ag'.ctl) \cup IdsOf(ag'.drops) \cup {id} = IdsOf(ag.ctl) \cup IdsOf(ag.drops)
  BY <1>2, <1>5
<1>7. Rising(ag'.ctl) /\ IdsOf(ag'.ctl) \subseteq IdsOf(ag.ctl)
  BY <1>1, <1>5
<1> HIDE DEF id
<1> QED BY <1>3, <1>4, <1>5, <1>6, <1>7, RefusesKeeps

LEMMA QueueNowFacts ==
  ASSUME NEW state \in EvStates, NEW q \in Seq(TuiOps)
  PROVE  LET e == QueueNow(q, state) IN
         /\ e \in TuiEvents /\ e.type = "queue" /\ e.state = state /\ e.items = IdsOf(q)
         /\ e \in NoText /\ e \in NotOpening
         /\ state \in {"generating", "tool_running"} => e \in KeepsBusy
         /\ \A p : p \notin IdsOf(q) => e \in KeepsOut(p) /\ e \in QueuesWithout(p)
<1> DEFINE e == QueueNow(q, state)
<1>1. IdsOf(q) \in SUBSET Nat
  <2>1. \A i \in DOMAIN q : q[i] \in TuiOps
    OBVIOUS
  <2> QED BY <2>1 DEF IdsOf, TuiOps
<1>2. e \in TuiEvents /\ e.type = "queue" /\ e.state = state /\ e.items = IdsOf(q)
  BY <1>1 DEF QueueNow, Printed, TuiEvents, EvTypes, EvStates, None
<1> HIDE DEF e
<1> QED BY <1>2 DEF e, NoText, NotOpening, KeepsBusy, KeepsOut, QueuesWithout

LEMMA BeforeApart ==
  ASSUME NEW A \in SUBSET Nat, NEW B, Before(A, B)
  PROVE  \A p \in A : p # 0 => p \notin B
<1>1. ASSUME NEW p \in A, p # 0, p \in B PROVE FALSE
  <2>1. p < p /\ p \in Nat
    BY <1>1 DEF Before
  <2> QED BY <2>1
<1> QED BY <1>1

LEMMA JoinOne ==
  ASSUME NEW S, NEW d \in S, NEW e \in S
  PROVE  <<d>> \o <<e>> = <<d, e>> /\ <<d>> \o <<>> = <<d>>
<1>1. <<d>> \in Seq(S) /\ <<e>> \in Seq(S) /\ <<d, e>> \in Seq(S)
  OBVIOUS
<1> DEFINE s == <<d>> \o <<e>>
           w == <<d, e>>
<1>2. s \in Seq(S) /\ Len(s) = 2 /\ s[1] = d /\ s[2] = e
  BY <1>1
<1>3. w \in Seq(S) /\ Len(w) = 2 /\ w[1] = d /\ w[2] = e
  OBVIOUS
<1> HIDE DEF s, w
<1>4. Len(s) = Len(w) /\ \A i \in 1 .. Len(s) : s[i] = w[i]
  BY <1>2, <1>3
<1>5. s = w
  BY <1>2, <1>3, <1>4, SeqEqual
<1>6. <<d>> \o <<>> = <<d>>
  BY <1>1, ConcatEmptySeq
<1> QED BY <1>5, <1>6 DEF s, w

LEMMA TakeKeeps ==
  ASSUME TuiInv, NEW state, AnswerState(state), ag.ctl # <<>>, Head(ag.ctl).k = "prompt",
         TakePrompt(state)
  PROVE  TuiInv'
<1>0. /\ TuiTypes /\ OrderInv /\ TakenInv /\ seen \in SeenSet /\ ag.pq \in Seq(TuiPrompts)
  BY DEF TuiInv, TuiTypes, AgSet
<1> DEFINE o == Head(ag.ctl)
<1>1. /\ ag \in AgSet /\ ag.ctl \in Seq(TuiOps) /\ o \in TuiOps /\ o.id \in Nat /\ o.id # 0
      /\ Tail(ag.ctl) \in Seq(TuiOps) /\ IdsOf(ag.ctl) = {o.id} \cup IdsOf(Tail(ag.ctl))
      /\ Rising(Tail(ag.ctl)) /\ Before({o.id}, IdsOf(Tail(ag.ctl)))
  BY HeadFacts
<1>2. o \in TuiPrompts /\ ag.pq \in Seq(TuiOps)
  <2>1. TuiPrompts \subseteq TuiOps
    BY DEF TuiPrompts
  <2>2. ag.pq \in Seq(TuiOps)
    BY <1>0, <2>1
  <2> QED BY <1>1, <2>2 DEF TuiPrompts
<1>3. CASE Len(ag.pq) = TuiQueueCap
  <2>1. /\ ag' = [ag EXCEPT !.ctl = Tail(@), !.pq = ag.pq]
        /\ evs' = evs \o <<Rejected(state, o.id)>>
        /\ seen' = [seen EXCEPT !.refused = @ \cup {o.id}] /\ UNCHANGED <<inq, ui>>
    BY <1>3 DEF TakePrompt, AgentSays
  <2>2. /\ ag' \in AgSet /\ ag'.pc = ag.pc /\ ag'.cur = ag.cur /\ ag'.ctl = Tail(ag.ctl)
        /\ ag'.pq = ag.pq /\ ag'.drops = ag.drops /\ ag'.quit = ag.quit /\ ag'.after = ag.after
    BY <1>1, <2>1 DEF AgSet
  <2>3. IdsOf(ag'.ctl) \cup IdsOf(ag'.drops) \cup {o.id} = IdsOf(ag.ctl) \cup IdsOf(ag.drops)
    BY <1>1, <2>2
  <2>4. Rising(ag'.ctl) /\ IdsOf(ag'.ctl) \subseteq IdsOf(ag.ctl)
    BY <1>1, <2>2
  <2> QED BY <1>1, <2>1, <2>2, <2>3, <2>4, RefusesKeeps
<1>4. CASE Len(ag.pq) # TuiQueueCap
  <2> DEFINE q == Append(ag.pq, o)
             e == QueueNow(q, state)
             es == <<e>>
  <2>1. /\ ag' = [ag EXCEPT !.ctl = Tail(@), !.pq = q] /\ evs' = evs \o es
        /\ seen' = seen /\ UNCHANGED <<inq, ui>>
    BY <1>4 DEF TakePrompt, AgentSays
  <2>2. q \in Seq(TuiPrompts)
    BY <1>0, <1>2
  <2>3. q \in Seq(TuiOps) /\ IdsOf(q) = IdsOf(ag.pq) \cup {o.id}
    BY <1>1, <1>2, IdsJoin
  <2> HIDE DEF q
  <2>4. /\ ag' \in AgSet /\ ag'.pc = ag.pc /\ ag'.cur = ag.cur /\ ag'.ctl = Tail(ag.ctl)
        /\ ag'.pq = q /\ ag'.drops = ag.drops /\ ag'.quit = ag.quit /\ ag'.after = ag.after
    BY <1>1, <2>1, <2>2 DEF AgSet
  <2>5. /\ state \in EvStates /\ (ag.pc = "idle" => state = "idle" /\ ag.pc \notin InTurns)
        /\ (ag.pc \in InTurns => state \in {"generating", "tool_running"})
        /\ ag.pc \in {"idle", "gen", "run", "squeeze"}
    BY DEF AnswerState, EvStates, InTurns
  <2>6. /\ e \in TuiEvents /\ e.type = "queue" /\ e.state = state
        /\ e \in NoText /\ e \in NotOpening
        /\ ag.pc \in InTurns => e \in KeepsBusy
        /\ \A p : p \notin IdsOf(q) => e \in KeepsOut(p)
    BY <2>3, <2>5, QueueNowFacts
  <2> HIDE DEF e
  <2>7. /\ es \in Seq(TuiEvents) /\ DOMAIN es = {1} /\ es[1] = e
        /\ e \in KeepsBusy => Kept(es, KeepsBusy)
        /\ Kept(es, NoText) /\ Kept(es, NotOpening)
        /\ \A p : e \in KeepsOut(p) => Kept(es, KeepsOut(p))
    BY <2>6, SaysOne
  <2> HIDE DEF es
  <2>8. Waiting' = Waiting /\ Settled' = Settled
    BY <1>1, <2>1, <2>3, <2>4 DEF Waiting, Settled
  <2>9. OrderInv'
    <3>1. /\ Before(IdsOf(Tail(ag.ctl)), IdsOf(inq)) /\ Before(seen.dropped, IdsOf(Tail(ag.ctl)))
          /\ Before(IdsOf(q), IdsOf(Tail(ag.ctl))) /\ Before(IdsOf(q), IdsOf(inq))
          /\ Before(seen.dropped, IdsOf(q))
      BY <1>0, <1>1, <2>3 DEF OrderInv, Before
    <3> QED BY <1>0, <1>1, <2>1, <2>4, <2>8, <3>1 DEF OrderInv
  <2>10. Outstanding'
    <3>1. o.id \in Waiting'
      BY <2>3, <2>4 DEF Waiting
    <3> QED BY <1>1, <3>1 DEF Outstanding
  <2>11. ShowsRight(es)
    BY <2>4, <2>5, <2>6, <2>7, <2>10 DEF ShowsRight
  <2>12. ASSUME ui.at # "over" PROVE PendRight(es)
    <3>1. ag.cur \in seen.ran \cup {0}
      BY <2>5, <2>12 DEF TuiInv, PendInv
    <3>2. \A p \in seen.dropped : p # 0 => p \notin IdsOf(q)
      <4>1. seen.dropped \in SUBSET Nat /\ Before(seen.dropped, IdsOf(q))
        BY <1>0, <2>1, <2>4, <2>9 DEF SeenSet, OrderInv
      <4> QED BY <4>1, BeforeApart
    <3>3. \A p \in seen.dropped : p # 0 => Kept(es, KeepsOut(p))
      BY <2>6, <2>7, <3>2
    <3> QED BY <2>1, <2>4, <2>5, <2>6, <2>7, <3>1, <3>3 DEF PendRight, TurnTypes
  <2>13. \A k \in DOMAIN es : es[k].type \notin {"exited", "bye"}
    BY <2>6, <2>7
  <2> QED BY <1>0, <2>1, <2>4, <2>5, <2>7, <2>8, <2>9, <2>11, <2>12, <2>13, MovesKeep
<1> QED BY <1>3, <1>4

LEMMA ClearKeeps ==
  ASSUME TuiInv, NEW state, AnswerState(state), ag.ctl # <<>>, Head(ag.ctl).k # "prompt",
         NEW more, more = IF ag.pc = "idle" THEN <<IdleEv>> ELSE <<>>, ClearQueue(more, state)
  PROVE  TuiInv'
<1>0. /\ TuiTypes /\ OrderInv /\ TakenInv /\ seen \in SeenSet /\ ag.pq \in Seq(TuiPrompts)
  BY DEF TuiInv, TuiTypes, AgSet
<1>1. /\ ag \in AgSet /\ ag.ctl \in Seq(TuiOps) /\ Head(ag.ctl).id = 0
      /\ Tail(ag.ctl) \in Seq(TuiOps) /\ IdsOf(ag.ctl) = {Head(ag.ctl).id} \cup IdsOf(Tail(ag.ctl))
      /\ Rising(Tail(ag.ctl))
  BY HeadFacts
<1>2. IdsOf(ag.pq) \in SUBSET Nat
  <2>1. \A i \in DOMAIN ag.pq : ag.pq[i] \in TuiPrompts
    BY <1>0
  <2> QED BY <2>1 DEF IdsOf, TuiPrompts, TuiOps
<1> DEFINE e == QueueNow(<<>>, state)
           es == <<e>> \o more
<1>3. /\ ag' = [ag EXCEPT !.ctl = Tail(@), !.pq = <<>>] /\ evs' = evs \o es
      /\ seen' = [seen EXCEPT !.dropped = @ \cup IdsOf(ag.pq)] /\ UNCHANGED <<inq, ui>>
  BY DEF ClearQueue, AgentSays
<1>4. /\ ag' \in AgSet /\ ag'.pc = ag.pc /\ ag'.cur = ag.cur /\ ag'.ctl = Tail(ag.ctl)
      /\ ag'.pq = <<>> /\ ag'.drops = ag.drops /\ ag'.quit = ag.quit /\ ag'.after = ag.after
  <2>1. <<>> \in Seq(TuiPrompts)
    OBVIOUS
  <2> QED BY <1>1, <1>3, <2>1 DEF AgSet
<1>5. /\ seen' \in SeenSet /\ seen'.ran = seen.ran /\ seen'.refused = seen.refused
      /\ seen'.dropped = seen.dropped \cup IdsOf(ag.pq)
      /\ seen'.killed = seen.killed /\ seen'.cleared = seen.cleared
  BY <1>0, <1>2, <1>3 DEF SeenSet
<1>6. /\ state \in EvStates /\ (ag.pc = "idle" => state = "idle" /\ ag.pc \notin InTurns)
      /\ (ag.pc # "idle" => ag.pc \in InTurns /\ state \in {"generating", "tool_running"})
      /\ ag.pc \in {"idle", "gen", "run", "squeeze"}
  BY DEF AnswerState, EvStates, InTurns
<1>7. /\ <<>> \in Seq(TuiOps) /\ IdsOf(<<>>) = {}
  BY DEF IdsOf
<1>8. /\ e \in TuiEvents /\ e.type = "queue"
      /\ e \in NoText /\ e \in NotOpening
      /\ ag.pc \in InTurns => e \in KeepsBusy
      /\ \A p : e \in KeepsOut(p) /\ e \in QueuesWithout(p)
  BY <1>6, <1>7, QueueNowFacts
<1> HIDE DEF e
<1>9. /\ es \in Seq(TuiEvents) /\ 1 \in DOMAIN es /\ es[1] = e
      /\ \A k \in DOMAIN es : es[k].type \in {"queue", "idle"}
      /\ ag.pc = "idle" => /\ Made(es, Idles, KeepsIdle) /\ Made(es, EndsText, NoText)
                           /\ 2 \in DOMAIN es /\ es[2].type = "idle"
      /\ ag.pc # "idle" => Kept(es, KeepsBusy)
      /\ Kept(es, NotOpening)
      /\ \A p : Kept(es, KeepsOut(p)) /\ Made(es, QueuesWithout(p), KeepsOut(p))
  <2>1. CASE ag.pc = "idle"
    <3> DEFINE w == <<e, IdleEv>>
    <3>1. es = w /\ IdleEv \in TuiEvents /\ IdleEv.type = "idle"
      BY <1>8, <2>1, IdleEvFacts, JoinOne
    <3>2. \A p : IdleEv \in KeepsOut(p)
      BY <3>1 DEF KeepsOut
    <3>3. /\ w \in Seq(TuiEvents) /\ DOMAIN w = {1, 2} /\ w[1] = e /\ w[2] = IdleEv
          /\ Made(w, Idles, KeepsIdle) /\ Made(w, EndsText, NoText) /\ Kept(w, NotOpening)
      BY <1>8, IdleEvFacts, SaysTwo
    <3>4. \A p : Kept(w, KeepsOut(p)) /\ Made(w, QueuesWithout(p), KeepsOut(p))
      <4>1. TAKE p
      <4>2. e \in KeepsOut(p) /\ IdleEv \in KeepsOut(p) /\ e \in QueuesWithout(p)
        BY <1>8, <3>2
      <4> QED BY <1>8, <3>1, <4>2, SaysTwo
    <3> HIDE DEF w, es
    <3> QED BY <1>8, <2>1, <3>1, <3>3, <3>4
  <2>2. CASE ag.pc # "idle"
    <3> DEFINE w == <<e>>
    <3>1. es = w
      BY <1>8, <2>2, JoinOne
    <3>2. /\ w \in Seq(TuiEvents) /\ DOMAIN w = {1} /\ w[1] = e
          /\ Kept(w, KeepsBusy) /\ Kept(w, NotOpening)
      BY <1>6, <1>8, <2>2, SaysOne
    <3>3. \A p : Kept(w, KeepsOut(p)) /\ Made(w, QueuesWithout(p), KeepsOut(p))
      <4>1. TAKE p
      <4>2. e \in KeepsOut(p) /\ e \in QueuesWithout(p)
        BY <1>8
      <4> QED BY <1>8, <4>2, SaysOne
    <3> HIDE DEF w, es
    <3> QED BY <1>8, <2>2, <3>1, <3>2, <3>3
  <2> QED BY <2>1, <2>2
<1> HIDE DEF es
<1>10. Waiting' \subseteq Waiting /\ Waiting \cup Settled \subseteq (Waiting \cup Settled)' \cup {0}
       /\ Settled' \subseteq Waiting \cup Settled
  BY <1>1, <1>3, <1>4, <1>5, <1>7 DEF Waiting, Settled
<1>11. OrderInv'
  <2>1. /\ Before(IdsOf(Tail(ag.ctl)), IdsOf(inq))
        /\ Before(seen'.dropped, IdsOf(Tail(ag.ctl)))
        /\ Before({}, IdsOf(Tail(ag.ctl))) /\ Before({}, IdsOf(inq))
        /\ Before(seen'.dropped, {}) /\ Before(seen'.dropped, IdsOf(inq))
    BY <1>0, <1>1, <1>5 DEF OrderInv, Before
  <2>2. \A p \in (Waiting \cup Settled)' : p <= ui.prompts
    BY <1>0, <1>10 DEF OrderInv
  <2> QED BY <1>0, <1>1, <1>3, <1>4, <1>7, <2>1, <2>2 DEF OrderInv
<1>12. ShowsRight(es)
  BY <1>4, <1>6, <1>9 DEF ShowsRight
<1>13. ASSUME ui.at # "over" PROVE PendRight(es)
  <2>1. ag.cur \in seen.ran \cup {0}
    BY <1>6, <1>13 DEF TuiInv, PendInv
  <2> QED BY <1>4, <1>5, <1>6, <1>8, <1>9, <2>1 DEF PendRight, TurnTypes
<1>14. \A k \in DOMAIN es : es[k].type \notin {"exited", "bye"}
  BY <1>9
<1> QED BY <1>3, <1>4, <1>5, <1>6, <1>9, <1>10, <1>11, <1>12, <1>13, <1>14, MovesKeep

LEMMA PromptStep ==
  ASSUME TuiInv, AgentPrompt
  PROVE  TuiInv'
<1>0. /\ TuiTypes /\ OrderInv /\ TakenInv /\ seen \in SeenSet /\ ag.pq \in Seq(TuiPrompts)
      /\ ag \in AgSet /\ ag.pc = "idle" /\ ag.pq # <<>>
  BY DEF TuiInv, TuiTypes, AgSet, AgentPrompt
<1> DEFINE o == Head(ag.pq)
           q == Tail(ag.pq)
           w == ag.after \/ ag.quit
           e == QueueNow(q, "idle")
           es == <<e>>
<1>1. q \in Seq(TuiPrompts) /\ o \in TuiPrompts
  BY <1>0
<1>2. ag.pq \in Seq(TuiOps)
  <2>1. TuiPrompts \subseteq TuiOps
    BY DEF TuiPrompts
  <2> QED BY <1>0, <2>1
<1>3. q \in Seq(TuiOps) /\ IdsOf(ag.pq) = {o.id} \cup IdsOf(q) /\ o.id \in Nat
  BY <1>0, <1>1, <1>2, PromptIdsTail DEF TuiPrompts, TuiOps
<1>4. /\ ag' = [ag EXCEPT !.pq = q, !.cur = o.id, !.pc = "begin", !.rounds = 0,
                          !.cancel = FALSE, !.quit = FALSE, !.after = w]
      /\ evs' = evs \o es /\ seen' = [seen EXCEPT !.ran = @ \cup {o.id}] /\ UNCHANGED <<inq, ui>>
  BY DEF AgentPrompt, AgentSays
<1>5. w \in BOOLEAN
  BY <1>0 DEF AgSet
<1> HIDE DEF o, q
<1>6. /\ e \in TuiEvents /\ e.type = "queue" /\ e \in NotOpening
      /\ \A p : p \notin IdsOf(q) => e \in KeepsOut(p)
  <2>1. "idle" \in EvStates
    BY DEF EvStates
  <2> QED BY <1>3, <2>1, QueueNowFacts
<1> HIDE DEF e
<1>7. /\ es \in Seq(TuiEvents) /\ DOMAIN es = {1} /\ es[1] = e /\ Kept(es, NotOpening)
      /\ \A p : e \in KeepsOut(p) => Kept(es, KeepsOut(p))
  BY <1>6, SaysOne
<1> HIDE DEF es
<1>8. ag'.after = w
  BY <1>0, <1>4 DEF AgSet
<1>9. ag'.quit \/ ag'.after => ag.quit \/ ag.after
  <2>1. ag'.quit = FALSE
    BY <1>0, <1>4 DEF AgSet
  <2> QED BY <1>8, <2>1
<1> HIDE DEF w
<1>10. /\ ag' \in AgSet /\ ag'.pc = "begin" /\ ag'.cur = o.id /\ ag'.ctl = ag.ctl
       /\ ag'.pq = q /\ ag'.drops = ag.drops
  BY <1>0, <1>1, <1>3, <1>4, <1>5 DEF AgSet, AgentPcs
<1>11. /\ seen' \in SeenSet /\ seen'.ran = seen.ran \cup {o.id} /\ seen'.refused = seen.refused
       /\ seen'.dropped = seen.dropped /\ seen'.killed = seen.killed /\ seen'.cleared = seen.cleared
  BY <1>0, <1>3, <1>4 DEF SeenSet
<1>12. (Waiting \cup Settled)' = Waiting \cup Settled
  BY <1>3, <1>4, <1>10, <1>11 DEF Waiting, Settled
<1>13. OrderInv'
  <2>1. /\ Rising(ag'.ctl) /\ IdsOf(ag'.ctl) \subseteq IdsOf(ag.ctl)
        /\ IdsOf(ag'.pq) \subseteq IdsOf(ag.pq)
    BY <1>0, <1>3, <1>10 DEF OrderInv
  <2> QED BY <1>0, <1>4, <1>11, <1>12, <2>1, OrderKeeps
<1>14. "idle" \notin InTurns /\ "begin" \notin InTurns
  BY DEF InTurns
<1>15. ShowsRight(es)
  BY <1>0, <1>6, <1>7, <1>10, <1>14 DEF ShowsRight
<1>16. \A p \in seen.dropped : p # 0 => Kept(es, KeepsOut(p))
  <2>1. seen.dropped \in SUBSET Nat /\ Before(seen.dropped, IdsOf(ag.pq))
    BY <1>0 DEF SeenSet, OrderInv
  <2>2. \A p \in seen.dropped : p # 0 => p \notin IdsOf(ag.pq)
    BY <2>1, BeforeApart
  <2> QED BY <1>3, <1>6, <1>7, <2>2
<1>17. PendRight(es)
  BY <1>0, <1>6, <1>7, <1>10, <1>11, <1>14, <1>16 DEF PendRight, TurnTypes
<1>18. \A k \in DOMAIN es : es[k].type \notin {"exited", "bye"}
  BY <1>6, <1>7
<1> QED BY <1>0, <1>4, <1>7, <1>9, <1>10, <1>11, <1>12, <1>13, <1>15, <1>17, <1>18, MovesKeep

(* Every prompt read moves on, and what follows a quit is later than it *)
LEMMA ReadsStep ==
  ASSUME TuiInv, AgentReads
  PROVE  TuiInv'
<1>0. /\ TuiTypes /\ DisplayInv /\ StartInv /\ OrderInv /\ TakenInv /\ ByeInv /\ PendInv
      /\ inq \in Seq(TuiOps) /\ ag \in AgSet /\ inq # <<>> /\ inq' = Tail(inq)
      /\ ag.pc \notin {"loading", "gone", "exited"} /\ UNCHANGED <<evs, ui, seen>>
      /\ evs \in Seq(TuiEvents)
  BY DEF TuiInv, TuiTypes, AgentReads, AgentUp
<1> DEFINE o == Head(inq)
<1>1. /\ Tail(inq) \in Seq(TuiOps) /\ IdsOf(inq) = {o.id} \cup IdsOf(Tail(inq)) /\ o \in TuiOps
      /\ Rising(Tail(inq)) /\ Before({o.id}, IdsOf(Tail(inq)))
  BY <1>0, PromptIdsTail, RisingTail DEF OrderInv
<1>2. o.k \in {"cancel", "quit"} => o.id = 0
  BY <1>1 DEF TuiOps
<1>3. ag.ctl \in Seq(TuiOps) /\ ag.drops \in Seq(TuiOps)
  BY <1>0 DEF AgSet
<1>4. /\ Append(ag.ctl, o) \in Seq(TuiOps) /\ IdsOf(Append(ag.ctl, o)) = IdsOf(ag.ctl) \cup {o.id}
      /\ Append(ag.drops, o) \in Seq(TuiOps)
      /\ IdsOf(Append(ag.drops, o)) = IdsOf(ag.drops) \cup {o.id}
  BY <1>1, <1>3, IdsJoin
<1>5. Rising(Append(ag.ctl, o))
  <2>1. Rising(ag.ctl) /\ Before(IdsOf(ag.ctl), {o.id})
    BY <1>0, <1>1 DEF OrderInv, Before
  <2> QED BY <1>1, <1>3, <2>1, RisingAppend
<1>6. ag' = CASE o.k = "cancel" -> [ag EXCEPT !.cancel = TRUE]
              [] o.k = "quit" -> [ag EXCEPT !.quit = TRUE]
              [] OTHER -> IF ag.quit THEN [ag EXCEPT !.drops = Append(@, o)]
                          ELSE [ag EXCEPT !.ctl = Append(@, o)]
  BY DEF AgentReads
<1> HIDE DEF o
<1>7. /\ ag' \in AgSet /\ ag'.pc = ag.pc /\ ag'.cur = ag.cur /\ ag'.pq = ag.pq
      /\ ag'.after = ag.after
      /\ \/ /\ ag'.ctl = ag.ctl /\ ag'.drops = ag.drops /\ o.id = 0
            /\ ag'.quit => ag.quit \/ o.k = "quit"
         \/ ag'.ctl = ag.ctl /\ ag'.drops = Append(ag.drops, o) /\ ag'.quit = ag.quit
         \/ ag'.ctl = Append(ag.ctl, o) /\ ag'.drops = ag.drops /\ ag'.quit = ag.quit
  <2>1. CASE o.k = "cancel"
    <3>1. ag' = [ag EXCEPT !.cancel = TRUE]
      BY <1>6, <2>1
    <3> QED BY <1>0, <1>2, <2>1, <3>1 DEF AgSet
  <2>2. CASE o.k = "quit"
    <3>1. ag' = [ag EXCEPT !.quit = TRUE]
      BY <1>6, <2>2
    <3> QED BY <1>0, <1>2, <2>2, <3>1 DEF AgSet
  <2>3. CASE o.k \notin {"cancel", "quit"} /\ ag.quit
    <3>1. ag' = [ag EXCEPT !.drops = Append(ag.drops, o)]
      BY <1>6, <2>3
    <3> QED BY <1>0, <1>4, <3>1 DEF AgSet
  <2>4. CASE o.k \notin {"cancel", "quit"} /\ ~ag.quit
    <3>1. ag' = [ag EXCEPT !.ctl = Append(ag.ctl, o)]
      BY <1>6, <2>4
    <3> QED BY <1>0, <1>4, <3>1 DEF AgSet
  <2> QED BY <2>1, <2>2, <2>3, <2>4
<1>8. /\ IdsOf(ag'.ctl) \subseteq IdsOf(ag.ctl) \cup {o.id} /\ Rising(ag'.ctl)
      /\ IdsOf(ag'.drops) \subseteq IdsOf(ag.drops) \cup {o.id}
      /\ IdsOf(ag.ctl) \subseteq IdsOf(ag'.ctl) /\ IdsOf(ag.drops) \subseteq IdsOf(ag'.drops)
      /\ o.id \in IdsOf(ag'.ctl) \cup IdsOf(ag'.drops) \cup {0}
  BY <1>0, <1>4, <1>5, <1>7 DEF OrderInv
<1>9. Waiting \subseteq Waiting' \cup {0} /\ Waiting' \subseteq Waiting /\ Settled' = Settled
  <2>1. IdsOf(inq') = IdsOf(Tail(inq)) /\ IdsOf(ag'.pq) = IdsOf(ag.pq) /\ Settled' = Settled
    BY <1>0, <1>7 DEF Settled
  <2> QED BY <1>1, <1>8, <2>1 DEF Waiting
<1>10. TuiTypes'
  BY <1>0, <1>1, <1>7 DEF TuiTypes
<1> DEFINE es == <<>>
<1>11. es \in Seq(TuiEvents) /\ DOMAIN es = {} /\ evs' = evs \o es /\ \A K : Kept(es, K)
  BY <1>0, SaysNothing
<1> HIDE DEF es
<1>12. DisplayInv'
  <2>1. Outstanding => Outstanding'
    BY <1>9 DEF Outstanding
  <2>2. ShowsRight(es)
    BY <1>7, <1>11, <2>1 DEF ShowsRight
  <2> QED BY <1>0, <1>11, <2>2, DisplayPrints
<1>13. StartInv'
  BY <1>0, <1>7 DEF StartInv
<1>14. PendInv'
  BY <1>0, <1>7 DEF PendInv, After
<1>15. ByeInv'
  BY <1>0, <1>7 DEF ByeInv
<1>16. OrderInv'
  <2>1. /\ Before(IdsOf(ag'.ctl), IdsOf(Tail(inq)))
        /\ Before(IdsOf(ag.pq), IdsOf(ag'.ctl)) /\ Before(IdsOf(ag.pq), IdsOf(Tail(inq)))
        /\ Before(seen.dropped, IdsOf(ag'.ctl)) /\ Before(seen.dropped, IdsOf(Tail(inq)))
    <3>1. /\ Before(IdsOf(ag.ctl), IdsOf(inq)) /\ Before(IdsOf(ag.pq), IdsOf(ag.ctl))
          /\ Before(IdsOf(ag.pq), IdsOf(inq)) /\ Before(seen.dropped, IdsOf(ag.ctl))
          /\ Before(seen.dropped, IdsOf(inq))
      BY <1>0 DEF OrderInv
    <3> QED BY <1>1, <1>8, <3>1 DEF Before
  <2>2. \A p \in (Waiting \cup Settled)' : p <= ui.prompts
    BY <1>0, <1>9 DEF OrderInv
  <2>3. Before(seen.dropped, IdsOf(ag.pq))
    BY <1>0 DEF OrderInv
  <2> QED BY <1>0, <1>1, <1>7, <1>8, <2>1, <2>2, <2>3 DEF OrderInv
<1>17. TakenInv'
  <2>1. 1 .. ui.prompts \subseteq (Waiting \cup Settled)'
    <3>1. \A p \in 1 .. ui.prompts : p # 0
      BY <1>0 DEF TuiTypes, UiSet
    <3>2. 1 .. ui.prompts \subseteq Waiting \cup Settled
      BY <1>0 DEF TakenInv
    <3> QED BY <1>9, <3>1, <3>2
  <2>2. /\ Len(inq) \in Nat /\ DOMAIN inq = 1 .. Len(inq) /\ DOMAIN Tail(inq) = 1 .. Len(inq) - 1
        /\ o = inq[1] /\ Len(inq) >= 1
        /\ \A i \in 1 .. Len(inq) - 1 : Tail(inq)[i] = inq[i + 1]
    BY <1>0, SeqTail DEF o
  <2>3. /\ 1 \in DOMAIN inq
        /\ \A i \in DOMAIN Tail(inq) : i + 1 \in DOMAIN inq /\ Tail(inq)[i] = inq[i + 1]
    BY <2>2
  <2>4. ASSUME NEW i \in DOMAIN Tail(inq), Tail(inq)[i].k = "quit"
        PROVE  \E n \in ui.asked : \A j \in DOMAIN Tail(inq) :
                 i < j => Tail(inq)[j].id = 0 \/ n < Tail(inq)[j].id
    <3>1. PICK n \in ui.asked : \A j \in DOMAIN inq : i + 1 < j => inq[j].id = 0 \/ n < inq[j].id
      BY <1>0, <2>3, <2>4 DEF TakenInv
    <3>2. ASSUME NEW j \in DOMAIN Tail(inq), i < j PROVE Tail(inq)[j].id = 0 \/ n < Tail(inq)[j].id
      <4>1. i + 1 < j + 1
        BY <2>2, <3>2
      <4> QED BY <2>3, <3>1, <4>1
    <3> QED BY <3>2
  <2>5. ASSUME ag'.quit \/ ag'.after
        PROVE  \E n \in ui.asked : \A p \in IdsOf(Tail(inq)) : p = 0 \/ n < p
    <3>1. CASE ag.quit \/ ag.after
      BY <1>0, <1>1, <3>1 DEF TakenInv
    <3>2. CASE o.k = "quit"
      <4>1. PICK n \in ui.asked : \A j \in DOMAIN inq : 1 < j => inq[j].id = 0 \/ n < inq[j].id
        BY <1>0, <2>2, <2>3, <3>2 DEF TakenInv
      <4>2. ASSUME NEW p \in IdsOf(Tail(inq)) PROVE p = 0 \/ n < p
        <5>1. PICK j \in DOMAIN Tail(inq) : p = Tail(inq)[j].id
          BY DEF IdsOf
        <5>2. 1 < j + 1
          BY <2>2
        <5> QED BY <2>3, <4>1, <5>1, <5>2
      <4> QED BY <4>2
    <3> QED BY <1>7, <2>5, <3>1, <3>2
  <2>6. \A n \in ui.asked : n <= ui.prompts
    BY <1>0 DEF TakenInv
  <2> QED BY <1>0, <2>1, <2>4, <2>5, <2>6 DEF TakenInv
<1> QED BY <1>10, <1>12, <1>13, <1>14, <1>15, <1>16, <1>17 DEF TuiInv

LEMMA OpStep ==
  ASSUME TuiInv, AgentOp
  PROVE  TuiInv'
<1>1. ag.pc = "idle" /\ ag.ctl # <<>> /\ AnswerState("idle")
  BY DEF AgentOp, AnswerState
<1> DEFINE k == Head(ag.ctl).k
           more == [Session EXCEPT !.more = TRUE]
           broken == [Session EXCEPT !.more = TRUE, !.ok = FALSE]
<1>2. CASE k = "prompt" /\ TakePrompt("idle")
  BY <1>1, <1>2, TakeKeeps
<1>3. CASE k = "queue_clear" /\ ClearQueue(<<IdleEv>>, "idle")
  BY <1>1, <1>3, ClearKeeps
<1>4. ASSUME NEW e \in {Notice("idle"), Session, Rejected("idle", None), broken}
      PROVE  /\ e \in TuiEvents /\ e.type \in {"notice", "session_done", "rejected"}
             /\ e.id = 0 /\ e.state = "idle"
  <2>1. Notice("idle") \in TuiEvents /\ Notice("idle").type = "notice"
        /\ Notice("idle").id = 0 /\ Notice("idle").state = "idle"
    BY DEF Notice, Printed, TuiEvents, EvTypes, EvStates, None
  <2>2. Session \in TuiEvents /\ Session.type = "session_done"
        /\ Session.id = 0 /\ Session.state = "idle"
    BY DEF Session, Printed, TuiEvents, EvTypes, EvStates, None
  <2>3. Rejected("idle", None) \in TuiEvents /\ Rejected("idle", None).type = "rejected"
        /\ Rejected("idle", None).id = 0 /\ Rejected("idle", None).state = "idle"
    BY DEF Rejected, Printed, TuiEvents, EvTypes, EvStates, None
  <2>4. broken \in TuiEvents /\ broken.type = "session_done"
        /\ broken.id = 0 /\ broken.state = "idle"
    BY DEF Session, Printed, TuiEvents, EvTypes, EvStates, None
  <2> HIDE DEF broken
  <2> QED BY <2>1, <2>2, <2>3, <2>4
<1>5. ASSUME NEW e \in {Notice("idle"), Session, Rejected("idle", None), broken},
             k # "prompt", Answers(<<e>>)
      PROVE  TuiInv'
  <2>1. /\ e \in TuiEvents /\ e.type \in {"notice", "session_done", "rejected"}
        /\ e.id = 0 /\ e.state = "idle"
    BY <1>4
  <2> QED BY <1>1, <1>5, <2>1, AnswersOne
<1>6. CASE k = "new" /\ Answers(<<more, IdleEv>>)
  <2>1. more \in TuiEvents /\ more.type = "session_done" /\ more.id = 0
    BY DEF Session, Printed, TuiEvents, EvTypes, EvStates, None
  <2> HIDE DEF more
  <2> DEFINE es == <<more, IdleEv>>
  <2>2. /\ es \in Seq(TuiEvents) /\ DOMAIN es = {1, 2} /\ es[1] = more /\ es[2] = IdleEv
        /\ Made(es, Idles, KeepsIdle)
    BY <2>1, IdleEvFacts, SaysTwo
  <2>3. Answers(es) /\ Head(ag.ctl).k # "prompt"
    BY <1>6
  <2> HIDE DEF es
  <2>4. \A x \in DOMAIN es : /\ es[x].type \in {"notice", "session_done", "rejected", "idle"}
                             /\ es[x].id = 0
    BY <2>1, <2>2, IdleEvFacts
  <2> QED BY <1>1, <2>2, <2>3, <2>4, AnswersKeeps
<1>7. CASE /\ k \in {"compact", "tool"}
           /\ ag' = [ag EXCEPT !.ctl = Tail(@), !.cancel = IF k = "tool" THEN FALSE ELSE @,
                               !.pc = IF k = "tool" THEN "run" ELSE "squeeze"]
           /\ AgentSays(IF k = "tool" THEN <<ToolStart(None)>> ELSE <<StateEv("compacting", None)>>)
           /\ UNCHANGED <<inq, ui, seen>>
  BY <1>1, <1>7, BeginsWork
<1>8. CASE k = "help" /\ Answers(<<Notice("idle")>>)
  BY <1>5, <1>8
<1>9. CASE k = "save" /\ \E e \in {Session, Rejected("idle", None)} : Answers(<<e>>)
  BY <1>5, <1>9
<1>10. CASE k = "new" /\ Answers(<<broken>>)
  BY <1>5, <1>10
<1>11. CASE k = "compact" /\ Answers(<<Rejected("idle", None)>>)
  BY <1>5, <1>11
<1> QED BY <1>2, <1>3, <1>6, <1>7, <1>8, <1>9, <1>10, <1>11 DEF AgentOp

LEMMA PumpStep ==
  ASSUME TuiInv, AgentPump
  PROVE  TuiInv'
<1> DEFINE state == IF ag.pc = "run" THEN "tool_running" ELSE "generating"
           k == Head(ag.ctl).k
<1>1. /\ ag.pc \in {"gen", "run", "squeeze"} /\ AnswerState(state)
      /\ state \in {"generating", "tool_running"}
  BY DEF AgentPump, AnswerState
<1>2. \/ FlushDrop(state)
      \/ /\ ag.ctl # <<>>
         /\ \/ k = "prompt" /\ TakePrompt(state)
            \/ k = "queue_clear" /\ ClearQueue(<<>>, state)
            \/ k = "help" /\ Answers(<<Notice(state)>>)
            \/ k \in {"save", "compact", "new", "tool"} /\ Answers(<<Rejected(state, None)>>)
  BY DEF AgentPump
<1> HIDE DEF state
<1>3. CASE FlushDrop(state)
  BY <1>1, <1>3, FlushKeeps
<1>4. CASE ag.ctl # <<>> /\ k = "prompt" /\ TakePrompt(state)
  BY <1>1, <1>4, TakeKeeps
<1>5. CASE ag.ctl # <<>> /\ k = "queue_clear" /\ ClearQueue(<<>>, state)
  BY <1>1, <1>5, ClearKeeps
<1>6. ASSUME NEW e \in {Notice(state), Rejected(state, None)}, ag.ctl # <<>>,
             k # "prompt", Answers(<<e>>)
      PROVE  TuiInv'
  <2>1. /\ e \in TuiEvents /\ e.type \in {"notice", "rejected"} /\ e.id = 0 /\ e.state = state
    <3>1. state \in EvStates
      BY <1>1 DEF EvStates
    <3>2. /\ Notice(state) \in TuiEvents /\ Notice(state).type = "notice"
          /\ Notice(state).id = 0 /\ Notice(state).state = state
      BY <3>1 DEF Notice, Printed, TuiEvents, EvTypes, None
    <3>3. /\ Rejected(state, None) \in TuiEvents /\ Rejected(state, None).type = "rejected"
          /\ Rejected(state, None).id = 0 /\ Rejected(state, None).state = state
      BY <3>1 DEF Rejected, Printed, TuiEvents, EvTypes, None
    <3> QED BY <3>2, <3>3
  <2>2. e.type \in {"notice", "session_done", "rejected"} /\ ag.pc # "idle"
        /\ ag.pc \in {"idle", "gen", "run", "squeeze"}
    BY <1>1, <2>1
  <2> QED BY <1>1, <1>6, <2>1, <2>2, AnswersOne
<1>7. CASE ag.ctl # <<>> /\ k = "help" /\ Answers(<<Notice(state)>>)
  BY <1>6, <1>7
<1>8. CASE /\ ag.ctl # <<>> /\ k \in {"save", "compact", "new", "tool"}
           /\ Answers(<<Rejected(state, None)>>)
  BY <1>6, <1>8
<1> QED BY <1>2, <1>3, <1>4, <1>5, <1>7, <1>8

LEMMA AgentKeeps ==
  ASSUME TuiInv, AgentStep
  PROVE  TuiInv'
<1>1. CASE AgentFlush
  <2>1. AnswerState("idle") /\ FlushDrop("idle")
    BY <1>1 DEF AgentFlush, AnswerState
  <2> QED BY <2>1, FlushKeeps
<1> QED BY <1>1, StartStep, ReadsStep, OpStep, PromptStep, ByeStep, VoidsStep, PumpStep, TurnStep,
           SettlesStep, ExitsStep DEF AgentStep

-----------------------------------------------------------------------------
(* The UI *)

LEMMA TakesKeep ==
  ASSUME TuiInv, Takes
  PROVE  TuiInv'
<1>1. /\ TuiTypes /\ DisplayInv /\ StartInv /\ OrderInv /\ TakenInv /\ ByeInv /\ PendInv
  BY DEF TuiInv
<1>2. TuiTypes'
  <2>1. evs \in Seq(TuiEvents) /\ evs # <<>>
    BY <1>1 DEF TuiTypes, Takes
  <2>2. Tail(evs) \in Seq(TuiEvents)
    BY <2>1
  <2> QED BY <1>1, <2>2 DEF TuiTypes, Takes
<1> QED BY <1>1, <1>2, DisplayTakes, StartTakes, OrderTakes, ByeTakes, PendTakes DEF TuiInv

KeyMoves ==
  /\ \/ ui'.asked = ui.asked
     \/ ui'.asked = ui.asked \cup {ui.prompts} /\ ui'.prompts = ui.prompts
  /\ \/ /\ inq' = inq
        /\ ui'.prompts = ui.prompts \/ (ag.pc = "exited" /\ ui'.prompts = ui.prompts + 1)
     \/ \E o \in TuiOps : /\ inq' = Append(inq, o) /\ (o.k = "quit" => ui.prompts \in ui'.asked)
                          /\ \/ o.id = 0 /\ ui'.prompts = ui.prompts
                             \/ o.id = ui'.prompts /\ ui'.prompts = ui.prompts + 1
  /\ \/ ui'.phase = ui.phase
     \/ ui.phase = "idle" /\ ui'.phase = "generating" /\ inq' # inq /\ ui'.prompts = ui.prompts + 1
  /\ ag.pc # "exited" =>
       \/ ui'.prompts = ui.prompts /\ ui'.pending = ui.pending
       \/ ui'.prompts = ui.prompts + 1 /\ ui'.pending = ui.pending \cup {ui'.prompts}
  /\ ui.at = "loop" /\ evs' = evs /\ ag' = ag /\ seen' = seen
  /\ ui' \in UiSet /\ ui'.at \in {"loop", "drain"}
  /\ ui'.qids = ui.qids /\ ui'.open = ui.open /\ ui'.buf = ui.buf
  /\ ui'.queue = ui.queue /\ ui'.bye = ui.bye

LEMMA IdsNat ==
  ASSUME TuiTypes
  PROVE  /\ Waiting \cup Settled \subseteq Nat /\ IdsOf(inq) \subseteq Nat
         /\ \A i \in DOMAIN inq : inq[i].id \in Nat
<1>1. seen \in SeenSet /\ ag \in AgSet /\ inq \in Seq(TuiOps)
  BY DEF TuiTypes
<1>2. \A i \in DOMAIN inq : inq[i] \in TuiOps
  BY <1>1
<1>3. \A i \in DOMAIN ag.ctl : ag.ctl[i] \in TuiOps
  BY <1>1 DEF AgSet
<1>4. \A i \in DOMAIN ag.drops : ag.drops[i] \in TuiOps
  BY <1>1 DEF AgSet
<1>5. \A i \in DOMAIN ag.pq : ag.pq[i] \in TuiOps
  BY <1>1 DEF AgSet, TuiPrompts
<1>6. /\ IdsOf(inq) \subseteq Nat /\ IdsOf(ag.ctl) \subseteq Nat
      /\ IdsOf(ag.drops) \subseteq Nat /\ IdsOf(ag.pq) \subseteq Nat
  BY <1>2, <1>3, <1>4, <1>5 DEF IdsOf, TuiOps
<1>7. Settled \subseteq Nat
  BY <1>1 DEF SeenSet, Settled
<1> QED BY <1>2, <1>6, <1>7 DEF Waiting, TuiOps

LEMMA KeysKeep ==
  ASSUME TuiInv, KeyMoves
  PROVE  TuiInv'
<1>1. /\ TuiTypes /\ DisplayInv /\ StartInv /\ OrderInv /\ TakenInv /\ ByeInv /\ PendInv
      /\ ui \in UiSet /\ inq \in Seq(TuiOps) /\ evs' = evs /\ ag' = ag /\ seen' = seen
      /\ ui.prompts \in Nat /\ ui'.prompts \in {ui.prompts, ui.prompts + 1}
      /\ ui'.prompts \in Nat /\ ui.asked \in SUBSET Nat
      /\ ui'.asked = ui.asked \/ ui'.asked = ui.asked \cup {ui.prompts}
  BY DEF TuiInv, TuiTypes, UiSet, KeyMoves
<1>2. /\ Waiting \cup Settled \subseteq Nat /\ \A p \in Waiting \cup Settled : p <= ui.prompts
      /\ IdsOf(inq) \subseteq Nat /\ \A i \in DOMAIN inq : inq[i].id \in Nat
      /\ \A n \in ui.asked : n <= ui.prompts
  BY <1>1, IdsNat DEF OrderInv, TakenInv
<1>3. /\ IdsOf(ag'.ctl) = IdsOf(ag.ctl) /\ IdsOf(ag'.drops) = IdsOf(ag.drops)
      /\ IdsOf(ag'.pq) = IdsOf(ag.pq) /\ Settled' = Settled
  BY <1>1 DEF Settled
<1>4. \A n \in ui'.asked : n <= ui'.prompts
  BY <1>1, <1>2
<1>5. ByeInv'
  <2>1. ASSUME QuitServed PROVE QuitServed'
    <3>1. ASSUME NEW a \in ui'.asked, \A b \in ui'.asked : a <= b PROVE 1 .. a \subseteq Settled
      <4>1. PICK b \in ui.asked : TRUE
        BY <2>1 DEF QuitServed
      <4>2. CASE a \in ui.asked
        BY <1>1, <2>1, <3>1, <4>2 DEF QuitServed
      <4>3. CASE a \notin ui.asked
        <5>1. a = ui.prompts /\ ui.asked \subseteq ui'.asked
          BY <1>1, <3>1, <4>3
        <5>2. a <= b /\ b <= a /\ a \in Nat /\ b \in Nat
          BY <1>1, <1>2, <3>1, <5>1
        <5> QED BY <4>3, <5>2
      <4> QED BY <4>2, <4>3
    <3>2. ui'.asked # {}
      BY <1>1, <2>1 DEF QuitServed
    <3> QED BY <1>3, <3>1, <3>2 DEF QuitServed
  <2>2. ui'.queue = ui.queue
    BY DEF KeyMoves
  <2> QED BY <1>1, <2>1, <2>2 DEF ByeInv
<1>6. ASSUME inq' \in Seq(TuiOps), Waiting \subseteq Waiting',
             inq' # inq /\ ui'.prompts = ui.prompts + 1 => Outstanding',
             OrderInv', TakenInv'
      PROVE  TuiInv'
  <2>1. Outstanding => Outstanding'
    BY <1>6 DEF Outstanding
  <2>2. KeyPressed
    BY <1>6, <2>1 DEF KeyPressed, KeyMoves
  <2>3. DisplayInv' /\ StartInv'
    BY <1>1, <2>2, DisplayKeys, StartKeys
  <2>4. PendInv'
    BY <1>1, <2>2, PendKeys DEF KeyMoves
  <2>5. TuiTypes'
    BY <1>1, <1>6 DEF TuiTypes, KeyMoves
  <2> QED BY <1>5, <1>6, <2>3, <2>4, <2>5 DEF TuiInv
<1>7. CASE /\ inq' = inq
           /\ ui'.prompts = ui.prompts \/ (ag.pc = "exited" /\ ui'.prompts = ui.prompts + 1)
  <2>1. Waiting' = Waiting
    BY <1>3, <1>7 DEF Waiting
  <2>2. \A p \in Waiting \cup Settled : p <= ui'.prompts
    BY <1>1, <1>2
  <2>3. OrderInv'
    BY <1>1, <1>3, <1>7, <2>1, <2>2 DEF OrderInv
  <2>4. TakenInv'
    <3>1. ag.pc # "exited" => 1 .. ui'.prompts \subseteq Waiting \cup Settled
      BY <1>1, <1>7 DEF TakenInv
    <3>2. ui.asked \subseteq ui'.asked
      BY <1>1
    <3>3. /\ \A i \in DOMAIN inq : inq[i].k = "quit" =>
               \E n \in ui'.asked : \A j \in DOMAIN inq : i < j => inq[j].id = 0 \/ n < inq[j].id
          /\ ag.quit \/ ag.after => \E n \in ui'.asked : \A p \in IdsOf(inq) : p = 0 \/ n < p
      BY <1>1, <3>2 DEF TakenInv
    <3> QED BY <1>1, <1>3, <1>4, <1>7, <2>1, <3>1, <3>3 DEF TakenInv
  <2> QED BY <1>1, <1>6, <1>7, <2>1, <2>3, <2>4
<1>8. ASSUME NEW o \in TuiOps, inq' = Append(inq, o), o.k = "quit" => ui.prompts \in ui'.asked,
             \/ o.id = 0 /\ ui'.prompts = ui.prompts
             \/ o.id = ui'.prompts /\ ui'.prompts = ui.prompts + 1
      PROVE  TuiInv'
  <2>1. inq' \in Seq(TuiOps) /\ IdsOf(inq') = IdsOf(inq) \cup {o.id}
    BY <1>1, <1>8, IdsJoin
  <2>2. Waiting' = Waiting \cup {o.id}
    BY <1>3, <2>1 DEF Waiting
  <2>3. \A p \in Waiting \cup Settled : o.id = 0 \/ p < o.id
    BY <1>1, <1>2, <1>8
  <2>4. OrderInv'
    <3>1. Rising(inq')
      <4>1. Rising(inq) /\ Before(IdsOf(inq), {o.id})
        BY <1>1, <2>3 DEF OrderInv, Before, Waiting
      <4> QED BY <1>1, <1>8, <4>1, RisingAppend
    <3>2. /\ Before(IdsOf(ag.ctl), IdsOf(inq')) /\ Before(IdsOf(ag.pq), IdsOf(inq'))
          /\ Before(seen.dropped, IdsOf(inq'))
      <4>1. /\ Before(IdsOf(ag.ctl), IdsOf(inq)) /\ Before(IdsOf(ag.pq), IdsOf(inq))
            /\ Before(seen.dropped, IdsOf(inq))
        BY <1>1 DEF OrderInv
      <4>2. /\ IdsOf(ag.ctl) \subseteq Waiting /\ IdsOf(ag.pq) \subseteq Waiting
            /\ seen.dropped \subseteq Settled
        BY DEF Waiting, Settled
      <4> QED BY <2>1, <2>3, <4>1, <4>2 DEF Before
    <3>3. \A p \in (Waiting \cup Settled)' : p <= ui'.prompts
      <4>1. o.id <= ui'.prompts
        BY <1>1, <1>8
      <4>2. \A p \in Waiting \cup Settled : p <= ui'.prompts
        BY <1>1, <1>2
      <4> QED BY <1>3, <2>2, <4>1, <4>2
    <3> QED BY <1>1, <1>3, <3>1, <3>2, <3>3 DEF OrderInv
  <2>5. \A n \in ui.asked : o.id = 0 \/ n < o.id
    BY <1>1, <1>2, <1>8
  <2>6. TakenInv'
    <3>1. ag.pc # "exited" => 1 .. ui'.prompts \subseteq (Waiting \cup Settled)'
      <4>1. SUFFICES ASSUME ag.pc # "exited"
                     PROVE  1 .. ui'.prompts \subseteq (Waiting \cup Settled)'
        OBVIOUS
      <4>2. 1 .. ui.prompts \subseteq Waiting \cup Settled
        BY <1>1, <4>1 DEF TakenInv
      <4>3. 1 .. ui'.prompts \subseteq 1 .. ui.prompts \cup {o.id}
        BY <1>1, <1>8
      <4> QED BY <1>3, <2>2, <4>2, <4>3
    <3>2. ui.asked \subseteq ui'.asked
      BY <1>1
    <3>3. /\ DOMAIN inq = 1 .. Len(inq) /\ DOMAIN inq' = 1 .. Len(inq) + 1 /\ Len(inq) \in Nat
          /\ inq'[Len(inq) + 1] = o /\ \A i \in 1 .. Len(inq) : inq'[i] = inq[i]
      BY <1>1, <1>8
    <3>4. ASSUME NEW i \in DOMAIN inq', inq'[i].k = "quit"
          PROVE  \E n \in ui'.asked :
                   \A j \in DOMAIN inq' : i < j => inq'[j].id = 0 \/ n < inq'[j].id
      <4>1. CASE i \in 1 .. Len(inq)
        <5>1. PICK n \in ui.asked : \A j \in DOMAIN inq : i < j => inq[j].id = 0 \/ n < inq[j].id
          BY <1>1, <3>3, <3>4, <4>1 DEF TakenInv
        <5>2. ASSUME NEW j \in DOMAIN inq', i < j PROVE inq'[j].id = 0 \/ n < inq'[j].id
          <6>1. CASE j \in 1 .. Len(inq)
            BY <3>3, <5>1, <5>2, <6>1
          <6>2. CASE j = Len(inq) + 1
            BY <2>5, <3>3, <6>2
          <6> QED BY <3>3, <6>1, <6>2
        <5> QED BY <3>2, <5>2
      <4>2. CASE i = Len(inq) + 1
        <5>1. ui.prompts \in ui'.asked
          BY <1>8, <3>3, <3>4, <4>2
        <5>2. \A j \in DOMAIN inq' : ~(i < j)
          BY <3>3, <4>2
        <5> QED BY <5>1, <5>2
      <4> QED BY <3>3, <4>1, <4>2
    <3>5. ASSUME ag.quit \/ ag.after
          PROVE  \E n \in ui'.asked : \A p \in IdsOf(inq') : p = 0 \/ n < p
      <4>1. PICK n \in ui.asked : \A p \in IdsOf(inq) : p = 0 \/ n < p
        BY <1>1, <3>5 DEF TakenInv
      <4> QED BY <2>1, <2>5, <3>2, <4>1
    <3> QED BY <1>1, <1>4, <3>1, <3>4, <3>5 DEF TakenInv
  <2>7. ui'.prompts = ui.prompts + 1 => Outstanding'
    <3>1. ui.prompts + 1 # 0 /\ ui.prompts + 1 # ui.prompts
      BY <1>1
    <3>2. o.id \in Waiting'
      BY <2>2
    <3> QED BY <1>8, <3>1, <3>2 DEF Outstanding
  <2> QED BY <1>6, <2>1, <2>2, <2>4, <2>6, <2>7
<1> QED BY <1>7, <1>8 DEF KeyMoves

LEMMA OverFacts ==
  ASSUME NEW m \in UiSet, NEW why
  PROVE  /\ Over(m, why) \in UiSet /\ Over(m, why).at = "over"
         /\ Over(m, why).prompts = m.prompts /\ Over(m, why).asked = m.asked
         /\ Over(m, why).queue = m.queue /\ Over(m, why).bye = m.bye
BY DEF Over, UiSet

LEMMA KillsFacts ==
  ASSUME NEW s \in SeenSet
  PROVE  /\ Kills(s) \in SeenSet /\ Kills(s).killed = AgentUp /\ Kills(s).cleared = s.cleared
         /\ Kills(s).ran = s.ran /\ Kills(s).refused = s.refused
         /\ Kills(s).dropped = s.dropped /\ Kills(s).died = s.died
BY DEF Kills, SeenSet, AgentUp

LEMMA ToldFacts ==
  ASSUME TuiTypes, NEW e
  PROVE  /\ Told(e) \in SeenSet /\ Told(e).killed = seen.killed
         /\ Told(e).ran = seen.ran /\ Told(e).refused = seen.refused
         /\ Told(e).dropped = seen.dropped /\ Told(e).died = seen.died
         /\ seen.cleared \subseteq Told(e).cleared
         /\ e.type = "idle" => ui.pending \ ui.qids \subseteq Told(e).cleared
<1>1. seen \in SeenSet /\ Unqueued(ui) \in SUBSET Nat
  BY DEF TuiTypes, UiSet, Unqueued
<1>2. CASE e.type # "idle"
  BY <1>1, <1>2 DEF Told
<1>3. CASE e.type = "idle"
  <2> DEFINE c == seen.cleared \union Unqueued(ui)
  <2>1. Told(e) = [seen EXCEPT !.cleared = c]
    BY <1>3 DEF Told
  <2>2. c \in SUBSET Nat /\ seen.cleared \subseteq c /\ ui.pending \ ui.qids \subseteq c
    BY <1>1 DEF SeenSet, Unqueued
  <2> HIDE DEF c
  <2> QED BY <1>1, <2>1, <2>2 DEF SeenSet
<1> QED BY <1>2, <1>3

(* An event the main loop applies, in the loop or in the drain. *)
LEMMA LoopTakes ==
  ASSUME TuiInv, ui.at \in {"loop", "drain"}, evs # <<>>, evs' = Tail(evs), inq' = inq, ag' = ag,
         NEW m, m = IF Head(evs).type = "exited" THEN ui ELSE Apply(ui, Head(evs)),
         NEW ends \in BOOLEAN, ends <=> m.bye \/ Head(evs).type = "exited",
         NEW why, ui' = IF ends THEN Over(m, why) ELSE m,
         seen' = IF ends THEN Kills(Told(Head(evs))) ELSE Told(Head(evs))
  PROVE  TuiInv'
<1> DEFINE e == Head(evs)
<1>1. TuiTypes /\ ui \in UiSet /\ evs \in Seq(TuiEvents) /\ ui.at # "over"
  BY DEF TuiInv, TuiTypes
<1>2. e \in TuiEvents
  BY <1>1, SeqTail
<1>3. /\ Told(e) \in SeenSet /\ Told(e).killed = seen.killed
      /\ Told(e).ran = seen.ran /\ Told(e).refused = seen.refused
      /\ Told(e).dropped = seen.dropped /\ Told(e).died = seen.died
      /\ seen.cleared \subseteq Told(e).cleared
      /\ e.type = "idle" => ui.pending \ ui.qids \subseteq Told(e).cleared
  BY <1>1, ToldFacts
<1>4. e.type # "exited" =>
        /\ m \in UiSet /\ m.at = ui.at /\ m.prompts = ui.prompts /\ m.asked = ui.asked
        /\ m.phase = PhaseAfter(ui, e) /\ m.pending = PendingAfter(ui, e)
        /\ m.open = OpenAfter(ui, e) /\ m.buf = BufAfter(ui, e)
        /\ m.qids = IF e.type = "queue" THEN e.items ELSE ui.qids
        /\ m.bye = (ui.bye \/ e.type = "bye")
        /\ m.queue = (ui.queue \/ e.type = "hello")
  BY <1>1, <1>2, ApplyFacts
<1>5. e.type = "exited" => m = ui
  OBVIOUS
<1> HIDE DEF e
<1>6. CASE ends
  <2>1. m \in UiSet
    BY <1>1, <1>4, <1>5
  <2>2. /\ Over(m, why) \in UiSet /\ Over(m, why).at = "over"
        /\ Over(m, why).prompts = m.prompts /\ Over(m, why).asked = m.asked
        /\ Over(m, why).queue = m.queue /\ Over(m, why).bye = m.bye
    BY <2>1, OverFacts
  <2>3. /\ Kills(Told(e)) \in SeenSet /\ Kills(Told(e)).killed = AgentUp
        /\ Kills(Told(e)).cleared = Told(e).cleared
        /\ Kills(Told(e)).ran = Told(e).ran /\ Kills(Told(e)).refused = Told(e).refused
        /\ Kills(Told(e)).dropped = Told(e).dropped /\ Kills(Told(e)).died = Told(e).died
    BY <1>3, KillsFacts
  <2>4. ui' = Over(m, why) /\ seen' = Kills(Told(e))
    BY <1>6 DEF e
  <2>5. e.type \in {"exited", "bye"} \/ ui.bye
    BY <1>4, <1>6 DEF e
  <2>6. /\ ui'.prompts = ui.prompts /\ ui'.asked = ui.asked /\ (ui.queue => ui'.queue)
        /\ (ui'.queue => ui.queue \/ e.type = "hello") /\ (ui'.bye => ui.bye \/ e.type = "bye")
    BY <1>4, <1>5, <2>2, <2>4
  <2>7. Takes
    BY <1>1, <1>3, <2>2, <2>3, <2>4, <2>5, <2>6 DEF Takes, e
  <2> QED BY <2>7, TakesKeep
<1>7. CASE ~ends
  <2>1. ui' = m /\ seen' = Told(e) /\ e.type # "exited"
    BY <1>7 DEF e
  <2>2. Takes
    BY <1>1, <1>3, <1>4, <2>1 DEF Takes, e
  <2> QED BY <2>2, TakesKeep
<1> QED BY <1>6, <1>7

LEMMA HelloTakes ==
  ASSUME TuiInv, WaitForHello
  PROVE  TuiInv'
<1> DEFINE e == Head(evs)
           a == Apply(ui, e)
<1>1. /\ TuiTypes /\ ui \in UiSet /\ evs \in Seq(TuiEvents) /\ ui.at = "hello" /\ seen \in SeenSet
      /\ evs # <<>> /\ evs' = Tail(evs) /\ inq' = inq /\ ag' = ag /\ ui.pending = {}
      /\ ui' = CASE e.type = "exited" -> Over(ui, "fatal")
                 [] e.type = "bye" -> Over(a, "fatal")
                 [] e.type = "idle" /\ ui.queue -> [a EXCEPT !.at = "loop"]
                 [] OTHER -> a
      /\ seen' = IF ui'.at = "over" THEN Kills(seen) ELSE seen
  BY DEF TuiInv, TuiTypes, StartInv, WaitForHello
<1>2. e \in TuiEvents
  BY <1>1, SeqTail
<1>3. /\ a \in UiSet /\ a.at = ui.at /\ a.prompts = ui.prompts /\ a.asked = ui.asked
      /\ a.phase = PhaseAfter(ui, e) /\ a.pending = PendingAfter(ui, e)
      /\ a.open = OpenAfter(ui, e) /\ a.buf = BufAfter(ui, e)
      /\ a.qids = IF e.type = "queue" THEN e.items ELSE ui.qids
      /\ a.bye = (ui.bye \/ e.type = "bye")
      /\ a.queue = (ui.queue \/ e.type = "hello")
  BY <1>1, <1>2, ApplyFacts
<1>4. /\ Kills(seen) \in SeenSet /\ Kills(seen).killed = AgentUp
      /\ Kills(seen).cleared = seen.cleared
      /\ Kills(seen).ran = seen.ran /\ Kills(seen).refused = seen.refused
      /\ Kills(seen).dropped = seen.dropped /\ Kills(seen).died = seen.died
  BY <1>1, KillsFacts
<1> HIDE DEF e, a
<1>5. CASE e.type = "exited" \/ e.type = "bye"
  <2>1. PICK m \in {ui, a} : ui' = Over(m, "fatal") /\ (m = ui \/ e.type = "bye")
    BY <1>1, <1>5
  <2>2. /\ m \in UiSet /\ m.prompts = ui.prompts /\ m.asked = ui.asked
        /\ (ui.queue => m.queue) /\ (m.queue => ui.queue \/ e.type = "hello")
        /\ (m.bye => ui.bye \/ e.type = "bye")
    BY <1>1, <1>3
  <2>3. /\ ui' \in UiSet /\ ui'.at = "over" /\ ui'.prompts = m.prompts /\ ui'.asked = m.asked
        /\ ui'.queue = m.queue /\ ui'.bye = m.bye
    BY <2>1, <2>2, OverFacts
  <2>4. seen' = Kills(seen)
    BY <1>1, <2>3
  <2>5. Takes
    BY <1>1, <1>4, <1>5, <2>2, <2>3, <2>4 DEF Takes, e
  <2> QED BY <2>5, TakesKeep
<1>6. CASE ~(e.type = "exited" \/ e.type = "bye")
  <2>1. \/ ui' = [a EXCEPT !.at = "loop"] /\ ui.queue
        \/ ui' = a
    BY <1>1, <1>6
  <2>2. /\ ui' \in UiSet /\ ui'.prompts = a.prompts /\ ui'.asked = a.asked
        /\ ui'.phase = a.phase /\ ui'.pending = a.pending /\ ui'.open = a.open
        /\ ui'.buf = a.buf /\ ui'.qids = a.qids /\ ui'.bye = a.bye /\ ui'.queue = a.queue
        /\ ui'.at = a.at \/ (ui'.at = "loop" /\ ui.queue)
    BY <1>3, <2>1 DEF UiSet
  <2>3. ui'.at # "over" /\ seen' = seen
    BY <1>1, <1>3, <2>2
  <2>4. Takes
    BY <1>1, <1>3, <2>2, <2>3 DEF Takes, e
  <2> QED BY <2>4, TakesKeep
<1> QED BY <1>5, <1>6

LEMMA OpFacts ==
  ASSUME NEW k \in SlashOps \cup {"prompt"}, NEW id \in Nat, k = "prompt" <=> id # 0
  PROVE  Op(k, id) \in TuiOps /\ Op(k, id).k = k /\ Op(k, id).id = id
BY DEF Op, TuiOps

LEMMA LongerSeq ==
  ASSUME NEW S, NEW s \in Seq(S), NEW o \in S
  PROVE  Append(s, o) # s
<1>1. Len(Append(s, o)) = Len(s) + 1 /\ Len(s) \in Nat
  OBVIOUS
<1> QED BY <1>1

(* A key that sends an operation, or none, and leaves prompts and phase. *)
LEMMA PlainKey ==
  ASSUME TuiInv, ui.at = "loop", UNCHANGED <<evs, ag, seen>>, ui' \in UiSet,
         NEW k \in SlashOps, inq' = inq \/ Writes(Op(k, None)),
         ui'.at \in {"loop", "drain"}, ui'.prompts = ui.prompts, ui'.pending = ui.pending,
         \/ ui'.asked = ui.asked /\ k # "quit"
         \/ ui'.asked = ui.asked \cup {ui.prompts},
         ui'.phase = ui.phase, ui'.qids = ui.qids, ui'.open = ui.open, ui'.buf = ui.buf,
         ui'.queue = ui.queue, ui'.bye = ui.bye
  PROVE  TuiInv'
<1>1. Op(k, 0) \in TuiOps /\ Op(k, 0).k = k /\ Op(k, 0).id = 0
  BY OpFacts DEF SlashOps
<1>2. inq' = inq \/ inq' = Append(inq, Op(k, 0))
  BY DEF Writes, None
<1>3. k = "quit" => ui.prompts \in ui'.asked
  OBVIOUS
<1>4. KeyMoves
  BY <1>1, <1>2, <1>3 DEF KeyMoves
<1> QED BY <1>4, KeysKeep

LEMMA EnterPrompt ==
  ASSUME TuiInv, Enter("prompt")
  PROVE  TuiInv'
<1> DEFINE m == [ui EXCEPT !.prompts = @ + 1]
           p == [m EXCEPT !.pending = @ \union {m.prompts}]
<1>1. ui \in UiSet /\ inq \in Seq(TuiOps) /\ ui.prompts \in Nat /\ ui.pending \in SUBSET Nat
  BY DEF TuiInv, TuiTypes, UiSet
<1>2. /\ ui.at = "loop" /\ evs' = evs /\ ag' = ag /\ seen' = seen
      /\ Writes(Op("prompt", m.prompts)) /\ ui' = SendPrompt(m, ag.pc # "exited")
  <2>1. m = [ui EXCEPT !.prompts = IF "prompt" = "prompt" THEN @ + 1 ELSE @,
                       !.ops = IF "prompt" = "prompt" THEN @ ELSE @ + 1]
    BY <1>1 DEF UiSet
  <2> HIDE DEF m
  <2> QED BY <2>1 DEF Enter
<1>3. /\ m \in UiSet /\ m.at = "loop" /\ m.prompts = ui.prompts + 1 /\ m.pending = ui.pending
      /\ m.asked = ui.asked /\ m.phase = ui.phase /\ m.qids = ui.qids /\ m.open = ui.open
      /\ m.buf = ui.buf /\ m.queue = ui.queue /\ m.bye = ui.bye
  BY <1>1, <1>2 DEF UiSet
<1> HIDE DEF m
<1>4. ui.prompts + 1 \in Nat /\ ui.prompts + 1 # 0
  BY <1>1
<1>5. /\ Op("prompt", m.prompts) \in TuiOps /\ Op("prompt", m.prompts).k = "prompt"
      /\ Op("prompt", m.prompts).id = ui.prompts + 1
  BY <1>3, <1>4, OpFacts
<1>6. CASE ag.pc = "exited"
  <2>1. inq' = inq /\ ui' = m
    BY <1>2, <1>6 DEF Writes, SendPrompt
  <2>2. KeyMoves
    BY <1>2, <1>3, <1>6, <2>1 DEF KeyMoves
  <2> QED BY <2>2, KeysKeep
<1>7. CASE ag.pc # "exited"
  <2>1. inq' = Append(inq, Op("prompt", m.prompts)) /\ ui' = PushUser(p)
    BY <1>2, <1>7 DEF Writes, SendPrompt
  <2>2. /\ p \in UiSet /\ p.at = "loop" /\ p.prompts = ui.prompts + 1
        /\ p.pending = ui.pending \cup {ui.prompts + 1}
        /\ p.asked = ui.asked /\ p.phase = ui.phase /\ p.qids = ui.qids /\ p.open = ui.open
        /\ p.buf = ui.buf /\ p.queue = ui.queue /\ p.bye = ui.bye
    BY <1>1, <1>3, <1>4 DEF UiSet
  <2> HIDE DEF p
  <2>3. /\ ui' \in UiSet /\ ui'.at = "loop" /\ ui'.prompts = ui.prompts + 1
        /\ ui'.pending = ui.pending \cup {ui.prompts + 1}
        /\ ui'.asked = ui.asked /\ ui'.qids = ui.qids /\ ui'.open = ui.open
        /\ ui'.buf = ui.buf /\ ui'.queue = ui.queue /\ ui'.bye = ui.bye
        /\ ui'.phase = IF ui.phase = "idle" THEN "generating" ELSE ui.phase
    BY <2>1, <2>2 DEF PushUser, UiSet, TuiPhases
  <2>4. inq' # inq
    BY <1>1, <1>5, <2>1, LongerSeq
  <2>5. \E o \in TuiOps : /\ inq' = Append(inq, o) /\ (o.k = "quit" => ui.prompts \in ui'.asked)
                          /\ o.id = ui'.prompts /\ ui'.prompts = ui.prompts + 1
    BY <1>5, <2>1, <2>3
  <2>6. KeyMoves
    BY <1>2, <2>3, <2>4, <2>5 DEF KeyMoves
  <2> QED BY <2>6, KeysKeep
<1> QED BY <1>6, <1>7

LEMMA EnterSlash ==
  ASSUME TuiInv, NEW k \in SlashOps, Enter(k)
  PROVE  TuiInv'
<1> DEFINE m == [ui EXCEPT !.ops = @ + 1]
           sent == ag.pc # "exited"
<1>1. ui \in UiSet /\ k # "prompt"
  BY DEF TuiInv, TuiTypes, SlashOps
<1>2. /\ ui.at = "loop" /\ UNCHANGED <<evs, ag, seen>>
      /\ \/ k \in {"help", "save", "compact", "new", "tool"} /\ Writes(Op(k, None))
            /\ ui' = [m EXCEPT !.ready = ~sent]
         \/ k = "queue_clear" /\ Writes(Op(k, None)) /\ ui' = [m EXCEPT !.ready = @ \/ ~sent]
         \/ k = "quit" /\ Writes(Op(k, None))
            /\ ui' = [m EXCEPT !.ready = @ \/ ~sent, !.asked = @ \union {m.prompts}]
         \/ k = "cancel" /\ ui' = m /\ (inq' = inq \/ Writes(Op(k, None)))
  <2>1. m = [ui EXCEPT !.prompts = IF k = "prompt" THEN @ + 1 ELSE @,
                       !.ops = IF k = "prompt" THEN @ ELSE @ + 1]
    BY <1>1 DEF UiSet
  <2> HIDE DEF m
  <2> QED BY <1>1, <2>1 DEF Enter
<1>3. /\ m \in UiSet /\ m.at = "loop" /\ m.prompts = ui.prompts /\ m.pending = ui.pending
      /\ m.asked = ui.asked /\ m.phase = ui.phase /\ m.qids = ui.qids /\ m.open = ui.open
      /\ m.buf = ui.buf /\ m.queue = ui.queue /\ m.bye = ui.bye
  BY <1>1, <1>2 DEF UiSet
<1> HIDE DEF m
<1>4. PICK r \in BOOLEAN : \/ ui' = [m EXCEPT !.ready = r] /\ k # "quit"
                           \/ ui' = [m EXCEPT !.ready = r, !.asked = @ \union {m.prompts}]
  <2>1. m = [m EXCEPT !.ready = m.ready] /\ m.ready \in BOOLEAN
    BY <1>3 DEF UiSet
  <2> QED BY <1>2, <2>1
<1>5. /\ ui' \in UiSet /\ ui'.at = "loop" /\ ui'.prompts = ui.prompts /\ ui'.pending = ui.pending
      /\ ui'.phase = ui.phase /\ ui'.qids = ui.qids /\ ui'.open = ui.open
      /\ ui'.buf = ui.buf /\ ui'.queue = ui.queue /\ ui'.bye = ui.bye
      /\ \/ ui'.asked = ui.asked /\ k # "quit"
         \/ ui'.asked = ui.asked \cup {ui.prompts}
  <2>1. CASE ui' = [m EXCEPT !.ready = r] /\ k # "quit"
    BY <1>3, <2>1 DEF UiSet
  <2>2. CASE ui' = [m EXCEPT !.ready = r, !.asked = @ \union {m.prompts}]
    <3> DEFINE a == m.asked \union {m.prompts}
    <3>1. a \in SUBSET Nat /\ a = ui.asked \cup {ui.prompts}
      BY <1>3 DEF UiSet
    <3>2. ui' = [m EXCEPT !.ready = r, !.asked = a]
      BY <2>2
    <3> HIDE DEF a
    <3> QED BY <1>3, <3>1, <3>2 DEF UiSet
  <2> QED BY <1>4, <2>1, <2>2
<1>6. inq' = inq \/ Writes(Op(k, None))
  BY <1>2
<1> QED BY <1>2, <1>5, <1>6, PlainKey

LEMMA EscStep ==
  ASSUME TuiInv, Esc
  PROVE  TuiInv'
<1>1. ui \in UiSet
  BY DEF TuiInv, TuiTypes
<1>2. /\ ui.at = "loop" /\ UNCHANGED <<evs, ag, seen>> /\ ui' = [ui EXCEPT !.ops = @ + 1]
      /\ inq' = inq \/ Writes(Op("cancel", None))
  BY DEF Esc
<1>3. /\ ui' \in UiSet /\ ui'.at = "loop" /\ ui'.prompts = ui.prompts /\ ui'.pending = ui.pending
      /\ ui'.phase = ui.phase /\ ui'.qids = ui.qids /\ ui'.open = ui.open
      /\ ui'.buf = ui.buf /\ ui'.queue = ui.queue /\ ui'.bye = ui.bye /\ ui'.asked = ui.asked
  BY <1>1, <1>2 DEF UiSet
<1>4. "cancel" \in SlashOps /\ "cancel" # "quit"
  BY DEF SlashOps
<1> QED BY <1>2, <1>3, <1>4, PlainKey

LEMMA QuitStep ==
  ASSUME TuiInv, QuitKey
  PROVE  TuiInv'
<1>1. ui \in UiSet
  BY DEF TuiInv, TuiTypes
<1>2. /\ ui.at = "loop" /\ UNCHANGED <<evs, ag, seen>> /\ Writes(Op("quit", None))
      /\ ui' = [ui EXCEPT !.at = "drain", !.asked = @ \union {ui.prompts}]
  BY DEF QuitKey
<1>3. /\ ui' \in UiSet /\ ui'.at = "drain" /\ ui'.prompts = ui.prompts /\ ui'.pending = ui.pending
      /\ ui'.phase = ui.phase /\ ui'.qids = ui.qids /\ ui'.open = ui.open
      /\ ui'.buf = ui.buf /\ ui'.queue = ui.queue /\ ui'.bye = ui.bye
      /\ ui'.asked = ui.asked \cup {ui.prompts}
  BY <1>1, <1>2 DEF UiSet
<1>4. "quit" \in SlashOps
  BY DEF SlashOps
<1> QED BY <1>2, <1>3, <1>4, PlainKey

LEMMA TimesOutStep ==
  ASSUME TuiInv, HelloTimesOut
  PROVE  TuiInv'
<1>1. /\ TuiTypes /\ StartInv /\ OrderInv /\ TakenInv /\ ui \in UiSet /\ seen \in SeenSet
      /\ ui.at = "hello" /\ ag.pc = "loading" /\ ui' = Over(ui, "fatal") /\ seen' = Kills(seen)
      /\ inq' = inq /\ evs' = evs /\ ag' = ag
  BY DEF TuiInv, TuiTypes, HelloTimesOut
<1>2. /\ ui' \in UiSet /\ ui'.at = "over" /\ ui'.prompts = ui.prompts /\ ui'.asked = ui.asked
      /\ ui'.queue = ui.queue /\ ui'.bye = ui.bye
  BY <1>1, OverFacts
<1>3. /\ seen' \in SeenSet /\ seen'.ran = seen.ran /\ seen'.refused = seen.refused
      /\ seen'.dropped = seen.dropped /\ seen'.died = seen.died
  BY <1>1, KillsFacts
<1>4. Waiting' = Waiting /\ Settled' = Settled
  BY <1>1, <1>3 DEF Waiting, Settled
<1>5. TuiTypes' /\ DisplayInv' /\ PendInv' /\ ByeInv'
  BY <1>1, <1>2, <1>3 DEF TuiTypes, DisplayInv, PendInv, ByeInv
<1>6. StartInv'
  BY <1>1, <1>2 DEF StartInv
<1>7. OrderInv'
  BY <1>1, <1>2, <1>3, <1>4 DEF OrderInv
<1>8. TakenInv'
  BY <1>1, <1>2, <1>4 DEF TakenInv
<1> QED BY <1>5, <1>6, <1>7, <1>8 DEF TuiInv

LEMMA GivesUpStep ==
  ASSUME TuiInv, DrainGivesUp
  PROVE  TuiInv'
<1>1. /\ TuiTypes /\ StartInv /\ OrderInv /\ TakenInv /\ ByeInv /\ ui \in UiSet /\ seen \in SeenSet
      /\ ui.at = "drain" /\ seen' = Kills(seen)
      /\ ui' = [Over(ui, "quit") EXCEPT !.gaveUp = TRUE]
      /\ inq' = inq /\ evs' = evs /\ ag' = ag
  BY DEF TuiInv, TuiTypes, DrainGivesUp
<1>2. /\ Over(ui, "quit") \in UiSet /\ Over(ui, "quit").at = "over"
      /\ Over(ui, "quit").prompts = ui.prompts /\ Over(ui, "quit").asked = ui.asked
      /\ Over(ui, "quit").queue = ui.queue /\ Over(ui, "quit").bye = ui.bye
  BY <1>1, OverFacts
<1>3. /\ ui' \in UiSet /\ ui'.at = "over" /\ ui'.prompts = ui.prompts /\ ui'.asked = ui.asked
      /\ ui'.queue = ui.queue /\ ui'.bye = ui.bye /\ ui'.gaveUp
  BY <1>1, <1>2 DEF UiSet
<1>4. /\ seen' \in SeenSet /\ seen'.ran = seen.ran /\ seen'.refused = seen.refused
      /\ seen'.dropped = seen.dropped /\ seen'.died = seen.died
  BY <1>1, KillsFacts
<1>5. Waiting' = Waiting /\ Settled' = Settled
  BY <1>1, <1>4 DEF Waiting, Settled
<1>6. TuiTypes' /\ DisplayInv' /\ PendInv'
  BY <1>1, <1>3, <1>4 DEF TuiTypes, DisplayInv, PendInv
<1>7. ByeInv'
  BY <1>1, <1>3, <1>4, <1>5 DEF ByeInv, QuitServed
<1>8. StartInv'
  BY <1>1, <1>3 DEF StartInv
<1>9. OrderInv'
  BY <1>1, <1>3, <1>4, <1>5 DEF OrderInv
<1>10. TakenInv'
  BY <1>1, <1>3, <1>5 DEF TakenInv
<1> QED BY <1>6, <1>7, <1>8, <1>9, <1>10 DEF TuiInv

LEMMA UiKeeps ==
  ASSUME TuiInv, UiStep
  PROVE  TuiInv'
<1> DEFINE e == Head(evs)
           m == IF e.type = "exited" THEN ui ELSE Apply(ui, e)
           ends == m.bye \/ e.type = "exited"
<1>1. CASE Receives
  <2>1. /\ ui.at = "loop" /\ evs # <<>> /\ evs' = Tail(evs) /\ inq' = inq /\ ag' = ag
        /\ ui' = IF ends THEN Over(m, IF m.bye THEN "bye" ELSE "fatal") ELSE m
        /\ seen' = IF ends THEN Kills(Told(e)) ELSE Told(e)
    BY <1>1 DEF Receives
  <2>2. PICK why : ui' = IF ends THEN Over(m, why) ELSE m
    BY <2>1
  <2> QED BY <2>1, <2>2, LoopTakes
<1>2. CASE DrainReceives
  <2>1. /\ ui.at = "drain" /\ evs # <<>> /\ evs' = Tail(evs) /\ inq' = inq /\ ag' = ag
        /\ ui' = IF ends THEN Over(m, "quit") ELSE m
        /\ seen' = IF ends THEN Kills(Told(e)) ELSE Told(e)
    BY <1>2 DEF DrainReceives
  <2> QED BY <2>1, LoopTakes
<1> QED BY <1>1, <1>2, HelloTakes, TimesOutStep, EscStep, QuitStep, GivesUpStep, EnterPrompt,
           EnterSlash DEF UiStep

-----------------------------------------------------------------------------
(* The UI and the agent together *)

LEMMA TuiStarts ==
  ASSUME TuiInit
  PROVE  TuiInv
<1>1. inq = <<>> /\ evs = <<>> /\ DOMAIN inq = {} /\ DOMAIN evs = {} /\ Len(evs) = 0
  BY DEF TuiInit
<1>2. ag \in AgSet
  BY DEF TuiInit, AgSet, AgentPcs, None
<1>3. ui \in UiSet
  BY DEF TuiInit, UiSet, TuiPhases
<1>4. seen \in SeenSet
  BY DEF TuiInit, SeenSet
<1>5. TuiTypes
  BY <1>1, <1>2, <1>3, <1>4 DEF TuiTypes
<1>6. /\ ag.pc = "loading" /\ ag.ctl = <<>> /\ ag.drops = <<>> /\ ag.pq = <<>> /\ ~ag.quit
      /\ ~ag.after
      /\ ag.cur = 0
  BY DEF TuiInit, None
<1>7. /\ ui.at = "hello" /\ ui.prompts = 0 /\ ui.pending = {} /\ ~ui.queue /\ ~ui.bye
      /\ ui.open = 0 /\ ui.asked = {}
  BY DEF TuiInit
<1>8. seen.ran = {} /\ seen.refused = {} /\ seen.dropped = {} /\ seen.cleared = {}
  BY DEF TuiInit
<1>9. IdsOf(inq) = {} /\ IdsOf(ag.ctl) = {} /\ IdsOf(ag.drops) = {} /\ IdsOf(ag.pq) = {}
  BY <1>1, <1>6 DEF IdsOf
<1>10. Waiting = {} /\ Settled = {}
  BY <1>8, <1>9 DEF Waiting, Settled
<1>11. DisplayInv
  <2>1. After(Closing, NotOpening, ui.open = 0)
    BY <1>1, <1>7, AfterNone DEF After
  <2> QED BY <1>1, <1>6, <1>7, <2>1 DEF DisplayInv, InTurns
<1>12. StartInv
  BY <1>1, <1>6, <1>7 DEF StartInv
<1>13. OrderInv
  BY <1>1, <1>6, <1>8, <1>9, <1>10 DEF OrderInv, Before, Rising
<1>14. TakenInv
  BY <1>1, <1>6, <1>7 DEF TakenInv
<1>15. ByeInv
  BY <1>6 DEF ByeInv
<1>16. PendInv
  BY <1>1, <1>6, <1>7, <1>8 DEF PendInv
<1> QED BY <1>5, <1>11, <1>12, <1>13, <1>14, <1>15, <1>16 DEF TuiInv

LEMMA TuiKeeps ==
  ASSUME TuiInv, [TuiNext]_tuiVars
  PROVE  TuiInv'
<1>1. CASE UNCHANGED tuiVars
  <2>1. inq' = inq /\ evs' = evs /\ ag' = ag /\ ui' = ui /\ seen' = seen
    BY <1>1 DEF tuiVars
  <2>2. Waiting' = Waiting /\ Settled' = Settled
    BY <2>1 DEF Waiting, Settled
  <2>3. TuiTypes' /\ StartInv'
    BY <2>1 DEF TuiInv, TuiTypes, StartInv
  <2>4. DisplayInv'
    <3>1. Outstanding' = Outstanding /\ BusyPhase' = BusyPhase
      BY <2>1, <2>2 DEF Outstanding, BusyPhase
    <3> QED BY <2>1, <3>1 DEF TuiInv, DisplayInv, After
  <2>5. OrderInv' /\ TakenInv'
    BY <2>1, <2>2 DEF TuiInv, OrderInv, TakenInv
  <2>6. ByeInv'
    <3>1. QuitServed' = QuitServed
      BY <2>1, <2>2 DEF QuitServed
    <3> QED BY <2>1, <3>1 DEF TuiInv, ByeInv
  <2>7. PendInv'
    BY <2>1 DEF TuiInv, PendInv, After
  <2> QED BY <2>3, <2>4, <2>5, <2>6, <2>7 DEF TuiInv
<1> QED BY <1>1, AgentKeeps, UiKeeps DEF TuiNext

LEMMA TuiImplies ==
  ASSUME TuiInv
  PROVE  TuiAgrees
<1>1. /\ TuiTypes /\ DisplayInv /\ StartInv /\ OrderInv /\ TakenInv /\ ByeInv /\ PendInv
      /\ ui \in UiSet /\ ui.prompts \in Nat /\ ui.asked \in SUBSET Nat
  BY DEF TuiInv, TuiTypes, UiSet
<1>2. EscReaches
  <2>1. SUFFICES ASSUME CaughtUp, InTurn PROVE BusyPhase
    BY DEF EscReaches
  <2>2. After(Busies, KeepsBusy, BusyPhase) /\ Len(evs) = 0
    BY <1>1, <2>1 DEF DisplayInv, CaughtUp, InTurn, InTurns
  <2> QED BY <2>2, AfterNone DEF After
<1>3. NoPhantom
  <2>1. SUFFICES ASSUME CaughtUp, inq = <<>>, ag.pc = "idle", ag.ctl = <<>>, ag.drops = <<>>,
                        ag.pq = <<>>
                 PROVE  /\ ui.phase = "idle" /\ CanType /\ ui.open = 0 /\ ~ui.buf
                        /\ ui.pending = {}
                        /\ 1..ui.prompts \subseteq seen.ran \union seen.refused \union seen.cleared
    BY DEF NoPhantom
  <2>2. evs = <<>> /\ DOMAIN evs = {} /\ Len(evs) = 0 /\ ui.at = "loop"
    BY <2>1 DEF CaughtUp
  <2>3. Waiting = {}
    BY <2>1 DEF Waiting, IdsOf
  <2>4. ui.phase = "idle" /\ ~ui.buf /\ ui.open = 0
    <3>1. /\ After(Idles, KeepsIdle, ui.phase = "idle") \/ Outstanding
          /\ After(EndsText, NoText, ~ui.buf)
          /\ After(Closing, NotOpening, ui.open = 0)
      BY <1>1, <2>1, <2>2 DEF DisplayInv
    <3>2. ~Outstanding
      BY <2>3 DEF Outstanding
    <3>3. /\ AfterAt(evs, 0, Idles, KeepsIdle, ui.phase = "idle")
          /\ AfterAt(evs, 0, EndsText, NoText, ~ui.buf)
          /\ AfterAt(evs, 0, Closing, NotOpening, ui.open = 0)
      BY <2>2, <3>1, <3>2 DEF After
    <3> QED BY <3>3 DEF AfterAt
  <2>5. CanType
    BY <1>1, <2>2, <2>4 DEF CanType, StartInv
  <2>6. /\ ui.pending \subseteq 1 .. ui.prompts
        /\ 1 .. ui.prompts \subseteq ui.pending \cup seen.ran \cup seen.refused \cup seen.cleared
        /\ \A p \in ui.pending \cap seen.ran : FALSE
        /\ \A p \in ui.pending \cap seen.refused : FALSE
        /\ \A p \in ui.pending \cap seen.dropped : FALSE
    BY <1>1, <2>1, <2>2 DEF PendInv, InTurns
  <2>7. 1 .. ui.prompts \subseteq Settled
    BY <1>1, <2>1, <2>3 DEF TakenInv
  <2>8. ui.pending = {}
    BY <2>6, <2>7 DEF Settled
  <2> QED BY <2>4, <2>5, <2>6, <2>8
<1>4. QuitDrains
  <2>1. SUFFICES ASSUME ui.at = "over", ui.queue, ~seen.died, ~ui.gaveUp
                 PROVE  /\ ~seen.killed
                        /\ \A n \in ui.asked : (\A m \in ui.asked : n <= m) =>
                             1..n \subseteq seen.ran \union seen.refused \union seen.dropped
    BY DEF QuitDrains
  <2>2. ag.pc \in {"gone", "exited"} /\ ~seen.killed
    BY <1>1, <2>1 DEF StartInv
  <2>3. QuitServed
    BY <1>1, <2>1, <2>2 DEF ByeInv
  <2> QED BY <2>2, <2>3 DEF QuitServed, Settled
<1> QED BY <1>2, <1>3, <1>4 DEF TuiAgrees

(* For every number of prompts, operations, tool rounds and unread events, *)
(* every queue size, and an agent that may die at any moment: Esc reaches  *)
(* a turn that runs, no prompt the UI shows is forgotten, and leaving the  *)
(* UI kills no work unless the quit drain gave up at its cap or at a line  *)
(* that does not parse (TuiAgrees: Model::apply of app.rs, the main loop   *)
(* and the quit drain of main.rs).                                         *)
THEOREM TuiStaysTrue == TuiSpec => []TuiAgrees
<1>1. TuiInit => TuiInv
  BY TuiStarts
<1>2. TuiInv /\ [TuiNext]_tuiVars => TuiInv'
  BY TuiKeeps
<1>3. TuiInv => TuiAgrees
  BY TuiImplies
<1> QED BY <1>1, <1>2, <1>3, PTL DEF TuiSpec

==============================================================================
