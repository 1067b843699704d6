----------------------------- MODULE AgentWorker -----------------------------
(***************************************************************************)
(* The worker thread of the ds4-agent experiment (q27_agent_worker.c): it  *)
(* owns the engine, takes one command at a time from the control thread    *)
(* and answers with a stream of events through a bounded queue.            *)
(*                                                                         *)
(* The two threads share the fields below under one mutex, so every mutex  *)
(* section is one step and a condition wait is a guard.  `alive' is the    *)
(* control thread's callback; event_enqueue reads it outside the mutex,    *)
(* before it waits for room, so an event can still be queued after alive   *)
(* has turned false.  The queue's byte limit is folded into its count.     *)
(* Actions that belong to the control thread take its inputs as            *)
(* parameters; module AgentControl says when it performs them.             *)
(***************************************************************************)
EXTENDS Integers, Sequences

CONSTANTS
  EventMax,     \* EVENT_MAX_COUNT
  MaxDeltas     \* bound: output events one command produces

ASSUME WorkerAssumption == EventMax \in Nat /\ EventMax > 2 /\ MaxDeltas \in Nat

VARIABLES
  wstate,       \* worker->state
  wstop,        \* worker->stop
  ready,        \* worker->request_ready
  active,       \* worker->command_active
  command,      \* worker->command_id
  kind,         \* worker->request_type (and the session action)
  events,       \* the event queue
  wpc,          \* where the worker thread is
  deltas,       \* output events of the command so far
  outcome       \* status of the command, once it has one (both locals)

workerVars ==
  <<wstate, wstop, ready, active, command, kind, events, wpc, deltas, outcome>>

Kind == {"generate", "tool", "save", "count"}
Status == {"ok", "rejected", "cancelled", "stalled", "error"}
WorkerState == {"starting", "idle", "generating", "tool_running", "session_io",
                "stopping", "error", "stopped"}

Running(k) ==
  CASE k = "generate" -> "generating"
    [] k = "tool"     -> "tool_running"
    [] OTHER          -> "session_io"

Event(t, s) == [type |-> t, command |-> command, status |-> s]

IsTerminal(e) == e.type = "done"

(* Mutant: terminal events have no places of their own. *)
CountLimitFlat(allowStopping) == EventMax

(* Ordinary events leave two places of the queue to terminal ones. *)
CountLimit(allowStopping) == IF allowStopping THEN EventMax ELSE EventMax - 2

Room(allowStopping) == Len(events) < CountLimit(allowStopping)

WorkerInit ==
  /\ wstate = "starting"
  /\ wstop = FALSE
  /\ ready = FALSE
  /\ active = FALSE
  /\ command = 0
  /\ kind = "count"
  /\ events = <<>>
  /\ wpc = "open"
  /\ deltas = 0
  /\ outcome = "ok"

-----------------------------------------------------------------------------
(* The worker thread *)

(* Opening the engine succeeds, or the thread ends in ERROR. *)
OpenEngine ==
  /\ wpc = "open"
  /\ \/ wstate' = "idle" /\ wpc' = "wait"
     \/ wstate' = "error" /\ wpc' = "exited"
  /\ UNCHANGED <<wstop, ready, active, command, kind, events, deltas, outcome>>

(* A stop is honoured only when no request is left: one submitted before   *)
(* the stop still gets its terminal event.                                 *)
WorkerExits ==
  /\ wpc = "wait" /\ wstop /\ ~ready
  /\ wstate' = "stopped"
  /\ wpc' = "exited"
  /\ UNCHANGED <<wstop, ready, active, command, kind, events, deltas, outcome>>

TakeRequest ==
  /\ wpc = "wait" /\ ready
  /\ ready' = FALSE
  /\ wstate' = IF wstop THEN "stopping" ELSE Running(kind)
  /\ wpc' = "announce"
  /\ UNCHANGED <<wstop, active, command, kind, events, deltas, outcome>>

(* event_enqueue for an ordinary event: it waits for room, and gives up    *)
(* when the worker is stopped or the command's alive callback says no.     *)
(* Session commands have no callback: their caller passes alive = TRUE.    *)
Enqueue(e) ==
  /\ ~wstop /\ Room(FALSE)
  /\ events' = Append(events, e)

Refused(alive) == wstop \/ ~alive

(* The STATE event opens a command; when it cannot be queued the command   *)
(* ends without having run.                                                *)
Announce(alive) ==
  /\ wpc = "announce"
  /\ \/ /\ Enqueue(Event("state", "ok"))
        /\ wpc' = "run"
        /\ UNCHANGED outcome
     \/ /\ Refused(alive)
        /\ outcome' = "cancelled"
        /\ wpc' = "finish"
        /\ UNCHANGED events
  /\ UNCHANGED <<wstate, wstop, ready, active, command, kind, deltas>>

(* A text, prefill or tool sink hands an event to the queue.  A refused    *)
(* event makes the engine or the tool return CANCELLED.                    *)
Emit(alive) ==
  /\ wpc = "run" /\ kind \in {"generate", "tool"} /\ deltas < MaxDeltas
  /\ deltas' = deltas + 1
  /\ \/ /\ Enqueue(Event("delta", "ok"))
        /\ UNCHANGED <<outcome, wpc>>
     \/ /\ Refused(alive)
        /\ outcome' = "cancelled"
        /\ wpc' = "finish"
        /\ UNCHANGED events
  /\ UNCHANGED <<wstate, wstop, ready, active, command, kind>>

(* The event could not be queued although nobody has cancelled, because    *)
(* there was no memory for it: queue_error turns the result into ERROR.    *)
EmitFails(alive) ==
  /\ wpc \in {"announce", "run"} /\ ~Refused(alive)
  /\ wpc = "run" => kind \in {"generate", "tool"} /\ deltas < MaxDeltas
  /\ outcome' = "error"
  /\ wpc' = "finish"
  /\ UNCHANGED <<wstate, wstop, ready, active, command, kind, events, deltas>>

(* The engine or the tool returns.  It sees a cancellation only where it   *)
(* polls, so it may also complete after one; a session command polls       *)
(* nothing.  A shell job that outlives its deadline is cancelled by the    *)
(* worker's own alive check and reported as OK.                            *)
Returns(alive) ==
  /\ wpc = "run"
  /\ outcome' \in
       {"ok", "rejected", "error"}
       \cup (IF kind = "generate" THEN {"stalled"} ELSE {})
       \cup (IF kind \in {"generate", "tool"} /\ Refused(alive)
               THEN {"cancelled"} ELSE {})
  /\ wpc' = "finish"
  /\ UNCHANGED <<wstate, wstop, ready, active, command, kind, events, deltas>>

(* publish_terminal: the terminal event has no alive callback and ignores  *)
(* a stop, it only waits for room.                                         *)
Publish ==
  /\ wpc = "finish" /\ Room(TRUE)
  /\ events' = Append(events, Event("done", outcome))
  /\ wpc' = "wait"
  /\ outcome' = "ok" /\ deltas' = 0
  /\ UNCHANGED <<wstate, wstop, ready, active, command, kind>>

(* ... or there is no memory for it, and the worker is left in ERROR. *)
PublishFails ==
  /\ wpc = "finish"
  /\ active' = FALSE
  /\ wstate' = IF wstop THEN "stopping" ELSE "error"
  /\ wpc' = "wait"
  /\ outcome' = "ok" /\ deltas' = 0
  /\ UNCHANGED <<wstop, ready, command, kind, events>>

-----------------------------------------------------------------------------
(* The control thread's side *)

Accepts == wstate = "idle" /\ ~wstop /\ ~active /\ ~ready

(* submit, submit_tool and submit_session once their arguments are valid. *)
Submit(k) ==
  /\ Accepts
  /\ command' = command + 1
  /\ kind' = k
  /\ active' = TRUE
  /\ ready' = TRUE
  /\ wstate' = Running(k)
  /\ UNCHANGED <<wstop, events, wpc, deltas, outcome>>

(* next_event with an event at the head. *)
NextEvent ==
  /\ events # <<>>
  /\ events' = Tail(events)
  /\ IF IsTerminal(Head(events)) /\ Head(events).command = command
       THEN /\ active' = FALSE
            /\ wstate' = CASE wstate = "stopped" \/ wstop -> wstate
                           [] Head(events).status = "error" -> "error"
                           [] OTHER -> "idle"
       ELSE UNCHANGED <<active, wstate>>
  /\ UNCHANGED <<wstop, ready, command, kind, wpc, deltas, outcome>>

(* next_event returns 0 or -1: there is no event and none will come. *)
StreamEnded == events = <<>> /\ wstate \in {"stopped", "error"}

RequestStop ==
  /\ wstop' = TRUE
  /\ wstate' = IF wstate = "stopped" THEN wstate ELSE "stopping"
  /\ UNCHANGED <<ready, active, command, kind, events, wpc, deltas, outcome>>
=============================================================================
