---------------------------- MODULE AgentControl ----------------------------
(***************************************************************************)
(* The control plane of the ds4-agent experiment in protocol mode (FP1):   *)
(* the reader thread of q27_agent_frontend.c, which parses the client's    *)
(* lines into operations, the main loop of q27_agent.c, which runs them    *)
(* one at a time on the worker (module AgentWorker), and the signals.      *)
(*                                                                         *)
(* A line is its number and its operation; cancel and quit are flags, the  *)
(* others travel through the control queue, the prompt queue or the ring   *)
(* of dropped operations.  The transcript is the sequence of its messages' *)
(* shapes.  What a model says and how a response is printed is left out,   *)
(* except whether a response was produced: `owed' holds the lines that     *)
(* still have to be answered.                                              *)
(***************************************************************************)
EXTENDS AgentWorker, FiniteSets

CONSTANTS
  LineOp,        \* the operations the client may send
  MaxLines,      \* bound: lines the client sends
  MaxSignals,    \* bound: signals the process receives
  OpQueueCap,    \* FP1_OP_QUEUE_CAP
  PromptCap,     \* FP1_PROMPT_QUEUE_CAP
  MaxRounds,     \* max_tool_rounds
  Keep,          \* compact_keep, the root turns compaction retains
  HasSession,    \* the agent was started with --session
  Loaded         \* the exchanges of the session it found there

ASSUME ControlAssumption ==
  /\ MaxLines \in Nat /\ MaxSignals \in Nat /\ MaxRounds \in Nat
  /\ OpQueueCap \in Nat \ {0} /\ PromptCap \in Nat \ {0}
  /\ Keep \in Nat \ {0}
  /\ HasSession \in BOOLEAN

VARIABLES
  \* reader thread and control state (the mutex g_ctl.mu)
  rpc, lines,        \* where the reader is, lines parsed
  ctlq, drops,       \* g_ctl.items, the ring of dropped operations
  cancel, quit,      \* cancel_requested, quit_requested
  reason, cstop,     \* quit_reason, g_ctl.stop
  \* signals
  interrupted, lastSignal, signals,
  \* main thread
  mpc, cur,          \* where the main loop is, the operation it runs
  task, res,         \* what its worker command is for, and its result
  cancelled,         \* the turn was cancelled by the client or by SIGINT
  pq,                \* the prompt queue
  quitAfterDrain,    \* g_fp1_quit_after_drain
  chat, rounds,      \* the transcript, tool rounds of the turn
  ok,                \* main's ok
  \* observations
  owed,              \* lines parsed and not answered
  hard               \* the latest signal is one that ends the session

readerVars == <<rpc, lines, ctlq, drops, cancel, quit, reason, cstop>>
signalVars == <<interrupted, lastSignal, signals, hard>>
mainVars == <<mpc, cur, task, res, cancelled, pq, quitAfterDrain, chat, rounds, ok>>
controlVars == <<readerVars, signalVars, mainVars, owed>>
vars == <<workerVars, controlVars>>

(* Sessions to start from: none, or one with two exchanges, the first of   *)
(* which compaction may cut away.                                          *)
Fresh == <<>>
TwoExchanges == <<"user", "answer", "user", "answer">>

NoLine == [id |-> 0, op |-> "none"]
Ids(s) == {s[i].id : i \in 1..Len(s)}

(* continue_running, the callback the worker polls. *)
Alive ==
  \/ kind \in {"save", "count"}
  \/ ~interrupted /\ ~cancel /\ ~quit

-----------------------------------------------------------------------------
(* The transcript *)

Assistant(m) == m \in {"answer", "call", "note", "ack"}

(* The system message and whole exchanges. *)
Closed(s) ==
  /\ Len(s) % 2 = 1
  /\ \A i \in 2..Len(s) :
       /\ Assistant(s[i]) <=> i % 2 = 1
       /\ s[i] = "call" => i < Len(s) /\ s[i + 1] = "response"
       /\ s[i] = "response" => s[i - 1] = "call"

(* q27_agent_session_load gives the messages their roles by position; that *)
(* no call is left open is what an earlier session has saved.              *)
ASSUME LoadedAssumption ==
  /\ Loaded \in Seq({"user", "anchor", "call", "response", "answer", "note", "ack"})
  /\ Closed(<<"system">> \o Loaded)

(* A root user message starts a group that compaction does not split. *)
IsRoot(s, i) == s[i] \in {"user", "anchor"}

Roots(s) == {i \in 2..Len(s) : IsRoot(s, i)}

(* q27_agent_compaction_cut: the first of the last Keep roots, or 0. *)
CompactionCut(s) ==
  IF Len(s) < 5 \/ Cardinality(Roots(s)) <= Keep THEN 0
  ELSE CHOOSE i \in Roots(s) :
         Cardinality({j \in Roots(s) : j >= i}) = Keep

Eligible(s) == CompactionCut(s) > 2

Compacted(s) == <<"system", "anchor", "ack">> \o SubSeq(s, CompactionCut(s), Len(s))

(* Mutant: an open call gets no response. *)
CloseUnanswered(s) ==
  IF IsRoot(s, Len(s)) THEN SubSeq(s, 1, Len(s) - 1)
  ELSE IF Len(s) % 2 = 0 THEN Append(s, "note") ELSE s

(* fp1_close_incomplete_turn: drop a prompt nobody answered, give an open  *)
(* call a failed response, and end the turn with a note.                   *)
CloseIncomplete(s) ==
  LET last == s[Len(s)]
      responded == IF last = "call" THEN Append(s, "response") ELSE s
  IN IF IsRoot(s, Len(s)) THEN SubSeq(s, 1, Len(s) - 1)
     ELSE IF Len(responded) % 2 = 0 THEN Append(responded, "note")
     ELSE responded

Saveable(s) == Len(s) >= 3 /\ Len(s) % 2 = 1

ControlInit ==
  /\ rpc = "top" /\ lines = 0 /\ ctlq = <<>> /\ drops = <<>>
  /\ cancel = FALSE /\ quit = FALSE /\ reason = "" /\ cstop = FALSE
  /\ interrupted = FALSE /\ lastSignal = "none" /\ signals = 0
  /\ mpc = "start" /\ cur = NoLine /\ task = "none" /\ res = FALSE /\ cancelled = FALSE
  /\ pq = <<>> /\ quitAfterDrain = FALSE
  /\ chat = <<"system">> \o Loaded /\ rounds = 0 /\ ok = TRUE
  /\ owed = {} /\ hard = FALSE

Init == WorkerInit /\ ControlInit

-----------------------------------------------------------------------------
(* Reader thread *)

(* The reader looks at stop and quit only between two reads. *)
ReaderTop ==
  /\ rpc = "top" /\ mpc # "start"
  /\ rpc' = IF cstop \/ quit THEN "exited" ELSE "burst"
  /\ UNCHANGED <<lines, ctlq, drops, cancel, quit, reason, cstop>>
  /\ UNCHANGED <<workerVars, signalVars, mainVars, owed>>

(* The end of the client's input, or a failed read, asks for the end of    *)
(* the session.                                                            *)
ReaderEof ==
  /\ rpc = "burst"
  /\ quit' = TRUE
  /\ reason' \in {"stdin_eof", "error"}
  /\ rpc' = "exited"
  /\ UNCHANGED <<lines, ctlq, drops, cancel, cstop>>
  /\ UNCHANGED <<workerVars, signalVars, mainVars, owed>>

(* Mutant: what does not fit is dropped without a trace. *)
ApplyOpSilently(line) ==
  CASE line.op = "cancel" ->
         cancel' = TRUE /\ UNCHANGED <<quit, reason, ctlq, drops, owed>>
    [] line.op = "quit" ->
         /\ quit' = TRUE /\ reason' = "quit"
         /\ UNCHANGED <<cancel, ctlq, drops, owed>>
    [] OTHER ->
         /\ owed' = owed \cup {line.id}
         /\ ctlq' = IF quit \/ Len(ctlq) = OpQueueCap THEN ctlq ELSE Append(ctlq, line)
         /\ UNCHANGED <<cancel, quit, reason, drops>>

(* ctl_apply_op: cancel and quit raise their flags; what is parsed while   *)
(* quit is up, and what does not fit, is dropped and will be answered.     *)
ApplyOp(line) ==
  CASE line.op = "cancel" ->
         cancel' = TRUE /\ UNCHANGED <<quit, reason, ctlq, drops, owed>>
    [] line.op = "quit" ->
         /\ quit' = TRUE /\ reason' = "quit"
         /\ UNCHANGED <<cancel, ctlq, drops, owed>>
    [] OTHER ->
         /\ owed' = owed \cup {line.id}
         /\ IF quit \/ Len(ctlq) = OpQueueCap
              THEN drops' = Append(drops, line) /\ UNCHANGED ctlq
              ELSE ctlq' = Append(ctlq, line) /\ UNCHANGED drops
         /\ UNCHANGED <<cancel, quit, reason>>

ParseLine ==
  /\ rpc \in {"burst", "lines"} /\ lines < MaxLines
  /\ lines' = lines + 1
  /\ rpc' = "lines"
  /\ \E op \in LineOp : ApplyOp([id |-> lines', op |-> op])
  /\ UNCHANGED <<cstop, workerVars, signalVars, mainVars>>

(* The wake pipe ends a read that would wait for ever. *)
ReaderWoken ==
  /\ rpc = "burst" /\ cstop
  /\ rpc' = "exited"
  /\ UNCHANGED <<lines, ctlq, drops, cancel, quit, reason, cstop>>
  /\ UNCHANGED <<workerVars, signalVars, mainVars, owed>>

(* The buffer of one read is used up. *)
BurstEnd ==
  /\ rpc = "lines"
  /\ rpc' = "top"
  /\ UNCHANGED <<lines, ctlq, drops, cancel, quit, reason, cstop>>
  /\ UNCHANGED <<workerVars, signalVars, mainVars, owed>>

Reader == ReaderTop \/ ReaderEof \/ ParseLine \/ ReaderWoken \/ BurstEnd

(* on_signal, for SIGINT and for SIGTERM, which ends the session.  Its two *)
(* stores are one step: the handler interrupts the thread it runs on, here *)
(* the main one.                                                           *)
Signal ==
  /\ signals < MaxSignals /\ mpc \notin {"start", "done"}
  /\ \E s \in {"int", "hard"} :
       /\ lastSignal' = s
       /\ hard' = (s = "hard")
  /\ interrupted' = TRUE
  /\ signals' = signals + 1
  /\ UNCHANGED <<workerVars, readerVars, mainVars, owed>>

-----------------------------------------------------------------------------
(* Main loop: choosing the next operation *)

Goto(pc) == mpc' = pc
Start(t) == mpc' = "submit" /\ task' = t
Answer(ids) == owed' = owed \ ids
Drained == ctlq = <<>> /\ pq = <<>>

(* The frontend opens with the worker started; when it did not start, the  *)
(* process ends.                                                           *)
WorkerStarted ==
  /\ mpc = "start" /\ wpc # "open"
  /\ Goto(IF wstate = "error" THEN "done" ELSE "top")
  /\ UNCHANGED <<cur, task, res, cancelled, pq, quitAfterDrain, chat, rounds, ok>>
  /\ UNCHANGED <<workerVars, readerVars, signalVars, owed>>

(* The top of the loop: an interrupt ends the session, a quit ends it once *)
(* nothing is left to do; otherwise the dropped operations are answered.   *)
(* The locals of the round before are gone.                                *)
LoopTop ==
  /\ mpc = "top"
  /\ task' = "none" /\ res' = FALSE /\ cancelled' = FALSE /\ rounds' = 0
  /\ IF interrupted \/ ((quit \/ quitAfterDrain) /\ Drained)
       THEN Goto("end") /\ UNCHANGED <<drops, owed>>
       ELSE Goto("drain") /\ drops' = <<>> /\ Answer(Ids(drops))
  /\ UNCHANGED <<cur, pq, quitAfterDrain, chat, ok>>
  /\ UNCHANGED <<rpc, lines, ctlq, cancel, quit, reason, cstop>>
  /\ UNCHANGED <<workerVars, signalVars>>

(* Prompts join the back of the prompt queue, which is bounded. *)
QueuePrompt(line) ==
  IF Len(pq) = PromptCap
    THEN Answer({line.id}) /\ UNCHANGED pq
    ELSE pq' = Append(pq, line) /\ UNCHANGED owed

(* Pending control operations come before queued prompts. *)
DrainControl ==
  /\ mpc = "drain" /\ ctlq # <<>>
  /\ ctlq' = Tail(ctlq)
  /\ IF Head(ctlq).op \in {"prompt", "empty"}
       THEN QueuePrompt(Head(ctlq)) /\ UNCHANGED <<cur, mpc>>
       ELSE cur' = Head(ctlq) /\ Goto("dispatch") /\ UNCHANGED <<pq, owed>>
  /\ UNCHANGED <<task, res, cancelled, quitAfterDrain, chat, rounds, ok>>
  /\ UNCHANGED <<rpc, lines, drops, cancel, quit, reason, cstop>>
  /\ UNCHANGED <<workerVars, signalVars>>

(* With nothing pending a queued prompt runs; a quit ends the session once *)
(* there is none; otherwise the loop waits for an operation.               *)
DrainPrompts ==
  /\ mpc = "drain" /\ ctlq = <<>>
  /\ IF pq # <<>>
       THEN cur' = Head(pq) /\ pq' = Tail(pq) /\ Goto("dispatch")
       ELSE /\ Goto(IF quit THEN "end" ELSE "wait")
            /\ UNCHANGED <<cur, pq>>
  /\ UNCHANGED <<task, res, cancelled, quitAfterDrain, chat, rounds, ok>>
  /\ UNCHANGED <<workerVars, readerVars, signalVars, owed>>

(* wait_op with its timeout: an operation, the quit flag, or the timeout,  *)
(* which forgets a cancel that came while nothing ran.                     *)
WaitOp ==
  /\ mpc = "wait"
  /\ \/ /\ ctlq # <<>>
        /\ cur' = Head(ctlq) /\ ctlq' = Tail(ctlq)
        /\ Goto("dispatch")
        /\ UNCHANGED cancel
     \/ /\ ctlq = <<>> /\ quit
        /\ Goto("end")
        /\ UNCHANGED <<cur, ctlq, cancel>>
     \/ /\ ctlq = <<>> /\ ~quit
        /\ cancel' = FALSE
        /\ Goto("top")
        /\ UNCHANGED <<cur, ctlq>>
  /\ UNCHANGED <<task, res, cancelled, pq, quitAfterDrain, chat, rounds, ok>>
  /\ UNCHANGED <<rpc, lines, drops, quit, reason, cstop>>
  /\ UNCHANGED <<workerVars, signalVars, owed>>

-----------------------------------------------------------------------------
(* Main loop: the operations *)

(* help, session, a malformed line, an unknown operation, an empty prompt: *)
(* one response.  queue_clear empties the prompt queue and answers it.     *)
Immediate ==
  /\ mpc = "dispatch" /\ cur.op \in {"info", "bad", "empty", "queue_clear"}
  /\ IF cur.op = "queue_clear"
       THEN pq' = <<>> /\ Answer({cur.id} \cup Ids(pq))
       ELSE Answer({cur.id}) /\ UNCHANGED pq
  /\ cur' = NoLine /\ Goto("top")
  /\ UNCHANGED <<task, res, cancelled, quitAfterDrain, chat, rounds, ok>>
  /\ UNCHANGED <<workerVars, readerVars, signalVars>>

(* save: refused without --session or with an unfinished transcript. *)
SaveOp ==
  /\ mpc = "dispatch" /\ cur.op = "save"
  /\ IF HasSession /\ Saveable(chat)
       THEN Start("save") /\ UNCHANGED <<cur, owed>>
       ELSE /\ Answer({cur.id}) /\ cur' = NoLine /\ Goto("top")
            /\ UNCHANGED task
  /\ UNCHANGED <<res, cancelled, pq, quitAfterDrain, chat, rounds, ok>>
  /\ UNCHANGED <<workerVars, readerVars, signalVars>>

CompactOp ==
  /\ mpc = "dispatch" /\ cur.op = "compact"
  /\ IF Len(chat) % 2 = 1 /\ Eligible(chat)
       THEN Start("summary") /\ UNCHANGED <<cur, owed>>
       ELSE /\ Answer({cur.id}) /\ cur' = NoLine /\ Goto("top")
            /\ UNCHANGED task
  /\ UNCHANGED <<res, cancelled, pq, quitAfterDrain, chat, rounds, ok>>
  /\ UNCHANGED <<workerVars, readerVars, signalVars>>

(* new: the transcript goes back to its system message, unless the session *)
(* on disk could not be discarded.                                         *)
NewOp ==
  /\ mpc = "dispatch" /\ cur.op = "new"
  /\ \/ chat' = <<"system">>
     \/ HasSession /\ UNCHANGED chat
  /\ Answer({cur.id})
  /\ cur' = NoLine /\ Goto("top")
  /\ UNCHANGED <<task, res, cancelled, pq, quitAfterDrain, rounds, ok>>
  /\ UNCHANGED <<workerVars, readerVars, signalVars>>

(* A manual tool; a cancel that came while nothing ran does not stop it. *)
ToolOp ==
  /\ mpc = "dispatch" /\ cur.op = "tool"
  /\ \/ /\ cancel' = FALSE
        /\ Start("manual")
        /\ UNCHANGED <<cur, owed>>
     \/ /\ Answer({cur.id}) /\ cur' = NoLine /\ Goto("top")
        /\ UNCHANGED <<cancel, task>>
  /\ UNCHANGED <<res, cancelled, pq, quitAfterDrain, chat, rounds, ok>>
  /\ UNCHANGED <<rpc, lines, ctlq, drops, quit, reason, cstop>>
  /\ UNCHANGED <<workerVars, signalVars>>

(* A prompt.  A cancel or a quit that is up already was sent before this   *)
(* turn: the cancel is forgotten, the quit is put off until the queues are *)
(* empty, by taking its flag down.                                         *)
PromptOp ==
  /\ mpc = "dispatch" /\ cur.op = "prompt"
  /\ cancel' = FALSE
  /\ quit' = FALSE
  /\ quitAfterDrain' = (quitAfterDrain \/ quit)
  /\ chat' = Append(chat, "user")
  /\ rounds' = 0
  /\ Start("prepare")
  /\ UNCHANGED <<cur, res, cancelled, pq, ok>>
  /\ UNCHANGED <<rpc, lines, ctlq, drops, reason, cstop>>
  /\ UNCHANGED <<workerVars, signalVars, owed>>

Dispatch == Immediate \/ SaveOp \/ CompactOp \/ NewOp \/ ToolOp \/ PromptOp

-----------------------------------------------------------------------------
(* Main loop: a command on the worker *)

CommandOf(t) ==
  CASE t \in {"prepare", "fit", "recount"} -> "count"
    [] t \in {"turn", "summary", "anchor"} -> "generate"
    [] t \in {"preflight", "tool", "manual"} -> "tool"
    [] t \in {"save", "autosave"} -> "save"

(* run_turn, run_tool and run_session_command up to their event loop; a    *)
(* generation is not even submitted with an interrupt pending.  The COUNT  *)
(* that sizes a generation is taken together with it.                      *)
SubmitTask ==
  /\ mpc = "submit"
  /\ IF Accepts /\ ~(CommandOf(task) = "generate" /\ interrupted)
       THEN Submit(CommandOf(task)) /\ Goto("await") /\ UNCHANGED res
       ELSE res' = FALSE /\ Goto("result") /\ UNCHANGED workerVars
  /\ UNCHANGED <<cur, task, cancelled, pq, quitAfterDrain, chat, rounds, ok>>
  /\ UNCHANGED <<readerVars, signalVars, owed>>

(* Their event loop: an event, or the end of the stream. *)
AwaitEvent ==
  /\ mpc = "await"
  /\ \/ /\ NextEvent
        /\ IF IsTerminal(Head(events))
             THEN res' = (Head(events).status = "ok") /\ Goto("result")
             ELSE UNCHANGED <<res, mpc>>
     \/ /\ StreamEnded
        /\ res' = FALSE /\ Goto("result")
        /\ UNCHANGED workerVars
  /\ UNCHANGED <<cur, task, cancelled, pq, quitAfterDrain, chat, rounds, ok>>
  /\ UNCHANGED <<readerVars, signalVars, owed>>

(* The client's end of the output is gone: the event is lost and the       *)
(* worker is told to stop.                                                 *)
OutputFails ==
  /\ mpc = "await" /\ events # <<>> /\ task \in {"turn", "tool", "manual"}
  /\ events' = Tail(events)
  /\ active' = (active /\ ~IsTerminal(Head(events)))
  /\ wstop' = TRUE
  /\ wstate' = IF wstate = "stopped" THEN wstate ELSE "stopping"
  /\ res' = FALSE /\ Goto("result")
  /\ UNCHANGED <<ready, command, kind, wpc, deltas, outcome>>
  /\ UNCHANGED <<cur, task, cancelled, pq, quitAfterDrain, chat, rounds, ok>>
  /\ UNCHANGED <<readerVars, signalVars, owed>>

(* q27_fp1_control_reject_busy, between two events of a turn or a tool:    *)
(* dropped operations are answered first, prompts are queued, the rest is  *)
(* answered at once.                                                       *)
BusyOps ==
  /\ mpc = "await" /\ CommandOf(task) \in {"generate", "tool"}
  /\ \/ /\ drops # <<>>
        /\ drops' = <<>> /\ Answer(Ids(drops))
        /\ UNCHANGED <<ctlq, pq>>
     \/ /\ drops = <<>> /\ ctlq # <<>>
        /\ ctlq' = Tail(ctlq)
        /\ LET line == Head(ctlq) IN
             CASE line.op = "prompt" -> QueuePrompt(line)
               [] line.op = "queue_clear" ->
                    pq' = <<>> /\ Answer({line.id} \cup Ids(pq))
               [] OTHER -> Answer({line.id}) /\ UNCHANGED pq
        /\ UNCHANGED drops
  /\ UNCHANGED <<mpc, cur, task, res, cancelled, quitAfterDrain, chat, rounds, ok>>
  /\ UNCHANGED <<rpc, lines, cancel, quit, reason, cstop>>
  /\ UNCHANGED <<workerVars, signalVars>>

-----------------------------------------------------------------------------
(* Main loop: what a finished command leads to *)

Settle(r) == res' = r /\ Goto("settle") /\ UNCHANGED task
Give == UNCHANGED <<cur, cancelled, pq, quitAfterDrain, ok>>
AtResult(t) == mpc = "result" /\ task = t

(* maybe_compact and the turn limit: go on, compact first, or give up with *)
(* the context exhausted.                                                  *)
AfterPrepare ==
  /\ AtResult("prepare")
  /\ \/ ~res /\ Settle(FALSE)
     \/ res /\ Start("turn") /\ UNCHANGED res
     \/ res /\ Eligible(chat) /\ Start("summary") /\ UNCHANGED res
     \/ res /\ Settle(FALSE)
  /\ Give /\ UNCHANGED <<chat, rounds>>
  /\ UNCHANGED <<workerVars, readerVars, signalVars, owed>>

(* compact_transcript gives up: before a turn it may be put off, unless it *)
(* was forced; a manual one answers, and forgets the cancel that stopped   *)
(* it.                                                                     *)
CompactionFails ==
  IF cur.op = "compact"
    THEN Goto("idle") /\ cancel' = FALSE /\ UNCHANGED <<task, res>>
    ELSE /\ \/ Start("turn") /\ UNCHANGED res
            \/ Settle(FALSE)
         /\ UNCHANGED cancel

(* compact_transcript: the summary, the acknowledged anchor, then whether  *)
(* the compacted transcript fits.  Only then is the transcript replaced.   *)
CompactionStep ==
  /\ mpc = "result" /\ task \in {"summary", "anchor", "fit"}
  /\ \/ CompactionFails /\ UNCHANGED chat
     \/ /\ res
        /\ CASE task = "summary" -> Start("anchor") /\ UNCHANGED chat
             [] task = "anchor"  -> Start("fit") /\ UNCHANGED chat
             [] task = "fit"     ->
                  /\ chat' = Compacted(chat)
                  /\ Start(IF cur.op = "compact" THEN "recount" ELSE "turn")
        /\ UNCHANGED <<res, cancel>>
  /\ Give /\ UNCHANGED rounds
  /\ UNCHANGED <<rpc, lines, ctlq, drops, quit, reason, cstop>>
  /\ UNCHANGED <<workerVars, signalVars, owed>>

(* run_agent_cycle once the model has spoken: the turn is over with an     *)
(* answer; a call that does not parse, disagrees with the engine or is one *)
(* round too many fails it; a call whose selection, body or context is     *)
(* refused gets a failed response; the others run, after a preflight for   *)
(* the ones with a body.                                                   *)
AfterTurn ==
  /\ AtResult("turn")
  /\ \/ ~res /\ Settle(FALSE) /\ UNCHANGED <<chat, rounds>>
     \/ /\ res /\ chat' = Append(chat, "answer")
        /\ \E valid \in BOOLEAN : Settle(valid)
        /\ UNCHANGED rounds
     \/ /\ res /\ chat' = Append(chat, "call")
        /\ Settle(FALSE)
        /\ UNCHANGED rounds
     \/ /\ res /\ rounds < MaxRounds
        /\ chat' = chat \o <<"call", "response">>
        /\ rounds' = rounds + 1
        /\ Start("prepare") /\ UNCHANGED res
     \/ /\ res /\ rounds < MaxRounds
        /\ chat' = Append(chat, "call")
        /\ \E t \in {"preflight", "tool"} : Start(t)
        /\ UNCHANGED <<res, rounds>>
  /\ Give
  /\ UNCHANGED <<workerVars, readerVars, signalVars, owed>>

(* A preflight that finds nothing wrong is followed by the tool; one that  *)
(* does, and a tool that has run, are followed by their response.  A tool  *)
(* that was not run, or whose annotation fails, leaves its call open.      *)
AfterTool ==
  /\ mpc = "result" /\ task \in {"preflight", "tool"}
  /\ \/ Settle(FALSE) /\ UNCHANGED <<chat, rounds>>
     \/ /\ res /\ task = "preflight"
        /\ Start("tool")
        /\ UNCHANGED <<res, chat, rounds>>
     \/ /\ res
        /\ chat' = Append(chat, "response")
        /\ rounds' = rounds + 1
        /\ Start("prepare") /\ UNCHANGED res
  /\ Give
  /\ UNCHANGED <<workerVars, readerVars, signalVars, owed>>

(* A manual tool settles like a turn. *)
AfterManual ==
  /\ AtResult("manual")
  /\ Settle(res)
  /\ Give /\ UNCHANGED <<chat, rounds>>
  /\ UNCHANGED <<workerVars, readerVars, signalVars, owed>>

(* An explicit save: the manifest may fail to publish after the snapshot   *)
(* was written.  Only a worker in ERROR ends the session.                  *)
AfterSave ==
  /\ AtResult("save")
  /\ Answer({cur.id}) /\ cur' = NoLine
  /\ IF ~res /\ wstate = "error"
       THEN ok' = FALSE /\ Goto("end")
       ELSE Goto("top") /\ UNCHANGED ok
  /\ UNCHANGED <<task, res, cancelled, pq, quitAfterDrain, chat, rounds>>
  /\ UNCHANGED <<workerVars, readerVars, signalVars>>

(* After a turn or a compaction the context is counted, whatever that      *)
(* gives, and the session saved if there is something to save.             *)
AfterRecount ==
  /\ AtResult("recount")
  /\ IF HasSession /\ Saveable(chat)
       THEN Start("autosave")
       ELSE Goto("idle") /\ UNCHANGED task
  /\ Give /\ UNCHANGED <<res, chat, rounds>>
  /\ UNCHANGED <<workerVars, readerVars, signalVars, owed>>

(* A save that fails after a turn ends the session; after a compaction it  *)
(* is ignored.                                                             *)
AfterAutosave ==
  /\ AtResult("autosave")
  /\ \/ /\ res \/ cur.op = "compact"
        /\ Goto("idle") /\ UNCHANGED ok
     \/ /\ cur.op = "prompt"
        /\ ok' = FALSE /\ Goto("end")
  /\ UNCHANGED <<cur, task, res, cancelled, pq, quitAfterDrain, chat, rounds>>
  /\ UNCHANGED <<workerVars, readerVars, signalVars, owed>>

Results ==
  \/ AfterPrepare \/ CompactionStep \/ AfterTurn \/ AfterTool
  \/ AfterManual \/ AfterSave \/ AfterRecount \/ AfterAutosave

-----------------------------------------------------------------------------
(* Main loop: a turn or a manual tool settles *)

EndSession == ok' = FALSE /\ Goto("end")
KeepTurn == UNCHANGED <<cur, task, res, pq, quitAfterDrain, chat, rounds>>

SettleCancel ==
  /\ mpc = "settle"
  /\ cancelled' = cancel
  /\ cancel' = FALSE
  /\ Goto("signal")
  /\ KeepTurn /\ UNCHANGED ok
  /\ UNCHANGED <<rpc, lines, ctlq, drops, quit, reason, cstop>>
  /\ UNCHANGED <<workerVars, signalVars, owed>>

(* An interrupt that is not a SIGINT ends the session at once. *)
SettleSignal ==
  /\ mpc = "signal"
  /\ IF interrupted /\ lastSignal # "int"
       THEN EndSession
       ELSE Goto(IF interrupted THEN "ack" ELSE "recover") /\ UNCHANGED ok
  /\ KeepTurn /\ UNCHANGED cancelled
  /\ UNCHANGED <<workerVars, readerVars, signalVars, owed>>

(* Mutant: last_signal is not looked at again after it was cleared. *)
AckUnchecked ==
  /\ \/ /\ mpc = "ack"
        /\ interrupted' = FALSE
        /\ Goto("ack_store")
        /\ UNCHANGED <<lastSignal, cancelled>>
     \/ /\ mpc = "ack_store"
        /\ lastSignal' = "none" /\ cancelled' = TRUE
        /\ Goto("recover")
        /\ UNCHANGED interrupted
  /\ KeepTurn /\ UNCHANGED ok
  /\ UNCHANGED <<signals, hard, workerVars, readerVars, owed>>

(* try_ack_sigint: the interrupt is taken down in steps, and a signal may  *)
(* arrive between any two of them.  Each look at last_signal that finds    *)
(* something else raises the interrupt again.                              *)
AckSignal ==
  /\ \/ /\ mpc = "ack" /\ lastSignal = "int"
        /\ Goto("ack_clear")
        /\ UNCHANGED <<interrupted, lastSignal, cancelled, ok>>
     \/ /\ mpc = "ack_clear"
        /\ interrupted' = FALSE
        /\ Goto("ack_check")
        /\ UNCHANGED <<lastSignal, cancelled, ok>>
     \/ /\ mpc = "ack_check" /\ lastSignal = "int"
        /\ Goto("ack_store")
        /\ UNCHANGED <<interrupted, lastSignal, cancelled, ok>>
     \/ /\ mpc = "ack_store"
        /\ lastSignal' = "none"
        /\ Goto("ack_recheck")
        /\ UNCHANGED <<interrupted, cancelled, ok>>
     \/ /\ mpc = "ack_recheck" /\ lastSignal # "hard"
        /\ cancelled' = TRUE
        /\ Goto("recover")
        /\ UNCHANGED <<interrupted, lastSignal, ok>>
     \/ /\ \/ mpc \in {"ack", "ack_check"} /\ lastSignal # "int"
           \/ mpc = "ack_recheck" /\ lastSignal = "hard"
        /\ interrupted' = TRUE
        /\ EndSession
        /\ UNCHANGED <<lastSignal, cancelled>>
  /\ KeepTurn
  /\ UNCHANGED <<signals, hard, workerVars, readerVars, owed>>

(* A cancelled or failed turn leaves a closed transcript, and the session  *)
(* goes on, unless the worker is in ERROR and nobody has cancelled.        *)
RecoverTurn ==
  /\ mpc = "recover" /\ cur.op = "prompt"
  /\ IF ~res /\ ~cancelled /\ wstate = "error"
       THEN EndSession /\ UNCHANGED <<task, chat>>
       ELSE /\ chat' = IF res THEN chat ELSE CloseIncomplete(chat)
            /\ Start("recount") /\ UNCHANGED ok
  /\ UNCHANGED <<cur, res, cancelled, pq, quitAfterDrain, rounds>>
  /\ UNCHANGED <<workerVars, readerVars, signalVars, owed>>

RecoverTool ==
  /\ mpc = "recover" /\ cur.op = "tool"
  /\ IF res \/ cancelled THEN Goto("idle") /\ UNCHANGED ok ELSE EndSession
  /\ KeepTurn /\ UNCHANGED cancelled
  /\ UNCHANGED <<workerVars, readerVars, signalVars, owed>>

(* emit_fp1_idle.  Only a compaction looks at the worker first. *)
Idle ==
  /\ mpc = "idle"
  /\ Answer({cur.id}) /\ cur' = NoLine
  /\ IF cur.op = "compact" /\ wstate = "error"
       THEN EndSession
       ELSE Goto("top") /\ UNCHANGED ok
  /\ UNCHANGED <<task, res, cancelled, pq, quitAfterDrain, chat, rounds>>
  /\ UNCHANGED <<workerVars, readerVars, signalVars>>

-----------------------------------------------------------------------------
(* The end of the session *)

(* Mutant: the reader is not woken. *)
EndLoopUnwoken ==
  /\ mpc = "end"
  /\ Goto("join")
  /\ UNCHANGED <<cur, task, res, cancelled, pq, quitAfterDrain, chat, rounds, ok>>
  /\ UNCHANGED <<workerVars, readerVars, signalVars, owed>>

(* A quit or the end of the input is a clean end, whatever came before. *)
EndLoop ==
  /\ mpc = "end"
  /\ IF (quit \/ quitAfterDrain) /\ reason # "error"
       THEN ok' = TRUE /\ interrupted' = FALSE
       ELSE UNCHANGED <<ok, interrupted>>
  /\ cstop' = TRUE
  /\ Goto("join")
  /\ UNCHANGED <<cur, task, res, cancelled, pq, quitAfterDrain, chat, rounds>>
  /\ UNCHANGED <<rpc, lines, ctlq, drops, cancel, quit, reason>>
  /\ UNCHANGED <<lastSignal, signals, hard, workerVars, owed>>

(* control_stop joins the reader and frees the queues; the dropped         *)
(* operations are answered, then the worker is told to stop.               *)
ControlStop ==
  /\ mpc = "join" /\ rpc = "exited"
  /\ ctlq' = <<>> /\ pq' = <<>> /\ drops' = <<>>
  /\ Answer(Ids(drops))
  /\ RequestStop
  /\ Goto("stop")
  /\ UNCHANGED <<cur, task, res, cancelled, quitAfterDrain, chat, rounds, ok>>
  /\ UNCHANGED <<rpc, lines, cancel, quit, reason, cstop>>
  /\ UNCHANGED <<signalVars>>

(* q27_agent_worker_stop has joined the worker. *)
WorkerJoined ==
  /\ mpc = "stop" /\ wpc = "exited"
  /\ Goto("done")
  /\ UNCHANGED <<cur, task, res, cancelled, pq, quitAfterDrain, chat, rounds, ok>>
  /\ UNCHANGED <<workerVars, readerVars, signalVars, owed>>

MainStep ==
  \/ WorkerStarted \/ LoopTop \/ DrainControl \/ DrainPrompts \/ WaitOp
  \/ Dispatch \/ SubmitTask \/ AwaitEvent \/ Results
  \/ SettleCancel \/ SettleSignal \/ AckSignal \/ RecoverTurn \/ RecoverTool \/ Idle
  \/ EndLoop \/ ControlStop \/ WorkerJoined

WorkerStep ==
  /\ \/ OpenEngine \/ WorkerExits \/ TakeRequest
     \/ Announce(Alive) \/ Emit(Alive) \/ Returns(Alive) \/ Publish
  /\ UNCHANGED controlVars

NoMemory ==
  /\ EmitFails(Alive) \/ PublishFails
  /\ UNCHANGED controlVars

Next ==
  \/ Reader \/ Signal \/ MainStep \/ OutputFails \/ BusyOps
  \/ WorkerStep \/ NoMemory

(* The threads run: the worker finishes what it has begun, the main loop   *)
(* goes on, the reader uses up what it has read and heeds the wake pipe.   *)
(* The client, the signals and the failures owe nothing.                   *)
Fairness ==
  /\ WF_vars(MainStep)
  /\ WF_vars(WorkerStep)
  /\ WF_vars(ReaderTop \/ ReaderWoken \/ BurstEnd)

Spec == Init /\ [][Next]_vars /\ Fairness

-----------------------------------------------------------------------------
(* Properties *)

(* publish_terminal never waits: whatever the worker has sent while the    *)
(* client was slow, the two reserved places hold the terminal event.       *)
TerminalNeverBlocks == wpc = "finish" => Len(events) < EventMax

(* One command, one terminal: the queue holds only events of the current   *)
(* command, its terminal last, so that the event loops' command mismatch   *)
(* branch is never taken, and no command is accepted before the terminal   *)
(* of the one before was read.                                             *)
EventsAreTheCommands ==
  /\ mpc \in {"submit", "await"} => \A i \in 1..Len(events) : events[i].command = command
  /\ \A i \in 1..Len(events) : IsTerminal(events[i]) => i = Len(events)
  /\ mpc \in {"submit", "dispatch"} /\ ~wstop => events = <<>> /\ ~active

(* Both of them: the worker always finds a place for a command's one       *)
(* terminal, and the events that are read are those of the command that    *)
(* was submitted (q27_agent_worker.c, publish_terminal, and the event      *)
(* loops of q27_agent.c).                                                  *)
EventsInPlace == TerminalNeverBlocks /\ EventsAreTheCommands

(* Between two operations, and whenever it is saved, the transcript is the *)
(* system message and whole exchanges: users and assistants alternate, no  *)
(* call is left without its response and no prompt without an answer,      *)
(* whatever failed or was cancelled where (fp1_close_incomplete_turn,      *)
(* compact_transcript, save_session_ex).                                   *)
TranscriptClosed ==
  /\ mpc \in {"top", "drain", "wait", "dispatch"} => Closed(chat)
  /\ mpc \in {"submit", "await"} /\ task \in {"save", "autosave"} => Closed(chat)

(* Until the session ends, every line the client was promised an answer to *)
(* is in exactly one of the two queues, the ring of dropped operations or  *)
(* the main loop's hands: none is lost between them.                       *)
NothingUnanswered ==
  mpc \notin {"stop", "done"} =>
    LET held == ctlq \o drops \o pq \o (IF cur.id = 0 THEN <<>> ELSE <<cur>>)
    IN owed = Ids(held) /\ Len(held) = Cardinality(owed)

(* try_ack_sigint never swallows a signal that ends the session: wherever  *)
(* it arrives, the interrupt is up again before the loop goes on.          *)
HardSignalKept ==
  hard /\ mpc \in {"top", "drain", "wait", "dispatch", "submit", "await", "recover", "idle"}
    => interrupted

(* A quit, or a signal that ends the session, does end it: the queues are  *)
(* drained, the reader and the worker joined, with nobody waiting on       *)
(* somebody who has gone.                                                  *)
SessionEnds == quit \/ []hard ~> mpc = "done"

=============================================================================
