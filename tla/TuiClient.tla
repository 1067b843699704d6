----------------------------- MODULE TuiClient -----------------------------
(***************************************************************************)
(* The q27-tui frontend (main.rs, app.rs, backend.rs) and the agent it     *)
(* spawns, joined by two pipes: lines of operations to the agent, lines of *)
(* events back.  The agent is the FP1 loop of q27_agent.c reduced to the   *)
(* events it prints and their order; module AgentControl has the loop in   *)
(* full.  A prompt is its client_req_id; text, colours and the viewport    *)
(* are left out.                                                           *)
(*                                                                         *)
(* The UI never asks the agent anything: its phase and its set of pending  *)
(* prompts are rebuilt from events that may be older than the keys it has  *)
(* handled since.                                                          *)
(***************************************************************************)
EXTENDS Naturals, Sequences

CONSTANTS
  MaxPrompts,    \* bound: prompts the user sends
  MaxOps,        \* bound: other operations the user sends
  TuiQueueCap,   \* FP1_PROMPT_QUEUE_CAP
  TuiRounds,     \* bound: tool rounds of a turn
  MaxBacklog,    \* bound: events printed and not yet applied, when the agent goes on
  AgentMayDie    \* the agent process may end without a bye

ASSUME TuiAssumption ==
  /\ MaxPrompts \in Nat /\ MaxOps \in Nat /\ TuiRounds \in Nat /\ MaxBacklog \in Nat \ {0}
  /\ TuiQueueCap \in Nat \ {0} /\ AgentMayDie \in BOOLEAN

VARIABLES
  inq,      \* the agent's stdin: operations written and not yet read
  evs,      \* the mpsc channel: events printed and not yet applied
  ag,       \* the agent
  ui,       \* the Model and the main loop's locals; asked: prompts before each quit,
            \* gaveUp: the quit drain ended without a bye or an exit
  seen      \* observation: what became of each prompt

tuiVars == <<inq, evs, ag, ui, seen>>

None == 0
SlashOps == {"help", "save", "compact", "new", "tool", "queue_clear", "cancel", "quit"}

Op(k, id) == [k |-> k, id |-> id]
Printed(type, state, id) ==
  [type |-> type, state |-> state, id |-> id, more |-> FALSE, ok |-> TRUE, items |-> {}]

IdsOf(s) == {s[i].id : i \in DOMAIN s}

TuiInit ==
  /\ inq = <<>> /\ evs = <<>>
  /\ ag = [pc |-> "loading", cur |-> None, ctl |-> <<>>, drops |-> <<>>, pq |-> <<>>,
           cancel |-> FALSE, quit |-> FALSE, after |-> FALSE, rounds |-> 0]
  /\ ui = [at |-> "hello", phase |-> "starting", ready |-> FALSE, pending |-> {},
           qids |-> {}, bye |-> FALSE, fatal |-> FALSE, queue |-> FALSE,
           open |-> 0, buf |-> FALSE, prompts |-> 0, ops |-> 0, asked |-> {},
           gaveUp |-> FALSE]
  /\ seen = [ran |-> {}, cleared |-> {}, refused |-> {}, dropped |-> {}, killed |-> FALSE, died |-> FALSE]

-----------------------------------------------------------------------------
(* The agent *)

QueueNow(pq, state) == [Printed("queue", state, None) EXCEPT !.items = IdsOf(pq)]
IdleEv == Printed("idle", "idle", None)
Rejected(state, id) == Printed("rejected", state, id)
Notice(state) == Printed("notice", state, None)
Session == Printed("session_done", "idle", None)
StateEv(state, id) == Printed("state", state, id)
ToolStart(id) == Printed("tool_start", "tool_running", id)

(* The agent prints es; stdout and the reader thread keep their order. *)
AgentSays(es) == evs' = evs \o es

AgentUp == ag.pc \notin {"loading", "gone", "exited"}

AgentStart ==
  /\ ag.pc = "loading"
  /\ \/ ag' = [ag EXCEPT !.pc = "idle"] /\ AgentSays(<<Printed("hello", "idle", None), IdleEv>>)
     \/ ag' = [ag EXCEPT !.pc = "gone"] /\ AgentSays(<<Printed("bye", "stopped", None)>>)
  /\ UNCHANGED <<inq, ui, seen>>

(* The reader thread: cancel and quit are flags, and what follows a quit   *)
(* is dropped with a rejection.                                            *)
AgentReads ==
  /\ AgentUp /\ inq # <<>>
  /\ LET o == Head(inq) IN
       ag' = CASE o.k = "cancel" -> [ag EXCEPT !.cancel = TRUE]
               [] o.k = "quit" -> [ag EXCEPT !.quit = TRUE]
               [] OTHER -> IF ag.quit THEN [ag EXCEPT !.drops = Append(@, o)]
                           ELSE [ag EXCEPT !.ctl = Append(@, o)]
  /\ inq' = Tail(inq)
  /\ UNCHANGED <<evs, ui, seen>>

(* flush_drops, before anything else in the loop and in the busy pump. *)
FlushDrop(state) ==
  /\ ag.drops # <<>>
  /\ ag' = [ag EXCEPT !.drops = Tail(@)]
  /\ AgentSays(<<Rejected(state, Head(ag.drops).id)>>)
  /\ seen' = [seen EXCEPT !.refused = @ \union {Head(ag.drops).id}]
  /\ UNCHANGED <<inq, ui>>

(* A prompt joins the back of the prompt queue, or is refused. *)
TakePrompt(state) ==
  LET o == Head(ag.ctl)
      full == Len(ag.pq) = TuiQueueCap
      pq2 == IF full THEN ag.pq ELSE Append(ag.pq, o)
  IN /\ ag' = [ag EXCEPT !.ctl = Tail(@), !.pq = pq2]
     /\ AgentSays(IF full THEN <<Rejected(state, o.id)>> ELSE <<QueueNow(pq2, state)>>)
     /\ seen' = IF full THEN [seen EXCEPT !.refused = @ \union {o.id}] ELSE seen
     /\ UNCHANGED <<inq, ui>>

ClearQueue(more, state) ==
  /\ ag' = [ag EXCEPT !.ctl = Tail(@), !.pq = <<>>]
  /\ AgentSays(<<QueueNow(<<>>, state)>> \o more)
  /\ seen' = [seen EXCEPT !.dropped = @ \union IdsOf(ag.pq)]
  /\ UNCHANGED <<inq, ui>>

(* The main loop at its top: drops first, then the control operations.     *)
Answers(es) == ag' = [ag EXCEPT !.ctl = Tail(@)] /\ AgentSays(es) /\ UNCHANGED <<inq, ui, seen>>

AgentOp ==
  /\ ag.pc = "idle" /\ ag.drops = <<>> /\ ag.ctl # <<>>
  /\ LET k == Head(ag.ctl).k IN
       \/ k = "prompt" /\ TakePrompt("idle")
       \/ k = "queue_clear" /\ ClearQueue(<<IdleEv>>, "idle")
       \/ k = "help" /\ Answers(<<Notice("idle")>>)
       \/ k = "save" /\ \E e \in {Session, Rejected("idle", None)} : Answers(<<e>>)
       \/ k = "new" /\ \/ Answers(<<[Session EXCEPT !.more = TRUE], IdleEv>>)
                       \/ Answers(<<[Session EXCEPT !.more = TRUE, !.ok = FALSE]>>)
       \/ k = "compact" /\ Answers(<<Rejected("idle", None)>>)
       \/ /\ k \in {"compact", "tool"}
          /\ ag' = [ag EXCEPT !.ctl = Tail(@), !.cancel = IF k = "tool" THEN FALSE ELSE @,
                              !.pc = IF k = "tool" THEN "run" ELSE "squeeze"]
          /\ AgentSays(IF k = "tool" THEN <<ToolStart(None)>>
                  ELSE <<StateEv("compacting", None)>>)
          /\ UNCHANGED <<inq, ui, seen>>

AgentFlush == ag.pc = "idle" /\ FlushDrop("idle")

(* No control operation is left: the oldest queued prompt runs.  A cancel  *)
(* that came before it is void, a quit becomes "after the drain".          *)
AgentPrompt ==
  /\ ag.pc = "idle" /\ ag.drops = <<>> /\ ag.ctl = <<>> /\ ag.pq # <<>>
  /\ LET o == Head(ag.pq) IN
       /\ ag' = [ag EXCEPT !.pq = Tail(@), !.cur = o.id, !.pc = "begin", !.rounds = 0,
                           !.cancel = FALSE, !.quit = FALSE, !.after = @ \/ ag.quit]
       /\ AgentSays(<<QueueNow(Tail(ag.pq), "idle")>>)
       /\ seen' = [seen EXCEPT !.ran = @ \union {o.id}]
  /\ UNCHANGED <<inq, ui>>

AgentBye ==
  /\ ag.pc = "idle" /\ ag.drops = <<>> /\ ag.ctl = <<>> /\ ag.pq = <<>>
  /\ ag.quit \/ ag.after
  /\ ag' = [ag EXCEPT !.pc = "gone"]
  /\ AgentSays(<<Printed("bye", "stopped", None)>>)
  /\ UNCHANGED <<inq, ui, seen>>

(* An idle cancel is a no-op. *)
AgentVoidsCancel ==
  /\ ag.pc = "idle" /\ ag.cancel /\ ag.ctl = <<>> /\ ag.pq = <<>> /\ ~ag.quit
  /\ ag' = [ag EXCEPT !.cancel = FALSE]
  /\ UNCHANGED <<inq, evs, ui, seen>>

(* q27_fp1_control_reject_busy, while a command of the worker runs: a      *)
(* prompt is queued, help answered, what needs the worker is refused.      *)
AgentPump ==
  /\ ag.pc \in {"gen", "run", "squeeze"}
  /\ LET state == IF ag.pc = "run" THEN "tool_running" ELSE "generating" IN
       \/ FlushDrop(state)
       \/ /\ ag.drops = <<>> /\ ag.ctl # <<>>
          /\ LET k == Head(ag.ctl).k IN
               \/ k = "prompt" /\ TakePrompt(state)
               \/ k = "queue_clear" /\ ClearQueue(<<>>, state)
               \/ k = "help" /\ Answers(<<Notice(state)>>)
               \/ k \in {"save", "compact", "new", "tool"}
                  /\ Answers(<<Rejected(state, None)>>)

(* One command of the turn: the worker announces it, speaks, and ends it.  *)
Stopping == ag.cancel \/ ag.quit

To(pc, es) == ag' = [ag EXCEPT !.pc = pc] /\ AgentSays(es)

AgentTurn ==
  /\ UNCHANGED <<inq, ui, seen>>
  /\ \/ ag.pc \in {"begin", "turn"} /\ To("gen", <<StateEv("generating", ag.cur)>>)
     \/ ag.pc \in {"begin", "turn"} /\ To("squeeze", <<StateEv("compacting", None)>>)
     \/ ag.pc \in {"begin", "turn", "said"} /\ To("settle", <<Printed("error", "idle", ag.cur)>>)
     \/ /\ ag.pc = "gen" /\ ~Stopping
        /\ To("said", <<Printed("prefill_progress", "generating", ag.cur),
                        Printed("text_delta", "generating", ag.cur)>>)
     \/ /\ ag.pc = "said" /\ ag.rounds < TuiRounds
        /\ ag' = [ag EXCEPT !.pc = "handoff", !.rounds = @ + 1]
        /\ AgentSays(<<[Printed("turn_done", "idle", ag.cur) EXCEPT !.more = TRUE]>>)
     \/ ag.pc = "handoff" /\ To("run", <<ToolStart(ag.cur)>>)
     \/ /\ ag.pc = "said" \/ (ag.pc = "gen" /\ Stopping)
        /\ To("settle", <<Printed("turn_done", "idle", ag.cur)>>)
     \/ /\ ag.pc = "run"
        /\ To(IF ag.cur = None \/ Stopping THEN "settle" ELSE "turn",
              <<Printed("tool_output", "tool_running", ag.cur), Printed("tool_done", "idle", ag.cur)>>)
     \/ /\ ag.pc = "squeeze"
        /\ To(IF ag.cur = None THEN "settle" ELSE "turn", <<Session>>)

(* The turn, the manual tool or the compaction settles with an idle event. *)
AgentSettles ==
  /\ ag.pc = "settle"
  /\ ag' = [ag EXCEPT !.pc = "idle", !.cur = None, !.cancel = FALSE]
  /\ AgentSays(<<IdleEv>>)
  /\ UNCHANGED <<inq, ui, seen>>

(* The process ends: after its bye, killed by the UI that left, or of      *)
(* itself.                                                                 *)
AgentExits ==
  /\ ag.pc # "exited"
  /\ ag.pc = "gone" \/ ui.at = "over" \/ AgentMayDie
  /\ ag' = [ag EXCEPT !.pc = "exited"]
  /\ AgentSays(<<Printed("exited", "none", None)>>)
  /\ seen' = [seen EXCEPT !.died = (ag.pc # "gone")]
  /\ UNCHANGED <<inq, ui>>

AgentStep ==
  /\ Len(evs) < MaxBacklog
  /\ \/ AgentStart \/ AgentReads \/ AgentOp \/ AgentFlush \/ AgentPrompt \/ AgentBye
     \/ AgentVoidsCancel \/ AgentPump \/ AgentTurn \/ AgentSettles \/ AgentExits

-----------------------------------------------------------------------------
(* Model::apply *)

(* The phase the envelope's state stands for; idle counts only in an idle  *)
(* event.                                                                  *)
Mapped(m, e) ==
  CASE e.state = "idle" -> IF e.type = "idle" THEN "idle" ELSE m.phase
    [] e.state = "generating" -> IF m.phase = "tool" THEN "tool" ELSE "generating"
    [] e.state = "tool_running" -> "tool"
    [] e.state = "compacting" -> "compacting"
    [] e.state = "stopped" -> "stopped"
    [] OTHER -> m.phase

Forget(s, id) == s \ {id}

(* reconcile_pending: an event of its turn settles a pending prompt. *)
Reconcile(m, e) ==
  IF e.type \in {"state", "prefill_progress", "text_delta", "tool_start", "turn_done", "error"}
  THEN [m EXCEPT !.pending = Forget(@, e.id)] ELSE m

FinishAssistant(m) == [m EXCEPT !.buf = FALSE]

(* The pending prompts an idle event names as cleared. *)
Unqueued(m) == m.pending \ m.qids

ApplyIdle(m) ==
  FinishAssistant([m EXCEPT !.phase = "idle", !.ready = TRUE,
                            !.pending = @ \intersect m.qids])

(* rejected and notice: an idle agent re-opens the prompt. *)
Reopen(m, e) ==
  IF e.state = "idle" THEN [m EXCEPT !.ready = TRUE, !.phase = "idle"]
  ELSE [m EXCEPT !.ready = m.queue]

(* Mutant: auto-compaction's session_done is taken for the end of the turn. *)
SessionDoneReopens(m, e) ==
  IF e.state = "idle" THEN [m EXCEPT !.ready = TRUE, !.phase = "idle"] ELSE m

SessionDone(m, e) ==
  LET n == IF e.more /\ e.ok THEN [m EXCEPT !.buf = FALSE, !.open = 0] ELSE m
  IN IF e.state = "idle" /\ m.phase \in {"idle", "stopped", "starting"}
     THEN [n EXCEPT !.ready = TRUE, !.phase = "idle"] ELSE n

Busy(m, p) == [m EXCEPT !.phase = p, !.ready = m.queue]

Apply(m0, e) ==
  LET m == Reconcile([m0 EXCEPT !.phase = Mapped(m0, e)], e)
  IN CASE e.type = "hello" -> [m EXCEPT !.queue = TRUE, !.ready = FALSE]
       [] e.type = "idle" -> ApplyIdle(m)
       [] e.type = "prefill_progress" -> Busy(m, "prefill")
       [] e.type = "text_delta" -> [Busy(m, "generating") EXCEPT !.buf = TRUE]
       [] e.type = "turn_done" -> IF e.more THEN [m EXCEPT !.phase = "tool"] ELSE FinishAssistant(m)
       [] e.type = "tool_start" -> [Busy(m, "tool") EXCEPT !.open = @ + 1]
       [] e.type = "tool_output" -> IF m.open > 0 THEN m ELSE [m EXCEPT !.open = 1]
       [] e.type = "tool_done" -> IF m.open > 0 THEN [m EXCEPT !.open = @ - 1] ELSE m
       [] e.type = "rejected" -> Reopen([m EXCEPT !.pending = Forget(@, e.id)], e)
       [] e.type = "notice" -> Reopen(m, e)
       [] e.type = "error" -> [m EXCEPT !.phase = "error", !.ready = TRUE]
       [] e.type = "session_done" -> SessionDone(m, e)
       [] e.type = "bye" -> [m EXCEPT !.phase = "stopped", !.ready = FALSE, !.bye = TRUE]
       [] e.type = "queue" ->
            [m EXCEPT !.qids = e.items, !.ready = @ \/ (m.queue /\ m.phase # "stopped")]
       [] OTHER -> m

(* What the user is told when e is applied. *)
Told(e) ==
  IF e.type = "idle" THEN [seen EXCEPT !.cleared = @ \union Unqueued(ui)] ELSE seen

-----------------------------------------------------------------------------
(* The main loop *)

Over(m, why) == [m EXCEPT !.at = "over", !.fatal = (why = "fatal")]

(* backend.kill(), on every way out of the loop. *)
Kills(s) == [s EXCEPT !.killed = AgentUp]

(* wait_for_hello, before the terminal is touched: the first idle after    *)
(* the hello starts the UI; a bye, an exit or 120 s end it.                *)
WaitForHello ==
  /\ ui.at = "hello" /\ evs # <<>>
  /\ LET e == Head(evs) IN
       /\ ui' = CASE e.type = "exited" -> Over(ui, "fatal")
                  [] e.type = "bye" -> Over(Apply(ui, e), "fatal")
                  [] e.type = "idle" /\ ui.queue -> [Apply(ui, e) EXCEPT !.at = "loop"]
                  [] OTHER -> Apply(ui, e)
       /\ seen' = IF ui'.at = "over" THEN Kills(seen) ELSE seen
  /\ evs' = Tail(evs)
  /\ UNCHANGED <<inq, ag>>

HelloTimesOut ==
  /\ ui.at = "hello" /\ ag.pc = "loading"
  /\ ui' = Over(ui, "fatal") /\ seen' = Kills(seen)
  /\ UNCHANGED <<inq, evs, ag>>

(* One event of the drain at the top of an iteration.  After a bye the     *)
(* loop ends; an exit without one is fatal.                                *)
Receives ==
  /\ ui.at = "loop" /\ evs # <<>>
  /\ LET e == Head(evs)
         m == IF e.type = "exited" THEN ui ELSE Apply(ui, e)
         ends == m.bye \/ e.type = "exited"
     IN /\ ui' = IF ends THEN Over(m, IF m.bye THEN "bye" ELSE "fatal") ELSE m
        /\ seen' = IF ends THEN Kills(Told(e)) ELSE Told(e)
  /\ evs' = Tail(evs)
  /\ UNCHANGED <<inq, ag>>

(* Whether the line editor takes characters and Enter. *)
CanType == ui.ready \/ (ui.queue /\ ui.phase \notin {"stopped", "starting"})

(* Writing to the agent's stdin fails once it has exited. *)
Writes(o) == inq' = IF ag.pc = "exited" THEN inq ELSE Append(inq, o)

BusyPhase == ui.phase \notin {"idle", "stopped", "starting"}

PushUser(m) == [m EXCEPT !.ready = TRUE, !.phase = IF @ = "idle" THEN "generating" ELSE @]

(* The prompt is pending only once the write has succeeded. *)
SendPrompt(m, sent) ==
  IF sent THEN PushUser([m EXCEPT !.pending = @ \union {m.prompts}]) ELSE m

(* Enter: dispatch_input.  A slash operation closes the prompt until its   *)
(* answer; /cancel is sent only when the UI is busy.                       *)
Enter(k) ==
  /\ ui.at = "loop" /\ CanType
  /\ IF k = "prompt" THEN ui.prompts < MaxPrompts ELSE ui.ops < MaxOps
  /\ LET sent == ag.pc # "exited"
         m == [ui EXCEPT !.prompts = IF k = "prompt" THEN @ + 1 ELSE @,
                         !.ops = IF k = "prompt" THEN @ ELSE @ + 1]
     IN \/ /\ k = "prompt" /\ Writes(Op("prompt", m.prompts))
           /\ ui' = SendPrompt(m, sent)
        \/ /\ k \in {"help", "save", "compact", "new", "tool"} /\ Writes(Op(k, None))
           /\ ui' = [m EXCEPT !.ready = ~sent]
        \/ /\ k = "queue_clear" /\ Writes(Op(k, None))
           /\ ui' = [m EXCEPT !.ready = @ \/ ~sent]
        \/ /\ k = "quit" /\ Writes(Op(k, None))
           /\ ui' = [m EXCEPT !.ready = @ \/ ~sent, !.asked = @ \union {m.prompts}]
        \/ /\ k = "cancel" /\ ui' = m
           /\ IF BusyPhase THEN Writes(Op("cancel", None)) ELSE inq' = inq
  /\ UNCHANGED <<evs, ag, seen>>

(* Esc and Ctrl-C: interrupt when busy, else only clear the line. *)
Esc ==
  /\ ui.at = "loop" /\ ui.ops < MaxOps
  /\ IF BusyPhase THEN Writes(Op("cancel", None)) ELSE inq' = inq
  /\ ui' = [ui EXCEPT !.ops = @ + 1]
  /\ UNCHANGED <<evs, ag, seen>>

(* Ctrl-Q: quit, then wait for the bye. *)
QuitKey ==
  /\ ui.at = "loop"
  /\ Writes(Op("quit", None))
  /\ ui' = [ui EXCEPT !.at = "drain", !.asked = @ \union {ui.prompts}]
  /\ UNCHANGED <<evs, ag, seen>>

DrainReceives ==
  /\ ui.at = "drain" /\ evs # <<>>
  /\ LET e == Head(evs)
         m == IF e.type = "exited" THEN ui ELSE Apply(ui, e)
         ends == m.bye \/ e.type = "exited"
     IN /\ ui' = IF ends THEN Over(m, "quit") ELSE m
        /\ seen' = IF ends THEN Kills(Told(e)) ELSE Told(e)
  /\ evs' = Tail(evs)
  /\ UNCHANGED <<inq, ag>>

(* The drain ends without a bye: QUIT_DRAIN_CAP has passed, or a line that *)
(* does not parse came between the events.  Whatever the agent was doing,  *)
(* the kill after the loop ends it.                                        *)
DrainGivesUp ==
  /\ ui.at = "drain"
  /\ ui' = [Over(ui, "quit") EXCEPT !.gaveUp = TRUE]
  /\ seen' = Kills(seen)
  /\ UNCHANGED <<inq, evs, ag>>

UiStep ==
  \/ WaitForHello \/ HelloTimesOut \/ Receives \/ Esc \/ QuitKey
  \/ DrainReceives \/ DrainGivesUp
  \/ \E k \in SlashOps \union {"prompt"} : Enter(k)

TuiNext == AgentStep \/ UiStep

TuiSpec == TuiInit /\ [][TuiNext]_tuiVars

-----------------------------------------------------------------------------
(* Properties *)

CaughtUp == evs = <<>> /\ ui.at = "loop"
InTurn == ag.pc \in {"gen", "said", "handoff", "run", "turn", "squeeze"}

(* Esc is never lost in the middle of a turn: once the UI has applied what *)
(* the agent printed, a turn, a tool or a compaction that runs shows as    *)
(* busy, through tool handoffs, auto-compaction and the answers to other   *)
(* operations (app.rs, the envelope rule and session_done).                *)
EscReaches == CaughtUp /\ InTurn => BusyPhase

(* When nothing is left to happen the UI agrees with the agent: it shows   *)
(* idle, takes input, and every prompt it displayed has run, was refused   *)
(* or was named as cleared (app.rs, reconcile_pending and the idle event). *)
NoPhantom ==
  CaughtUp /\ inq = <<>> /\ ag.pc = "idle" /\ ag.ctl = <<>> /\ ag.drops = <<>> /\ ag.pq = <<>>
    => /\ ui.phase = "idle" /\ CanType /\ ui.open = 0 /\ ~ui.buf
       /\ ui.pending = {}
       /\ 1..ui.prompts \subseteq seen.ran \union seen.refused \union seen.cleared

(* Leaving the UI kills no agent that still works, unless the drain after  *)
(* Ctrl-Q gave up at its cap or at a line that does not parse: the agent   *)
(* has said bye or was gone already, and every prompt sent before the      *)
(* first quit has run, was refused or was cleared on request (main.rs, the *)
(* quit drain).                                                            *)
QuitDrains ==
  ui.at = "over" /\ ui.queue /\ ~seen.died /\ ~ui.gaveUp =>
    /\ ~seen.killed
    /\ \A n \in ui.asked :
         (\A m \in ui.asked : n <= m) =>
           1..n \subseteq seen.ran \union seen.refused \union seen.dropped

(* The UI and the agent agree about turns, prompts and the end, though     *)
(* each knows only what the other said a while ago: Esc reaches a turn     *)
(* that runs, a prompt shown is a prompt accounted for, and leaving kills  *)
(* no work while the quit drain waits it out (app.rs and main.rs).         *)
TuiAgrees == EscReaches /\ NoPhantom /\ QuitDrains

(* "Wait for the agent to drain (settle the turn, save the session, run    *)
(* queued prompts)" (main.rs:299): Ctrl-Q kills no work at all.  It does,  *)
(* when the queued work takes longer than the cap, which is there to guard *)
(* "a wedged child", or when a line does not parse.                        *)
QuitNeverKills == ui.at = "over" /\ ui.queue => ~seen.killed

(* A prompt the UI reports as cleared was cleared: it does not run (app.rs, *)
(* the idle event: "a pending prompt that is neither queued nor started    *)
(* was cleared").                                                          *)
ClearedNeverRuns == seen.cleared \intersect seen.ran = {}

=============================================================================
