----------------------------- MODULE AgentRepl -----------------------------
(***************************************************************************)
(* The interactive loop of q27_agent.c on a terminal, with the line editor *)
(* of q27_agent_editor.c: at rest it reads a line; while the model or a    *)
(* tool works it keeps a live prompt under the output, so that the user    *)
(* can type ahead.                                                         *)
(*                                                                         *)
(* The terminal is the row the cursor is on.  A typed character is its     *)
(* number, a line the set of its characters; what the line says is chosen  *)
(* when it is run.  Entering and leaving raw mode discards what the        *)
(* terminal has not delivered (TCSAFLUSH in linenoise).  The transcript is *)
(* the sequence of its messages, each by what it is.                       *)
(***************************************************************************)
EXTENDS Naturals, Sequences, FiniteSets

CONSTANTS
  MaxKeys,       \* bound: keys the user presses
  MaxHeld,       \* bound: keys the terminal holds
  MaxReplSignals,\* bound: signals the process receives
  ReplQueueMax,  \* max_len of the prompt queue
  EditRoom,      \* ls.buflen of a new edit, Q27_EDITOR_BUF_INITIAL - 1
  MaxSpins,      \* the pumps of q27_agent_editor_end_busy
  MaxTalk,       \* bound: messages of the transcript when another call is recorded
  Resumed        \* the exchanges of the session the agent was started on

ASSUME ReplAssumption ==
  /\ {MaxKeys, MaxHeld, MaxReplSignals, MaxTalk} \subseteq Nat
  /\ ReplQueueMax \in Nat \ {0} /\ EditRoom \in Nat \ {0} /\ MaxSpins \in Nat \ {0}

Spoken == {"answer", "call", "note", "ack"}

(* A transcript of the system message and whole exchanges: user and model  *)
(* take turns, and every call has its response.                            *)
Exchanges(t) ==
  /\ Len(t) % 2 = 1
  /\ \A i \in 2..Len(t) :
       /\ t[i] \in Spoken <=> i % 2 = 1
       /\ t[i] = "call" => i < Len(t) /\ t[i + 1] = "response"
       /\ t[i] = "response" => t[i - 1] = "call"

(* What a session before this one has saved. *)
ASSUME ResumedAssumption ==
  /\ Resumed \in Seq({"user", "anchor", "call", "response", "answer", "note", "ack"})
  /\ Exchanges(<<"system">> \o Resumed)

VARIABLES
  ed,        \* the editor: busy, hidden, open (output_line_open), buf, restore
  scr,       \* the terminal: row, whether output was erased, and whether the
             \* last row was a diagnostic glued to output
  tty,       \* keys the terminal holds
  rq,        \* interactive_queue
  main,      \* the loop: at, what runs, ok, interrupted, last_signal, the pipe
  talk,      \* the transcript
  acct       \* observation: keys pressed, the characters that are not run,
             \* refused, discarded or cut yet, those due to be taken before raw
             \* mode is left, and whether one of these was lost, any cut

replVars == <<ed, scr, tty, rq, main, talk, acct>>

Keys == {"char", "enter", "ctrlC", "ctrlD"}

ReplInit ==
  /\ ed = [busy |-> FALSE, hidden |-> FALSE, open |-> FALSE, buf |-> {}, restore |-> {}]
  /\ scr = [row |-> "clean", erased |-> FALSE, glued |-> FALSE]
  /\ tty = <<>> /\ rq = <<>>
  /\ main = [at |-> "top", run |-> "none", ok |-> TRUE, intr |-> FALSE, last |-> "none",
             pipe |-> FALSE, line |-> {}, sigs |-> 0, cut |-> FALSE, spins |-> 0]
  /\ talk = <<"system">> \o Resumed
  /\ acct = [keys |-> 0, chars |-> {}, due |-> {}, lost |-> FALSE, cut |-> FALSE]

Chars(s) == {s[i].id : i \in {j \in DOMAIN s : s[j].k = "char"}}

-----------------------------------------------------------------------------
(* The user, and signals *)

Press(k) ==
  /\ acct.keys < MaxKeys /\ Len(tty) < MaxHeld /\ main.at # "over"
  /\ tty' = Append(tty, [k |-> k, id |-> acct.keys + 1])
  /\ acct' = [acct EXCEPT !.keys = @ + 1,
                          !.chars = IF k = "char" THEN @ \union {acct.keys + 1} ELSE @]
  /\ UNCHANGED <<ed, scr, rq, main, talk>>

(* on_signal *)
OnSignal(sig) ==
  /\ main.sigs < MaxReplSignals /\ main.at # "over"
  /\ main' = [main EXCEPT !.intr = TRUE, !.last = sig, !.pipe = TRUE, !.sigs = @ + 1]
  /\ UNCHANGED <<ed, scr, tty, rq, talk, acct>>

(* tui_soft_interrupt: a Ctrl-C the raw terminal delivers as a key never   *)
(* demotes a hard signal.                                                  *)
SoftInterrupt(m) ==
  IF m.last \notin {"none", "int"} THEN m
  ELSE [m EXCEPT !.intr = TRUE, !.last = "int", !.pipe = TRUE]

(* try_ack_sigint: the loop goes on after a soft interrupt only. *)
Acks(m) == m.last = "int"
Acked(m) == [m EXCEPT !.intr = FALSE, !.last = "none", !.pipe = FALSE]

-----------------------------------------------------------------------------
(* The editor *)

(* linenoiseHide clears the row the prompt is on. *)
Hide(s) == [s EXCEPT !.erased = @ \/ s.row = "text", !.row = "clean", !.glued = FALSE]
NewRow(s) == [s EXCEPT !.row = "clean", !.glued = FALSE]

(* q27_agent_editor_show_prompt: unfinished output gets its row first. *)
ShowPrompt(e, s) ==
  IF ~e.hidden THEN [e |-> e, s |-> s]
  ELSE [e |-> [e EXCEPT !.hidden = FALSE, !.open = FALSE],
        s |-> IF e.open THEN NewRow(s) ELSE s]

(* q27_agent_editor_write_above for model and tool text; nl: it ends with  *)
(* a newline, and only then does the prompt come back.                     *)
WriteOut(nl) ==
  LET s0 == IF ed.busy /\ ~ed.hidden THEN Hide(scr) ELSE scr
      s1 == [s0 EXCEPT !.row = IF nl THEN "clean" ELSE "text", !.glued = FALSE]
  IN /\ scr' = s1
     /\ ed' = IF ed.busy THEN [ed EXCEPT !.open = ~nl, !.hidden = ~nl] ELSE ed

(* The same for a diagnostic on stderr: it is written where the cursor is, *)
(* and only then is an unfinished row closed.                              *)
WriteErr ==
  LET s0 == IF ed.busy /\ ~ed.hidden THEN Hide(scr) ELSE scr
  IN /\ scr' = [s0 EXCEPT !.row = "clean", !.glued = (s0.row = "text")]
     /\ ed' = IF ed.busy THEN [ed EXCEPT !.open = FALSE, !.hidden = FALSE] ELSE ed

(* Unfinished text is carried to the next edit as far as its new buffer    *)
(* has room; the rest is freed.                                            *)
Fits(t) == {c \in t : Cardinality({d \in t : d < c}) < EditRoom}

(* Raw mode is entered or left, and unfinished text carried over.          *)
Flushed(a) == [a EXCEPT !.chars = @ \ Chars(tty), !.due = {},
                        !.lost = @ \/ a.due \intersect Chars(tty) # {}]
Cut(a, text) == [a EXCEPT !.chars = @ \ text, !.cut = @ \/ text # {}]
Carried(a) == Cut(Flushed(a), ed.restore \ Fits(ed.restore))

(* Run, or refused with a message. *)
Accounted(a, text) == [a EXCEPT !.chars = @ \ text]

(* q27_agent_editor_begin_busy *)
BeginBusy ==
  /\ ed' = [ed EXCEPT !.busy = TRUE, !.hidden = FALSE, !.open = FALSE,
                      !.buf = Fits(ed.restore), !.restore = {}]
  /\ tty' = <<>>

(* q27_tui_prompt_queue_push, and the message when it is full. *)
PushLine(line) ==
  IF line = {} THEN UNCHANGED <<rq, acct>>
  ELSE IF Len(rq) < ReplQueueMax THEN rq' = Append(rq, line) /\ UNCHANGED acct
  ELSE UNCHANGED rq /\ acct' = Accounted(acct, line)

(* q27_agent_editor_pump on one key: the prompt is shown, the key goes to  *)
(* the edit buffer; Enter queues the line, Ctrl-C leaves the buffer as it  *)
(* is, Ctrl-D on an empty line is ignored.  A full queue is reported above *)
(* the prompt.                                                             *)
PumpKey ==
  LET k == Head(tty)
      shown == ShowPrompt(ed, scr)
  IN /\ tty' = Tail(tty)
     /\ scr' = shown.s
     /\ ed' = CASE k.k = "char" -> [shown.e EXCEPT !.buf = @ \union {k.id}]
                [] k.k = "enter" -> [shown.e EXCEPT !.buf = {}]
                [] OTHER -> shown.e
     /\ IF k.k = "enter" THEN PushLine(ed.buf) ELSE UNCHANGED <<rq, acct>>

(* A pump whose read fails or finds the end of the input: the unfinished   *)
(* text goes to restore_line, in the place of what is there.               *)
PumpHolds ==
  LET shown == ShowPrompt(ed, scr)
  IN /\ ed.buf # {}
     /\ ed' = [shown.e EXCEPT !.buf = {}, !.restore = ed.buf] /\ scr' = shown.s
     /\ acct' = Cut(acct, ed.restore)
     /\ UNCHANGED <<tty, rq>>

(* A pump that fails: the terminal cannot be polled, written or read, or   *)
(* the line that Enter ends holds a NUL and is dropped.                    *)
PumpFails(told) ==
  LET shown == ShowPrompt(ed, scr)
  IN \/ UNCHANGED <<ed, scr, tty, rq, acct>>
     \/ PumpHolds
     \/ /\ tty # <<>> /\ Head(tty).k = "enter" /\ ed.buf # {}
        /\ ed' = [shown.e EXCEPT !.buf = {}] /\ scr' = shown.s
        /\ tty' = Tail(tty)
        /\ acct' = IF told THEN Accounted(acct, ed.buf) ELSE Cut(acct, ed.buf)
        /\ UNCHANGED rq

-----------------------------------------------------------------------------
(* The loop *)

ReplGoto(at) == main' = [main EXCEPT !.at = at]
ReplLeave(good) == main' = [main EXCEPT !.at = "over", !.ok = good, !.line = {}]

(* The top: an interrupt ends the session, queued lines come first.        *)
ReplTop ==
  /\ main.at = "top"
  /\ \/ main.intr /\ ReplLeave(FALSE) /\ UNCHANGED <<ed, tty, rq, acct>>
     \/ /\ ~main.intr /\ rq # <<>>
        /\ main' = [main EXCEPT !.at = "line", !.line = Head(rq)]
        /\ rq' = Tail(rq) /\ UNCHANGED <<ed, tty, acct>>
     \/ /\ ~main.intr /\ rq = <<>> /\ ReplGoto("read")
        /\ ed' = [ed EXCEPT !.buf = Fits(ed.restore), !.restore = {}]
        /\ tty' = <<>> /\ acct' = Carried(acct)
        /\ UNCHANGED rq
  /\ UNCHANGED <<scr, talk>>

(* q27_agent_editor_read_line: one poll.  A line that holds a NUL is       *)
(* refused, a terminal that fails ends the session.                        *)
ReplRead ==
  /\ main.at = "read"
  /\ UNCHANGED <<scr, rq, talk>>
  /\ \/ /\ ReplLeave(FALSE)      \* the signal pipe, or an error
        /\ ed' = [ed EXCEPT !.buf = {}] /\ UNCHANGED <<tty, acct>>
     \/ /\ ~main.pipe /\ tty # <<>>
        /\ LET k == Head(tty) IN
             \/ /\ k.k = "char" /\ ed' = [ed EXCEPT !.buf = @ \union {k.id}]
                /\ tty' = Tail(tty) /\ UNCHANGED <<main, acct>>
             \/ /\ k.k = "enter"
                /\ main' = [main EXCEPT !.at = IF ed.buf = {} THEN "top" ELSE "line",
                                        !.line = ed.buf]
                /\ ed' = [ed EXCEPT !.buf = {}] /\ tty' = <<>>
                /\ acct' = Flushed(acct)
             \/ /\ k.k = "enter" /\ ed.buf # {} /\ ReplGoto("top")
                /\ ed' = [ed EXCEPT !.buf = {}] /\ tty' = <<>>
                /\ acct' = Accounted(Flushed(acct), ed.buf)
             \/ /\ k.k = "ctrlC" /\ ReplLeave(FALSE)
                /\ ed' = [ed EXCEPT !.buf = {}] /\ UNCHANGED <<tty, acct>>
             \/ /\ k.k = "ctrlD" /\ ed.buf = {} /\ ReplLeave(TRUE)
                /\ UNCHANGED <<ed, tty, acct>>
             \/ /\ k.k = "ctrlD" /\ ed.buf # {}
                /\ tty' = Tail(tty) /\ UNCHANGED <<ed, main, acct>>

(* compact_transcript keeps the transcript from some prompt on.            *)
Compactions(t) ==
  {<<"system", "anchor", "ack">> \o SubSeq(t, i, Len(t)) :
     i \in {j \in 3..Len(t) : Len(t) >= 5 /\ t[j] \in {"user", "anchor"}}}

(* What the line is: a command that answers at once (/help, /session,      *)
(* /new, /save, /compact, an unknown one), /quit, a tool, or a prompt.  A  *)
(* failed save ends the session.                                           *)
ReplCommand ==
  /\ main.at = "line" /\ acct' = Accounted(acct, main.line)
  /\ \/ ReplLeave(TRUE) /\ UNCHANGED talk
     \/ /\ main' = [main EXCEPT !.at = "top", !.line = {}] \/ ReplLeave(FALSE)
        /\ talk' \in {talk, <<"system">>} \union Compactions(talk)
  /\ UNCHANGED <<ed, scr, tty, rq>>

ReplRun ==
  /\ main.at = "line"
  /\ \E what \in {"turn", "tool"} :
       /\ main' = [main EXCEPT !.at = "busy", !.run = what, !.line = {}]
       /\ talk' = IF what = "turn" THEN Append(talk, "user") ELSE talk
  /\ BeginBusy
  /\ acct' = Accounted(Carried(acct), main.line)
  /\ UNCHANGED <<scr, rq>>

(* The busy editor cannot start: a prompt is taken back and fails like a   *)
(* turn, a tool ends the session.                                          *)
ReplCannotRun ==
  /\ main.at = "line"
  /\ \/ main' = [main EXCEPT !.at = "settle", !.run = "turn", !.ok = FALSE, !.line = {}]
     \/ ReplLeave(FALSE)
  /\ tty' = <<>> /\ acct' = Accounted(Flushed(acct), main.line)
  /\ UNCHANGED <<ed, scr, rq, talk>>

(* tui_next_event, the pump between two events: a key, the signal pipe,    *)
(* the end of the input, or a failure, which cancels what runs.            *)
ReplPump ==
  /\ main.at = "busy"
  /\ \/ /\ main.pipe
        /\ main' = [main EXCEPT !.pipe = FALSE]
        /\ UNCHANGED <<ed, scr, tty, rq, acct>>
     \/ /\ ~main.pipe /\ tty # <<>> /\ PumpKey
        /\ main' = IF Head(tty).k = "ctrlC" /\ ~main.intr THEN SoftInterrupt(main) ELSE main
     \/ ~main.pipe /\ PumpHolds /\ UNCHANGED main
     \/ /\ ~main.pipe /\ PumpFails(TRUE)
        /\ main' = SoftInterrupt(main)
  /\ UNCHANGED talk

ReplWrites ==
  /\ main.at = "busy"
  /\ WriteErr \/ \E nl \in BOOLEAN : WriteOut(nl)
  /\ UNCHANGED <<tty, rq, main, talk, acct>>

Asked(t) == t[Len(t)] \in {"user", "response"}

(* The turn records a call, then its response, or compacts what it sends.  *)
ReplRecords ==
  /\ main.at = "busy" /\ main.run = "turn"
  /\ \/ Asked(talk) /\ Len(talk) < MaxTalk /\ talk' = Append(talk, "call")
     \/ Asked(talk) /\ talk' \in Compactions(talk)
     \/ talk[Len(talk)] = "call" /\ talk' = Append(talk, "response")
  /\ UNCHANGED <<ed, scr, tty, rq, main, acct>>

(* The worker's terminal event ends the turn or the tool.  A turn succeeds *)
(* with an answer; it fails at any point, also after a reply that is no    *)
(* valid call.  What the terminal holds by now is due.                     *)
ReplDone(good) ==
  /\ main.at = "busy"
  /\ main' = [main EXCEPT !.at = "ending", !.ok = good]
  /\ \/ (main.run = "tool" \/ ~good) /\ UNCHANGED talk
     \/ main.run = "turn" /\ Asked(talk) /\ talk' = Append(talk, "answer")
  /\ acct' = [acct EXCEPT !.due = @ \union Chars(tty)]
  /\ UNCHANGED <<ed, scr, tty, rq>>

(* q27_agent_editor_end_busy: what the terminal still holds is pumped, up  *)
(* to an interrupt or a failure.                                           *)
EndPump ==
  /\ main.at = "ending" /\ ~main.cut /\ main.spins < MaxSpins
  /\ \/ /\ main.pipe
        /\ main' = [main EXCEPT !.pipe = FALSE, !.cut = TRUE]
        /\ UNCHANGED <<ed, scr, tty, rq, acct>>
     \/ /\ ~main.pipe /\ tty # <<>> /\ PumpKey
        /\ main' = [main EXCEPT !.cut = (Head(tty).k = "ctrlC"), !.spins = @ + 1]
     \/ ~main.pipe /\ PumpHolds /\ main' = [main EXCEPT !.spins = @ + 1]
     \/ /\ ~main.pipe /\ PumpFails(FALSE)
        /\ main' = [main EXCEPT !.cut = TRUE]
  /\ UNCHANGED talk

(* Mutant: raw mode is left at once, whatever the terminal holds. *)
DrainSkipped ==
  /\ main.at = "ending"
  /\ main' = [main EXCEPT !.at = "stopping", !.cut = FALSE, !.spins = 0]
  /\ UNCHANGED <<ed, scr, tty, rq, talk, acct>>

(* The loop ends when a poll finds nothing, when it was cut short, or      *)
(* after its last spin; what the terminal then holds is given up.          *)
DrainEnds ==
  /\ main.at = "ending"
  /\ \/ tty = <<>> /\ ~main.pipe /\ UNCHANGED acct
     \/ /\ main.cut \/ main.spins = MaxSpins
        /\ acct' = [acct EXCEPT !.due = @ \ Chars(tty)]
  /\ main' = [main EXCEPT !.at = "stopping", !.cut = FALSE, !.spins = 0]
  /\ UNCHANGED <<ed, scr, tty, rq, talk>>

(* The unfinished line is kept, the prompt's row cleared; leaving raw mode *)
(* discards what has come since the last poll.                             *)
EndStop ==
  /\ main.at = "stopping"
  /\ ed' = [ed EXCEPT !.busy = FALSE, !.hidden = FALSE, !.open = FALSE,
                      !.restore = @ \union ed.buf, !.buf = {}]
  /\ scr' = NewRow(IF ed.hidden THEN scr ELSE Hide(scr))
  /\ tty' = <<>> /\ acct' = Flushed(acct)
  /\ ReplGoto("settle")
  /\ UNCHANGED <<rq, talk>>

(* A turn cut short: a prompt nobody answered is dropped, an open call     *)
(* gets a failed response, and a transcript of even length a note.         *)
CloseTurn(t) ==
  LET last == t[Len(t)]
      responded == IF last = "call" THEN Append(t, "response") ELSE t
  IN IF last \in {"user", "anchor"} THEN SubSeq(t, 1, Len(t) - 1)
     ELSE IF Len(responded) % 2 = 0 THEN Append(responded, "note")
     ELSE responded

(* After the turn or the tool: SIGINT and Ctrl-C are acknowledged and the  *)
(* loop goes on, a hard signal or another failure ends it.  A turn that    *)
(* succeeded is saved, one that was cut short is closed; failing at either *)
(* ends the session.                                                       *)
ReplSettle ==
  /\ main.at = "settle"
  /\ LET soft == main.intr /\ Acks(main)
         on == [(IF soft THEN Acked(main) ELSE main) EXCEPT !.at = "top", !.run = "none",
                                                            !.ok = TRUE]
     IN \/ /\ main.ok /\ (soft \/ ~main.intr) /\ UNCHANGED talk
           /\ main' = on \/ (main.run = "turn" /\ ReplLeave(FALSE))
        \/ /\ ~main.ok /\ soft
           /\ \/ main' = on /\ talk' = IF main.run = "turn" THEN CloseTurn(talk) ELSE talk
              \/ /\ main.run = "turn" /\ Len(CloseTurn(talk)) > Len(talk)
                 /\ ReplLeave(FALSE) /\ UNCHANGED talk
        \/ /\ ~soft /\ (main.intr \/ ~main.ok) /\ ReplLeave(FALSE) /\ UNCHANGED talk
  /\ UNCHANGED <<ed, scr, tty, rq, acct>>

ReplNext ==
  \/ \E k \in Keys : Press(k)
  \/ \E sig \in {"int", "term"} : OnSignal(sig)
  \/ ReplTop \/ ReplRead \/ ReplCommand \/ ReplRun \/ ReplCannotRun \/ ReplPump \/ ReplWrites
  \/ ReplRecords \/ (\E good \in BOOLEAN : ReplDone(good)) \/ EndPump \/ DrainEnds \/ EndStop
  \/ ReplSettle

ReplSpec == ReplInit /\ [][ReplNext]_replVars

-----------------------------------------------------------------------------
(* Properties *)

(* Redrawing the live prompt never erases model or tool output: whenever   *)
(* linenoiseHide clears a row, no unfinished output stands on it           *)
(* (q27_agent_editor.c, show_prompt and write_above).                      *)
OutputKept == ~scr.erased

(* Type-ahead: what the terminal held when the turn or tool ended is taken *)
(* before raw mode is left, unless an interrupt, a failure or the cap on   *)
(* spins cut the drain short; and a character the editor took is in the    *)
(* line being edited, in the text carried to the next edit, queued, run,   *)
(* refused with a message, or cut from the carried text                    *)
(* (q27_agent_editor.c, end_busy and begin_busy).                          *)
TypeAheadKept ==
  /\ ~acct.lost
  /\ main.at # "over" =>
       acct.chars \subseteq
         ed.buf \union ed.restore \union Chars(tty)
           \union main.line
           \union UNION {rq[i] : i \in DOMAIN rq}

(* The loop never reads the next line on top of a broken transcript: it is *)
(* whole exchanges, however the turn before was cut (q27_agent.c, the      *)
(* interactive loop's settle block).                                       *)
ReplTranscriptClosed == main.at \in {"top", "read", "line"} => Exchanges(talk)

(* The interactive loop on the one terminal that output and input share:   *)
(* no redraw erases output, type-ahead is kept but for the cases that      *)
(* TypeAheadKept names, and the next line is never read on top of a broken *)
(* transcript (q27_agent_editor.c, q27_agent.c).                           *)
ReplKeeps == OutputKept /\ TypeAheadKept /\ ReplTranscriptClosed

(* Unfinished text is carried whole (q27_agent_editor.c, begin_busy:       *)
(* "Carry unfinished text across consecutive busy sessions").              *)
CarriedWhole == ~acct.cut

(* A diagnostic never continues an unfinished line of model text           *)
(* (q27_agent_editor.c, write_above: "Diagnostics on stderr must not glue  *)
(* onto an unfinished model line on stdout").                              *)
DiagsApart == ~scr.glued
=============================================================================
