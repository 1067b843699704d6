--------------------------- MODULE ResponsesStream ---------------------------
(***************************************************************************)
(* /v1/responses of the Metal server, both ways of answering: the          *)
(* streaming handler opens and closes output items while the answer is     *)
(* generated; the buffered one collects them.  Both are fed the same       *)
(* segments of the StreamSplitter.                                         *)
(*                                                                         *)
(* Text is a sequence of pieces, told apart by what parse_bare_tool_calls  *)
(* and strip_ws2 make of them:                                             *)
(*   prose, blank   no brace in it                                         *)
(*   fence          a line of three back quotes, opening or closing        *)
(*   call           a complete call without a wrapper                      *)
(*   example        the same bytes, generated while a fence is open        *)
(*   cut            a call whose end is missing                            *)
(*   json           braces that are no call                                *)
(* What a wrapper holds is a choice, the same for both handlers where both *)
(* ask the same parser about the same bytes.                               *)
(***************************************************************************)
EXTENDS Integers, Sequences, SequencesExt

CONSTANT MaxRespSegs   \* bound: segments of an answer

ASSUME RespAssumption == MaxRespSegs \in Nat

VARIABLES
  respSegs,  \* segments so far
  respEnd,   \* "run", then how the answer ended
  sent,      \* locals of the streaming handler, and its wire
  made       \* locals of the buffered handler, and its answer

respVars == <<respSegs, respEnd, sent, made>>

Item(type, inc, of) ==
  [type |-> type, status |-> IF inc THEN "incomplete" ELSE "completed", of |-> of]

(* think: none, blank or some; msg and st: msg_index and st_idx, -1 for    *)
(* none (text is empty exactly when msg_index is); ts, trail:              *)
(* ToolCallStreamer, "none" while it is not active; hold: bare_pending,    *)
(* empty when not bare_holding.                                            *)
RespInit ==
  /\ respSegs = 0 /\ respEnd = "run"
  /\ sent = [think |-> "none", msg |-> -1, out |-> 0, hold |-> <<>>, ts |-> "none",
             st |-> -1, custom |-> FALSE, trail |-> FALSE, items |-> <<>>,
             wire |-> <<[ev |-> "created", index |-> -1, type |-> "none"]>>]
  /\ made = [think |-> "none", text |-> <<>>, tool |-> FALSE, items |-> <<>>,
             loose |-> FALSE, fence |-> FALSE, status |-> "none"]

-----------------------------------------------------------------------------
(* parse_bare_tool_calls *)

Braces == {"call", "example", "json", "cut"}

(* inside_fence: an odd number of fences before it, in these bytes. *)
InsideFence(p, i) == Len(SelectSeq(SubSeq(p, 1, i - 1), LAMBDA x : x = "fence")) % 2 = 1

(* The pieces that are recovered; a cut one only as the end of a turn. *)
BareCalls(p, repair) ==
  {i \in DOMAIN p :
     /\ p[i] \in {"call", "example"} \/ (p[i] = "cut" /\ repair /\ i = Len(p))
     /\ ~InsideFence(p, i)}

(* The prose before the first of them. *)
Blank(p) == \A i \in DOMAIN p : p[i] = "blank"
Pre(p, calls) == SubSeq(p, 1, (CHOOSE i \in calls : \A j \in calls : i <= j) - 1)
Recovered(p, calls) == SetToSortSeq(calls, <)

-----------------------------------------------------------------------------
(* The streaming handler *)

Emit(s, ev, i, type) ==
  [s EXCEPT !.wire = Append(@, [ev |-> ev, index |-> i, type |-> type])]

ItemDone(s, it) ==
  [Emit(s, "done", s.out, it.type) EXCEPT !.out = @ + 1, !.items = Append(@, it)]

RespFlushThink(s, inc) ==
  LET c == [s EXCEPT !.think = "none"] IN
  IF s.think # "some" THEN c
  ELSE ItemDone(Emit(c, "added", c.out, "reasoning"), Item("reasoning", inc, "none"))

OpenText(s) ==
  IF s.msg >= 0 THEN s ELSE [Emit(s, "added", s.out, "message") EXCEPT !.msg = s.out]

RespFlushText(s, inc) ==
  IF s.msg < 0 THEN s
  ELSE [Emit(s, "done", s.msg, "message") EXCEPT
          !.items = Append(@, Item("message", inc, "none")), !.out = s.msg + 1, !.msg = -1]

PushCall(s, type, inc, of) ==
  ItemDone(Emit(s, "added", s.out, type), Item(type, inc, of))

PushMessageDone(s, inc) ==
  ItemDone(Emit(Emit(s, "added", s.out, "message"), "delta", s.out, "message"),
           Item("message", inc, "none"))

EmitText(s, blank) ==
  IF s.msg < 0 /\ blank THEN s
  ELSE LET o == OpenText(s) IN Emit(o, "delta", o.msg, "message")

(* A tool's declared type decides what a call of it is. *)
CallType(custom) == IF custom THEN "custom_tool_call" ELSE "function_call"

(* flush_tool with final_turn false: what does not parse is a message.     *)
(* Nothing is left in tool_buf at the end of a turn for its other branch.  *)
RespFlushTool(s, ok, custom, inc) ==
  IF ok THEN PushCall(s, CallType(custom), inc, "wrapper") ELSE PushMessageDone(s, inc)

RespFlushBare(s, final, inc) ==
  LET calls == BareCalls(s.hold, final /\ ~inc)
      pre == IF calls = {} THEN s.hold ELSE Pre(s.hold, calls)
      said == IF pre = <<>> THEN s ELSE EmitText(s, Blank(pre))
      pushed == FoldLeft(LAMBDA q, i : PushCall(q, "function_call", inc, s.hold[i]),
                         RespFlushText(said, FALSE), Recovered(s.hold, calls))
  IN IF s.hold = <<>> THEN s
     ELSE [IF calls = {} THEN said ELSE pushed EXCEPT !.hold = <<>>]

StArgDelta(s) == IF s.st < 0 THEN s ELSE Emit(s, "delta", s.st, "function_call")

(* recover_trail: framing only, prose, calls, or prose before calls. *)
RespTrail(s) ==
  IF ~s.trail THEN {s}
  ELSE {s, EmitText(s, FALSE), PushCall(s, "function_call", FALSE, "trail"),
        PushCall(RespFlushText(EmitText(s, FALSE), FALSE), "function_call", FALSE, "trail")}

CloseItem(s, inc) ==
  [Emit(s, "done", s.st, "function_call") EXCEPT
     !.items = Append(@, Item("function_call", inc, "wrapper")), !.out = s.st + 1, !.st = -1]

(* What parse_tool_call says of the wrapper: arguments that closed parse. *)
Parses(s, ok) == (s.ts = "done" /\ ~s.trail) \/ ok

(* close_stream_tool *)
CloseStreamTool(s, ok, custom, inc) ==
  {[q EXCEPT !.ts = "none", !.trail = FALSE, !.custom = FALSE] :
     q \in CASE s.ts = "none" -> {s}
             [] s.custom -> {RespFlushTool(s, Parses(s, ok), TRUE, inc)}
             [] s.ts = "invalid" -> RespTrail(CloseItem(s, TRUE))
             [] s.ts = "done" -> RespTrail(CloseItem(s, inc))
             [] s.ts = "args" -> {CloseItem(s, inc), CloseItem(StArgDelta(s), inc)}
             [] OTHER -> {RespFlushTool(s, ok, custom, inc)}}

(* The head is recognised: the item is opened, unless the tool is custom. *)
RespOpened(s, custom) ==
  IF custom THEN [s EXCEPT !.custom = TRUE]
  ELSE [Emit(s, "added", s.out, "function_call") EXCEPT !.st = s.out]

(* route, a piece of a wrapper.  A head that deviates hands what there is  *)
(* of the wrapper to flush_tool, and the streamer begins anew.             *)
RespFeed(s, ok, custom) ==
  LET c == RespFlushText(RespFlushThink(RespFlushBare(s, FALSE, FALSE), FALSE), FALSE) IN
  CASE c.ts \in {"none", "head"} ->
         {[c EXCEPT !.ts = "head"], [RespFlushTool(c, ok, custom, FALSE) EXCEPT !.ts = "none"]}
         \cup {[StArgDelta(RespOpened(c, custom)) EXCEPT !.ts = t] : t \in {"args", "done", "invalid"}}
    [] c.ts = "args" ->
         {c} \cup {[StArgDelta(c) EXCEPT !.ts = t] : t \in {"args", "done", "invalid"}}
    [] OTHER -> {c, [c EXCEPT !.trail = TRUE]}

(* Mutant: thinking leaves the open message open. *)
ThinkBeside(s, t) == [RespFlushBare(s, FALSE, FALSE) EXCEPT !.think = t]

(* route, thinking *)
RespThink(s, t) ==
  [RespFlushText(RespFlushBare(s, FALSE, FALSE), FALSE) EXCEPT
     !.think = IF @ = "some" THEN @ ELSE t]

(* route, text: from the first brace on it is held back. *)
RespText(s, p) ==
  LET c == RespFlushThink(s, FALSE) IN
  IF c.hold # <<>> \/ p \in Braces THEN [c EXCEPT !.hold = Append(@, p)]
  ELSE EmitText(c, p = "blank")

-----------------------------------------------------------------------------
(* The buffered handler *)

Collect(m, it) == [m EXCEPT !.items = Append(@, it)]

BufFlushThink(m, inc) ==
  LET c == [m EXCEPT !.think = "none"] IN
  IF m.think = "some" THEN Collect(c, Item("reasoning", inc, "none")) ELSE c

BufFlushText(m, final, inc) ==
  LET calls == BareCalls(m.text, final /\ ~inc)
      tx == IF calls = {} THEN m.text ELSE Pre(m.text, calls)
      c == [m EXCEPT !.text = <<>>]
      said == IF Blank(tx) THEN c ELSE Collect(c, Item("message", inc, "none"))
  IN FoldLeft(LAMBDA q, i : Collect(q, Item("function_call", inc, m.text[i])),
              said, Recovered(m.text, calls))

(* flush_tool: what does not parse is text of its own, searched for calls. *)
BufFlushTool(m, s, ok, custom, final, inc) ==
  LET streamed == s.st >= 0 /\ (s.ts \in {"args", "invalid"} \/ s.trail)
      c == [m EXCEPT !.tool = FALSE, !.loose = @ \/ streamed \/ ~Parses(s, ok)]
      kind == CallType(IF s.ts \in {"none", "head"} THEN custom ELSE s.custom)
  IN CASE ~m.tool -> m
       [] m.tool /\ Parses(s, ok) -> Collect(c, Item(kind, inc, "wrapper"))
       [] OTHER -> BufFlushText([c EXCEPT !.text = <<"cut">>], final, inc)

BufThink(m, t) ==
  [BufFlushText(m, FALSE, FALSE) EXCEPT !.think = IF @ = "some" THEN @ ELSE t]
BufText(m, p) ==
  [BufFlushThink(m, FALSE) EXCEPT !.text = Append(@, p), !.fence = @ \/ p = "fence"]

-----------------------------------------------------------------------------
(* Segments *)

Segment ==
  /\ respEnd = "run" /\ respSegs < MaxRespSegs
  /\ respSegs' = respSegs + 1
  /\ UNCHANGED respEnd

RespToolPiece ==
  /\ Segment
  /\ \E ok, custom \in BOOLEAN :
       /\ sent' \in RespFeed(sent, ok, custom)
       /\ made' = [BufFlushText(BufFlushThink(made, FALSE), FALSE, FALSE) EXCEPT
                     !.tool = TRUE,
                     !.loose = @ \/ sent'.ts = "none"]   \* the streamer fell back

(* Each of these first ends a wrapper. *)
RespThinkPiece ==
  /\ Segment
  /\ \E ok, custom \in BOOLEAN, t \in {"blank", "some"} :
       /\ \E q \in CloseStreamTool(sent, ok, custom, FALSE) : sent' = RespThink(q, t)
       /\ made' = BufThink(BufFlushTool(made, sent, ok, custom, FALSE, FALSE), t)

(* What the model writes next: an open fence makes a call an example, and  *)
(* a cut call is the end of its segment.                                   *)
Writable(p) ==
  /\ p = "call" => ~InsideFence(made.text, Len(made.text) + 1)
  /\ p = "example" => InsideFence(made.text, Len(made.text) + 1)
  /\ made.text # <<>> => Last(made.text) # "cut"

RespTextPiece ==
  /\ Segment
  /\ \E ok, custom \in BOOLEAN, p \in {"prose", "blank", "fence"} \cup Braces :
       /\ Writable(p)
       /\ \E q \in CloseStreamTool(sent, ok, custom, FALSE) : sent' = RespText(q, p)
       /\ made' = BufText(BufFlushTool(made, sent, ok, custom, FALSE, FALSE), p)

(* runtime.run returns: everything in flight is closed, in this order. *)
RespDone ==
  /\ respEnd = "run"
  /\ \E ok, custom, inc \in BOOLEAN :
       LET how == IF inc THEN "incomplete" ELSE "completed" IN
       /\ \E q \in CloseStreamTool(sent, ok, custom, inc) :
            sent' = Emit(RespFlushText(RespFlushBare(RespFlushThink(q, inc), TRUE, inc), inc),
                         how, -1, "none")
       /\ made' = [BufFlushText(BufFlushThink(
                     BufFlushTool(made, sent, ok, custom, TRUE, inc), inc), TRUE, inc)
                   EXCEPT !.status = how]
  /\ respEnd' = "done"
  /\ UNCHANGED respSegs

(* The client has gone: nothing more is written, or a bare 499. *)
RespCancelled ==
  /\ respEnd = "run"
  /\ respEnd' = "cancelled" /\ made' = [made EXCEPT !.status = "499"]
  /\ UNCHANGED <<respSegs, sent>>

RespSorry(s) == Emit(Emit(s, "error", -1, "none"), "failed", -1, "none")

(* Refused by the queue before anything ran. *)
RespOverloaded ==
  /\ respEnd = "run" /\ respSegs = 0
  /\ respEnd' = "error" /\ sent' = RespSorry(sent) /\ made' = [made EXCEPT !.status = "503"]
  /\ UNCHANGED respSegs

(* The engine failed: open items are closed as incomplete, held-back text  *)
(* is sent as it is, and the turn ends with a failure.                     *)
RespFailed ==
  /\ respEnd = "run"
  /\ \E ok, custom \in BOOLEAN : \E q \in CloseStreamTool(sent, ok, custom, TRUE) :
       LET c == RespFlushThink(q, TRUE)
           b == IF c.hold = <<>> THEN c ELSE [EmitText(c, FALSE) EXCEPT !.hold = <<>>]
       IN sent' = RespSorry(RespFlushText(b, TRUE))
  /\ respEnd' = "error" /\ made' = [made EXCEPT !.status = "500"]
  /\ UNCHANGED respSegs

RespNext ==
  \/ RespToolPiece \/ RespThinkPiece \/ RespTextPiece
  \/ RespDone \/ RespCancelled \/ RespOverloaded \/ RespFailed

-----------------------------------------------------------------------------
(* Properties *)

Before(n, ev) == SelectSeq(SubSeq(sent.wire, 1, n - 1), LAMBDA e : e.ev = ev)
Count(n, ev) == Len(Before(n, ev))

(* The item lifecycle a client insists on, whatever follows what: an item  *)
(* is added with the next index when none is open, deltas and the done of  *)
(* an item name the one that is open and have its type, the terminator     *)
(* comes when none is open and is the last event.                          *)
ItemsPaired ==
  \A n \in 1 .. Len(sent.wire) :
    LET e == sent.wire[n] IN
    CASE e.ev = "added" -> Count(n, "added") = e.index /\ Count(n, "done") = e.index
      [] e.ev \in {"delta", "done"} ->
           /\ Count(n, "added") = e.index + 1 /\ Count(n, "done") = e.index
           /\ Last(Before(n, "added")).type = e.type
      [] e.ev \in {"completed", "incomplete", "failed"} ->
           Count(n, "added") = Count(n, "done") /\ n = Len(sent.wire)
      [] OTHER -> TRUE

(* Streamed or not, the answer has the same items in the same order, and   *)
(* after a natural end the same status, as long as no wrapper deviated,    *)
(* was malformed, cut off or followed by more, and the text has no fence.  *)
RespTwinsAgree ==
  respEnd = "done" /\ ~made.loose /\ ~made.fence =>
    /\ Len(sent.items) = Len(made.items)
    /\ \A i \in DOMAIN made.items :
         /\ sent.items[i].type = made.items[i].type
         /\ sent.items[i].of = made.items[i].of
         /\ made.status = "completed" => sent.items[i].status = made.items[i].status

(* "A {...} sitting inside a fenced block is a displayed example, not a    *)
(* call the model is making": no item of a streamed answer is a call that  *)
(* was generated inside a fence.                                           *)
FencedIsText == \A i \in DOMAIN sent.items : sent.items[i].of # "example"
=============================================================================
