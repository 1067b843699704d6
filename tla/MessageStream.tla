---------------------------- MODULE MessageStream ----------------------------
(***************************************************************************)
(* The streaming handler of /v1/messages in the Metal server: it turns the *)
(* segments of the StreamSplitter into the events of a message, thinking   *)
(* and text in blocks opened when they are needed, tool calls streamed     *)
(* while they are generated (ToolCallStreamer) or sent whole.              *)
(*                                                                         *)
(* A segment is its channel; what its bytes decide (whether a call's head  *)
(* has been recognised, whether a body parses, whether a trail holds       *)
(* another call) is a choice.  The handler's locals are one record, and    *)
(* its lambdas operators on it.                                            *)
(***************************************************************************)
EXTENDS Integers, Sequences

CONSTANTS
  MaxSegments, \* bound: segments of a message
  HasTools     \* the request declares tools

ASSUME MessageAssumption == MaxSegments \in Nat /\ HasTools \in BOOLEAN

VARIABLES
  segments,    \* segments so far
  served,      \* "run", then how the provider ended
  h            \* the handler's locals and what it has written

messageVars == <<segments, served, h>>

(* idx and cur are block indices, -1 for none.  ts is ToolCallStreamer's   *)
(* state, "none" while it is not active; trail: it has kept bytes after    *)
(* the arguments.                                                          *)
Quiet ==
  [idx |-> -1, open |-> "none", counter |-> 0, any |-> FALSE, call |-> FALSE,
   cur |-> -1, ts |-> "none", trail |-> FALSE, wire |-> <<>>]

Ev(name, i, type) == [ev |-> name, index |-> i, type |-> type]
Send(r, e) == [r EXCEPT !.wire = Append(@, e)]

MessageInit ==
  /\ segments = 0 /\ served = "run"
  /\ h = Send(Quiet, Ev("message_start", -1, "none"))

-----------------------------------------------------------------------------
(* Blocks *)

CloseBlock(r) ==
  IF r.idx < 0 THEN r
  ELSE LET signed == IF r.open = "think" THEN Send(r, Ev("delta", r.idx, "think")) ELSE r
       IN [Send(signed, Ev("stop", r.idx, r.open)) EXCEPT !.idx = -1]

OpenBlock(r, c) ==
  LET other == IF r.idx >= 0 /\ r.open # c THEN CloseBlock(r) ELSE r
  IN IF other.idx >= 0 THEN other
     ELSE [Send(other, Ev("start", other.counter, c)) EXCEPT
             !.idx = other.counter, !.counter = @ + 1, !.open = c, !.any = TRUE]

Says(r, c) ==
  LET o == OpenBlock(r, c) IN Send(o, Ev("delta", o.idx, c))

(* A call that is sent whole. *)
EmitToolBlock(r) ==
  LET c == [CloseBlock(r) EXCEPT !.call = TRUE, !.counter = @ + 1]
      i == r.counter
  IN Send(Send(Send(c, Ev("start", i, "tool")), Ev("delta", i, "tool")), Ev("stop", i, "tool"))

(* emit_tool: a body that does not parse is surfaced as text. *)
EmitTool(r) == {EmitToolBlock(r), Says(r, "text")}

-----------------------------------------------------------------------------
(* Streamed calls *)

CloseStreamBlock(r) ==
  IF r.cur < 0 THEN r ELSE [Send(r, Ev("stop", r.cur, "tool")) EXCEPT !.cur = -1]

(* recover_trail: text before more calls, more calls, text, or framing. *)
RecoverTrail(r) ==
  IF ~r.trail THEN {r}
  ELSE {r, Says(r, "text"), EmitToolBlock(r), EmitToolBlock(Says(r, "text"))}

Argued(r) == IF r.cur >= 0 THEN Send(r, Ev("delta", r.cur, "tool")) ELSE r

(* The head is recognised: the block before is closed and the call's own   *)
(* block opened.                                                           *)
Opened(r) ==
  LET q == CloseBlock(r)
  IN [Send(q, Ev("start", q.counter, "tool")) EXCEPT
        !.call = TRUE, !.cur = q.counter, !.counter = @ + 1]

(* match_head: undecided, another shape, or a head and what follows it. *)
MatchHead(r) ==
  {[r EXCEPT !.ts = t] : t \in {"head", "fallback"}}
  \cup {[Argued(Opened(r)) EXCEPT !.ts = t] : t \in {"args", "done", "invalid"}}

(* scan: a fragment, or bytes held for what comes after them. *)
ScanArgs(r) == {r} \cup {[Argued(r) EXCEPT !.ts = t] : t \in {"args", "done", "invalid"}}

(* ToolCallStreamer::feed and what the handler does with its fragment. *)
FeedTool(r) ==
  CASE r.ts \in {"none", "head"} -> MatchHead(r)
    [] r.ts = "args" -> ScanArgs(r)
    [] r.ts \in {"done", "invalid"} -> {r, [r EXCEPT !.trail = TRUE]}
    [] OTHER -> {r}

(* close_tool: a call that was streamed is closed as it is; one that was   *)
(* not is parsed from its raw bytes.                                       *)
CloseTool(r) ==
  {[q EXCEPT !.ts = "none", !.trail = FALSE] :
     q \in CASE r.ts = "none" -> {r}
             [] r.ts = "args" -> {CloseStreamBlock(r), CloseStreamBlock(Argued(r))}
             [] r.ts \in {"done", "invalid"} -> RecoverTrail(CloseStreamBlock(r))
             [] OTHER -> EmitTool(r)}

-----------------------------------------------------------------------------
(* The provider *)

(* emit_seg; an empty segment only ends a call, and blank text before a    *)
(* block is dropped.                                                       *)
EmitSeg(r, c) ==
  CASE c = "tool" -> FeedTool(r)
    [] c = "none" -> CloseTool(r)
    [] c = "blank" -> {IF q.idx < 0 THEN q ELSE Says(q, "text") : q \in CloseTool(r)}
    [] OTHER -> {Says(q, c) : q \in CloseTool(r)}

Route ==
  /\ served = "run" /\ segments < MaxSegments
  /\ segments' = segments + 1
  /\ \E c \in {"tool", "text", "think", "blank", "none"} : h' \in EmitSeg(h, c)
  /\ UNCHANGED served

EndWith(r, reason) ==
  Send(Send(r, Ev("message_delta", -1, reason)), Ev("message_stop", -1, "none"))

(* runtime.run returns: the call in flight is closed, calls without their  *)
(* wrapper are recovered from the text, and a message without a block gets *)
(* an empty one.                                                           *)
Completed ==
  /\ served = "run"
  /\ \E why \in {"stop", "length"} : \E q \in CloseTool(h) :
     \E bare \in {q} \cup (IF HasTools THEN {[EmitToolBlock(q) EXCEPT !.any = TRUE]} ELSE {}) :
       LET some == IF bare.idx < 0 /\ ~bare.any THEN OpenBlock(bare, "text") ELSE bare
       IN h' = EndWith(CloseBlock(some),
                       IF some.call /\ why # "length" THEN "tool_use" ELSE why)
  /\ served' = "done"
  /\ UNCHANGED segments

(* The client has gone: nothing more is written. *)
Cancelled ==
  /\ served = "run"
  /\ served' = "cancelled"
  /\ UNCHANGED <<segments, h>>

Sorry(r) == Send(Send(r, Ev("error", -1, "none")), Ev("message_stop", -1, "none"))

(* Refused before it ran. *)
Overloaded ==
  /\ served = "run" /\ segments = 0
  /\ h' = Sorry(h)
  /\ served' = "error"
  /\ UNCHANGED segments

(* The engine has failed: open blocks are closed before the error. *)
EngineFailed ==
  /\ served = "run"
  /\ \E q \in CloseTool(h) : h' = Sorry(CloseBlock(q))
  /\ served' = "error"
  /\ UNCHANGED segments

MessageNext == Route \/ Completed \/ Cancelled \/ Overloaded \/ EngineFailed

-----------------------------------------------------------------------------
(* Properties *)

Starts(n) == {i \in 1..n : h.wire[i].ev = "start"}
StopsAt(n) == {i \in 1..n : h.wire[i].ev = "stop"}

(* The blocks that are open after n events. *)
OpenAfter(n) ==
  {h.wire[i].index : i \in Starts(n)} \ {h.wire[i].index : i \in StopsAt(n)}

(* However text, thinking, calls that were streamed, calls that fell back, *)
(* trails and failures follow each other, the events make a message: one   *)
(* block is open at a time, blocks are numbered in order, a delta and a    *)
(* stop belong to the block that is open and have its type, and when the   *)
(* message ends none is open.                                              *)
WireWellFormed ==
  \A n \in 1..Len(h.wire) :
    LET e == h.wire[n]
        before == OpenAfter(n - 1)
    IN CASE e.ev = "start" ->
              before = {} /\ {h.wire[i].index : i \in Starts(n - 1)} = 0..(e.index - 1)
         [] e.ev \in {"delta", "stop"} ->
              before = {e.index}
              /\ \E i \in Starts(n) : h.wire[i].index = e.index /\ h.wire[i].type = e.type
         [] e.ev \in {"message_delta", "error", "message_stop"} ->
              before = {} /\ \A i \in (n + 1)..Len(h.wire) : h.wire[i].ev = "message_stop"
         [] OTHER -> n = 1
=============================================================================
