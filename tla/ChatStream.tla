----------------------------- MODULE ChatStream -----------------------------
(***************************************************************************)
(* /v1/chat/completions of the Metal server, both ways of answering: the   *)
(* streaming handler, which sends a call's arguments while they are        *)
(* generated (ToolCallStreamer), and the buffered one, which parses a      *)
(* wrapper when it is closed.  Both are fed the same segments of the       *)
(* StreamSplitter.                                                         *)
(*                                                                         *)
(* A segment is its channel; what the bytes of a wrapper decide is a       *)
(* choice, the same for both handlers where both ask the same parser about *)
(* the same bytes.  A wrapper is named by its number.                      *)
(***************************************************************************)
EXTENDS Integers, Sequences

CONSTANTS
  MaxChatSegs,  \* bound: segments of an answer
  ChatTools     \* has_tools, the request declares tools

ASSUME ChatAssumption == MaxChatSegs \in Nat /\ ChatTools \in BOOLEAN

VARIABLES
  chatSegs,  \* segments so far
  chatEnd,   \* "run", then how the provider ended
  wrapper,   \* number of the wrapper last begun
  g,         \* locals of the streaming handler, and its wire
  b          \* locals of the buffered handler, and its answer

chatVars == <<chatSegs, chatEnd, wrapper, g, b>>

(* A chunk: what its delta says, the index of a call in it, the wrapper    *)
(* that call comes from (0: recovered from text).                          *)
Chunk(delta, i, of) == [delta |-> delta, index |-> i, of |-> of]
Put(r, c) == [r EXCEPT !.wire = Append(@, c)]

(* ts, trail: ToolCallStreamer, "none" while it is not active; how: how    *)
(* each streamed call was closed.                                          *)
ChatInit ==
  /\ chatSegs = 0 /\ chatEnd = "run" /\ wrapper = 0
  /\ g = [ts |-> "none", trail |-> FALSE, counter |-> 0, any |-> FALSE, clean |-> TRUE,
          how |-> <<>>, wire |-> <<Chunk("role", -1, 0)>>]
  /\ b = [buf |-> FALSE, calls |-> <<>>, bad |-> FALSE, loose |-> FALSE, finish |-> "none"]

-----------------------------------------------------------------------------
(* The streaming handler *)

Whole(r, of) ==
  [Put(r, Chunk("call", r.counter, of)) EXCEPT !.counter = @ + 1]
Frag(r) == Put(r, Chunk("args", r.counter, 0))
Content(r) == Put(r, Chunk("content", -1, 0))

(* emit_tool: a body that does not parse is surfaced as text. *)
EmitBuffered(r, ok) ==
  IF ok THEN [Whole(r, wrapper) EXCEPT !.any = TRUE] ELSE Content(r)

(* recover_trail: prose, calls, prose before calls, or nothing. *)
ChatTrail(r) ==
  IF ~r.trail THEN {r}
  ELSE {r, Content(r), Whole(r, 0), Whole(Content(r), 0)}

(* close_tool.  A streamed call is closed as it is, and counts as unclean  *)
(* unless its arguments closed and parse; other bodies are parsed now.     *)
ChatCloseTool(r, ok) ==
  CASE r.ts = "none" -> {r}
    [] r.ts = "done" ->
         ChatTrail([r EXCEPT !.counter = @ + 1, !.how = Append(@, "clean")])
    [] r.ts = "invalid" ->
         ChatTrail([r EXCEPT !.clean = FALSE, !.counter = @ + 1, !.how = Append(@, "unclean")])
    [] r.ts = "args" ->
         {[q EXCEPT !.clean = FALSE, !.counter = @ + 1, !.how = Append(@, "unclean")] :
            q \in {r, Frag(r)}}
    [] OTHER -> {EmitBuffered(r, ok)}

ChatClosed(r, ok) == {[q EXCEPT !.ts = "none", !.trail = FALSE] : q \in ChatCloseTool(r, ok)}

(* The head is recognised: the opener goes out, with its index. *)
ChatOpened(r, of) == [Put(r, Chunk("call", r.counter, of)) EXCEPT !.any = TRUE]

(* A piece of a wrapper's body, ToolCallStreamer::feed. *)
ChatFeed(r, of) ==
  CASE r.ts \in {"none", "head"} ->
         {[r EXCEPT !.ts = t] : t \in {"head", "fallback"}}
         \cup {[Frag(ChatOpened(r, of)) EXCEPT !.ts = t] : t \in {"args", "done", "invalid"}}
    [] r.ts = "args" ->
         {r} \cup {[Frag(r) EXCEPT !.ts = t] : t \in {"args", "done", "invalid"}}
    [] r.ts \in {"done", "invalid"} -> {r, [r EXCEPT !.trail = TRUE]}
    [] OTHER -> {r}

-----------------------------------------------------------------------------
(* The buffered handler *)

(* A wrapper the streamer closed clean parses; one it did not stream gets  *)
(* the same verdict ok; about the others the two may differ.               *)
CallParses(r, ok) == IF r.ts = "done" /\ ~r.trail THEN TRUE ELSE ok
Loose(r) == r.ts \in {"args", "invalid"} \/ r.trail

BufferedClose(n, r, ok) ==
  IF ~n.buf THEN n
  ELSE [n EXCEPT !.buf = FALSE, !.loose = @ \/ Loose(r),
                 !.calls = IF CallParses(r, ok) THEN Append(@, wrapper) ELSE @,
                 !.bad = @ \/ ~CallParses(r, ok)]

-----------------------------------------------------------------------------
(* Segments *)

Running == chatEnd = "run"

ToolPiece ==
  LET of == IF g.ts = "none" THEN wrapper + 1 ELSE wrapper IN
  /\ Running /\ chatSegs < MaxChatSegs /\ chatSegs' = chatSegs + 1
  /\ wrapper' = of
  /\ g' \in ChatFeed(g, of)
  /\ b' = [b EXCEPT !.buf = TRUE]
  /\ UNCHANGED chatEnd

(* An empty segment only ends a wrapper. *)
OtherPiece(ch) ==
  /\ Running /\ chatSegs < MaxChatSegs /\ chatSegs' = chatSegs + 1
  /\ \E ok \in BOOLEAN :
       /\ \E q \in ChatClosed(g, ok) :
            g' = CASE ch = "none" -> q
                   [] ch = "think" -> Put(q, Chunk("reasoning", -1, 0))
                   [] OTHER -> Content(q)
       /\ b' = BufferedClose(b, g, ok)
  /\ UNCHANGED <<chatEnd, wrapper>>

ChatFinish(r, why) ==
  IF r.any /\ r.clean /\ why # "length" THEN "tool_calls" ELSE why

BufferedFinish(n, why) ==
  IF n.calls # <<>> /\ why # "length" THEN "tool_calls" ELSE why

(* runtime.run returns: the wrapper in flight is closed, and calls without *)
(* a wrapper are recovered from the text.                                  *)
ChatDone ==
  /\ Running
  /\ \E ok \in BOOLEAN, bare \in BOOLEAN, alone \in BOOLEAN, why \in {"stop", "length"} :
     \E q \in ChatClosed(g, ok) :
       LET n == BufferedClose(b, g, ok)
           found == ChatTools /\ bare
           same == ~n.bad /\ ~n.loose       \* the same text is searched
           g2 == IF found THEN [Whole(q, 0) EXCEPT !.any = TRUE] ELSE q
           n2 == IF ChatTools /\ (IF same THEN bare ELSE alone)
                   THEN [n EXCEPT !.calls = Append(@, 0)] ELSE n
       IN /\ g' = Put(Put(g2, Chunk(ChatFinish(g2, why), -1, 0)), Chunk("[DONE]", -1, 0))
          /\ b' = [n2 EXCEPT !.finish = BufferedFinish(n2, why)]
  /\ chatEnd' = "done"
  /\ UNCHANGED <<chatSegs, wrapper>>

(* The client has gone: nothing more is written, and no status is sent but *)
(* the buffered handler's 499.                                             *)
ChatCancelled ==
  /\ Running
  /\ chatEnd' = "cancelled" /\ b' = [b EXCEPT !.finish = "499"]
  /\ UNCHANGED <<chatSegs, wrapper, g>>

(* Refused by the queue, or the engine failed: in band, or as a status. *)
ChatFails ==
  /\ Running
  /\ \E why \in {"503", "500"} :
       /\ why = "503" => chatSegs = 0
       /\ g' = Put(g, Chunk("error", -1, 0))
       /\ b' = [b EXCEPT !.finish = why]
  /\ chatEnd' = "error"
  /\ UNCHANGED <<chatSegs, wrapper>>

ChatNext ==
  \/ ToolPiece
  \/ \E ch \in {"text", "think", "none"} : OtherPiece(ch)
  \/ ChatDone \/ ChatCancelled \/ ChatFails

-----------------------------------------------------------------------------
(* Properties *)

Openers(n) == {i \in 1 .. n : g.wire[i].delta = "call"}
Reasons == {"tool_calls", "stop", "length"}

(* What a client puts together from the chunks is what was generated:      *)
(* calls are numbered in order, each opened once and before its arguments, *)
(* no arguments are added to a call once another has begun, the reason     *)
(* comes once and last, and it is "tool_calls" only when no call in the    *)
(* answer was cut off or turned out invalid after it had been opened.      *)
ChatAssembles ==
  \A n \in 1 .. Len(g.wire) :
    LET c == g.wire[n] IN
    CASE c.delta = "call" -> {g.wire[i].index : i \in Openers(n - 1)} = 0 .. c.index - 1
                             /\ c.index \notin {g.wire[i].index : i \in Openers(n - 1)}
      [] c.delta = "args" -> \E i \in Openers(n) : g.wire[i].index = c.index
                             /\ \A j \in Openers(n) : j <= i
      [] c.delta \in Reasons ->
           /\ n = Len(g.wire) - 1
           /\ c.delta = "tool_calls" =>
                Openers(n) # {} /\ \A k \in DOMAIN g.how : g.how[k] = "clean"
      [] OTHER -> TRUE

(* Streamed or not, the answer is the same: as long as no call was cut     *)
(* off, invalid or followed by more in its wrapper, both handlers offer    *)
(* the same calls in the same order and give the same reason.              *)
ChatTwinsAgree ==
  chatEnd = "done" /\ ~b.loose /\ ~b.bad =>
    /\ SelectSeq([i \in 1 .. Len(g.wire) |->
                    IF g.wire[i].delta = "call" THEN g.wire[i].of ELSE -1],
                 LAMBDA w : w >= 0) = b.calls
    /\ g.wire[Len(g.wire) - 1].delta = b.finish

=============================================================================
