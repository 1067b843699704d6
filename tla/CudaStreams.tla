----------------------------- MODULE CudaStreams -----------------------------
(***************************************************************************)
(* The APIs of the CUDA server, plain completions, chat completions,       *)
(* messages and responses, and both ways each of them answers: streamed    *)
(* and buffered.  A request is checked, routed to a slot and given its     *)
(* token budget; then both handlers are fed the same segments of the       *)
(* StreamSplitter.                                                         *)
(*                                                                         *)
(* Text is a sequence of pieces with what parse_bare_tool_calls makes of   *)
(* them; a wrapper and a piece are named by the number of the segment that *)
(* began them.  Whether a wrapper parses is a choice, the same for both    *)
(* handlers.                                                               *)
(***************************************************************************)
EXTENDS Integers, Sequences, SequencesExt, FiniteSetsExt

CONSTANTS
  SlotCtx,      \* SlotCtx: the set of the slots' context lengths
  RoundReserve, \* ctx_round_reserve(), the same for all slots
  MaxCudaSegs,  \* bound: segments of an answer
  CudaTools     \* the request declares tools

ASSUME CudaAssumption ==
  /\ SlotCtx \subseteq Nat /\ RoundReserve \in Nat \ {0} /\ SlotCtx # {}
  /\ MaxCudaSegs \in Nat /\ CudaTools \in BOOLEAN

VARIABLES
  api,       \* "plain", "chat", "messages" or "responses"
  cudaEnd,   \* "new", "run", then how the request ended
  budget,    \* [asked, left]: whether max_tokens, and the clamped n_max, is positive
  cudaSegs,  \* segments so far
  cs,        \* locals of the streaming handler, and its wire
  cb         \* locals of the buffered handler

cudaVars == <<api, cudaEnd, budget, cudaSegs, cs, cb>>

Fresh ==
  [block |-> -1, open |-> "none", count |-> 0, tool |-> 0, think |-> "none",
   text |-> FALSE, accum |-> <<>>, calls |-> <<>>, any |-> FALSE, items |-> <<>>, wire |-> <<>>]

CudaInit ==
  /\ api \in {"plain", "chat", "messages", "responses"}
  /\ cudaEnd = "new" /\ budget = [asked |-> FALSE, left |-> FALSE]
  /\ cudaSegs = 0 /\ cs = Fresh /\ cb = Fresh

-----------------------------------------------------------------------------
(* The request *)

LargestCtx == Max(SlotCtx)
MaxPromptLen == LargestCtx - RoundReserve

(* The context-limit preflight, before a slot is claimed. *)
TooLong(p) == p > MaxPromptLen

(* claim_slot: a slot that keeps a positive budget; what fits nowhere goes *)
(* to the largest.                                                         *)
Eligible(p, ctx) ==
  IF p <= MaxPromptLen THEN p + RoundReserve <= ctx ELSE ctx = LargestCtx

(* n_max, clamped to the largest slot and then to the routed one. *)
Clamped(n, p, ctx) ==
  LET first == IF p + n > LargestCtx THEN LargestCtx - p ELSE n
  IN Max({0, Min({first, ctx - p - (RoundReserve - 1)})})

(* A body that is no JSON, an empty prompt, one that is too long, or       *)
(* sampling on a server booted without it: 400, and no slot is claimed.    *)
ChatRefusals == {"bad_json", "empty_prompt", "too_long", "sampling_disabled"}
MessagesRefusals == {"bad_json", "too_long", "sampling_disabled"}
ResponsesRefusals == {"bad_json", "too_long", "sampling_disabled"}

CudaRefuse ==
  /\ cudaEnd = "new"
  /\ cudaEnd' \in CASE api \in {"plain", "chat"} -> ChatRefusals
                     [] api = "messages" -> MessagesRefusals
                     [] OTHER -> ResponsesRefusals
  /\ cudaEnd' = "too_long" => \E p \in 1 .. LargestCtx + 1 : TooLong(p)
  /\ UNCHANGED <<api, budget, cudaSegs, cs, cb>>

Hello ==
  CASE api \in {"plain", "chat"} -> <<>>
    [] api = "messages" -> <<[ev |-> "message_start", index |-> -1, type |-> "none"]>>
    [] OTHER -> <<[ev |-> "created", index |-> -1, type |-> "none"]>>

CudaAccept ==
  /\ cudaEnd = "new"
  /\ \E p \in 1 .. LargestCtx + 1, n \in 0 .. LargestCtx, ctx \in SlotCtx :
       /\ ~TooLong(p)
       /\ Eligible(p, ctx)
       /\ budget' = [asked |-> n > 0, left |-> Clamped(n, p, ctx) > 0]
  /\ cudaEnd' = "run"
  /\ cs' = [Fresh EXCEPT !.wire = Hello]
  /\ UNCHANGED <<api, cudaSegs, cb>>

-----------------------------------------------------------------------------
(* Text and the calls in it *)

Piece(kind) == [kind |-> kind, of |-> cudaSegs + 1]
BareIn(t) == SelectSeq(t, LAMBDA x : x.kind = "call")
Ids(t) == [i \in 1 .. Len(t) |-> t[i].of]

(* A malformed body is text, and may hold a call all the same. *)
RawOf(id, nested) == [kind |-> IF nested THEN "call" ELSE "prose", of |-> id]

Note(s, ev, i, type) ==
  [s EXCEPT !.wire = Append(@, [ev |-> ev, index |-> i, type |-> type])]

-----------------------------------------------------------------------------
(* Plain completions: whatever is generated is text. *)

PlainSeg(s, p) == [Note(s, "content", -1, "text") EXCEPT !.accum = Append(@, p)]

(* The reason, the usage if the request wants it, and the end. *)
Closing(s, why, usage) ==
  LET c == Note(s, why, -1, "none")
  IN Note(IF usage THEN Note(c, "usage", -1, "none") ELSE c, "[DONE]", -1, "none")

PlainEnd(s, why, usage) == Closing(s, why, usage)
PlainKeep(s, p) == [s EXCEPT !.accum = Append(@, p)]

-----------------------------------------------------------------------------
(* Chat, streamed *)

ChatCall(s, id) ==
  [Note(s, "call", s.count, "tool") EXCEPT !.count = @ + 1, !.any = TRUE, !.calls = Append(@, id)]

(* emit_tool: malformed, the raw bytes are sent, but not searched again. *)
ChatEmitTool(s, ok, nested) ==
  IF s.tool = 0 THEN s
  ELSE LET c == [s EXCEPT !.tool = 0]
       IN IF ok THEN ChatCall(c, s.tool) ELSE Note(c, "content", -1, "text")

ChatSeg(s, ch, p, ok, nested) ==
  LET c == ChatEmitTool(s, ok, nested) IN
  CASE ch = "tool" -> [s EXCEPT !.tool = IF @ = 0 THEN p.of ELSE @]
    [] ch = "think" -> Note(c, "reasoning", -1, "think")
    [] OTHER -> [Note(c, "content", -1, "text") EXCEPT !.accum = Append(@, p)]

ChatEnd(s, why, usage) ==
  LET bare == IF CudaTools THEN Ids(BareIn(s.accum)) ELSE <<>>
      c == FoldLeft(ChatCall, s, bare)
  IN Closing(c, IF c.any THEN "tool_calls" ELSE why, usage)

-----------------------------------------------------------------------------
(* Messages, streamed *)

BlockClosed(s) ==
  IF s.block < 0 THEN s
  ELSE LET signed == IF s.open = "think" THEN Note(s, "delta", s.block, "think") ELSE s
       IN [Note(signed, "stop", s.block, s.open) EXCEPT !.block = -1]

BlockOpen(s, type) ==
  LET c == IF s.block >= 0 /\ s.open # type THEN BlockClosed(s) ELSE s
  IN IF c.block >= 0 THEN c
     ELSE [Note(c, "start", c.count, type) EXCEPT
             !.block = c.count, !.count = @ + 1, !.open = type, !.any = TRUE]

InBlock(s, type) == LET o == BlockOpen(s, type) IN Note(o, "delta", o.block, type)

(* A call is a block of its own, sent whole. *)
UseBlock(s, id) ==
  LET c == BlockClosed(s)
      i == c.count
  IN [Note(Note(Note(c, "start", i, "tool"), "delta", i, "tool"), "stop", i, "tool") EXCEPT
        !.count = @ + 1, !.calls = Append(@, id)]

MessagesEmitTool(s, ok, nested) ==
  IF s.tool = 0 THEN s
  ELSE LET c == [s EXCEPT !.tool = 0]
       IN IF ok THEN UseBlock(c, s.tool)
          ELSE [InBlock(c, "text") EXCEPT !.accum = Append(@, RawOf(s.tool, nested))]

MessagesSeg(s, ch, p, ok, nested) ==
  LET c == MessagesEmitTool(s, ok, nested) IN
  CASE ch = "tool" -> [s EXCEPT !.tool = IF @ = 0 THEN p.of ELSE @]
    [] ch = "think" -> InBlock(c, "think")
    [] p.kind = "blank" /\ c.block < 0 -> c
    [] OTHER -> [InBlock(c, "text") EXCEPT !.accum = Append(@, p)]

MessagesEnd(s, why, failed) ==
  LET bare == IF CudaTools THEN Ids(BareIn(s.accum)) ELSE <<>>
      c == FoldLeft(UseBlock, s, bare)
      some == IF c.block < 0 /\ ~c.any /\ bare = <<>> THEN BlockOpen(c, "text") ELSE c
      shut == BlockClosed(some)
      said == IF failed THEN Note(shut, "error", -1, "none") ELSE shut
  IN Note(Note(said, IF c.calls # <<>> THEN "tool_use" ELSE why, -1, "none"),
          "message_stop", -1, "none")

-----------------------------------------------------------------------------
(* Responses: items, and for the streamed ones the open message *)

DoneItem(s, type, id) ==
  [Note(s, "done", s.count, type) EXCEPT
     !.count = @ + 1, !.items = Append(@, [type |-> type, of |-> id])]

FlushThink(s) ==
  LET c == [s EXCEPT !.think = "none"]
  IN IF s.think = "some" THEN DoneItem(c, "reasoning", 0) ELSE c

MessageOpen(s) ==
  IF s.block >= 0 THEN s ELSE [Note(s, "added", s.count, "message") EXCEPT !.block = s.count]

FlushText(s) ==
  IF s.block < 0 THEN s
  ELSE [Note(s, "done", s.block, "message") EXCEPT
          !.items = Append(@, [type |-> "message", of |-> 0]), !.text = FALSE,
          !.count = s.block + 1, !.block = -1]

FlushTool(s, ok) ==
  IF s.tool = 0 THEN s
  ELSE DoneItem([s EXCEPT !.tool = 0], IF ok THEN "call" ELSE "message", s.tool)

(* route: a tool flushes thinking and text; thinking flushes neither. *)
ResponsesSeg(s, ch, p, ok, nested) ==
  LET c == FlushTool(s, ok)
      t == FlushThink(c)
      m == MessageOpen(t)
  IN CASE ch = "tool" -> LET f == FlushText(FlushThink(s))
                         IN [f EXCEPT !.tool = IF @ = 0 THEN p.of ELSE @]
       [] ch = "think" -> [c EXCEPT !.think = IF @ = "some" THEN @ ELSE p.kind]
       [] p.kind = "blank" /\ ~t.text -> t
       [] OTHER -> [Note(m, "delta", m.block, "message") EXCEPT
                      !.text = TRUE, !.accum = Append(@, p)]

(* Calls without a wrapper follow, tools or not. *)
ResponsesEnd(s) ==
  LET c == FlushText(FlushThink(s))
      r == FoldLeft(LAMBDA q, id : DoneItem(q, "call", id), c, Ids(BareIn(c.accum)))
  IN Note(r, "completed", -1, "none")

-----------------------------------------------------------------------------
(* The buffered handlers *)

(* Chat and messages keep the text, the calls and, apart, the malformed    *)
(* bodies, which are put behind the text at the end.                       *)
TakeTool(s, ok, nested) ==
  IF s.tool = 0 THEN s
  ELSE IF ok THEN [s EXCEPT !.tool = 0, !.calls = Append(@, s.tool)]
  ELSE [s EXCEPT !.tool = 0, !.items = Append(@, RawOf(s.tool, nested))]

KeepSeg(s, ch, p, ok, nested) ==
  LET c == TakeTool(s, ok, nested) IN
  CASE ch = "tool" -> [s EXCEPT !.tool = IF @ = 0 THEN p.of ELSE @]
    [] ch = "think" -> [c EXCEPT !.think = IF @ = "some" THEN @ ELSE p.kind]
    [] OTHER -> [c EXCEPT !.accum = Append(@, p)]

(* Mutant: the malformed bodies are not searched. *)
SearchTextOnly(s) ==
  [s EXCEPT !.calls = @ \o IF CudaTools THEN Ids(BareIn(s.accum)) ELSE <<>>]

(* Chat: the calls found in the text follow those with a wrapper. *)
ChatKept(s) ==
  [s EXCEPT !.calls = @ \o IF CudaTools THEN Ids(BareIn(s.accum \o s.items)) ELSE <<>>]

(* Messages, the same, and the content: thinking, text, calls; text also   *)
(* when there would be nothing else.                                       *)
MessagesKept(s) ==
  LET c == ChatKept(s)
      t == s.accum \o s.items
      bare == Len(c.calls) > Len(s.calls)
      said == \E i \in DOMAIN t : /\ t[i].kind # "blank"
                                 /\ bare => \A j \in 1 .. i : t[j].kind # "call"
      thought == IF s.think = "some" THEN <<"think">> ELSE <<>>
      text == IF said \/ (c.calls = <<>> /\ thought = <<>>) THEN <<"text">> ELSE <<>>
  IN [c EXCEPT !.wire = thought \o text \o [i \in DOMAIN c.calls |-> "tool"]]

(* Responses, buffered: the same items, no events and no recovery. *)
CollectThink(s) ==
  LET c == [s EXCEPT !.think = "none"]
  IN IF s.think = "some" THEN [c EXCEPT !.items = Append(@, [type |-> "reasoning", of |-> 0])] ELSE c
CollectText(s) ==
  IF s.text THEN [s EXCEPT !.text = FALSE, !.items = Append(@, [type |-> "message", of |-> 0])] ELSE s
CollectTool(s, ok) ==
  IF s.tool = 0 THEN s
  ELSE [s EXCEPT !.tool = 0,
                 !.items = Append(@, [type |-> IF ok THEN "call" ELSE "message", of |-> s.tool])]

CollectSeg(s, ch, p, ok, nested) ==
  LET c == CollectTool(s, ok) IN
  CASE ch = "tool" -> LET f == CollectText(CollectThink(s))
                      IN [f EXCEPT !.tool = IF @ = 0 THEN p.of ELSE @]
    [] ch = "think" -> [c EXCEPT !.think = IF @ = "some" THEN @ ELSE p.kind]
    [] OTHER -> [CollectThink(c) EXCEPT !.text = @ \/ p.kind # "blank"]

-----------------------------------------------------------------------------
(* Segments *)

StreamSeg(s, ch, p, ok, nested) ==
  CASE api = "plain" -> PlainSeg(s, p)
    [] api = "chat" -> ChatSeg(s, ch, p, ok, nested)
    [] api = "messages" -> MessagesSeg(s, ch, p, ok, nested)
    [] OTHER -> ResponsesSeg(s, ch, p, ok, nested)

KeptSeg(s, ch, p, ok, nested) ==
  CASE api = "plain" -> PlainKeep(s, p)
    [] api = "responses" -> CollectSeg(s, ch, p, ok, nested)
    [] OTHER -> KeepSeg(s, ch, p, ok, nested)

CudaSegment ==
  /\ cudaEnd = "run" /\ budget.left /\ cudaSegs < MaxCudaSegs
  /\ \E ok, nested \in BOOLEAN :
     \E x \in {<<"tool", "body">>} \cup ({"think"} \X {"blank", "some"})
              \cup ({"text"} \X {"prose", "blank", "call"}) :
       /\ cs' = StreamSeg(cs, x[1], Piece(x[2]), ok, nested)
       /\ cb' = KeptSeg(cb, x[1], Piece(x[2]), ok, nested)
  /\ cudaSegs' = cudaSegs + 1
  /\ UNCHANGED <<api, cudaEnd, budget>>

(* generate returns: at the end of the turn, at the budget, or because the *)
(* batch failed, of which only the message stream tells.                   *)
CudaDone ==
  /\ cudaEnd = "run"
  /\ \E ok, nested, failed, usage \in BOOLEAN, why \in {"end", "length"} :
       /\ usage => api \in {"plain", "chat"}
       /\ cs' = CASE api = "plain" -> PlainEnd(cs, why, usage)
                  [] api = "chat" -> ChatEnd(ChatEmitTool(cs, ok, nested), why, usage)
                  [] api = "messages" -> MessagesEnd(MessagesEmitTool(cs, ok, nested), why, failed)
                  [] OTHER -> ResponsesEnd(FlushTool(cs, ok))
       /\ cb' = CASE api = "plain" -> cb
                  [] api = "chat" -> ChatKept(TakeTool(cb, ok, nested))
                  [] api = "messages" -> MessagesKept(TakeTool(cb, ok, nested))
                  [] OTHER -> CollectText(CollectThink(CollectTool(cb, ok)))
       /\ cudaEnd' = IF failed /\ cudaSegs = 0 THEN "500" ELSE why
  /\ UNCHANGED <<api, budget, cudaSegs>>

(* The client has gone: a write fails and the generation is stopped. *)
CudaGone ==
  /\ cudaEnd = "run"
  /\ cudaEnd' = "gone"
  /\ UNCHANGED <<api, budget, cudaSegs, cs, cb>>

CudaNext == CudaRefuse \/ CudaAccept \/ CudaSegment \/ CudaDone \/ CudaGone

-----------------------------------------------------------------------------
(* Properties *)

(* "A prompt that passes can never have its n_max floored to 0": the       *)
(* preflight, the choice of a slot and the two clamps agree, so that an    *)
(* answer is empty only if no tokens were asked for.                       *)
BudgetKept == cudaEnd = "run" => (budget.asked => budget.left)

EventsBefore(n, ev) == Len(SelectSeq(SubSeq(cs.wire, 1, n - 1), LAMBDA e : e.ev = ev))

(* The message items of a response that are open before its nth event. *)
OpenBefore(n) ==
  {i \in 1 .. n - 1 : /\ cs.wire[i].ev = "added"
                      /\ \A j \in i .. n - 1 : cs.wire[j] # [cs.wire[i] EXCEPT !.ev = "done"]}

(* Reasoning that is sent as an item in the middle of a message. *)
Interposed(n) ==
  cs.wire[n].ev = "done" /\ cs.wire[n].type = "reasoning" /\ OpenBefore(n) # {}

(* The chunks of a completion number its calls in order, and end with one  *)
(* reason, the usage if asked for, and [DONE]; the events of a message     *)
(* keep one block open at a time, number the blocks in order and end with  *)
(* none open; those of a response open a message before its text and close *)
(* it before the next item, number the items in order, and list at the end *)
(* the items that were sent.  The exception is reasoning between two parts *)
(* of a message: it is sent while the message is open, under an index that *)
(* is not its own (OnlyOneItemOpen).                                       *)
CudaWireOk ==
  \A n \in 1 .. Len(cs.wire) :
    LET e == cs.wire[n] IN
    CASE e.ev = "call" -> e.index = EventsBefore(n, "call")
      [] e.ev \in {"end", "length", "tool_calls"} /\ api # "messages" ->
           \A i \in 1 .. Len(cs.wire) : i # n =>
             IF cs.wire[i].ev \in {"usage", "[DONE]"} THEN i > n ELSE i < n
      [] e.ev = "[DONE]" -> n = Len(cs.wire)
      [] e.ev = "start" -> EventsBefore(n, "start") = e.index /\ EventsBefore(n, "stop") = e.index
      [] e.ev \in {"delta", "stop"} /\ api = "messages" ->
           /\ EventsBefore(n, "start") = e.index + 1 /\ EventsBefore(n, "stop") = e.index
           /\ \E i \in 1 .. n - 1 : cs.wire[i] = [e EXCEPT !.ev = "start"]
      [] e.ev = "message_stop" ->
           EventsBefore(n, "start") = EventsBefore(n, "stop") /\ n = Len(cs.wire)
      [] e.ev = "added" -> OpenBefore(n) = {}
      [] e.ev = "delta" /\ api = "responses" ->
           \E i \in OpenBefore(n) : cs.wire[i] = [e EXCEPT !.ev = "added"]
      [] e.ev = "done" /\ ~Interposed(n) ->
           /\ \A i \in OpenBefore(n) : cs.wire[i] = [e EXCEPT !.ev = "added"]
           /\ e.index = Cardinality({i \in 1 .. n - 1 : cs.wire[i].ev = "done" /\ ~Interposed(i)})
      [] e.ev = "completed" ->
           /\ OpenBefore(n) = {} /\ n = Len(cs.wire)
           /\ LET sent == SelectSeq(cs.wire, LAMBDA x : x.ev = "done")
              IN /\ Len(sent) = Len(cs.items)
                 /\ \A i \in DOMAIN sent : sent[i].type = cs.items[i].type
      [] OTHER -> TRUE

(* Streamed or not, a request has the same calls, and so the same reason:  *)
(* in chat if no body was malformed (streamed, those are not searched), in *)
(* messages always, and there neither answer is without content; responses *)
(* have the same items, except for the calls that had no wrapper, which    *)
(* the streamed answer adds.                                               *)
CudaTwinsAgree ==
  cudaEnd \in {"end", "length"} =>
    CASE api = "plain" -> cs.accum = cb.accum
      [] api = "chat" -> cb.items = <<>> => cs.calls = cb.calls
      [] api = "messages" -> /\ ToSet(cs.calls) = ToSet(cb.calls)
                             /\ cs.count > 0 /\ cb.wire # <<>>
      [] OTHER -> /\ cb.items = SubSeq(cs.items, 1, Len(cb.items))
                  /\ \A i \in Len(cb.items) + 1 .. Len(cs.items) : cs.items[i].type = "call"

(* "Only one item is ever open": while the message is open no other item   *)
(* of a streamed response is done, so that no output index is used twice.  *)
OnlyOneItemOpen ==
  \A n \in 1 .. Len(cs.wire) :
    LET e == cs.wire[n] IN
    api = "responses" /\ e.ev = "done" /\ e.type # "message" =>
      \A i \in 1 .. n - 1 : cs.wire[i].ev = "added" =>
        \E j \in i .. n - 1 : cs.wire[j] = [cs.wire[i] EXCEPT !.ev = "done"]
=============================================================================
