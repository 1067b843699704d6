--------------------------- MODULE PromptTemplate ---------------------------
(***************************************************************************)
(* How the servers turn a conversation into the prompt they prefill.       *)
(*                                                                         *)
(* A client keeps a conversation and sends all of it with every request,   *)
(* over one of the five request mappings ("wires") of the two servers.     *)
(* Each mapping flattens the body into role/content messages, and          *)
(* chatml_prompt renders those into one ChatML string with two offsets:    *)
(* sys_off, just past the system and tools block, and stable_off, where    *)
(* the part that differs from turn to turn begins.  Every prefix cache of  *)
(* both servers lives on the re-rendering: a prompt is served from a cache *)
(* exactly as far as it repeats an earlier one.                            *)
(*                                                                         *)
(* A prompt is a sequence of atoms <<tag, i, k>>: a marker (i = k = 0), a  *)
(* word, a piece of reasoning, a tool call or a tool result of the         *)
(* conversation's i-th entry, or a billing header with its two stamps.     *)
(***************************************************************************)
EXTENDS Naturals, SequencesExt

CONSTANTS
    MaxHist,      \* entries a conversation grows to
    Replies,      \* the assistant's replies: [think, text, calls]
    Stamps        \* the values of the billing header's volatile fields

ASSUME PromptAssumption ==
    /\ MaxHist \in Nat
    /\ Replies \subseteq [think : BOOLEAN, text : BOOLEAN, calls : Nat]
    /\ Stamps \subseteq Nat \ {0, 9}

VARIABLES
    harness,  \* what every conversation of this client shares
    hist,     \* the client's conversation
    phase,    \* "idle", "asked" (to be posted), "sent", "owed" (results due)
    latest,     \* the request last rendered
    before,   \* the stable part of the conversation's request before it
    warm      \* the prefix the prewarmer installed

promptVars == <<harness, hist, phase, latest, before, warm>>

Wires == {"messages", "cuda_chat", "metal_chat", "cuda_responses", "metal_responses"}

At(tag) == <<tag, 0, 0>>
Word(i) == <<"word", i, 0>>
Reason(i) == <<"reason", i, 0>>
Call(i, k) == <<"call", i, k>>
Result(i, k) == <<"result", i, k>>
Header(cch, tail) == <<"header", cch, tail>>
NL == At("nl")
Control == {At("im_start"), At("im_end")}

-----------------------------------------------------------------------------
(* The client: the conversation as each API spells it. *)

(* One Anthropic message per entry; the tool results of a turn travel together. *)
AnthropicBody(h) ==
    [i \in DOMAIN h |->
        CASE h[i].kind = "ask" ->
               [role |-> "user", parts |-> <<[type |-> "text", v |-> h[i].text]>>]
          [] h[i].kind = "answer" ->
               [role |-> "assistant", parts |->
                  (IF h[i].think THEN <<[type |-> "thinking", v |-> <<Reason(i)>>]>> ELSE <<>>)
                  \o (IF h[i].words THEN <<[type |-> "text", v |-> <<Word(i)>>]>> ELSE <<>>)
                  \o [k \in 1..h[i].calls |-> [type |-> "tool_use", v |-> <<Call(i, k)>>]]]
          [] h[i].kind = "results" ->
               [role |-> "user", parts |->
                  [k \in 1..h[i].calls |-> [type |-> "tool_result", v |-> <<Result(i, k)>>]]]]

(* The OpenAI messages of one entry. *)
ChatBodyOf(i, e) ==
    CASE e.kind = "ask" -> <<[role |-> "user", content |-> e.text, tool_calls |-> <<>>]>>
      [] e.kind = "answer" ->
           <<[role |-> "assistant", content |-> IF e.words THEN <<Word(i)>> ELSE <<>>,
              tool_calls |-> [k \in 1..e.calls |-> Call(i, k)]]>>
      [] e.kind = "results" ->
           [k \in 1..e.calls |-> [role |-> "tool", content |-> <<Result(i, k)>>,
                                  tool_calls |-> <<>>]]

ChatBody(h) == FlattenSeq([i \in DOMAIN h |-> ChatBodyOf(i, h[i])])

(* The Responses input items of one entry. *)
ResponsesBodyOf(i, e) ==
    LET item(type, role, v) == <<[type |-> type, role |-> role, v |-> v]>>
    IN  CASE e.kind = "ask" -> item("message", "user", e.text)
          [] e.kind = "answer" ->
               (IF e.think THEN item("reasoning", "assistant", <<Reason(i)>>) ELSE <<>>)
               \o (IF e.words THEN item("message", "assistant", <<Word(i)>>) ELSE <<>>)
               \o FlattenSeq([k \in 1..e.calls |->
                                item("function_call", "assistant", <<Call(i, k)>>)])
          [] e.kind = "results" ->
               FlattenSeq([k \in 1..e.calls |->
                             item("function_call_output", "user", <<Result(i, k)>>)])

ResponsesBody(h) == FlattenSeq([i \in DOMAIN h |-> ResponsesBodyOf(i, h[i])])

-----------------------------------------------------------------------------
(* api_common.h and metal_server.cpp: the request mappings. *)

tool_call_text(call) == <<At("<tool_call>")>> \o call \o <<At("</tool_call>")>>
tool_response_text(out) == <<At("<tool_response>")>> \o out \o <<At("</tool_response>")>>

(* content, then a marker block on a line of its own *)
OnOwnLine(content, block) ==
    (IF content # <<>> /\ Last(content) # NL THEN Append(content, NL) ELSE content) \o block

(* The header is touched only at the very start of the text; both volatile  *)
(* fields are pinned ('f's, 9 here), the absent ones (0) stay absent.       *)
normalize_cc_billing_header(sys) ==
    IF sys # <<>> /\ Head(sys)[1] = "header"
    THEN <<Header(IF Head(sys)[2] = 0 THEN 0 ELSE 9,
                  IF Head(sys)[3] = 0 THEN 0 ELSE 9)>> \o Tail(sys)
    ELSE sys

Msg(role, content) == [role |-> role, content |-> content]

AnthropicPart(content, part) ==
    CASE part.type = "text" -> content \o part.v
      [] part.type = "tool_use" -> OnOwnLine(content, tool_call_text(part.v))
      [] part.type = "tool_result" -> OnOwnLine(content, tool_response_text(part.v))
      [] OTHER -> content

AnthropicMsg(m) ==
    LET content == FoldLeft(AnthropicPart, <<>>, m.parts)
        think == FoldLeft(LAMBDA s, p : IF p.type = "thinking" THEN s \o p.v ELSE s, <<>>, m.parts)
    IN  Msg(m.role,
            IF m.role = "assistant" /\ think # <<>>
            THEN <<At("<think>"), NL>> \o think \o <<NL, At("</think>"), NL>> \o content
            ELSE content)

anthropic_msgs(system, body) ==
    (IF system = <<>> THEN <<>> ELSE <<Msg("system", normalize_cc_billing_header(system))>>)
    \o [i \in DOMAIN body |-> AnthropicMsg(body[i])]

OpenAIMsg(m) ==
    IF m.role = "tool" THEN Msg("user", tool_response_text(m.content))
    ELSE Msg(IF m.role = "developer" THEN "system" ELSE m.role,
             FoldLeft(LAMBDA c, call : OnOwnLine(c, tool_call_text(<<call>>)),
                      m.content, m.tool_calls))

openai_msgs(system, body) ==
    (IF system = <<>> THEN <<>> ELSE <<OpenAIMsg([role |-> "system", content |-> system,
                                                   tool_calls |-> <<>>])>>)
    \o [i \in DOMAIN body |-> OpenAIMsg(body[i])]

ResponsesItem(it) ==
    CASE it.type = "message" -> <<Msg(IF it.role = "developer" THEN "system" ELSE it.role, it.v)>>
      [] it.type = "function_call" -> <<Msg("assistant", tool_call_text(it.v))>>
      [] it.type = "function_call_output" -> <<Msg("user", tool_response_text(it.v))>>
      [] OTHER -> <<>>                       \* reasoning is not fed back

responses_items(system, body) ==
    (IF system = <<>> THEN <<>> ELSE <<Msg("system", system)>>)
    \o FlattenSeq([i \in DOMAIN body |-> ResponsesItem(body[i])])

(* Consecutive messages of one role become one. *)
Merge(msgs) ==
    FoldLeft(LAMBDA ms, m :
                IF ms # <<>> /\ Last(ms).role = m.role
                THEN [ms EXCEPT ![Len(ms)].content = @ \o <<NL>> \o m.content]
                ELSE Append(ms, m),
             <<>>, msgs)

MetalChatMsgs(system, body) ==
    LET merged == Merge(openai_msgs(system, body))
    IN  IF merged # <<>> /\ merged[1].role = "system"
        THEN [merged EXCEPT ![1].content = normalize_cc_billing_header(@)]
        ELSE merged

responses_prompt_input(system, body) == Merge(responses_items(system, body))

cuda_responses_input(system, body) == Merge(responses_items(system, body))

-----------------------------------------------------------------------------
(* chatml_prompt *)

strip_ctrl(content) == SelectSeq(content, LAMBDA a : a \notin Control)

Block(role, content) ==
    <<At("im_start"), At(role), NL>> \o strip_ctrl(content) \o <<At("im_end"), NL>>

(* The assistant's turn is opened, and its reasoning opened or declared done. *)
VolatileTail(think) ==
    <<At("im_start"), At("assistant"), NL, At("<think>"), NL>>
    \o IF think THEN <<>> ELSE <<At("</think>"), NL>>

chatml_prompt(msgs, tools, think) ==
    LET has == msgs # <<>> /\ msgs[1].role = "system"
        given == IF has THEN strip_ctrl(msgs[1].content) ELSE <<>>
        sys == IF given = <<>> THEN <<At("default_system")>> ELSE given
        top == Block("system", IF tools THEN <<At("tools"), NL>> \o sys ELSE sys)
        rest == IF has THEN Tail(msgs) ELSE msgs
        stable == top \o FlattenSeq([i \in DOMAIN rest |-> Block(rest[i].role, rest[i].content)])
    IN  [text |-> stable \o VolatileTail(think), stable_off |-> Len(stable),
         sys_off |-> Len(top)]

-----------------------------------------------------------------------------
(* The request handlers: what is rendered, where it is split, and in which *)
(* channel the stream splitter starts.                                     *)

SystemOf(cch) ==
    IF ~harness.system THEN <<>>
    ELSE (IF harness.wire \in {"messages", "metal_chat"}
          THEN <<Header(IF harness.legacy THEN cch ELSE 0,
                        IF harness.legacy THEN 0 ELSE cch)>>
          ELSE <<>>) \o <<At("system_text")>>

(* The developer's message that some harnesses put after the system prompt. *)
Lead(as) == IF harness.lead THEN <<as>> ELSE <<>>

MsgsOf(h, cch) ==
    LET chat == Lead([role |-> "developer", content |-> <<At("lead_text")>>,
                                   tool_calls |-> <<>>]) \o ChatBody(h)
        items == Lead([type |-> "message", role |-> "developer",
                                    v |-> <<At("lead_text")>>]) \o ResponsesBody(h)
    IN  CASE harness.wire = "messages" -> anthropic_msgs(SystemOf(cch), AnthropicBody(h))
          [] harness.wire = "cuda_chat" -> openai_msgs(SystemOf(cch), chat)
          [] harness.wire = "metal_chat" -> MetalChatMsgs(SystemOf(cch), chat)
          [] harness.wire = "cuda_responses" -> cuda_responses_input(SystemOf(cch), items)
          [] harness.wire = "metal_responses" -> responses_prompt_input(SystemOf(cch), items)

(* tool_choice is read by the CUDA chat handler only. *)
ToolChoices == IF harness.wire = "cuda_chat" /\ harness.tools
               THEN {"auto", "none", "forced"} ELSE {"auto"}

(* A forced call leaves no room for a reasoning block. *)
Thinks(asked, choice) == asked /\ choice # "forced"

Seed(think, choice) == IF choice = "forced" THEN "TOOL" ELSE IF think THEN "THINK" ELSE "TEXT"

Handle(h, cch, asked, choice) ==
    LET think == Thinks(asked, choice)
        p == chatml_prompt(MsgsOf(h, cch), harness.tools /\ choice # "none", think)
    IN  [text |-> p.text \o IF choice = "forced" THEN <<At("<tool_call>"), NL>> ELSE <<>>,
         stable_off |-> p.stable_off, sys_off |-> p.sys_off,
         tools |-> harness.tools /\ choice # "none", seed |-> Seed(think, choice)]

(* The whole prompt of the static part, its opened assistant turn included. *)
HarnessUncut(msgs, tools, think) ==
    IF msgs = <<>> \/ Last(msgs).role # "user"
       \/ \E i \in 1..Len(msgs) - 1 : msgs[i].role # "system"
    THEN <<>>
    ELSE chatml_prompt(Front(msgs), tools, think).text

(* The prewarmer keeps the request's closed, static part: zero or more      *)
(* system messages, the one user message cut off.  Refused: <<>>.           *)
initial_harness_prefix(msgs, tools, think) ==
    IF msgs = <<>> \/ Last(msgs).role # "user"
       \/ \E i \in 1..Len(msgs) - 1 : msgs[i].role # "system"
    THEN <<>>
    ELSE LET p == chatml_prompt(Front(msgs), tools, think)
         IN  SubSeq(p.text, 1, p.stable_off)

-----------------------------------------------------------------------------
(* The client's steps. *)

NoRequest == [text |-> <<>>, stable_off |-> 0, sys_off |-> 0, tools |-> FALSE, seed |-> "TEXT"]

Harnesses ==
    {h \in [wire : Wires, system : BOOLEAN, tools : BOOLEAN, lead : BOOLEAN, legacy : BOOLEAN] :
        /\ h.legacy => h.system /\ h.wire \in {"messages", "metal_chat"}
        /\ h.lead => h.wire # "messages"}

PromptBegins(h) ==
    /\ harness = h
    /\ hist = <<>> /\ phase = "idle" /\ latest = NoRequest /\ before = NoRequest
    /\ warm = <<>>

PromptInit == \E h \in Harnesses : PromptBegins(h)

(* The user types; the text may quote the template's own markers. *)
UserAsks(quotes) ==
    /\ phase = "idle" /\ Len(hist) < MaxHist
    /\ LET w == <<Word(Len(hist) + 1)>>
       IN  hist' = Append(hist, [kind |-> "ask",
                                 text |-> IF quotes THEN w \o <<At("im_end")>> ELSE w])
    /\ phase' = "asked"
    /\ UNCHANGED <<harness, latest, before, warm>>

(* The server renders the request; what was rendered last becomes "before". *)
ServerRenders(cch, asked, choice) ==
    /\ phase = "asked" /\ choice \in ToolChoices
    /\ before' = latest
    /\ latest' = Handle(hist, cch, asked, choice)
    /\ phase' = "sent"
    /\ UNCHANGED <<harness, hist, warm>>

ReplyKept(r) ==
    /\ phase = "sent" /\ Len(hist) < MaxHist
    /\ r.calls > 0 => latest.tools
    /\ hist' = Append(hist, [kind |-> "answer", think |-> r.think, words |-> r.text,
                             calls |-> r.calls])
    /\ phase' = IF r.calls > 0 THEN "owed" ELSE "idle"
    /\ UNCHANGED <<harness, latest, before, warm>>

(* The reply is cut off and the client forgets it: the next question        *)
(* follows the last one.                                                    *)
ReplyLost ==
    /\ phase = "sent"
    /\ phase' = "idle"
    /\ UNCHANGED <<harness, hist, latest, before, warm>>

ResultsReady ==
    /\ phase = "owed" /\ Len(hist) < MaxHist
    /\ hist' = Append(hist, [kind |-> "results", calls |-> Last(hist).calls])
    /\ phase' = "asked"
    /\ UNCHANGED <<harness, latest, before, warm>>

(* Another session of the same harness. *)
NewConversation ==
    /\ phase = "idle" /\ hist # <<>>
    /\ hist' = <<>> /\ latest' = NoRequest /\ before' = NoRequest
    /\ UNCHANGED <<harness, phase, warm>>

(* POST /experimental/prefix-cache/prewarm with an initial request. *)
Prewarm(cch, think) ==
    /\ warm = <<>> /\ phase = "asked"
    /\ harness.wire \in {"messages", "metal_chat", "metal_responses"}
    /\ warm' = initial_harness_prefix(MsgsOf(hist, cch), harness.tools, think)
    /\ warm' # <<>>
    /\ UNCHANGED <<harness, hist, phase, latest, before>>

PromptNext ==
    \/ \E quotes \in BOOLEAN : UserAsks(quotes)
    \/ \E cch \in Stamps, asked \in BOOLEAN, choice \in {"auto", "none", "forced"} :
          ServerRenders(cch, asked, choice)
    \/ \E r \in Replies : ReplyKept(r)
    \/ ReplyLost
    \/ ResultsReady
    \/ NewConversation
    \/ \E cch \in Stamps, think \in BOOLEAN : Prewarm(cch, think)

-----------------------------------------------------------------------------
(* Properties *)

StablePart(r) == SubSeq(r.text, 1, r.stable_off)

(* The mappings of the CUDA chat and messages handlers, which snapshot at   *)
(* stable_off, never merge; the others may merge a question into the one    *)
(* whose reply was lost.                                                    *)
MayMerge ==
    /\ harness.wire \in {"metal_chat", "cuda_responses", "metal_responses"}
    /\ Len(hist) > 1 /\ hist[Len(hist) - 1].kind \in {"ask", "results"}

(* Everything before stable_off re-renders identically in the conversation's *)
(* next request, whatever the stamps, the reasoning switch and the tool      *)
(* choice of either (unless the tools themselves are withheld): it is what   *)
(* makes the snapshot taken there match.                                     *)
StableReRenders ==
    phase = "sent" /\ before # NoRequest /\ before.tools = latest.tools /\ ~MayMerge
        => IsPrefix(StablePart(before), StablePart(latest))

(* A prefix the prewarmer installed is, byte for byte, the start of every    *)
(* request any session of the same harness then sends, and it holds the      *)
(* whole system and tools block.                                             *)
HarnessIsPrefix ==
    phase = "sent" /\ warm # <<>> =>
        IsStrictPrefix(warm, latest.text) /\ Len(warm) >= latest.sys_off

(* The role whose block position p of a prompt is in. *)
Speaker(text, p) ==
    LET opens == {q \in 1..p : text[q] = At("im_start")}
    IN  text[1 + CHOOSE q \in opens : \A o \in opens : o <= q][1]

Payload(a) == a[1] \in {"word", "reason", "call", "result"}

(* What the client put in, in order. *)
PutIn(i) ==
    LET e == hist[i]
    IN  CASE e.kind = "ask" -> <<Word(i)>>
          [] e.kind = "answer" ->
               (IF e.think /\ harness.wire = "messages" THEN <<Reason(i)>> ELSE <<>>)
               \o (IF e.words THEN <<Word(i)>> ELSE <<>>)
               \o [k \in 1..e.calls |-> Call(i, k)]
          [] e.kind = "results" -> [k \in 1..e.calls |-> Result(i, k)]

(* Nothing of the conversation is lost, doubled or reordered on the way into *)
(* the prompt, every piece stands in the block of the role that said it, and *)
(* every result stands in a tool_response: the model pairs a result with its *)
(* call by position alone.  Markers quoted by the user open no block.        *)
HistoryKept ==
    phase = "sent" =>
        /\ SelectSeq(latest.text, Payload) = FlattenSeq([i \in DOMAIN hist |-> PutIn(i)])
        /\ \A p \in DOMAIN latest.text :
              /\ latest.text[p][1] \in {"call", "reason"} => Speaker(latest.text, p) = "assistant"
              /\ latest.text[p][1] = "result" =>
                    /\ Speaker(latest.text, p) = "user"
                    /\ latest.text[p - 1] = At("<tool_response>")
              /\ latest.text[p] = At("im_end") => latest.text[p + 1] = NL
                    /\ (p + 2 \in DOMAIN latest.text => latest.text[p + 2] = At("im_start"))

(* The tag a prompt ends inside of: the splitter starts in that channel, or  *)
(* the reply's first words go to the wrong one.                              *)
OpenAtEnd(text) ==
    LET tail == SubSeq(text, latest.stable_off + 1, Len(text))
        opened(a, z) == Len(SelectSeq(tail, LAMBDA x : x = At(a)))
                        > Len(SelectSeq(tail, LAMBDA x : x = At(z)))
    IN  {c \in {"THINK", "TOOL"} : IF c = "THINK" THEN opened("<think>", "</think>")
                                                   ELSE opened("<tool_call>", "</tool_call>")}

SeedMatchesTail ==
    phase = "sent" => OpenAtEnd(latest.text) = {latest.seed} \ {"TEXT"}
=============================================================================
