------------------------------ MODULE HttpApi ------------------------------
(***************************************************************************)
(* The Metal server's HTTP layer: what a request is answered with, and what *)
(* the --trace log says of it (metal_server.cpp).                           *)
(*                                                                         *)
(* Every endpoint is a handler inside a wrapper.  The wrapper counts the    *)
(* request in, logs its arrival and turns what the handler throws into an   *)
(* answer; the handler validates the body, refuses a prompt the context     *)
(* cannot hold, logs the request under an id of its own and calls the       *)
(* runtime.  A streamed answer has committed its status 200 before the      *)
(* runtime is called, so whatever goes wrong then travels inside it.        *)
(* Admission, the queue and the engine are MetalServer's subject: here they *)
(* are the ways a call of the runtime can end.                              *)
(***************************************************************************)
EXTENDS Naturals, Sequences, FiniteSets

CONSTANTS
    HttpReqs,     \* the requests
    Context,      \* Runtime::context, in tokens
    Lookahead,    \* the wider of mtp_width and suffix_width
    Prompts,      \* prompt sizes, in tokens
    Budgets,      \* the values of max_tokens that clients send
    BudgetDefault \* what a request that names none gets

ASSUME HttpAssumption ==
    /\ Context \in Nat \ {0} /\ Lookahead \in Nat
    /\ Prompts \subseteq Nat \ {0}
    /\ Budgets \subseteq Nat /\ BudgetDefault \in Nat \ {0}

VARIABLES
    call,       \* what each client sent, and how far its request is
    answer,     \* what each client got
    log,        \* the trace, an append-only file
    counter     \* req_counter

httpVars == <<call, answer, log, counter>>

Apis == {"completions", "chat", "messages", "count_tokens", "responses", "prewarm"}

(* not JSON; a field of the wrong type or range; no prompt in it; a prompt *)
(* whose text the trace keeps whole, or cuts at 64 KB between characters;  *)
(* a long one that it cuts inside a character                              *)
Bodies == {"not_json", "invalid", "empty", "short", "long"}

(* "given" tells max_tokens: n from one that is absent or null *)
HttpRequest == [api : Apis, stream : BOOLEAN, body : Bodies, prompt : Prompts,
                given : BOOLEAN, n : Budgets]

Nothing == [status |-> 0, wire |-> "none"]

(* TraceLog::event: an event whose text is not UTF-8 is not written. *)
Event(kind, id, status) == [kind |-> kind, id |-> id, status |-> status]

Arrival(q) == <<"arrival", call[q].arrival>>
Own(q) == <<call[q].req.api, call[q].own>>

(* trace_text keeps the first 65536 bytes, whatever they end in; dump() then *)
(* throws at the half character and the event is not written.                *)
Traceable(q) == call[q].req.body # "long"

Respond(q, status, wire) == answer' = [answer EXCEPT ![q] = [status |-> status, wire |-> wire]]

(* Two endpoints never stream, and one traces no prompt; what a body without *)
(* a prompt asks for is moot.                                                *)
Sensible(x) ==
    /\ x.api \in {"count_tokens", "prewarm"} => ~x.stream
    /\ x.api = "prewarm" => x.body # "long"
    /\ x.body \notin {"short", "long"} =>
          x.given /\ x.prompt = CHOOSE p \in Prompts : TRUE

(* A request before its handler runs. *)
NewCalls == {[req |-> r, pc |-> "new", arrival |-> 0, own |-> 0, n |-> 0, end |-> "none"] :
               r \in {x \in HttpRequest : Sensible(x)}}

HttpBegins(calls) ==
    /\ call = calls
    /\ answer = [q \in HttpReqs |-> Nothing]
    /\ log = <<>>
    /\ counter = 1

HttpInit == \E calls \in [HttpReqs -> NewCalls] : HttpBegins(calls)

-----------------------------------------------------------------------------
(* The wrappers: guarded and anthropic_guarded. *)

(* An error comes in the envelope that the API's own clients read. *)
Envelope(q) == IF call[q].req.api \in {"messages", "count_tokens"} THEN "anthropic" ELSE "openai"

(* RequestScope, the arrival event, and the refusal of a draining server. *)
Arrive(q, admitted) ==
    /\ call[q].pc = "new"
    /\ counter' = counter + 1
    /\ call' = [call EXCEPT ![q].arrival = counter,
                            ![q].pc = IF admitted THEN "handler" ELSE "done",
                            ![q].end = IF admitted THEN "none" ELSE "draining"]
    /\ LET id == <<"arrival", counter>>
           seen == Append(log, Event("arrival", id, 0))
       IN  IF admitted THEN log' = seen /\ UNCHANGED answer
           ELSE log' = Append(seen, Event("error", id, 503)) /\ Respond(q, 503, Envelope(q))

guarded(q, admitted) ==
    call[q].req.api \in {"completions", "chat", "responses"} /\ Arrive(q, admitted)

anthropic_guarded(q, admitted) ==
    call[q].req.api \in {"messages", "count_tokens"} /\ Arrive(q, admitted)

(* What a handler throws before it calls the runtime is the client's fault. *)
Invalid(q) == call[q].req.body \in {"not_json", "invalid", "empty"}

Refuse(q) ==
    /\ call[q].pc = "handler" /\ Invalid(q)
    /\ ~(call[q].req.api = "count_tokens" /\ call[q].req.body = "empty")
    /\ log' = log \o <<Event("request", Arrival(q), 0), Event("error", Arrival(q), 400)>>
    /\ Respond(q, 400, Envelope(q))
    /\ call' = [call EXCEPT ![q].pc = "done", ![q].end = "invalid"]
    /\ UNCHANGED counter

-----------------------------------------------------------------------------
(* The handlers, up to the call of the runtime. *)

max_prompt_tokens == IF Context > 1 + Lookahead THEN Context - (1 + Lookahead) ELSE 1

prompt_overflow(tokens) == tokens > max_prompt_tokens

max_tokens(r) == IF r.given THEN r.n ELSE BudgetDefault

ClampsLate(tokens, n) == IF n > Context THEN Context - tokens ELSE n

BudgetAfter(tokens, n) == IF tokens + n > Context THEN Context - tokens ELSE n

(* count_tokens answers by itself: it only renders and encodes. *)
CountTokens(q) ==
    /\ call[q].pc = "handler" /\ call[q].req.api = "count_tokens"
    /\ call[q].req.body \in {"empty", "short", "long"}
    /\ counter' = counter + 1
    /\ LET id == <<"count_tokens", counter>>
       IN  IF call[q].req.body = "empty"
           THEN /\ log' = log \o <<Event("request", id, 0), Event("error", id, 400)>>
                /\ Respond(q, 400, Envelope(q))
                /\ call' = [call EXCEPT ![q].pc = "done", ![q].own = counter, ![q].end = "invalid"]
           ELSE /\ log' = log \o (IF Traceable(q) THEN <<Event("request", id, 0)>> ELSE <<>>)
                              \o <<Event("outcome", id, 200)>>
                /\ Respond(q, 200, "json")
                /\ call' = [call EXCEPT ![q].pc = "done", ![q].own = counter, ![q].end = "ok"]

(* The request takes its id; an oversized prompt is refused in the API's own *)
(* words, before a slot is claimed and before the stream commits its status. *)
Preflight(q) ==
    /\ call[q].pc = "handler" /\ ~Invalid(q)
    /\ counter' = counter + 1
    /\ LET r == call[q].req
           id == <<r.api, counter>>
       IN  IF prompt_overflow(r.prompt)
           THEN /\ log' = log \o <<Event("request", id, 0), Event("error", id, 400)>>
                /\ Respond(q, 400, Envelope(q))
                /\ call' = [call EXCEPT ![q].pc = "done", ![q].own = counter,
                                        ![q].end = "too_long"]
           ELSE /\ log' = IF Traceable(q) THEN Append(log, Event("request", id, 0)) ELSE log
                /\ IF r.stream THEN Respond(q, 200, "open") ELSE UNCHANGED answer
                /\ call' = [call EXCEPT ![q].pc = "run", ![q].own = counter,
                                        ![q].n = BudgetAfter(r.prompt, max_tokens(r))]

Completions(q) == call[q].req.api = "completions" /\ Preflight(q)
Chat(q) == call[q].req.api = "chat" /\ Preflight(q)
Messages(q) == call[q].req.api = "messages" /\ Preflight(q)
Responses(q) == call[q].req.api = "responses" /\ Preflight(q)

-----------------------------------------------------------------------------
(* Runtime::run, as its callers see it. *)

(* It ends a reply, finds the client gone (while queued or prefilling, by a  *)
(* throw; while generating, as an outcome), refuses a full queue, or fails.  *)
RunEnds == {"ok", "gone", "cancelled", "overloaded", "failed"}

RunLog(q, end) == IF end \in {"gone", "cancelled"} THEN <<Event("cancel", Own(q), 0)>> ELSE <<>>

(* engine_guard: what fails inside the runtime is the server's fault; the    *)
(* cancellation and the overload keep their classes.                         *)
engine_guard(end) == CASE end = "overloaded" -> 503 [] end = "failed" -> 500
                       [] end \in {"gone", "cancelled"} -> 499 [] OTHER -> 200

(* A buffered reply: traced_engine and the wrapper's catches. *)
BufferedEnds(q, end) ==
    LET status == engine_guard(end)
        own(kind) == <<Event(kind, Own(q), status)>>
    IN  /\ call[q].pc = "run" /\ ~call[q].req.stream /\ call[q].req.api # "prewarm"
        /\ log' = log \o RunLog(q, end)
                     \o (CASE status \in {500, 503} -> own("error")
                           [] status = 400 -> <<Event("error", Arrival(q), 400)>>
                           [] status = 200 -> own("outcome")
                           [] end = "cancelled" /\ call[q].req.api = "responses" -> own("outcome")
                           [] OTHER -> <<>>)
        /\ Respond(q, status, IF status = 200 THEN "json" ELSE Envelope(q))
        /\ call' = [call EXCEPT ![q].pc = "done", ![q].end = end]
        /\ UNCHANGED counter

(* A streamed reply: the provider's catches.  The Responses handler logs a   *)
(* cancelled outcome too.                                                    *)
StreamEnds(q, end) ==
    LET status == engine_guard(end)
        own(kind) == <<Event(kind, Own(q), status)>>
    IN  /\ call[q].pc = "run" /\ call[q].req.stream
        /\ log' = log \o RunLog(q, end)
                     \o (CASE end = "ok" -> own("outcome")
                           [] end \in {"overloaded", "failed"} -> own("error")
                           [] end = "cancelled" /\ call[q].req.api = "responses" -> own("outcome")
                           [] OTHER -> <<>>)
        /\ Respond(q, 200, CASE end = "ok" -> "finished"
                             [] end \in {"gone", "cancelled"} -> "severed"
                             [] end = "overloaded" -> "overloaded_error"
                             [] end = "failed" -> "api_error")
        /\ call' = [call EXCEPT ![q].pc = "done", ![q].end = end]
        /\ UNCHANGED counter

-----------------------------------------------------------------------------
(* POST /experimental/prefix-cache/prewarm: admin credential, drain, body,   *)
(* a run that prefills and decodes nothing, then whether the snapshot is     *)
(* still in the store.                                                       *)
PrewarmGuard(q, admin, admitted) ==
    LET r == call[q].req
        end == CASE ~admin -> "forbidden" [] ~admitted -> "draining"
                 [] Invalid(q) -> "invalid" [] r.prompt > max_prompt_tokens -> "too_long"
                 [] OTHER -> "none"
        status == CASE end = "forbidden" -> 403 [] end = "draining" -> 503 [] OTHER -> 400
    IN  /\ call[q].pc = "new" /\ r.api = "prewarm"
        /\ IF end = "none"
           THEN /\ counter' = counter + 1
                /\ call' = [call EXCEPT ![q].pc = "run", ![q].own = counter]
                /\ UNCHANGED answer
           ELSE /\ call' = [call EXCEPT ![q].pc = "done", ![q].end = end]
                /\ Respond(q, status, Envelope(q))
                /\ UNCHANGED counter
        /\ UNCHANGED log

(* It passes no liveness probe, so the client cannot be found gone. *)
PrewarmEnds(q, end, retained) ==
    LET status == IF end # "ok" THEN engine_guard(end) ELSE IF retained THEN 200 ELSE 507
    IN  /\ call[q].pc = "run" /\ call[q].req.api = "prewarm"
        /\ end \in {"ok", "overloaded", "failed"}
        /\ log' = Append(log, Event(IF end = "ok" THEN "prefix_prewarm" ELSE "error",
                                   Own(q), status))
        /\ Respond(q, status, IF status = 200 THEN "json" ELSE Envelope(q))
        /\ call' = [call EXCEPT ![q].pc = "done",
                                ![q].end = IF status = 507 THEN "evicted" ELSE end]
        /\ UNCHANGED counter

HttpNext ==
    \E q \in HttpReqs :
        \/ \E admitted \in BOOLEAN : guarded(q, admitted)
        \/ \E admitted \in BOOLEAN : anthropic_guarded(q, admitted)
        \/ Refuse(q)
        \/ CountTokens(q)
        \/ Completions(q)
        \/ Chat(q)
        \/ Messages(q)
        \/ Responses(q)
        \/ \E end \in RunEnds : BufferedEnds(q, end)
        \/ \E end \in RunEnds : StreamEnds(q, end)
        \/ \E admin, admitted \in BOOLEAN : PrewarmGuard(q, admin, admitted)
        \/ \E end \in RunEnds, retained \in BOOLEAN : PrewarmEnds(q, end, retained)

HttpSpec == HttpInit /\ [][HttpNext]_httpVars

-----------------------------------------------------------------------------
(* Properties *)

(* The class of every answer names who is to blame: 400 only for what the    *)
(* client sent (fatal to its agent, which will not try again), 500 only for  *)
(* an engine that failed, 503 only when the server was full or draining (to  *)
(* be tried again), 499 only for a client that left; a stream says the same  *)
(* in-band.  And the runtime is never asked for more than the context holds, *)
(* so its own "exceeds context" never comes back as an engine failure.       *)
BlameRight ==
    \A q \in HttpReqs :
        LET r == call[q].req
            a == answer[q]
        IN  /\ call[q].pc = "done" =>
                  CASE call[q].end \in {"invalid", "too_long"} -> a.status = 400
                    [] call[q].end \in {"overloaded", "draining"} ->
                          a.status = 503 \/ a.wire = "overloaded_error"
                    [] call[q].end = "failed" -> a.status = 500 \/ a.wire = "api_error"
                    [] call[q].end \in {"gone", "cancelled"} -> a.status = 499 \/ a.wire = "severed"
                    [] call[q].end = "ok" -> a.status = 200 /\ a.wire \in {"json", "finished"}
                    [] OTHER -> a.status \in {403, 507}
            /\ call[q].pc = "run" /\ r.api # "prewarm" =>
                  /\ r.prompt + call[q].n <= Context
                  /\ max_tokens(r) > 0 => call[q].n > 0

Ends(q) == {i \in DOMAIN log : log[i].id = Own(q) /\ log[i].kind \in {"outcome", "error", "cancel"}}

(* The trace accounts for every answer: the end of a request that was given  *)
(* an id of its own is logged once and in the class of the answer, and the   *)
(* request is logged before it (the trace gate refuses a cancel or a         *)
(* recovery whose request it cannot find), unless the cut of its prompt      *)
(* splits a character (RequestsTraced).                                      *)
TraceAccounts ==
    \A q \in HttpReqs :
        call[q].own # 0 /\ call[q].req.api # "prewarm" =>
            /\ Traceable(q) =>
                  /\ \E i \in DOMAIN log : log[i] = Event("request", Own(q), 0)
                  /\ \A i, j \in DOMAIN log :
                        log[i].kind = "request" /\ log[i].id = Own(q) /\ log[j].id = Own(q) =>
                            i <= j
            /\ call[q].pc = "done" =>
                  IF call[q].end \in {"gone", "cancelled"}
                  THEN \E i \in Ends(q) : log[i].kind = "cancel" /\ \A j \in Ends(q) : i <= j
                  ELSE \E i \in DOMAIN log :
                         /\ Ends(q) = {i}
                         /\ IF call[q].end = "ok" THEN log[i] = Event("outcome", Own(q), 200)
                            ELSE /\ log[i].kind = "error"
                                 /\ log[i].status = 400 <=> answer[q].status = 400

(* Every request with an id of its own is in the trace: "truncation is       *)
(* recorded, never silent" (metal_server.cpp:543-544).  The code breaks this *)
(* where the cut splits a character: event() swallows what dump() throws     *)
(* (535) and the request is missing.                                         *)
RequestsTraced ==
    \A q \in HttpReqs :
        call[q].own # 0 /\ call[q].req.api # "prewarm" =>
            \E i \in DOMAIN log : log[i] = Event("request", Own(q), 0)

(* What the Metal server says of a request is what happened to it, to the    *)
(* client in the class of the answer and to the operator in the trace        *)
(* (engine_guard and its callers in metal_server.cpp).                       *)
AnswersTrue == BlameRight /\ TraceAccounts
=============================================================================
