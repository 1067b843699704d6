------------------------------- MODULE MCEdges -------------------------------
(***************************************************************************)
(* What the system shows at its edges, side by side for TLC: the streams   *)
(* and the buffered answers of the two servers, their prompts and error    *)
(* answers, the grammar of constrained calls and the recovery of others,   *)
(* the two terminal clients of the agent, and the sizing of the Metal      *)
(* slots.  They share no state; one of them, chosen at the start, takes    *)
(* all the steps.                                                          *)
(***************************************************************************)
EXTENDS MessageStream, ChatStream, ResponsesStream, CudaStreams, TuiClient, AgentRepl,
        ToolGram, ToolRescue, PromptTemplate, HttpApi, SlotPlan

VARIABLE part

(* Two tool lists that share no name, and two names of which one begins    *)
(* the other; tokens of one byte, and some that end in the middle of what  *)
(* the grammar tells apart.                                                *)
Lists == {{<<"a", "b">>, <<"d", "a">>}, {<<"a">>, <<"a", "b">>}}
Sample == {"h", "{"}
Tokens ==
  {<<c>> : c \in Bytes} \union
  {<<Q, "a">>, <<Q, "d", "a">>, <<"a", "b", Q>>, <<Q, ",">>, <<"}", "}">>, <<"]", "}">>,
   <<"{", Q>>, <<Q, ":", Q>>}

(* Tools with a near-twin, and the shapes of unwrapped calls that the       *)
(* code's comments list; then those with a literal quote in a value.        *)
FourTools ==
  <<[name |-> "Read", props |-> {"path", "limit"}, req |-> {"path"}],
    [name |-> "Bash", props |-> {"cmd", "note"}, req |-> {"cmd"}],
    [name |-> "Monitor", props |-> {"cmd", "note", "every"}, req |-> {"cmd", "every"}],
    [name |-> "Edit", props |-> {"path", "old"}, req |-> {"path", "old"}]>>

Shapes ==
  {PieceOf("prose"), PieceOf("fence"), PieceOf("open"), PieceOf("close"),
   [CallOf("Read", {"path"}) EXCEPT !.form = "key"],
   [CallOf("Bash", {"cmd"}) EXCEPT !.form = "unquoted"],
   [CallOf("Bash", {"cmd"}) EXCEPT !.form = "inner"],
   [CallOf("Bash", {"cmd"}) EXCEPT !.form = "deep"],
   [CallOf("Bash", {"cmd"}) EXCEPT !.form = "deep", !.args = FALSE],
   [CallOf("Bash", {"cmd"}) EXCEPT !.kind = "cut"],
   [CallOf("Edit", {"old"}) EXCEPT !.args = FALSE],
   [CallOf("Read", {"path"}) EXCEPT !.kind = "bare", !.args = FALSE],
   [ObjectOf({"path"}) EXCEPT !.alias = "Edit", !.args = TRUE],
   [ObjectOf({"cmd"}) EXCEPT !.alias = "Edit"],
   ObjectOf({"cmd", "note"}),
   [ObjectOf({"cmd", "note"}) EXCEPT !.shell = TRUE]}

(* A plain answer, two calls at once, and a call with nothing said. *)
ThreeReplies ==
  {[think |-> TRUE, text |-> TRUE, calls |-> 0],
   [think |-> FALSE, text |-> TRUE, calls |-> 2],
   [think |-> TRUE, text |-> FALSE, calls |-> 1]}

(* The session that the interactive agent resumes. *)
OneExchange == <<"user", "answer">>

Some(S) == CHOOSE x \in S : TRUE

(* Bound: the keys pressed when the transcript of the interactive loop may   *)
(* still reach MaxTalk.                                                      *)
FewKeys == 4

(* The part that moves starts anywhere, the others somewhere; of the HTTP    *)
(* requests one at most has a prompt that the trace cuts inside a character, *)
(* and that one fits the context and gives its budget.                       *)
EdgesInit ==
  /\ part \in {"message", "chat", "resp", "cuda", "tui", "repl", "gram", "mask", "rescue",
               "prompt", "http", "plan"}
  /\ MessageInit /\ ChatInit /\ RespInit /\ CudaInit /\ TuiInit /\ ReplInit /\ GramInit
  /\ RescueInit
  /\ part # "cuda" => api = "plain"
  /\ part \notin {"gram", "mask"} => names = Some(ToolLists)
  /\ IF part = "prompt" THEN PromptInit ELSE PromptBegins(Some(Harnesses))
  /\ IF part = "http" THEN HttpInit ELSE HttpBegins([q \in HttpReqs |-> Some(NewCalls)])
  /\ \E q \in HttpReqs : Traceable(q)
  /\ \A q \in HttpReqs :
       Traceable(q) \/ (call[q].req.given /\ call[q].req.prompt <= max_prompt_tokens)
  /\ IF part = "plan" THEN PlanInit ELSE PlanBegins(Some(Hosts))

Streams == <<messageVars, chatVars, respVars, cudaVars>>
Terminals == <<tuiVars, replVars>>
Requests == <<promptVars, httpVars, planVars>>
Calls == <<gramVars, rescueVars>>

Only(p, rest) == part = p /\ UNCHANGED <<part, rest>>

EdgesNext ==
  \/ /\ UNCHANGED <<Terminals, Requests, Calls>>
     /\ \/ Only("message", <<chatVars, respVars, cudaVars>>) /\ MessageNext
        \/ Only("chat", <<messageVars, respVars, cudaVars>>) /\ ChatNext
        \/ Only("resp", <<messageVars, chatVars, cudaVars>>) /\ RespNext
        \/ Only("cuda", <<messageVars, chatVars, respVars>>) /\ CudaNext
  \/ /\ UNCHANGED <<Streams, Requests, Calls>>
     /\ \/ Only("tui", replVars) /\ TuiNext
        \/ Only("repl", tuiVars) /\ ReplNext /\ (acct'.keys <= FewKeys \/ Len(talk') < MaxTalk)
  \/ /\ UNCHANGED <<Streams, Terminals, Calls>>
     /\ \/ Only("prompt", <<httpVars, planVars>>) /\ PromptNext
        \/ Only("http", <<promptVars, planVars>>) /\ HttpNext
        \/ Only("plan", <<promptVars, httpVars>>) /\ PlanNext
  \/ /\ UNCHANGED <<Streams, Terminals, Requests>>
     /\ \/ Only("gram", rescueVars) /\ GramNext
        \/ Only("mask", rescueVars) /\ MaskNext
        \/ Only("rescue", gramVars) /\ RescueNext

edgesVars == <<part, Streams, Terminals, Requests, Calls>>

EdgesSpec == EdgesInit /\ [][EdgesNext]_edgesVars

EdgesSymmetry == Permutations(HttpReqs)

(* The state of the component that moves; the others are as they began. *)
Moving ==
  <<part,
    CASE part = "message" -> messageVars
      [] part = "chat"    -> chatVars
      [] part = "resp"    -> respVars
      [] part = "cuda"    -> cudaVars
      [] part = "tui"     -> tuiVars
      [] part = "repl"    -> replVars
      [] part \in {"gram", "mask"} -> gramVars
      [] part = "rescue"  -> rescueVars
      [] part = "prompt"  -> promptVars
      [] part = "http"    -> httpVars
      [] part = "plan"    -> planVars>>

-----------------------------------------------------------------------------
(* Properties.  Each joins what components of one kind state on their own, *)
(* about the component that moves.                                         *)

(* A client can put every streamed answer together, whatever text,         *)
(* reasoning, calls, recovered calls, cuts and failures follow each other: *)
(* /v1/messages, /v1/chat/completions and /v1/responses of both servers,   *)
(* and the CUDA server's /v1/completions.  Its /v1/responses are excepted  *)
(* as CudaWireOk says: reasoning in the middle of a message shares the     *)
(* message's index (server.cu:2500).  On that server a prompt that was     *)
(* accepted is also never left without a token to answer with.             *)
WiresOk ==
  /\ part = "message" => WireWellFormed
  /\ part = "chat" => ChatAssembles
  /\ part = "resp" => ItemsPaired
  /\ part = "cuda" => CudaWireOk /\ BudgetKept

(* The handlers that stream and the ones that answer at once, two copies   *)
(* of the same translation, give the same answer.                          *)
TwinsAgree ==
  /\ part = "chat" => ChatTwinsAgree
  /\ part = "resp" => RespTwinsAgree
  /\ part = "cuda" => CudaTwinsAgree

(* A conversation keeps its place in the prompt: what was cached of it is  *)
(* rendered again as it was, a prewarmed harness begins every request of   *)
(* its sessions, nothing said is lost or given to another role, and the    *)
(* splitter starts in the channel the prompt has left open                 *)
(* (chatml_prompt and the request mappings of both servers).               *)
PromptsHold ==
  part = "prompt" =>
    /\ StableReRenders /\ HarnessIsPrefix
    /\ HistoryKept /\ SeedMatchesTail

(* A call comes out right.  A constrained one: a body the masks let        *)
(* through is a call of a registered tool, no reachable state is without a *)
(* way to the closer, and a mask from the cache is the one the state would *)
(* compute (toolgram.h, step and signature).  One without its wrapper: it  *)
(* is recovered once, in its place, with its name and arguments, where     *)
(* RescuedInPlace does not except it, and the tool that arguments without  *)
(* a name are given to does not depend on the order of the tools           *)
(* (parse_bare_tool_calls).                                                *)
CallsRight ==
  /\ part = "gram" => GramSound /\ CallClosable
  /\ part = "mask" => CallClosable /\ MaskExact
  /\ part = "rescue" => RescuedInPlace /\ InferenceUnordered

(* The slots fit: what the sizing solved is admitted, inside the budget,   *)
(* and the mapping's reservation is what the live engines hold (Runtime's  *)
(* constructor, MetalEngine's constructor and destructor).                 *)
SlotsFit == part = "plan" => AutoFits /\ ReservationExact
=============================================================================
