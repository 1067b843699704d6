------------------------------- MODULE MCParts -------------------------------
(***************************************************************************)
(* Eight components that share no state, side by side for TLC: one of       *)
(* them, chosen at the start, takes all the steps.                         *)
(***************************************************************************)
EXTENDS SnapshotStore, AgentEngine, AgentSession, AgentTools, StreamText, GpuGate,
        Tokenizer, Loader

VARIABLE part

(* Tokens that cut the markers, the stop sequences and a character in      *)
(* every place, and in two places at once.                                 *)
Pieces ==
  {<<"<">>, <<"t">>, <<"<", "/">>, <<"/", "c">>, <<"c", "x">>, <<"x", "<">>,
   <<"L", "C">>, <<"C", "/">>}
TwoStops == {<<"x", "/">>, <<"x", "x">>}

(* A vocabulary with words that merge, a merge whose result is no token,   *)
(* control tokens of which one is spelled in plain bytes, and the two      *)
(* think marks, which are plain.                                           *)
Plain(s) == [s |-> s, control |-> FALSE]
Control(s) == [s |-> s, control |-> TRUE]
SmallVocab ==
  <<Plain(<<"l">>), Plain(<<"s">>), Plain(<<"a">>), Plain(<<"1">>), Plain(<<" ">>),
    Plain(<<"n">>), Plain(<<"'">>), Plain(<<"<">>), Control(<<"S">>), Control(<<"E">>),
    Plain(<<"l", "l">>), Plain(<<" ", "a">>), Plain(<<"<", "l", "l">>), Control(<<"<", "a">>),
    Plain(<<"n", "n">>), Plain(<<"<", "l">>), Plain(<<"<", "s">>)>>
SmallMerges ==
  << <<<<"l">>, <<"l">>>>, <<<<" ">>, <<"a">>>>, <<<<"l">>, <<"a">>>>, <<<<"n">>, <<"n">>>>,
     <<<<" ", "a">>, <<"l">>>> >>
TwoMarks == << <<"<", "l">>, <<"<", "s">> >>

PartsInit ==
  /\ part \in {"store", "engine", "session", "tools", "text", "gate", "tokens", "loader"}
  /\ StoreInit /\ EngineInit /\ SessionInit /\ ToolsInit /\ TextInit /\ GateInit /\ TokInit
  /\ IF part = "loader" THEN LoadInit ELSE LoadBegins(CHOOSE f \in Files : TRUE)

Only(p, rest) == part = p /\ UNCHANGED <<part, rest>>

Runners == <<storeVars, engineVars, sessionVars, toolsVars, textVars, gateVars>>
Readers == <<tokVars, loadVars>>

PartsNext ==
  \/ /\ UNCHANGED Readers
     /\ \/ Only("store", <<engineVars, sessionVars, toolsVars, textVars, gateVars>>) /\ StoreNext
        \/ Only("engine", <<storeVars, sessionVars, toolsVars, textVars, gateVars>>) /\ EngineNext
        \/ Only("session", <<storeVars, engineVars, toolsVars, textVars, gateVars>>) /\ SessionNext
        \/ Only("tools", <<storeVars, engineVars, sessionVars, textVars, gateVars>>) /\ ToolsNext
        \/ Only("text", <<storeVars, engineVars, sessionVars, toolsVars, gateVars>>) /\ TextNext
        \/ Only("gate", <<storeVars, engineVars, sessionVars, toolsVars, textVars>>) /\ GateNext
  \/ /\ UNCHANGED Runners
     /\ \/ Only("tokens", loadVars) /\ TokNext
        \/ Only("loader", tokVars) /\ LoadNext

partsVars == <<part, Runners, Readers>>

PartsSpec == PartsInit /\ [][PartsNext]_partsVars

(* Slots, agents, tool callers and the engine's tokens are the same two    *)
(* names, so that one permutation exchanges them in whichever part moves.  *)
PartsSymmetry == Permutations(Slot)

(* The state of the component that moves; the others are as they began. *)
Moving ==
  <<part,
    CASE part = "store"   -> Live
      [] part = "engine"  -> engineVars
      [] part = "session" -> sessionVars
      [] part = "tools"   -> toolsVars
      [] part = "text"    -> textVars
      [] part = "tokens"  -> tokVars
      [] part = "loader"  -> loadVars
      [] part = "gate"    ->
           <<gnext - gserving, nwait, gstate,
             [t \in Thread |-> IF Queued(t) THEN gticket[t] - gserving ELSE 0]>> >>

-----------------------------------------------------------------------------
(* Properties that join what several components state on their own; the    *)
(* others are in the components' modules.                                  *)

(* Text survives its tokens.  Where a token cuts a marker, a stop sequence *)
(* or a character does not show in what a client gets (stream_split.h,     *)
(* stream_format.h); a text encodes to tokens that decode to it, and the   *)
(* tokens of closed messages begin those of every longer conversation      *)
(* (tokenizer.cpp); and the model file that the vocabulary is read from    *)
(* has its blobs whole, inside the file and apart, whatever numbers its    *)
(* table holds (loader.cpp).                                               *)
TextKept == CutsDoNotMatter /\ TokensRight /\ LoadedSound

(* What is durable only advances: no save puts stale logits over exact     *)
(* ones, and a session's manifest is replaced only by one that continues   *)
(* it (metal_server.cpp, q27_agent_persistence.c).                         *)
OnlyAdvances == [][KeepsExact /\ ContinuesWhatItReplaces]_<<storeVars, sessionVars>>
==============================================================================
