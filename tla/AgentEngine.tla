----------------------------- MODULE AgentEngine -----------------------------
(***************************************************************************)
(* The engine behind the ds4-agent worker (q27_agent_engine.cpp and        *)
(* q27_agent_session.h): it keeps one MetalEngine and a ledger of the      *)
(* tokens encoded in it, so that the next prompt ingests only what the     *)
(* ledger does not already hold, and publishes both as a snapshot.         *)
(*                                                                         *)
(* The MetalEngine is the sequence of tokens whose rows lie below its      *)
(* position, the arg max of its resident logits, and whether a failed call *)
(* has left its recurrent state behind a position it does not belong to.   *)
(* What the model predicts is any token.  Each call of the MetalEngine is  *)
(* a step; between two calls the turn may be cancelled (alive) and each    *)
(* call may fail.  Rendering is left out: a prompt is any sequence of      *)
(* tokens, since decoded bytes may tokenize differently the next time.     *)
(***************************************************************************)
EXTENDS Integers, SequencesExt

CONSTANTS
  Word,        \* the tokens other than the end of the stream
  Eos,
  Contexts,    \* the values of engine->context, one for each run of the agent
  MaxOut,      \* bound: max_tokens of a call
  ChunkMax,    \* prefill_chunk_max
  Width,       \* mtp_width, 0 for serial decoding
  MaxThink,    \* the thinking budget, 0 for none
  ForceLen,    \* tokens of the injected </think>
  Sampling     \* temperature > 0

ASSUME EngineAssumption ==
  /\ Eos \notin Word
  /\ Contexts \subseteq Nat \ {0} /\ MaxOut \in Nat \ {0} /\ ChunkMax \in Nat \ {0, 1}
  /\ Width \in Nat \ {1} /\ MaxThink \in Nat /\ ForceLen \in Nat \ {0}
  /\ Sampling \in BOOLEAN

VARIABLES
  rows, top, dirty,            \* the MetalEngine
  ledger, valid, pending,      \* AgentSession
  poisoned, context,
  gpc,                         \* where generate is, "idle" outside it
  ids, offset,                 \* the rendered prompt, what of it is encoded
  limit, produced,             \* max_tokens, tokens published
  token,                       \* `current', the next token to publish
  burst, encoded, after,       \* a speculative round: committed tokens left, how
                               \* many of them are encoded, the token after them
  tools, span, force,          \* tool constraint, think span, tokens to inject
  snap                         \* the last snapshot published

metalVars == <<rows, top, dirty>>
ledgerVars == <<ledger, valid, pending, poisoned, context>>
turnVars == <<ids, offset, limit, produced, token, burst, encoded, after,
              tools, span, force>>
engineVars == <<metalVars, ledgerVars, gpc, turnVars, snap>>

Token == Word \cup {Eos}
Prompt(max) == UNION {[1..n -> Word] : n \in 1..max}
NoSnap == [tokens |-> <<>>, rows |-> <<>>, top |-> Eos]
Closed == [open |-> FALSE, ever |-> FALSE, n |-> 0]

EncodedCount == IF valid THEN Len(ledger) - (IF pending THEN 1 ELSE 0) ELSE 0

(* AgentSession::plan, and the same test before a snapshot is published. *)
Reusable(prompt) ==
  /\ valid /\ EncodedCount = Len(rows)
  /\ IsPrefix(ledger, prompt)

EngineInit ==
  /\ rows = <<>> /\ top = Eos /\ dirty = FALSE
  /\ ledger = <<>> /\ valid = FALSE /\ pending = FALSE /\ poisoned = FALSE
  /\ gpc = "idle" /\ ids = <<>> /\ offset = 0 /\ limit = 0 /\ produced = 0
  /\ token = Eos /\ burst = <<>> /\ encoded = 0 /\ after = Eos
  /\ tools = "off" /\ span = Closed /\ force = 0
  /\ snap = NoSnap /\ context \in Contexts

-----------------------------------------------------------------------------
(* The MetalEngine *)

(* Rows appended by a call that succeeds; the logits are the last row's. *)
Encodes(s) ==
  /\ rows' = rows \o s
  /\ top' \in Token
  /\ UNCHANGED dirty

Reset == rows' = <<>> /\ dirty' = FALSE /\ UNCHANGED top

(* A call that throws may have advanced the recurrent state. *)
CallFails == UNCHANGED <<rows, top>> /\ dirty' = TRUE

-----------------------------------------------------------------------------
(* The ledger *)

Invalidated == ledger' = <<>> /\ valid' = FALSE /\ pending' = FALSE

Committed(s) == ledger' = s /\ valid' = TRUE /\ pending' = FALSE

(* record_emitted, then mark_pending_encoded or not. *)
Recorded(t, isEncoded) ==
  /\ ledger' = Append(ledger, t) /\ valid' = TRUE /\ pending' = ~isEncoded

(* The turn is over: what it kept in its locals is gone. *)
EndTurn ==
  /\ gpc' = "idle"
  /\ ids' = <<>> /\ offset' = 0 /\ limit' = 0 /\ produced' = 0 /\ token' = Eos
  /\ burst' = <<>> /\ encoded' = 0 /\ after' = Eos
  /\ tools' = "off" /\ span' = Closed /\ force' = 0

(* Cancelled between two calls, or a call has thrown: generate's handlers  *)
(* discard the ledger and leave the MetalEngine as it is.                  *)
Abandon ==
  /\ Invalidated /\ EndTurn
  /\ UNCHANGED <<metalVars, poisoned, context, snap>>

(* Mutant: the ledger outlives the failure. *)
ThrowsKeepingLedger ==
  /\ EndTurn /\ CallFails
  /\ UNCHANGED <<ledgerVars, snap>>

Throws ==
  /\ Invalidated /\ EndTurn /\ CallFails
  /\ UNCHANGED <<poisoned, context, snap>>

ContextFull == Len(rows) >= context

-----------------------------------------------------------------------------
(* generate: the prompt *)

(* What a prompt and its answer may take: the last token published need    *)
(* not be encoded.                                                         *)
Fits(prompt, n) == Len(prompt) + n <= context + 1

(* A prompt that the ledger is a prefix of goes on where the engine is;    *)
(* any other starts over.  A prompt that does not fit is refused.          *)
Begin ==
  /\ gpc = "idle" /\ ~poisoned
  /\ \E prompt \in Prompt(context), n \in 1..MaxOut :
       /\ Fits(prompt, n)
       /\ ids' = prompt /\ limit' = n
       /\ IF Reusable(prompt)
            THEN /\ offset' = Len(ledger)
                 /\ gpc' = IF pending THEN "finalize" ELSE "ingest"
                 /\ UNCHANGED <<metalVars, ledger, valid, pending>>
            ELSE /\ offset' = 0 /\ gpc' = "ingest"
                 /\ Reset /\ Invalidated
  /\ tools' \in {"off", "armed"}
  /\ UNCHANGED <<poisoned, context, produced, token, burst, encoded, after, span, force, snap>>

(* The last token of the turn before is encoded first. *)
FinalizePending ==
  /\ gpc = "finalize" /\ ~ContextFull
  /\ Encodes(<<ids[offset]>>)
  /\ pending' = FALSE
  /\ gpc' = "ingest"
  /\ UNCHANGED <<ledger, valid, poisoned, context, turnVars, snap>>

(* Chunks of at least two tokens, and the last token alone. *)
Ingest ==
  /\ gpc = "ingest" /\ offset < Len(ids)
  /\ LET left == Len(ids) - 1 - offset
         n == IF left < 2 THEN 1 ELSE IF left < ChunkMax THEN left ELSE ChunkMax
     IN /\ Encodes(SubSeq(ids, offset + 1, offset + n))
        /\ offset' = offset + n
  /\ UNCHANGED <<ledgerVars, gpc, ids, limit, produced, token, burst, encoded,
                 after, tools, span, force, snap>>

(* The prompt is in; the first token is sampled, or the logits' best. *)
CommitPrompt ==
  /\ gpc = "ingest" /\ offset = Len(ids)
  /\ Committed(ids)
  /\ token' \in (IF Sampling THEN Token ELSE {top})
  /\ gpc' = "decode"
  /\ UNCHANGED <<metalVars, poisoned, context, ids, offset, limit, produced, burst, encoded,
                 after, tools, span, force, snap>>

-----------------------------------------------------------------------------
(* generate: publishing a token *)

Remaining == limit - produced

(* What a published token may do to the tool constraint.  Its call closes  *)
(* the turn ("called"), unless the tool takes a fenced body, which is      *)
(* decoded freely.                                                         *)
ToolsAfter ==
  CASE tools = "armed"   -> {"armed", "masking", "body", "called"}
    [] tools = "masking" -> {"masking", "body", "called"}
    [] OTHER             -> {tools}

(* ThinkSpanTracker: one span, only while no call was begun. *)
SpanAfter(t) ==
  IF t \in {"masking", "body", "called"} THEN {span}
  ELSE {s \in [open : BOOLEAN, ever : BOOLEAN, n : {span.n, span.n + 1}] :
          /\ s.ever = (span.ever \/ s.open)
          /\ s.open /\ ~span.open => ~span.ever
          /\ s.n = span.n + 1 <=> s.open \/ span.open}

(* emit_one for a token that does not stall. *)
Published ==
  /\ produced' = produced + 1
  /\ tools' \in ToolsAfter
  /\ span' \in SpanAfter(tools')

BudgetSpent(s) == MaxThink > 0 /\ s.open /\ s.n >= MaxThink

(* The watcher refuses the token: nothing is withdrawn or recorded. *)
Stall ==
  /\ gpc \in {"decode", "burst"} /\ Remaining > 0
  /\ Abandon

(* advance_after_emit: the published token is encoded and the next chosen. *)
Advance(next) ==
  /\ ~ContextFull
  /\ Recorded(token, TRUE)
  /\ Encodes(<<token>>)
  /\ token' \in (IF Sampling THEN Token ELSE {top'})
  /\ gpc' = next

(* finalize_last: the turn's last token is recorded, and encoded when      *)
(* there is room.  A failure there poisons the engine, not the turn; a     *)
(* cancellation only costs the ledger.                                     *)
FinalizeLast ==
  /\ EndTurn /\ UNCHANGED context
  /\ \/ /\ ContextFull
        /\ Recorded(token, FALSE) /\ UNCHANGED <<metalVars, poisoned>>
     \/ /\ ~ContextFull
        /\ Recorded(token, TRUE) /\ Encodes(<<token>>) /\ UNCHANGED poisoned
     \/ /\ ~ContextFull
        /\ Invalidated /\ UNCHANGED <<metalVars, poisoned>>
     \/ /\ ~ContextFull
        /\ Invalidated /\ CallFails /\ poisoned' = TRUE

CanSpeculate ==
  /\ Width >= 2 /\ Remaining >= 2
  /\ tools \notin {"armed", "masking"}
  /\ ~(MaxThink > 0 /\ span.open)

(* One token, serially. *)
SerialLast ==
  /\ gpc = "decode" /\ Remaining > 0 /\ token # Eos /\ ~CanSpeculate
  /\ \E t \in ToolsAfter : \E s \in SpanAfter(t) :
       \/ produced + 1 = limit
       \/ t = "called"
       \/ BudgetSpent(s) /\ tools # "masking" /\ produced + 1 + ForceLen >= limit
  /\ FinalizeLast
  /\ UNCHANGED <<snap>>

SerialNext ==
  /\ gpc = "decode" /\ Remaining > 1 /\ token # Eos /\ ~CanSpeculate
  /\ Published /\ tools' # "called"
  /\ IF BudgetSpent(span') /\ tools # "masking"
       THEN produced' + ForceLen < limit /\ Advance("force") /\ force' = ForceLen
       ELSE Advance("decode") /\ UNCHANGED force
  /\ UNCHANGED <<poisoned, context, ids, offset, limit, burst, encoded, after, snap>>

(* force_close_think_and_continue: an injected token is published and      *)
(* encoded; the one after the last is the model's again.                   *)
ForceClose ==
  /\ gpc = "force" /\ ~ContextFull
  /\ \E f \in Word :
       /\ Recorded(f, TRUE)
       /\ Encodes(<<f>>)
  /\ produced' = produced + 1
  /\ force' = force - 1
  /\ span' = IF span.open THEN [span EXCEPT !.open = FALSE, !.n = @ + 1] ELSE span
  /\ IF force = 1
       THEN gpc' = "decode" /\ token' \in (IF Sampling THEN Token ELSE {top'})
       ELSE UNCHANGED <<gpc, token>>
  /\ UNCHANGED <<poisoned, context, ids, offset, limit, burst, encoded, after, tools, snap>>

TurnDone ==
  /\ gpc = "decode" /\ (Remaining = 0 \/ token = Eos)
  /\ EndTurn
  /\ UNCHANGED <<metalVars, ledgerVars, snap>>

-----------------------------------------------------------------------------
(* generate: a speculative round *)

Upto(s, n) == SubSeq(s, 1, n)

(* mtp_round and mtp_sample_round: the pending token and the drafts that   *)
(* were accepted are committed, within the context and the tokens left,    *)
(* and up to the end of the stream.  A final token of the turn and an end  *)
(* of stream are committed and not encoded.                                *)
Round ==
  /\ gpc = "decode" /\ token # Eos /\ CanSpeculate
  /\ LET room == context - Len(rows)
         live == IF Remaining < Width THEN Remaining ELSE Width
         lanes == IF room < live THEN room ELSE live
     IN \E n \in 1..(IF lanes < 2 THEN 1 ELSE lanes) :
        \E s \in [1..n -> Token] :
          /\ s[1] = token
          /\ \A i \in 1..(n - 1) : s[i] # Eos
          /\ burst' = s
          /\ encoded' = IF lanes >= 2 /\ (s[n] = Eos \/ n = Remaining) THEN n - 1 ELSE n
          /\ ~(lanes < 2 /\ ContextFull)
          /\ IF encoded' = 0 THEN UNCHANGED metalVars ELSE Encodes(Upto(s, encoded'))
  /\ after' \in (IF Sampling \/ encoded' < Len(burst') THEN Token ELSE {top'})
  /\ gpc' = "burst"
  /\ UNCHANGED <<ledgerVars, ids, offset, limit, produced, token, tools, span, force,
                 snap>>

AtBurstEnd == IF burst = <<>> THEN TRUE ELSE Head(burst) = Eos

(* The committed tokens are published one by one.  One that the round has  *)
(* not encoded is encoded now.                                             *)
BurstToken ==
  /\ gpc = "burst" /\ ~AtBurstEnd
  /\ Published
  /\ Recorded(Head(burst), TRUE)
  /\ IF encoded > 0
       THEN encoded' = encoded - 1 /\ UNCHANGED metalVars
       ELSE ~ContextFull /\ Encodes(<<Head(burst)>>) /\ UNCHANGED encoded
  /\ burst' = Tail(burst)
  /\ UNCHANGED <<poisoned, context, gpc, ids, offset, limit, token, after, force, snap>>

(* The round ends the turn, spends the thinking budget or goes on. *)
BurstEnd ==
  /\ gpc = "burst" /\ AtBurstEnd
  /\ IF burst # <<>> \/ Remaining = 0 \/ (BudgetSpent(span) /\ produced + ForceLen >= limit)
       THEN EndTurn
       ELSE /\ IF BudgetSpent(span)
                 THEN gpc' = "force" /\ force' = ForceLen /\ UNCHANGED token
                 ELSE gpc' = "decode" /\ token' = after /\ UNCHANGED force
            /\ UNCHANGED <<ids, offset, limit, produced, burst, encoded, after, tools, span>>
  /\ UNCHANGED <<metalVars, ledgerVars, snap>>

-----------------------------------------------------------------------------
(* generate: cancellation and failure *)

Cancel == gpc # "idle" /\ Abandon

StepDue ==
  \/ gpc \in {"finalize", "force"}
  \/ gpc = "ingest" /\ offset < Len(ids)
  \/ gpc = "decode" /\ token # Eos /\ Remaining > 1
  \/ gpc = "burst" /\ ~AtBurstEnd /\ encoded = 0

Failure == StepDue /\ Throws

-----------------------------------------------------------------------------
(* Sessions *)

(* save_session: the ledger is published when it is a prefix of the        *)
(* rendered transcript, which may be longer than the context; otherwise    *)
(* the closed messages are ingested afresh.                                *)
SaveResident ==
  /\ gpc = "idle" /\ ~poisoned /\ ledger # <<>> /\ Reusable(ledger)
  /\ snap' = [tokens |-> ledger, rows |-> rows, top |-> top]
  /\ UNCHANGED <<metalVars, ledgerVars, gpc, turnVars>>

SaveCanonical ==
  /\ gpc = "idle" /\ ~poisoned
  /\ \E closed \in Prompt(context) :
       /\ ~Reusable(closed)
       /\ rows' = closed /\ dirty' = FALSE /\ top' \in Token
       /\ Committed(closed)
       /\ \/ snap' = [tokens |-> closed, rows |-> closed, top |-> top']
          \/ UNCHANGED snap
  /\ UNCHANGED <<poisoned, context, gpc, turnVars>>

(* Its ingestion fails: the ledger was discarded before the first call. *)
SaveFails ==
  /\ gpc = "idle" /\ ~poisoned
  /\ Invalidated
  /\ rows' \in {<<>>} \cup Prompt(context) /\ dirty' = TRUE /\ UNCHANGED top
  /\ UNCHANGED <<poisoned, context, gpc, turnVars, snap>>

Loads(s) ==
  \/ Len(s.tokens) = Len(s.rows)
  \/ Len(s.tokens) = Len(s.rows) + 1 /\ s.top = Last(s.tokens)

(* The agent is started again, perhaps with another context.  load_session *)
(* restores the snapshot when every check holds, and resets otherwise.     *)
Restart ==
  /\ gpc = "idle" /\ snap # NoSnap
  /\ context' \in Contexts
  /\ poisoned' = FALSE
  /\ IF Loads(snap) /\ Len(snap.rows) <= context'
       THEN /\ rows' = snap.rows /\ top' = snap.top /\ dirty' = FALSE
            /\ ledger' = snap.tokens /\ valid' = TRUE
            /\ pending' = (Len(snap.tokens) = Len(snap.rows) + 1)
       ELSE Invalidated /\ Reset
  /\ UNCHANGED <<gpc, turnVars, snap>>

EngineNext ==
  \/ Begin \/ FinalizePending \/ Ingest \/ CommitPrompt
  \/ Stall \/ SerialLast \/ SerialNext \/ ForceClose \/ TurnDone
  \/ Round \/ BurstToken \/ BurstEnd
  \/ Cancel \/ Failure
  \/ SaveResident \/ SaveCanonical \/ SaveFails \/ Restart

EngineSpec == EngineInit /\ [][EngineNext]_engineVars

-----------------------------------------------------------------------------
(* Properties *)

(* Reuse is sound: whenever the ledger's count agrees with the engine's    *)
(* position, which is all that plan and save_session look at, the rows of  *)
(* the engine are the ledger's tokens and its recurrent state belongs to   *)
(* them.  No cancellation, stall, failure or round that ends in the middle *)
(* leaves a ledger that would be taken for something else.                 *)
LedgerHonest ==
  valid /\ EncodedCount = Len(rows) /\ gpc = "idle"
    => ~dirty /\ rows = SubSeq(ledger, 1, EncodedCount)

(* prompt + max_tokens <= context + 1 is enough: no path through serial    *)
(* decoding, speculation and injection steps an engine whose context is    *)
(* full, so no turn that was accepted fails for want of room.              *)
ContextNeverOverrun == StepDue => ~ContextFull

(* The agent's engine: a ledger that would be reused is what the engine    *)
(* holds, and a turn that was accepted never runs out of context           *)
(* (q27_agent_engine.cpp).                                                 *)
EngineAsLedger == LedgerHonest /\ ContextNeverOverrun
=============================================================================
