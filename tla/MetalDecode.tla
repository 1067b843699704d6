----------------------------- MODULE MetalDecode -----------------------------
(***************************************************************************)
(* How the Metal engine generates: the walks of metal_engine.cpp (serial,  *)
(* resident, MTP batched and serial, suffix bursts and serial, sampled and *)
(* sampled MTP) and the loops of metal_server.cpp that drive their rounds. *)
(*                                                                         *)
(* The model is an oracle.  truth is what a greedy walk would say; a lane  *)
(* that has read anything else agrees with the draft behind it, so that    *)
(* accepting it by mistake shows.  Drafts, from the MTP layer or from the  *)
(* suffix index, are any tokens.  A recurrent state and a row of the       *)
(* attention cache are kept as the tokens they come from; the prompt is    *)
(* PromptRows tokens 0.                                                    *)
(***************************************************************************)
EXTENDS Integers, Sequences, FiniteSets, SequencesExt

CONSTANTS
  Word,         \* the tokens that are not the end
  EndTok,       \* eos
  PromptRows,   \* tokens of the prompt
  CtxSizes,     \* max_context_
  Counts,       \* tokens asked for
  MtpWidths,    \* widths asked for
  VerifyMax,    \* VERIFY_CHUNK_MAX
  Tile,         \* 16, the tile that suffix bursts fill
  MinMatch,     \* minimum_match
  ResidentMax,  \* RESIDENT_MAX
  Narrow        \* 4, the width a batched walk starts with

ASSUME DecodeAssumption ==
  /\ {PromptRows, VerifyMax, Tile, MinMatch, ResidentMax, Narrow} \subseteq Nat \ {0}
  /\ MtpWidths \subseteq 2 .. VerifyMax
  /\ 0 \notin Word /\ EndTok \notin Word

VARIABLES
  walk,      \* what was asked: [mode, count, width, ctx]
  truth,     \* the greedy answer
  said,      \* the tokens that came out
  next,      \* pending, decided and not yet out
  basis,     \* what had been read when it was decided
  kvRows,    \* the attention rows
  read,      \* what the recurrent state has read; position_ = Len(read)
  logitsOf,  \* what had been read when logits_ was computed
  liveWidth, \* live_width
  why        \* "asked", "on", or how it ended

decodeVars == <<walk, truth, said, next, basis, kvRows, read, logitsOf, liveWidth, why>>

Tokens == Word \cup {EndTok}
Greedy == {"serial", "resident", "mtp", "mtpserial", "suffix", "suffixserial"}
Sampled == {"sampled", "mtpsampled"}
Fixed == {"resident", "mtpserial", "suffixserial"}   \* no eos and no sink
PromptToks == [i \in 1 .. PromptRows |-> 0]
Position == Len(read)
Left == walk.count - Len(said)                       \* remaining
Least(a, b) == IF a < b THEN a ELSE b
Most(a, b) == IF a < b THEN b ELSE a
Garbled == <<-1>>

(* What the greedy model says after h; off the path, what suits the draft. *)
Predict(h, draft) ==
  LET all == PromptToks \o truth IN
  IF Len(h) < Len(all) /\ h = SubSeq(all, 1, Len(h)) THEN all[Len(h) + 1] ELSE draft

-----------------------------------------------------------------------------
(* One pass over lanes: every lane stores its row at the position it has,  *)
(* and reads the rows up to it and the recurrent state.                    *)
StoredRows(lanes) ==
  [i \in 1 .. walk.ctx |->
     IF Position < i /\ i <= Position + Len(lanes) THEN lanes[i - Position] ELSE kvRows[i]]

Heard(lanes, t) ==
  LET h == read \o SubSeq(lanes, 1, t) IN
  IF \A i \in 1 .. Len(h) : StoredRows(lanes)[i] = h[i] THEN h ELSE Garbled

Verdicts(lanes) ==
  [t \in 1 .. Len(lanes) |->
     Predict(Heard(lanes, t), IF t < Len(lanes) THEN lanes[t + 1] ELSE lanes[t])]

(* The drafts accepted: up to the first the verdict before it denies. *)
AcceptWalk(lanes) ==
  Cardinality({k \in 1 .. Len(lanes) - 1 : \A j \in 1 .. k : Verdicts(lanes)[j] = lanes[j + 1]})

(* Mutant: what comes out is encoded, the last token asked for too. *)
CommitLast(lanes, accepted) ==
  LET n == Least(accepted + 1, Left)
      Ends == {i \in 1 .. n : lanes[i] = EndTok /\ walk.mode \notin Fixed}
      first == CHOOSE i \in Ends : \A j \in Ends : i <= j
  IN IF Ends # {} THEN [out |-> first, enc |-> first - 1] ELSE [out |-> n, enc |-> n]

(* How many lanes come out and how many are encoded: the last token asked  *)
(* for and an eos are never encoded, and nothing comes out behind an eos.  *)
CommitRule(lanes, accepted) ==
  LET n == Least(accepted + 1, Left)
      Ends == {i \in 1 .. n : lanes[i] = EndTok /\ walk.mode \notin Fixed}
      first == CHOOSE i \in Ends : \A j \in Ends : i <= j
  IN IF Ends # {} THEN [out |-> first, enc |-> first - 1]
     ELSE [out |-> n, enc |-> IF n = Left THEN n - 1 ELSE n]

(* commit, deliver: tokens come out one by one until the end of the text   *)
(* or until the sink has had enough.                                       *)
Delivered(toks) ==
  LET ends == {i \in 1 .. Len(toks) : toks[i] = EndTok}
      cut == IF ends = {} THEN Len(toks) + 1 ELSE CHOOSE i \in ends : \A j \in ends : i <= j
      whole == said \o SubSeq(toks, 1, cut - 1)
      full == [said |-> whole,
               why |-> IF cut <= Len(toks) THEN "eos"
                       ELSE IF Len(whole) >= walk.count THEN "max" ELSE "on"]
  IN IF walk.mode \in Fixed
       THEN {[said |-> said \o toks,
              why |-> IF Len(said \o toks) >= walk.count THEN "max" ELSE "on"]}
       ELSE {full} \cup {[said |-> said \o SubSeq(toks, 1, i - 1), why |-> "cancelled"] :
                           i \in 1 .. cut - 1}

Deliver(toks) == \E d \in Delivered(toks) : said' = d.said /\ why' = d.why

(* gdn_replay and the row copies: enc lanes become the engine's state. *)
Replayed(lanes, enc) ==
  /\ kvRows' = StoredRows(lanes)
  /\ read' = read \o SubSeq(lanes, 1, enc)
  /\ logitsOf' = IF enc > 0 THEN Heard(lanes, enc) ELSE logitsOf

(* step: encodes one token and reads its verdict. *)
Step(t) ==
  /\ Position < walk.ctx
  /\ Replayed(<<t>>, 1)
  /\ basis' = Heard(<<t>>, 1)
  /\ next' = Predict(Heard(<<t>>, 1), t)

(* sample_from_logits, after a step: any token, from the logits there are. *)
StepAndSample(t) ==
  /\ Position < walk.ctx
  /\ Replayed(<<t>>, 1)
  /\ basis' = Heard(<<t>>, 1)
  /\ next' \in Tokens

KeepsWalk == UNCHANGED <<walk, truth>>
NoRead == UNCHANGED <<kvRows, read, logitsOf, basis, next>>

-----------------------------------------------------------------------------
Walks == [mode : Greedy \cup Sampled, count : Counts, width : MtpWidths, ctx : CtxSizes]

DecodeBegins(w) ==
  /\ walk = w
  /\ truth = <<>>
  /\ said = <<>> /\ next = EndTok /\ basis = <<>> /\ read = <<>> /\ logitsOf = <<>>
  /\ kvRows = [i \in 1 .. w.ctx |-> 0]
  /\ liveWidth = 0 /\ why = "asked"

DecodeInit ==
  \E w \in Walks :
    /\ w.mode \in {"serial", "resident", "sampled"} => \A v \in MtpWidths : w.width <= v
    /\ DecodeBegins(w)

(* generate*, stream_*: a walk that would run past the context is refused, *)
(* and another ingests the prompt.  The first token is the greedy one, or  *)
(* is sampled from the logits of the prompt.                               *)
Ingest ==
  /\ why = "asked" /\ PromptRows + walk.count <= walk.ctx + 1
  /\ truth' \in (IF walk.mode \in Greedy THEN [1 .. walk.count + 1 -> Tokens] ELSE {<<>>})
  /\ read' = PromptToks /\ basis' = PromptToks /\ logitsOf' = PromptToks
  /\ next' \in (IF walk.mode \in Greedy THEN {truth'[1]} ELSE Tokens)
  /\ liveWidth' = Least(walk.width, Narrow)
  /\ why' = IF walk.count = 0 THEN "max" ELSE "on"
  /\ UNCHANGED <<walk, said, kvRows>>

Refused ==
  /\ why = "asked" /\ PromptRows + walk.count > walk.ctx + 1
  /\ why' = "refused"
  /\ UNCHANGED <<walk, truth, said, liveWidth>> /\ NoRead

(* The serial walk of stream_from_pending, and of the server's constrained *)
(* and plain sampled loops: emit, and encode unless it was the last.       *)
SerialStep ==
  /\ why = "on" /\ walk.mode \in {"serial", "sampled"}
  /\ Deliver(<<next>>)
  /\ IF why' = "on"
       THEN IF walk.mode = "serial" THEN Step(next) ELSE StepAndSample(next)
       ELSE NoRead
  /\ UNCHANGED liveWidth /\ KeepsWalk

(* A batched walk gives the last token asked for without a round. *)
ByRounds == {"mtp", "suffix", "mtpsampled", "mtpserial", "suffixserial"}
LastDirect ==
  /\ why = "on" /\ walk.mode \in ByRounds /\ Left = 1
  /\ Deliver(<<next>>)
  /\ NoRead /\ UNCHANGED liveWidth /\ KeepsWalk

(* live: the window, the tokens left, and the rows left in the context. *)
LiveLanes(want) ==
  LET w == Least(want, Left) IN
  IF Position + w > walk.ctx THEN walk.ctx - Position ELSE w

LaneSets(w) == {<<next>> \o d : d \in [1 .. w - 1 -> Tokens]}

Widened(accepted, live) ==
  IF accepted + 1 = live THEN Least(walk.width, liveWidth + 2) ELSE Most(2, accepted + 2)

(* A round in which eos was the pending token commits it and drafts        *)
(* nothing.                                                                *)
EosRound ==
  /\ why = "on" /\ walk.mode \in {"mtp", "mtpsampled", "suffix"} /\ Left > 1
  /\ next = EndTok
  /\ Deliver(<<next>>)
  /\ NoRead /\ UNCHANGED liveWidth /\ KeepsWalk

InRound(modes) == why = "on" /\ walk.mode \in modes /\ Left > 1 /\ next # EndTok

(* mtp_round, driven by stream_mtp_batched and by the server. *)
MtpRound ==
  /\ InRound({"mtp"})
  /\ LET live == LiveLanes(Least(liveWidth, walk.width)) IN
     IF live < 2
       THEN Deliver(<<next>>) /\ Step(next) /\ UNCHANGED liveWidth
       ELSE \E lanes \in LaneSets(live) :
              LET a == AcceptWalk(lanes)  c == CommitRule(lanes, a) IN
              /\ Deliver(SubSeq(lanes, 1, c.out))
              /\ Replayed(lanes, c.enc)
              /\ next' = Verdicts(lanes)[c.out] /\ basis' = Heard(lanes, c.out)
              /\ liveWidth' = Widened(a, live)
  /\ KeepsWalk

(* mtp_sample_round.  Which drafts the rejection walk takes and what it    *)
(* samples next is left open here (module Sampling): the next token comes  *)
(* from the lane that stopped the walk, or from the last one committed     *)
(* when an eos cut it short.                                               *)
MtpSampleRound ==
  /\ InRound({"mtpsampled"})
  /\ LET live == LiveLanes(Least(liveWidth, walk.width)) IN
     IF live < 2
       THEN Deliver(<<next>>) /\ StepAndSample(next) /\ UNCHANGED liveWidth
       ELSE \E lanes \in LaneSets(live), stop \in 1 .. live, t \in Tokens :
              LET c == CommitRule(lanes, stop - 1) IN
              /\ Deliver(SubSeq(lanes, 1, c.out))
              /\ Replayed(lanes, c.enc)
              /\ next' = t
              /\ basis' = Heard(lanes, IF c.out = stop THEN stop ELSE c.out)
              /\ liveWidth' = Widened(stop - 1, live)
  /\ KeepsWalk

(* suffix_step: a burst no wider than the match, in whole tiles, or a      *)
(* single step.  The match length is any the index can report.             *)
SnapDown(live) ==
  IF Tile < live /\ live < 2 * Tile THEN Tile
  ELSE IF 2 * Tile < live /\ live < 3 * Tile THEN 2 * Tile
  ELSE live

BurstWidth(match) ==
  LET max == LiveLanes(walk.width) IN
  IF max < 2 \/ match < MinMatch THEN 0 ELSE SnapDown(Least(max, match + 1))

SuffixStep ==
  /\ InRound({"suffix"})
  /\ \E match \in 0 .. VerifyMax :
       IF BurstWidth(match) < 2
         THEN Deliver(<<next>>) /\ Step(next)
         ELSE \E lanes \in LaneSets(BurstWidth(match)) :
                LET c == CommitRule(lanes, AcceptWalk(lanes)) IN
                /\ Deliver(SubSeq(lanes, 1, c.out))
                /\ Replayed(lanes, c.enc)
                /\ next' = Verdicts(lanes)[c.out] /\ basis' = Heard(lanes, c.out)
  /\ UNCHANGED liveWidth /\ KeepsWalk

(* The serial checks of drafts, generate_from_pending with a width and     *)
(* generate_suffix_serial: each lane is a step of its own, and a draft     *)
(* that completes the count is not encoded.                                *)
SerialVerify ==
  /\ why = "on" /\ walk.mode \in {"mtpserial", "suffixserial"} /\ Left > 1
  /\ \E lanes \in LaneSets(Least(walk.width, Left)) :
       LET n == AcceptWalk(lanes) + 1
           enc == IF n = Left THEN n - 1 ELSE n
           run == SubSeq(lanes, 1, enc)
       IN /\ Position + enc <= walk.ctx
          /\ Deliver(SubSeq(lanes, 1, n))
          /\ Replayed(run, enc)
          /\ next' = Predict(Heard(run, enc), run[enc]) /\ basis' = Heard(run, enc)
  /\ UNCHANGED liveWidth /\ KeepsWalk

(* decode_resident: a slice of steps on the device, each fed the verdict   *)
(* of the one before.  The first token is out before the first slice.      *)
Chain(k) ==
  LET lane[i \in 1 .. k + 1] ==
        IF i = 1 THEN next
        ELSE Predict(read \o [j \in 1 .. i - 1 |-> lane[j]], EndTok)
  IN [i \in 1 .. k + 1 |-> lane[i]]

ResidentSlice ==
  /\ why = "on" /\ walk.mode = "resident"
  /\ IF said = <<>>
       THEN Deliver(<<next>>) /\ NoRead
       ELSE LET k == Least(ResidentMax, Left)
                lanes == SubSeq(Chain(k), 1, k)
            IN /\ Position + k <= walk.ctx
               /\ Deliver(SubSeq(Chain(k), 2, k + 1))
               /\ Replayed(lanes, k)
               /\ next' = Chain(k)[k + 1] /\ basis' = Heard(lanes, k)
  /\ UNCHANGED liveWidth /\ KeepsWalk

DecodeNext ==
  \/ Ingest \/ Refused \/ SerialStep \/ LastDirect \/ EosRound \/ MtpRound
  \/ MtpSampleRound \/ SuffixStep \/ SerialVerify \/ ResidentSlice

DecodeSpec == DecodeInit /\ [][DecodeNext]_decodeVars

-----------------------------------------------------------------------------
(* Properties *)

Running == why = "on"
Finished == why \in {"max", "eos"}
(* A resident walk has said its pending token; others have not. *)
SaidAndRead == IF walk.mode = "resident" /\ said # <<>> THEN Front(said) ELSE said

(* The state is that of a serial walk over what came out: the recurrent    *)
(* state and the rows below the position hold exactly the tokens that were *)
(* said, without the last when it was the last asked for, and without an   *)
(* eos; a client that cancels leaves at most its unread tokens behind      *)
(* (comments of mtp_round; gdn_replay, position_ += encoded).              *)
StateAsSerial ==
  /\ why \notin {"asked", "refused"} =>
       /\ \A i \in 1 .. Position : kvRows[i] = read[i]
       /\ logitsOf = read
  /\ Running => read = PromptToks \o SaidAndRead
  /\ Finished => read = PromptToks \o (IF why = "max" /\ said # <<>> THEN Front(said) ELSE said)

(* The pending token is the verdict on everything that came out before it, *)
(* whatever lanes were verified beside it.                                 *)
NextIsNext == Running => basis = PromptToks \o SaidAndRead

(* Committed tokens follow the exact serial-walk semantics: whatever was   *)
(* drafted and however wide, a greedy walk says what the model would have  *)
(* said alone, up to its end of text or to the count (mtp_round,           *)
(* suffix_round, decode_resident, stream_from_pending).                    *)
GreedyAsSerial ==
  walk.mode \in Greedy /\ why \notin {"asked", "refused"} =>
    /\ IsPrefix(said, truth)
    /\ why = "eos" => truth[Len(said) + 1] = EndTok
    /\ why = "max" => Len(said) = walk.count
    /\ walk.mode \notin Fixed => \A i \in 1 .. Len(said) : said[i] # EndTok

(* A walk that was admitted always has a row for the token it encodes, and *)
(* a drafting window for its next round.                                   *)
RowsLeft ==
  /\ Running => Position < walk.ctx \/ Left = 1
  /\ Running /\ walk.mode \in ByRounds => liveWidth \in 2 .. walk.width

DecodeExact == StateAsSerial /\ NextIsNext /\ GreedyAsSerial /\ RowsLeft
==============================================================================
