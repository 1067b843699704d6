---------------------------- MODULE EnginePrefix ----------------------------
(***************************************************************************)
(* The conversation cache of the CUDA engines and the routing that relies  *)
(* on it: claim_slot of server.cu, and generate_prefill of engine.cuh with *)
(* its stable snapshot, its ring of checkpoints and its prefix import.     *)
(*                                                                         *)
(* The recurrent state of an engine is named by the tokens it has read,    *)
(* and a row of the attention cache by the token it was computed for.  The *)
(* snapshot and the checkpoints hold recurrent state only: they are right  *)
(* as long as the rows below them are those of their own tokens.  The disk *)
(* and RAM tiers (module PrefixTiers) appear here as a set of blobs that a *)
(* lookup may or may not find.                                             *)
(***************************************************************************)
EXTENDS Integers, Sequences, FiniteSets

CONSTANTS
  Slots,          \* number of engines, in the order of the slot table
  Ctx,            \* Ctx[e]: max_ctx of engine e
  Prompts,        \* the requests: [toks, stable], stable is stable_len
  PfT,            \* PF_T, the prefill chunk
  PfBatchMin,     \* pf_batch_min
  CkptInterval,   \* ckpt_interval
  CkptSlots,      \* ckpt_slots
  RoundWidth,     \* verify_w_max(), the rows a decode round writes
  MaxAsks,        \* bound: requests
  Zero, Guess   \* rows that hold nothing, and rows of a decode round

ASSUME PrefixAssumption ==
  /\ Slots \in Nat \ {0} /\ Ctx \in [1 .. Slots -> Nat]
  /\ Prompts \subseteq [toks : Seq(Int), stable : Int]
  /\ PfT \in Nat \ {0} /\ PfBatchMin \in Nat \ {0, 1}
  /\ CkptInterval \in Nat /\ CkptSlots \in Nat \ {0} /\ RoundWidth \in Nat \ {0}

Eng == 1 .. Slots

VARIABLES
  kv,        \* kv[e][i]: the token whose keys and values row i holds
  gdn,       \* gdn[e]: the tokens the recurrent state has read
  snapshot,  \* snapshot[e]: [have, toks, state] (have_snap, snap_toks, S_snap)
  ring,      \* ring[e][k]: [toks, state], the checkpoints; empty toks: unused
  ckNext,    \* ckpt_next
  blobs,     \* what was persisted: [toks, state, rows]
  lastUsed,  \* Slot::last_used, stamped when a slot is freed
  uses,      \* slot_use_counter
  job,       \* job[e]: the request engine e works for, or NoJob
  asks       \* requests so far

prefixVars == <<kv, gdn, snapshot, ring, ckNext, blobs, lastUsed, uses, job, asks>>

-----------------------------------------------------------------------------
(* Token sequences *)

Upto(s, n) == SubSeq(s, 1, n)
MaxOf(S) == CHOOSE n \in S : \A m \in S : m <= n
Extends(s, p) == Len(p) <= Len(s) /\ Upto(s, Len(p)) = p
RowsAre(rows, s) == \A i \in 1 .. Len(s) : rows[i - 1] = s[i]
Filled(rows, s, from, to) ==
  [i \in DOMAIN rows |-> IF from <= i /\ i < to THEN s[i + 1] ELSE rows[i]]

NoCkpt == [toks |-> <<>>, state |-> <<>>]
NoSnap == [have |-> FALSE, toks |-> <<>>, state |-> <<>>]
EmptyRing == [k \in 1 .. CkptSlots |-> NoCkpt]
NoJob == [at |-> "free", toks |-> <<>>, stable |-> -1, base |-> 0, pos |-> 0,
          ck |-> 0, ph |-> 0, promised |-> 0]

Reserve == RoundWidth + 1            \* ctx_round_reserve
MaxPrompt == MaxOf({Ctx[e] : e \in Eng}) - Reserve

PrefixInit ==
  /\ kv = [e \in Eng |-> [i \in 0 .. Ctx[e] + RoundWidth |-> Zero]]
  /\ gdn = [e \in Eng |-> <<>>]
  /\ snapshot = [e \in Eng |-> NoSnap]
  /\ ring = [e \in Eng |-> EmptyRing] /\ ckNext = [e \in Eng |-> 1]
  /\ blobs = {}
  /\ lastUsed = [e \in Eng |-> 0] /\ uses = 0
  /\ job = [e \in Eng |-> NoJob] /\ asks = 0

-----------------------------------------------------------------------------
(* What an engine can restore *)

SnapCovers(e, p) ==
  /\ snapshot[e].have
  /\ Len(snapshot[e].toks) <= Len(p) - 1
  /\ Extends(p, snapshot[e].toks)

(* ckpt_best: the longest checkpoint that is a proper prefix; the first    *)
(* slot of the ring among equals.  0: none.                                *)
CkptBest(e, p) ==
  LET Match == {k \in 1 .. CkptSlots :
                  /\ ring[e][k].toks # <<>>
                  /\ Len(ring[e][k].toks) + 1 <= Len(p)
                  /\ Extends(p, ring[e][k].toks)}
      Deepest == {k \in Match : \A j \in Match : Len(ring[e][j].toks) <= Len(ring[e][k].toks)}
  IN IF Match = {} THEN 0 ELSE CHOOSE k \in Deepest : \A j \in Deepest : k <= j

(* reuse_len, what the router asks an idle engine. *)
ReuseLen(e, p) ==
  IF SnapCovers(e, p) THEN Len(snapshot[e].toks)
  ELSE IF CkptBest(e, p) > 0 THEN Len(ring[e][CkptBest(e, p)].toks) ELSE 0

CacheEmpty(e) ==
  ~snapshot[e].have /\ snapshot[e].toks = <<>> /\ \A k \in 1 .. CkptSlots : ring[e][k].toks = <<>>

-----------------------------------------------------------------------------
(* Routing *)

Tier(e, p) == IF ReuseLen(e, p) > 0 THEN 2 ELSE IF CacheEmpty(e) THEN 1 ELSE 0
Free == {e \in Eng : job[e].at = "free"}

(* f comes before e in the order of the scan: a deeper reuse, an empty     *)
(* slot, the slot freed longest ago, the first of the table.               *)
Before(f, e, p) ==
  LET tf == Tier(f, p)
      te == Tier(e, p)
      kf == IF tf = 2 THEN -ReuseLen(f, p) ELSE lastUsed[f]
      ke == IF te = 2 THEN -ReuseLen(e, p) ELSE lastUsed[e]
  IN \/ tf > te
     \/ tf = te /\ kf < ke
     \/ tf = te /\ kf = ke /\ f < e

(* claim_slot: the best free slot that leaves room for a decode round.     *)
(* The routes have refused a prompt that leaves none on any slot.          *)
ClaimBestSlot(e, r) ==
  LET p == r.toks
      Fitting == {f \in Free : Len(p) + Reserve <= Ctx[f]}
  IN /\ asks < MaxAsks /\ 1 <= Len(p) /\ Len(p) <= MaxPrompt
     /\ e \in Fitting
     /\ \A f \in Fitting \ {e} : Before(e, f, p)
     /\ job' = [job EXCEPT ![e] = [NoJob EXCEPT
                  !.at = "claimed", !.toks = p, !.stable = r.stable,
                  !.promised = ReuseLen(e, p)]]
     /\ asks' = asks + 1
     /\ UNCHANGED <<kv, gdn, snapshot, ring, ckNext, blobs, lastUsed, uses>>

-----------------------------------------------------------------------------
(* generate_prefill: what is restored, and what the new rows invalidate *)

AtJob(e, a) == job[e].at = a
NP(e) == Len(job[e].toks)

(* The boundary the snapshot will be taken at. *)
SnapUpto(e) ==
  IF job[e].base < job[e].stable /\ job[e].stable < NP(e) THEN job[e].stable ELSE NP(e) - 1

(* Mutant: the alias fix is missing. *)
KeepsAll(s, lo, p) == TRUE

(* Cached state past lo survives only if it is a prefix of this prompt,    *)
(* whose prefill writes the same rows again.                               *)
Survives(s, lo, p) == Len(s) > lo => Extends(p, s)

KeptRing(e, lo, p) ==
  [k \in 1 .. CkptSlots |-> IF Survives(ring[e][k].toks, lo, p) THEN ring[e][k] ELSE NoCkpt]
KeptSnap(e, lo, p) ==
  IF snapshot[e].have /\ ~Survives(snapshot[e].toks, lo, p) THEN NoSnap ELSE snapshot[e]

BeginAt(e, lo) ==
  job' = [job EXCEPT ![e].at = "chunks", ![e].base = lo, ![e].pos = lo, ![e].ck = lo]

Batched(e) == AtJob(e, "claimed") /\ NP(e) >= PfBatchMin

(* The snapshot is extended. *)
RestoreSnap(e) ==
  LET p == job[e].toks
      lo == Len(snapshot[e].toks)
  IN /\ Batched(e) /\ SnapCovers(e, p)
     /\ BeginAt(e, lo)
     /\ gdn' = [gdn EXCEPT ![e] = snapshot[e].state]
     /\ ring' = [ring EXCEPT ![e] = KeptRing(e, lo, p)]
     /\ snapshot' = [snapshot EXCEPT ![e] = KeptSnap(e, lo, p)]
     /\ UNCHANGED <<kv, ckNext, blobs, lastUsed, uses, asks>>

(* The snapshot is missed and a checkpoint is not. *)
RestoreCkpt(e) ==
  LET p == job[e].toks
      k == CkptBest(e, p)
      lo == Len(ring[e][k].toks)
  IN /\ Batched(e) /\ ~SnapCovers(e, p) /\ k > 0
     /\ BeginAt(e, lo)
     /\ gdn' = [gdn EXCEPT ![e] = ring[e][k].state]
     /\ ring' = [ring EXCEPT ![e] = KeptRing(e, lo, p)]
     /\ snapshot' = [snapshot EXCEPT ![e] = KeptSnap(e, lo, p)]
     /\ UNCHANGED <<kv, ckNext, blobs, lastUsed, uses, asks>>

Misses(e) == Batched(e) /\ ~SnapCovers(e, job[e].toks) /\ CkptBest(e, job[e].toks) = 0

(* A blob of the RAM or the disk tier is imported: reset, an empty ring,   *)
(* then the blob's state and rows.                                         *)
RestoreBlob(e) ==
  LET p == job[e].toks IN
  \E b \in blobs :
    /\ Misses(e) /\ Len(b.toks) <= Len(p) - 1 /\ Extends(p, b.toks)
    /\ BeginAt(e, Len(b.toks))
    /\ gdn' = [gdn EXCEPT ![e] = b.state]
    /\ kv' = [kv EXCEPT ![e] = Filled(@, b.rows, 0, Len(b.rows))]
    /\ ring' = [ring EXCEPT ![e] = EmptyRing] /\ ckNext' = [ckNext EXCEPT ![e] = 1]
    /\ snapshot' = [snapshot EXCEPT ![e] = KeptSnap(e, Len(b.toks), p)]
    /\ UNCHANGED <<blobs, lastUsed, uses, asks>>

(* Nothing to restore: reset and an empty ring. *)
ColdPrefill(e) ==
  /\ Misses(e)
  /\ BeginAt(e, 0)
  /\ gdn' = [gdn EXCEPT ![e] = <<>>]
  /\ ring' = [ring EXCEPT ![e] = EmptyRing] /\ ckNext' = [ckNext EXCEPT ![e] = 1]
  /\ snapshot' = [snapshot EXCEPT ![e] = KeptSnap(e, 0, job[e].toks)]
  /\ UNCHANGED <<kv, blobs, lastUsed, uses, asks>>

(* A prompt below pf_batch_min is read token by token and leaves no cache. *)
SerialPrefill(e) ==
  LET p == job[e].toks IN
  /\ AtJob(e, "claimed") /\ Len(p) < PfBatchMin
  /\ job' = [job EXCEPT ![e].at = "decode", ![e].pos = Len(p), ![e].ph = Len(p) - 1]
  /\ gdn' = [gdn EXCEPT ![e] = p]
  /\ kv' = [kv EXCEPT ![e] = Filled(@, p, 0, Len(p))]
  /\ ring' = [ring EXCEPT ![e] = EmptyRing] /\ ckNext' = [ckNext EXCEPT ![e] = 1]
  /\ snapshot' = [snapshot EXCEPT ![e] = NoSnap]
  /\ UNCHANGED <<blobs, lastUsed, uses, asks>>

-----------------------------------------------------------------------------
(* generate_prefill: the chunks *)

(* ckpt_save at a chunk boundary, once CkptInterval tokens have passed. *)
CkptSave(e, at) ==
  IF CkptInterval > 0 /\ at - job[e].ck >= CkptInterval
    THEN /\ ring' = [ring EXCEPT ![e][ckNext[e]] =
                       [toks |-> Upto(job[e].toks, at), state |-> gdn'[e]]]
         /\ ckNext' = [ckNext EXCEPT ![e] = (ckNext[e] % CkptSlots) + 1]
         /\ job' = [job EXCEPT ![e].pos = at, ![e].ck = at]
    ELSE job' = [job EXCEPT ![e].pos = at] /\ UNCHANGED <<ring, ckNext>>

(* pfx_persist: the state and the rows as the device has them. *)
Exported(e, at) ==
  [toks |-> Upto(job[e].toks, at), state |-> gdn'[e],
   rows |-> [i \in 1 .. at |-> kv'[e][i - 1]]]

(* One chunk, then the gap at which other engines run.  Up to the stable   *)
(* boundary a cold prefill may persist the system block.                   *)
PrefillChunk(e) ==
  LET p == job[e].toks
      from == job[e].pos
      limit == IF AtJob(e, "chunks") THEN SnapUpto(e) ELSE Len(p) - 1
      to == IF from + PfT < limit THEN from + PfT ELSE limit
  IN /\ job[e].at \in {"chunks", "tail"} /\ from < limit
     /\ gdn' = [gdn EXCEPT ![e] = @ \o SubSeq(p, from + 1, to)]
     /\ kv' = [kv EXCEPT ![e] = Filled(@, p, from, to)]
     /\ CkptSave(e, to)
     /\ \/ UNCHANGED blobs
        \/ AtJob(e, "chunks") /\ job[e].base = 0 /\ blobs' = blobs \cup {Exported(e, to)}
     /\ UNCHANGED <<snapshot, lastUsed, uses, asks>>

(* snap_save at the boundary; a stable one may be persisted. *)
SnapSave(e) ==
  LET p == job[e].toks
      upto == SnapUpto(e)
  IN /\ AtJob(e, "chunks") /\ job[e].pos = upto
     /\ snapshot' = [snapshot EXCEPT ![e] = [have |-> TRUE, toks |-> Upto(p, upto), state |-> gdn[e]]]
     /\ job' = [job EXCEPT ![e].at = "tail"]
     /\ UNCHANGED <<kv, gdn>>
     /\ \/ UNCHANGED blobs
        \/ upto = job[e].stable /\ blobs' = blobs \cup {Exported(e, upto)}
     /\ UNCHANGED <<ring, ckNext, lastUsed, uses, asks>>

(* The last prompt token goes through the decode graph. *)
StepLast(e) ==
  LET p == job[e].toks IN
  /\ AtJob(e, "tail") /\ job[e].pos = Len(p) - 1
  /\ gdn' = [gdn EXCEPT ![e] = Append(@, p[Len(p)])]
  /\ kv' = [kv EXCEPT ![e] = Filled(@, p, Len(p) - 1, Len(p))]
  /\ job' = [job EXCEPT ![e].at = "decode", ![e].pos = Len(p), ![e].ph = Len(p) - 1]
  /\ UNCHANGED <<snapshot, ring, ckNext, blobs, lastUsed, uses, asks>>

-----------------------------------------------------------------------------
(* Decoding, as far as the cache is concerned *)

(* pre_round's context guard. *)
RoundFits(e) == job[e].ph + Reserve <= Ctx[e]

(* A round writes RoundWidth rows and keeps some of them. *)
DecodeRound(e) ==
  /\ AtJob(e, "decode") /\ RoundFits(e)
  /\ \E n \in 1 .. RoundWidth : job' = [job EXCEPT ![e].ph = @ + n]
  /\ kv' = [kv EXCEPT ![e] =
              [i \in DOMAIN @ |-> IF job[e].ph < i /\ i <= job[e].ph + RoundWidth
                                    THEN Guess ELSE @[i]]]
  /\ gdn' = [gdn EXCEPT ![e] = Append(job[e].toks, Guess)]
  /\ UNCHANGED <<snapshot, ring, ckNext, blobs, lastUsed, uses, asks>>

(* The request ends, for whatever reason, and free_slot stamps the slot. *)
FreeSlot(e) ==
  /\ AtJob(e, "decode")
  /\ uses' = uses + 1
  /\ lastUsed' = [lastUsed EXCEPT ![e] = uses + 1]
  /\ job' = [job EXCEPT ![e] = NoJob]
  /\ UNCHANGED <<kv, gdn, snapshot, ring, ckNext, blobs, asks>>

PrefixNext ==
  \E e \in Eng :
    \/ \E r \in Prompts : ClaimBestSlot(e, r)
    \/ RestoreSnap(e) \/ RestoreCkpt(e) \/ RestoreBlob(e)
    \/ ColdPrefill(e) \/ SerialPrefill(e)
    \/ PrefillChunk(e) \/ SnapSave(e) \/ StepLast(e)
    \/ DecodeRound(e) \/ FreeSlot(e)

PrefixSpec == PrefixInit /\ [][PrefixNext]_prefixVars

-----------------------------------------------------------------------------
(* Properties *)

(* A prefill continues from the state of its own tokens: through every     *)
(* restore, and every prompt that overwrote rows in between, the recurrent *)
(* state and the rows below it are those of the prompt read so far, and an *)
(* idle engine offers only state whose rows are still there.               *)
ReuseRight ==
  \A e \in Eng :
    /\ job[e].at \in {"chunks", "tail", "decode"} =>
         LET read == Upto(job[e].toks, job[e].pos) IN
         /\ RowsAre(kv[e], read)
         /\ ~(job[e].at = "decode" /\ job[e].ph >= job[e].pos) => gdn[e] = read
    /\ job[e].at = "free" =>
         \A c \in {snapshot[e]} \cup {ring[e][k] : k \in 1 .. CkptSlots} :
           c.state = c.toks /\ RowsAre(kv[e], c.toks)

(* What the router was told is what the prefill restores ("must stay in    *)
(* lockstep"), for the prompts that take the chunked path: nothing done to *)
(* the engine between the claim and the prefill makes it less, and only a  *)
(* blob makes it more.                                                     *)
RoutedAsPromised ==
  \A e \in Eng :
    job[e].at \in {"chunks", "tail"} =>
      job[e].base = job[e].promised \/ job[e].promised = 0

(* No decode round writes behind the end of the cache: the guard before a  *)
(* round and the room claim_slot asks for agree with the rows it writes.   *)
RowsInside ==
  \A e \in Eng : \A i \in DOMAIN kv[e] : i >= Ctx[e] => kv[e][i] = Zero

(* What an engine reuses of its last request is a prefix of the new one    *)
(* and still in its rows, it is what the router counted on when it chose   *)
(* the slot, and no round writes past the rows (engine.cuh, server.cu).    *)
RowsRight == ReuseRight /\ RowsInside /\ RoutedAsPromised
=============================================================================
