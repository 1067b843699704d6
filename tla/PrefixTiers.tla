----------------------------- MODULE PrefixTiers -----------------------------
(***************************************************************************)
(* Prefix reuse below VRAM: what generate_prefill (src/engine.cuh) does    *)
(* with the host-RAM tier (module PrefixRam) and the disk tier (module     *)
(* PrefixCache) on behalf of several engines.                              *)
(*                                                                         *)
(* A prompt is looked for in the engine's own snapshot, in RAM, on disk;   *)
(* on a hit the state is imported and only the rest is prefilled.  At the  *)
(* end of the system block and at the stable boundary the state may be     *)
(* persisted: exported into a RAM blob (or the engine's staging buffer)    *)
(* and handed to the engine's writer thread.  Engine work runs under the   *)
(* GPU gate, so engines interleave at chunk gaps only, but writers run     *)
(* whenever they like.  The checkpoint ring is off (ckpt_interval 0).      *)
(***************************************************************************)
EXTENDS PrefixCache, PrefixRam, TLC

CONSTANTS
  Conv,        \* Conv[e]: the requests that reach engine e
  MinTokens,   \* cfg_.min_tokens
  MaxTokens,   \* cfg_.max_tokens
  StepTokens,  \* cfg_.step_tokens
  MaxRequests, \* bound: requests
  MaxCrashes   \* bound: crashes of the server

(* A request: the tokens of its prompt, the last chunk boundary within the *)
(* system block and the stable boundary, 0 for none.                       *)
RequestRec(q) ==
  /\ DOMAIN q = {"toks", "sys", "stable"}
  /\ q.toks \in Seq(Int)
  /\ q.sys \in 0 .. Len(q.toks) - 1
  /\ q.stable \in 0 .. Len(q.toks) - 1

Cut(q, L) == SubSeq(q.toks, 1, L)

AllRequests == UNION {Conv[e] : e \in Engine}

ASSUME PrefixTiersAssumption ==
  /\ Engine \subseteq Nat \ {0}
  /\ \A q \in AllRequests :
       RequestRec(q) /\ {Cut(q, q.sys), Cut(q, q.stable)} \subseteq Prefix \cup {<<>>}
  /\ MinTokens \in Nat /\ MaxTokens \in Nat /\ StepTokens \in Nat
  /\ MaxRequests \in Nat /\ MaxCrashes \in Nat
  /\ NBlobs >= MaxSlots + 2 * Cardinality(Engine)

VARIABLES
  epc,      \* epc[e]: where e's engine is in generate_prefill
  req,      \* req[e]: the request it serves
  base,     \* base[e]: tokens restored
  cands,    \* cands[e]: find()'s copy of index_, what is left to verify
  slot,     \* slot[e]: the blob being filled by a disk restore
  ramHit,   \* ramHit[e]: pfx_ram_hit
  stage,    \* stage[e]: what pfx_stage holds
  lastPersist, \* lastPersist[e]: pfx_last_persist
  snap,     \* snap[e]: snap_toks, empty without have_snap
  wslot,    \* wslot[e]: the blob captured by e's writer thread
  wstage,   \* wstage[e]: what pfx_wstage holds
  gpu,      \* the engine under the gate, or Nobody
  served,   \* requests so far
  crashes   \* how often the server has crashed

Nobody == 0
NoRequest == [toks |-> <<>>, sys |-> 0, stable |-> 0]

engineVars == <<epc, req, base, cands, slot, ramHit, stage, lastPersist, snap>>
handoffVars == <<wslot, wstage>>
vars == <<cacheVars, ramVars, engineVars, handoffVars, gpu, served, crashes>>

(* "gap" is the yield after the system-block chunk. *)
EnginePc == {"idle", "ram", "disk", "verify", "acquire", "read", "import", "chunks", "gap"}

EngineInit ==
  /\ epc = [e \in Engine |-> "idle"]
  /\ req = [e \in Engine |-> NoRequest]
  /\ base = [e \in Engine |-> 0]
  /\ cands = [e \in Engine |-> {}]
  /\ slot = [e \in Engine |-> NoBlob]
  /\ ramHit = [e \in Engine |-> NoBlob]
  /\ stage = [e \in Engine |-> Hole]
  /\ lastPersist = [e \in Engine |-> 0]
  /\ snap = [e \in Engine |-> <<>>]
  /\ wslot = [e \in Engine |-> NoBlob]
  /\ wstage = [e \in Engine |-> Hole]
  /\ gpu = Nobody
  /\ served = 0

Init == CacheInit /\ RamInit /\ EngineInit /\ crashes = 0

TypeOK ==
  /\ CacheTypeOK
  /\ RamTypeOK
  /\ toks \in [Blob -> Prefix \cup {<<>>}]
  /\ mem \in [Blob -> Prefix \cup {Hole}]
  /\ epc \in [Engine -> EnginePc]
  /\ req \in [Engine -> AllRequests \cup {NoRequest}]
  /\ base \in [Engine -> Nat] /\ \A e \in Engine : base[e] <= Len(req[e].toks)
  /\ cands \in [Engine -> SUBSET Name]
  /\ slot \in [Engine -> Blob \cup {NoBlob}]
  /\ ramHit \in [Engine -> Blob \cup {NoBlob}]
  /\ stage \in [Engine -> Prefix \cup {Hole}]
  /\ lastPersist \in [Engine -> Nat]
  /\ snap \in [Engine -> Seq(Int)]
  /\ wslot \in [Engine -> Blob \cup {NoBlob}]
  /\ wstage \in [Engine -> Prefix \cup {Hole}]
  /\ gpu \in Engine \cup {Nobody}
  /\ served \in 0 .. MaxRequests
  /\ crashes \in 0 .. MaxCrashes

(* Blobs somebody besides lru_ holds. *)
Held == (UNION {{slot[e], ramHit[e], wslot[e]} : e \in Engine}) \ {NoBlob}

Prompt(e) == req[e].toks
At(e, where) == epc[e] = where /\ gpu = e
Go(e, to) == epc' = [epc EXCEPT ![e] = to]

-----------------------------------------------------------------------------
(* Restore. *)

(* The P8 snapshot: a prefix of the prompt that leaves a token to decode. *)
SnapHit(e, q) == snap[e] # <<>> /\ Len(snap[e]) < Len(q.toks) /\ IsPrefix(snap[e], q.toks)

(* The gate is taken and the VRAM snapshot consulted; on a hit the tiers   *)
(* below are not.                                                          *)
Begin(e, q) ==
  /\ epc[e] = "idle"
  /\ gpu = Nobody
  /\ served < MaxRequests
  /\ served' = served + 1
  /\ gpu' = e
  /\ req' = [req EXCEPT ![e] = q]
  /\ base' = [base EXCEPT ![e] = IF SnapHit(e, q) THEN Len(snap[e]) ELSE 0]
  /\ ramHit' = [ramHit EXCEPT ![e] = NoBlob]
  /\ Go(e, IF SnapHit(e, q) THEN "chunks" ELSE "ram")
  /\ UNCHANGED <<cacheVars, ramVars, handoffVars, cands, slot, stage, lastPersist, snap,
                 crashes>>

(* The RAM tier: find() returns a shared_ptr and touches the blob. *)
RamFind(e) ==
  LET b == Best(Prompt(e))
  IN /\ At(e, "ram")
     /\ IF b = NoBlob
        THEN Go(e, "disk") /\ UNCHANGED <<lru, base, ramHit, lastPersist>>
        ELSE /\ Go(e, "import")
             /\ lru' = Touched(b)
             /\ ramHit' = [ramHit EXCEPT ![e] = b]
             /\ base' = [base EXCEPT ![e] = Len(toks[b])]
             /\ lastPersist' = [lastPersist EXCEPT ![e] = Len(toks[b])]
     /\ UNCHANGED <<cacheVars, slots, toks, mem, handoffVars, req, cands, slot, stage,
                    snap, gpu, served, crashes>>

(* The disk tier's find() copies the index under m_ ... *)
DiskFind(e) ==
  /\ At(e, "disk")
  /\ cands' = [cands EXCEPT ![e] =
                 {n \in Candidates(Prompt(e)) : n[2] >= MinTokens}]
  /\ Go(e, "verify")
  /\ UNCHANGED <<cacheVars, ramVars, handoffVars, req, base, slot, ramHit, stage,
                 lastPersist, snap, gpu, served, crashes>>

(* ... and verifies what it copied, longest first, without it.  When no    *)
(* candidate is left the prefill is cold and the chain a new one.          *)
Longest(S) == CHOOSE n \in S : \A m \in S : m[2] <= n[2]

VerifyNext(e) ==
  /\ At(e, "verify")
  /\ IF cands[e] = {}
     THEN /\ Go(e, "chunks")
          /\ lastPersist' = [lastPersist EXCEPT ![e] = 0]
          /\ UNCHANGED cands
     ELSE /\ UNCHANGED lastPersist
          /\ IF Verify(Longest(cands[e]), Prompt(e))
             THEN Go(e, "acquire") /\ UNCHANGED cands
             ELSE UNCHANGED epc /\ cands' = [cands EXCEPT ![e] = @ \ {Longest(@)}]
  /\ UNCHANGED <<cacheVars, ramVars, handoffVars, req, base, slot, ramHit, stage, snap, gpu,
                 served, crashes>>

(* The destination: a RAM blob if the tier grants one, else pfx_stage. *)
AcquireForRead(e) ==
  /\ At(e, "acquire")
  /\ \E g \in Grants(Held) :
       /\ slot' = [slot EXCEPT ![e] = g.blob]
       /\ lru' = g.lru
       /\ slots' = g.slots
       /\ toks' = IF g.blob = NoBlob THEN toks ELSE [toks EXCEPT ![g.blob] = <<>>]
  /\ Go(e, "read")
  /\ UNCHANGED <<cacheVars, mem, handoffVars, req, base, cands, ramHit, stage, lastPersist,
                 snap, gpu, served, crashes>>

(* read_state() opens the file again; what it reads is published as a      *)
(* prefix of this prompt.                                                  *)
ReadState(e) ==
  LET n == Longest(cands[e]) IN
  /\ At(e, "read")
  /\ CanReadState(n)
  /\ base' = [base EXCEPT ![e] = n[2]]
  /\ lastPersist' = [lastPersist EXCEPT ![e] = n[2]]
  /\ IF slot[e] = NoBlob
     THEN stage' = [stage EXCEPT ![e] = StateRead(n)] /\ UNCHANGED <<lru, toks, mem>>
     ELSE /\ mem' = [mem EXCEPT ![slot[e]] = StateRead(n)]
          /\ lru' = PublishedLru(lru, toks, slot[e], Cut(req[e], n[2]))
          /\ toks' = [toks EXCEPT ![slot[e]] = Cut(req[e], n[2])]
          /\ UNCHANGED stage
  /\ ramHit' = [ramHit EXCEPT ![e] = slot[e]]
  /\ slot' = [slot EXCEPT ![e] = NoBlob]
  /\ cands' = [cands EXCEPT ![e] = {}]
  /\ Go(e, "import")
  /\ UNCHANGED <<cacheVars, slots, handoffVars, req, snap, gpu, served, crashes>>

(* The file is gone or the read fails: cold prefill; an acquired blob is   *)
(* dropped with the local that held it, overwritten in part.               *)
ReadFails(e) ==
  /\ At(e, "read")
  /\ slot' = [slot EXCEPT ![e] = NoBlob]
  /\ mem' = IF slot[e] = NoBlob THEN mem ELSE [mem EXCEPT ![slot[e]] = Hole]
  /\ cands' = [cands EXCEPT ![e] = {}]
  /\ lastPersist' = [lastPersist EXCEPT ![e] = 0]
  /\ Go(e, "chunks")
  /\ UNCHANGED <<cacheVars, lru, slots, toks, handoffVars, req, base, ramHit, stage,
                 snap, gpu, served, crashes>>

(* pfx_import *)
ImportedFrom(e) == IF ramHit[e] # NoBlob THEN mem[ramHit[e]] ELSE stage[e]

Import(e) ==
  /\ At(e, "import")
  /\ ramHit' = [ramHit EXCEPT ![e] = NoBlob]
  /\ Go(e, "chunks")
  /\ UNCHANGED <<cacheVars, ramVars, handoffVars, req, base, cands, slot, stage, lastPersist,
                 snap, gpu, served, crashes>>

-----------------------------------------------------------------------------
(* Persist. *)

ShouldPersist(e, L) ==
  /\ wpc[e] = "idle"
  /\ L \in MinTokens .. MaxTokens
  /\ lastPersist[e] = 0 \/ L - lastPersist[e] >= StepTokens
  /\ ~Has(Cut(req[e], L))

(* pfx_persist: export into a blob, which is published at once, or into    *)
(* pfx_wstage; the writer thread streams it from there.                    *)
Persist(e, L) ==
  LET p == Cut(req[e], L) IN
  /\ StartWrite(e, p)
  /\ lastPersist' = [lastPersist EXCEPT ![e] = L]
  /\ \E g \in Grants(Held) :
       /\ slots' = g.slots
       /\ wslot' = [wslot EXCEPT ![e] = g.blob]
       /\ IF g.blob = NoBlob
          THEN /\ wstage' = [wstage EXCEPT ![e] = p]
               /\ lru' = g.lru
               /\ UNCHANGED <<toks, mem>>
          ELSE /\ mem' = [mem EXCEPT ![g.blob] = p]
               /\ lru' = PublishedLru(g.lru, toks, g.blob, p)
               /\ toks' = [toks EXCEPT ![g.blob] = p]
               /\ UNCHANGED wstage

PersistAt(e, L) ==
  IF L > 0 /\ ShouldPersist(e, L) THEN Persist(e, L)
  ELSE UNCHANGED <<cacheVars, ramVars, handoffVars, lastPersist>>

(* The chunks up to the end of the system block, which a cold prefill may  *)
(* persist; then a gap at which other engines may run.                     *)
SystemChunks(e) ==
  /\ At(e, "chunks")
  /\ PersistAt(e, IF base[e] = 0 THEN req[e].sys ELSE 0)
  /\ gpu' = Nobody
  /\ Go(e, "gap")
  /\ UNCHANGED <<req, base, cands, slot, ramHit, stage, snap, served, crashes>>

(* The chunks up to the stable boundary: snap_save, and persist if the     *)
(* boundary is a stable one.  What follows does not touch the tiers.       *)
StableChunks(e) ==
  LET q == req[e]
      stable == q.stable > base[e]
  IN /\ epc[e] = "gap"
     /\ gpu = Nobody
     /\ snap' = [snap EXCEPT ![e] = Cut(q, IF stable THEN q.stable ELSE Len(q.toks) - 1)]
     /\ PersistAt(e, IF stable THEN q.stable ELSE 0)
     /\ Go(e, "idle")
     /\ req' = [req EXCEPT ![e] = NoRequest]
     /\ base' = [base EXCEPT ![e] = 0]
     /\ UNCHANGED <<cands, slot, ramHit, stage, gpu, served, crashes>>

(* The writer thread; its captured shared_ptr goes with it. *)
WriterStep(e) ==
  /\ WriteStep(e, IF wslot[e] # NoBlob THEN mem[wslot[e]] ELSE wstage[e])
  /\ wslot' = [wslot EXCEPT ![e] = IF wpc'[e] = "idle" THEN NoBlob ELSE @]
  /\ UNCHANGED <<ramVars, engineVars, wstage, gpu, served, crashes>>

(* The server is killed or the machine goes down, and it boots again. *)
Crash ==
  /\ crashes < MaxCrashes
  /\ crashes' = crashes + 1
  /\ Rescan
  /\ RamReboot
  /\ epc' = [e \in Engine |-> "idle"]
  /\ req' = [e \in Engine |-> NoRequest]
  /\ base' = [e \in Engine |-> 0]
  /\ cands' = [e \in Engine |-> {}]
  /\ slot' = [e \in Engine |-> NoBlob]
  /\ ramHit' = [e \in Engine |-> NoBlob]
  /\ stage' = [e \in Engine |-> Hole]
  /\ lastPersist' = [e \in Engine |-> 0]
  /\ snap' = [e \in Engine |-> <<>>]
  /\ wslot' = [e \in Engine |-> NoBlob]
  /\ wstage' = [e \in Engine |-> Hole]
  /\ gpu' = Nobody
  /\ UNCHANGED served

Next ==
  \/ \E e \in Engine :
       \/ \E q \in Conv[e] : Begin(e, q)
       \/ RamFind(e) \/ DiskFind(e) \/ VerifyNext(e) \/ AcquireForRead(e)
       \/ ReadState(e) \/ ReadFails(e) \/ Import(e)
       \/ SystemChunks(e) \/ StableChunks(e) \/ WriterStep(e)
  \/ Crash

Spec == Init /\ [][Next]_vars
-----------------------------------------------------------------------------
(* What engine e may persist: the system blocks and the stable prefixes of *)
(* its requests.                                                           *)
Persisted(e) == (UNION {{Cut(q, q.sys), Cut(q, q.stable)} : q \in Conv[e]}) \ {<<>>}

(* No prefix that one engine persists has the key of another that begins a *)
(* prompt of a second engine.                                              *)
KeysApart ==
  \A e, f \in Engine : e # f =>
    \A p \in Persisted(e), r \in UNION {Persisted(g) : g \in Engine}, q \in Conv[f] :
      NameOf(p) = NameOf(r) /\ Cut(q, Len(p)) = r => p = r

(* No two writer threads are at work on one file name.  The code does not  *)
(* see to it: has() is false for both until the first entry is indexed.    *)
WritersApart ==
  \A e, f \in Engine :
    e # f /\ wpc[e] # "idle" /\ wpc[f] # "idle" => NameOf(wtoks[e]) # NameOf(wtoks[f])

-----------------------------------------------------------------------------
(* The index and the RAM tier say what is there: no torn file is indexed,  *)
(* nothing is left behind, and a blob that can be found holds the prefix   *)
(* it is published under (prefix_cache.h, prefix_ram.h).                   *)
TiersHonest == TypeOK /\ TornNeverIndexed /\ NoOrphans /\ RamHonest

(* What is imported into an engine is the state of the first base tokens   *)
(* of its prompt, however the file or the blob it comes from was written,  *)
(* evicted, replaced or shared in the meantime.                            *)
RestoreRight ==
  \A e \in Engine : epc[e] = "import" => ImportedFrom(e) = Cut(req[e], base[e])

-----------------------------------------------------------------------------
(* For TLC *)

Ask(t, s, b) == [toks |-> t, sys |-> s, stable |-> b]

(* Tokens 1 and 4 have the same key. *)
MCKey(p) == IF p = <<>> THEN 0
            ELSE 10 * (p[1] % 3) + (IF Len(p) > 1 THEN p[2] ELSE 0)

(* Engine 1 persists two prefixes that collide and the system block that   *)
(* engine 2 persists too; engine 2 persists the stable prefix on top of it,*)
(* which engine 1 may restore.                                             *)
Overlapping ==
  1 :> {Ask(<<1, 9>>, 0, 1), Ask(<<4, 9>>, 0, 1), Ask(<<2, 5, 8>>, 1, 0)} @@
  2 :> {Ask(<<2, 5, 9>>, 1, 2)}
OverlapPrefixes == {<<1>>, <<4>>, <<2>>, <<2, 5>>}

(* Both engines see conversations with one system block. *)
Shared == [e \in Engine |-> {Ask(<<2, 5>>, 1, 0)}]
SharedPrefixes == {<<2>>}

(* What the future depends on: the files by what they hold and who has     *)
(* them, not by number; not the locals of a thread that is not running,    *)
(* the blobs that nobody has, the times of entries that are gone, nor what *)
(* only a further request or crash would read when there is none.          *)
Content(i) ==
  IF i = Nothing THEN <<>> ELSE <<data[i], crashes < MaxCrashes /\ synced[i]>>
FilesSeen ==
  <<[n \in Name |-> <<Content(tmp[n]), Content(final[n])>>],
    [w \in Engine |->
       IF wfd[w] = Nothing THEN <<>>
       ELSE <<Content(wfd[w]), {n \in Name : tmp[n] = wfd[w]},
              {n \in Name : final[n] = wfd[w]}>>]>>
BlobsSeen == <<lru, slots, [b \in InLru \cup Held |-> <<toks[b], mem[b]>>]>>
IndexSeen == <<[n \in index |-> mtime[n]], clock>>
NoMore(e) == served = MaxRequests /\ epc[e] = "idle"

Relevant ==
  <<FilesSeen, IndexSeen, BlobsSeen, wpc, doomed, epc, req, base, cands, slot, ramHit,
    wslot, gpu, served, crashes,
    [e \in Engine |-> IF NoMore(e) THEN 0 ELSE lastPersist[e]],
    [e \in Engine |-> IF served = MaxRequests THEN <<>> ELSE snap[e]],
    [e \in Engine |-> IF wpc[e] = "idle" THEN <<>> ELSE <<wtoks[e], woff[e], wstage[e]>>],
    [e \in Engine |-> IF epc[e] = "import" THEN stage[e] ELSE <<>>]>>

(* No more requests and no writer at work. *)
Quiet ==
  /\ served = MaxRequests
  /\ \A e \in Engine : epc[e] = "idle" /\ wpc[e] = "idle"
  /\ UNCHANGED vars

MCSpec == Init /\ [][Next \/ Quiet]_vars

=============================================================================
