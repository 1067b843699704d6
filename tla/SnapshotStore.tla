---------------------------- MODULE SnapshotStore ----------------------------
(***************************************************************************)
(* Prefix reuse in the Metal server: each slot's in-memory PrefixCache,    *)
(* and the DiskSnapshotStore that the slots share (disk_snapshot_store.h,  *)
(* snapshot_evict.h, the prompt ingestion of Runtime::run, save_state and  *)
(* load_state).                                                            *)
(*                                                                         *)
(* A prompt is a sequence of blocks: all but the last are ingested by      *)
(* chunks, which leave the logits row stale, the last by steps, which      *)
(* leave it at the prompt's end.  A file is named by the blocks it was     *)
(* saved for.  What an engine holds is the sequence of blocks encoded in   *)
(* it and the one its logits row belongs to.  The store's mutex makes      *)
(* each of its calls one step; the GPU lease covers the calls that touch   *)
(* an engine, and is held across a save, whose rename takes effect before  *)
(* the store hears of it.  File sizes are one; times are the files' order. *)
(***************************************************************************)
EXTENDS Integers, SequencesExt, Functions

CONSTANTS
  Slot, NoSlot,
  Ask,         \* what is asked for: prompts, and how: "plain", "hint" (a
               \* snapshot is wanted), "exact" (a prewarm) or "mtp"
  Budget,      \* max_bytes, in files
  CacheCap,    \* entries of a slot's PrefixCache
  SpinePin,    \* spine_pin
  Block        \* what generation appends

ASSUME StoreAssumption ==
  /\ NoSlot \notin Slot
  /\ \A a \in Ask : /\ a.prompt \in Seq(Nat) /\ a.prompt # <<>>
                    /\ a.as \in {"plain", "hint", "exact", "mtp"}
  /\ Budget \in Nat \ {0} /\ CacheCap \in Nat /\ SpinePin \in BOOLEAN /\ Block \in Nat

VARIABLES
  files,       \* the directory: path -> [holds, logits, resident, sound]
  age,         \* its paths, least recently touched first
  meta,        \* meta_: path -> logits_resident, as last peeked
  lease,       \* the slot whose save holds the GPU lease
  at,          \* at[s]: where the slot's request is
  ask,         \* ask[s]: its prompt and how it was asked for
  cand,        \* disk_path, <<>> for none
  state,       \* state[s]: the blocks encoded in the slot's engine
  logits,      \* logits[s]: the blocks its logits row belongs to
  pend,        \* pend[s]: the blocks that `pending' was predicted from
  hit, took,   \* blocks restored, blocks ingested since
  target,      \* save_at, 0 for none
  gone,        \* the client has gone: the save banks the finished chunks
  wrote,       \* saved_snapshot
  loaded,      \* disk_loaded
  mem          \* mem[s]: PrefixCache entries, most recently used first

requestVars == <<at, ask, cand, hit, took, target, gone, wrote, loaded>>
slotEngineVars == <<state, logits>>
dirVars == <<files, age>>
storeVars == <<dirVars, meta, lease, requestVars, pend, slotEngineVars, mem>>

NoAsk == [prompt |-> <<>>, as |-> "plain"]
Stale == <<>>

Longest(S) == CHOOSE p \in S : \A q \in S : Len(q) <= Len(p)

StoreInit ==
  /\ \E sound \in BOOLEAN : \E p \in {a.prompt : a \in Ask} :
       files = [q \in {p} |-> [holds |-> p, logits |-> p, resident |-> TRUE, sound |-> sound]]
  /\ age = SetToSeq(DOMAIN files)
  /\ meta = <<>>
  /\ lease = NoSlot
  /\ at = [s \in Slot |-> "idle"]
  /\ ask = [s \in Slot |-> NoAsk]
  /\ cand = [s \in Slot |-> <<>>]
  /\ state = [s \in Slot |-> <<>>]
  /\ logits = [s \in Slot |-> Stale]
  /\ pend = [s \in Slot |-> <<>>]
  /\ hit = [s \in Slot |-> 0] /\ took = [s \in Slot |-> 0]
  /\ target = [s \in Slot |-> 0]
  /\ gone = [s \in Slot |-> FALSE]
  /\ wrote = [s \in Slot |-> FALSE] /\ loaded = [s \in Slot |-> FALSE]
  /\ mem = [s \in Slot |-> <<>>]

Put(f, s, v) == f' = [f EXCEPT ![s] = v]
Goto(s, to) == Put(at, s, to)
PromptOf(s) == ask[s].prompt
Done(s) == hit[s] + took[s]
Free == lease = NoSlot

(* The request is over and its locals are gone. *)
Leave(s) ==
  /\ Goto(s, "idle") /\ Put(ask, s, NoAsk) /\ Put(cand, s, <<>>)
  /\ Put(hit, s, 0) /\ Put(took, s, 0) /\ Put(target, s, 0) /\ Put(pend, s, <<>>)
  /\ Put(gone, s, FALSE) /\ Put(wrote, s, FALSE) /\ Put(loaded, s, FALSE)

-----------------------------------------------------------------------------
(* The store *)

Forget(f, P) == [p \in DOMAIN f \ P |-> f[p]]
With(f, p, v) == [q \in DOMAIN f \cup {p} |-> IF q = p THEN v ELSE f[q]]
Touched(p) == Append(SelectSeq(age, LAMBDA q : q # p), p)

Removed(P) ==
  /\ files' = Forget(files, P)
  /\ age' = SelectSeq(age, LAMBDA q : q \notin P)
  /\ meta' = Forget(meta, P)

(* A cached peek is believed; a file that was not peeked is now. *)
Resident(p) == IF p \in DOMAIN meta THEN meta[p] ELSE files[p].resident
Peeked(P) == [p \in DOMAIN meta \cup P |-> IF p \in DOMAIN meta THEN meta[p] ELSE Resident(p)]

(* best_match: the longest stored prefix, except a full-length one whose   *)
(* logits are stale.                                                       *)
Usable(prompt) ==
  {p \in DOMAIN files : IsPrefix(p, prompt) /\ (p = prompt => Resident(p))}

BestMatch(prompt) == IF Usable(prompt) = {} THEN <<>> ELSE Longest(Usable(prompt))

ExactResident(p) == p \in DOMAIN files /\ Resident(p)

(* mark_spine and eviction_order. *)
Spine(p) == \E q \in DOMAIN files : IsStrictPrefix(p, q)

EvictionOrder ==
  IF SpinePin
    THEN SelectSeq(age, LAMBDA p : ~Spine(p)) \o SelectSeq(age, Spine)
    ELSE age

-----------------------------------------------------------------------------
(* A request *)

(* The lookup, before the lease.  A request that speculates stays off the  *)
(* disk.                                                                   *)
Lookup(s) ==
  /\ at[s] = "idle"
  /\ \E a \in Ask :
       /\ Put(ask, s, a)
       /\ IF a.as = "mtp"
            THEN UNCHANGED <<cand, meta, age>>
            ELSE LET best == BestMatch(a.prompt) IN
                 /\ Put(cand, s, best)
                 /\ meta' = Peeked(DOMAIN files)
                 /\ age' = IF best = <<>> THEN age ELSE Touched(best)
  /\ Goto(s, "resume")
  /\ UNCHANGED <<files, lease, pend, slotEngineVars, mem>>
  /\ UNCHANGED <<hit, took, target, gone, wrote, loaded>>

(* PrefixCache::restore: the longest entry of the same kind. *)
Entries(s) ==
  {i \in 1..Len(mem[s]) :
     /\ mem[s][i].mtp = (ask[s].as = "mtp")
     /\ IsPrefix(mem[s][i].tokens, PromptOf(s))}

BestEntry(s) ==
  CHOOSE i \in Entries(s) :
    \A j \in Entries(s) : Len(mem[s][j].tokens) <= Len(mem[s][i].tokens)

MemLen(s) == IF Entries(s) = {} THEN 0 ELSE Len(mem[s][BestEntry(s)].tokens)

ToFront(list, i) == <<list[i]>> \o RemoveAt(list, i)

FromMemory(s) ==
  IF Entries(s) = {}
    THEN /\ Put(state, s, <<>>) /\ Put(hit, s, 0)
         /\ UNCHANGED <<logits, pend, mem>>
    ELSE LET e == mem[s][BestEntry(s)] IN
         /\ Put(state, s, e.state) /\ Put(logits, s, e.logits) /\ Put(pend, s, e.pend)
         /\ Put(hit, s, Len(e.tokens))
         /\ Put(mem, s, ToFront(mem[s], BestEntry(s)))

WantsDisk(s) ==
  /\ cand[s] # <<>>
  /\ Len(cand[s]) > MemLen(s) \/ (ask[s].as = "exact" /\ cand[s] = PromptOf(s))

(* The deeper prefix wins.  A file that has gone meanwhile, that does not  *)
(* load or whose reading fails is removed, and the cache has its turn.     *)
Resume(s) ==
  /\ at[s] = "resume" /\ Free
  /\ \/ /\ ~WantsDisk(s)
        /\ FromMemory(s)
        /\ UNCHANGED <<dirVars, meta, loaded>>
     \/ /\ WantsDisk(s) /\ cand[s] \in DOMAIN files
        /\ LET f == files[cand[s]] IN
           /\ f.sound
           /\ Put(state, s, f.holds) /\ Put(logits, s, f.logits)
           /\ Put(hit, s, Len(cand[s]))
           /\ pend' = [pend EXCEPT ![s] = IF cand[s] = PromptOf(s) THEN f.logits ELSE <<>>]
        /\ Put(loaded, s, TRUE)
        /\ mem' = [mem EXCEPT ![s] = IF Entries(s) = {} THEN @ ELSE ToFront(@, BestEntry(s))]
        /\ UNCHANGED <<dirVars, meta>>
     \/ /\ WantsDisk(s)
        /\ Removed({cand[s]})
        /\ FromMemory(s)
        /\ UNCHANGED loaded
  /\ LET goal == Len(PromptOf(s)) - 1
     IN Put(target, s, IF ask[s].as = "hint" /\ goal > hit'[s] THEN goal ELSE 0)
  /\ Goto(s, "prefill")
  /\ UNCHANGED <<lease, ask, cand, took, gone, wrote>>

(* One chunk; the boundary to save at is reached exactly. *)
Chunk(s) ==
  /\ at[s] = "prefill" /\ Free /\ ask[s].as # "mtp"
  /\ Done(s) < Len(PromptOf(s)) - 1
  /\ Put(state, s, Append(state[s], PromptOf(s)[Done(s) + 1]))
  /\ Put(logits, s, Stale)
  /\ Put(took, s, took[s] + 1)
  /\ IF target[s] = Done(s) + 1
       THEN lease' = s /\ Goto(s, "check")
       ELSE UNCHANGED <<lease, at>>
  /\ UNCHANGED <<dirVars, meta, pend, mem, ask, cand, hit, target, gone, wrote, loaded>>

(* The client has gone: what was ingested is banked if a save was due. *)
ClientGone(s) ==
  /\ at[s] = "prefill" /\ ask[s].as # "mtp"
  /\ Done(s) < Len(PromptOf(s)) - 1
  /\ IF target[s] # 0 /\ took[s] > 0
       THEN /\ Free /\ lease' = s /\ Goto(s, "check") /\ Put(gone, s, TRUE)
            /\ UNCHANGED <<ask, cand, hit, took, target, pend, wrote, loaded>>
       ELSE Leave(s) /\ UNCHANGED lease
  /\ UNCHANGED <<dirVars, meta, slotEngineVars, mem>>

(* The last block, or with speculation all of them: the logits are exact. *)
LastStep(s) ==
  /\ at[s] = "prefill" /\ Free
  /\ Done(s) < Len(PromptOf(s))
  /\ ask[s].as = "mtp" \/ Done(s) = Len(PromptOf(s)) - 1
  /\ LET now == state[s] \o SubSeq(PromptOf(s), Done(s) + 1, Len(PromptOf(s))) IN
     Put(state, s, now) /\ Put(logits, s, now) /\ Put(pend, s, now)
  /\ Put(took, s, Len(PromptOf(s)) - hit[s])
  /\ UNCHANGED <<dirVars, meta, lease, mem, at, ask, cand, hit, target, gone, wrote, loaded>>

(* The prompt is in.  A prewarm saves all of it unless the disk had it. *)
Ingested(s) ==
  /\ at[s] = "prefill" /\ Done(s) = Len(PromptOf(s))
  /\ IF ask[s].as = "exact" /\ ~(loaded[s] /\ cand[s] = PromptOf(s))
       THEN Free /\ lease' = s /\ Goto(s, "write")
       ELSE Goto(s, IF wrote[s] THEN "evict" ELSE "insert") /\ UNCHANGED lease
  /\ UNCHANGED <<dirVars, meta, pend, slotEngineVars, mem>>
  /\ UNCHANGED <<ask, cand, hit, took, target, gone, wrote, loaded>>

-----------------------------------------------------------------------------
(* A save *)

SavePath(s) == SubSeq(PromptOf(s), 1, Done(s))

(* exact_resident: a save with stale logits gives way to an exact one. *)
SaveCheck(s) ==
  /\ at[s] = "check"
  /\ meta' = IF SavePath(s) \in DOMAIN files THEN Peeked({SavePath(s)}) ELSE meta
  /\ IF ~ExactResident(SavePath(s))
       THEN /\ Goto(s, "write")
            /\ UNCHANGED <<lease, ask, cand, hit, took, target, pend, gone, wrote, loaded>>
       ELSE /\ lease' = NoSlot
            /\ IF gone[s] THEN Leave(s)
               ELSE /\ Goto(s, "prefill") /\ Put(target, s, 0)
                    /\ UNCHANGED <<ask, cand, hit, took, pend, gone, wrote, loaded>>
  /\ UNCHANGED <<dirVars, slotEngineVars, mem>>

(* save_state: the rename has happened, or not; either way it may throw. *)
SaveWrite(s) ==
  /\ at[s] = "write"
  /\ \/ /\ files' = With(files, SavePath(s),
                         [holds |-> state[s], logits |-> logits[s],
                          resident |-> ask[s].as = "exact", sound |-> TRUE])
        /\ age' = Touched(SavePath(s))
        /\ \E to \in {"publish", "failed"} : Goto(s, to)
     \/ Goto(s, "failed") /\ UNCHANGED dirVars
  /\ UNCHANGED <<meta, lease, pend, slotEngineVars, mem>>
  /\ UNCHANGED <<ask, cand, hit, took, target, gone, wrote, loaded>>

(* Mutant: what was peeked of the file before is kept. *)
PublishedUntold(s) ==
  /\ at[s] = "publish"
  /\ lease' = NoSlot
  /\ Put(wrote, s, TRUE) /\ Put(target, s, 0)
  /\ Goto(s, IF gone[s] \/ ask[s].as = "exact" THEN "evict" ELSE "prefill")
  /\ UNCHANGED <<dirVars, meta, pend, slotEngineVars, mem, ask, cand, hit, took, gone, loaded>>

(* save_disk_snapshot tells the store, and the lease is released. *)
SavePublished(s) ==
  /\ at[s] = "publish"
  /\ meta' = Forget(meta, {SavePath(s)})
  /\ lease' = NoSlot
  /\ Put(wrote, s, TRUE) /\ Put(target, s, 0)
  /\ Goto(s, IF gone[s] \/ ask[s].as = "exact" THEN "evict" ELSE "prefill")
  /\ UNCHANGED <<dirVars, pend, slotEngineVars, mem, ask, cand, hit, took, gone, loaded>>

(* A save that has thrown ends the request; a bank is best effort. *)
SaveFailed(s) ==
  /\ at[s] = "failed"
  /\ meta' = Forget(meta, {SavePath(s)})
  /\ lease' = NoSlot
  /\ Leave(s)
  /\ UNCHANGED <<dirVars, slotEngineVars, mem>>

(* evict_past_budget, outside the lease. *)
Evict(s) ==
  /\ at[s] = "evict"
  /\ LET excess == Len(age) - Budget
     IN Removed({EvictionOrder[i] : i \in 1..(IF excess > 0 THEN excess ELSE 0)})
  /\ IF gone[s] THEN Leave(s)
     ELSE /\ Goto(s, "insert")
          /\ UNCHANGED <<ask, cand, hit, took, target, pend, gone, wrote, loaded>>
  /\ UNCHANGED <<lease, slotEngineVars, mem>>

-----------------------------------------------------------------------------
(* The rest of the request *)

(* prepare_insert erases every entry of the kind; there is one at most     *)
(* (OneOfAKind).                                                           *)
Erased(list, tokens, mtp) ==
  RemoveFirstMatch(list, LAMBDA e : e.mtp = mtp /\ e.tokens = tokens)

(* prepare_insert and insert. *)
Insert(s) ==
  /\ at[s] = "insert" /\ Free
  /\ LET entry == [tokens |-> PromptOf(s), mtp |-> ask[s].as = "mtp", pend |-> pend[s],
                   state |-> state[s], logits |-> logits[s]]
         others == Erased(mem[s], entry.tokens, entry.mtp)
         room == IF Len(others) >= CacheCap THEN CacheCap - 1 ELSE Len(others)
     IN mem' = [mem EXCEPT ![s] = IF CacheCap = 0 THEN @
                                  ELSE <<entry>> \o SubSeq(others, 1, room)]
  /\ Goto(s, "generate")
  /\ UNCHANGED <<dirVars, meta, lease, pend, slotEngineVars, ask, cand, hit, took, target, gone,
                 wrote, loaded>>

(* Generation moves the engine past the prompt. *)
Generate(s) ==
  /\ at[s] = "generate" /\ Free
  /\ Put(state, s, Append(state[s], Block)) /\ Put(logits, s, state'[s])
  /\ Leave(s)
  /\ UNCHANGED <<dirVars, meta, lease, mem>>

(* An engine call throws, or the request turns out too long. *)
Fails(s) ==
  /\ at[s] \in {"prefill", "insert"} /\ Free
  /\ Leave(s)
  /\ UNCHANGED <<dirVars, meta, lease, slotEngineVars, mem>>

StoreNext ==
  \E s \in Slot :
    \/ Lookup(s) \/ Resume(s) \/ Chunk(s) \/ ClientGone(s) \/ LastStep(s) \/ Ingested(s)
    \/ SaveCheck(s) \/ SaveWrite(s) \/ SavePublished(s) \/ SaveFailed(s) \/ Evict(s)
    \/ Insert(s) \/ Generate(s) \/ Fails(s)

StoreSpec == StoreInit /\ [][StoreNext]_storeVars

-----------------------------------------------------------------------------
(* Properties *)

(* What is resumed is the prompt's: whatever tier it came from, and        *)
(* whatever the other slots saved, evicted and rejected between the lookup *)
(* and the lease, the engine holds exactly the blocks that ingestion goes  *)
(* on from, and a file holds what its name says.                           *)
ResumeRight ==
  /\ \A s \in Slot : at[s] \in {"prefill", "check", "write", "insert", "generate"}
       => state[s] = SavePath(s)
  /\ \A p \in DOMAIN files : files[p].sound => files[p].holds = p

(* The metadata cache is true: what was peeked of a path is what the file  *)
(* there says now, except between a rename and the end of its save.        *)
MetaHonest ==
  \A p \in DOMAIN meta :
    \/ p \in DOMAIN files /\ meta[p] = files[p].resident
    \/ lease # NoSlot /\ at[lease] \in {"publish", "failed"} /\ SavePath(lease) = p

(* What the Metal server takes from a file is what it believes it to be.   *)
(* A request resumes from its own blocks, whatever the other slots save,   *)
(* evict and reject between its lookup and its lease, and the cached       *)
(* metadata is that of the files (metal_server.cpp, disk_snapshot_store.h).*)
StoreHonest == ResumeRight /\ MetaHonest

(* A slot's memory cache has one entry of a kind at most: each is put in   *)
(* once its like has been erased, and a restore only reorders them.        *)
Alike(d, e) == d.mtp = e.mtp /\ d.tokens = e.tokens
Unlike(list) == \A i, j \in 1..Len(list) : i # j => ~Alike(list[i], list[j])
OneOfAKind == \A s \in Slot : Unlike(mem[s])

(* "an older save decision cannot downgrade a newly installed exact        *)
(* prefix": no save puts stale logits over exact ones.                     *)
KeepsExact ==
  \A p \in DOMAIN files \cap DOMAIN files' :
    files[p].sound /\ files[p].resident => files'[p].resident

(* A request generates, and an entry is cached, with the prediction made   *)
(* from its own prompt: "a same-length request can never derive a pending  *)
(* token" from a snapshot whose logits are stale.                          *)
PendingRight ==
  \A s \in Slot : at[s] = "generate" => pend[s] = PromptOf(s)

-----------------------------------------------------------------------------
(* For TLC *)

Symmetry == Permutations(Slot)
(* An engine between two requests holds what no request will read. *)
Between(s) == at[s] \in {"idle", "resume"}
Live == <<files, age, meta, lease, requestVars, pend, mem,
          [s \in Slot |-> IF Between(s) THEN <<>> ELSE <<state[s], logits[s]>>]>>

(* A prompt and a longer one that begins with it. *)
One == <<1, 2>>
Two == <<1, 2, 3>>
Asked(p, how) == [prompt |-> p, as |-> how]
Chain == {Asked(One, "exact"), Asked(One, "mtp"), Asked(Two, "hint")}
=============================================================================
