----------------------------- MODULE PrefixCache -----------------------------
(***************************************************************************)
(* The disk tier of the prefix cache (src/prefix_cache.h): one file per    *)
(* persisted prefix, written to a temporary name by a background thread,   *)
(* synced, renamed and entered into an in-memory index; evicted oldest     *)
(* first to a byte budget; found again by scanning the directory at boot.  *)
(*                                                                         *)
(* A prefix is its token vector, a non-empty sequence, and also stands for *)
(* the engine state it leads to.  A file has three parts: header, tokens,  *)
(* state (GDN and KV written as one).  Every descriptor keeps its own offset, so a writer *)
(* whose file was truncated by another leaves a hole where it had written. *)
(* Only m_'s critical sections are atomic; each system call is a step.     *)
(***************************************************************************)
EXTENDS Integers, Sequences, FiniteSets

CONSTANTS
  Engine,      \* the engines, each with one background writer thread
  Prefix,      \* the token vectors that can be persisted
  Key(_),      \* pfx_fnv1a64 of a token vector: distinct vectors may share it
  MaxEntries,  \* cfg_.max_bytes, in entries: all entries have one size here
  MaxClock     \* bound: how often the seconds of time(nullptr) advance

ASSUME PrefixCacheAssumption ==
  /\ IsFiniteSet(Engine) /\ IsFiniteSet(Prefix)
  /\ Prefix \subseteq Seq(Int) \ {<<>>}
  /\ MaxEntries \in Nat /\ MaxClock \in Nat

(* "%016llx-%d.q27pc": the file name is made from the key and the length. *)
NameOf(p) == <<Key(p), Len(p)>>
Name == {NameOf(p) : p \in Prefix}

Parts == 3             \* header, tokens, state, in the order of the writes
Hole == <<>>           \* what a part reads as that nobody wrote
Nothing == 0           \* no file

(* Each name has at most two files, and each writer may hold an unlinked one. *)
Inode == 1 .. 2 * Cardinality(Name) + Cardinality(Engine)

VARIABLES
  data,     \* data[i]: the parts of file i up to its end
  synced,   \* synced[i]: no write to file i since it was fsynced
  tmp,      \* tmp[n]: the file under name n ".tmp", or Nothing
  final,    \* final[n]: the file under name n, or Nothing
  index,    \* index_, as the names of its entries
  mtime,    \* mtime[n]: Entry::mtime
  clock,    \* time(nullptr)
  wpc,      \* wpc[w]: where w's writer thread is in write()
  wtoks,    \* wtoks[w]: the prefix it writes
  wfd,      \* wfd[w]: its open file
  woff,     \* woff[w]: parts written, the descriptor's offset
  doomed    \* doomed[w]: names evict_to_budget has yet to unlink

fileVars == <<data, synced, tmp, final>>
indexVars == <<index, mtime, clock>>
writerVars == <<wpc, wtoks, wfd, woff, doomed>>
cacheVars == <<fileVars, indexVars, writerVars>>

WriterPc == {"idle", "open", "write", "rename", "fail", "index", "evict", "unlink"}

CacheInit ==
  /\ data = [i \in Inode |-> <<>>]
  /\ synced = [i \in Inode |-> TRUE]
  /\ tmp = [n \in Name |-> Nothing]
  /\ final = [n \in Name |-> Nothing]
  /\ index = {}
  /\ mtime = [n \in Name |-> 0]
  /\ clock = 0
  /\ wpc = [w \in Engine |-> "idle"]
  /\ wtoks = [w \in Engine |-> <<>>]
  /\ wfd = [w \in Engine |-> Nothing]
  /\ woff = [w \in Engine |-> 0]
  /\ doomed = [w \in Engine |-> {}]

CacheTypeOK ==
  /\ data \in [Inode -> Seq(Prefix \cup {Hole})]
  /\ \A i \in Inode : Len(data[i]) <= Parts
  /\ synced \in [Inode -> BOOLEAN]
  /\ tmp \in [Name -> Inode \cup {Nothing}]
  /\ final \in [Name -> Inode \cup {Nothing}]
  /\ index \subseteq Name
  /\ mtime \in [Name -> 0 .. MaxClock]
  /\ clock \in 0 .. MaxClock
  /\ wpc \in [Engine -> WriterPc]
  /\ wtoks \in [Engine -> Prefix \cup {<<>>}]
  /\ wfd \in [Engine -> Inode \cup {Nothing}]
  /\ woff \in [Engine -> 0 .. Parts]
  /\ doomed \in [Engine -> SUBSET Name]

-----------------------------------------------------------------------------
(* Reading. *)

(* has(): by length and key only. *)
Has(p) == NameOf(p) \in index

(* verify(): the stored tokens are compared.  A bug would trust the key. *)
VerifyTrustsKey(n, prompt) == final[n] # Nothing
Verify(n, prompt) ==
  /\ final[n] # Nothing
  /\ Len(data[final[n]]) >= 2
  /\ data[final[n]][2] = SubSeq(prompt, 1, n[2])

(* find()'s filter: long enough to leave a token to decode, same key. *)
Candidates(prompt) ==
  {n \in index : n[2] < Len(prompt) /\ Key(SubSeq(prompt, 1, n[2])) = n[1]}

HeaderOK(i) == Len(data[i]) >= 1 /\ data[i][1] # Hole

(* read_state(): the header is checked again, then the state is read. *)
CanReadState(n) ==
  /\ final[n] # Nothing
  /\ HeaderOK(final[n])
  /\ Len(data[final[n]]) = Parts

StateRead(n) == data[final[n]][3]

-----------------------------------------------------------------------------
(* write(), on a background thread. *)

Unused == {i \in Inode : /\ \A n \in Name : tmp[n] # i /\ final[n] # i
                         /\ \A w \in Engine : wfd[w] # i}

(* open(tmp_path, O_CREAT | O_TRUNC): reuses a file of that name. *)
OpenTmp(w) ==
  LET n == NameOf(wtoks[w])
      i == IF tmp[n] # Nothing THEN tmp[n]
           ELSE CHOOSE u \in Unused : \A v \in Unused : u <= v
  IN /\ wpc[w] = "open"
     /\ data' = [data EXCEPT ![i] = <<>>]
     /\ synced' = [synced EXCEPT ![i] = FALSE]
     /\ tmp' = [tmp EXCEPT ![n] = i]
     /\ wfd' = [wfd EXCEPT ![w] = i]
     /\ woff' = [woff EXCEPT ![w] = 0]
     /\ wpc' = [wpc EXCEPT ![w] = "write"]
     /\ UNCHANGED <<final, indexVars, wtoks, doomed>>

OpenFails(w) ==
  /\ wpc[w] = "open"
  /\ wpc' = [wpc EXCEPT ![w] = "idle"]
  /\ UNCHANGED <<fileVars, indexVars, wtoks, wfd, woff, doomed>>

(* What a file holds once part k of it has been written. *)
Written(d, k, part) ==
  [j \in 1 .. (IF k > Len(d) THEN k ELSE Len(d)) |->
     IF j = k THEN part ELSE IF j <= Len(d) THEN d[j] ELSE Hole]

(* The next write_full; state is what the writer's buffer holds now. *)
WritePart(w, state) ==
  /\ wpc[w] = "write"
  /\ woff[w] < Parts
  /\ LET k == woff[w] + 1 IN
       /\ data' = [data EXCEPT ![wfd[w]] =
                     Written(@, k, IF k <= 2 THEN wtoks[w] ELSE state)]
       /\ woff' = [woff EXCEPT ![w] = k]
  /\ synced' = [synced EXCEPT ![wfd[w]] = FALSE]
  /\ UNCHANGED <<tmp, final, indexVars, wpc, wtoks, wfd, doomed>>

(* A write or the fsync fails. *)
WriteFails(w) ==
  /\ wpc[w] = "write"
  /\ wpc' = [wpc EXCEPT ![w] = "fail"]
  /\ wfd' = [wfd EXCEPT ![w] = Nothing]
  /\ UNCHANGED <<fileVars, indexVars, wtoks, woff, doomed>>

(* fsync, close.  A bug would leave the data to the page cache. *)
CloseUnsynced(w) ==
  /\ wpc[w] = "write"
  /\ woff[w] = Parts
  /\ wfd' = [wfd EXCEPT ![w] = Nothing]
  /\ wpc' = [wpc EXCEPT ![w] = "rename"]
  /\ UNCHANGED <<fileVars, indexVars, wtoks, woff, doomed>>

SyncClose(w) ==
  /\ wpc[w] = "write"
  /\ woff[w] = Parts
  /\ synced' = [synced EXCEPT ![wfd[w]] = TRUE]
  /\ wfd' = [wfd EXCEPT ![w] = Nothing]
  /\ wpc' = [wpc EXCEPT ![w] = "rename"]
  /\ UNCHANGED <<data, tmp, final, indexVars, wtoks, woff, doomed>>

(* The contents once file i has lost a name: gone, unless somebody has it  *)
(* open.                                                                   *)
Unlinked(i) ==
  [j \in Inode |-> IF j = i /\ \A w \in Engine : wfd[w] # i THEN <<>> ELSE data[j]]

(* rename(tmp_path, final_path) fails when the temporary name is gone. *)
Rename(w) ==
  LET n == NameOf(wtoks[w])
  IN /\ wpc[w] = "rename"
     /\ tmp[n] # Nothing
     /\ final' = [final EXCEPT ![n] = tmp[n]]
     /\ data' = Unlinked(final[n])
     /\ tmp' = [tmp EXCEPT ![n] = Nothing]
     /\ wpc' = [wpc EXCEPT ![w] = "index"]
     /\ UNCHANGED <<synced, indexVars, wtoks, wfd, woff, doomed>>

RenameFails(w) ==
  /\ wpc[w] = "rename"
  /\ wpc' = [wpc EXCEPT ![w] = "fail"]
  /\ UNCHANGED <<fileVars, indexVars, wtoks, wfd, woff, doomed>>

(* The error path unlinks the temporary name. *)
UnlinkTmp(w) ==
  /\ wpc[w] = "fail"
  /\ tmp' = [tmp EXCEPT ![NameOf(wtoks[w])] = Nothing]
  /\ data' = Unlinked(tmp[NameOf(wtoks[w])])
  /\ wpc' = [wpc EXCEPT ![w] = "idle"]
  /\ UNCHANGED <<synced, final, indexVars, wtoks, wfd, woff, doomed>>

(* The entry replaces one of the same path in index_; its mtime is now. *)
IndexEntry(w) ==
  LET n == NameOf(wtoks[w])
  IN /\ wpc[w] = "index"
     /\ clock' \in {clock, clock + 1} \cap 0 .. MaxClock
     /\ index' = index \cup {n}
     /\ mtime' = [mtime EXCEPT ![n] = clock']
     /\ wpc' = [wpc EXCEPT ![w] = "evict"]
     /\ UNCHANGED <<fileVars, wtoks, wfd, woff, doomed>>

(* evict_to_budget() under m_: oldest first, in any order within a second. *)
OldestFirst(D) ==
  /\ Cardinality(index \ D) <= MaxEntries
  /\ \A E \in SUBSET D : Cardinality(index \ E) <= MaxEntries => E = D
  /\ \A n \in D, m \in index \ D : mtime[n] <= mtime[m]

Evict(w) ==
  /\ wpc[w] = "evict"
  /\ \E D \in SUBSET index :
       /\ OldestFirst(D)
       /\ index' = index \ D
       /\ doomed' = [doomed EXCEPT ![w] = D]
       /\ wpc' = [wpc EXCEPT ![w] = IF D = {} THEN "idle" ELSE "unlink"]
  /\ UNCHANGED <<fileVars, mtime, clock, wtoks, wfd, woff>>

(* The doomed files are unlinked after m_ has been released. *)
UnlinkDoomed(w, n) ==
  /\ wpc[w] = "unlink"
  /\ n \in doomed[w]
  /\ final' = [final EXCEPT ![n] = Nothing]
  /\ data' = Unlinked(final[n])
  /\ doomed' = [doomed EXCEPT ![w] = @ \ {n}]
  /\ wpc' = [wpc EXCEPT ![w] = IF doomed[w] = {n} THEN "idle" ELSE "unlink"]
  /\ UNCHANGED <<synced, tmp, indexVars, wtoks, wfd, woff>>

-----------------------------------------------------------------------------
(* A killed process or a lost machine, and init() of the next one. *)

(* What a crash may leave of file i: all of it once it is synced; else the *)
(* file may be shorter, or have its length without all of its data.        *)
Leftovers(i) ==
  IF synced[i] THEN {data[i]}
  ELSE {SubSeq(data[i], 1, k) : k \in 0 .. Len(data[i])} \cup
       {[j \in 1 .. Len(data[i]) |-> IF j <= k THEN data[i][j] ELSE Hole] :
          k \in 0 .. Len(data[i])}

Published == {final[n] : n \in Name} \ {Nothing}

(* rescan() indexes files with a good header and the size it promises. *)
WellFormed(d) == Len(d) = Parts /\ d[1] # Hole

(* Temporary files are swept, whole entries indexed by their header. *)
Rescan ==
  /\ \E left \in [Published -> UNION {Leftovers(i) : i \in Published}] :
       /\ \A i \in Published : left[i] \in Leftovers(i)
       /\ data' = [i \in Inode |-> IF i \in Published THEN left[i] ELSE <<>>]
  /\ synced' = [i \in Inode |-> TRUE]
  /\ tmp' = [n \in Name |-> Nothing]
  /\ index' = {n \in Name : final[n] # Nothing /\ WellFormed(data'[final[n]])}
  /\ mtime' = [n \in Name |-> IF n \in index THEN mtime[n] ELSE clock]
  /\ wpc' = [w \in Engine |-> "idle"]
  /\ wtoks' = [w \in Engine |-> <<>>]
  /\ wfd' = [w \in Engine |-> Nothing]
  /\ woff' = [w \in Engine |-> 0]
  /\ doomed' = [w \in Engine |-> {}]
  /\ UNCHANGED <<final, clock>>

-----------------------------------------------------------------------------
(* write() started on p by the engine that owns the writer. *)
StartWrite(w, p) ==
  /\ wpc[w] = "idle"
  /\ wpc' = [wpc EXCEPT ![w] = "open"]
  /\ wtoks' = [wtoks EXCEPT ![w] = p]
  /\ UNCHANGED <<fileVars, indexVars, wfd, woff, doomed>>

WriteStep(w, state) ==
  \/ OpenTmp(w) \/ OpenFails(w) \/ WritePart(w, state) \/ WriteFails(w)
  \/ SyncClose(w) \/ Rename(w) \/ RenameFails(w) \/ UnlinkTmp(w)
  \/ IndexEntry(w) \/ Evict(w) \/ \E n \in Name : UnlinkDoomed(w, n)

-----------------------------------------------------------------------------
(* File i is a complete entry for the name n. *)
Whole(i, n) ==
  /\ Len(data[i]) = Parts
  /\ \A j \in 1 .. Parts : data[i][j] # Hole /\ data[i][j] = data[i][1]
  /\ NameOf(data[i][1]) = n

(* "A torn write can therefore never be indexed": what an index entry's    *)
(* file holds is one prefix, whole, whatever crashed or failed before.     *)
TornNeverIndexed ==
  \A n \in index : final[n] # Nothing => Whole(final[n], n)

(* No file is left behind that nothing will ever remove: a temporary file  *)
(* has its writer, and an entry is indexed, about to be, or doomed.        *)
NoOrphans ==
  \A n \in Name :
    /\ tmp[n] # Nothing =>
         \E w \in Engine : wpc[w] \in {"write", "rename", "fail"} /\ NameOf(wtoks[w]) = n
    /\ final[n] # Nothing =>
         \/ n \in index
         \/ \E w \in Engine : n \in doomed[w]
         \/ \E w \in Engine : wpc[w] = "index" /\ NameOf(wtoks[w]) = n
=============================================================================
