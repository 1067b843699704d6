------------------------------ MODULE PrefixRam ------------------------------
(***************************************************************************)
(* The host-RAM tier (src/prefix_ram.h): a fixed number of pinned blobs in *)
(* least-recently-used order.  A blob is handed out by shared_ptr; whoever *)
(* else holds one (an engine restoring from it, a writer streaming it to   *)
(* disk) keeps acquire() from taking it for another prefix.  Every         *)
(* operation is one critical section of m_, and is written here as the     *)
(* value it returns or the new value of what it changes, so that the       *)
(* engine can make several of them in one step.                            *)
(***************************************************************************)
EXTENDS Integers, FiniteSets, SequencesExt

CONSTANTS
  NBlobs,    \* bound: pinned allocations alive at once
  MaxSlots   \* budget_bytes / slot_bytes

ASSUME PrefixRamAssumption == MaxSlots \in Nat /\ NBlobs \in Nat /\ MaxSlots <= NBlobs

Blob == 1 .. NBlobs
NoBlob == 0

VARIABLES
  lru,      \* lru_, least recently used first
  slots,    \* max_slots_; 0 when the tier is off
  toks,     \* toks[b]: Blob::toks, empty while the blob is in flight
  mem       \* mem[b]: the prefix whose state is in the pinned memory

ramVars == <<lru, slots, toks, mem>>

InLru == ToSet(lru)

(* init() and prealloc(): as many slots as can be pinned, all empty. *)
RamInit ==
  /\ slots \in 0 .. MaxSlots
  /\ lru = [j \in 1 .. slots |-> j]
  /\ toks = [b \in Blob |-> <<>>]
  /\ mem = [b \in Blob |-> <<>>]

RamReboot ==
  /\ slots' \in 0 .. MaxSlots
  /\ lru' = [j \in 1 .. slots' |-> j]
  /\ toks' = [b \in Blob |-> <<>>]
  /\ mem' = [b \in Blob |-> <<>>]

RamTypeOK ==
  /\ lru \in Seq(Blob) /\ IsInjective(lru)
  /\ slots \in 0 .. MaxSlots

(* find(): the longest published prefix that leaves a token to decode. *)
Resident(prompt) ==
  {b \in InLru : toks[b] # <<>> /\ Len(toks[b]) < Len(prompt) /\ IsPrefix(toks[b], prompt)}

Best(prompt) ==
  IF slots = 0 \/ Resident(prompt) = {} THEN NoBlob
  ELSE CHOOSE b \in Resident(prompt) :
         \A c \in Resident(prompt) : Len(toks[c]) <= Len(toks[b])

(* erase: the blobs of l that are not in gone, in their order. *)
Without(l, gone) ==
  LET kept[i \in 0 .. Len(l)] ==
        IF i = 0 THEN <<>>
        ELSE IF l[i] \in gone THEN kept[i - 1] ELSE Append(kept[i - 1], l[i])
  IN kept[Len(l)]

Touched(b) == Append(Without(lru, {b}), b)

(* acquire(): who may be taken when the tier is full.  held are the blobs  *)
(* with a use_count above 1.                                               *)
Evictable(held) == {j \in DOMAIN lru : lru[j] \notin held}

(* acquire(): the blob, the new lru_ and max_slots_.  Below its slots the  *)
(* tier calls cudaMallocHost, which may fail and turn the tier off.        *)
Grant(b, l, k) == [blob |-> b, lru |-> l, slots |-> k]
Denied == Grant(NoBlob, lru, slots)

Grants(held) ==
  IF slots = 0 THEN {Denied}
  ELSE IF Len(lru) >= slots
  THEN IF Evictable(held) = {} THEN {Denied}
       ELSE LET j == Min(Evictable(held)) IN {Grant(lru[j], RemoveAt(lru, j), slots)}
  ELSE {Grant(Min({b \in Blob : b \notin held \cup InLru}), lru, slots),
        Grant(NoBlob, lru, 0)}

(* publish() of b for p into l: other blobs of the same prefix go, b comes *)
(* last.  t are the token vectors before.                                  *)
PublishedLru(l, t, b, p) ==
  Append(Without(l, {x \in Blob : x = b \/ t[x] = p}), b)

-----------------------------------------------------------------------------
(* A blob that find() can return holds the state of the prefix it is       *)
(* published under: none is refilled while it is findable.                 *)
RamHonest == \A b \in InLru : toks[b] # <<>> => mem[b] = toks[b]
=============================================================================
