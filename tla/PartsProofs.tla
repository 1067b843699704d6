---------------------------- MODULE PartsProofs ----------------------------
(***************************************************************************)
(* The components that MCParts checks side by side, each proved on its     *)
(* own, for every value of its constants: the Metal snapshot store with    *)
(* the in-memory prefix cache, and the agent's engine, its sessions on     *)
(* disk and its file tools.  They share no state; each section has its own *)
(* invariant, the frame its steps keep, one lemma for each action and the  *)
(* theorems.                                                               *)
(***************************************************************************)
EXTENDS SnapshotStore, AgentEngine, AgentSession, AgentTools, TLAPS, FiniteSetTheorems,
        SequenceTheorems, NaturalsInduction, WellFoundedInduction

(***************************************************************************)
(* The snapshot store                                                      *)
(***************************************************************************)

Path == Seq(Nat)
File == [holds : Path, logits : Path, resident : BOOLEAN, sound : BOOLEAN]
Cached == [tokens : Path, mtp : BOOLEAN, pend : Path, state : Path, logits : Path]

(* An entry of the in-memory cache is the state of its own tokens. *)
SoundEntry == {e \in Cached : e.state = e.tokens}

RequestAt ==
  {"idle", "resume", "prefill", "check", "write", "publish", "failed", "evict", "insert",
   "generate"}
Saving == {"check", "write", "publish", "failed"}

StoreTypes ==
  /\ at \in [Slot -> RequestAt] /\ ask \in [Slot -> Ask \cup {NoAsk}]
  /\ cand \in [Slot -> Path] /\ state \in [Slot -> Path] /\ logits \in [Slot -> Path]
  /\ pend \in [Slot -> Path]
  /\ hit \in [Slot -> Nat] /\ took \in [Slot -> Nat] /\ target \in [Slot -> Nat]
  /\ gone \in [Slot -> BOOLEAN]
  /\ mem \in [Slot -> Seq(SoundEntry)]
  /\ lease \in Slot \cup {NoSlot}

(* A file that loads holds what its name says. *)
FilesInv ==
  \A p \in DOMAIN files : p \in Path /\ files[p] \in File /\ (files[p].sound => files[p].holds = p)

(* The lease is held across a save, by the slot that saves. *)
LeaseInv == \A s \in Slot : at[s] \in Saving <=> lease = s

(* A request's locals, where it is: the file that was looked up is named   *)
(* by a prefix of the prompt; what is ingested is in the engine; all of    *)
(* it, when the request is past its prompt; and whoever is about to save   *)
(* stale logits has seen, under the lease, that there are no exact ones.   *)
RequestInv(s) ==
  /\ at[s] # "idle" => ask[s] \in Ask
  /\ at[s] = "idle" => cand[s] = <<>>
  /\ at[s] \in {"idle", "resume"} => took[s] = 0
  /\ at[s] = "resume" => \/ cand[s] = <<>>
                         \/ /\ Len(cand[s]) <= Len(PromptOf(s))
                            /\ cand[s] = SubSeq(PromptOf(s), 1, Len(cand[s]))
  /\ at[s] \notin {"idle", "resume"} => Done(s) <= Len(PromptOf(s)) /\ state[s] = SavePath(s)
  /\ gone[s] => at[s] \in Saving \cup {"evict"}
  /\ \/ at[s] \in {"insert", "generate"}
     \/ at[s] = "evict" /\ ~gone[s]
     \/ at[s] \in Saving /\ ask[s].as = "exact"
     => Done(s) = Len(PromptOf(s))
  /\ at[s] = "check" \/ (at[s] = "prefill" /\ target[s] # 0) => ask[s].as = "hint"
  /\ at[s] = "write" /\ ask[s].as # "exact" /\ SavePath(s) \in DOMAIN files =>
       ~files[SavePath(s)].resident

StoreInv ==
  /\ StoreTypes /\ FilesInv /\ LeaseInv /\ MetaHonest
  /\ \A s \in Slot : RequestInv(s)

-----------------------------------------------------------------------------
(* Sequences *)

LEMMA LeastNatural ==
  ASSUME NEW T \in SUBSET Nat, T # {}
  PROVE  \E n \in T : \A k \in T : n <= k
<1>1. PICK n \in T : \A k \in T : ~ (<<k, n>> \in OpToRel(<, Nat))
  BY NatLessThanWellFounded, WFMin
<1>2. \A k \in T : ~ (k < n)
  BY <1>1 DEF OpToRel
<1> QED BY <1>2

(* A set of naturals below a bound has a largest element. *)
LEMMA LargestNatural ==
  ASSUME NEW B \in Nat, NEW T \in SUBSET (0 .. B), T # {}
  PROVE  \E n \in T : \A k \in T : k <= n
<1> DEFINE U == {x \in Nat : B - x \in T}
<1>1. U # {}
  <2>1. PICK k \in T : TRUE
    OBVIOUS
  <2>2. B - k \in Nat /\ B - (B - k) = k
    BY <2>1
  <2> QED BY <2>1, <2>2
<1>2. PICK x \in U : \A y \in U : x <= y
  BY <1>1, LeastNatural
<1>3. B - x \in T /\ x \in Nat
  BY <1>2
<1>4. ASSUME NEW k \in T PROVE k <= B - x
  <2>1. B - k \in U
    OBVIOUS
  <2> QED BY <1>2, <2>1
<1> QED BY <1>3, <1>4

(* Ingestion, by one block and by all that is left. *)
LEMMA PrefixGrows ==
  ASSUME NEW p \in Path, NEW i \in Nat, i < Len(p)
  PROVE  Append(SubSeq(p, 1, i), p[i + 1]) = SubSeq(p, 1, i + 1)
BY DEF Path

LEMMA PrefixFills ==
  ASSUME NEW p \in Path, NEW i \in Nat, i <= Len(p)
  PROVE  /\ SubSeq(p, 1, i) \o SubSeq(p, i + 1, Len(p)) = SubSeq(p, 1, Len(p))
         /\ SubSeq(p, i + 1, Len(p)) \in Path
<1> DEFINE a == SubSeq(p, 1, i)
           b == SubSeq(p, i + 1, Len(p))
           c == SubSeq(p, 1, Len(p))
<1>1. /\ a \in Seq(Nat) /\ Len(a) = i /\ \A j \in 1 .. i : a[j] = p[j]
  BY DEF Path
<1>2. /\ b \in Seq(Nat) /\ Len(b) = Len(p) - i /\ \A j \in 1 .. Len(p) - i : b[j] = p[i + j]
  BY DEF Path
<1>3. /\ c \in Seq(Nat) /\ Len(c) = Len(p) /\ \A j \in 1 .. Len(p) : c[j] = p[j]
  BY DEF Path
<1> HIDE DEF a, b, c
<1>0. Len(p) \in Nat /\ i \in Nat /\ i + (Len(p) - i) = Len(p)
  BY DEF Path
<1>4. a \o b \in Seq(Nat) /\ Len(a \o b) = Len(p)
  <2>1. a \o b \in Seq(Nat) /\ Len(a \o b) = Len(a) + Len(b)
    BY <1>1, <1>2, ConcatProperties
  <2> QED BY <1>0, <1>1, <1>2, <2>1
<1>5. ASSUME NEW j \in 1 .. Len(p) PROVE (a \o b)[j] = c[j]
  <2>0. Len(p) \in Nat /\ j \in Nat
    BY DEF Path
  <2>1. CASE j <= i
    BY <1>1, <1>2, <1>3, <2>0, <2>1
  <2>2. CASE j > i
    <3>1. (a \o b)[j] = b[j - i] /\ j - i \in 1 .. Len(p) - i /\ i + (j - i) = j
      BY <1>1, <1>2, <2>0, <2>2
    <3> QED BY <1>2, <1>3, <3>1
  <2>3. j <= i \/ j > i
    BY <1>0, <2>0
  <2> QED BY <2>1, <2>2, <2>3
<1>6. a \o b = c
  BY <1>3, <1>4, <1>5, SeqEqual
<1> QED BY <1>2, <1>6 DEF a, b, c, Path

LEMMA PrefixFacts ==
  ASSUME NEW p \in Path, NEW i \in Nat, i <= Len(p)
  PROVE  SubSeq(p, 1, i) \in Path /\ Len(SubSeq(p, 1, i)) = i
BY DEF Path

LEMMA IsPrefixFacts ==
  ASSUME NEW q \in Path, NEW p \in Path, IsPrefix(q, p)
  PROVE  Len(q) \in Nat /\ Len(q) <= Len(p) /\ q = SubSeq(p, 1, Len(q))
BY DEF Path, IsPrefix

LEMMA ToFrontFacts ==
  ASSUME NEW E, NEW l \in Seq(E), NEW i \in 1 .. Len(l)
  PROVE  ToFront(l, i) \in Seq(E)
BY DEF ToFront, RemoveAt

LEMMA ErasedFacts ==
  ASSUME NEW E, NEW l \in Seq(E), NEW t, NEW m
  PROVE  Erased(l, t, m) \in Seq(E) /\ Len(Erased(l, t, m)) \in Nat
<1> DEFINE I == {i \in 1 .. Len(l) : l[i].mtp = m /\ l[i].tokens = t}
<1>1. CASE I = {}
  <2>1. ~ \E i \in 1 .. Len(l) : l[i].mtp = m /\ l[i].tokens = t
    BY <1>1
  <2> QED BY <2>1 DEF Erased, RemoveFirstMatch
<1>2. CASE I # {}
  <2>0. Len(l) \in Nat
    OBVIOUS
  <2>6. I \in SUBSET Nat
    BY <2>0
  <2>1. \E n \in I : \A k \in I : n <= k
    BY <1>2, <2>6, LeastNatural
  <2>2. Min(I) \in I
    BY <2>1 DEF Min
  <2>3. \E i \in 1 .. Len(l) : l[i].mtp = m /\ l[i].tokens = t
    BY <1>2
  <2>4. Erased(l, t, m) = RemoveAt(l, Min(I))
    BY <1>2, <2>3 DEF Erased, RemoveFirstMatch, SelectInSeq
  <2>5. Min(I) \in 1 .. Len(l)
    BY <2>2
  <2> HIDE DEF I
  <2> QED BY <2>4, <2>5 DEF RemoveAt
<1> QED BY <1>1, <1>2

-----------------------------------------------------------------------------
(* The operators of the store *)

LEMMA PromptFacts ==
  ASSUME StoreTypes, NEW s \in Slot
  PROVE  PromptOf(s) \in Path /\ Len(PromptOf(s)) \in Nat
<1>1. ask[s] \in Ask \/ ask[s] = NoAsk
  BY DEF StoreTypes
<1>2. ask[s] \in Ask => PromptOf(s) \in Seq(Nat)
  BY StoreAssumption DEF PromptOf
<1>3. ask[s] = NoAsk => PromptOf(s) = <<>>
  BY DEF PromptOf, NoAsk
<1>5. <<>> \in Seq(Nat)
  OBVIOUS
<1>4. PromptOf(s) \in Seq(Nat)
  BY <1>1, <1>2, <1>3, <1>5
<1> QED BY <1>4 DEF Path

(* The file that is looked up is named by a prefix of the prompt. *)
LEMMA BestMatchFacts ==
  ASSUME FilesInv, NEW p \in Path
  PROVE  /\ BestMatch(p) \in Path
         /\ \/ BestMatch(p) = <<>>
            \/ Len(BestMatch(p)) <= Len(p) /\ BestMatch(p) = SubSeq(p, 1, Len(BestMatch(p)))
<1>1. CASE Usable(p) = {}
  BY <1>1 DEF BestMatch, Path
<1>2. CASE Usable(p) # {}
  <2> DEFINE T == {Len(q) : q \in Usable(p)}
  <2>1. \A q \in Usable(p) : q \in Path /\ IsPrefix(q, p)
    BY DEF Usable, FilesInv
  <2>2. \A q \in Usable(p) : Len(q) \in Nat /\ Len(q) <= Len(p)
    BY <2>1, IsPrefixFacts
  <2>8. Len(p) \in Nat
    BY DEF Path
  <2>9. \A n \in T : n \in 0 .. Len(p)
    BY <2>2, <2>8
  <2>3. T \in SUBSET (0 .. Len(p)) /\ T # {} /\ Len(p) \in Nat
    BY <1>2, <2>8, <2>9
  <2>4. PICK n \in T : \A k \in T : k <= n
    BY <2>3, LargestNatural
  <2>5. \E q \in Usable(p) : \A r \in Usable(p) : Len(r) <= Len(q)
    BY <2>4
  <2>6. Longest(Usable(p)) \in Usable(p)
    BY <2>5 DEF Longest
  <2>7. BestMatch(p) = Longest(Usable(p))
    BY <1>2 DEF BestMatch
  <2> QED BY <2>1, <2>6, <2>7, IsPrefixFacts
<1> QED BY <1>1, <1>2

LEMMA BestEntryFacts ==
  ASSUME StoreTypes, NEW s \in Slot, Entries(s) # {}
  PROVE  LET e == mem[s][BestEntry(s)] IN
         /\ BestEntry(s) \in 1 .. Len(mem[s])
         /\ e \in SoundEntry /\ IsPrefix(e.tokens, PromptOf(s))
<1> DEFINE T == {Len(mem[s][i].tokens) : i \in Entries(s)}
<1>0. mem[s] \in Seq(SoundEntry) /\ PromptOf(s) \in Path /\ Len(PromptOf(s)) \in Nat
  BY PromptFacts DEF StoreTypes
<1>1. \A i \in Entries(s) : /\ i \in 1 .. Len(mem[s]) /\ mem[s][i] \in SoundEntry
                            /\ IsPrefix(mem[s][i].tokens, PromptOf(s))
  BY <1>0 DEF Entries
<1>2. \A i \in Entries(s) : /\ Len(mem[s][i].tokens) \in Nat
                            /\ Len(mem[s][i].tokens) <= Len(PromptOf(s))
  BY <1>0, <1>1, IsPrefixFacts DEF SoundEntry, Cached
<1>7. \A n \in T : n \in 0 .. Len(PromptOf(s))
  BY <1>0, <1>2
<1>3. T \in SUBSET (0 .. Len(PromptOf(s))) /\ T # {}
  BY <1>7
<1>4. PICK n \in T : \A k \in T : k <= n
  BY <1>0, <1>3, LargestNatural
<1>5. \E i \in Entries(s) : \A j \in Entries(s) : Len(mem[s][j].tokens) <= Len(mem[s][i].tokens)
  BY <1>4
<1>6. BestEntry(s) \in Entries(s)
  BY <1>5 DEF BestEntry
<1> QED BY <1>1, <1>6

LEMMA FromMemoryFacts ==
  ASSUME StoreTypes, NEW s \in Slot, FromMemory(s)
  PROVE  /\ state' \in [Slot -> Path] /\ logits' \in [Slot -> Path] /\ pend' \in [Slot -> Path]
         /\ hit' \in [Slot -> Nat] /\ mem' \in [Slot -> Seq(SoundEntry)]
         /\ hit'[s] <= Len(PromptOf(s)) /\ state'[s] = SubSeq(PromptOf(s), 1, hit'[s])
         /\ \A t \in Slot \ {s} : state'[t] = state[t] /\ hit'[t] = hit[t]
<1>0. PromptOf(s) \in Path /\ Len(PromptOf(s)) \in Nat
  BY PromptFacts
<1>1. CASE Entries(s) = {}
  <2>1. Put(state, s, <<>>) /\ Put(hit, s, 0) /\ UNCHANGED <<logits, pend, mem>>
    BY <1>1 DEF FromMemory
  <2>2. <<>> = SubSeq(PromptOf(s), 1, 0) /\ <<>> \in Path
    BY <1>0 DEF Path
  <2> QED BY <1>0, <2>1, <2>2 DEF StoreTypes, Put
<1>2. CASE Entries(s) # {}
  <2> DEFINE e == mem[s][BestEntry(s)]
  <2>1. /\ BestEntry(s) \in 1 .. Len(mem[s]) /\ e \in SoundEntry /\ IsPrefix(e.tokens, PromptOf(s))
    BY <1>2, BestEntryFacts
  <2>2. /\ e.tokens \in Path /\ e.state \in Path /\ e.logits \in Path /\ e.pend \in Path
        /\ e.state = e.tokens
    BY <2>1 DEF SoundEntry, Cached
  <2>3. Len(e.tokens) \in Nat /\ Len(e.tokens) <= Len(PromptOf(s))
        /\ e.tokens = SubSeq(PromptOf(s), 1, Len(e.tokens))
    BY <1>0, <2>1, <2>2, IsPrefixFacts
  <2>4. ToFront(mem[s], BestEntry(s)) \in Seq(SoundEntry)
    BY <2>1, ToFrontFacts DEF StoreTypes
  <2>5. /\ Put(state, s, e.state) /\ Put(logits, s, e.logits) /\ Put(pend, s, e.pend)
        /\ Put(hit, s, Len(e.tokens)) /\ Put(mem, s, ToFront(mem[s], BestEntry(s)))
    BY <1>2 DEF FromMemory
  <2> HIDE DEF e
  <2> QED BY <2>2, <2>3, <2>4, <2>5 DEF StoreTypes, Put
<1> QED BY <1>1, <1>2

-----------------------------------------------------------------------------
(* A slot's step, as the other slots see it. *)

StoreOthers(s) ==
  \A t \in Slot \ {s} :
    /\ at'[t] = at[t] /\ ask'[t] = ask[t] /\ cand'[t] = cand[t] /\ hit'[t] = hit[t]
    /\ took'[t] = took[t] /\ target'[t] = target[t] /\ gone'[t] = gone[t] /\ state'[t] = state[t]

FilesMove(s) ==
  \A p \in DOMAIN files' :
    \/ p \in DOMAIN files /\ files'[p] = files[p]
    \/ at[s] = "write" /\ p = SavePath(s)

LeaseStep(s) ==
  /\ at'[s] \in Saving <=> lease' = s
  /\ \/ lease' = lease
     \/ lease = NoSlot /\ lease' = s
     \/ lease = s /\ lease' = NoSlot

(* What is cached of a file is old, of a file that has stayed, or new and true. *)
MetaStep(s) ==
  /\ \A p \in DOMAIN meta' :
       \/ p \in DOMAIN files' /\ meta'[p] = files'[p].resident
       \/ /\ p \in DOMAIN meta /\ meta'[p] = meta[p]
          /\ p \in DOMAIN files => p \in DOMAIN files' /\ files'[p] = files[p]
  /\ at[s] \in {"publish", "failed"} => SavePath(s) \notin DOMAIN meta'

LEMMA OthersRequests ==
  ASSUME StoreInv, NEW s \in Slot, StoreOthers(s), FilesMove(s), NEW t \in Slot, t # s
  PROVE  RequestInv(t)'
<1>0. RequestInv(t) /\ LeaseInv
  BY DEF StoreInv
<1>1. /\ at'[t] = at[t] /\ ask'[t] = ask[t] /\ cand'[t] = cand[t] /\ hit'[t] = hit[t]
      /\ took'[t] = took[t] /\ target'[t] = target[t] /\ gone'[t] = gone[t] /\ state'[t] = state[t]
  BY DEF StoreOthers
<1>2. PromptOf(t)' = PromptOf(t) /\ Done(t)' = Done(t)
  BY <1>1 DEF PromptOf, Done
<1>3. SavePath(t)' = SavePath(t)
  BY <1>2 DEF SavePath
<1>4. at[t] = "write" => \A p \in DOMAIN files' : p \in DOMAIN files /\ files'[p] = files[p]
  BY <1>0 DEF LeaseInv, Saving, FilesMove
<1> QED BY <1>0, <1>1, <1>2, <1>3, <1>4 DEF RequestInv

LEMMA LeaseStays ==
  ASSUME StoreInv, NEW s \in Slot, StoreOthers(s), LeaseStep(s)
  PROVE  LeaseInv'
<1>1. ASSUME NEW t \in Slot, t # s PROVE at'[t] \in Saving <=> lease' = t
  BY <1>1, StoreAssumption DEF StoreInv, LeaseInv, LeaseStep, StoreOthers
<1> QED BY <1>1 DEF LeaseInv, LeaseStep

LEMMA MetaStays ==
  ASSUME StoreInv, NEW s \in Slot, StoreOthers(s), LeaseStep(s), MetaStep(s)
  PROVE  MetaHonest'
<1> SUFFICES ASSUME NEW p \in DOMAIN meta'
             PROVE  \/ p \in DOMAIN files' /\ meta'[p] = files'[p].resident
                    \/ /\ lease' # NoSlot /\ at'[lease'] \in {"publish", "failed"}
                       /\ SavePath(lease)' = p
  BY DEF MetaHonest
<1>1. CASE p \in DOMAIN files' /\ meta'[p] = files'[p].resident
  BY <1>1
<1>2. CASE /\ p \in DOMAIN meta /\ meta'[p] = meta[p]
           /\ p \in DOMAIN files => p \in DOMAIN files' /\ files'[p] = files[p]
  <2>1. CASE p \in DOMAIN files /\ meta[p] = files[p].resident
    BY <1>2, <2>1
  <2>2. CASE lease # NoSlot /\ at[lease] \in {"publish", "failed"} /\ SavePath(lease) = p
    <3>1. lease \in Slot /\ lease # s
      BY <2>2 DEF StoreInv, StoreTypes, MetaStep
    <3>2. lease' = lease
      BY <2>2, <3>1 DEF LeaseStep
    <3>3. at'[lease] = at[lease] /\ ask'[lease] = ask[lease] /\ hit'[lease] = hit[lease]
          /\ took'[lease] = took[lease]
      BY <3>1 DEF StoreOthers
    <3>4. SavePath(lease)' = SavePath(lease)
      BY <3>2, <3>3 DEF SavePath, PromptOf, Done
    <3> QED BY <2>2, <3>2, <3>3, <3>4
  <2>3. MetaHonest
    BY DEF StoreInv
  <2> QED BY <1>2, <2>1, <2>2, <2>3 DEF MetaHonest
<1> QED BY <1>1, <1>2 DEF MetaStep

LEMMA StoreStep ==
  ASSUME StoreInv, NEW s \in Slot, StoreOthers(s), FilesMove(s), LeaseStep(s), MetaStep(s),
         StoreTypes', FilesInv', RequestInv(s)'
  PROVE  StoreInv'
<1>1. \A t \in Slot : RequestInv(t)'
  BY OthersRequests
<1> QED BY <1>1, LeaseStays, MetaStays DEF StoreInv

(* A request that leaves has no locals. *)
LEMMA LeaveFacts ==
  ASSUME StoreTypes, NEW s \in Slot, Leave(s)
  PROVE  /\ at' \in [Slot -> RequestAt] /\ ask' \in [Slot -> Ask \cup {NoAsk}]
         /\ cand' \in [Slot -> Path] /\ pend' \in [Slot -> Path]
         /\ hit' \in [Slot -> Nat] /\ took' \in [Slot -> Nat] /\ target' \in [Slot -> Nat]
         /\ gone' \in [Slot -> BOOLEAN]
         /\ at'[s] = "idle" /\ cand'[s] = <<>> /\ took'[s] = 0 /\ gone'[s] = FALSE
         /\ \A t \in Slot \ {s} :
              /\ at'[t] = at[t] /\ ask'[t] = ask[t] /\ cand'[t] = cand[t] /\ hit'[t] = hit[t]
              /\ took'[t] = took[t] /\ target'[t] = target[t] /\ gone'[t] = gone[t]
<1>1. <<>> \in Path
  BY DEF Path
<1> QED BY <1>1 DEF StoreTypes, Leave, Put, Goto, RequestAt

LEMMA IdleRequest ==
  ASSUME NEW s \in Slot, at'[s] = "idle", cand'[s] = <<>>, took'[s] = 0, gone'[s] = FALSE
  PROVE  RequestInv(s)'
BY DEF RequestInv, Saving

LEMMA LookupKeeps ==
  ASSUME StoreInv, NEW s \in Slot, Lookup(s)
  PROVE  StoreInv'
<1>0. /\ StoreTypes /\ FilesInv /\ LeaseInv /\ MetaHonest /\ RequestInv(s)
      /\ PromptOf(s) \in Path /\ Len(PromptOf(s)) \in Nat /\ hit[s] \in Nat /\ took[s] \in Nat
  BY PromptFacts DEF StoreInv, StoreTypes
<1>a. PICK a \in Ask :
        /\ Put(ask, s, a)
        /\ IF a.as = "mtp"
             THEN UNCHANGED <<cand, meta, age>>
             ELSE /\ Put(cand, s, BestMatch(a.prompt))
                  /\ meta' = Peeked(DOMAIN files)
  BY DEF Lookup
<1>b. /\ at[s] = "idle" /\ at' = [at EXCEPT ![s] = "resume"] /\ files' = files /\ lease' = lease
      /\ pend' = pend /\ state' = state /\ logits' = logits /\ mem' = mem
      /\ hit' = hit /\ took' = took /\ target' = target /\ gone' = gone
  BY DEF Lookup, Goto, Put, slotEngineVars
<1>c. a.prompt \in Path
  BY StoreAssumption DEF Path
<1>d. /\ BestMatch(a.prompt) \in Path
      /\ \/ BestMatch(a.prompt) = <<>>
         \/ /\ Len(BestMatch(a.prompt)) <= Len(a.prompt)
            /\ BestMatch(a.prompt) = SubSeq(a.prompt, 1, Len(BestMatch(a.prompt)))
  BY <1>0, <1>c, BestMatchFacts
<1>e. ask' = [ask EXCEPT ![s] = a] /\ cand[s] = <<>>
  BY <1>0, <1>a, <1>b DEF Put, RequestInv
<1>f. /\ cand' \in [Slot -> Path] /\ (cand'[s] = <<>> \/ cand'[s] = BestMatch(a.prompt))
      /\ \A t \in Slot \ {s} : cand'[t] = cand[t]
  BY <1>0, <1>a, <1>d, <1>e DEF Put, StoreTypes
<1>1. StoreOthers(s)
  BY <1>0, <1>b, <1>e, <1>f DEF StoreOthers, StoreTypes
<1>2. FilesMove(s) /\ FilesInv'
  BY <1>0, <1>b DEF FilesMove, FilesInv
<1>3. StoreTypes'
  BY <1>0, <1>b, <1>e, <1>f DEF StoreTypes, RequestAt
<1>4. RequestInv(s)'
  <2>1. at'[s] = "resume" /\ ask'[s] = a /\ took'[s] = took[s] /\ took[s] = 0 /\ gone'[s] = FALSE
    BY <1>0, <1>b, <1>e DEF StoreTypes, RequestInv, Saving
  <2> QED BY <1>d, <1>f, <2>1 DEF RequestInv, PromptOf, Saving
<1>5. LeaseStep(s)
  BY <1>0, <1>b DEF LeaseStep, LeaseInv, StoreTypes, Saving
<1>6. MetaStep(s)
  <2>1. CASE meta' = meta
    BY <1>b, <2>1 DEF MetaStep
  <2>2. CASE meta' = Peeked(DOMAIN files)
    BY <1>b, <2>2 DEF MetaStep, Peeked, Resident
  <2> QED BY <1>a, <2>1, <2>2
<1> QED BY <1>1, <1>2, <1>3, <1>4, <1>5, <1>6, StoreStep

LEMMA ResumeKeeps ==
  ASSUME StoreInv, NEW s \in Slot, Resume(s)
  PROVE  StoreInv'
<1>0. /\ StoreTypes /\ FilesInv /\ LeaseInv /\ MetaHonest /\ RequestInv(s)
      /\ PromptOf(s) \in Path /\ Len(PromptOf(s)) \in Nat /\ hit[s] \in Nat /\ took[s] \in Nat
  BY PromptFacts DEF StoreInv, StoreTypes
<1>a. /\ at[s] = "resume" /\ lease = NoSlot /\ at' = [at EXCEPT ![s] = "prefill"]
      /\ lease' = lease /\ ask' = ask /\ cand' = cand /\ took' = took /\ gone' = gone
  BY DEF Resume, Free, Goto, Put
<1>b. /\ state' \in [Slot -> Path] /\ logits' \in [Slot -> Path] /\ pend' \in [Slot -> Path]
      /\ hit' \in [Slot -> Nat] /\ mem' \in [Slot -> Seq(SoundEntry)]
      /\ hit'[s] <= Len(PromptOf(s)) /\ state'[s] = SubSeq(PromptOf(s), 1, hit'[s])
      /\ \A t \in Slot \ {s} : state'[t] = state[t] /\ hit'[t] = hit[t]
  <2>1. CASE FromMemory(s)
    BY <1>0, <2>1, FromMemoryFacts
  <2>2. CASE /\ WantsDisk(s) /\ cand[s] \in DOMAIN files
             /\ LET f == files[cand[s]] IN
                /\ f.sound
                /\ Put(state, s, f.holds) /\ Put(logits, s, f.logits)
                /\ Put(hit, s, Len(cand[s]))
                /\ pend' = [pend EXCEPT ![s] = IF cand[s] = PromptOf(s) THEN f.logits ELSE <<>>]
             /\ mem' = [mem EXCEPT ![s] = IF Entries(s) = {} THEN @ ELSE ToFront(@, BestEntry(s))]
    <3> DEFINE f == files[cand[s]]
    <3>1. f \in File /\ f.sound /\ f.holds = cand[s] /\ cand[s] \in Path /\ f.logits \in Path
      BY <1>0, <2>2 DEF FilesInv, File
    <3>2. cand[s] # <<>>
      BY <2>2 DEF WantsDisk
    <3>3. Len(cand[s]) <= Len(PromptOf(s)) /\ cand[s] = SubSeq(PromptOf(s), 1, Len(cand[s]))
          /\ Len(cand[s]) \in Nat
      BY <1>0, <1>a, <3>1, <3>2 DEF RequestInv, Path
    <3>4. <<>> \in Path
      BY DEF Path
    <3>5. mem[s] \in Seq(SoundEntry)
      BY <1>0 DEF StoreTypes
    <3>6. Entries(s) # {} => ToFront(mem[s], BestEntry(s)) \in Seq(SoundEntry)
      BY <1>0, <3>5, BestEntryFacts, ToFrontFacts
    <3>7. mem' \in [Slot -> Seq(SoundEntry)]
      BY <1>0, <2>2, <3>5, <3>6 DEF StoreTypes
    <3>8. pend' \in [Slot -> Path]
      BY <1>0, <2>2, <3>1, <3>4 DEF StoreTypes
    <3>9. /\ state' = [state EXCEPT ![s] = cand[s]] /\ logits' = [logits EXCEPT ![s] = f.logits]
          /\ hit' = [hit EXCEPT ![s] = Len(cand[s])]
      BY <2>2, <3>1 DEF Put
    <3> HIDE DEF f
    <3> QED BY <1>0, <3>1, <3>3, <3>7, <3>8, <3>9 DEF StoreTypes
  <2> QED BY <2>1, <2>2 DEF Resume
<1>c. /\ target' = [target EXCEPT ![s] = IF ask[s].as = "hint" /\ Len(PromptOf(s)) - 1 > hit'[s]
                                          THEN Len(PromptOf(s)) - 1 ELSE 0]
  BY DEF Resume, Put
<1>d. /\ target' \in [Slot -> Nat] /\ (target'[s] # 0 => ask[s].as = "hint")
      /\ \A t \in Slot \ {s} : target'[t] = target[t]
  <2>1. hit'[s] \in Nat
    BY <1>b
  <2>2. (IF ask[s].as = "hint" /\ Len(PromptOf(s)) - 1 > hit'[s]
           THEN Len(PromptOf(s)) - 1 ELSE 0) \in Nat
    BY <1>0, <2>1
  <2> QED BY <1>0, <1>c, <2>2 DEF StoreTypes
<1>e. \/ files' = files /\ meta' = meta
      \/ files' = Forget(files, {cand[s]}) /\ meta' = Forget(meta, {cand[s]})
  BY DEF Resume, dirVars, Removed
<1>1. StoreOthers(s)
  BY <1>0, <1>a, <1>b, <1>d DEF StoreOthers, StoreTypes
<1>2. FilesMove(s) /\ FilesInv'
  BY <1>0, <1>e DEF FilesMove, FilesInv, Forget
<1>3. StoreTypes'
  BY <1>0, <1>a, <1>b, <1>d DEF StoreTypes, RequestAt
<1>4. RequestInv(s)'
  <2>1. /\ at'[s] = "prefill" /\ ask[s] \in Ask /\ took[s] = 0 /\ gone'[s] = FALSE
    BY <1>0, <1>a DEF StoreTypes, RequestInv, Saving
  <2>2. PromptOf(s)' = PromptOf(s) /\ Done(s)' = hit'[s]
    BY <1>a, <1>b, <2>1 DEF PromptOf, Done
  <2>3. state'[s] = SavePath(s)'
    BY <1>b, <2>2 DEF SavePath
  <2> QED BY <1>a, <1>b, <1>d, <2>1, <2>2, <2>3 DEF RequestInv, Saving
<1>5. LeaseStep(s)
  BY <1>0, <1>a, StoreAssumption DEF LeaseStep, LeaseInv, StoreTypes, Saving
<1>6. MetaStep(s)
  BY <1>a, <1>e DEF MetaStep, Forget
<1> QED BY <1>1, <1>2, <1>3, <1>4, <1>5, <1>6, StoreStep

LEMMA ChunkKeeps ==
  ASSUME StoreInv, NEW s \in Slot, Chunk(s)
  PROVE  StoreInv'
<1>0. /\ StoreTypes /\ FilesInv /\ LeaseInv /\ MetaHonest /\ RequestInv(s)
      /\ PromptOf(s) \in Path /\ Len(PromptOf(s)) \in Nat /\ hit[s] \in Nat /\ took[s] \in Nat
  BY PromptFacts DEF StoreInv, StoreTypes
<1>a. /\ at[s] = "prefill" /\ lease = NoSlot /\ Done(s) < Len(PromptOf(s)) - 1
      /\ state' = [state EXCEPT ![s] = Append(state[s], PromptOf(s)[Done(s) + 1])]
      /\ logits' = [logits EXCEPT ![s] = Stale] /\ took' = [took EXCEPT ![s] = took[s] + 1]
      /\ \/ target[s] = Done(s) + 1 /\ lease' = s /\ at' = [at EXCEPT ![s] = "check"]
         \/ target[s] # Done(s) + 1 /\ lease' = lease /\ at' = at
      /\ files' = files /\ meta' = meta /\ pend' = pend /\ mem' = mem
      /\ ask' = ask /\ cand' = cand /\ hit' = hit /\ target' = target /\ gone' = gone
  BY DEF Chunk, Free, Put, Goto, dirVars
<1>b. Done(s) \in Nat /\ state[s] = SubSeq(PromptOf(s), 1, Done(s)) /\ ask[s] \in Ask
  BY <1>0, <1>a DEF Done, RequestInv, SavePath
<1>c. /\ Append(state[s], PromptOf(s)[Done(s) + 1]) = SubSeq(PromptOf(s), 1, Done(s) + 1)
      /\ SubSeq(PromptOf(s), 1, Done(s) + 1) \in Path
  BY <1>0, <1>a, <1>b, PrefixGrows, PrefixFacts
<1>d. PromptOf(s)' = PromptOf(s) /\ Done(s)' = Done(s) + 1
  BY <1>0, <1>a DEF PromptOf, Done, StoreTypes
<1>1. StoreOthers(s)
  BY <1>0, <1>a DEF StoreOthers, StoreTypes
<1>2. FilesMove(s) /\ FilesInv'
  BY <1>0, <1>a DEF FilesMove, FilesInv
<1>3. StoreTypes'
  <2>1. at' \in [Slot -> RequestAt] /\ lease' \in Slot \cup {NoSlot}
    BY <1>0, <1>a DEF StoreTypes, RequestAt
  <2>a. Append(state[s], PromptOf(s)[Done(s) + 1]) \in Path
    BY <1>c, Zenon
  <2>b. state' \in [Slot -> Path]
    BY <1>0, <1>a, <2>a DEF StoreTypes
  <2>c. Stale \in Path
    BY DEF Stale, Path
  <2>d. logits' \in [Slot -> Path]
    BY <1>0, <1>a, <2>c DEF StoreTypes
  <2>e. took' \in [Slot -> Nat]
    BY <1>0, <1>a DEF StoreTypes
  <2>2. state' \in [Slot -> Path] /\ logits' \in [Slot -> Path] /\ took' \in [Slot -> Nat]
    BY <2>b, <2>d, <2>e
  <2> QED BY <1>0, <1>a, <2>1, <2>2 DEF StoreTypes
<1>4. RequestInv(s)'
  <2>1. state'[s] = SavePath(s)'
    BY <1>0, <1>a, <1>c, <1>d DEF SavePath, StoreTypes
  <2>2. at'[s] \in {"prefill", "check"} /\ (at'[s] = "check" => target[s] # 0)
    BY <1>0, <1>a, <1>b DEF StoreTypes
  <2>3. gone'[s] = FALSE /\ (target[s] # 0 => ask[s].as = "hint")
    BY <1>0, <1>a DEF StoreTypes, RequestInv, Saving
  <2>4. Done(s)' <= Len(PromptOf(s)')
    BY <1>0, <1>a, <1>b, <1>d
  <2>5. ask'[s] = ask[s] /\ target'[s] = target[s]
    BY <1>a
  <2> QED BY <1>b, <2>1, <2>2, <2>3, <2>4, <2>5 DEF RequestInv, Saving
<1>5. LeaseStep(s)
  BY <1>0, <1>a, StoreAssumption DEF LeaseStep, LeaseInv, StoreTypes, Saving
<1>6. MetaStep(s)
  BY <1>a DEF MetaStep
<1> QED BY <1>1, <1>2, <1>3, <1>4, <1>5, <1>6, StoreStep

LEMMA ClientGoneKeeps ==
  ASSUME StoreInv, NEW s \in Slot, ClientGone(s)
  PROVE  StoreInv'
<1>0. /\ StoreTypes /\ FilesInv /\ LeaseInv /\ MetaHonest /\ RequestInv(s)
      /\ PromptOf(s) \in Path /\ Len(PromptOf(s)) \in Nat /\ hit[s] \in Nat /\ took[s] \in Nat
  BY PromptFacts DEF StoreInv, StoreTypes
<1>a. /\ at[s] = "prefill" /\ files' = files /\ meta' = meta /\ state' = state /\ logits' = logits
      /\ mem' = mem
  BY DEF ClientGone, dirVars, slotEngineVars
<1>2. FilesMove(s) /\ FilesInv'
  BY <1>0, <1>a DEF FilesMove, FilesInv
<1>6. MetaStep(s)
  BY <1>a DEF MetaStep
<1>7. CASE target[s] # 0 /\ took[s] > 0
  <2>a. /\ lease = NoSlot /\ lease' = s /\ at' = [at EXCEPT ![s] = "check"]
        /\ gone' = [gone EXCEPT ![s] = TRUE] /\ target' = target /\ pend' = pend
        /\ ask' = ask /\ cand' = cand /\ hit' = hit /\ took' = took
    BY <1>7 DEF ClientGone, Free, Put, Goto
  <2>1. StoreOthers(s)
    BY <1>0, <1>a, <2>a DEF StoreOthers, StoreTypes
  <2>3. StoreTypes'
    BY <1>0, <1>a, <2>a DEF StoreTypes, RequestAt
  <2>4. RequestInv(s)'
    <3>1. SavePath(s)' = SavePath(s) /\ Done(s)' = Done(s) /\ PromptOf(s)' = PromptOf(s)
      BY <2>a DEF SavePath, Done, PromptOf
    <3>2. at'[s] = "check" /\ ask[s].as = "hint" /\ ask[s] \in Ask
      BY <1>0, <1>7, <1>a, <2>a DEF StoreTypes, RequestInv
    <3>3. Done(s) <= Len(PromptOf(s)) /\ state[s] = SavePath(s)
      BY <1>0, <1>a DEF RequestInv
    <3> QED BY <1>a, <2>a, <3>1, <3>2, <3>3 DEF RequestInv, Saving
  <2>5. LeaseStep(s)
    BY <1>0, <1>a, <2>a, StoreAssumption DEF LeaseStep, LeaseInv, StoreTypes, Saving
  <2> QED BY <1>2, <1>6, <2>1, <2>3, <2>4, <2>5, StoreStep
<1>8. CASE ~(target[s] # 0 /\ took[s] > 0)
  <2>a. Leave(s) /\ lease' = lease
    BY <1>8 DEF ClientGone
  <2>1. StoreOthers(s)
    BY <1>0, <1>a, <2>a, LeaveFacts DEF StoreOthers
  <2>3. StoreTypes'
    BY <1>0, <1>a, <2>a, LeaveFacts DEF StoreTypes
  <2>4. RequestInv(s)'
    BY <1>0, <2>a, LeaveFacts, IdleRequest
  <2>5. LeaseStep(s)
    BY <1>0, <1>a, <2>a, LeaveFacts DEF LeaseStep, LeaseInv, Saving
  <2> QED BY <1>2, <1>6, <2>1, <2>3, <2>4, <2>5, StoreStep
<1> QED BY <1>7, <1>8

LEMMA LastStepKeeps ==
  ASSUME StoreInv, NEW s \in Slot, LastStep(s)
  PROVE  StoreInv'
<1>0. /\ StoreTypes /\ FilesInv /\ LeaseInv /\ MetaHonest /\ RequestInv(s)
      /\ PromptOf(s) \in Path /\ Len(PromptOf(s)) \in Nat /\ hit[s] \in Nat /\ took[s] \in Nat
  BY PromptFacts DEF StoreInv, StoreTypes
<1> DEFINE now == state[s] \o SubSeq(PromptOf(s), Done(s) + 1, Len(PromptOf(s)))
<1>a. /\ at[s] = "prefill" /\ Done(s) < Len(PromptOf(s))
      /\ state' = [state EXCEPT ![s] = now] /\ logits' = [logits EXCEPT ![s] = now]
      /\ pend' = [pend EXCEPT ![s] = now]
      /\ took' = [took EXCEPT ![s] = Len(PromptOf(s)) - hit[s]]
      /\ files' = files /\ meta' = meta /\ lease' = lease /\ mem' = mem /\ at' = at
      /\ ask' = ask /\ cand' = cand /\ hit' = hit /\ target' = target /\ gone' = gone
  BY DEF LastStep, Put, dirVars
<1>b. Done(s) \in Nat /\ state[s] = SubSeq(PromptOf(s), 1, Done(s)) /\ ask[s] \in Ask
  BY <1>0, <1>a DEF Done, RequestInv, SavePath
<1>c. now = SubSeq(PromptOf(s), 1, Len(PromptOf(s))) /\ now \in Path
  <2>1. Done(s) <= Len(PromptOf(s)) /\ Len(PromptOf(s)) <= Len(PromptOf(s))
    BY <1>0, <1>a, <1>b
  <2>2. SubSeq(PromptOf(s), 1, Done(s)) \o SubSeq(PromptOf(s), Done(s) + 1, Len(PromptOf(s)))
          = SubSeq(PromptOf(s), 1, Len(PromptOf(s)))
    BY <1>0, <1>b, <2>1, PrefixFills
  <2>3. SubSeq(PromptOf(s), 1, Len(PromptOf(s))) \in Path
    BY <1>0, <2>1, PrefixFacts
  <2>4. now = SubSeq(PromptOf(s), 1, Len(PromptOf(s)))
    BY <1>b, <2>2, Zenon
  <2> QED BY <2>3, <2>4, Zenon
<1> HIDE DEF now
<1>d. Len(PromptOf(s)) - hit[s] \in Nat
  BY <1>0, <1>a DEF Done
<1>e. PromptOf(s)' = PromptOf(s) /\ Done(s)' = Len(PromptOf(s))
  BY <1>0, <1>a, <1>d DEF PromptOf, Done, StoreTypes
<1>1. StoreOthers(s)
  BY <1>0, <1>a DEF StoreOthers, StoreTypes
<1>2. FilesMove(s) /\ FilesInv'
  BY <1>0, <1>a DEF FilesMove, FilesInv
<1>3. StoreTypes'
  BY <1>0, <1>a, <1>c, <1>d DEF StoreTypes
<1>4. RequestInv(s)'
  <2>1. state'[s] = SavePath(s)'
    BY <1>0, <1>a, <1>c, <1>e DEF SavePath, StoreTypes
  <2>2. at'[s] = "prefill" /\ gone'[s] = FALSE /\ (target'[s] # 0 => ask[s].as = "hint")
    BY <1>0, <1>a DEF StoreTypes, RequestInv, Saving
  <2>3. Done(s)' <= Len(PromptOf(s)')
    BY <1>0, <1>e
  <2> QED BY <1>a, <1>b, <2>1, <2>2, <2>3 DEF RequestInv, Saving
<1>5. LeaseStep(s)
  BY <1>0, <1>a DEF LeaseStep, LeaseInv
<1>6. MetaStep(s)
  BY <1>a DEF MetaStep
<1> QED BY <1>1, <1>2, <1>3, <1>4, <1>5, <1>6, StoreStep

LEMMA IngestedKeeps ==
  ASSUME StoreInv, NEW s \in Slot, Ingested(s)
  PROVE  StoreInv'
<1>0. /\ StoreTypes /\ FilesInv /\ LeaseInv /\ MetaHonest /\ RequestInv(s)
      /\ PromptOf(s) \in Path /\ Len(PromptOf(s)) \in Nat /\ hit[s] \in Nat /\ took[s] \in Nat
  BY PromptFacts DEF StoreInv, StoreTypes
<1>a. /\ at[s] = "prefill" /\ Done(s) = Len(PromptOf(s))
      /\ \/ /\ ask[s].as = "exact" /\ lease = NoSlot /\ lease' = s
            /\ at' = [at EXCEPT ![s] = "write"]
         \/ lease' = lease /\ at' = [at EXCEPT ![s] = "evict"]
         \/ lease' = lease /\ at' = [at EXCEPT ![s] = "insert"]
      /\ files' = files /\ meta' = meta /\ pend' = pend /\ mem' = mem /\ state' = state
      /\ logits' = logits /\ ask' = ask /\ cand' = cand /\ hit' = hit /\ took' = took
      /\ target' = target /\ gone' = gone
  BY DEF Ingested, Free, Put, Goto, dirVars, slotEngineVars
<1>b. SavePath(s)' = SavePath(s) /\ Done(s)' = Done(s) /\ PromptOf(s)' = PromptOf(s)
  BY <1>a DEF SavePath, Done, PromptOf
<1>1. StoreOthers(s)
  BY <1>0, <1>a DEF StoreOthers, StoreTypes
<1>2. FilesMove(s) /\ FilesInv'
  BY <1>0, <1>a DEF FilesMove, FilesInv
<1>3. StoreTypes'
  <2>1. at' \in [Slot -> RequestAt] /\ lease' \in Slot \cup {NoSlot}
    BY <1>0, <1>a DEF StoreTypes, RequestAt
  <2> QED BY <1>0, <1>a, <2>1 DEF StoreTypes
<1>4. RequestInv(s)'
  <2>1. at'[s] \in {"write", "evict", "insert"} /\ (at'[s] = "write" => ask[s].as = "exact")
    BY <1>0, <1>a DEF StoreTypes
  <2>2. /\ ask[s] \in Ask /\ state[s] = SavePath(s) /\ gone[s] = FALSE
        /\ Done(s) <= Len(PromptOf(s))
    BY <1>0, <1>a DEF RequestInv, StoreTypes, Saving
  <2> QED BY <1>a, <1>b, <2>1, <2>2 DEF RequestInv, Saving
<1>5. LeaseStep(s)
  BY <1>0, <1>a, StoreAssumption DEF LeaseStep, LeaseInv, StoreTypes, Saving
<1>6. MetaStep(s)
  BY <1>a DEF MetaStep
<1> QED BY <1>1, <1>2, <1>3, <1>4, <1>5, <1>6, StoreStep

LEMMA SaveCheckKeeps ==
  ASSUME StoreInv, NEW s \in Slot, SaveCheck(s)
  PROVE  StoreInv'
<1>0. /\ StoreTypes /\ FilesInv /\ LeaseInv /\ MetaHonest /\ RequestInv(s)
      /\ PromptOf(s) \in Path /\ Len(PromptOf(s)) \in Nat /\ hit[s] \in Nat /\ took[s] \in Nat
  BY PromptFacts DEF StoreInv, StoreTypes
<1>a. /\ at[s] = "check" /\ files' = files /\ state' = state /\ logits' = logits /\ mem' = mem
      /\ meta' = IF SavePath(s) \in DOMAIN files THEN Peeked({SavePath(s)}) ELSE meta
  BY DEF SaveCheck, dirVars, slotEngineVars
<1>b. lease = s /\ NoSlot # s
  BY <1>0, <1>a, StoreAssumption DEF LeaseInv, Saving
<1>c. /\ ask[s] \in Ask /\ ask[s].as = "hint" /\ state[s] = SavePath(s)
      /\ Done(s) <= Len(PromptOf(s))
  BY <1>0, <1>a DEF RequestInv, Saving
<1>2. FilesMove(s) /\ FilesInv'
  BY <1>0, <1>a DEF FilesMove, FilesInv
<1>6. MetaStep(s)
  BY <1>a DEF MetaStep, Peeked, Resident
<1>7. CASE ~ExactResident(SavePath(s))
  <2>a. /\ at' = [at EXCEPT ![s] = "write"] /\ lease' = lease /\ target' = target /\ pend' = pend
        /\ gone' = gone /\ ask' = ask /\ cand' = cand /\ hit' = hit /\ took' = took
    BY <1>7 DEF SaveCheck, Put, Goto
  <2>1. StoreOthers(s)
    BY <1>0, <1>a, <2>a DEF StoreOthers, StoreTypes
  <2>3. StoreTypes'
    BY <1>0, <1>a, <2>a DEF StoreTypes, RequestAt
  <2>4. RequestInv(s)'
    <3>1. SavePath(s)' = SavePath(s) /\ Done(s)' = Done(s) /\ PromptOf(s)' = PromptOf(s)
      BY <2>a DEF SavePath, Done, PromptOf
    <3>2. SavePath(s) \in DOMAIN files => ~files[SavePath(s)].resident
      <4>1. SUFFICES ASSUME SavePath(s) \in DOMAIN files PROVE ~files[SavePath(s)].resident
        OBVIOUS
      <4>2. ~Resident(SavePath(s))
        BY <1>7, <4>1 DEF ExactResident
      <4>3. SavePath(s) \in DOMAIN meta => meta[SavePath(s)] = files[SavePath(s)].resident
        BY <1>0, <1>a, <1>b DEF MetaHonest
      <4> QED BY <4>2, <4>3 DEF Resident
    <3>3. at'[s] = "write"
      BY <1>0, <2>a DEF StoreTypes
    <3> QED BY <1>a, <1>c, <2>a, <3>1, <3>2, <3>3 DEF RequestInv, Saving
  <2>5. LeaseStep(s)
    BY <1>0, <1>b, <2>a DEF LeaseStep, StoreTypes, Saving
  <2> QED BY <1>2, <1>6, <2>1, <2>3, <2>4, <2>5, StoreStep
<1>8. CASE ExactResident(SavePath(s)) /\ gone[s]
  <2>a. Leave(s) /\ lease' = NoSlot
    BY <1>8 DEF SaveCheck
  <2>1. StoreOthers(s)
    BY <1>0, <1>a, <2>a, LeaveFacts DEF StoreOthers
  <2>3. StoreTypes'
    BY <1>0, <1>a, <2>a, LeaveFacts DEF StoreTypes
  <2>4. RequestInv(s)'
    BY <1>0, <2>a, LeaveFacts, IdleRequest
  <2>5. LeaseStep(s)
    BY <1>0, <1>b, <2>a, LeaveFacts DEF LeaseStep, Saving
  <2> QED BY <1>2, <1>6, <2>1, <2>3, <2>4, <2>5, StoreStep
<1>9. CASE ExactResident(SavePath(s)) /\ ~gone[s]
  <2>a. /\ at' = [at EXCEPT ![s] = "prefill"] /\ lease' = NoSlot
        /\ target' = [target EXCEPT ![s] = 0] /\ pend' = pend
        /\ gone' = gone /\ ask' = ask /\ cand' = cand /\ hit' = hit /\ took' = took
    BY <1>9 DEF SaveCheck, Put, Goto
  <2>1. StoreOthers(s)
    BY <1>0, <1>a, <2>a DEF StoreOthers, StoreTypes
  <2>3. StoreTypes'
    BY <1>0, <1>a, <2>a DEF StoreTypes, RequestAt
  <2>4. RequestInv(s)'
    <3>1. SavePath(s)' = SavePath(s) /\ Done(s)' = Done(s) /\ PromptOf(s)' = PromptOf(s)
      BY <2>a DEF SavePath, Done, PromptOf
    <3>2. at'[s] = "prefill" /\ target'[s] = 0
      BY <1>0, <2>a DEF StoreTypes
    <3> QED BY <1>9, <1>a, <1>c, <2>a, <3>1, <3>2 DEF RequestInv, Saving
  <2>5. LeaseStep(s)
    BY <1>0, <1>b, <2>a DEF LeaseStep, StoreTypes, Saving
  <2> QED BY <1>2, <1>6, <2>1, <2>3, <2>4, <2>5, StoreStep
<1> QED BY <1>7, <1>8, <1>9

LEMMA SaveWriteKeeps ==
  ASSUME StoreInv, NEW s \in Slot, SaveWrite(s)
  PROVE  StoreInv'
<1>0. /\ StoreTypes /\ FilesInv /\ LeaseInv /\ MetaHonest /\ RequestInv(s)
      /\ PromptOf(s) \in Path /\ Len(PromptOf(s)) \in Nat /\ hit[s] \in Nat /\ took[s] \in Nat
  BY PromptFacts DEF StoreInv, StoreTypes
<1> DEFINE p == SavePath(s)
           f == [holds |-> state[s], logits |-> logits[s], resident |-> ask[s].as = "exact",
                 sound |-> TRUE]
<1>a. /\ at[s] = "write" /\ meta' = meta /\ lease' = lease /\ pend' = pend /\ state' = state
      /\ logits' = logits /\ mem' = mem /\ ask' = ask /\ cand' = cand /\ hit' = hit /\ took' = took
      /\ target' = target /\ gone' = gone
      /\ \/ at' = [at EXCEPT ![s] = "publish"] \/ at' = [at EXCEPT ![s] = "failed"]
  BY DEF SaveWrite, Put, Goto, slotEngineVars
<1>b. files' = files \/ files' = With(files, p, f)
  BY DEF SaveWrite, dirVars
<1>c. /\ ask[s] \in Ask /\ state[s] = p /\ Done(s) <= Len(PromptOf(s)) /\ lease = s /\ NoSlot # s
  BY <1>0, <1>a, StoreAssumption DEF RequestInv, Saving, LeaseInv
<1>d. p \in Path /\ f \in File /\ f.holds = p
  <2>1. Done(s) \in Nat
    BY <1>0 DEF Done
  <2> QED BY <1>0, <1>c, <2>1, PrefixFacts DEF SavePath, File, StoreTypes
<1>e. SavePath(s)' = SavePath(s) /\ Done(s)' = Done(s) /\ PromptOf(s)' = PromptOf(s)
  BY <1>a DEF SavePath, Done, PromptOf
<1>f. \A q \in DOMAIN files' : \/ q \in DOMAIN files /\ files'[q] = files[q]
                               \/ q = p /\ files'[q] = f
  BY <1>b DEF With
<1>g. \A q \in DOMAIN files : q # p => q \in DOMAIN files' /\ files'[q] = files[q]
  BY <1>b DEF With
<1>1. StoreOthers(s)
  BY <1>0, <1>a DEF StoreOthers, StoreTypes
<1>2. FilesMove(s) /\ FilesInv'
  BY <1>0, <1>a, <1>d, <1>f DEF FilesMove, FilesInv
<1>3. StoreTypes'
  <2>1. at' \in [Slot -> RequestAt]
    BY <1>0, <1>a DEF StoreTypes, RequestAt
  <2> QED BY <1>0, <1>a, <2>1 DEF StoreTypes
<1>h. at'[s] \in {"publish", "failed"}
  BY <1>0, <1>a DEF StoreTypes
<1>4. RequestInv(s)'
  BY <1>0, <1>a, <1>c, <1>e, <1>h DEF RequestInv, Saving
<1>5. LeaseStep(s)
  BY <1>a, <1>c, <1>h DEF LeaseStep, Saving
<1>6. MetaHonest'
  <2> SUFFICES ASSUME NEW q \in DOMAIN meta, q # p
               PROVE  q \in DOMAIN files' /\ meta[q] = files'[q].resident
    BY <1>a, <1>c, <1>e, <1>h DEF MetaHonest
  <2>1. q \in DOMAIN files /\ meta[q] = files[q].resident
    BY <1>0, <1>a, <1>c DEF MetaHonest
  <2> QED BY <1>g, <2>1
<1>7. \A t \in Slot : RequestInv(t)'
  BY <1>1, <1>2, <1>4, OthersRequests
<1> QED BY <1>1, <1>2, <1>3, <1>5, <1>6, <1>7, LeaseStays DEF StoreInv

LEMMA SavePublishedKeeps ==
  ASSUME StoreInv, NEW s \in Slot, SavePublished(s)
  PROVE  StoreInv'
<1>0. /\ StoreTypes /\ FilesInv /\ LeaseInv /\ MetaHonest /\ RequestInv(s)
      /\ PromptOf(s) \in Path /\ Len(PromptOf(s)) \in Nat /\ hit[s] \in Nat /\ took[s] \in Nat
  BY PromptFacts DEF StoreInv, StoreTypes
<1>a. /\ at[s] = "publish" /\ meta' = Forget(meta, {SavePath(s)}) /\ lease' = NoSlot
      /\ files' = files /\ pend' = pend /\ state' = state /\ logits' = logits /\ mem' = mem
      /\ ask' = ask /\ cand' = cand /\ hit' = hit /\ took' = took
      /\ target' = [target EXCEPT ![s] = 0] /\ gone' = gone
      /\ at' = [at EXCEPT ![s] = IF gone[s] \/ ask[s].as = "exact" THEN "evict" ELSE "prefill"]
  BY DEF SavePublished, Put, Goto, slotEngineVars, dirVars
<1>b. lease = s /\ NoSlot # s
  BY <1>0, <1>a, StoreAssumption DEF LeaseInv, Saving
<1>c. SavePath(s)' = SavePath(s) /\ Done(s)' = Done(s) /\ PromptOf(s)' = PromptOf(s)
  BY <1>a DEF SavePath, Done, PromptOf
<1>1. StoreOthers(s)
  BY <1>0, <1>a DEF StoreOthers, StoreTypes
<1>2. FilesMove(s) /\ FilesInv'
  BY <1>0, <1>a DEF FilesMove, FilesInv
<1>3. StoreTypes'
  <2>1. at' \in [Slot -> RequestAt] /\ target' \in [Slot -> Nat]
    BY <1>0, <1>a DEF StoreTypes, RequestAt
  <2> QED BY <1>0, <1>a, <2>1 DEF StoreTypes
<1>4. RequestInv(s)'
  <2>1. /\ at'[s] \in {"evict", "prefill"} /\ target'[s] = 0
        /\ at'[s] = "evict" => gone[s] \/ ask[s].as = "exact"
        /\ at'[s] = "prefill" => ~gone[s]
    BY <1>0, <1>a DEF StoreTypes
  <2>2. /\ ask[s] \in Ask /\ state[s] = SavePath(s) /\ Done(s) <= Len(PromptOf(s))
        /\ ask[s].as = "exact" => Done(s) = Len(PromptOf(s))
    BY <1>0, <1>a DEF RequestInv, Saving
  <2> QED BY <1>a, <1>c, <2>1, <2>2 DEF RequestInv, Saving
<1>5. LeaseStep(s)
  BY <1>0, <1>a, <1>b DEF LeaseStep, StoreTypes, Saving
<1>6. MetaStep(s)
  BY <1>a DEF MetaStep, Forget
<1> QED BY <1>1, <1>2, <1>3, <1>4, <1>5, <1>6, StoreStep

LEMMA SaveFailedKeeps ==
  ASSUME StoreInv, NEW s \in Slot, SaveFailed(s)
  PROVE  StoreInv'
<1>0. /\ StoreTypes /\ FilesInv /\ LeaseInv /\ MetaHonest /\ RequestInv(s)
      /\ PromptOf(s) \in Path /\ Len(PromptOf(s)) \in Nat /\ hit[s] \in Nat /\ took[s] \in Nat
  BY PromptFacts DEF StoreInv, StoreTypes
<1>a. /\ at[s] = "failed" /\ meta' = Forget(meta, {SavePath(s)}) /\ lease' = NoSlot /\ Leave(s)
      /\ files' = files /\ state' = state /\ logits' = logits /\ mem' = mem
  BY DEF SaveFailed, slotEngineVars, dirVars
<1>b. lease = s /\ NoSlot # s
  BY <1>0, <1>a, StoreAssumption DEF LeaseInv, Saving
<1>1. StoreOthers(s)
  BY <1>0, <1>a, LeaveFacts DEF StoreOthers
<1>2. FilesMove(s) /\ FilesInv'
  BY <1>0, <1>a DEF FilesMove, FilesInv
<1>3. StoreTypes'
  BY <1>0, <1>a, LeaveFacts DEF StoreTypes
<1>4. RequestInv(s)'
  BY <1>0, <1>a, LeaveFacts, IdleRequest
<1>5. LeaseStep(s)
  BY <1>0, <1>a, <1>b, LeaveFacts DEF LeaseStep, Saving
<1>6. MetaStep(s)
  BY <1>a DEF MetaStep, Forget
<1> QED BY <1>1, <1>2, <1>3, <1>4, <1>5, <1>6, StoreStep

LEMMA EvictKeeps ==
  ASSUME StoreInv, NEW s \in Slot, Evict(s)
  PROVE  StoreInv'
<1>0. /\ StoreTypes /\ FilesInv /\ LeaseInv /\ MetaHonest /\ RequestInv(s)
      /\ PromptOf(s) \in Path /\ Len(PromptOf(s)) \in Nat /\ hit[s] \in Nat /\ took[s] \in Nat
  BY PromptFacts DEF StoreInv, StoreTypes
<1>a. /\ at[s] = "evict" /\ lease' = lease /\ state' = state /\ logits' = logits /\ mem' = mem
  BY DEF Evict, slotEngineVars
<1>b. PICK P : files' = Forget(files, P) /\ meta' = Forget(meta, P)
  BY DEF Evict, Removed
<1>2. FilesMove(s) /\ FilesInv'
  BY <1>0, <1>b DEF FilesMove, FilesInv, Forget
<1>6. MetaStep(s)
  BY <1>a, <1>b DEF MetaStep, Forget
<1>7. CASE gone[s]
  <2>a. Leave(s)
    BY <1>7 DEF Evict
  <2>1. StoreOthers(s)
    BY <1>0, <1>a, <2>a, LeaveFacts DEF StoreOthers
  <2>3. StoreTypes'
    BY <1>0, <1>a, <2>a, LeaveFacts DEF StoreTypes
  <2>4. RequestInv(s)'
    BY <1>0, <2>a, LeaveFacts, IdleRequest
  <2>5. LeaseStep(s)
    BY <1>0, <1>a, <2>a, LeaveFacts DEF LeaseStep, LeaseInv, Saving
  <2> QED BY <1>2, <1>6, <2>1, <2>3, <2>4, <2>5, StoreStep
<1>8. CASE ~gone[s]
  <2>a. /\ at' = [at EXCEPT ![s] = "insert"] /\ target' = target /\ pend' = pend
        /\ gone' = gone /\ ask' = ask /\ cand' = cand /\ hit' = hit /\ took' = took
    BY <1>8 DEF Evict, Put, Goto
  <2>1. StoreOthers(s)
    BY <1>0, <1>a, <2>a DEF StoreOthers, StoreTypes
  <2>3. StoreTypes'
    BY <1>0, <1>a, <2>a DEF StoreTypes, RequestAt
  <2>4. RequestInv(s)'
    <3>1. SavePath(s)' = SavePath(s) /\ Done(s)' = Done(s) /\ PromptOf(s)' = PromptOf(s)
      BY <2>a DEF SavePath, Done, PromptOf
    <3>2. at'[s] = "insert"
      BY <1>0, <2>a DEF StoreTypes
    <3> QED BY <1>0, <1>8, <1>a, <2>a, <3>1, <3>2 DEF RequestInv, Saving
  <2>5. LeaseStep(s)
    BY <1>0, <1>a, <2>a DEF LeaseStep, LeaseInv, StoreTypes, Saving
  <2> QED BY <1>2, <1>6, <2>1, <2>3, <2>4, <2>5, StoreStep
<1> QED BY <1>7, <1>8

LEMMA InsertKeeps ==
  ASSUME StoreInv, NEW s \in Slot, Insert(s)
  PROVE  StoreInv'
<1>0. /\ StoreTypes /\ FilesInv /\ LeaseInv /\ MetaHonest /\ RequestInv(s)
      /\ PromptOf(s) \in Path /\ Len(PromptOf(s)) \in Nat /\ hit[s] \in Nat /\ took[s] \in Nat
  BY PromptFacts DEF StoreInv, StoreTypes
<1> DEFINE entry == [tokens |-> PromptOf(s), mtp |-> ask[s].as = "mtp", pend |-> pend[s],
                     state |-> state[s], logits |-> logits[s]]
           others == Erased(mem[s], entry.tokens, entry.mtp)
           room == IF Len(others) >= CacheCap THEN CacheCap - 1 ELSE Len(others)
<1>a. /\ at[s] = "insert" /\ at' = [at EXCEPT ![s] = "generate"]
      /\ mem' = [mem EXCEPT ![s] = IF CacheCap = 0 THEN @ ELSE <<entry>> \o SubSeq(others, 1, room)]
      /\ files' = files /\ meta' = meta /\ lease' = lease /\ pend' = pend /\ state' = state
      /\ logits' = logits /\ ask' = ask /\ cand' = cand /\ hit' = hit /\ took' = took
      /\ target' = target /\ gone' = gone
  BY DEF Insert, Put, Goto, dirVars, slotEngineVars
<1>b. /\ ask[s] \in Ask /\ Done(s) = Len(PromptOf(s)) /\ state[s] = SavePath(s) /\ ~gone[s]
  BY <1>0, <1>a DEF RequestInv, Saving
<1>c. state[s] = PromptOf(s)
  BY <1>0, <1>b DEF SavePath, Path
<1>d. entry \in SoundEntry
  BY <1>0, <1>c DEF SoundEntry, Cached, StoreTypes
<1>e. mem[s] \in Seq(SoundEntry) /\ others \in Seq(SoundEntry) /\ Len(others) \in Nat
  BY <1>0, ErasedFacts DEF StoreTypes
<1> HIDE DEF entry, others
<1>f. CacheCap # 0 => SubSeq(others, 1, room) \in Seq(SoundEntry)
  BY <1>e, StoreAssumption
<1> HIDE DEF room
<1>g. (IF CacheCap = 0 THEN mem[s] ELSE <<entry>> \o SubSeq(others, 1, room)) \in Seq(SoundEntry)
  BY <1>d, <1>e, <1>f
<1>h. SavePath(s)' = SavePath(s) /\ Done(s)' = Done(s) /\ PromptOf(s)' = PromptOf(s)
  BY <1>a DEF SavePath, Done, PromptOf
<1>1. StoreOthers(s)
  BY <1>0, <1>a DEF StoreOthers, StoreTypes
<1>2. FilesMove(s) /\ FilesInv'
  BY <1>0, <1>a DEF FilesMove, FilesInv
<1>3. StoreTypes'
  BY <1>0, <1>a, <1>g DEF StoreTypes, RequestAt
<1>4. RequestInv(s)'
  <2>1. at'[s] = "generate" /\ Done(s) <= Len(PromptOf(s))
    BY <1>0, <1>a, <1>b DEF StoreTypes
  <2> QED BY <1>a, <1>b, <1>h, <2>1 DEF RequestInv, Saving
<1>5. LeaseStep(s)
  BY <1>0, <1>a DEF LeaseStep, LeaseInv, StoreTypes, Saving
<1>6. MetaStep(s)
  BY <1>a DEF MetaStep
<1> QED BY <1>1, <1>2, <1>3, <1>4, <1>5, <1>6, StoreStep

LEMMA GenerateKeeps ==
  ASSUME StoreInv, NEW s \in Slot, Generate(s)
  PROVE  StoreInv'
<1>0. /\ StoreTypes /\ FilesInv /\ LeaseInv /\ MetaHonest /\ RequestInv(s)
      /\ PromptOf(s) \in Path /\ Len(PromptOf(s)) \in Nat /\ hit[s] \in Nat /\ took[s] \in Nat
  BY PromptFacts DEF StoreInv, StoreTypes
<1>a. /\ at[s] = "generate" /\ Leave(s) /\ files' = files /\ meta' = meta /\ lease' = lease
      /\ mem' = mem /\ state' = [state EXCEPT ![s] = Append(state[s], Block)]
      /\ logits' = [logits EXCEPT ![s] = state'[s]]
  BY DEF Generate, Put, dirVars
<1>b. Append(state[s], Block) \in Path
  BY <1>0, StoreAssumption DEF StoreTypes, Path
<1>c. state' \in [Slot -> Path] /\ \A t \in Slot \ {s} : state'[t] = state[t]
  BY <1>0, <1>a, <1>b DEF StoreTypes
<1>d. logits' \in [Slot -> Path]
  BY <1>0, <1>a, <1>c DEF StoreTypes
<1>1. StoreOthers(s)
  BY <1>0, <1>a, <1>c, LeaveFacts DEF StoreOthers
<1>2. FilesMove(s) /\ FilesInv'
  BY <1>0, <1>a DEF FilesMove, FilesInv
<1>3. StoreTypes'
  BY <1>0, <1>a, <1>c, <1>d, LeaveFacts DEF StoreTypes
<1>4. RequestInv(s)'
  BY <1>0, <1>a, LeaveFacts, IdleRequest
<1>5. LeaseStep(s)
  BY <1>0, <1>a, LeaveFacts DEF LeaseStep, LeaseInv, Saving
<1>6. MetaStep(s)
  BY <1>a DEF MetaStep
<1> QED BY <1>1, <1>2, <1>3, <1>4, <1>5, <1>6, StoreStep

LEMMA FailsKeeps ==
  ASSUME StoreInv, NEW s \in Slot, Fails(s)
  PROVE  StoreInv'
<1>0. /\ StoreTypes /\ FilesInv /\ LeaseInv /\ MetaHonest /\ RequestInv(s)
      /\ PromptOf(s) \in Path /\ Len(PromptOf(s)) \in Nat /\ hit[s] \in Nat /\ took[s] \in Nat
  BY PromptFacts DEF StoreInv, StoreTypes
<1>a. /\ at[s] \in {"prefill", "insert"} /\ Leave(s) /\ files' = files /\ meta' = meta
      /\ lease' = lease /\ mem' = mem /\ state' = state /\ logits' = logits
  BY DEF Fails, dirVars, slotEngineVars
<1>1. StoreOthers(s)
  BY <1>0, <1>a, LeaveFacts DEF StoreOthers
<1>2. FilesMove(s) /\ FilesInv'
  BY <1>0, <1>a DEF FilesMove, FilesInv
<1>3. StoreTypes'
  BY <1>0, <1>a, LeaveFacts DEF StoreTypes
<1>4. RequestInv(s)'
  BY <1>0, <1>a, LeaveFacts, IdleRequest
<1>5. LeaseStep(s)
  BY <1>0, <1>a, LeaveFacts DEF LeaseStep, LeaseInv, Saving
<1>6. MetaStep(s)
  BY <1>a DEF MetaStep
<1> QED BY <1>1, <1>2, <1>3, <1>4, <1>5, <1>6, StoreStep

LEMMA StoreBegins ==
  ASSUME StoreInit
  PROVE  StoreInv
<1>0. <<>> \in Path /\ <<>> \in Seq(SoundEntry)
  BY DEF Path
<1>1. StoreTypes
  BY <1>0 DEF StoreInit, StoreTypes, RequestAt, Stale
<1>2. FilesInv
  <2>1. PICK q \in {a.prompt : a \in Ask}, sound \in BOOLEAN :
          files = [p \in {q} |-> [holds |-> q, logits |-> q, resident |-> TRUE, sound |-> sound]]
    BY DEF StoreInit
  <2>2. q \in Path
    BY StoreAssumption DEF Path
  <2> QED BY <2>1, <2>2 DEF FilesInv, File
<1>3. LeaseInv
  BY StoreAssumption DEF StoreInit, LeaseInv, Saving
<1>4. MetaHonest
  BY DEF StoreInit, MetaHonest
<1>5. \A s \in Slot : RequestInv(s)
  BY DEF StoreInit, RequestInv, Saving
<1> QED BY <1>1, <1>2, <1>3, <1>4, <1>5 DEF StoreInv

LEMMA StoreStutters ==
  ASSUME StoreInv, UNCHANGED storeVars
  PROVE  StoreInv'
<1>1. /\ files' = files /\ meta' = meta /\ lease' = lease /\ at' = at /\ ask' = ask
      /\ cand' = cand /\ hit' = hit /\ took' = took /\ target' = target /\ gone' = gone
      /\ pend' = pend /\ state' = state /\ logits' = logits /\ mem' = mem
  BY DEF storeVars, dirVars, requestVars, slotEngineVars
<1>2. \A s \in Slot : RequestInv(s)' = RequestInv(s)
  BY <1>1 DEF RequestInv, PromptOf, Done, SavePath
<1> QED BY <1>1, <1>2 DEF StoreInv, StoreTypes, FilesInv, LeaseInv, MetaHonest, PromptOf, Done,
           SavePath

LEMMA StoreKeeps ==
  ASSUME StoreInv, [StoreNext]_storeVars
  PROVE  StoreInv'
<1>1. CASE UNCHANGED storeVars
  BY <1>1, StoreStutters
<1>2. CASE StoreNext
  BY <1>2, LookupKeeps, ResumeKeeps, ChunkKeeps, ClientGoneKeeps, LastStepKeeps,
     IngestedKeeps, SaveCheckKeeps, SaveWriteKeeps, SavePublishedKeeps, SaveFailedKeeps,
     EvictKeeps, InsertKeeps, GenerateKeeps, FailsKeeps
     DEF StoreNext
<1> QED BY <1>1, <1>2

(* A request resumes from the blocks of its own prompt, and the cached     *)
(* metadata is that of the files but between a rename and the end of its   *)
(* save, through the saves, evictions and failures of any number of slots  *)
(* (metal_server.cpp, disk_snapshot_store.h).                              *)
THEOREM SnapshotsHonest == StoreSpec => []StoreHonest
<1>1. StoreInit => StoreInv
  BY StoreBegins
<1>2. StoreInv /\ [StoreNext]_storeVars => StoreInv'
  BY StoreKeeps
<1>3. StoreInv => StoreHonest
  <2> SUFFICES ASSUME StoreInv PROVE StoreHonest
    OBVIOUS
  <2>1. ResumeRight
    BY DEF StoreInv, RequestInv, FilesInv, ResumeRight
  <2> QED BY <2>1 DEF StoreInv, StoreHonest
<1> QED BY <1>1, <1>2, <1>3, PTL DEF StoreSpec

(* Only a save writes a file. *)
LEMMA OnlySavesWrite ==
  ASSUME StoreNext
  PROVE  \/ \A p \in DOMAIN files \cap DOMAIN files' : files'[p] = files[p]
         \/ \E s \in Slot : SaveWrite(s)
<1>1. PICK s \in Slot :
        \/ Lookup(s) \/ Resume(s) \/ Chunk(s) \/ ClientGone(s) \/ LastStep(s) \/ Ingested(s)
        \/ SaveCheck(s) \/ SaveWrite(s) \/ SavePublished(s) \/ SaveFailed(s) \/ Evict(s)
        \/ Insert(s) \/ Generate(s) \/ Fails(s)
  BY DEF StoreNext
<1>2. CASE \/ Lookup(s) \/ Chunk(s) \/ ClientGone(s) \/ LastStep(s) \/ Ingested(s)
           \/ SaveCheck(s) \/ SavePublished(s) \/ SaveFailed(s)
           \/ Insert(s) \/ Generate(s) \/ Fails(s)
  <2>1. files' = files
    BY <1>2 DEF Lookup, Chunk, ClientGone, LastStep, Ingested, SaveCheck, SavePublished,
                SaveFailed, Insert, Generate, Fails, dirVars
  <2> QED BY <2>1
<1>3. CASE Resume(s)
  BY <1>3 DEF Resume, dirVars, Removed, Forget
<1>4. CASE Evict(s)
  BY <1>4 DEF Evict, Removed, Forget
<1>5. CASE SaveWrite(s)
  BY <1>5
<1> QED BY <1>1, <1>2, <1>3, <1>4, <1>5

(* No save puts an entry whose logits are stale over one whose logits are  *)
(* exact, whatever was decided before the lease was taken: "an older save  *)
(* decision cannot downgrade a newly installed exact prefix"               *)
(* (metal_server.cpp).                                                     *)
THEOREM ExactStays == StoreSpec => [][KeepsExact]_storeVars
<1>1. StoreInit => StoreInv
  BY StoreBegins
<1>2. StoreInv /\ [StoreNext]_storeVars => StoreInv'
  BY StoreKeeps
<1>3. StoreInv /\ [StoreNext]_storeVars => [KeepsExact]_storeVars
  <2> SUFFICES ASSUME StoreInv, StoreNext,
                      NEW p \in DOMAIN files \cap DOMAIN files', files[p].resident
               PROVE  files'[p].resident
    BY DEF KeepsExact
  <2>1. CASE files'[p] = files[p]
    BY <2>1
  <2>2. ASSUME NEW s \in Slot, SaveWrite(s) PROVE files'[p].resident
    <3>1. RequestInv(s) /\ at[s] = "write"
      BY <2>2 DEF StoreInv, SaveWrite
    <3>2. ask[s].as # "exact" => p # SavePath(s)
      BY <3>1 DEF RequestInv
    <3>3. CASE files' = files
      BY <3>3
    <3>4. CASE files' = With(files, SavePath(s),
                             [holds |-> state[s], logits |-> logits[s],
                              resident |-> ask[s].as = "exact", sound |-> TRUE])
      BY <3>2, <3>4 DEF With
    <3> QED BY <2>2, <3>3, <3>4 DEF SaveWrite, dirVars
  <2> QED BY <2>1, <2>2, OnlySavesWrite
<1> QED BY <1>1, <1>2, <1>3, PTL DEF StoreSpec

-----------------------------------------------------------------------------
(* One entry of a kind *)

LEMMA RemoveAtFacts ==
  ASSUME NEW E, NEW l \in Seq(E), NEW k \in 1 .. Len(l)
  PROVE  /\ RemoveAt(l, k) \in Seq(E) /\ Len(RemoveAt(l, k)) = Len(l) - 1
         /\ \A j \in 1 .. Len(l) - 1 : RemoveAt(l, k)[j] = l[IF j < k THEN j ELSE j + 1]
<1> DEFINE a == SubSeq(l, 1, k - 1)
           b == SubSeq(l, k + 1, Len(l))
<1>0. Len(l) \in Nat /\ k \in Nat /\ k >= 1 /\ k <= Len(l)
  OBVIOUS
<1>1. a \in Seq(E) /\ Len(a) = k - 1 /\ \A j \in 1 .. k - 1 : a[j] = l[j]
  BY <1>0
<1>2. b \in Seq(E) /\ Len(b) = Len(l) - k /\ \A j \in 1 .. Len(l) - k : b[j] = l[k + j]
  BY <1>0
<1> HIDE DEF a, b
<1>3. a \o b \in Seq(E) /\ Len(a \o b) = Len(a) + Len(b)
  BY <1>1, <1>2, ConcatProperties
<1>4. Len(a) + Len(b) = Len(l) - 1
  BY <1>0, <1>1, <1>2
<1>5. ASSUME NEW j \in 1 .. Len(l) - 1
      PROVE  (a \o b)[j] = l[IF j < k THEN j ELSE j + 1]
  <2>0. j \in Nat /\ j >= 1 /\ j \in 1 .. (Len(a) + Len(b))
    BY <1>0, <1>4
  <2>1. CASE j < k
    <3>1. j <= Len(a) /\ j \in 1 .. k - 1
      BY <1>0, <1>1, <2>0, <2>1
    <3>2. (a \o b)[j] = a[j]
      BY <1>1, <1>2, <2>0, <3>1, ConcatProperties
    <3> QED BY <1>1, <2>1, <3>1, <3>2
  <2>2. CASE ~(j < k)
    <3>1. ~(j <= Len(a)) /\ j - Len(a) \in 1 .. Len(l) - k /\ k + (j - Len(a)) = j + 1
      BY <1>0, <1>1, <2>0, <2>2
    <3>2. (a \o b)[j] = b[j - Len(a)]
      BY <1>1, <1>2, <2>0, <3>1, ConcatProperties
    <3>3. b[j - Len(a)] = l[k + (j - Len(a))]
      BY <1>2, <3>1
    <3> QED BY <2>2, <3>1, <3>2, <3>3
  <2> QED BY <2>1, <2>2
<1> QED BY <1>3, <1>4, <1>5 DEF RemoveAt, a, b

LEMMA RemoveAtUnlike ==
  ASSUME NEW E, NEW l \in Seq(E), NEW k \in 1 .. Len(l), Unlike(l)
  PROVE  /\ Unlike(RemoveAt(l, k))
         /\ \A j \in 1 .. Len(RemoveAt(l, k)) : ~Alike(RemoveAt(l, k)[j], l[k])
<1> DEFINE r == RemoveAt(l, k)
           from(j) == IF j < k THEN j ELSE j + 1
<1>1. r \in Seq(E) /\ Len(r) = Len(l) - 1 /\ \A j \in 1 .. Len(l) - 1 : r[j] = l[from(j)]
  BY RemoveAtFacts
<1>2. \A j \in 1 .. Len(l) - 1 : from(j) \in 1 .. Len(l) /\ from(j) # k
  OBVIOUS
<1>3. \A i, j \in 1 .. Len(l) - 1 : i # j => from(i) # from(j)
  OBVIOUS
<1> HIDE DEF r, from
<1>4. Unlike(r)
  <2> SUFFICES ASSUME NEW i \in 1 .. Len(r), NEW j \in 1 .. Len(r), i # j
               PROVE  ~Alike(r[i], r[j])
    BY DEF Unlike
  <2>1. i \in 1 .. Len(l) - 1 /\ j \in 1 .. Len(l) - 1
    BY <1>1
  <2>2. /\ r[i] = l[from(i)] /\ r[j] = l[from(j)] /\ from(i) # from(j)
        /\ from(i) \in 1 .. Len(l) /\ from(j) \in 1 .. Len(l)
    BY <1>1, <1>2, <1>3, <2>1
  <2> QED BY <2>2 DEF Unlike
<1>5. ASSUME NEW j \in 1 .. Len(r) PROVE ~Alike(r[j], l[k])
  <2>1. j \in 1 .. Len(l) - 1
    BY <1>1
  <2>2. r[j] = l[from(j)] /\ from(j) \in 1 .. Len(l) /\ from(j) # k
    BY <1>1, <1>2, <2>1
  <2> QED BY <2>2 DEF Unlike
<1> QED BY <1>4, <1>5 DEF r

LEMMA FrontUnlike ==
  ASSUME NEW E, NEW l \in Seq(E), NEW e \in E, Unlike(l),
         \A j \in 1 .. Len(l) : ~Alike(l[j], e)
  PROVE  Unlike(<<e>> \o l)
<1> DEFINE f == <<e>> \o l
<1>1. /\ Len(l) \in Nat /\ f \in Seq(E) /\ Len(f) = Len(l) + 1 /\ f[1] = e
      /\ \A j \in 1 .. Len(l) + 1 : j # 1 => f[j] = l[j - 1]
  OBVIOUS
<1> HIDE DEF f
<1> SUFFICES ASSUME NEW i \in 1 .. Len(f), NEW j \in 1 .. Len(f), i # j
             PROVE  ~Alike(f[i], f[j])
  BY DEF Unlike, f
<1>2. /\ i \in 1 .. Len(l) + 1 /\ j \in 1 .. Len(l) + 1
      /\ i # 1 => i - 1 \in 1 .. Len(l)
      /\ j # 1 => j - 1 \in 1 .. Len(l)
      /\ i - 1 # j - 1
  BY <1>1
<1>3. CASE i = 1
  BY <1>1, <1>2, <1>3 DEF Alike
<1>4. CASE j = 1
  BY <1>1, <1>2, <1>4 DEF Alike
<1>5. CASE i # 1 /\ j # 1
  <2>1. f[i] = l[i - 1] /\ f[j] = l[j - 1]
    BY <1>1, <1>2, <1>5
  <2> QED BY <1>2, <1>5, <2>1 DEF Unlike
<1> QED BY <1>3, <1>4, <1>5

LEMMA CutUnlike ==
  ASSUME NEW E, NEW l \in Seq(E), NEW n \in Nat, n <= Len(l), Unlike(l)
  PROVE  Unlike(SubSeq(l, 1, n))
<1> DEFINE c == SubSeq(l, 1, n)
<1>1. c \in Seq(E) /\ Len(c) = n /\ \A j \in 1 .. n : c[j] = l[j]
  OBVIOUS
<1>2. \A j \in 1 .. n : j \in 1 .. Len(l)
  OBVIOUS
<1> HIDE DEF c
<1> SUFFICES ASSUME NEW i \in 1 .. Len(c), NEW j \in 1 .. Len(c), i # j
             PROVE  ~Alike(c[i], c[j])
  BY DEF Unlike, c
<1> QED BY <1>1, <1>2 DEF Unlike

(* Erasing the first entry of a kind erases them all. *)
LEMMA ErasedUnlike ==
  ASSUME NEW E, NEW l \in Seq(E), NEW t, NEW m, Unlike(l)
  PROVE  /\ Unlike(Erased(l, t, m))
         /\ \A j \in 1 .. Len(Erased(l, t, m)) :
              ~(Erased(l, t, m)[j].mtp = m /\ Erased(l, t, m)[j].tokens = t)
<1> DEFINE I == {i \in 1 .. Len(l) : l[i].mtp = m /\ l[i].tokens = t}
<1>1. CASE I = {}
  <2>1. ~ \E i \in 1 .. Len(l) : l[i].mtp = m /\ l[i].tokens = t
    BY <1>1
  <2>2. Erased(l, t, m) = l
    BY <2>1 DEF Erased, RemoveFirstMatch
  <2> QED BY <2>1, <2>2
<1>2. CASE I # {}
  <2>1. I \in SUBSET Nat
    OBVIOUS
  <2>2. \E n \in I : \A k \in I : n <= k
    BY <1>2, <2>1, LeastNatural
  <2>3. Min(I) \in I
    BY <2>2 DEF Min
  <2>4. \E i \in 1 .. Len(l) : l[i].mtp = m /\ l[i].tokens = t
    BY <1>2
  <2>5. Erased(l, t, m) = RemoveAt(l, Min(I))
    BY <1>2, <2>4 DEF Erased, RemoveFirstMatch, SelectInSeq
  <2>6. Min(I) \in 1 .. Len(l) /\ l[Min(I)].mtp = m /\ l[Min(I)].tokens = t
    BY <2>3
  <2> HIDE DEF I
  <2>7. /\ Unlike(RemoveAt(l, Min(I)))
        /\ \A j \in 1 .. Len(RemoveAt(l, Min(I))) : ~Alike(RemoveAt(l, Min(I))[j], l[Min(I)])
    BY <2>6, RemoveAtUnlike
  <2> QED BY <2>5, <2>6, <2>7 DEF Alike
<1> QED BY <1>1, <1>2

LEMMA FromMemoryUnlike ==
  ASSUME StoreInv, NEW s \in Slot, OneOfAKind, Entries(s) # {}
  PROVE  Unlike(ToFront(mem[s], BestEntry(s)))
<1>1. mem[s] \in Seq(SoundEntry) /\ Unlike(mem[s]) /\ StoreTypes
  BY DEF StoreInv, StoreTypes, OneOfAKind
<1>2. BestEntry(s) \in 1 .. Len(mem[s])
  BY <1>1, BestEntryFacts
<1>3. mem[s][BestEntry(s)] \in SoundEntry
  BY <1>1, <1>2
<1>4. RemoveAt(mem[s], BestEntry(s)) \in Seq(SoundEntry)
  BY <1>1, <1>2, RemoveAtFacts
<1>5. /\ Unlike(RemoveAt(mem[s], BestEntry(s)))
      /\ \A j \in 1 .. Len(RemoveAt(mem[s], BestEntry(s))) :
           ~Alike(RemoveAt(mem[s], BestEntry(s))[j], mem[s][BestEntry(s)])
  BY <1>1, <1>2, RemoveAtUnlike
<1> QED BY <1>3, <1>4, <1>5, FrontUnlike DEF ToFront

LEMMA SlotUnlike ==
  ASSUME StoreInv, OneOfAKind, NEW s \in Slot, NEW l, Unlike(l), mem' = [mem EXCEPT ![s] = l]
  PROVE  OneOfAKind'
BY DEF StoreInv, StoreTypes, OneOfAKind

LEMMA ResumeUnlike ==
  ASSUME StoreInv, OneOfAKind, NEW s \in Slot, Resume(s)
  PROVE  OneOfAKind'
<1>1. \/ mem' = mem
      \/ mem' = [mem EXCEPT ![s] = mem[s]]
      \/ Entries(s) # {} /\ mem' = [mem EXCEPT ![s] = ToFront(mem[s], BestEntry(s))]
  BY DEF Resume, FromMemory, Put
<1>2. Unlike(mem[s])
  BY DEF OneOfAKind
<1>3. CASE mem' = mem
  BY <1>3 DEF OneOfAKind
<1>4. CASE mem' = [mem EXCEPT ![s] = mem[s]]
  BY <1>2, <1>4, SlotUnlike
<1>5. CASE Entries(s) # {} /\ mem' = [mem EXCEPT ![s] = ToFront(mem[s], BestEntry(s))]
  BY <1>5, FromMemoryUnlike, SlotUnlike
<1> QED BY <1>1, <1>3, <1>4, <1>5

LEMMA InsertUnlike ==
  ASSUME StoreInv, OneOfAKind, NEW s \in Slot, Insert(s)
  PROVE  OneOfAKind'
<1> DEFINE entry == [tokens |-> PromptOf(s), mtp |-> ask[s].as = "mtp", pend |-> pend[s],
                     state |-> state[s], logits |-> logits[s]]
           others == Erased(mem[s], entry.tokens, entry.mtp)
           room == IF Len(others) >= CacheCap THEN CacheCap - 1 ELSE Len(others)
           E == SoundEntry \cup {entry}
<1>1. mem' = [mem EXCEPT ![s] = IF CacheCap = 0 THEN @ ELSE <<entry>> \o SubSeq(others, 1, room)]
  BY DEF Insert
<1>2. mem[s] \in Seq(SoundEntry) /\ Unlike(mem[s])
  BY DEF StoreInv, StoreTypes, OneOfAKind
<1>3. mem[s] \in Seq(E)
  BY <1>2
<1> HIDE DEF entry, E
<1>4. others \in Seq(E) /\ Len(others) \in Nat
  BY <1>3, ErasedFacts
<1>5. /\ Unlike(others)
      /\ \A j \in 1 .. Len(others) :
           ~(others[j].mtp = entry.mtp /\ others[j].tokens = entry.tokens)
  BY <1>2, ErasedUnlike
<1> HIDE DEF others
<1>6. CASE CacheCap = 0
  <2>1. mem' = [mem EXCEPT ![s] = mem[s]]
    BY <1>1, <1>6
  <2> QED BY <1>2, <2>1, SlotUnlike
<1>7. CASE CacheCap # 0
  <2>1. room \in Nat /\ room <= Len(others)
    BY <1>4, <1>7, StoreAssumption
  <2> HIDE DEF room
  <2> DEFINE c == SubSeq(others, 1, room)
  <2>2. Unlike(c)
    BY <1>4, <1>5, <2>1, CutUnlike
  <2>3. c \in Seq(E) /\ Len(c) = room /\ \A j \in 1 .. room : c[j] = others[j]
    BY <1>4, <2>1
  <2>4. \A j \in 1 .. room : j \in 1 .. Len(others)
    BY <1>4, <2>1
  <2> HIDE DEF c
  <2>5. \A j \in 1 .. Len(c) : ~Alike(c[j], entry)
    BY <1>5, <2>3, <2>4 DEF Alike
  <2>6. entry \in E
    BY DEF E
  <2>7. Unlike(<<entry>> \o c)
    BY <2>2, <2>3, <2>5, <2>6, FrontUnlike
  <2>8. mem' = [mem EXCEPT ![s] = <<entry>> \o c]
    BY <1>1, <1>7 DEF c
  <2> QED BY <2>7, <2>8, SlotUnlike
<1> QED BY <1>6, <1>7

(* No two entries of a slot's memory cache are of one kind, so the loop of *)
(* prepare_insert never erases more than the one that Erased takes out     *)
(* (metal_server.cpp).                                                     *)
THEOREM EntriesUnlike == StoreSpec => []OneOfAKind
<1>1. StoreInit => OneOfAKind
  BY DEF StoreInit, OneOfAKind, Unlike
<1>2. StoreInv /\ OneOfAKind /\ [StoreNext]_storeVars => OneOfAKind'
  <2> SUFFICES ASSUME StoreInv, OneOfAKind, [StoreNext]_storeVars PROVE OneOfAKind'
    OBVIOUS
  <2>1. CASE mem' = mem
    BY <2>1 DEF OneOfAKind
  <2>2. CASE \E s \in Slot : Resume(s) \/ Insert(s)
    BY <2>2, ResumeUnlike, InsertUnlike
  <2>3. CASE UNCHANGED storeVars
    BY <2>1, <2>3 DEF storeVars
  <2>4. CASE StoreNext
    <3>1. PICK s \in Slot :
            \/ Lookup(s) \/ Resume(s) \/ Chunk(s) \/ ClientGone(s) \/ LastStep(s) \/ Ingested(s)
            \/ SaveCheck(s) \/ SaveWrite(s) \/ SavePublished(s) \/ SaveFailed(s) \/ Evict(s)
            \/ Insert(s) \/ Generate(s) \/ Fails(s)
      BY <2>4 DEF StoreNext
    <3>2. CASE Resume(s) \/ Insert(s)
      BY <2>2, <3>2
    <3>3. CASE Lookup(s) \/ Chunk(s) \/ ClientGone(s) \/ LastStep(s) \/ Ingested(s)
      BY <2>1, <3>3 DEF Lookup, Chunk, ClientGone, LastStep, Ingested
    <3>4. CASE SaveCheck(s) \/ SaveWrite(s) \/ SavePublished(s) \/ SaveFailed(s) \/ Evict(s)
      BY <2>1, <3>4 DEF SaveCheck, SaveWrite, SavePublished, SaveFailed, Evict
    <3>5. CASE Generate(s) \/ Fails(s)
      BY <2>1, <3>5 DEF Generate, Fails
    <3> QED BY <3>1, <3>2, <3>3, <3>4, <3>5
  <2> QED BY <2>3, <2>4
<1>3. StoreSpec => []StoreInv
  <2>1. StoreInit => StoreInv
    BY StoreBegins
  <2>2. StoreInv /\ [StoreNext]_storeVars => StoreInv'
    BY StoreKeeps
  <2> QED BY <2>1, <2>2, PTL DEF StoreSpec
<1> QED BY <1>1, <1>2, <1>3, PTL DEF StoreSpec

(***************************************************************************)
(* The agent's engine                                                      *)
(***************************************************************************)

Snapshot == [tokens : Seq(Token), rows : Seq(Token), top : Token]

EngineTypes ==
  /\ rows \in Seq(Token) /\ top \in Token /\ dirty \in BOOLEAN
  /\ ledger \in Seq(Token) /\ valid \in BOOLEAN /\ pending \in BOOLEAN
  /\ context \in Contexts
  /\ gpc \in {"idle", "finalize", "ingest", "decode", "force", "burst"}
  /\ ids \in Seq(Token) /\ offset \in Nat /\ limit \in Nat /\ produced \in Nat
  /\ token \in Token /\ burst \in Seq(Token) /\ encoded \in Nat /\ after \in Token
  /\ force \in Nat
  /\ snap \in Snapshot

(* A published snapshot is a ledger and the rows it counts. *)
SnapInv == snap.rows = SubSeq(snap.tokens, 1, Len(snap.rows)) /\ Len(snap.rows) <= Len(snap.tokens)

(* A turn that was accepted fits its context. *)
TurnFits == Len(ids) >= 1 /\ limit >= 1 /\ Len(ids) + limit <= context + 1

(* While the prompt is taken in, the engine holds a part of it. *)
PromptInv ==
  /\ gpc = "finalize" =>
       offset >= 1 /\ offset <= Len(ids) /\ rows = SubSeq(ids, 1, offset - 1)
  /\ gpc = "ingest" => offset <= Len(ids) /\ rows = SubSeq(ids, 1, offset)

(* While tokens are published, it holds the ledger; in a round, and what   *)
(* the round has encoded ahead of it.                                      *)
DecodeInv ==
  /\ gpc \in {"decode", "force", "burst"} =>
       valid /\ ~pending /\ Len(ledger) = Len(ids) + produced
  /\ gpc \in {"decode", "force"} => rows = ledger /\ produced < limit
  /\ gpc = "force" => force >= 1 /\ produced + force < limit
  /\ gpc = "burst" =>
       /\ encoded <= Len(burst) /\ rows = ledger \o Upto(burst, encoded)
       /\ Len(ledger) + Len(burst) <= context /\ produced + Len(burst) <= limit
       /\ \A i \in 1 .. Len(burst) : burst[i] = Eos => i = Len(burst) /\ encoded < i

EngineInv ==
  /\ EngineTypes /\ SnapInv /\ LedgerHonest
  /\ gpc # "idle" => TurnFits /\ ~dirty
  /\ gpc \in {"idle", "finalize", "ingest"} => produced = 0
  /\ PromptInv /\ DecodeInv

-----------------------------------------------------------------------------
(* Sequences of tokens *)

LEMMA NoTokens == <<>> \in Seq(Token)
OBVIOUS

LEMMA PromptTokens ==
  ASSUME NEW max \in Nat, NEW p \in Prompt(max)
  PROVE  p \in Seq(Token) /\ Len(p) \in Nat /\ Len(p) >= 1 /\ Len(p) <= max
<1>1. PICK n \in 1 .. max : p \in [1 .. n -> Word]
  BY DEF Prompt
<1>2. p \in [1 .. n -> Token]
  BY <1>1 DEF Token
<1>3. p \in Seq(Token) /\ Len(p) = n
  BY <1>2
<1> QED BY <1>3

LEMMA CutFacts ==
  ASSUME NEW p \in Seq(Token), NEW i \in Nat, i <= Len(p)
  PROVE  /\ SubSeq(p, 1, i) \in Seq(Token) /\ Len(SubSeq(p, 1, i)) = i
         /\ \A j \in 1 .. i : SubSeq(p, 1, i)[j] = p[j]
OBVIOUS

LEMMA CutOfCut ==
  ASSUME NEW p \in Seq(Token), NEW i \in Nat, i <= Len(p), NEW j \in Nat, j <= i
  PROVE  SubSeq(SubSeq(p, 1, i), 1, j) = SubSeq(p, 1, j)
<1> DEFINE c == SubSeq(p, 1, i)
<1>1. c \in Seq(Token) /\ Len(c) = i /\ \A k \in 1 .. i : c[k] = p[k]
  BY CutFacts
<1> HIDE DEF c
<1>2. /\ SubSeq(c, 1, j) \in Seq(Token) /\ Len(SubSeq(c, 1, j)) = j
      /\ \A k \in 1 .. j : SubSeq(c, 1, j)[k] = c[k]
  BY <1>1, CutFacts
<1>3. j <= Len(p) /\ Len(p) \in Nat
  OBVIOUS
<1>4. /\ SubSeq(p, 1, j) \in Seq(Token) /\ Len(SubSeq(p, 1, j)) = j
      /\ \A k \in 1 .. j : SubSeq(p, 1, j)[k] = p[k]
  BY <1>3, CutFacts
<1>5. \A k \in 1 .. j : c[k] = p[k]
  BY <1>1
<1>6. SubSeq(c, 1, j) = SubSeq(p, 1, j)
  BY <1>2, <1>4, <1>5, SeqEqual
<1> QED BY <1>6 DEF c

LEMMA CutWhole ==
  ASSUME NEW p \in Seq(Token)
  PROVE  SubSeq(p, 1, Len(p)) = p
OBVIOUS

(* What is encoded next goes on where the rows end. *)
LEMMA CutExtends ==
  ASSUME NEW p \in Seq(Token), NEW i \in Nat, NEW n \in Nat, i + n <= Len(p)
  PROVE  /\ SubSeq(p, 1, i) \o SubSeq(p, i + 1, i + n) = SubSeq(p, 1, i + n)
         /\ SubSeq(p, i + 1, i + n) \in Seq(Token)
<1> DEFINE a == SubSeq(p, 1, i)
           b == SubSeq(p, i + 1, i + n)
           c == SubSeq(p, 1, i + n)
<1>0. Len(p) \in Nat /\ i <= Len(p) /\ i + n \in Nat
  OBVIOUS
<1>1. a \in Seq(Token) /\ Len(a) = i /\ \A j \in 1 .. i : a[j] = p[j]
  BY <1>0, CutFacts
<1>2. b \in Seq(Token) /\ Len(b) = n /\ \A j \in 1 .. n : b[j] = p[i + j]
  BY <1>0
<1>3. c \in Seq(Token) /\ Len(c) = i + n /\ \A j \in 1 .. i + n : c[j] = p[j]
  BY <1>0, CutFacts
<1> HIDE DEF a, b, c
<1>4. a \o b \in Seq(Token) /\ Len(a \o b) = i + n
  BY <1>1, <1>2, ConcatProperties
<1>5. ASSUME NEW j \in 1 .. (i + n) PROVE (a \o b)[j] = c[j]
  <2>0. j \in Nat
    OBVIOUS
  <2>1. CASE j <= i
    BY <1>1, <1>2, <1>3, <2>0, <2>1
  <2>2. CASE j > i
    <3>1. j - i \in 1 .. n /\ i + (j - i) = j /\ j \in 1 .. (Len(a) + Len(b)) /\ ~(j <= Len(a))
      BY <1>1, <1>2, <2>0, <2>2
    <3>2. (a \o b)[j] = b[j - Len(a)]
      BY <1>1, <1>2, <3>1, ConcatProperties
    <3>3. b[j - i] = p[i + (j - i)]
      BY <1>2, <3>1
    <3> QED BY <1>1, <1>3, <3>1, <3>2, <3>3
  <2>3. j <= i \/ j > i
    BY <2>0
  <2> QED BY <2>1, <2>2, <2>3
<1>6. a \o b = c
  BY <1>3, <1>4, <1>5, SeqEqual
<1> QED BY <1>2, <1>6 DEF a, b, c

LEMMA OneMore ==
  ASSUME NEW l \in Seq(Token), NEW t \in Token
  PROVE  /\ l \o <<t>> = Append(l, t) /\ Append(l, t) \in Seq(Token) /\ Len(l) \in Nat
         /\ Len(Append(l, t)) = Len(l) + 1
         /\ SubSeq(Append(l, t), 1, Len(l)) = l
         /\ SubSeq(Append(l, t), 1, Len(l) + 1) = Append(l, t)
OBVIOUS

(* A committed token moves from the round to the ledger. *)
LEMMA RoundMoves ==
  ASSUME NEW l \in Seq(Token), NEW b \in Seq(Token), b # <<>>, NEW k \in Nat, k + 1 <= Len(b)
  PROVE  l \o SubSeq(b, 1, k + 1) = Append(l, Head(b)) \o SubSeq(Tail(b), 1, k)
<1> DEFINE t == Tail(b)
           h == Append(l, Head(b))
           x == SubSeq(b, 1, k + 1)
           y == SubSeq(t, 1, k)
<1>0. /\ Len(l) \in Nat /\ Len(b) \in Nat /\ Head(b) = b[1] /\ b[1] \in Token
      /\ t \in Seq(Token) /\ Len(t) = Len(b) - 1 /\ \A i \in 1 .. Len(b) - 1 : t[i] = b[i + 1]
  OBVIOUS
<1>1. h \in Seq(Token) /\ Len(h) = Len(l) + 1 /\ h[Len(l) + 1] = b[1]
      /\ \A i \in 1 .. Len(l) : h[i] = l[i]
  BY <1>0
<1>2. x \in Seq(Token) /\ Len(x) = k + 1 /\ \A i \in 1 .. k + 1 : x[i] = b[i]
  BY CutFacts
<1> HIDE DEF t, h, x
<1>3. y \in Seq(Token) /\ Len(y) = k /\ \A i \in 1 .. k : y[i] = t[i]
  BY <1>0, CutFacts
<1> HIDE DEF y
<1>4. l \o x \in Seq(Token) /\ Len(l \o x) = Len(l) + (k + 1)
  <2>0. x \in Seq(Token)
    BY <1>2
  <2>1. l \o x \in Seq(Token) /\ Len(l \o x) = Len(l) + Len(x)
    BY <2>0, ConcatProperties
  <2> QED BY <1>2, <2>1
<1>5. h \o y \in Seq(Token) /\ Len(h \o y) = (Len(l) + 1) + k
  <2>1. h \o y \in Seq(Token) /\ Len(h \o y) = Len(h) + Len(y)
    BY <1>1, <1>3, ConcatProperties
  <2> QED BY <1>1, <1>3, <2>1
<1>6. ASSUME NEW i \in 1 .. (Len(l) + (k + 1)) PROVE (l \o x)[i] = (h \o y)[i]
  <2>0. i \in Nat /\ i >= 1
    OBVIOUS
  <2>1. CASE i <= Len(l)
    BY <1>0, <1>1, <1>2, <1>3, <2>0, <2>1
  <2>2. CASE i = Len(l) + 1
    BY <1>0, <1>1, <1>2, <1>3, <2>2
  <2>3. CASE i > Len(l) + 1
    <3>1. (l \o x)[i] = x[i - Len(l)] /\ i - Len(l) \in 1 .. k + 1
      BY <1>0, <1>2, <2>0, <2>3
    <3>2. (h \o y)[i] = y[i - (Len(l) + 1)] /\ i - (Len(l) + 1) \in 1 .. k
      BY <1>0, <1>1, <1>3, <2>0, <2>3
    <3>3. y[i - (Len(l) + 1)] = b[(i - (Len(l) + 1)) + 1]
      <4>1. i - (Len(l) + 1) \in 1 .. Len(b) - 1
        BY <1>0, <3>2
      <4>2. t[i - (Len(l) + 1)] = b[(i - (Len(l) + 1)) + 1]
        BY <1>0, <4>1
      <4> QED BY <1>3, <3>2, <4>2
    <3>4. (i - (Len(l) + 1)) + 1 = i - Len(l)
      BY <1>0, <2>0
    <3> QED BY <1>2, <3>1, <3>2, <3>3, <3>4
  <2>4. i <= Len(l) \/ i = Len(l) + 1 \/ i > Len(l) + 1
    BY <1>0, <2>0
  <2> QED BY <2>1, <2>2, <2>3, <2>4
<1>7. Len(l) + (k + 1) = (Len(l) + 1) + k
  BY <1>0
<1>8. l \o x = h \o y
  BY <1>4, <1>5, <1>6, <1>7, SeqEqual
<1> QED BY <1>8 DEF t, h, x, y

LEMMA RoundEmpty ==
  ASSUME NEW l \in Seq(Token), NEW b \in Seq(Token)
  PROVE  l \o SubSeq(b, 1, 0) = l
OBVIOUS

-----------------------------------------------------------------------------
(* Turns that end *)

(* A turn that ends leaves no locals. *)
LEMMA EndTurnFacts ==
  ASSUME EngineTypes, EndTurn
  PROVE  /\ gpc' = "idle" /\ produced' = 0
         /\ ids' \in Seq(Token) /\ offset' \in Nat /\ limit' \in Nat /\ token' \in Token
         /\ burst' \in Seq(Token) /\ encoded' \in Nat /\ after' \in Token /\ force' \in Nat
BY DEF EndTurn, Token

LEMMA IdleHolds ==
  ASSUME EngineTypes', SnapInv', gpc' = "idle", produced' = 0, LedgerHonest'
  PROVE  EngineInv'
BY DEF EngineInv, PromptInv, DecodeInv

LEMMA InvalidHolds ==
  ASSUME EngineTypes', SnapInv', gpc' = "idle", produced' = 0, valid' = FALSE
  PROVE  EngineInv'
BY IdleHolds DEF LedgerHonest

LEMMA AbandonHolds ==
  ASSUME EngineInv, Abandon
  PROVE  EngineInv'
<1>0. EngineTypes /\ SnapInv
  BY DEF EngineInv
<1>1. /\ ledger' = <<>> /\ valid' = FALSE /\ pending' = FALSE /\ EndTurn /\ rows' = rows
      /\ top' = top
      /\ dirty' = dirty /\ context' = context /\ snap' = snap
  BY DEF Abandon, Invalidated, metalVars
<1>2. /\ gpc' = "idle" /\ produced' = 0 /\ ids' \in Seq(Token) /\ offset' \in Nat /\ limit' \in Nat
      /\ token' \in Token /\ burst' \in Seq(Token) /\ encoded' \in Nat /\ after' \in Token
      /\ force' \in Nat
  BY <1>0, <1>1, EndTurnFacts
<1>3. EngineTypes'
  BY <1>0, <1>1, <1>2, NoTokens DEF EngineTypes
<1> QED BY <1>0, <1>1, <1>2, <1>3, InvalidHolds DEF SnapInv

LEMMA FailureHolds ==
  ASSUME EngineInv, Failure
  PROVE  EngineInv'
<1>0. EngineTypes /\ SnapInv
  BY DEF EngineInv
<1>1. /\ ledger' = <<>> /\ valid' = FALSE /\ pending' = FALSE /\ EndTurn /\ rows' = rows
      /\ top' = top
      /\ dirty' = TRUE /\ context' = context /\ snap' = snap
  BY DEF Failure, Throws, Invalidated, CallFails
<1>2. /\ gpc' = "idle" /\ produced' = 0 /\ ids' \in Seq(Token) /\ offset' \in Nat /\ limit' \in Nat
      /\ token' \in Token /\ burst' \in Seq(Token) /\ encoded' \in Nat /\ after' \in Token
      /\ force' \in Nat
  BY <1>0, <1>1, EndTurnFacts
<1>3. EngineTypes'
  BY <1>0, <1>1, <1>2, NoTokens DEF EngineTypes
<1> QED BY <1>0, <1>1, <1>2, <1>3, InvalidHolds DEF SnapInv

-----------------------------------------------------------------------------
(* The prompt *)

LEMMA BeginHolds ==
  ASSUME EngineInv, Begin
  PROVE  EngineInv'
<1>0. EngineTypes /\ SnapInv /\ LedgerHonest /\ gpc = "idle" /\ produced = 0
  BY DEF EngineInv, Begin
<1>1. PICK prompt \in Prompt(context), n \in 1 .. MaxOut :
        /\ Fits(prompt, n) /\ ids' = prompt /\ limit' = n
        /\ IF Reusable(prompt)
             THEN /\ offset' = Len(ledger)
                  /\ gpc' = IF pending THEN "finalize" ELSE "ingest"
                  /\ UNCHANGED <<metalVars, ledger, valid, pending>>
             ELSE /\ offset' = 0 /\ gpc' = "ingest"
                  /\ Reset /\ Invalidated
  BY DEF Begin
<1>2. /\ context' = context /\ produced' = produced /\ token' = token /\ burst' = burst
      /\ encoded' = encoded /\ after' = after /\ force' = force /\ snap' = snap
  BY DEF Begin
<1>3. context \in Nat /\ context >= 1 /\ n \in Nat /\ n >= 1
  BY <1>0, EngineAssumption DEF EngineTypes
<1>4. prompt \in Seq(Token) /\ Len(prompt) \in Nat /\ Len(prompt) >= 1
  BY <1>3, PromptTokens
<1>5. TurnFits'
  BY <1>1, <1>2, <1>3, <1>4 DEF TurnFits, Fits
<1>6. CASE Reusable(prompt)
  <2>1. /\ offset' = Len(ledger) /\ gpc' = (IF pending THEN "finalize" ELSE "ingest")
        /\ rows' = rows /\ top' = top /\ dirty' = dirty
        /\ ledger' = ledger /\ valid' = valid /\ pending' = pending
    BY <1>1, <1>6 DEF metalVars
  <2>2. valid /\ EncodedCount = Len(rows) /\ IsPrefix(ledger, prompt)
    BY <1>6 DEF Reusable
  <2>3. ~dirty /\ rows = SubSeq(ledger, 1, EncodedCount)
    BY <1>0, <2>2 DEF LedgerHonest
  <2>4. /\ ledger \in Seq(Token) /\ Len(ledger) \in Nat /\ rows \in Seq(Token) /\ Len(rows) \in Nat
        /\ pending \in BOOLEAN
    BY <1>0 DEF EngineTypes
  <2>5. Len(ledger) <= Len(prompt) /\ ledger = SubSeq(prompt, 1, Len(ledger))
    BY <1>4, <2>2, <2>4, CutWhole DEF IsPrefix
  <2>6. EngineTypes'
    BY <1>0, <1>1, <1>2, <1>3, <1>4, <2>1, <2>4 DEF EngineTypes
  <2>7. CASE pending
    <3>1. EncodedCount = Len(ledger) - 1
      BY <2>2, <2>7 DEF EncodedCount
    <3>2. Len(ledger) >= 1 /\ Len(ledger) - 1 \in Nat /\ Len(ledger) - 1 <= Len(ledger)
      BY <2>2, <2>4, <3>1
    <3>3. rows = SubSeq(prompt, 1, Len(ledger) - 1)
      BY <1>4, <2>3, <2>4, <2>5, <3>1, <3>2, CutOfCut
    <3> QED BY <1>0, <1>1, <1>2, <1>5, <2>1, <2>3, <2>5, <2>6, <2>7, <3>2, <3>3
            DEF EngineInv, SnapInv, LedgerHonest, PromptInv, DecodeInv
  <2>8. CASE ~pending
    <3>1. EncodedCount = Len(ledger)
      BY <2>2, <2>4, <2>8 DEF EncodedCount
    <3>2. rows = SubSeq(prompt, 1, Len(ledger))
      BY <2>3, <2>4, <2>5, <3>1, CutWhole
    <3> QED BY <1>0, <1>1, <1>2, <1>5, <2>1, <2>3, <2>5, <2>6, <2>8, <3>2
            DEF EngineInv, SnapInv, LedgerHonest, PromptInv, DecodeInv
  <2> QED BY <2>7, <2>8
<1>7. CASE ~Reusable(prompt)
  <2>1. /\ offset' = 0 /\ gpc' = "ingest" /\ rows' = <<>> /\ dirty' = FALSE /\ top' = top
        /\ ledger' = <<>> /\ valid' = FALSE /\ pending' = FALSE
    BY <1>1, <1>7 DEF Reset, Invalidated
  <2>2. EngineTypes'
    BY <1>0, <1>1, <1>2, <1>3, <1>4, <2>1, NoTokens DEF EngineTypes
  <2>3. <<>> = SubSeq(prompt, 1, 0)
    BY <1>4
  <2>4. PromptInv'
    BY <1>1, <1>4, <2>1, <2>3 DEF PromptInv
  <2> QED BY <1>0, <1>2, <1>5, <2>1, <2>2, <2>4 DEF EngineInv, SnapInv, LedgerHonest, DecodeInv
<1> QED BY <1>6, <1>7

LEMMA FinalizePendingHolds ==
  ASSUME EngineInv, FinalizePending
  PROVE  EngineInv'
<1>0. /\ EngineTypes /\ SnapInv /\ gpc = "finalize" /\ TurnFits /\ ~dirty /\ produced = 0
      /\ offset >= 1 /\ offset <= Len(ids) /\ rows = SubSeq(ids, 1, offset - 1)
  BY DEF EngineInv, FinalizePending, PromptInv
<1>1. /\ rows' = rows \o <<ids[offset]>> /\ top' \in Token /\ dirty' = dirty /\ pending' = FALSE
      /\ gpc' = "ingest" /\ ledger' = ledger /\ valid' = valid /\ context' = context
      /\ ids' = ids /\ offset' = offset /\ limit' = limit /\ produced' = produced /\ token' = token
      /\ burst' = burst /\ encoded' = encoded /\ after' = after /\ force' = force /\ snap' = snap
  BY DEF FinalizePending, Encodes, turnVars
<1>2. /\ ids \in Seq(Token) /\ offset \in Nat /\ offset - 1 \in Nat /\ Len(ids) \in Nat
      /\ (offset - 1) + 1 = offset
  BY <1>0 DEF EngineTypes
<1>3. <<ids[offset]>> = SubSeq(ids, offset, offset)
  BY <1>0, <1>2
<1>4. rows' = SubSeq(ids, 1, offset)
  BY <1>0, <1>1, <1>2, <1>3, CutExtends
<1>5. rows' \in Seq(Token)
  BY <1>0, <1>2, <1>4, CutFacts
<1>6. EngineTypes'
  BY <1>0, <1>1, <1>5 DEF EngineTypes
<1> QED BY <1>0, <1>1, <1>4, <1>6
        DEF EngineInv, SnapInv, LedgerHonest, PromptInv, DecodeInv, TurnFits

LEMMA IngestHolds ==
  ASSUME EngineInv, Ingest
  PROVE  EngineInv'
<1> DEFINE left == Len(ids) - 1 - offset
           n == IF left < 2 THEN 1 ELSE IF left < ChunkMax THEN left ELSE ChunkMax
<1>0. /\ EngineTypes /\ SnapInv /\ gpc = "ingest" /\ TurnFits /\ ~dirty /\ produced = 0
      /\ offset < Len(ids) /\ rows = SubSeq(ids, 1, offset)
  BY DEF EngineInv, Ingest, PromptInv
<1>1. /\ rows' = rows \o SubSeq(ids, offset + 1, offset + n) /\ top' \in Token /\ dirty' = dirty
      /\ offset' = offset + n
      /\ ledger' = ledger /\ valid' = valid /\ pending' = pending /\ context' = context
      /\ gpc' = gpc /\ ids' = ids /\ limit' = limit /\ produced' = produced /\ token' = token
      /\ burst' = burst /\ encoded' = encoded /\ after' = after /\ force' = force /\ snap' = snap
  BY DEF Ingest, Encodes, ledgerVars
<1>2. ids \in Seq(Token) /\ offset \in Nat /\ Len(ids) \in Nat
  BY <1>0 DEF EngineTypes
<1>3. n \in Nat /\ offset + n <= Len(ids)
  BY <1>0, <1>2, EngineAssumption
<1> HIDE DEF n, left
<1>4. rows' = SubSeq(ids, 1, offset + n) /\ offset + n \in Nat
  BY <1>0, <1>1, <1>2, <1>3, CutExtends
<1>5. rows' \in Seq(Token)
  BY <1>2, <1>3, <1>4, CutFacts
<1>6. EngineTypes'
  BY <1>0, <1>1, <1>4, <1>5 DEF EngineTypes
<1> QED BY <1>0, <1>1, <1>3, <1>4, <1>6
        DEF EngineInv, SnapInv, LedgerHonest, PromptInv, DecodeInv, TurnFits

LEMMA CommitPromptHolds ==
  ASSUME EngineInv, CommitPrompt
  PROVE  EngineInv'
<1>0. /\ EngineTypes /\ SnapInv /\ gpc = "ingest" /\ TurnFits /\ ~dirty /\ produced = 0
      /\ offset = Len(ids) /\ rows = SubSeq(ids, 1, offset)
  BY DEF EngineInv, CommitPrompt, PromptInv
<1>1. /\ ledger' = ids /\ valid' = TRUE /\ pending' = FALSE /\ gpc' = "decode"
      /\ token' \in (IF Sampling THEN Token ELSE {top})
      /\ rows' = rows /\ top' = top /\ dirty' = dirty /\ context' = context
      /\ ids' = ids /\ offset' = offset /\ limit' = limit /\ produced' = produced
      /\ burst' = burst /\ encoded' = encoded /\ after' = after /\ force' = force /\ snap' = snap
  BY DEF CommitPrompt, Committed, metalVars
<1>2. ids \in Seq(Token) /\ Len(ids) \in Nat /\ limit \in Nat
  BY <1>0 DEF EngineTypes
<1>3. rows = ids
  BY <1>0, <1>2, CutWhole
<1>4. token' \in Token
  BY <1>0, <1>1 DEF EngineTypes
<1>5. EngineTypes'
  BY <1>0, <1>1, <1>4 DEF EngineTypes
<1>6. DecodeInv'
  BY <1>0, <1>1, <1>2, <1>3 DEF DecodeInv, TurnFits
<1> QED BY <1>0, <1>1, <1>5, <1>6 DEF EngineInv, SnapInv, LedgerHonest, PromptInv, TurnFits

-----------------------------------------------------------------------------
(* Publishing *)

LEMMA StallHolds ==
  ASSUME EngineInv, Stall
  PROVE  EngineInv'
BY AbandonHolds DEF Stall

LEMMA CancelHolds ==
  ASSUME EngineInv, Cancel
  PROVE  EngineInv'
BY AbandonHolds DEF Cancel

LEMMA SerialLastHolds ==
  ASSUME EngineInv, SerialLast
  PROVE  EngineInv'
<1>0. /\ EngineTypes /\ SnapInv /\ gpc = "decode" /\ ~dirty /\ valid /\ ~pending /\ rows = ledger
  BY DEF EngineInv, SerialLast, DecodeInv
<1>1. EndTurn /\ context' = context /\ snap' = snap
  BY DEF SerialLast, FinalizeLast
<1>2. /\ ledger \in Seq(Token) /\ token \in Token /\ rows \in Seq(Token)
  BY <1>0 DEF EngineTypes
<1>3. /\ ledger \o <<token>> = Append(ledger, token) /\ Append(ledger, token) \in Seq(Token)
      /\ Len(ledger) \in Nat /\ Len(Append(ledger, token)) = Len(ledger) + 1
      /\ SubSeq(Append(ledger, token), 1, Len(ledger)) = ledger
      /\ SubSeq(Append(ledger, token), 1, Len(ledger) + 1) = Append(ledger, token)
  BY <1>2, OneMore
<1>t. /\ gpc' = "idle" /\ produced' = 0 /\ ids' \in Seq(Token) /\ offset' \in Nat /\ limit' \in Nat
      /\ token' \in Token /\ burst' \in Seq(Token) /\ encoded' \in Nat /\ after' \in Token
      /\ force' \in Nat
  BY <1>0, <1>1, EndTurnFacts
<1>4. SnapInv'
  BY <1>0, <1>1 DEF SnapInv
<1>5. CASE Recorded(token, FALSE) /\ UNCHANGED <<metalVars, poisoned>>
  <2>1. /\ ledger' = Append(ledger, token) /\ valid' = TRUE /\ pending' = TRUE /\ rows' = rows
        /\ top' = top /\ dirty' = dirty
    BY <1>5 DEF Recorded, metalVars
  <2>2. EngineTypes'
    BY <1>0, <1>1, <1>t, <1>3, <2>1 DEF EngineTypes
  <2>3. EncodedCount' = Len(ledger)
    BY <1>3, <2>1 DEF EncodedCount
  <2>4. LedgerHonest'
    BY <1>0, <1>3, <2>1, <2>3 DEF LedgerHonest
  <2> QED BY <1>0, <1>1, <1>4, <2>2, <2>4, <1>t, IdleHolds
<1>6. CASE Recorded(token, TRUE) /\ Encodes(<<token>>)
  <2>1. /\ ledger' = Append(ledger, token) /\ valid' = TRUE /\ pending' = FALSE
        /\ rows' = Append(ledger, token) /\ top' \in Token /\ dirty' = dirty
    BY <1>0, <1>3, <1>6 DEF Recorded, Encodes
  <2>2. EngineTypes'
    BY <1>0, <1>1, <1>t, <1>3, <2>1 DEF EngineTypes
  <2>3. EncodedCount' = Len(ledger) + 1
    BY <1>3, <2>1 DEF EncodedCount
  <2>4. LedgerHonest'
    BY <1>0, <1>3, <2>1, <2>3 DEF LedgerHonest
  <2> QED BY <1>0, <1>1, <1>4, <2>2, <2>4, <1>t, IdleHolds
<1>7. CASE Invalidated /\ (UNCHANGED metalVars \/ CallFails)
  <2>1. /\ ledger' = <<>> /\ valid' = FALSE /\ pending' = FALSE /\ rows' = rows /\ top' = top
        /\ dirty' \in BOOLEAN
    BY <1>0, <1>7 DEF Invalidated, metalVars, CallFails, EngineTypes
  <2>2. EngineTypes'
    BY <1>0, <1>1, <1>t, <2>1, NoTokens DEF EngineTypes
  <2> QED BY <1>0, <1>1, <1>4, <2>1, <2>2, <1>t, InvalidHolds
<1> QED BY <1>5, <1>6, <1>7 DEF SerialLast, FinalizeLast

(* A token that is published and encoded, and the turn goes on. *)
LEMMA AdvanceHolds ==
  ASSUME EngineInv, gpc \in {"decode", "force"}, gpc' \in {"decode", "force"}, NEW t \in Token,
         Recorded(t, TRUE), Encodes(<<t>>), produced' = produced + 1, token' \in Token,
         ids' = ids, offset' = offset, limit' = limit, context' = context, burst' = burst,
         encoded' = encoded, after' = after, snap' = snap, force' \in Nat,
         produced' < limit,
         gpc' = "force" => force' >= 1 /\ produced' + force' < limit
  PROVE  EngineInv'
<1>0. /\ EngineTypes /\ SnapInv /\ TurnFits /\ ~dirty /\ rows = ledger
      /\ Len(ledger) = Len(ids) + produced
  BY DEF EngineInv, DecodeInv
<1>1. /\ ledger \in Seq(Token) /\ rows \in Seq(Token) /\ Len(ids) \in Nat /\ produced \in Nat
  BY <1>0 DEF EngineTypes
<1>2. /\ ledger \o <<t>> = Append(ledger, t) /\ Append(ledger, t) \in Seq(Token)
      /\ Len(ledger) \in Nat /\ Len(Append(ledger, t)) = Len(ledger) + 1
  BY <1>1, OneMore
<1>3. /\ ledger' = Append(ledger, t) /\ rows' = Append(ledger, t) /\ valid' = TRUE
      /\ pending' = FALSE /\ dirty' = dirty /\ top' \in Token
  BY <1>0, <1>2 DEF Recorded, Encodes
<1>4. EngineTypes'
  <2>1. produced' \in Nat
    BY <1>1
  <2>3. valid' \in BOOLEAN /\ pending' \in BOOLEAN
    BY <1>3, Zenon
  <2>2. ledger' \in Seq(Token) /\ rows' \in Seq(Token)
    BY <1>2, <1>3
  <2> QED BY <1>0, <1>3, <2>1, <2>2, <2>3 DEF EngineTypes
<1>5. DecodeInv'
  BY <1>0, <1>1, <1>2, <1>3 DEF DecodeInv
<1> QED BY <1>0, <1>3, <1>4, <1>5 DEF EngineInv, SnapInv, LedgerHonest, PromptInv, TurnFits

LEMMA SerialNextHolds ==
  ASSUME EngineInv, SerialNext
  PROVE  EngineInv'
<1>0. EngineTypes /\ gpc = "decode" /\ token \in Token /\ produced \in Nat /\ limit \in Nat
  BY DEF EngineInv, EngineTypes, SerialNext
<1>1. /\ ids' = ids /\ offset' = offset /\ limit' = limit /\ context' = context /\ burst' = burst
      /\ encoded' = encoded /\ after' = after /\ snap' = snap /\ produced' = produced + 1
      /\ limit - produced > 1
  BY DEF SerialNext, Published, Remaining
<1>2. produced' < limit
  BY <1>0, <1>1
<1>3. CASE produced' + ForceLen < limit /\ Advance("force") /\ force' = ForceLen
  <2>1. /\ Recorded(token, TRUE) /\ Encodes(<<token>>) /\ gpc' = "force"
        /\ token' \in (IF Sampling THEN Token ELSE {top'})
    BY <1>3 DEF Advance
  <2>2. token' \in Token
    BY <2>1 DEF Encodes
  <2>3. force' \in Nat /\ force' >= 1
    BY <1>3, EngineAssumption
  <2> QED BY <1>0, <1>1, <1>2, <1>3, <2>1, <2>2, <2>3, AdvanceHolds
<1>4. CASE Advance("decode") /\ force' = force
  <2>1. /\ Recorded(token, TRUE) /\ Encodes(<<token>>) /\ gpc' = "decode"
        /\ token' \in (IF Sampling THEN Token ELSE {top'})
    BY <1>4 DEF Advance
  <2>2. token' \in Token
    BY <2>1 DEF Encodes
  <2>3. force' \in Nat
    BY <1>0, <1>4 DEF EngineTypes
  <2> QED BY <1>0, <1>1, <1>2, <2>1, <2>2, <2>3, AdvanceHolds
<1> QED BY <1>3, <1>4 DEF SerialNext

LEMMA ForceCloseHolds ==
  ASSUME EngineInv, ForceClose
  PROVE  EngineInv'
<1>0. /\ EngineTypes /\ gpc = "force" /\ force >= 1 /\ produced + force < limit
      /\ token \in Token /\ produced \in Nat /\ limit \in Nat /\ force \in Nat
  BY DEF EngineInv, EngineTypes, ForceClose, DecodeInv
<1>1. PICK f \in Word : Recorded(f, TRUE) /\ Encodes(<<f>>)
  BY DEF ForceClose
<1>2. /\ ids' = ids /\ offset' = offset /\ limit' = limit /\ context' = context /\ burst' = burst
      /\ encoded' = encoded /\ after' = after /\ snap' = snap /\ produced' = produced + 1
      /\ force' = force - 1
      /\ \/ force = 1 /\ gpc' = "decode" /\ token' \in (IF Sampling THEN Token ELSE {top'})
         \/ force # 1 /\ gpc' = gpc /\ token' = token
  BY DEF ForceClose
<1>3. f \in Token /\ token' \in Token
  BY <1>0, <1>1, <1>2 DEF Encodes, Token
<1>4. produced' < limit /\ force' \in Nat
  BY <1>0, <1>2
<1>5. gpc' = "force" => force' >= 1 /\ produced' + force' < limit
  BY <1>0, <1>2
<1>6. gpc' \in {"decode", "force"}
  BY <1>0, <1>2
<1> QED BY <1>0, <1>1, <1>2, <1>3, <1>4, <1>5, <1>6, AdvanceHolds

(* A turn that ends with the engine at its ledger. *)
LEMMA EndsAtLedger ==
  ASSUME EngineInv, EndTurn, rows = ledger, valid, ~pending, ~dirty,
         UNCHANGED <<metalVars, ledgerVars, snap>>
  PROVE  EngineInv'
<1>0. EngineTypes /\ SnapInv
  BY DEF EngineInv
<1>1. /\ rows' = rows /\ top' = top /\ dirty' = dirty /\ ledger' = ledger /\ valid' = valid
      /\ pending' = pending /\ context' = context /\ snap' = snap
  BY DEF metalVars, ledgerVars
<1>t. /\ gpc' = "idle" /\ produced' = 0 /\ ids' \in Seq(Token) /\ offset' \in Nat /\ limit' \in Nat
      /\ token' \in Token /\ burst' \in Seq(Token) /\ encoded' \in Nat /\ after' \in Token
      /\ force' \in Nat
  BY <1>0, <1>1, EndTurnFacts
<1>2. EngineTypes'
  BY <1>0, <1>1, <1>t DEF EngineTypes
<1>3. ledger \in Seq(Token) /\ Len(ledger) \in Nat
  BY <1>0 DEF EngineTypes
<1>4. EncodedCount' = Len(ledger)
  BY <1>1, <1>3 DEF EncodedCount
<1>5. LedgerHonest'
  BY <1>1, <1>3, <1>4, CutWhole DEF LedgerHonest
<1> QED BY <1>0, <1>1, <1>2, <1>5, <1>t, IdleHolds DEF SnapInv

LEMMA TurnDoneHolds ==
  ASSUME EngineInv, TurnDone
  PROVE  EngineInv'
<1>1. gpc = "decode" /\ rows = ledger /\ valid /\ ~pending /\ ~dirty
  BY DEF EngineInv, DecodeInv, TurnDone
<1>2. EndTurn /\ UNCHANGED <<metalVars, ledgerVars, snap>>
  BY DEF TurnDone
<1> QED BY <1>1, <1>2, EndsAtLedger

-----------------------------------------------------------------------------
(* A speculative round *)

LEMMA RoundHolds ==
  ASSUME EngineInv, Round
  PROVE  EngineInv'
<1> DEFINE room == context - Len(rows)
           live == IF Remaining < Width THEN Remaining ELSE Width
           lanes == IF room < live THEN room ELSE live
<1>0. /\ EngineTypes /\ SnapInv /\ TurnFits /\ gpc = "decode" /\ ~dirty /\ valid /\ ~pending
      /\ rows = ledger /\ Len(ledger) = Len(ids) + produced /\ produced < limit /\ token # Eos
  BY DEF EngineInv, Round, DecodeInv
<1>1. PICK n \in 1 .. (IF lanes < 2 THEN 1 ELSE lanes) :
        \E s \in [1 .. n -> Token] :
          /\ s[1] = token
          /\ \A i \in 1 .. (n - 1) : s[i] # Eos
          /\ burst' = s
          /\ encoded' = IF lanes >= 2 /\ (s[n] = Eos \/ n = Remaining) THEN n - 1 ELSE n
          /\ ~(lanes < 2 /\ ContextFull)
          /\ IF encoded' = 0 THEN UNCHANGED metalVars ELSE Encodes(Upto(s, encoded'))
  BY DEF Round
<1>2. PICK s \in [1 .. n -> Token] :
          /\ s[1] = token
          /\ \A i \in 1 .. (n - 1) : s[i] # Eos
          /\ burst' = s
          /\ encoded' = IF lanes >= 2 /\ (s[n] = Eos \/ n = Remaining) THEN n - 1 ELSE n
          /\ ~(lanes < 2 /\ ContextFull)
          /\ IF encoded' = 0 THEN UNCHANGED metalVars ELSE Encodes(Upto(s, encoded'))
  BY <1>1
<1>3. /\ after' \in (IF Sampling \/ encoded' < Len(burst') THEN Token ELSE {top'})
      /\ gpc' = "burst" /\ Remaining >= 2
      /\ ledger' = ledger /\ valid' = valid /\ pending' = pending /\ context' = context
      /\ ids' = ids /\ offset' = offset /\ limit' = limit /\ produced' = produced /\ token' = token
      /\ force' = force /\ snap' = snap
  BY DEF Round, CanSpeculate, ledgerVars
<1>4. /\ ledger \in Seq(Token) /\ Len(ledger) \in Nat /\ Len(ids) \in Nat /\ produced \in Nat
      /\ limit \in Nat /\ context \in Nat /\ Width \in Nat /\ top \in Token
  BY <1>0, EngineAssumption DEF EngineTypes
<1>5. room \in Int /\ Remaining \in Int /\ live \in Int /\ lanes \in Int
      /\ lanes <= room /\ lanes <= Remaining
  BY <1>0, <1>4 DEF Remaining
<1>6. n \in Nat /\ n >= 1 /\ (n = 1 \/ n <= lanes) /\ (lanes >= 2 => n <= lanes)
  BY <1>5
<1>7. n <= room
  <2>1. CASE lanes < 2
    <3>1. Len(rows) < context
      BY <1>0, <1>2, <1>4, <2>1 DEF ContextFull
    <3>2. n = 1
      BY <1>5, <2>1
    <3> QED BY <1>0, <1>4, <3>1, <3>2
  <2>2. CASE lanes >= 2
    BY <1>5, <1>6, <2>2
  <2> QED BY <1>5, <2>1, <2>2
<1>8. n <= Remaining
  BY <1>3, <1>5, <1>6
<1>9. /\ s \in Seq(Token) /\ Len(s) = n
  BY <1>6
<1>10. /\ encoded' \in Nat /\ encoded' <= n
       /\ s[n] = Eos => encoded' = n - 1
  <2>1. s[n] = Eos => n # 1
    BY <1>0, <1>2
  <2>2. s[n] = Eos => lanes >= 2
    BY <1>5, <1>6, <2>1
  <2> QED BY <1>2, <1>6, <2>2
<1> HIDE DEF room, live, lanes
<1>11. /\ rows' = ledger \o Upto(s, encoded') /\ rows' \in Seq(Token) /\ dirty' = dirty
       /\ top' \in Token
  <2>1. Upto(s, encoded') \in Seq(Token)
    BY <1>9, <1>10, CutFacts DEF Upto
  <2>2. CASE encoded' = 0
    <3>1. rows' = rows /\ dirty' = dirty /\ top' = top
      BY <1>2, <2>2 DEF metalVars
    <3> QED BY <1>0, <1>4, <1>9, <2>2, <3>1, RoundEmpty DEF Upto
  <2>3. CASE encoded' # 0
    <3>1. rows' = rows \o Upto(s, encoded') /\ dirty' = dirty /\ top' \in Token
      BY <1>2, <2>3 DEF Encodes
    <3> QED BY <1>0, <1>4, <2>1, <3>1, ConcatProperties
  <2> QED BY <2>2, <2>3
<1>12. after' \in Token
  BY <1>3, <1>11
<1>13. EngineTypes'
  BY <1>0, <1>2, <1>3, <1>9, <1>10, <1>11, <1>12 DEF EngineTypes
<1>14. Len(ledger) + n <= context /\ produced + n <= limit
  BY <1>0, <1>4, <1>6, <1>7, <1>8 DEF Remaining, room
<1>15. \A i \in 1 .. n : s[i] = Eos => i = n /\ encoded' < i
  <2> SUFFICES ASSUME NEW i \in 1 .. n, s[i] = Eos PROVE i = n /\ encoded' < i
    OBVIOUS
  <2>1. i = n
    <3>1. i \in 1 .. (n - 1) \/ i = n
      BY <1>6
    <3> QED BY <1>2, <3>1
  <2> QED BY <1>6, <1>10, <2>1
<1>16. DecodeInv'
  BY <1>0, <1>2, <1>3, <1>9, <1>10, <1>11, <1>14, <1>15 DEF DecodeInv, Upto
<1> QED BY <1>0, <1>3, <1>11, <1>13, <1>16 DEF EngineInv, SnapInv, LedgerHonest, PromptInv, TurnFits

LEMMA BurstTokenHolds ==
  ASSUME EngineInv, BurstToken
  PROVE  EngineInv'
<1>0. /\ EngineTypes /\ SnapInv /\ TurnFits /\ gpc = "burst" /\ ~dirty
      /\ Len(ledger) = Len(ids) + produced
      /\ encoded <= Len(burst) /\ rows = ledger \o Upto(burst, encoded)
      /\ Len(ledger) + Len(burst) <= context /\ produced + Len(burst) <= limit
      /\ \A i \in 1 .. Len(burst) : burst[i] = Eos => i = Len(burst) /\ encoded < i
  BY DEF EngineInv, BurstToken, DecodeInv
<1>1. /\ burst # <<>> /\ produced' = produced + 1
      /\ ledger' = Append(ledger, Head(burst)) /\ valid' = TRUE /\ pending' = FALSE
      /\ burst' = Tail(burst)
      /\ \/ encoded > 0 /\ encoded' = encoded - 1 /\ rows' = rows /\ top' = top /\ dirty' = dirty
         \/ /\ encoded = 0 /\ rows' = rows \o <<Head(burst)>> /\ top' \in Token /\ dirty' = dirty
            /\ encoded' = encoded
      /\ context' = context /\ gpc' = gpc /\ ids' = ids /\ offset' = offset /\ limit' = limit
      /\ token' = token /\ after' = after /\ force' = force /\ snap' = snap
  <2>1. encoded \in Nat
    BY <1>0 DEF EngineTypes
  <2>2. CASE encoded > 0
    BY <2>1, <2>2 DEF BurstToken, AtBurstEnd, Published, Recorded, metalVars
  <2>3. CASE ~(encoded > 0)
    <3>1. encoded = 0
      BY <2>1, <2>3
    <3>2. rows' = rows \o <<Head(burst)>> /\ top' \in Token /\ dirty' = dirty /\ encoded' = encoded
      BY <2>3 DEF BurstToken, Encodes
    <3> QED BY <3>1, <3>2 DEF BurstToken, AtBurstEnd, Published, Recorded
  <2> QED BY <2>2, <2>3
<1>2. /\ ledger \in Seq(Token) /\ burst \in Seq(Token) /\ encoded \in Nat /\ Len(ledger) \in Nat
      /\ Len(ids) \in Nat /\ produced \in Nat /\ limit \in Nat /\ context \in Nat
      /\ rows \in Seq(Token)
      /\ top \in Token
  BY <1>0, EngineAssumption DEF EngineTypes
<1>3. /\ Head(burst) \in Token /\ Tail(burst) \in Seq(Token) /\ Len(burst) \in Nat
      /\ Len(burst) >= 1
      /\ Len(Tail(burst)) = Len(burst) - 1
      /\ \A i \in 1 .. Len(burst) - 1 : Tail(burst)[i] = burst[i + 1]
  BY <1>1, <1>2
<1>4. /\ ledger \o <<Head(burst)>> = Append(ledger, Head(burst))
      /\ Append(ledger, Head(burst)) \in Seq(Token)
      /\ Len(Append(ledger, Head(burst))) = Len(ledger) + 1
  BY <1>2, <1>3, OneMore
<1>n. /\ Len(Tail(burst)) = Len(burst) - 1 /\ Len(burst) \in Nat /\ Len(burst) >= 1
      /\ encoded \in Nat /\ encoded <= Len(burst)
  BY <1>0, <1>2, <1>3
<1>5. encoded' \in Nat /\ encoded' <= Len(Tail(burst)) /\ encoded' <= encoded
  <2>1. CASE encoded > 0 /\ encoded' = encoded - 1
    BY <1>n, <2>1
  <2>2. CASE encoded = 0 /\ encoded' = encoded
    BY <1>n, <2>2
  <2> QED BY <1>1, <2>1, <2>2
<1>6. /\ rows' = Append(ledger, Head(burst)) \o Upto(Tail(burst), encoded') /\ rows' \in Seq(Token)
      /\ top' \in Token /\ dirty' = dirty
  <2>1. CASE encoded > 0
    <3>1. encoded' = encoded - 1 /\ rows' = rows /\ top' = top /\ dirty' = dirty
      BY <1>1, <1>2, <2>1
    <3>2. encoded - 1 \in Nat /\ (encoded - 1) + 1 = encoded
      BY <1>2, <2>1
    <3>3. ledger \o SubSeq(burst, 1, encoded)
            = Append(ledger, Head(burst)) \o SubSeq(Tail(burst), 1, encoded - 1)
      <4>1. encoded - 1 + 1 <= Len(burst)
        BY <1>0, <1>2, <2>1
      <4>2. ledger \o SubSeq(burst, 1, encoded - 1 + 1)
              = Append(ledger, Head(burst)) \o SubSeq(Tail(burst), 1, encoded - 1)
        BY <1>1, <1>2, <3>2, <4>1, RoundMoves
      <4> QED BY <3>2, <4>2
    <3> QED BY <1>0, <1>2, <3>1, <3>3 DEF Upto
  <2>2. CASE encoded = 0
    <3>1. encoded' = 0 /\ rows' = rows \o <<Head(burst)>> /\ top' \in Token /\ dirty' = dirty
      BY <1>1, <2>2
    <3>2. rows = ledger
      BY <1>0, <1>2, <2>2, RoundEmpty DEF Upto
    <3>3. Append(ledger, Head(burst)) \o SubSeq(Tail(burst), 1, 0) = Append(ledger, Head(burst))
      BY <1>3, <1>4, RoundEmpty
    <3> QED BY <1>4, <3>1, <3>2, <3>3 DEF Upto
  <2> QED BY <1>2, <2>1, <2>2
<1>7. EngineTypes'
  <2>1. produced' \in Nat /\ encoded' \in Nat
    BY <1>1, <1>2, <1>5
  <2>2. /\ ledger' \in Seq(Token) /\ rows' \in Seq(Token) /\ burst' \in Seq(Token)
        /\ valid' \in BOOLEAN /\ pending' \in BOOLEAN /\ top' \in Token /\ dirty' = dirty
    BY <1>1, <1>3, <1>4, <1>6
  <2>3. /\ context' = context /\ gpc' = gpc /\ ids' = ids /\ offset' = offset /\ limit' = limit
        /\ token' = token /\ after' = after /\ force' = force /\ snap' = snap
    BY <1>1
  <2> QED BY <1>0, <2>1, <2>2, <2>3 DEF EngineTypes
<1>8. ASSUME NEW i \in 1 .. Len(Tail(burst)), Tail(burst)[i] = Eos
      PROVE  i = Len(Tail(burst)) /\ encoded' < i
  <2>1. i \in Nat /\ i + 1 \in 1 .. Len(burst) /\ burst[i + 1] = Eos
    BY <1>3, <1>8
  <2>2. i + 1 = Len(burst) /\ encoded < i + 1
    BY <1>0, <2>1
  <2>3. encoded' < i
    <3>1. CASE encoded > 0 /\ encoded' = encoded - 1
      BY <1>2, <2>1, <2>2, <3>1
    <3>2. CASE encoded = 0 /\ encoded' = encoded
      BY <2>1, <3>2
    <3> QED BY <1>1, <3>1, <3>2
  <2> QED BY <1>n, <2>1, <2>2, <2>3
<1>9. DecodeInv'
  <2>1. Len(ledger') = Len(ids') + produced'
    BY <1>0, <1>1, <1>2, <1>4
  <2>2. Len(ledger') + Len(burst') <= context' /\ produced' + Len(burst') <= limit'
    <3>1. /\ Len(ledger') = Len(ledger) + 1 /\ Len(burst') = Len(burst) - 1 /\ context' = context
          /\ produced' = produced + 1 /\ limit' = limit
      BY <1>1, <1>3, <1>4
    <3>2. /\ Len(ledger) + Len(burst) <= context /\ produced + Len(burst) <= limit
          /\ Len(ledger) \in Nat /\ context \in Nat /\ produced \in Nat /\ limit \in Nat
      BY <1>0, <1>2
    <3> QED BY <1>n, <3>1, <3>2
  <2> QED BY <1>0, <1>1, <1>5, <1>6, <1>8, <2>1, <2>2 DEF DecodeInv, Upto
<1> QED BY <1>0, <1>1, <1>6, <1>7, <1>9 DEF EngineInv, SnapInv, LedgerHonest, PromptInv, TurnFits

LEMMA BurstEndHolds ==
  ASSUME EngineInv, BurstEnd
  PROVE  EngineInv'
<1>0. /\ EngineTypes /\ SnapInv /\ TurnFits /\ gpc = "burst" /\ ~dirty /\ valid /\ ~pending
      /\ Len(ledger) = Len(ids) + produced
      /\ encoded <= Len(burst) /\ rows = ledger \o Upto(burst, encoded)
      /\ produced + Len(burst) <= limit
      /\ \A i \in 1 .. Len(burst) : burst[i] = Eos => i = Len(burst) /\ encoded < i
  BY DEF EngineInv, BurstEnd, DecodeInv
<1>1. /\ ledger \in Seq(Token) /\ burst \in Seq(Token) /\ encoded \in Nat /\ produced \in Nat
      /\ limit \in Nat /\ Len(burst) \in Nat
  BY <1>0 DEF EngineTypes
<1>2. encoded = 0
  <2>1. CASE burst = <<>>
    BY <1>0, <1>1, <2>1
  <2>2. CASE burst # <<>>
    <3>1. burst[1] = Eos /\ 1 \in 1 .. Len(burst)
      BY <1>1, <2>2 DEF BurstEnd, AtBurstEnd
    <3> QED BY <1>0, <1>1, <3>1
  <2> QED BY <2>1, <2>2
<1>3. rows = ledger
  BY <1>0, <1>1, <1>2, RoundEmpty DEF Upto
<1>4. CASE EndTurn /\ UNCHANGED <<metalVars, ledgerVars, snap>>
  BY <1>0, <1>3, <1>4, EndsAtLedger
<1>5. CASE /\ burst = <<>> /\ Remaining # 0
           /\ ~(BudgetSpent(span) /\ produced + ForceLen >= limit)
           /\ IF BudgetSpent(span)
                THEN gpc' = "force" /\ force' = ForceLen /\ UNCHANGED token
                ELSE gpc' = "decode" /\ token' = after /\ UNCHANGED force
           /\ UNCHANGED <<ids, offset, limit, produced, burst, encoded, after, tools, span>>
           /\ UNCHANGED <<metalVars, ledgerVars, snap>>
  <2>1. /\ rows' = rows /\ top' = top /\ dirty' = dirty /\ ledger' = ledger /\ valid' = valid
        /\ pending' = pending /\ context' = context /\ snap' = snap
        /\ ids' = ids /\ offset' = offset /\ limit' = limit /\ produced' = produced
        /\ burst' = burst /\ encoded' = encoded /\ after' = after
    BY <1>5 DEF metalVars, ledgerVars
  <2>2. produced < limit
    BY <1>0, <1>1, <1>5 DEF Remaining
  <2>3. \/ gpc' = "force" /\ force' = ForceLen /\ token' = token /\ produced + ForceLen < limit
        \/ gpc' = "decode" /\ token' = after /\ force' = force
    <3>1. ForceLen \in Nat
      BY EngineAssumption
    <3>2. BudgetSpent(span) => produced + ForceLen < limit
      BY <1>1, <1>5, <3>1
    <3> QED BY <1>5, <3>2
  <2>4. ForceLen \in Nat /\ ForceLen >= 1
    BY EngineAssumption
  <2>5. EngineTypes'
    BY <1>0, <2>1, <2>3, <2>4 DEF EngineTypes
  <2>6. DecodeInv'
    BY <1>0, <1>3, <2>1, <2>2, <2>3, <2>4 DEF DecodeInv
  <2>7. gpc' \in {"force", "decode"}
    BY <2>3
  <2> QED BY <1>0, <2>1, <2>5, <2>6, <2>7 DEF EngineInv, SnapInv, LedgerHonest, PromptInv, TurnFits
<1> QED BY <1>4, <1>5 DEF BurstEnd

-----------------------------------------------------------------------------
(* Sessions *)

LEMMA SaveResidentHolds ==
  ASSUME EngineInv, SaveResident
  PROVE  EngineInv'
<1>0. EngineTypes /\ LedgerHonest /\ gpc = "idle" /\ produced = 0
  BY DEF EngineInv, SaveResident
<1>1. /\ snap' = [tokens |-> ledger, rows |-> rows, top |-> top]
      /\ rows' = rows /\ top' = top /\ dirty' = dirty /\ ledger' = ledger /\ valid' = valid
      /\ pending' = pending /\ context' = context /\ gpc' = gpc
      /\ ids' = ids /\ offset' = offset /\ limit' = limit /\ produced' = produced /\ token' = token
      /\ burst' = burst /\ encoded' = encoded /\ after' = after /\ force' = force
  BY DEF SaveResident, metalVars, ledgerVars, turnVars
<1>2. /\ valid /\ EncodedCount = Len(rows) /\ rows = SubSeq(ledger, 1, Len(rows))
  BY <1>0 DEF SaveResident, Reusable, LedgerHonest
<1>3. ledger \in Seq(Token) /\ Len(ledger) \in Nat /\ rows \in Seq(Token) /\ top \in Token
  BY <1>0 DEF EngineTypes
<1>4. Len(rows) <= Len(ledger)
  BY <1>2, <1>3 DEF EncodedCount
<1>5. snap' \in Snapshot
  BY <1>1, <1>3 DEF Snapshot
<1>6. EngineTypes'
  BY <1>0, <1>1, <1>5 DEF EngineTypes
<1>7. SnapInv'
  BY <1>1, <1>2, <1>4 DEF SnapInv
<1>8. LedgerHonest'
  BY <1>0, <1>1 DEF LedgerHonest, EncodedCount
<1> QED BY <1>0, <1>1, <1>6, <1>7, <1>8, IdleHolds

LEMMA SaveCanonicalHolds ==
  ASSUME EngineInv, SaveCanonical
  PROVE  EngineInv'
<1>0. EngineTypes /\ SnapInv /\ gpc = "idle" /\ produced = 0
  BY DEF EngineInv, SaveCanonical
<1>1. PICK closed \in Prompt(context) :
        /\ rows' = closed /\ dirty' = FALSE /\ top' \in Token
        /\ Committed(closed)
        /\ \/ snap' = [tokens |-> closed, rows |-> closed, top |-> top']
           \/ UNCHANGED snap
  BY DEF SaveCanonical
<1>2. /\ context' = context /\ gpc' = gpc
      /\ ids' = ids /\ offset' = offset /\ limit' = limit /\ produced' = produced /\ token' = token
      /\ burst' = burst /\ encoded' = encoded /\ after' = after /\ force' = force
  BY DEF SaveCanonical, turnVars
<1>3. context \in Nat
  BY <1>0, EngineAssumption DEF EngineTypes
<1>4. closed \in Seq(Token) /\ Len(closed) \in Nat
  BY <1>3, PromptTokens
<1>5. ledger' = closed /\ valid' = TRUE /\ pending' = FALSE
  BY <1>1 DEF Committed
<1>6. closed = SubSeq(closed, 1, Len(closed)) /\ Len(closed) <= Len(closed)
  BY <1>4, CutWhole
<1>7. snap' \in Snapshot
  BY <1>0, <1>1, <1>4 DEF Snapshot, EngineTypes
<1>8. SnapInv'
  <2>1. CASE snap' = snap
    BY <1>0, <2>1 DEF SnapInv
  <2>2. CASE snap' = [tokens |-> closed, rows |-> closed, top |-> top']
    BY <1>6, <2>2 DEF SnapInv
  <2> QED BY <1>1, <2>1, <2>2
<1>9. EngineTypes'
  BY <1>0, <1>1, <1>2, <1>4, <1>5, <1>7 DEF EngineTypes
<1>10. EncodedCount' = Len(closed)
  BY <1>4, <1>5 DEF EncodedCount
<1>11. LedgerHonest'
  BY <1>1, <1>5, <1>6, <1>10 DEF LedgerHonest
<1> QED BY <1>0, <1>2, <1>8, <1>9, <1>11, IdleHolds

LEMMA SaveFailsHolds ==
  ASSUME EngineInv, SaveFails
  PROVE  EngineInv'
<1>0. EngineTypes /\ SnapInv /\ gpc = "idle" /\ produced = 0
  BY DEF EngineInv, SaveFails
<1>1. /\ ledger' = <<>> /\ valid' = FALSE /\ pending' = FALSE /\ top' = top /\ dirty' = TRUE
      /\ rows' \in {<<>>} \cup Prompt(context) /\ snap' = snap
      /\ context' = context /\ gpc' = gpc
      /\ ids' = ids /\ offset' = offset /\ limit' = limit /\ produced' = produced /\ token' = token
      /\ burst' = burst /\ encoded' = encoded /\ after' = after /\ force' = force
  BY DEF SaveFails, Invalidated, turnVars
<1>2. context \in Nat
  BY <1>0, EngineAssumption DEF EngineTypes
<1>3. rows' \in Seq(Token)
  <2>1. CASE rows' = <<>>
    BY <2>1, NoTokens
  <2>2. CASE rows' \in Prompt(context)
    BY <1>2, <2>2, PromptTokens
  <2> QED BY <1>1, <2>1, <2>2
<1>4. EngineTypes'
  BY <1>0, <1>1, <1>3, NoTokens DEF EngineTypes
<1> QED BY <1>0, <1>1, <1>4, InvalidHolds DEF SnapInv

LEMMA RestartHolds ==
  ASSUME EngineInv, Restart
  PROVE  EngineInv'
<1>0. EngineTypes /\ SnapInv /\ gpc = "idle" /\ produced = 0
  BY DEF EngineInv, Restart
<1>1. /\ context' \in Contexts /\ snap' = snap /\ gpc' = gpc
      /\ ids' = ids /\ offset' = offset /\ limit' = limit /\ produced' = produced /\ token' = token
      /\ burst' = burst /\ encoded' = encoded /\ after' = after /\ force' = force
  BY DEF Restart, turnVars
<1>2. /\ snap.tokens \in Seq(Token) /\ snap.rows \in Seq(Token) /\ snap.top \in Token
      /\ Len(snap.tokens) \in Nat /\ Len(snap.rows) \in Nat
  BY <1>0 DEF EngineTypes, Snapshot
<1>3. SnapInv'
  BY <1>0, <1>1 DEF SnapInv
<1>4. CASE /\ Loads(snap)
           /\ rows' = snap.rows /\ top' = snap.top /\ dirty' = FALSE
           /\ ledger' = snap.tokens /\ valid' = TRUE
           /\ pending' = (Len(snap.tokens) = Len(snap.rows) + 1)
  <2>0. pending' \in BOOLEAN
    BY <1>4, Zenon
  <2>1. EngineTypes'
    BY <1>0, <1>1, <1>2, <1>4, <2>0 DEF EngineTypes
  <2>2. EncodedCount' = Len(snap.rows)
    <3>1. CASE Len(snap.tokens) = Len(snap.rows)
      <4>1. Len(snap.tokens) # Len(snap.rows) + 1
        BY <1>2, <3>1
      <4>2. pending' = FALSE
        BY <1>4, <4>1, Zenon
      <4> QED BY <1>2, <1>4, <3>1, <4>2 DEF EncodedCount
    <3>2. CASE Len(snap.tokens) = Len(snap.rows) + 1
      <4>1. pending' = TRUE
        BY <1>4, <3>2, Zenon
      <4>2. Len(ledger') = Len(snap.rows) + 1 /\ valid' = TRUE
        BY <1>4, <3>2
      <4> QED BY <1>2, <4>1, <4>2 DEF EncodedCount
    <3> QED BY <1>4, <3>1, <3>2 DEF Loads
  <2>3. LedgerHonest'
    BY <1>0, <1>4, <2>2 DEF LedgerHonest, SnapInv
  <2> QED BY <1>0, <1>1, <1>3, <2>1, <2>3, IdleHolds
<1>5. CASE Invalidated /\ Reset
  <2>1. /\ ledger' = <<>> /\ valid' = FALSE /\ pending' = FALSE /\ rows' = <<>> /\ dirty' = FALSE
        /\ top' = top
    BY <1>5 DEF Invalidated, Reset
  <2>2. EngineTypes'
    BY <1>0, <1>1, <2>1, NoTokens DEF EngineTypes
  <2> QED BY <1>0, <1>1, <1>3, <2>1, <2>2, InvalidHolds
<1> QED BY <1>4, <1>5 DEF Restart

-----------------------------------------------------------------------------

LEMMA EngineBegins ==
  ASSUME EngineInit
  PROVE  EngineInv
<1>0. Eos \in Token
  BY DEF Token
<1>1. EngineTypes
  <2>1. NoSnap \in Snapshot
    BY <1>0, NoTokens DEF NoSnap, Snapshot
  <2> QED BY <1>0, <2>1, NoTokens DEF EngineInit, EngineTypes
<1>2. SnapInv
  BY DEF EngineInit, SnapInv, NoSnap
<1> QED BY <1>1, <1>2 DEF EngineInit, EngineInv, LedgerHonest, PromptInv, DecodeInv

LEMMA EngineStutters ==
  ASSUME EngineInv, UNCHANGED engineVars
  PROVE  EngineInv'
<1>1. /\ rows' = rows /\ top' = top /\ dirty' = dirty /\ ledger' = ledger /\ valid' = valid
      /\ pending' = pending /\ context' = context /\ snap' = snap /\ gpc' = gpc
      /\ ids' = ids /\ offset' = offset /\ limit' = limit /\ produced' = produced /\ token' = token
      /\ burst' = burst /\ encoded' = encoded /\ after' = after /\ force' = force
  BY DEF engineVars, metalVars, ledgerVars, turnVars
<1> QED BY <1>1 DEF EngineInv, EngineTypes, SnapInv, LedgerHonest, EncodedCount, TurnFits,
                    PromptInv, DecodeInv

LEMMA EngineHolds ==
  ASSUME EngineInv, [EngineNext]_engineVars
  PROVE  EngineInv'
<1>1. CASE UNCHANGED engineVars
  BY <1>1, EngineStutters
<1>2. CASE EngineNext
  BY <1>2, BeginHolds, FinalizePendingHolds, IngestHolds, CommitPromptHolds, StallHolds,
     SerialLastHolds, SerialNextHolds, ForceCloseHolds, TurnDoneHolds, RoundHolds,
     BurstTokenHolds, BurstEndHolds, CancelHolds, FailureHolds, SaveResidentHolds,
     SaveCanonicalHolds, SaveFailsHolds, RestartHolds
     DEF EngineNext
<1> QED BY <1>1, <1>2

(* Where a step is due, there is room for it. *)
LEMMA StepHasRoom ==
  ASSUME EngineInv
  PROVE  ContextNeverOverrun
<1> SUFFICES ASSUME StepDue PROVE Len(rows) < context
  <2>1. Len(rows) \in Nat /\ context \in Nat
    BY EngineAssumption DEF EngineInv, EngineTypes
  <2> QED BY <2>1 DEF ContextNeverOverrun, ContextFull
<1>0. EngineTypes /\ PromptInv /\ DecodeInv /\ TurnFits
  BY DEF EngineInv, StepDue
<1>1. /\ rows \in Seq(Token) /\ ids \in Seq(Token) /\ ledger \in Seq(Token) /\ burst \in Seq(Token)
      /\ Len(rows) \in Nat /\ Len(ids) \in Nat /\ Len(ledger) \in Nat /\ Len(burst) \in Nat
      /\ offset \in Nat /\ limit \in Nat /\ produced \in Nat /\ force \in Nat /\ context \in Nat
  BY <1>0, EngineAssumption DEF EngineTypes
<1>2. Len(ids) <= context
  BY <1>0, <1>1 DEF TurnFits
<1>3. CASE gpc = "finalize"
  <2>1. offset - 1 \in Nat /\ offset - 1 < Len(ids) /\ rows = SubSeq(ids, 1, offset - 1)
    BY <1>0, <1>1, <1>3 DEF PromptInv
  <2>2. Len(rows) = offset - 1
    BY <1>1, <2>1, CutFacts
  <2> QED BY <1>1, <1>2, <2>1, <2>2
<1>4. CASE gpc = "ingest" /\ offset < Len(ids)
  <2>1. Len(rows) = offset
    BY <1>0, <1>1, <1>4, CutFacts DEF PromptInv
  <2> QED BY <1>1, <1>2, <1>4, <2>1
<1>5. CASE gpc = "decode" /\ Remaining > 1
  <2>1. Len(rows) = Len(ids) + produced
    BY <1>0, <1>5 DEF DecodeInv
  <2> QED BY <1>0, <1>1, <1>5, <2>1 DEF Remaining, TurnFits
<1>6. CASE gpc = "force"
  <2>1. Len(rows) = Len(ids) + produced /\ force >= 1 /\ produced + force < limit
    BY <1>0, <1>6 DEF DecodeInv
  <2> QED BY <1>0, <1>1, <2>1 DEF TurnFits
<1>7. CASE gpc = "burst" /\ ~AtBurstEnd /\ encoded = 0
  <2>1. burst # <<>> /\ rows = ledger /\ Len(ledger) + Len(burst) <= context
    BY <1>0, <1>1, <1>7, RoundEmpty DEF DecodeInv, AtBurstEnd, Upto
  <2>2. Len(burst) >= 1
    BY <1>1, <2>1
  <2> QED BY <1>1, <2>1, <2>2
<1> QED BY <1>3, <1>4, <1>5, <1>6, <1>7 DEF StepDue

(* A ledger that would be reused is what the engine holds, and no turn     *)
(* that was accepted runs out of context (q27_agent_engine.cpp, through    *)
(* throws, speculation, injected results and restored snapshots).          *)
THEOREM LedgerAgrees == EngineSpec => []EngineAsLedger
<1>1. EngineInit => EngineInv
  BY EngineBegins
<1>2. EngineInv /\ [EngineNext]_engineVars => EngineInv'
  BY EngineHolds
<1>3. EngineInv => EngineAsLedger
  BY StepHasRoom DEF EngineInv, EngineAsLedger
<1> QED BY <1>1, <1>2, <1>3, PTL DEF EngineSpec

(***************************************************************************)
(* Sessions on disk                                                        *)
(***************************************************************************)

DirType == [manifest : Nat, snaps : SUBSET Nat, version : Nat]
AgentAt ==
  {"start", "lock_shared", "read", "load", "ready", "lock", "compare", "rename", "sync",
   "unlink", "drop", "lock_discard", "compare_discard", "unlink_discard", "sync_discard",
   "gone"}

(* Where an agent's snapshot has a name that no manifest has borne yet;    *)
(* where it holds the lock alone; and where it holds it with others.       *)
Fresh == {"lock", "compare", "rename", "drop"}
Alone == {"compare", "rename", "sync", "unlink", "compare_discard", "unlink_discard",
          "sync_discard"}
Together == {"read", "load"}

SessionTypes ==
  /\ dir \in DirType /\ disk \in Seq(DirType) /\ Len(disk) > 0
  /\ named \in Nat /\ parent \in Seq(Nat) /\ Len(parent) = named
  /\ apc \in [Agent -> AgentAt]
  /\ current \in [Agent -> Nat] /\ mine \in [Agent -> Nat]
  /\ acked \in Nat /\ deaths \in Nat /\ losses \in Nat
  /\ shared \subseteq Agent /\ exclusive \in Agent \cup {NoAgent}

Backed(d) == d.manifest # 0 => d.manifest \in d.snaps

(* What a power loss may leave: whole, not before the last report, and at  *)
(* the end what the processes see.                                         *)
DiskInv ==
  /\ \A i \in 1 .. Len(disk) :
       Backed(disk[i]) /\ disk[i].version >= acked /\ disk[i].manifest <= named
  /\ disk[Len(disk)] = dir

(* The flock, and the names drawn so far. *)
LockInv ==
  /\ \A a \in Agent : apc[a] \in Alone => exclusive = a
  /\ \A a \in Agent : apc[a] \in Together => a \in shared
  /\ \A a \in shared : apc[a] \in Together
  /\ exclusive # NoAgent => shared = {} /\ apc[exclusive] \in Alone

NamedAt(a) ==
  /\ current[a] <= named /\ mine[a] <= named
  /\ apc[a] \in Fresh =>
       /\ mine[a] > 0 /\ mine[a] # dir.manifest
       /\ parent[mine[a]] = current[a]
       /\ \A b \in Agent : mine[a] # current[b]
       /\ \A b \in Agent \ {a} : apc[b] \in Fresh => mine[a] # mine[b]

NameInv == \A a \in Agent : NamedAt(a)

(* What the lock keeps true for the agent that holds it. *)
HeldAt(a) ==
  /\ apc[a] = "load" => mine[a] = dir.manifest /\ mine[a] # 0
  /\ apc[a] = "rename" => mine[a] \in dir.snaps /\ dir.manifest = current[a]
  /\ apc[a] \in {"sync", "unlink"} => dir.manifest = mine[a] /\ current[a] # mine[a]
  /\ apc[a] \in {"unlink_discard", "sync_discard"} => dir.manifest = 0
  /\ apc[a] = "unlink" => \A i \in 1 .. Len(disk) : disk[i].version = dir.version

HolderInv == \A a \in Agent : HeldAt(a)

SessionInv == SessionTypes /\ DiskInv /\ LockInv /\ NameInv /\ HolderInv

(* A directory operation, a sync and nothing at all leave the same kind of *)
(* disk: it ends in d, and holds nothing else that it did not hold.        *)
Landed(d) ==
  /\ dir' = d
  /\ disk' \in Seq(DirType) /\ Len(disk') > 0 /\ disk'[Len(disk')] = d
  /\ \A i \in 1 .. Len(disk') : disk'[i] = d \/ \E j \in 1 .. Len(disk) : disk'[i] = disk[j]

LEMMA Lands ==
  ASSUME SessionTypes, disk[Len(disk)] = dir, NEW d \in DirType,
         Write(d) \/ SyncTo(d) \/ (UNCHANGED <<dir, disk>> /\ d = dir)
  PROVE  Landed(d)
<1>1. CASE Write(d)
  BY <1>1 DEF Write, Landed, SessionTypes
<1>2. CASE SyncTo(d)
  BY <1>2 DEF SyncTo, Landed, SessionTypes
<1>3. CASE UNCHANGED <<dir, disk>> /\ d = dir
  BY <1>3 DEF Landed, SessionTypes
<1> QED BY <1>1, <1>2, <1>3

(* The disk stays whole when what lands is. *)
LEMMA LandedKeeps ==
  ASSUME SessionTypes, DiskInv, NEW d \in DirType, Landed(d), Backed(d),
         acked' \in Nat, named' \in Nat, named <= named',
         d.version >= acked', d.manifest <= named',
         \A i \in 1 .. Len(disk) : disk[i].version >= acked'
  PROVE  DiskInv' /\ dir' \in DirType /\ disk' \in Seq(DirType) /\ Len(disk') > 0
<1>1. /\ dir' = d /\ disk' \in Seq(DirType) /\ Len(disk') > 0 /\ disk'[Len(disk')] = d
      /\ \A i \in 1 .. Len(disk') : disk'[i] = d \/ \E j \in 1 .. Len(disk) : disk'[i] = disk[j]
  BY DEF Landed
<1>2. ASSUME NEW j \in 1 .. Len(disk)
      PROVE  Backed(disk[j]) /\ disk[j].version >= acked' /\ disk[j].manifest <= named'
  <2>1. Backed(disk[j]) /\ disk[j].version >= acked' /\ disk[j].manifest <= named
    BY DEF DiskInv
  <2>2. disk[j] \in DirType /\ named \in Nat
    BY DEF SessionTypes
  <2> QED BY <2>1, <2>2 DEF DirType
<1>3. ASSUME NEW i \in 1 .. Len(disk')
      PROVE  Backed(disk'[i]) /\ disk'[i].version >= acked' /\ disk'[i].manifest <= named'
  BY <1>1, <1>2
<1> QED BY <1>1, <1>3 DEF DiskInv, Backed

(* The lock is given back on the way to where it is not needed, and kept   *)
(* on the way from one place to another that need it alike.                *)
(* Whoever is alone with the lock need not mind the others. *)
LEMMA AloneIsAlone ==
  ASSUME SessionTypes, LockInv, NEW a \in Agent, apc[a] \in Alone, NEW b \in Agent \ {a}
  PROVE  apc[b] \notin Alone \cup Together
BY SessionAssumption DEF SessionTypes, LockInv

(* What a step that only adds or removes a snapshot leaves of the directory. *)
SameManifest(d) == d.manifest = dir.manifest /\ d.version = dir.version

LEMMA DirFacts ==
  ASSUME SessionTypes, DiskInv, NEW n \in Nat
  PROVE  /\ WithSnap(n) \in DirType /\ SameManifest(WithSnap(n))
         /\ WithSnap(n).snaps = dir.snaps \cup {n}
         /\ WithoutSnap(n) \in DirType /\ SameManifest(WithoutSnap(n))
         /\ WithoutSnap(n).snaps = dir.snaps \ {n}
         /\ Naming(n) \in DirType /\ Naming(n).manifest = n
         /\ Naming(n).version = dir.version + 1 /\ Naming(n).snaps = dir.snaps
         /\ dir \in DirType /\ SameManifest(dir) /\ dir.manifest <= named
         /\ dir.version >= acked /\ Backed(dir) /\ dir.manifest \in Nat /\ dir.version \in Nat
<1>1. dir \in DirType /\ dir.manifest \in Nat /\ dir.version \in Nat /\ dir.snaps \in SUBSET Nat
  BY DEF SessionTypes, DirType
<1>2. dir.manifest <= named /\ dir.version >= acked /\ Backed(dir)
  BY DEF SessionTypes, DiskInv
<1>3. WithSnap(n) \in DirType /\ SameManifest(WithSnap(n)) /\ WithSnap(n).snaps = dir.snaps \cup {n}
  BY <1>1 DEF WithSnap, DirType, SameManifest
<1>4. /\ WithoutSnap(n) \in DirType /\ SameManifest(WithoutSnap(n))
      /\ WithoutSnap(n).snaps = dir.snaps \ {n}
  BY <1>1 DEF WithoutSnap, DirType, SameManifest
<1>5. /\ Naming(n) \in DirType /\ Naming(n).manifest = n
      /\ Naming(n).version = dir.version + 1 /\ Naming(n).snaps = dir.snaps
  <2> DEFINE named0 == [dir EXCEPT !.manifest = n]
             counted == dir.version + 1
  <2>1. /\ named0 \in DirType /\ named0.manifest = n /\ named0.version = dir.version
        /\ named0.snaps = dir.snaps /\ counted \in Nat
    BY <1>1 DEF DirType
  <2>2. Naming(n) = [named0 EXCEPT !.version = counted]
    BY DEF Naming
  <2> HIDE DEF named0, counted
  <2>3. /\ Naming(n) \in DirType /\ Naming(n).manifest = n
        /\ Naming(n).version = counted /\ Naming(n).snaps = dir.snaps
    BY <2>1, <2>2 DEF DirType
  <2> QED BY <2>3 DEF counted
<1> QED BY <1>1, <1>2, <1>3, <1>4, <1>5 DEF SameManifest

LEMMA InspectStep ==
  ASSUME SessionInv, NEW a \in Agent, Inspect(a)
  PROVE  SessionInv'
<1> USE DEF Inspect, Move, diskVars, lockVars
<1>1. SessionTypes'
  BY SessionAssumption DEF SessionInv, SessionTypes, AgentAt, Unlock
<1>2. DiskInv'
  BY DEF SessionInv, DiskInv
<1>3. LockInv'
  BY SessionAssumption DEF SessionInv, SessionTypes, LockInv, Unlock, Alone, Together
<1>4. NameInv'
  <2>1. ASSUME NEW b \in Agent PROVE NamedAt(b)'
    <3>1. CASE b = a
      BY <3>1 DEF SessionInv, SessionTypes, NameInv, NamedAt, HolderInv, HeldAt, Fresh
    <3>2. CASE b # a
      BY <3>2 DEF SessionInv, SessionTypes, NameInv, NamedAt, HolderInv, HeldAt, Fresh
    <3> QED BY <3>1, <3>2
  <2> QED BY <2>1 DEF NameInv
<1>5. HolderInv'
  <2>1. ASSUME NEW b \in Agent PROVE HeldAt(b)'
    <3>1. CASE b = a
      BY <3>1 DEF SessionInv, SessionTypes, HolderInv, HeldAt
    <3>2. CASE b # a
      BY <3>2 DEF SessionInv, SessionTypes, HolderInv, HeldAt
    <3> QED BY <3>1, <3>2
  <2> QED BY <2>1 DEF HolderInv
<1> QED BY <1>1, <1>2, <1>3, <1>4, <1>5 DEF SessionInv

LEMMA LockSharedStep ==
  ASSUME SessionInv, NEW a \in Agent, LockShared(a)
  PROVE  SessionInv'
<1> USE DEF LockShared, Move, diskVars, lockVars
<1>1. SessionTypes'
  BY SessionAssumption DEF SessionInv, SessionTypes, AgentAt, Unlock
<1>2. DiskInv'
  BY DEF SessionInv, DiskInv
<1>3. LockInv'
  BY SessionAssumption DEF SessionInv, SessionTypes, LockInv, Unlock, Alone, Together
<1>4. NameInv'
  <2>1. ASSUME NEW b \in Agent PROVE NamedAt(b)'
    <3>1. CASE b = a
      BY <3>1 DEF SessionInv, SessionTypes, NameInv, NamedAt, HolderInv, HeldAt, Fresh
    <3>2. CASE b # a
      BY <3>2 DEF SessionInv, SessionTypes, NameInv, NamedAt, HolderInv, HeldAt, Fresh
    <3> QED BY <3>1, <3>2
  <2> QED BY <2>1 DEF NameInv
<1>5. HolderInv'
  <2>1. ASSUME NEW b \in Agent PROVE HeldAt(b)'
    <3>1. CASE b = a
      BY <3>1 DEF SessionInv, SessionTypes, HolderInv, HeldAt
    <3>2. CASE b # a
      BY <3>2 DEF SessionInv, SessionTypes, HolderInv, HeldAt
    <3> QED BY <3>1, <3>2
  <2> QED BY <2>1 DEF HolderInv
<1> QED BY <1>1, <1>2, <1>3, <1>4, <1>5 DEF SessionInv

LEMMA LockExclusiveStep ==
  ASSUME SessionInv, NEW a \in Agent, LockExclusive(a)
  PROVE  SessionInv'
<1> USE DEF LockExclusive, Move, diskVars, lockVars
<1>1. SessionTypes'
  BY SessionAssumption DEF SessionInv, SessionTypes, AgentAt, Unlock
<1>2. DiskInv'
  BY DEF SessionInv, DiskInv
<1>3. LockInv'
  BY SessionAssumption DEF SessionInv, SessionTypes, LockInv, Unlock, Alone, Together
<1>4. NameInv'
  <2>1. ASSUME NEW b \in Agent PROVE NamedAt(b)'
    <3>1. CASE b = a
      BY <3>1 DEF SessionInv, SessionTypes, NameInv, NamedAt, HolderInv, HeldAt, Fresh
    <3>2. CASE b # a
      BY <3>2 DEF SessionInv, SessionTypes, NameInv, NamedAt, HolderInv, HeldAt, Fresh
    <3> QED BY <3>1, <3>2
  <2> QED BY <2>1 DEF NameInv
<1>5. HolderInv'
  <2>1. ASSUME NEW b \in Agent PROVE HeldAt(b)'
    <3>1. CASE b = a
      BY <3>1 DEF SessionInv, SessionTypes, HolderInv, HeldAt
    <3>2. CASE b # a
      BY <3>2 DEF SessionInv, SessionTypes, HolderInv, HeldAt
    <3> QED BY <3>1, <3>2
  <2> QED BY <2>1 DEF HolderInv
<1> QED BY <1>1, <1>2, <1>3, <1>4, <1>5 DEF SessionInv

LEMMA CompareStep ==
  ASSUME SessionInv, NEW a \in Agent, Compare(a)
  PROVE  SessionInv'
<1> USE DEF Compare, Move, diskVars, lockVars
<1>1. SessionTypes'
  BY SessionAssumption DEF SessionInv, SessionTypes, AgentAt, Unlock
<1>2. DiskInv'
  BY DEF SessionInv, DiskInv
<1>3. LockInv'
  BY SessionAssumption DEF SessionInv, SessionTypes, LockInv, Unlock, Alone, Together
<1>4. NameInv'
  <2>1. ASSUME NEW b \in Agent PROVE NamedAt(b)'
    <3>1. CASE b = a
      BY <3>1 DEF SessionInv, SessionTypes, NameInv, NamedAt, HolderInv, HeldAt, Fresh
    <3>2. CASE b # a
      BY <3>2 DEF SessionInv, SessionTypes, NameInv, NamedAt, HolderInv, HeldAt, Fresh
    <3> QED BY <3>1, <3>2
  <2> QED BY <2>1 DEF NameInv
<1>5. HolderInv'
  <2>1. ASSUME NEW b \in Agent PROVE HeldAt(b)'
    <3>1. CASE b = a
      BY <3>1 DEF SessionInv, SessionTypes, HolderInv, HeldAt
    <3>2. CASE b # a
      BY <3>2 DEF SessionInv, SessionTypes, HolderInv, HeldAt
    <3> QED BY <3>1, <3>2
  <2> QED BY <2>1 DEF HolderInv
<1> QED BY <1>1, <1>2, <1>3, <1>4, <1>5 DEF SessionInv

LEMMA BeginDiscardStep ==
  ASSUME SessionInv, NEW a \in Agent, BeginDiscard(a)
  PROVE  SessionInv'
<1> USE DEF BeginDiscard, Move, diskVars, lockVars
<1>1. SessionTypes'
  BY SessionAssumption DEF SessionInv, SessionTypes, AgentAt, Unlock
<1>2. DiskInv'
  BY DEF SessionInv, DiskInv
<1>3. LockInv'
  BY SessionAssumption DEF SessionInv, SessionTypes, LockInv, Unlock, Alone, Together
<1>4. NameInv'
  <2>1. ASSUME NEW b \in Agent PROVE NamedAt(b)'
    <3>1. CASE b = a
      BY <3>1 DEF SessionInv, SessionTypes, NameInv, NamedAt, HolderInv, HeldAt, Fresh
    <3>2. CASE b # a
      BY <3>2 DEF SessionInv, SessionTypes, NameInv, NamedAt, HolderInv, HeldAt, Fresh
    <3> QED BY <3>1, <3>2
  <2> QED BY <2>1 DEF NameInv
<1>5. HolderInv'
  <2>1. ASSUME NEW b \in Agent PROVE HeldAt(b)'
    <3>1. CASE b = a
      BY <3>1 DEF SessionInv, SessionTypes, HolderInv, HeldAt
    <3>2. CASE b # a
      BY <3>2 DEF SessionInv, SessionTypes, HolderInv, HeldAt
    <3> QED BY <3>1, <3>2
  <2> QED BY <2>1 DEF HolderInv
<1> QED BY <1>1, <1>2, <1>3, <1>4, <1>5 DEF SessionInv

LEMMA DiesStep ==
  ASSUME SessionInv, NEW a \in Agent, Dies(a)
  PROVE  SessionInv'
<1> USE DEF Dies, Move, diskVars, lockVars
<1>1. SessionTypes'
  BY SessionAssumption DEF SessionInv, SessionTypes, AgentAt, Unlock
<1>2. DiskInv'
  BY DEF SessionInv, DiskInv
<1>3. LockInv'
  BY SessionAssumption DEF SessionInv, SessionTypes, LockInv, Unlock, Alone, Together
<1>4. NameInv'
  <2>1. ASSUME NEW b \in Agent PROVE NamedAt(b)'
    <3>1. CASE b = a
      BY <3>1 DEF SessionInv, SessionTypes, NameInv, NamedAt, HolderInv, HeldAt, Fresh
    <3>2. CASE b # a
      BY <3>2 DEF SessionInv, SessionTypes, NameInv, NamedAt, HolderInv, HeldAt, Fresh
    <3> QED BY <3>1, <3>2
  <2> QED BY <2>1 DEF NameInv
<1>5. HolderInv'
  <2>1. ASSUME NEW b \in Agent PROVE HeldAt(b)'
    <3>1. CASE b = a
      BY <3>1 DEF SessionInv, SessionTypes, HolderInv, HeldAt
    <3>2. CASE b # a
      BY <3>2 DEF SessionInv, SessionTypes, HolderInv, HeldAt
    <3> QED BY <3>1, <3>2
  <2> QED BY <2>1 DEF HolderInv
<1> QED BY <1>1, <1>2, <1>3, <1>4, <1>5 DEF SessionInv

LEMMA RestartsStep ==
  ASSUME SessionInv, NEW a \in Agent, Restarts(a)
  PROVE  SessionInv'
<1> USE DEF Restarts, Move, diskVars, lockVars
<1>1. SessionTypes'
  BY SessionAssumption DEF SessionInv, SessionTypes, AgentAt, Unlock
<1>2. DiskInv'
  BY DEF SessionInv, DiskInv
<1>3. LockInv'
  BY SessionAssumption DEF SessionInv, SessionTypes, LockInv, Unlock, Alone, Together
<1>4. NameInv'
  <2>1. ASSUME NEW b \in Agent PROVE NamedAt(b)'
    <3>1. CASE b = a
      BY <3>1 DEF SessionInv, SessionTypes, NameInv, NamedAt, HolderInv, HeldAt, Fresh
    <3>2. CASE b # a
      BY <3>2 DEF SessionInv, SessionTypes, NameInv, NamedAt, HolderInv, HeldAt, Fresh
    <3> QED BY <3>1, <3>2
  <2> QED BY <2>1 DEF NameInv
<1>5. HolderInv'
  <2>1. ASSUME NEW b \in Agent PROVE HeldAt(b)'
    <3>1. CASE b = a
      BY <3>1 DEF SessionInv, SessionTypes, HolderInv, HeldAt
    <3>2. CASE b # a
      BY <3>2 DEF SessionInv, SessionTypes, HolderInv, HeldAt
    <3> QED BY <3>1, <3>2
  <2> QED BY <2>1 DEF HolderInv
<1> QED BY <1>1, <1>2, <1>3, <1>4, <1>5 DEF SessionInv

LEMMA ReadManifestStep ==
  ASSUME SessionInv, NEW a \in Agent, ReadManifest(a)
  PROVE  SessionInv'
<1> USE DEF ReadManifest, Move, diskVars, lockVars
<1>1. SessionTypes'
  <2>1. apc' \in [Agent -> AgentAt]
    BY DEF SessionInv, SessionTypes, AgentAt
  <2>2. mine' \in [Agent -> Nat]
    BY DEF SessionInv, SessionTypes, DirType
  <2> QED BY <2>1, <2>2, SessionAssumption DEF SessionInv, SessionTypes, Unlock
<1>2. DiskInv'
  BY DEF SessionInv, DiskInv
<1>3. LockInv'
  BY SessionAssumption DEF SessionInv, SessionTypes, LockInv, Unlock, Alone, Together
<1>4. NameInv'
  <2>1. ASSUME NEW b \in Agent PROVE NamedAt(b)'
    <3>1. CASE b = a
      BY <3>1, DirFacts DEF SessionInv, SessionTypes, NameInv, NamedAt, Fresh
    <3>2. CASE b # a
      <4>1. /\ apc'[b] = apc[b] /\ mine'[b] = mine[b] /\ current' = current /\ NamedAt(b)
            /\ apc'[a] \notin Fresh
            /\ \A c \in Agent \ {a} : apc'[c] = apc[c] /\ mine'[c] = mine[c]
        BY <3>2 DEF SessionInv, SessionTypes, NameInv, Fresh
      <4> QED BY <4>1 DEF NamedAt
    <3> QED BY <3>1, <3>2
  <2> QED BY <2>1 DEF NameInv
<1>5. HolderInv'
  <2>1. ASSUME NEW b \in Agent PROVE HeldAt(b)'
    <3>1. CASE b = a
      BY <3>1 DEF SessionInv, SessionTypes, HolderInv, HeldAt
    <3>2. CASE b # a
      BY <3>2 DEF SessionInv, SessionTypes, HolderInv, HeldAt
    <3> QED BY <3>1, <3>2
  <2> QED BY <2>1 DEF HolderInv
<1> QED BY <1>1, <1>2, <1>3, <1>4, <1>5 DEF SessionInv

LEMMA LoadSnapshotStep ==
  ASSUME SessionInv, NEW a \in Agent, LoadSnapshot(a)
  PROVE  SessionInv'
<1> USE DEF LoadSnapshot, Move, diskVars, lockVars
<1>1. SessionTypes'
  BY SessionAssumption DEF SessionInv, SessionTypes, AgentAt, Unlock
<1>2. DiskInv'
  BY DEF SessionInv, DiskInv
<1>3. LockInv'
  BY SessionAssumption DEF SessionInv, SessionTypes, LockInv, Unlock, Alone, Together
<1>4. NameInv'
  <2>1. ASSUME NEW b \in Agent PROVE NamedAt(b)'
    <3>1. CASE b = a
      BY <3>1 DEF SessionInv, SessionTypes, NameInv, NamedAt, HolderInv, HeldAt, Fresh
    <3>2. CASE b # a
      <4>1. /\ apc'[b] = apc[b] /\ mine'[b] = mine[b] /\ NamedAt(b) /\ HeldAt(a)
            /\ apc'[a] \in {"ready", "gone"}
            /\ current'[a] \in {current[a], mine[a]}
            /\ \A c \in Agent \ {a} : /\ apc'[c] = apc[c] /\ mine'[c] = mine[c]
                                     /\ current'[c] = current[c]
        BY <3>2 DEF SessionInv, SessionTypes, NameInv, HolderInv
      <4>2. apc[b] \in Fresh => mine[b] # mine[a]
        BY <4>1 DEF NamedAt, HeldAt
      <4> QED BY <3>2, <4>1, <4>2 DEF NamedAt, Fresh
    <3> QED BY <3>1, <3>2
  <2> QED BY <2>1 DEF NameInv
<1>5. HolderInv'
  <2>1. ASSUME NEW b \in Agent PROVE HeldAt(b)'
    <3>1. CASE b = a
      BY <3>1 DEF SessionInv, SessionTypes, HolderInv, HeldAt
    <3>2. CASE b # a
      BY <3>2 DEF SessionInv, SessionTypes, HolderInv, HeldAt
    <3> QED BY <3>1, <3>2
  <2> QED BY <2>1 DEF HolderInv
<1> QED BY <1>1, <1>2, <1>3, <1>4, <1>5 DEF SessionInv

LEMMA WriteSnapshotStep ==
  ASSUME SessionInv, NEW a \in Agent, WriteSnapshot(a)
  PROVE  SessionInv'
<1>0. SessionTypes /\ DiskInv /\ LockInv /\ NameInv /\ HolderInv
  BY DEF SessionInv
<1>1. /\ apc[a] \in AgentAt /\ current[a] \in Nat /\ mine[a] \in Nat /\ disk[Len(disk)] = dir
      /\ named \in Nat /\ acked \in Nat
      /\ \A i \in 1 .. Len(disk) : disk[i] \in DirType /\ disk[i].version >= acked
  BY <1>0 DEF SessionTypes, DiskInv
<1>2. PICK d \in DirType : Landed(d) /\ SameManifest(d) /\ dir.snaps \subseteq d.snaps
  BY <1>0, <1>1, Lands, DirFacts DEF WriteSnapshot, Move
<1>3. /\ Backed(d) /\ acked' \in Nat /\ named' \in Nat /\ named <= named'
      /\ d.version >= acked' /\ d.manifest <= named'
      /\ \A i \in 1 .. Len(disk) : disk[i].version >= acked'
  <2>1. /\ d.manifest = dir.manifest /\ d.version = dir.version /\ dir.version >= acked
        /\ dir.manifest <= named /\ dir.manifest \in Nat /\ Backed(dir)
    BY <1>0, <1>1, <1>2, DirFacts DEF SameManifest
  <2>2. acked' = acked /\ named' = named + 1
    BY DEF WriteSnapshot
  <2>3. Backed(d)
    BY <1>2, <2>1 DEF Backed
  <2> QED BY <1>1, <2>1, <2>2, <2>3
<1>4. DiskInv' /\ dir' \in DirType /\ disk' \in Seq(DirType) /\ Len(disk') > 0
  BY <1>0, <1>2, <1>3, LandedKeeps
<1>5. LockInv' /\ shared' \subseteq Agent /\ exclusive' \in Agent \cup {NoAgent}
  BY <1>0, SessionAssumption DEF WriteSnapshot, Move, SessionTypes, LockInv, Unlock, Alone,
     Together, lockVars
<1>6. SessionTypes'
  <2>1. apc' \in [Agent -> AgentAt]
    BY <1>0 DEF WriteSnapshot, SessionTypes, AgentAt
  <2>2. mine' \in [Agent -> Nat] /\ current' \in [Agent -> Nat]
    BY <1>0, <1>3 DEF WriteSnapshot, SessionTypes
  <2>3. parent' \in Seq(Nat) /\ Len(parent') = named'
    BY <1>0, <1>1 DEF WriteSnapshot, SessionTypes
  <2> QED BY <1>0, <1>3, <1>4, <1>5, <2>1, <2>2, <2>3 DEF WriteSnapshot, SessionTypes
<1>7. /\ dir' = d /\ dir.manifest <= named /\ dir.manifest \in Nat
      /\ \A i \in 1 .. Len(disk') : disk'[i] = d \/ \E j \in 1 .. Len(disk) : disk'[i] = disk[j]
  BY <1>0, <1>2, DirFacts DEF Landed
<1>8. NameInv'
  <2>1. ASSUME NEW b \in Agent PROVE NamedAt(b)'
    <3>1. CASE b = a
      BY <3>1, <1>0, <1>1, <1>2, <1>3, <1>7 DEF WriteSnapshot, Move, SessionTypes, NameInv,
         NamedAt, HolderInv, HeldAt, Fresh, SameManifest
    <3>2. CASE b # a
      <4>1. /\ apc'[b] = apc[b] /\ mine'[b] = mine[b] /\ current' = current /\ NamedAt(b)
            /\ mine'[a] = named + 1 /\ named' = named + 1
            /\ \A c \in Agent \ {a} : apc'[c] = apc[c] /\ mine'[c] = mine[c]
        BY <1>0, <3>2 DEF WriteSnapshot, SessionTypes, NameInv
      <4>2. mine[b] \in Nat /\ mine[b] <= named /\ current[b] <= named /\ current[b] \in Nat
        BY <1>0, <4>1 DEF SessionTypes, NamedAt
      <4>3. apc[b] \in Fresh => parent'[mine[b]] = parent[mine[b]]
        BY <1>0, <4>1, <4>2 DEF WriteSnapshot, SessionTypes, NamedAt
      <4>4. ASSUME NEW c \in Agent \ {b}, apc[b] \in Fresh, apc'[c] \in Fresh
            PROVE  mine[b] # mine'[c]
        BY <1>1, <4>1, <4>2, <4>4 DEF NamedAt
      <4>5. mine[b] <= named' /\ current[b] <= named'
        BY <1>1, <4>1, <4>2
      <4> QED BY <1>2, <1>7, <4>1, <4>3, <4>4, <4>5 DEF NamedAt, SameManifest
    <3> QED BY <3>1, <3>2
  <2> QED BY <2>1 DEF NameInv
<1>9. HolderInv'
  <2>1. ASSUME NEW b \in Agent PROVE HeldAt(b)'
    <3>1. CASE b = a
      BY <3>1, <1>0, <1>1, <1>2, <1>7 DEF WriteSnapshot, Move, SessionTypes, NameInv, NamedAt,
         LockInv, HolderInv, HeldAt, Fresh, Alone, Together, SameManifest
    <3>2. CASE b # a
      <4>1. /\ apc'[b] = apc[b] /\ mine'[b] = mine[b] /\ current'[b] = current[b]
            /\ HeldAt(b) /\ NamedAt(b)
        BY <1>0, <3>2 DEF WriteSnapshot, Move, SessionTypes, HolderInv, NameInv
      <4>2. apc[b] = "rename" => mine'[b] \in dir'.snaps
        BY <1>0, <1>2, <1>7, <3>2, <4>1 DEF WriteSnapshot, Move, HeldAt, NamedAt, Fresh,
           SessionTypes
      <4>3. apc[b] = "unlink" => \A i \in 1 .. Len(disk') : disk'[i].version = dir'.version
        BY <1>2, <1>7, <4>1 DEF HeldAt, SameManifest
      <4> QED BY <1>2, <1>7, <4>1, <4>2, <4>3 DEF HeldAt, SameManifest
    <3> QED BY <3>1, <3>2
  <2> QED BY <2>1 DEF HolderInv
<1> QED BY <1>4, <1>5, <1>6, <1>8, <1>9 DEF SessionInv

LEMMA RenameManifestStep ==
  ASSUME SessionInv, NEW a \in Agent, RenameManifest(a)
  PROVE  SessionInv'
<1>0. SessionTypes /\ DiskInv /\ LockInv /\ NameInv /\ HolderInv
  BY DEF SessionInv
<1>1. /\ apc[a] \in AgentAt /\ current[a] \in Nat /\ mine[a] \in Nat /\ disk[Len(disk)] = dir
      /\ named \in Nat /\ acked \in Nat
      /\ \A i \in 1 .. Len(disk) : disk[i] \in DirType /\ disk[i].version >= acked
  BY <1>0 DEF SessionTypes, DiskInv
<1>2. PICK d \in DirType :
       /\ Landed(d)
       /\ 
          \/ /\ apc'[a] = "sync" /\ d.manifest = mine[a] /\ d.version = dir.version + 1
             /\ d.snaps = dir.snaps
          \/ apc'[a] = "drop" /\ d = dir
  <2>1. /\ Naming(mine[a]) \in DirType /\ dir \in DirType
        /\ Naming(mine[a]).manifest = mine[a] /\ Naming(mine[a]).snaps = dir.snaps
        /\ Naming(mine[a]).version = dir.version + 1
    BY <1>0, <1>1, DirFacts
  <2>2. CASE Write(Naming(mine[a])) /\ apc' = [apc EXCEPT ![a] = "sync"]
    BY <1>0, <1>1, <2>1, <2>2, Lands DEF SessionTypes
  <2>3. CASE UNCHANGED <<dir, disk>> /\ apc' = [apc EXCEPT ![a] = "drop"]
    BY <1>0, <1>1, <2>1, <2>3, Lands DEF SessionTypes
  <2> QED BY <2>2, <2>3 DEF RenameManifest
<1>3. /\ Backed(d) /\ acked' \in Nat /\ named' \in Nat /\ named <= named'
      /\ d.version >= acked' /\ d.manifest <= named'
      /\ \A i \in 1 .. Len(disk) : disk[i].version >= acked'
  BY <1>0, <1>1, <1>2, DirFacts DEF RenameManifest, Move, HolderInv, HeldAt, NameInv, NamedAt,
     SameManifest, Backed, Fresh
<1>4. DiskInv' /\ dir' \in DirType /\ disk' \in Seq(DirType) /\ Len(disk') > 0
  BY <1>0, <1>2, <1>3, LandedKeeps
<1>5. LockInv' /\ shared' \subseteq Agent /\ exclusive' \in Agent \cup {NoAgent}
  BY <1>0, SessionAssumption DEF RenameManifest, Move, SessionTypes, LockInv, Unlock, Alone,
     Together, lockVars
<1>6. SessionTypes'
  BY <1>0, <1>3, <1>4, <1>5 DEF RenameManifest, Move, SessionTypes, AgentAt
<1>7. /\ dir' = d /\ dir.manifest <= named /\ dir.manifest \in Nat
      /\ \A i \in 1 .. Len(disk') : disk'[i] = d \/ \E j \in 1 .. Len(disk) : disk'[i] = disk[j]
  BY <1>0, <1>2, DirFacts DEF Landed
<1>8. NameInv'
  <2>1. ASSUME NEW b \in Agent PROVE NamedAt(b)'
    <3>1. CASE b = a
      BY <3>1, <1>0, <1>1, <1>2, <1>3, <1>7 DEF RenameManifest, Move, SessionTypes, NameInv,
         NamedAt, HolderInv, HeldAt, Fresh, SameManifest
    <3>2. CASE b # a
      <4>1. apc'[b] = apc[b] /\ mine'[b] = mine[b] /\ NamedAt(b) /\ NamedAt(a)
        BY <1>0, <3>2 DEF RenameManifest, SessionTypes, NameInv
      <4>2. apc[b] \in Fresh => mine[b] # dir'.manifest
        BY <1>0, <1>2, <1>7, <3>2, <4>1 DEF RenameManifest, NamedAt, Fresh
      <4>3. ASSUME NEW c \in Agent \ {b}, apc[b] \in Fresh, apc'[c] \in Fresh
            PROVE  mine[b] # mine'[c]
        BY <1>0, <1>7, <3>2, <4>1, <4>2, <4>3 DEF RenameManifest, NamedAt, HolderInv, HeldAt,
           Fresh, SessionTypes
      <4> QED BY <1>7, <4>1, <4>2, <4>3 DEF RenameManifest, NamedAt
    <3> QED BY <3>1, <3>2
  <2> QED BY <2>1 DEF NameInv
<1>9. HolderInv'
  <2>1. ASSUME NEW b \in Agent PROVE HeldAt(b)'
    <3>1. CASE b = a
      BY <1>0, <1>1, <1>2, <1>7, <3>1
      DEF RenameManifest, SessionTypes, NameInv, NamedAt, HolderInv, HeldAt, Fresh, SameManifest
    <3>2. CASE b # a
      <4>1. apc[b] \notin Alone \cup Together
        BY <1>0, <3>2, AloneIsAlone DEF RenameManifest, Move, Alone
      <4>2. apc'[b] = apc[b]
        BY <1>0, <3>2 DEF RenameManifest, Move, SessionTypes
      <4> QED BY <4>1, <4>2 DEF HeldAt, Alone, Together
    <3> QED BY <3>1, <3>2
  <2> QED BY <2>1 DEF HolderInv
<1> QED BY <1>4, <1>5, <1>6, <1>8, <1>9 DEF SessionInv

LEMMA SyncManifestStep ==
  ASSUME SessionInv, NEW a \in Agent, SyncManifest(a)
  PROVE  SessionInv'
<1>0. SessionTypes /\ DiskInv /\ LockInv /\ NameInv /\ HolderInv
  BY DEF SessionInv
<1>1. /\ apc[a] \in AgentAt /\ current[a] \in Nat /\ mine[a] \in Nat /\ disk[Len(disk)] = dir
      /\ named \in Nat /\ acked \in Nat
      /\ \A i \in 1 .. Len(disk) : disk[i] \in DirType /\ disk[i].version >= acked
  BY <1>0 DEF SessionTypes, DiskInv
<1>2. PICK d \in DirType : Landed(d) /\ d = dir /\ (apc'[a] = "unlink" => disk' = <<dir>>)
  BY <1>0, <1>1, Lands, DirFacts DEF SyncManifest, SyncTo, SessionTypes
<1>3. /\ Backed(d) /\ acked' \in Nat /\ named' \in Nat /\ named <= named'
      /\ d.version >= acked' /\ d.manifest <= named'
      /\ \A i \in 1 .. Len(disk) : disk[i].version >= acked'
  BY <1>0, <1>1, <1>2, DirFacts DEF SyncManifest, Move, HolderInv, HeldAt, NameInv, NamedAt,
     SameManifest, Backed, Fresh
<1>4. DiskInv' /\ dir' \in DirType /\ disk' \in Seq(DirType) /\ Len(disk') > 0
  BY <1>0, <1>2, <1>3, LandedKeeps
<1>5. LockInv' /\ shared' \subseteq Agent /\ exclusive' \in Agent \cup {NoAgent}
  BY <1>0, SessionAssumption DEF SyncManifest, Move, SessionTypes, LockInv, Unlock, Alone,
     Together, lockVars
<1>6. SessionTypes'
  <2>1. apc' \in [Agent -> AgentAt]
    BY <1>0 DEF SyncManifest, SessionTypes, AgentAt
  <2>2. mine' \in [Agent -> Nat]
    BY <1>0 DEF SyncManifest, SessionTypes
  <2>3. parent' \in Seq(Nat) /\ Len(parent') = named' /\ current' \in [Agent -> Nat]
    BY <1>0, <1>1 DEF SyncManifest, SessionTypes
  <2> QED BY <1>0, <1>3, <1>4, <1>5, <2>1, <2>2, <2>3 DEF SyncManifest, SessionTypes
<1>7. /\ dir' = d /\ dir.manifest <= named /\ dir.manifest \in Nat
      /\ \A i \in 1 .. Len(disk') : disk'[i] = d \/ \E j \in 1 .. Len(disk) : disk'[i] = disk[j]
  BY <1>0, <1>2, DirFacts DEF Landed
<1>8. NameInv'
  <2>1. ASSUME NEW b \in Agent PROVE NamedAt(b)'
    <3>1. CASE b = a
      BY <3>1, <1>0, <1>1, <1>2, <1>3, <1>7 DEF SyncManifest, Move, SessionTypes, NameInv,
         NamedAt, HolderInv, HeldAt, Fresh, SameManifest
    <3>2. CASE b # a
      <4>1. apc'[b] = apc[b] /\ mine'[b] = mine[b] /\ NamedAt(b) /\ NamedAt(a)
        BY <1>0, <3>2 DEF SyncManifest, SessionTypes, NameInv
      <4>2. apc[b] \in Fresh => mine[b] # dir'.manifest
        BY <1>0, <1>2, <1>7, <3>2, <4>1 DEF SyncManifest, NamedAt, Fresh
      <4>3. ASSUME NEW c \in Agent \ {b}, apc[b] \in Fresh, apc'[c] \in Fresh
            PROVE  mine[b] # mine'[c]
        BY <1>0, <1>7, <3>2, <4>1, <4>2, <4>3 DEF SyncManifest, NamedAt, HolderInv, HeldAt, Fresh,
           SessionTypes
      <4> QED BY <1>7, <4>1, <4>2, <4>3 DEF SyncManifest, NamedAt
    <3> QED BY <3>1, <3>2
  <2> QED BY <2>1 DEF NameInv
<1>9. HolderInv'
  <2>1. ASSUME NEW b \in Agent PROVE HeldAt(b)'
    <3>1. CASE b = a
      BY <1>0, <1>1, <1>2, <1>7, <3>1
      DEF SyncManifest, SessionTypes, NameInv, NamedAt, HolderInv, HeldAt, Fresh, SameManifest
    <3>2. CASE b # a
      <4>1. apc[b] \notin Alone \cup Together
        BY <1>0, <3>2, AloneIsAlone DEF SyncManifest, Move, Alone
      <4>2. apc'[b] = apc[b]
        BY <1>0, <3>2 DEF SyncManifest, Move, SessionTypes
      <4> QED BY <4>1, <4>2 DEF HeldAt, Alone, Together
    <3> QED BY <3>1, <3>2
  <2> QED BY <2>1 DEF HolderInv
<1> QED BY <1>4, <1>5, <1>6, <1>8, <1>9 DEF SessionInv

LEMMA UnlinkOldStep ==
  ASSUME SessionInv, NEW a \in Agent, UnlinkOld(a)
  PROVE  SessionInv'
<1>0. SessionTypes /\ DiskInv /\ LockInv /\ NameInv /\ HolderInv
  BY DEF SessionInv
<1>1. /\ apc[a] \in AgentAt /\ current[a] \in Nat /\ mine[a] \in Nat /\ disk[Len(disk)] = dir
      /\ named \in Nat /\ acked \in Nat
      /\ \A i \in 1 .. Len(disk) : disk[i] \in DirType /\ disk[i].version >= acked
  BY <1>0 DEF SessionTypes, DiskInv
<1>2. PICK d \in DirType :
        Landed(d) /\ SameManifest(d) /\ dir.snaps \ {current[a]} \subseteq d.snaps
  BY <1>0, <1>1, Lands, DirFacts DEF UnlinkOld, Move
<1>3. /\ Backed(d) /\ acked' \in Nat /\ named' \in Nat /\ named <= named'
      /\ d.version >= acked' /\ d.manifest <= named'
      /\ \A i \in 1 .. Len(disk) : disk[i].version >= acked'
  BY <1>0, <1>1, <1>2, DirFacts DEF UnlinkOld, Move, HolderInv, HeldAt, NameInv, NamedAt,
     SameManifest, Backed, Fresh
<1>4. DiskInv' /\ dir' \in DirType /\ disk' \in Seq(DirType) /\ Len(disk') > 0
  BY <1>0, <1>2, <1>3, LandedKeeps
<1>5. LockInv' /\ shared' \subseteq Agent /\ exclusive' \in Agent \cup {NoAgent}
  BY <1>0, SessionAssumption DEF UnlinkOld, Move, SessionTypes, LockInv, Unlock, Alone, Together,
     lockVars
<1>6. SessionTypes'
  BY <1>0, <1>3, <1>4, <1>5 DEF UnlinkOld, Move, SessionTypes, AgentAt
<1>7. /\ dir' = d /\ dir.manifest <= named /\ dir.manifest \in Nat
      /\ \A i \in 1 .. Len(disk') : disk'[i] = d \/ \E j \in 1 .. Len(disk) : disk'[i] = disk[j]
  BY <1>0, <1>2, DirFacts DEF Landed
<1>8. NameInv'
  <2>1. ASSUME NEW b \in Agent PROVE NamedAt(b)'
    <3>1. CASE b = a
      BY <3>1, <1>0, <1>1, <1>2, <1>3, <1>7 DEF UnlinkOld, Move, SessionTypes, NameInv, NamedAt,
         HolderInv, HeldAt, Fresh, SameManifest
    <3>2. CASE b # a
      BY <3>2, <1>0, <1>1, <1>2, <1>3, <1>7 DEF UnlinkOld, Move, SessionTypes, NameInv, NamedAt,
         HolderInv, HeldAt, Fresh, SameManifest
    <3> QED BY <3>1, <3>2
  <2> QED BY <2>1 DEF NameInv
<1>9. HolderInv'
  <2>1. ASSUME NEW b \in Agent PROVE HeldAt(b)'
    <3>1. CASE b = a
      BY <3>1, <1>0, <1>1, <1>2, <1>7 DEF UnlinkOld, Move, SessionTypes, NameInv, NamedAt,
         LockInv, HolderInv, HeldAt, Fresh, Alone, Together, SameManifest
    <3>2. CASE b # a
      <4>1. apc[b] \notin Alone \cup Together
        BY <1>0, <3>2, AloneIsAlone DEF UnlinkOld, Move, Alone
      <4>2. apc'[b] = apc[b]
        BY <1>0, <3>2 DEF UnlinkOld, Move, SessionTypes
      <4> QED BY <4>1, <4>2 DEF HeldAt, Alone, Together
    <3> QED BY <3>1, <3>2
  <2> QED BY <2>1 DEF HolderInv
<1> QED BY <1>4, <1>5, <1>6, <1>8, <1>9 DEF SessionInv

LEMMA DropSnapshotStep ==
  ASSUME SessionInv, NEW a \in Agent, DropSnapshot(a)
  PROVE  SessionInv'
<1>0. SessionTypes /\ DiskInv /\ LockInv /\ NameInv /\ HolderInv
  BY DEF SessionInv
<1>1. /\ apc[a] \in AgentAt /\ current[a] \in Nat /\ mine[a] \in Nat /\ disk[Len(disk)] = dir
      /\ named \in Nat /\ acked \in Nat
      /\ \A i \in 1 .. Len(disk) : disk[i] \in DirType /\ disk[i].version >= acked
  BY <1>0 DEF SessionTypes, DiskInv
<1>2. PICK d \in DirType : Landed(d) /\ SameManifest(d) /\ d.snaps = dir.snaps \ {mine[a]}
  BY <1>0, <1>1, Lands, DirFacts DEF DropSnapshot, Move
<1>3. /\ Backed(d) /\ acked' \in Nat /\ named' \in Nat /\ named <= named'
      /\ d.version >= acked' /\ d.manifest <= named'
      /\ \A i \in 1 .. Len(disk) : disk[i].version >= acked'
  BY <1>0, <1>1, <1>2, DirFacts DEF DropSnapshot, Move, HolderInv, HeldAt, NameInv, NamedAt,
     SameManifest, Backed, Fresh
<1>4. DiskInv' /\ dir' \in DirType /\ disk' \in Seq(DirType) /\ Len(disk') > 0
  BY <1>0, <1>2, <1>3, LandedKeeps
<1>5. LockInv' /\ shared' \subseteq Agent /\ exclusive' \in Agent \cup {NoAgent}
  BY <1>0, SessionAssumption DEF DropSnapshot, Move, SessionTypes, LockInv, Unlock, Alone,
     Together, lockVars
<1>6. SessionTypes'
  BY <1>0, <1>3, <1>4, <1>5 DEF DropSnapshot, Move, SessionTypes, AgentAt
<1>7. /\ dir' = d /\ dir.manifest <= named /\ dir.manifest \in Nat
      /\ \A i \in 1 .. Len(disk') : disk'[i] = d \/ \E j \in 1 .. Len(disk) : disk'[i] = disk[j]
  BY <1>0, <1>2, DirFacts DEF Landed
<1>8. NameInv'
  <2>1. ASSUME NEW b \in Agent PROVE NamedAt(b)'
    <3>1. CASE b = a
      BY <3>1, <1>0, <1>1, <1>2, <1>3, <1>7 DEF DropSnapshot, Move, SessionTypes, NameInv,
         NamedAt, HolderInv, HeldAt, Fresh, SameManifest
    <3>2. CASE b # a
      BY <3>2, <1>0, <1>1, <1>2, <1>3, <1>7 DEF DropSnapshot, Move, SessionTypes, NameInv,
         NamedAt, HolderInv, HeldAt, Fresh, SameManifest
    <3> QED BY <3>1, <3>2
  <2> QED BY <2>1 DEF NameInv
<1>9. HolderInv'
  <2>1. ASSUME NEW b \in Agent PROVE HeldAt(b)'
    <3>1. CASE b = a
      BY <3>1, <1>0, <1>1, <1>2, <1>7 DEF DropSnapshot, Move, SessionTypes, NameInv, NamedAt,
         LockInv, HolderInv, HeldAt, Fresh, Alone, Together, SameManifest
    <3>2. CASE b # a
      <4>1. /\ apc'[b] = apc[b] /\ mine'[b] = mine[b] /\ current'[b] = current[b]
            /\ HeldAt(b) /\ NamedAt(b)
        BY <1>0, <3>2 DEF DropSnapshot, Move, SessionTypes, HolderInv, NameInv
      <4>2. apc[b] = "rename" => mine'[b] \in dir'.snaps
        BY <1>0, <1>2, <1>7, <3>2, <4>1 DEF DropSnapshot, Move, HeldAt, NamedAt, Fresh, SessionTypes
      <4>3. apc[b] = "unlink" => \A i \in 1 .. Len(disk') : disk'[i].version = dir'.version
        BY <1>2, <1>7, <4>1 DEF HeldAt, SameManifest
      <4> QED BY <1>2, <1>7, <4>1, <4>2, <4>3 DEF HeldAt, SameManifest
    <3> QED BY <3>1, <3>2
  <2> QED BY <2>1 DEF HolderInv
<1> QED BY <1>4, <1>5, <1>6, <1>8, <1>9 DEF SessionInv

LEMMA CompareDiscardStep ==
  ASSUME SessionInv, NEW a \in Agent, CompareDiscard(a)
  PROVE  SessionInv'
<1>0. SessionTypes /\ DiskInv /\ LockInv /\ NameInv /\ HolderInv
  BY DEF SessionInv
<1>1. /\ apc[a] \in AgentAt /\ current[a] \in Nat /\ mine[a] \in Nat /\ disk[Len(disk)] = dir
      /\ named \in Nat /\ acked \in Nat
      /\ \A i \in 1 .. Len(disk) : disk[i] \in DirType /\ disk[i].version >= acked
  BY <1>0 DEF SessionTypes, DiskInv
<1>2. PICK d \in DirType : 
       /\ Landed(d)
       /\ \/ apc'[a] = "sync_discard" /\ SameManifest(d) /\ dir.manifest = 0
          \/ apc'[a] = "unlink_discard" /\ d.manifest = 0 /\ d.version = dir.version + 1
          \/ apc'[a] = "ready" /\ d = dir
  <2>1. CASE /\ dir.manifest = 0 /\ Write(WithoutSnap(current[a]))
             /\ apc' = [apc EXCEPT ![a] = "sync_discard"]
    BY <1>0, <1>1, <2>1, Lands, DirFacts DEF SessionTypes
  <2>2. CASE Write(Naming(0)) /\ apc' = [apc EXCEPT ![a] = "unlink_discard"]
    BY <1>0, <1>1, <2>2, Lands, DirFacts DEF SessionTypes
  <2>3. CASE UNCHANGED <<dir, disk>> /\ apc' = [apc EXCEPT ![a] = "ready"]
    BY <1>0, <1>1, <2>3, Lands, DirFacts DEF SessionTypes
  <2> QED BY <2>1, <2>2, <2>3 DEF CompareDiscard
<1>3. /\ Backed(d) /\ acked' \in Nat /\ named' \in Nat /\ named <= named'
      /\ d.version >= acked' /\ d.manifest <= named'
      /\ \A i \in 1 .. Len(disk) : disk[i].version >= acked'
  BY <1>0, <1>1, <1>2, DirFacts DEF CompareDiscard, Move, HolderInv, HeldAt, NameInv, NamedAt,
     SameManifest, Backed, Fresh
<1>4. DiskInv' /\ dir' \in DirType /\ disk' \in Seq(DirType) /\ Len(disk') > 0
  BY <1>0, <1>2, <1>3, LandedKeeps
<1>5. LockInv' /\ shared' \subseteq Agent /\ exclusive' \in Agent \cup {NoAgent}
  BY <1>0, SessionAssumption DEF CompareDiscard, Move, SessionTypes, LockInv, Unlock, Alone,
     Together, lockVars
<1>6. SessionTypes'
  BY <1>0, <1>3, <1>4, <1>5 DEF CompareDiscard, Move, SessionTypes, AgentAt
<1>7. /\ dir' = d /\ dir.manifest <= named /\ dir.manifest \in Nat
      /\ \A i \in 1 .. Len(disk') : disk'[i] = d \/ \E j \in 1 .. Len(disk) : disk'[i] = disk[j]
  BY <1>0, <1>2, DirFacts DEF Landed
<1>8. NameInv'
  <2>1. ASSUME NEW b \in Agent PROVE NamedAt(b)'
    <3>1. CASE b = a
      BY <3>1, <1>0, <1>1, <1>2, <1>3, <1>7 DEF CompareDiscard, Move, SessionTypes, NameInv,
         NamedAt, HolderInv, HeldAt, Fresh, SameManifest
    <3>2. CASE b # a
      <4>1. apc'[b] = apc[b] /\ mine' = mine /\ current' = current /\ NamedAt(b)
        BY <1>0, <3>2 DEF CompareDiscard, SessionTypes, NameInv
      <4>2. apc[b] \in Fresh => mine[b] # dir'.manifest
        BY <1>2, <1>7, <4>1 DEF NamedAt, SameManifest
      <4>3. ASSUME NEW c \in Agent, apc'[c] \in Fresh
            PROVE  apc[c] \in Fresh
        BY <1>0, <4>3 DEF CompareDiscard, Fresh, SessionTypes
      <4> QED BY <1>7, <4>1, <4>2, <4>3 DEF CompareDiscard, NamedAt
    <3> QED BY <3>1, <3>2
  <2> QED BY <2>1 DEF NameInv
<1>9. HolderInv'
  <2>1. ASSUME NEW b \in Agent PROVE HeldAt(b)'
    <3>1. CASE b = a
      BY <1>0, <1>1, <1>2, <1>7, <3>1
      DEF CompareDiscard, SessionTypes, NameInv, NamedAt, HolderInv, HeldAt, Fresh, SameManifest
    <3>2. CASE b # a
      <4>1. apc[b] \notin Alone \cup Together
        BY <1>0, <3>2, AloneIsAlone DEF CompareDiscard, Move, Alone
      <4>2. apc'[b] = apc[b]
        BY <1>0, <3>2 DEF CompareDiscard, Move, SessionTypes
      <4> QED BY <4>1, <4>2 DEF HeldAt, Alone, Together
    <3> QED BY <3>1, <3>2
  <2> QED BY <2>1 DEF HolderInv
<1> QED BY <1>4, <1>5, <1>6, <1>8, <1>9 DEF SessionInv

LEMMA UnlinkDiscardStep ==
  ASSUME SessionInv, NEW a \in Agent, UnlinkDiscard(a)
  PROVE  SessionInv'
<1>0. SessionTypes /\ DiskInv /\ LockInv /\ NameInv /\ HolderInv
  BY DEF SessionInv
<1>1. /\ apc[a] \in AgentAt /\ current[a] \in Nat /\ mine[a] \in Nat /\ disk[Len(disk)] = dir
      /\ named \in Nat /\ acked \in Nat
      /\ \A i \in 1 .. Len(disk) : disk[i] \in DirType /\ disk[i].version >= acked
  BY <1>0 DEF SessionTypes, DiskInv
<1>2. PICK d \in DirType : Landed(d) /\ SameManifest(d)
  BY <1>0, <1>1, Lands, DirFacts DEF UnlinkDiscard, Move
<1>3. /\ Backed(d) /\ acked' \in Nat /\ named' \in Nat /\ named <= named'
      /\ d.version >= acked' /\ d.manifest <= named'
      /\ \A i \in 1 .. Len(disk) : disk[i].version >= acked'
  BY <1>0, <1>1, <1>2, DirFacts DEF UnlinkDiscard, Move, HolderInv, HeldAt, NameInv, NamedAt,
     SameManifest, Backed, Fresh
<1>4. DiskInv' /\ dir' \in DirType /\ disk' \in Seq(DirType) /\ Len(disk') > 0
  BY <1>0, <1>2, <1>3, LandedKeeps
<1>5. LockInv' /\ shared' \subseteq Agent /\ exclusive' \in Agent \cup {NoAgent}
  BY <1>0, SessionAssumption DEF UnlinkDiscard, Move, SessionTypes, LockInv, Unlock, Alone,
     Together, lockVars
<1>6. SessionTypes'
  <2>1. apc' \in [Agent -> AgentAt]
    BY <1>0 DEF UnlinkDiscard, SessionTypes, AgentAt
  <2>2. mine' \in [Agent -> Nat] /\ current' \in [Agent -> Nat]
    BY <1>0, <1>3 DEF UnlinkDiscard, SessionTypes
  <2>3. parent' \in Seq(Nat) /\ Len(parent') = named'
    BY <1>0, <1>1 DEF UnlinkDiscard, SessionTypes
  <2> QED BY <1>0, <1>3, <1>4, <1>5, <2>1, <2>2, <2>3 DEF UnlinkDiscard, SessionTypes
<1>7. /\ dir' = d /\ dir.manifest <= named /\ dir.manifest \in Nat
      /\ \A i \in 1 .. Len(disk') : disk'[i] = d \/ \E j \in 1 .. Len(disk) : disk'[i] = disk[j]
  BY <1>0, <1>2, DirFacts DEF Landed
<1>8. NameInv'
  <2>1. ASSUME NEW b \in Agent PROVE NamedAt(b)'
    <3>1. CASE b = a
      BY <3>1, <1>0, <1>1, <1>2, <1>3, <1>7 DEF UnlinkDiscard, Move, SessionTypes, NameInv,
         NamedAt, HolderInv, HeldAt, Fresh, SameManifest
    <3>2. CASE b # a
      BY <3>2, <1>0, <1>1, <1>2, <1>3, <1>7 DEF UnlinkDiscard, Move, SessionTypes, NameInv,
         NamedAt, HolderInv, HeldAt, Fresh, SameManifest
    <3> QED BY <3>1, <3>2
  <2> QED BY <2>1 DEF NameInv
<1>9. HolderInv'
  <2>1. ASSUME NEW b \in Agent PROVE HeldAt(b)'
    <3>1. CASE b = a
      BY <3>1, <1>0, <1>1, <1>2, <1>7 DEF UnlinkDiscard, Move, SessionTypes, NameInv, NamedAt,
         LockInv, HolderInv, HeldAt, Fresh, Alone, Together, SameManifest
    <3>2. CASE b # a
      <4>1. apc[b] \notin Alone \cup Together
        BY <1>0, <3>2, AloneIsAlone DEF UnlinkDiscard, Move, Alone
      <4>2. apc'[b] = apc[b]
        BY <1>0, <3>2 DEF UnlinkDiscard, Move, SessionTypes
      <4> QED BY <4>1, <4>2 DEF HeldAt, Alone, Together
    <3> QED BY <3>1, <3>2
  <2> QED BY <2>1 DEF HolderInv
<1> QED BY <1>4, <1>5, <1>6, <1>8, <1>9 DEF SessionInv

LEMMA SyncDiscardStep ==
  ASSUME SessionInv, NEW a \in Agent, SyncDiscard(a)
  PROVE  SessionInv'
<1>0. SessionTypes /\ DiskInv /\ LockInv /\ NameInv /\ HolderInv
  BY DEF SessionInv
<1>1. /\ apc[a] \in AgentAt /\ current[a] \in Nat /\ mine[a] \in Nat /\ disk[Len(disk)] = dir
      /\ named \in Nat /\ acked \in Nat
      /\ \A i \in 1 .. Len(disk) : disk[i] \in DirType /\ disk[i].version >= acked
  BY <1>0 DEF SessionTypes, DiskInv
<1>2. PICK d \in DirType : Landed(d) /\ d = dir
  BY <1>0, <1>1, Lands, DirFacts DEF SyncDiscard, Move
<1>3. dir.version \in Nat /\ dir.version >= acked /\ Backed(dir) /\ dir.manifest <= named
  BY <1>0, <1>1, DirFacts
<1>4. /\ DiskInv' /\ acked' \in Nat /\ named' \in Nat
      /\ dir' \in DirType /\ disk' \in Seq(DirType) /\ Len(disk') > 0
  <2>1. CASE SyncTo(dir) /\ acked' = dir.version
    BY <1>0, <1>3, <2>1 DEF SyncTo, SyncDiscard, DiskInv, Backed, SessionTypes
  <2>2. CASE UNCHANGED <<dir, disk, acked>>
    BY <1>0, <2>2 DEF SyncDiscard, DiskInv, Backed, SessionTypes
  <2> QED BY <2>1, <2>2 DEF SyncDiscard
<1>5. LockInv' /\ shared' \subseteq Agent /\ exclusive' \in Agent \cup {NoAgent}
  BY <1>0, SessionAssumption DEF SyncDiscard, Move, SessionTypes, LockInv, Unlock, Alone,
     Together, lockVars
<1>6. SessionTypes'
  BY <1>0, <1>3, <1>4, <1>5 DEF SyncDiscard, Move, SessionTypes, AgentAt
<1>7. /\ dir' = d /\ dir.manifest <= named /\ dir.manifest \in Nat
      /\ \A i \in 1 .. Len(disk') : disk'[i] = d \/ \E j \in 1 .. Len(disk) : disk'[i] = disk[j]
  BY <1>0, <1>2, DirFacts DEF Landed
<1>8. NameInv'
  <2>1. ASSUME NEW b \in Agent PROVE NamedAt(b)'
    <3>1. CASE b = a
      BY <3>1, <1>0, <1>1, <1>2, <1>3, <1>7 DEF SyncDiscard, Move, SessionTypes, NameInv, NamedAt,
         HolderInv, HeldAt, Fresh, SameManifest
    <3>2. CASE b # a
      BY <3>2, <1>0, <1>1, <1>2, <1>3, <1>7 DEF SyncDiscard, Move, SessionTypes, NameInv, NamedAt,
         HolderInv, HeldAt, Fresh, SameManifest
    <3> QED BY <3>1, <3>2
  <2> QED BY <2>1 DEF NameInv
<1>9. HolderInv'
  <2>1. ASSUME NEW b \in Agent PROVE HeldAt(b)'
    <3>1. CASE b = a
      BY <3>1, <1>0, <1>1, <1>2, <1>7 DEF SyncDiscard, Move, SessionTypes, NameInv, NamedAt,
         LockInv, HolderInv, HeldAt, Fresh, Alone, Together, SameManifest
    <3>2. CASE b # a
      <4>1. apc[b] \notin Alone \cup Together
        BY <1>0, <3>2, AloneIsAlone DEF SyncDiscard, Move, Alone
      <4>2. apc'[b] = apc[b]
        BY <1>0, <3>2 DEF SyncDiscard, Move, SessionTypes
      <4> QED BY <4>1, <4>2 DEF HeldAt, Alone, Together
    <3> QED BY <3>1, <3>2
  <2> QED BY <2>1 DEF HolderInv
<1> QED BY <1>4, <1>5, <1>6, <1>8, <1>9 DEF SessionInv

LEMMA PowerLossStep ==
  ASSUME SessionInv, PowerLoss
  PROVE  SessionInv'
<1>0. SessionTypes /\ DiskInv
  BY DEF SessionInv
<1>1. PICK i \in 1 .. Len(disk) : SyncTo(disk[i])
  BY DEF PowerLoss
<1>2. /\ disk[i] \in DirType /\ Backed(disk[i]) /\ disk[i].version >= acked
      /\ disk[i].manifest <= named
  BY <1>0 DEF SessionTypes, DiskInv
<1>3. DiskInv' /\ dir' \in DirType /\ disk' \in Seq(DirType) /\ Len(disk') > 0
  BY <1>1, <1>2 DEF PowerLoss, SyncTo, DiskInv, Backed
<1>4. SessionTypes'
  BY <1>0, <1>3, SessionAssumption DEF PowerLoss, SessionTypes, AgentAt
<1>5. LockInv' /\ NameInv' /\ HolderInv'
  BY <1>0, SessionAssumption
  DEF PowerLoss, SessionTypes, LockInv, NameInv, NamedAt, HolderInv, HeldAt, Alone, Together, Fresh
<1> QED BY <1>3, <1>4, <1>5 DEF SessionInv

LEMMA SessionKeeps ==
  ASSUME SessionInv, [SessionNext]_sessionVars
  PROVE  SessionInv'
<1>1. ASSUME NEW a \in Agent, Load(a) PROVE SessionInv'
  BY <1>1, InspectStep, LockSharedStep, ReadManifestStep, LoadSnapshotStep DEF Load
<1>2. ASSUME NEW a \in Agent, Save(a) PROVE SessionInv'
  BY <1>2, WriteSnapshotStep, LockExclusiveStep, CompareStep, RenameManifestStep,
     SyncManifestStep, UnlinkOldStep, DropSnapshotStep DEF Save
<1>3. ASSUME NEW a \in Agent, Discard(a) PROVE SessionInv'
  BY <1>3, BeginDiscardStep, CompareDiscardStep, UnlinkDiscardStep, SyncDiscardStep DEF Discard
<1>4. CASE UNCHANGED sessionVars
  BY <1>4 DEF sessionVars, SessionInv, SessionTypes, DiskInv, LockInv, NameInv, NamedAt,
              HolderInv, HeldAt, Backed
<1> QED BY <1>1, <1>2, <1>3, <1>4, DiesStep, RestartsStep, PowerLossStep DEF SessionNext

LEMMA SessionBegins ==
  ASSUME SessionInit
  PROVE  SessionInv
<1>1. Empty \in DirType /\ Empty.manifest = 0 /\ Empty.version = 0
  BY DEF Empty, DirType
<1>2. SessionTypes /\ DiskInv
  BY <1>1 DEF SessionInit, SessionTypes, DiskInv, Backed, AgentAt
<1>3. LockInv /\ NameInv /\ HolderInv
  BY <1>1, SessionAssumption
  DEF SessionInit, LockInv, NameInv, NamedAt, HolderInv, HeldAt, Alone, Together, Fresh
<1> QED BY <1>2, <1>3 DEF SessionInv

(* Sessions survive: whatever agents share the file, die or lose power at  *)
(* any point, no manifest names a snapshot that is not there, and a save   *)
(* or discard that was reported is still there after a power loss          *)
(* (session_publish, session_discard).                                     *)
THEOREM SessionsSurvive == SessionSpec => []SavesSurvive
<1>1. SessionInv => SavesSurvive
  <2> SUFFICES ASSUME SessionInv PROVE SavesSurvive
    OBVIOUS
  <2>1. SessionTypes /\ DiskInv /\ HolderInv
    BY DEF SessionInv
  <2>2. Backed(disk[Len(disk)]) /\ disk[Len(disk)] = dir
    <3>1. Len(disk) \in 1 .. Len(disk)
      BY <2>1 DEF SessionTypes
    <3> QED BY <2>1, <3>1 DEF DiskInv
  <2>3. ManifestBacked
    BY <2>1, <2>2 DEF ManifestBacked, DiskInv, Backed, HolderInv, HeldAt
  <2>4. ReportedIsDurable
    BY <2>1 DEF ReportedIsDurable, DiskInv
  <2> QED BY <2>3, <2>4 DEF SavesSurvive
<1> QED BY <1>1, SessionBegins, SessionKeeps, PTL DEF SessionSpec

(* A step that changes the manifest publishes a snapshot under the lock. *)
LEMMA OnlyRenameReplaces ==
  ASSUME SessionInv, [SessionNext]_sessionVars, losses' = losses,
         dir'.manifest # dir.manifest, dir'.manifest # 0
  PROVE  \E a \in Agent : RenameManifest(a) /\ dir'.manifest = mine[a]
<1>0. SessionTypes /\ DiskInv /\ losses \in Nat
  BY DEF SessionInv, SessionTypes
<1>1. \A n \in Nat : /\ WithSnap(n).manifest = dir.manifest
                     /\ WithoutSnap(n).manifest = dir.manifest
                     /\ Naming(n).manifest = n
  BY <1>0, DirFacts DEF SameManifest
<1>2. \A a \in Agent : mine[a] \in Nat /\ current[a] \in Nat
  BY <1>0 DEF SessionTypes
<1>3. ASSUME NEW a \in Agent, Load(a) PROVE FALSE
  BY <1>3 DEF Load, Inspect, LockShared, ReadManifest, LoadSnapshot, diskVars
<1>4. ASSUME NEW a \in Agent, Save(a) PROVE RenameManifest(a) /\ dir'.manifest = mine[a]
  <2>1. CASE WriteSnapshot(a)
    <3>1. named' \in Nat
      BY <1>0, <2>1 DEF WriteSnapshot, SessionTypes
    <3> QED BY <1>1, <2>1, <3>1 DEF WriteSnapshot, SyncTo, Write
  <2>2. CASE RenameManifest(a)
    BY <1>1, <1>2, <2>2 DEF RenameManifest, Write
  <2>3. CASE UnlinkOld(a) \/ DropSnapshot(a)
    BY <1>1, <1>2, <2>3 DEF UnlinkOld, DropSnapshot, SyncTo, Write
  <2>4. CASE LockExclusive(a) \/ Compare(a) \/ SyncManifest(a)
    BY <2>4 DEF LockExclusive, Compare, SyncManifest, SyncTo, diskVars
  <2> QED BY <1>4, <2>1, <2>2, <2>3, <2>4 DEF Save
<1>5. ASSUME NEW a \in Agent, Discard(a) PROVE FALSE
  <2>1. CASE CompareDiscard(a) \/ UnlinkDiscard(a)
    BY <1>1, <1>2, <2>1 DEF CompareDiscard, UnlinkDiscard, Write
  <2>2. CASE BeginDiscard(a) \/ SyncDiscard(a)
    BY <2>2 DEF BeginDiscard, SyncDiscard, SyncTo, diskVars
  <2> QED BY <1>5, <2>1, <2>2 DEF Discard
<1>6. ~PowerLoss
  BY <1>0 DEF PowerLoss
<1>7. ASSUME NEW a \in Agent, Dies(a) \/ Restarts(a) PROVE FALSE
  BY <1>7 DEF Dies, Restarts, diskVars
<1> QED BY <1>3, <1>4, <1>5, <1>6, <1>7 DEF SessionNext, sessionVars

(* No completed turn is overwritten: a manifest is replaced only by one    *)
(* whose transcript continues it, however many agents save to one file     *)
(* (the comparison under the lock in session_publish).                     *)
THEOREM SessionsContinue == SessionSpec => [][ContinuesWhatItReplaces]_sessionVars
<1>1. SessionInv /\ [SessionNext]_sessionVars => [ContinuesWhatItReplaces]_sessionVars
  <2> SUFFICES ASSUME SessionInv, [SessionNext]_sessionVars, losses' = losses,
                      dir'.manifest # dir.manifest, dir'.manifest # 0
               PROVE  parent[dir'.manifest] = dir.manifest
    BY DEF ContinuesWhatItReplaces
  <2>1. PICK a \in Agent : RenameManifest(a) /\ dir'.manifest = mine[a]
    BY OnlyRenameReplaces
  <2>2. apc[a] = "rename" /\ HeldAt(a) /\ NamedAt(a)
    BY <2>1 DEF RenameManifest, SessionInv, HolderInv, NameInv
  <2> QED BY <2>1, <2>2 DEF HeldAt, NamedAt, Fresh
<1> QED BY <1>1, SessionBegins, SessionKeeps, PTL DEF SessionSpec

(***************************************************************************)
(* File tools                                                              *)
(***************************************************************************)

ToolAt ==
  {"idle", "lock", "read", "temp", "fill", "swap", "verify", "commit", "rollback",
   "payload", "fill_payload", "publish", "check"}

(* Where an edit holds the directory's lock; where it has the file it      *)
(* displaced at its temporary name; and where a tool has a file there that *)
(* nobody else knows.                                                      *)
Locked == {"read", "temp", "fill", "swap", "verify", "commit", "rollback"}
Displacing == {"verify", "commit", "rollback"}
Private == {"fill", "swap", "fill_payload", "publish"}

Inode == 1 .. Len(bytes)

ToolTypes ==
  /\ bytes \in Seq(SUBSET Nat)
  /\ leaf \in Nat /\ leaf <= Len(bytes)
  /\ tpc \in [Tool -> ToolAt]
  /\ temp \in [Tool -> Nat] /\ fd \in [Tool -> Nat] /\ made \in [Tool -> Nat]
  /\ \A a \in Tool : temp[a] <= Len(bytes) /\ fd[a] <= Len(bytes) /\ made[a] <= Len(bytes)
  /\ data \in [Tool -> SUBSET Nat] /\ over \in [Tool -> BOOLEAN]
  /\ call \in [Tool -> Nat] /\ calls \in Nat
  /\ dirlock \in Tool \cup {NoTool}
  /\ preserved \subseteq Inode

(* Numbers that have been drawn, and where they may show: a call that is   *)
(* not over is in no file but its own, until a write has published it.     *)
CallAt(a) ==
  /\ tpc[a] # "idle" =>
       /\ call[a] > 0 /\ call[a] <= calls
       /\ call[a] \notin done \cup undone
       /\ \A b \in Tool \ {a} : tpc[b] # "idle" => call[b] # call[a]
  /\ tpc[a] \notin {"idle", "check"} => \A i \in Inode \ {made[a]} : call[a] \notin bytes[i]

CallInv ==
  /\ done \cup undone \cup kept \subseteq 1 .. calls
  /\ \A i \in Inode : bytes[i] \subseteq 0 .. calls
  /\ \A a \in Tool : CallAt(a)

(* A private file is at its owner's temporary name and nowhere else. *)
PrivateAt(a) ==
  /\ tpc[a] \in Locked => dirlock = a
  /\ tpc[a] \notin Private \cup Displacing => temp[a] = 0
  /\ tpc[a] \notin Private \cup Displacing \cup {"check"} => made[a] = 0
  /\ tpc[a] \in Private =>
       /\ made[a] > 0 /\ temp[a] = made[a] /\ leaf # made[a] /\ made[a] \notin preserved
       /\ \A b \in Tool : fd[b] # made[a]
       /\ \A b \in Tool \ {a} : temp[b] # made[a] /\ made[b] # made[a]

PrivateInv == \A a \in Tool : PrivateAt(a)

(* What an edit knows of the file it opened, and what it has displaced:    *)
(* what the target owes is in there, and nothing that failed.              *)
EditAt(a) ==
  /\ tpc[a] \in Locked \cup {"lock"} => fd[a] > 0
  /\ tpc[a] \in {"temp", "fill", "swap", "verify", "commit", "rollback"} =>
       data[a] = bytes[fd[a]]
  /\ tpc[a] \in Displacing \cup {"swap"} => made[a] > 0 /\ bytes[made[a]] = Updated(a)
  /\ tpc[a] = "publish" => bytes[made[a]] = {call[a]}
  /\ tpc[a] \in Displacing =>
       /\ temp[a] > 0 /\ temp[a] # made[a] /\ bytes[temp[a]] # {}
       /\ kept \ {call[a]} \subseteq bytes[temp[a]] \cup Recoverable
       /\ call[a] \in kept => call[a] \in Shown
       /\ preserved = {} => bytes[temp[a]] \cap undone = {}

EditInv == \A a \in Tool : EditAt(a)

(* Reported or not, what the target owes is there when no edit is in doubt. *)
OwedKept == ~InDoubt => kept \subseteq Shown \cup Recoverable

ToolsInv == ToolTypes /\ CallInv /\ PrivateInv /\ EditInv /\ OwedKept /\ FailedIsUndone

-----------------------------------------------------------------------------
(* A tool's step, as the others see it: their own state stays as it is, no *)
(* file changes but one that is private to the tool, and the tool's call   *)
(* is all that may be new in the reports.                                  *)
Others(a) ==
  \A b \in Tool \ {a} :
    /\ tpc'[b] = tpc[b] /\ temp'[b] = temp[b] /\ fd'[b] = fd[b] /\ made'[b] = made[b]
    /\ data'[b] = data[b] /\ call'[b] = call[b]

FilesStep(a) ==
  /\ Len(bytes) \in Nat /\ Len(bytes') \in Nat /\ Len(bytes) <= Len(bytes')
  /\ \A i \in Inode : (tpc[a] \in Private => i # made[a]) => bytes'[i] = bytes[i]
  /\ \A i \in 1 .. Len(bytes') : i \notin Inode => bytes'[i] = {}
  /\ tpc[a] \in Private => \/ bytes'[made[a]] \subseteq bytes[made[a]] \cup {call[a]}
                           \/ tpc[a] = "fill" /\ bytes'[made[a]] = data[a] \cup {call[a]}

NamesStep(a) ==
  /\ \/ dirlock' = dirlock
     \/ dirlock = NoTool /\ dirlock' = a
     \/ dirlock = a /\ dirlock' = NoTool
  /\ leaf' \in {leaf, temp[a]}
  /\ temp'[a] \in {temp[a], leaf, 0, Len(bytes) + 1}
  /\ made'[a] \in {made[a], 0, Len(bytes) + 1}
  /\ fd'[a] \in {fd[a], leaf, 0}
  /\ preserved' \subseteq preserved \cup {temp[a]}

ReportsStep(a) ==
  /\ \/ done' = done
     \/ tpc[a] # "idle" /\ done' = done \cup {call[a]}
  /\ \/ undone' = undone
     \/ tpc[a] # "idle" /\ undone' = undone \cup {call[a]}
  /\ \/ kept' \subseteq kept
     \/ tpc[a] # "idle" /\ kept' \subseteq kept \cup {call[a]}
  /\ calls' \in Nat /\ calls <= calls'
  /\ tpc'[a] # "idle" =>
       \/ tpc[a] # "idle" /\ call'[a] = call[a]
       \/ tpc[a] = "idle" /\ call'[a] = calls + 1 /\ calls' = calls + 1

Moves(a) == Others(a) /\ FilesStep(a) /\ NamesStep(a) /\ ReportsStep(a)

(* A quiet step neither swaps nor settles an edit. *)
Quiet(a) ==
  /\ tpc[a] \notin Displacing /\ tpc'[a] \notin Displacing
  /\ preserved' = preserved
  /\ undone' = undone \/ tpc[a] \notin {"idle", "check"}
  /\ done' = done \/ tpc[a] = "check"
  /\ \/ leaf' = leaf /\ kept' = kept
     \/ /\ tpc[a] = "publish" /\ leaf' = temp[a] /\ undone' = undone /\ bytes' = bytes
        /\ kept' \subseteq {call[a]} /\ (Displaced => kept' = {})

(* A new file is empty and everybody's other files are as they were. *)
LEMMA CreatesFacts ==
  ASSUME ToolTypes, NEW a \in Tool, Creates(a)
  PROVE  /\ bytes' \in Seq(SUBSET Nat) /\ Len(bytes') = Len(bytes) + 1 /\ Len(bytes) \in Nat
         /\ \A i \in Inode : bytes'[i] = bytes[i]
         /\ bytes'[Len(bytes) + 1] = {}
         /\ made'[a] = Len(bytes) + 1 /\ temp'[a] = Len(bytes) + 1
         /\ made' \in [Tool -> Nat] /\ temp' \in [Tool -> Nat]
BY DEF ToolTypes, Creates, Inode

LEMMA FillFacts ==
  ASSUME ToolTypes, NEW n \in Inode, NEW B \in SUBSET Nat, bytes' = [bytes EXCEPT ![n] = B]
  PROVE  /\ bytes' \in Seq(SUBSET Nat) /\ Len(bytes') = Len(bytes) /\ Len(bytes) \in Nat
         /\ bytes'[n] = B /\ \A i \in Inode \ {n} : bytes'[i] = bytes[i]
BY ExceptSeq DEF ToolTypes, Inode

(* No tool but the one with the lock has displaced a file. *)
LEMMA OneEdits ==
  ASSUME PrivateInv, NEW a \in Tool, tpc[a] \in Locked, NEW b \in Tool \ {a}
  PROVE  tpc[b] \notin Locked
BY DEF PrivateInv, PrivateAt, Locked

LEMMA OthersCalls ==
  ASSUME ToolTypes, CallInv, PrivateInv, EditInv, NEW a \in Tool, Moves(a),
         NEW b \in Tool, b # a
  PROVE  CallAt(b)'
<1>0. CallAt(b) /\ CallAt(a) /\ PrivateAt(a) /\ PrivateAt(b)
  BY DEF CallInv, PrivateInv
<1>1. tpc'[b] = tpc[b] /\ made'[b] = made[b] /\ call'[b] = call[b]
  BY DEF Moves, Others
<1>2. ASSUME tpc[b] # "idle"
      PROVE  /\ call[b] > 0 /\ call[b] <= calls'
             /\ call[b] \notin done' \cup undone'
             /\ \A c \in Tool \ {b} : tpc'[c] # "idle" => call'[c] # call[b]
  <2>1. call[b] > 0 /\ call[b] <= calls /\ call[b] \in Nat /\ calls \in Nat
    BY <1>0, <1>2 DEF CallAt, ToolTypes
  <2>2. tpc[a] # "idle" => call[a] # call[b]
    BY <1>0, <1>2 DEF CallAt
  <2>3. call[b] \notin done' \cup undone'
    BY <1>0, <1>2, <2>2 DEF CallAt, Moves, ReportsStep
  <2>4. ASSUME NEW c \in Tool \ {b}, tpc'[c] # "idle" PROVE call'[c] # call[b]
    <3>1. CASE c = a
      BY <2>1, <2>2, <2>4, <3>1 DEF Moves, ReportsStep
    <3>2. CASE c # a
      BY <1>0, <1>2, <2>4, <3>2 DEF CallAt, Moves, Others
    <3> QED BY <3>1, <3>2
  <2>5. call[b] <= calls'
    BY <2>1 DEF Moves, ReportsStep
  <2> QED BY <2>1, <2>3, <2>4, <2>5
<1>4. ASSUME tpc[b] \notin {"idle", "check"}, NEW i \in 1 .. Len(bytes'), i # made[b]
      PROVE  call[b] \notin bytes'[i]
  <2>1. \A j \in Inode \ {made[b]} : call[b] \notin bytes[j]
    BY <1>0, <1>4 DEF CallAt
  <2>2. CASE i \notin Inode
    BY <2>2, <1>4 DEF Moves, FilesStep
  <2>3. CASE i \in Inode /\ (tpc[a] \in Private => i # made[a])
    BY <1>4, <2>1, <2>3 DEF Moves, FilesStep
  <2>4. CASE i \in Inode /\ tpc[a] \in Private /\ i = made[a]
    <3>1. tpc[a] # "idle" /\ call[a] # call[b]
      BY <1>0, <1>4, <2>4 DEF CallAt, Private
    <3>2. CASE bytes'[made[a]] \subseteq bytes[made[a]] \cup {call[a]}
      BY <1>4, <2>1, <2>4, <3>1, <3>2
    <3>3. CASE tpc[a] = "fill" /\ bytes'[made[a]] = data[a] \cup {call[a]}
      <4>1. data[a] = bytes[fd[a]] /\ fd[a] > 0
        BY <3>3 DEF EditInv, EditAt, Locked
      <4>2. tpc[b] \notin Locked
        BY <3>3, OneEdits DEF Locked
      <4>3. fd[a] # made[b] /\ fd[a] \in Inode
        BY <1>0, <1>4, <4>1, <4>2 DEF PrivateAt, Locked, Displacing, Private, ToolTypes, Inode
      <4> QED BY <2>1, <2>4, <3>1, <3>3, <4>1, <4>3
    <3> QED BY <2>4, <3>2, <3>3 DEF Moves, FilesStep
  <2> QED BY <2>2, <2>3, <2>4
<1> QED BY <1>1, <1>2, <1>4 DEF CallAt, Inode

LEMMA OthersPrivate ==
  ASSUME ToolTypes, PrivateInv, NEW a \in Tool, Moves(a), NEW b \in Tool, b # a
  PROVE  PrivateAt(b)'
<1>0. PrivateAt(a) /\ PrivateAt(b)
  BY DEF PrivateInv
<1>1. tpc'[b] = tpc[b] /\ made'[b] = made[b] /\ temp'[b] = temp[b] /\ fd'[b] = fd[b]
  BY DEF Moves, Others
<1>2. tpc[b] \in Locked => dirlock' = b
  BY <1>0, ToolsAssumption DEF Moves, NamesStep, PrivateAt
<1>3. ASSUME tpc[b] \in Private
      PROVE  /\ leaf' # made[b] /\ made[b] \notin preserved'
             /\ \A c \in Tool : fd'[c] # made[b]
             /\ \A c \in Tool \ {b} : temp'[c] # made[b] /\ made'[c] # made[b]
  <2>1. /\ made[b] > 0 /\ temp[b] = made[b] /\ leaf # made[b] /\ made[b] \notin preserved
        /\ \A c \in Tool : fd[c] # made[b]
        /\ \A c \in Tool \ {b} : temp[c] # made[b] /\ made[c] # made[b]
        /\ made[b] \in Nat /\ made[b] <= Len(bytes) /\ Len(bytes) \in Nat
    BY <1>0, <1>3 DEF PrivateAt, ToolTypes
  <2>2. leaf' # made[b] /\ made[b] \notin preserved'
    BY <2>1 DEF Moves, NamesStep
  <2>3. fd'[a] # made[b] /\ temp'[a] # made[b] /\ made'[a] # made[b]
    BY <2>1 DEF Moves, NamesStep
  <2>4. \A c \in Tool \ {a} : fd'[c] = fd[c] /\ temp'[c] = temp[c] /\ made'[c] = made[c]
    BY DEF Moves, Others
  <2> QED BY <2>1, <2>2, <2>3, <2>4
<1> QED BY <1>0, <1>1, <1>2, <1>3 DEF PrivateAt

LEMMA CallsStay ==
  ASSUME ToolTypes, CallInv, EditInv, PrivateInv, NEW a \in Tool, Moves(a), CallAt(a)'
  PROVE  CallInv'
<1>1. \A b \in Tool : CallAt(b)'
  BY OthersCalls
<1>0. CallAt(a) /\ calls \in Nat /\ call[a] \in Nat
  BY DEF CallInv, ToolTypes
<1>2. (done \cup undone \cup kept \subseteq 1 .. calls)'
  <2>1. tpc[a] # "idle" => call[a] \in 1 .. calls
    BY <1>0 DEF CallAt
  <2>2. done \cup undone \cup kept \subseteq 1 .. calls
    BY DEF CallInv
  <2>3. 1 .. calls \subseteq 1 .. calls'
    BY <1>0 DEF Moves, ReportsStep
  <2>4. done' \cup undone' \cup kept' \subseteq 1 .. calls
    BY <2>1, <2>2 DEF Moves, ReportsStep
  <2> QED BY <2>3, <2>4
<1>3. ASSUME NEW i \in 1 .. Len(bytes') PROVE bytes'[i] \subseteq 0 .. calls'
  <2>1. 0 .. calls \subseteq 0 .. calls' /\ \A j \in Inode : bytes[j] \subseteq 0 .. calls
    BY <1>0 DEF Moves, ReportsStep, CallInv
  <2>2. CASE i \notin Inode
    BY <2>2 DEF Moves, FilesStep
  <2>3. CASE i \in Inode /\ (tpc[a] \in Private => i # made[a])
    BY <2>1, <2>3 DEF Moves, FilesStep
  <2>4. CASE i \in Inode /\ tpc[a] \in Private /\ i = made[a]
    <3>1. call[a] \in 0 .. calls
      BY <1>0, <2>4 DEF CallAt, Private
    <3>2. tpc[a] = "fill" => data[a] = bytes[fd[a]] /\ fd[a] \in Inode
      BY DEF EditInv, EditAt, Locked, ToolTypes, Inode
    <3>3. tpc[a] = "fill" => data[a] \subseteq 0 .. calls
      BY <2>1, <3>2
    <3> QED BY <2>1, <2>4, <3>1, <3>3 DEF Moves, FilesStep
  <2> QED BY <2>2, <2>3, <2>4
<1> QED BY <1>1, <1>2, <1>3 DEF CallInv, Inode

LEMMA PrivatesStay ==
  ASSUME ToolTypes, PrivateInv, NEW a \in Tool, Moves(a), PrivateAt(a)'
  PROVE  PrivateInv'
BY OthersPrivate DEF PrivateInv

(* What the tool does not write stays readable. *)
LEMMA FilesStay ==
  ASSUME ToolTypes, PrivateInv, NEW a \in Tool, Moves(a)
  PROVE  /\ \A i \in preserved : bytes'[i] = bytes[i]
         /\ leaf # 0 => bytes'[leaf] = bytes[leaf] /\ leaf \in Inode
         /\ \A b \in Tool : fd[b] > 0 => bytes'[fd[b]] = bytes[fd[b]]
         /\ \A b \in Tool \ {a} : /\ temp[b] > 0 => bytes'[temp[b]] = bytes[temp[b]]
                                  /\ made[b] > 0 => bytes'[made[b]] = bytes[made[b]]
<1>1. tpc[a] \in Private =>
        /\ leaf # made[a] /\ made[a] \notin preserved
        /\ \A b \in Tool : fd[b] # made[a]
        /\ \A b \in Tool \ {a} : temp[b] # made[a] /\ made[b] # made[a]
  BY DEF PrivateInv, PrivateAt
<1>2. \A i \in Inode : (tpc[a] \in Private => i # made[a]) => bytes'[i] = bytes[i]
  BY DEF Moves, FilesStep
<1>3. /\ preserved \subseteq Inode
      /\ leaf # 0 => leaf \in Inode
      /\ \A b \in Tool : /\ fd[b] > 0 => fd[b] \in Inode
                         /\ temp[b] > 0 => temp[b] \in Inode
                         /\ made[b] > 0 => made[b] \in Inode
  BY DEF ToolTypes, Inode
<1> QED BY <1>1, <1>2, <1>3

LEMMA RecoverableStays ==
  ASSUME ToolTypes, PrivateInv, NEW a \in Tool, Moves(a), preserved' = preserved
  PROVE  Recoverable' = Recoverable
<1>1. \A i \in preserved : bytes'[i] = bytes[i]
  BY FilesStay
<1> QED BY <1>1 DEF Recoverable

(* While a works under the lock, nobody else has anything displaced. *)
LEMMA LockedOthersEdit ==
  ASSUME ToolsInv, NEW a \in Tool, Moves(a), tpc[a] \in Locked, NEW b \in Tool, b # a
  PROVE  EditAt(b)'
<1>0. ToolTypes /\ PrivateInv /\ EditAt(b) /\ PrivateAt(b)
  BY DEF ToolsInv, EditInv, PrivateInv
<1>1. /\ tpc'[b] = tpc[b] /\ made'[b] = made[b] /\ temp'[b] = temp[b] /\ fd'[b] = fd[b]
      /\ call'[b] = call[b]
  BY DEF Moves, Others
<1>2. tpc[b] \notin Locked
  BY <1>0, OneEdits
<1>3. made[b] > 0 => bytes'[made[b]] = bytes[made[b]]
  BY <1>0, FilesStay
<1>4. tpc[b] = "publish" => made[b] > 0
  BY <1>0 DEF PrivateAt, Private
<1> QED BY <1>0, <1>1, <1>2, <1>3, <1>4 DEF EditAt, Locked, Displacing

LEMMA QuietOthersEdit ==
  ASSUME ToolsInv, NEW a \in Tool, Moves(a), Quiet(a), NEW b \in Tool, b # a
  PROVE  EditAt(b)'
<1>0. /\ ToolTypes /\ PrivateInv /\ CallInv /\ EditAt(b) /\ PrivateAt(b) /\ PrivateAt(a)
      /\ CallAt(a)
      /\ CallAt(b)
  BY DEF ToolsInv, EditInv, PrivateInv, CallInv
<1>1. /\ tpc'[b] = tpc[b] /\ made'[b] = made[b] /\ temp'[b] = temp[b] /\ fd'[b] = fd[b]
      /\ call'[b] = call[b] /\ data'[b] = data[b]
  BY DEF Moves, Others
<1>2. /\ made[b] > 0 => bytes'[made[b]] = bytes[made[b]]
      /\ temp[b] > 0 => bytes'[temp[b]] = bytes[temp[b]] /\ temp[b] \in Inode
      /\ fd[b] > 0 => bytes'[fd[b]] = bytes[fd[b]]
      /\ leaf # 0 => bytes'[leaf] = bytes[leaf]
  BY <1>0, FilesStay DEF ToolTypes, Inode
<1>3. Recoverable' = Recoverable /\ preserved' = preserved
  BY <1>0, RecoverableStays DEF Quiet
<1>4. ASSUME tpc[b] \in Displacing
      PROVE  /\ kept' \ {call[b]} \subseteq bytes[temp[b]] \cup Recoverable
             /\ preserved = {} => bytes[temp[b]] \cap undone' = {}
             /\ call[b] \in kept' => kept' = kept /\ leaf' = leaf
  <2>1. /\ temp[b] > 0 /\ kept \ {call[b]} \subseteq bytes[temp[b]] \cup Recoverable
        /\ preserved = {} => bytes[temp[b]] \cap undone = {}
    BY <1>0, <1>4 DEF EditAt
  <2>2. Displaced
    BY <1>4 DEF Displaced, Displacing
  <2>3. undone' # undone => call[a] \notin bytes[temp[b]] /\ undone' = undone \cup {call[a]}
    <3>1. SUFFICES ASSUME undone' # undone
                   PROVE call[a] \notin bytes[temp[b]] /\ undone' = undone \cup {call[a]}
      OBVIOUS
    <3>2. tpc[a] \notin {"idle", "check"} /\ undone' = undone \cup {call[a]}
      BY <3>1 DEF Quiet, Moves, ReportsStep
    <3>3. temp[b] # made[a] /\ temp[b] \in Inode
      BY <1>0, <1>2, <2>1, <3>2 DEF PrivateAt, Quiet, Displacing
    <3> QED BY <1>0, <3>2, <3>3 DEF CallAt
  <2>4. call[b] \in kept' => kept' = kept /\ leaf' = leaf
    BY <2>2 DEF Quiet
  <2>5. kept' \subseteq kept
    BY <2>2 DEF Quiet
  <2> QED BY <2>1, <2>3, <2>4, <2>5
<1>5. tpc[b] \in {"lock"} \cup Locked => fd[b] > 0
  BY <1>0 DEF EditAt
<1>6. tpc[b] \in Displacing \cup {"swap", "publish"} => made[b] > 0
  BY <1>0 DEF EditAt, PrivateAt, Private
<1>7. tpc[b] \in Displacing => (call[b] \in kept' => call[b] \in Shown')
  BY <1>0, <1>2, <1>4 DEF EditAt, Shown, Displacing
<1>8. tpc[b] \in Displacing =>
        /\ temp[b] > 0 /\ temp[b] # made[b] /\ bytes'[temp[b]] # {}
        /\ kept' \ {call[b]} \subseteq bytes'[temp[b]] \cup Recoverable'
        /\ preserved' = {} => bytes'[temp[b]] \cap undone' = {}
  BY <1>0, <1>2, <1>3, <1>4 DEF EditAt
<1>9. tpc[b] \in {"temp", "fill", "swap", "verify", "commit", "rollback"} =>
        data[b] = bytes'[fd[b]]
  BY <1>0, <1>2, <1>5 DEF EditAt, Locked
<1>10. /\ tpc[b] \in Displacing \cup {"swap"} => bytes'[made[b]] = data[b] \cup {call[b]}
       /\ tpc[b] = "publish" => bytes'[made[b]] = {call[b]}
  BY <1>0, <1>2, <1>6 DEF EditAt, Updated
<1> QED BY <1>1, <1>5, <1>6, <1>7, <1>8, <1>9, <1>10 DEF EditAt, Updated

LEMMA QuietReports ==
  ASSUME ToolsInv, NEW a \in Tool, Moves(a), Quiet(a)
  PROVE  OwedKept' /\ FailedIsUndone'
<1>0. /\ ToolTypes /\ PrivateInv /\ CallInv /\ EditAt(a) /\ PrivateAt(a) /\ CallAt(a)
      /\ OwedKept /\ FailedIsUndone
  BY DEF ToolsInv, EditInv, PrivateInv, CallInv
<1>1. InDoubt' <=> InDoubt
  BY DEF InDoubt, Moves, Others, Quiet, Displacing
<1>2. Recoverable' = Recoverable /\ preserved' = preserved
  BY <1>0, RecoverableStays DEF Quiet
<1>4. leaf # 0 => bytes'[leaf] = bytes[leaf] /\ leaf \in Inode
  BY <1>0, FilesStay
<1>5. CASE leaf' = leaf /\ kept' = kept
  <2>1. Shown' = Shown
    BY <1>4, <1>5 DEF Shown
  <2>2. OwedKept'
    BY <1>0, <1>1, <1>2, <1>5, <2>1 DEF OwedKept
  <2>3. Shown \cap undone = {} => Shown' \cap undone' = {}
    <3>1. undone' # undone => tpc[a] \notin {"idle", "check"} /\ undone' = undone \cup {call[a]}
      BY DEF Quiet, Moves, ReportsStep
    <3>2. leaf # 0 /\ undone' # undone => leaf # made[a]
      BY <1>0, <3>1 DEF PrivateAt, Quiet, Displacing
    <3>3. undone' # undone => call[a] \notin Shown
      BY <1>0, <1>4, <3>1, <3>2 DEF CallAt, Shown
    <3> QED BY <2>1, <3>1, <3>3
  <2> QED BY <1>0, <1>1, <1>2, <1>5, <2>1, <2>2, <2>3 DEF FailedIsUndone
<1>6. CASE /\ tpc[a] = "publish" /\ leaf' = temp[a] /\ kept' \subseteq {call[a]}
           /\ undone' = undone /\ bytes' = bytes
  <2>2. Shown' = {call[a]} /\ call[a] \notin undone
    BY <1>0, <1>6 DEF Shown, PrivateAt, EditAt, CallAt, Private
  <2>1. OwedKept'
    BY <1>6, <2>2 DEF OwedKept
  <2> QED BY <1>6, <2>1, <2>2 DEF FailedIsUndone
<1> QED BY <1>5, <1>6 DEF Quiet

LEMMA QuietKeeps ==
  ASSUME ToolsInv, NEW a \in Tool, Moves(a), Quiet(a), ToolTypes',
         CallAt(a)', PrivateAt(a)', EditAt(a)'
  PROVE  ToolsInv'
<1>1. CallInv' /\ PrivateInv'
  BY CallsStay, PrivatesStay DEF ToolsInv
<1>2. EditInv'
  BY QuietOthersEdit DEF EditInv
<1> QED BY <1>1, <1>2, QuietReports DEF ToolsInv

LEMMA GivesUpKeeps ==
  ASSUME ToolsInv, NEW a \in Tool, GivesUp(a)
  PROVE  ToolsInv'
<1>0. /\ ToolTypes /\ CallInv /\ PrivateInv /\ EditInv /\ OwedKept /\ FailedIsUndone
      /\ CallAt(a) /\ PrivateAt(a) /\ EditAt(a)
  BY DEF ToolsInv, CallInv, PrivateInv, EditInv
<1>c. bytes' = bytes /\ Len(bytes) \in Nat /\ bytes \in Seq(SUBSET Nat)
  BY <1>0 DEF GivesUp, nameVars, ToolTypes, Swapped, Failed, Returned, Unlinked
<1>1. Others(a)
  BY <1>0 DEF GivesUp, Failed, Returned, Unlinked, ToolTypes, nameVars, Others
<1>2. FilesStep(a)
  BY <1>0, <1>c DEF GivesUp, Failed, Returned, Unlinked, FilesStep, Inode, Updated, Private
<1>3. NamesStep(a)
  BY <1>0, <1>c DEF GivesUp, Failed, Returned, Unlinked, NamesStep, ToolTypes, nameVars
<1>4. ReportsStep(a)
  BY <1>0 DEF GivesUp, Failed, Returned, Unlinked, ReportsStep, ToolTypes, reportVars
<1>5. Moves(a)
  BY <1>1, <1>2, <1>3, <1>4 DEF Moves
<1>6. ToolTypes'
  <2>1. /\ tpc' \in [Tool -> ToolAt] /\ over' \in [Tool -> BOOLEAN]
        /\ data' \in [Tool -> SUBSET Nat] /\ call' \in [Tool -> Nat] /\ calls' \in Nat
    BY <1>0, <1>c DEF GivesUp, Failed, Returned, Unlinked, ToolTypes, ToolAt, Inode
  <2>2. temp' \in [Tool -> Nat] /\ fd' \in [Tool -> Nat] /\ made' \in [Tool -> Nat]
    BY <1>0, <1>c DEF GivesUp, Failed, Returned, Unlinked, ToolTypes, nameVars
  <2>3. dirlock' \in Tool \cup {NoTool}
    BY <1>0 DEF GivesUp, Failed, Returned, Unlinked, ToolTypes
  <2>4. /\ leaf' \in Nat /\ leaf' <= Len(bytes')
        /\ \A b \in Tool :
             temp'[b] <= Len(bytes') /\ fd'[b] <= Len(bytes') /\ made'[b] <= Len(bytes')
    <3>1. \A b \in Tool : /\ temp[b] <= Len(bytes) /\ fd[b] <= Len(bytes) /\ made[b] <= Len(bytes)
                        /\ temp[b] \in Nat /\ fd[b] \in Nat /\ made[b] \in Nat
      BY <1>0 DEF ToolTypes
    <3>2. leaf \in Nat /\ leaf <= Len(bytes) /\ Len(bytes) \in Nat
      BY <1>0, <1>c DEF ToolTypes
    <3>3. Len(bytes') \in Nat /\ Len(bytes) <= Len(bytes')
      BY <1>2 DEF FilesStep
    <3>4. leaf' \in Nat /\ leaf' <= Len(bytes')
      BY <1>3, <3>1, <3>2, <3>3 DEF NamesStep
    <3>5. temp'[a] <= Len(bytes') /\ fd'[a] <= Len(bytes') /\ made'[a] <= Len(bytes')
      BY <1>3, <1>c, <3>1, <3>2, <3>3 DEF NamesStep, GivesUp, Failed, Returned, Unlinked, nameVars
    <3>6. \A b \in Tool \ {a} : temp'[b] = temp[b] /\ fd'[b] = fd[b] /\ made'[b] = made[b]
      BY <1>1 DEF Others
    <3>7. ASSUME NEW b \in Tool \ {a}
          PROVE  temp'[b] <= Len(bytes') /\ fd'[b] <= Len(bytes') /\ made'[b] <= Len(bytes')
      BY <3>1, <3>2, <3>3, <3>6
    <3> QED BY <3>4, <3>5, <3>7
  <2>5. preserved' \subseteq 1 .. Len(bytes')
    BY <1>0, <1>c DEF GivesUp, Failed, Returned, Unlinked, ToolTypes, Inode
  <2> QED BY <1>c, <2>1, <2>2, <2>3, <2>4, <2>5 DEF ToolTypes, Inode, nameVars
<1>7. CallAt(a)'
  BY <1>0, <1>c DEF GivesUp, Failed, Returned, Unlinked, ToolTypes, CallInv, CallAt, Inode,
     nameVars, reportVars, Displacing
<1>8. PrivateAt(a)'
  BY <1>0, <1>c DEF GivesUp, Failed, Returned, Unlinked, ToolTypes, PrivateInv, PrivateAt, Inode,
     nameVars, Private, Displacing, Locked
<1>9. EditAt(a)'
  BY <1>0, <1>c DEF GivesUp, Failed, Returned, Unlinked, ToolTypes, PrivateAt, EditAt, Updated,
     Inode, nameVars, Private, Displacing, Locked
<1>10. Quiet(a)
  BY <1>0, <1>c DEF GivesUp, Failed, Returned, Unlinked, Quiet, Displacing, nameVars, reportVars
<1> QED BY <1>5, <1>6, <1>7, <1>8, <1>9, <1>10, QuietKeeps

LEMMA OpenEditKeeps ==
  ASSUME ToolsInv, NEW a \in Tool, OpenEdit(a)
  PROVE  ToolsInv'
<1>0. /\ ToolTypes /\ CallInv /\ PrivateInv /\ EditInv /\ OwedKept /\ FailedIsUndone
      /\ CallAt(a) /\ PrivateAt(a) /\ EditAt(a)
  BY DEF ToolsInv, CallInv, PrivateInv, EditInv
<1>c. bytes' = bytes /\ Len(bytes) \in Nat /\ bytes \in Seq(SUBSET Nat)
  BY <1>0 DEF OpenEdit, nameVars, ToolTypes, Swapped, At, Called
<1>1. Others(a)
  BY <1>0 DEF OpenEdit, At, Called, ToolTypes, nameVars, Others
<1>2. FilesStep(a)
  BY <1>0, <1>c DEF OpenEdit, At, Called, FilesStep, Inode, Updated, Private
<1>3. NamesStep(a)
  BY <1>0, <1>c DEF OpenEdit, At, Called, NamesStep, ToolTypes, nameVars
<1>4. ReportsStep(a)
  BY <1>0 DEF OpenEdit, At, Called, ReportsStep, ToolTypes, reportVars
<1>5. Moves(a)
  BY <1>1, <1>2, <1>3, <1>4 DEF Moves
<1>6. ToolTypes'
  <2>1. /\ tpc' \in [Tool -> ToolAt] /\ over' \in [Tool -> BOOLEAN]
        /\ data' \in [Tool -> SUBSET Nat] /\ call' \in [Tool -> Nat] /\ calls' \in Nat
    BY <1>0, <1>c DEF OpenEdit, At, Called, ToolTypes, ToolAt, Inode
  <2>2. temp' \in [Tool -> Nat] /\ fd' \in [Tool -> Nat] /\ made' \in [Tool -> Nat]
    BY <1>0, <1>c DEF OpenEdit, At, Called, ToolTypes, nameVars
  <2>3. dirlock' \in Tool \cup {NoTool}
    BY <1>0 DEF OpenEdit, At, Called, ToolTypes
  <2>4. /\ leaf' \in Nat /\ leaf' <= Len(bytes')
        /\ \A b \in Tool :
             temp'[b] <= Len(bytes') /\ fd'[b] <= Len(bytes') /\ made'[b] <= Len(bytes')
    <3>1. \A b \in Tool : /\ temp[b] <= Len(bytes) /\ fd[b] <= Len(bytes) /\ made[b] <= Len(bytes)
                        /\ temp[b] \in Nat /\ fd[b] \in Nat /\ made[b] \in Nat
      BY <1>0 DEF ToolTypes
    <3>2. leaf \in Nat /\ leaf <= Len(bytes) /\ Len(bytes) \in Nat
      BY <1>0, <1>c DEF ToolTypes
    <3>3. Len(bytes') \in Nat /\ Len(bytes) <= Len(bytes')
      BY <1>2 DEF FilesStep
    <3>4. leaf' \in Nat /\ leaf' <= Len(bytes')
      BY <1>3, <3>1, <3>2, <3>3 DEF NamesStep
    <3>5. temp'[a] <= Len(bytes') /\ fd'[a] <= Len(bytes') /\ made'[a] <= Len(bytes')
      BY <1>3, <1>c, <3>1, <3>2, <3>3 DEF NamesStep, OpenEdit, At, Called, nameVars
    <3>6. \A b \in Tool \ {a} : temp'[b] = temp[b] /\ fd'[b] = fd[b] /\ made'[b] = made[b]
      BY <1>1 DEF Others
    <3>7. ASSUME NEW b \in Tool \ {a}
          PROVE  temp'[b] <= Len(bytes') /\ fd'[b] <= Len(bytes') /\ made'[b] <= Len(bytes')
      BY <3>1, <3>2, <3>3, <3>6
    <3> QED BY <3>4, <3>5, <3>7
  <2>5. preserved' \subseteq 1 .. Len(bytes')
    BY <1>0, <1>c DEF OpenEdit, At, Called, ToolTypes, Inode
  <2> QED BY <1>c, <2>1, <2>2, <2>3, <2>4, <2>5 DEF ToolTypes, Inode, nameVars
<1>7. CallAt(a)'
  BY <1>0, <1>c DEF OpenEdit, At, Called, ToolTypes, CallInv, CallAt, Inode, nameVars, reportVars,
     Displacing
<1>8. PrivateAt(a)'
  BY <1>0, <1>c DEF OpenEdit, At, Called, ToolTypes, PrivateInv, PrivateAt, Inode, nameVars,
     Private, Displacing, Locked
<1>9. EditAt(a)'
  BY <1>0, <1>c DEF OpenEdit, At, Called, ToolTypes, PrivateAt, EditAt, Updated, Inode, nameVars,
     Private, Displacing, Locked
<1>10. Quiet(a)
  BY <1>0, <1>c DEF OpenEdit, At, Called, Quiet, Displacing, nameVars, reportVars
<1> QED BY <1>5, <1>6, <1>7, <1>8, <1>9, <1>10, QuietKeeps

LEMMA LockParentKeeps ==
  ASSUME ToolsInv, NEW a \in Tool, LockParent(a)
  PROVE  ToolsInv'
<1>0. /\ ToolTypes /\ CallInv /\ PrivateInv /\ EditInv /\ OwedKept /\ FailedIsUndone
      /\ CallAt(a) /\ PrivateAt(a) /\ EditAt(a)
  BY DEF ToolsInv, CallInv, PrivateInv, EditInv
<1>c. bytes' = bytes /\ Len(bytes) \in Nat /\ bytes \in Seq(SUBSET Nat)
  BY <1>0 DEF LockParent, nameVars, ToolTypes, Swapped, At
<1>1. Others(a)
  BY <1>0 DEF LockParent, At, ToolTypes, nameVars, Others
<1>2. FilesStep(a)
  BY <1>0, <1>c DEF LockParent, At, FilesStep, Inode, Updated, Private
<1>3. NamesStep(a)
  BY <1>0, <1>c DEF LockParent, At, NamesStep, ToolTypes, nameVars
<1>4. ReportsStep(a)
  BY <1>0 DEF LockParent, At, ReportsStep, ToolTypes, reportVars
<1>5. Moves(a)
  BY <1>1, <1>2, <1>3, <1>4 DEF Moves
<1>6. ToolTypes'
  <2>1. /\ tpc' \in [Tool -> ToolAt] /\ over' \in [Tool -> BOOLEAN]
        /\ data' \in [Tool -> SUBSET Nat] /\ call' \in [Tool -> Nat] /\ calls' \in Nat
    BY <1>0, <1>c DEF LockParent, At, ToolTypes, ToolAt, Inode
  <2>2. temp' \in [Tool -> Nat] /\ fd' \in [Tool -> Nat] /\ made' \in [Tool -> Nat]
    BY <1>0, <1>c DEF LockParent, At, ToolTypes, nameVars
  <2>3. dirlock' \in Tool \cup {NoTool}
    BY <1>0 DEF LockParent, At, ToolTypes
  <2>4. /\ leaf' \in Nat /\ leaf' <= Len(bytes')
        /\ \A b \in Tool :
             temp'[b] <= Len(bytes') /\ fd'[b] <= Len(bytes') /\ made'[b] <= Len(bytes')
    <3>1. \A b \in Tool : /\ temp[b] <= Len(bytes) /\ fd[b] <= Len(bytes) /\ made[b] <= Len(bytes)
                        /\ temp[b] \in Nat /\ fd[b] \in Nat /\ made[b] \in Nat
      BY <1>0 DEF ToolTypes
    <3>2. leaf \in Nat /\ leaf <= Len(bytes) /\ Len(bytes) \in Nat
      BY <1>0, <1>c DEF ToolTypes
    <3>3. Len(bytes') \in Nat /\ Len(bytes) <= Len(bytes')
      BY <1>2 DEF FilesStep
    <3>4. leaf' \in Nat /\ leaf' <= Len(bytes')
      BY <1>3, <3>1, <3>2, <3>3 DEF NamesStep
    <3>5. temp'[a] <= Len(bytes') /\ fd'[a] <= Len(bytes') /\ made'[a] <= Len(bytes')
      BY <1>3, <1>c, <3>1, <3>2, <3>3 DEF NamesStep, LockParent, At, nameVars
    <3>6. \A b \in Tool \ {a} : temp'[b] = temp[b] /\ fd'[b] = fd[b] /\ made'[b] = made[b]
      BY <1>1 DEF Others
    <3>7. ASSUME NEW b \in Tool \ {a}
          PROVE  temp'[b] <= Len(bytes') /\ fd'[b] <= Len(bytes') /\ made'[b] <= Len(bytes')
      BY <3>1, <3>2, <3>3, <3>6
    <3> QED BY <3>4, <3>5, <3>7
  <2>5. preserved' \subseteq 1 .. Len(bytes')
    BY <1>0, <1>c DEF LockParent, At, ToolTypes, Inode
  <2> QED BY <1>c, <2>1, <2>2, <2>3, <2>4, <2>5 DEF ToolTypes, Inode, nameVars
<1>7. CallAt(a)'
  BY <1>0, <1>c DEF LockParent, At, ToolTypes, CallInv, CallAt, Inode, nameVars, reportVars,
     Displacing
<1>8. PrivateAt(a)'
  BY <1>0, <1>c DEF LockParent, At, ToolTypes, PrivateInv, PrivateAt, Inode, nameVars, Private,
     Displacing, Locked
<1>9. EditAt(a)'
  BY <1>0, <1>c DEF LockParent, At, ToolTypes, PrivateAt, EditAt, Updated, Inode, nameVars,
     Private, Displacing, Locked
<1>10. Quiet(a)
  BY <1>0, <1>c DEF LockParent, At, Quiet, Displacing, nameVars, reportVars
<1> QED BY <1>5, <1>6, <1>7, <1>8, <1>9, <1>10, QuietKeeps

LEMMA ReadTargetKeeps ==
  ASSUME ToolsInv, NEW a \in Tool, ReadTarget(a)
  PROVE  ToolsInv'
<1>0. /\ ToolTypes /\ CallInv /\ PrivateInv /\ EditInv /\ OwedKept /\ FailedIsUndone
      /\ CallAt(a) /\ PrivateAt(a) /\ EditAt(a)
  BY DEF ToolsInv, CallInv, PrivateInv, EditInv
<1>c. bytes' = bytes /\ Len(bytes) \in Nat /\ bytes \in Seq(SUBSET Nat)
  BY <1>0 DEF ReadTarget, nameVars, ToolTypes, Swapped, At
<1>1. Others(a)
  BY <1>0 DEF ReadTarget, At, ToolTypes, nameVars, Others
<1>2. FilesStep(a)
  BY <1>0, <1>c DEF ReadTarget, At, FilesStep, Inode, Updated, Private
<1>3. NamesStep(a)
  BY <1>0, <1>c DEF ReadTarget, At, NamesStep, ToolTypes, nameVars
<1>4. ReportsStep(a)
  BY <1>0 DEF ReadTarget, At, ReportsStep, ToolTypes, reportVars
<1>5. Moves(a)
  BY <1>1, <1>2, <1>3, <1>4 DEF Moves
<1>6. ToolTypes'
  <2>1. /\ tpc' \in [Tool -> ToolAt] /\ over' \in [Tool -> BOOLEAN]
        /\ data' \in [Tool -> SUBSET Nat] /\ call' \in [Tool -> Nat] /\ calls' \in Nat
    BY <1>0, <1>c DEF ReadTarget, At, ToolTypes, ToolAt, Inode, EditAt, Locked
  <2>2. temp' \in [Tool -> Nat] /\ fd' \in [Tool -> Nat] /\ made' \in [Tool -> Nat]
    BY <1>0, <1>c DEF ReadTarget, At, ToolTypes, nameVars
  <2>3. dirlock' \in Tool \cup {NoTool}
    BY <1>0 DEF ReadTarget, At, ToolTypes
  <2>4. /\ leaf' \in Nat /\ leaf' <= Len(bytes')
        /\ \A b \in Tool :
             temp'[b] <= Len(bytes') /\ fd'[b] <= Len(bytes') /\ made'[b] <= Len(bytes')
    <3>1. \A b \in Tool : /\ temp[b] <= Len(bytes) /\ fd[b] <= Len(bytes) /\ made[b] <= Len(bytes)
                        /\ temp[b] \in Nat /\ fd[b] \in Nat /\ made[b] \in Nat
      BY <1>0 DEF ToolTypes
    <3>2. leaf \in Nat /\ leaf <= Len(bytes) /\ Len(bytes) \in Nat
      BY <1>0, <1>c DEF ToolTypes
    <3>3. Len(bytes') \in Nat /\ Len(bytes) <= Len(bytes')
      BY <1>2 DEF FilesStep
    <3>4. leaf' \in Nat /\ leaf' <= Len(bytes')
      BY <1>3, <3>1, <3>2, <3>3 DEF NamesStep
    <3>5. temp'[a] <= Len(bytes') /\ fd'[a] <= Len(bytes') /\ made'[a] <= Len(bytes')
      BY <1>3, <1>c, <3>1, <3>2, <3>3 DEF NamesStep, ReadTarget, At, nameVars
    <3>6. \A b \in Tool \ {a} : temp'[b] = temp[b] /\ fd'[b] = fd[b] /\ made'[b] = made[b]
      BY <1>1 DEF Others
    <3>7. ASSUME NEW b \in Tool \ {a}
          PROVE  temp'[b] <= Len(bytes') /\ fd'[b] <= Len(bytes') /\ made'[b] <= Len(bytes')
      BY <3>1, <3>2, <3>3, <3>6
    <3> QED BY <3>4, <3>5, <3>7
  <2>5. preserved' \subseteq 1 .. Len(bytes')
    BY <1>0, <1>c DEF ReadTarget, At, ToolTypes, Inode
  <2> QED BY <1>c, <2>1, <2>2, <2>3, <2>4, <2>5 DEF ToolTypes, Inode, nameVars
<1>7. CallAt(a)'
  BY <1>0, <1>c DEF ReadTarget, At, ToolTypes, CallInv, CallAt, Inode, nameVars, reportVars,
     Displacing
<1>8. PrivateAt(a)'
  BY <1>0, <1>c DEF ReadTarget, At, ToolTypes, PrivateInv, PrivateAt, Inode, nameVars, Private,
     Displacing, Locked
<1>9. EditAt(a)'
  BY <1>0, <1>c DEF ReadTarget, At, ToolTypes, PrivateAt, EditAt, Updated, Inode, nameVars,
     Private, Displacing, Locked
<1>10. Quiet(a)
  BY <1>0, <1>c DEF ReadTarget, At, Quiet, Displacing, nameVars, reportVars
<1> QED BY <1>5, <1>6, <1>7, <1>8, <1>9, <1>10, QuietKeeps

LEMMA CreateTempKeeps ==
  ASSUME ToolsInv, NEW a \in Tool, CreateTemp(a)
  PROVE  ToolsInv'
<1>0. /\ ToolTypes /\ CallInv /\ PrivateInv /\ EditInv /\ OwedKept /\ FailedIsUndone
      /\ CallAt(a) /\ PrivateAt(a) /\ EditAt(a)
  BY DEF ToolsInv, CallInv, PrivateInv, EditInv
<1>b. Creates(a)
  BY DEF CreateTemp
<1>c. /\ bytes' \in Seq(SUBSET Nat) /\ Len(bytes') = Len(bytes) + 1 /\ Len(bytes) \in Nat
      /\ \A i \in Inode : bytes'[i] = bytes[i]
      /\ bytes'[Len(bytes) + 1] = {}
      /\ made'[a] = Len(bytes) + 1 /\ temp'[a] = Len(bytes) + 1
      /\ made' \in [Tool -> Nat] /\ temp' \in [Tool -> Nat]
  BY <1>0, <1>b, CreatesFacts
<1>1. Others(a)
  BY <1>0 DEF CreateTemp, At, Creates, ToolTypes, nameVars, Others
<1>2. FilesStep(a)
  BY <1>0, <1>c DEF CreateTemp, At, Creates, FilesStep, Inode, Updated, Private
<1>3. NamesStep(a)
  BY <1>0, <1>c DEF CreateTemp, At, Creates, NamesStep, ToolTypes, nameVars
<1>4. ReportsStep(a)
  BY <1>0 DEF CreateTemp, At, Creates, ReportsStep, ToolTypes, reportVars
<1>5. Moves(a)
  BY <1>1, <1>2, <1>3, <1>4 DEF Moves
<1>6. ToolTypes'
  <2>1. /\ tpc' \in [Tool -> ToolAt] /\ over' \in [Tool -> BOOLEAN]
        /\ data' \in [Tool -> SUBSET Nat] /\ call' \in [Tool -> Nat] /\ calls' \in Nat
    BY <1>0, <1>c DEF CreateTemp, At, Creates, ToolTypes, ToolAt, Inode
  <2>2. temp' \in [Tool -> Nat] /\ fd' \in [Tool -> Nat] /\ made' \in [Tool -> Nat]
    BY <1>0, <1>c DEF CreateTemp, At, Creates, ToolTypes, nameVars
  <2>3. dirlock' \in Tool \cup {NoTool}
    BY <1>0 DEF CreateTemp, At, Creates, ToolTypes
  <2>4. /\ leaf' \in Nat /\ leaf' <= Len(bytes')
        /\ \A b \in Tool :
             temp'[b] <= Len(bytes') /\ fd'[b] <= Len(bytes') /\ made'[b] <= Len(bytes')
    <3>1. \A b \in Tool : /\ temp[b] <= Len(bytes) /\ fd[b] <= Len(bytes) /\ made[b] <= Len(bytes)
                        /\ temp[b] \in Nat /\ fd[b] \in Nat /\ made[b] \in Nat
      BY <1>0 DEF ToolTypes
    <3>2. leaf \in Nat /\ leaf <= Len(bytes) /\ Len(bytes) \in Nat
      BY <1>0, <1>c DEF ToolTypes
    <3>3. Len(bytes') \in Nat /\ Len(bytes) <= Len(bytes')
      BY <1>2 DEF FilesStep
    <3>4. leaf' \in Nat /\ leaf' <= Len(bytes')
      BY <1>3, <3>1, <3>2, <3>3 DEF NamesStep
    <3>5. temp'[a] <= Len(bytes') /\ fd'[a] <= Len(bytes') /\ made'[a] <= Len(bytes')
      BY <1>3, <1>c, <3>1, <3>2, <3>3 DEF NamesStep, CreateTemp, At, Creates, nameVars
    <3>6. \A b \in Tool \ {a} : temp'[b] = temp[b] /\ fd'[b] = fd[b] /\ made'[b] = made[b]
      BY <1>1 DEF Others
    <3>7. ASSUME NEW b \in Tool \ {a}
          PROVE  temp'[b] <= Len(bytes') /\ fd'[b] <= Len(bytes') /\ made'[b] <= Len(bytes')
      BY <3>1, <3>2, <3>3, <3>6
    <3> QED BY <3>4, <3>5, <3>7
  <2>5. preserved' \subseteq 1 .. Len(bytes')
    BY <1>0, <1>c DEF CreateTemp, At, Creates, ToolTypes, Inode
  <2> QED BY <1>c, <2>1, <2>2, <2>3, <2>4, <2>5 DEF ToolTypes, Inode
<1>7. CallAt(a)'
  BY <1>0, <1>c DEF CreateTemp, At, Creates, ToolTypes, CallInv, CallAt, Inode, nameVars,
     reportVars, Displacing, PrivateAt, Private
<1>8. PrivateAt(a)'
  BY <1>0, <1>c DEF CreateTemp, At, Creates, ToolTypes, PrivateInv, PrivateAt, Inode, nameVars,
     Private, Displacing, Locked
<1>9. EditAt(a)'
  BY <1>0, <1>c DEF CreateTemp, At, Creates, ToolTypes, PrivateAt, EditAt, Updated, Inode,
     nameVars, Private, Displacing, Locked
<1>10. Quiet(a)
  BY <1>0, <1>c DEF CreateTemp, At, Creates, Quiet, Displacing, nameVars, reportVars
<1> QED BY <1>5, <1>6, <1>7, <1>8, <1>9, <1>10, QuietKeeps

LEMMA FillTempKeeps ==
  ASSUME ToolsInv, NEW a \in Tool, FillTemp(a)
  PROVE  ToolsInv'
<1>0. /\ ToolTypes /\ CallInv /\ PrivateInv /\ EditInv /\ OwedKept /\ FailedIsUndone
      /\ CallAt(a) /\ PrivateAt(a) /\ EditAt(a)
  BY DEF ToolsInv, CallInv, PrivateInv, EditInv
<1>b. made[a] \in Inode /\ Updated(a) \in SUBSET Nat
  BY <1>0 DEF FillTemp, At, ToolTypes, PrivateInv, PrivateAt, Private, Updated, Inode
<1>c. /\ bytes' \in Seq(SUBSET Nat) /\ Len(bytes') = Len(bytes) /\ Len(bytes) \in Nat
      /\ bytes'[made[a]] = Updated(a) /\ \A i \in Inode \ {made[a]} : bytes'[i] = bytes[i]
  BY <1>0, <1>b, FillFacts DEF FillTemp
<1>1. Others(a)
  BY <1>0 DEF FillTemp, At, ToolTypes, nameVars, Others
<1>2. FilesStep(a)
  BY <1>0, <1>c DEF FillTemp, At, FilesStep, Inode, Updated, Private
<1>3. NamesStep(a)
  BY <1>0, <1>c DEF FillTemp, At, NamesStep, ToolTypes, nameVars
<1>4. ReportsStep(a)
  BY <1>0 DEF FillTemp, At, ReportsStep, ToolTypes, reportVars
<1>5. Moves(a)
  BY <1>1, <1>2, <1>3, <1>4 DEF Moves
<1>6. ToolTypes'
  <2>1. /\ tpc' \in [Tool -> ToolAt] /\ over' \in [Tool -> BOOLEAN]
        /\ data' \in [Tool -> SUBSET Nat] /\ call' \in [Tool -> Nat] /\ calls' \in Nat
    BY <1>0, <1>c DEF FillTemp, At, ToolTypes, ToolAt, Inode
  <2>2. temp' \in [Tool -> Nat] /\ fd' \in [Tool -> Nat] /\ made' \in [Tool -> Nat]
    BY <1>0, <1>c DEF FillTemp, At, ToolTypes, nameVars
  <2>3. dirlock' \in Tool \cup {NoTool}
    BY <1>0 DEF FillTemp, At, ToolTypes
  <2>4. /\ leaf' \in Nat /\ leaf' <= Len(bytes')
        /\ \A b \in Tool :
             temp'[b] <= Len(bytes') /\ fd'[b] <= Len(bytes') /\ made'[b] <= Len(bytes')
    <3>1. \A b \in Tool : /\ temp[b] <= Len(bytes) /\ fd[b] <= Len(bytes) /\ made[b] <= Len(bytes)
                        /\ temp[b] \in Nat /\ fd[b] \in Nat /\ made[b] \in Nat
      BY <1>0 DEF ToolTypes
    <3>2. leaf \in Nat /\ leaf <= Len(bytes) /\ Len(bytes) \in Nat
      BY <1>0, <1>c DEF ToolTypes
    <3>3. Len(bytes') \in Nat /\ Len(bytes) <= Len(bytes')
      BY <1>2 DEF FilesStep
    <3>4. leaf' \in Nat /\ leaf' <= Len(bytes')
      BY <1>3, <3>1, <3>2, <3>3 DEF NamesStep
    <3>5. temp'[a] <= Len(bytes') /\ fd'[a] <= Len(bytes') /\ made'[a] <= Len(bytes')
      BY <1>3, <1>c, <3>1, <3>2, <3>3 DEF NamesStep, FillTemp, At, nameVars
    <3>6. \A b \in Tool \ {a} : temp'[b] = temp[b] /\ fd'[b] = fd[b] /\ made'[b] = made[b]
      BY <1>1 DEF Others
    <3>7. ASSUME NEW b \in Tool \ {a}
          PROVE  temp'[b] <= Len(bytes') /\ fd'[b] <= Len(bytes') /\ made'[b] <= Len(bytes')
      BY <3>1, <3>2, <3>3, <3>6
    <3> QED BY <3>4, <3>5, <3>7
  <2>5. preserved' \subseteq 1 .. Len(bytes')
    BY <1>0, <1>c DEF FillTemp, At, ToolTypes, Inode
  <2> QED BY <1>c, <2>1, <2>2, <2>3, <2>4, <2>5 DEF ToolTypes, Inode
<1>7. CallAt(a)'
  BY <1>0, <1>c DEF FillTemp, At, ToolTypes, CallInv, CallAt, Inode, nameVars, reportVars,
     Displacing, PrivateAt, Private
<1>8. PrivateAt(a)'
  BY <1>0, <1>c DEF FillTemp, At, ToolTypes, PrivateInv, PrivateAt, Inode, nameVars, Private,
     Displacing, Locked
<1>9. EditAt(a)'
  BY <1>0, <1>c DEF FillTemp, At, ToolTypes, PrivateAt, EditAt, Updated, Inode, nameVars, Private,
     Displacing, Locked
<1>10. Quiet(a)
  BY <1>0, <1>c DEF FillTemp, At, Quiet, Displacing, nameVars, reportVars
<1> QED BY <1>5, <1>6, <1>7, <1>8, <1>9, <1>10, QuietKeeps

LEMMA SwapInKeeps ==
  ASSUME ToolsInv, NEW a \in Tool, SwapIn(a)
  PROVE  ToolsInv'
<1>0. /\ ToolTypes /\ CallInv /\ PrivateInv /\ EditInv /\ OwedKept /\ FailedIsUndone
      /\ CallAt(a) /\ PrivateAt(a) /\ EditAt(a)
  BY DEF ToolsInv, CallInv, PrivateInv, EditInv
<1>c. bytes' = bytes /\ Len(bytes) \in Nat /\ bytes \in Seq(SUBSET Nat)
  BY <1>0 DEF SwapIn, nameVars, ToolTypes, Swapped, At, Swapped
<1>1. Others(a)
  BY <1>0 DEF SwapIn, At, Swapped, ToolTypes, nameVars, Others
<1>2. FilesStep(a)
  BY <1>0, <1>c DEF SwapIn, At, Swapped, FilesStep, Inode, Updated, Private
<1>3. NamesStep(a)
  BY <1>0, <1>c DEF SwapIn, At, Swapped, NamesStep, ToolTypes, nameVars
<1>4. ReportsStep(a)
  BY <1>0 DEF SwapIn, At, Swapped, ReportsStep, ToolTypes, reportVars
<1>5. Moves(a)
  BY <1>1, <1>2, <1>3, <1>4 DEF Moves
<1>6. ToolTypes'
  <2>1. /\ tpc' \in [Tool -> ToolAt] /\ over' \in [Tool -> BOOLEAN]
        /\ data' \in [Tool -> SUBSET Nat] /\ call' \in [Tool -> Nat] /\ calls' \in Nat
    BY <1>0, <1>c DEF SwapIn, At, Swapped, ToolTypes, ToolAt, Inode
  <2>2. temp' \in [Tool -> Nat] /\ fd' \in [Tool -> Nat] /\ made' \in [Tool -> Nat]
    BY <1>0, <1>c DEF SwapIn, At, Swapped, ToolTypes, nameVars
  <2>3. dirlock' \in Tool \cup {NoTool}
    BY <1>0 DEF SwapIn, At, Swapped, ToolTypes
  <2>4. /\ leaf' \in Nat /\ leaf' <= Len(bytes')
        /\ \A b \in Tool :
             temp'[b] <= Len(bytes') /\ fd'[b] <= Len(bytes') /\ made'[b] <= Len(bytes')
    <3>1. \A b \in Tool : /\ temp[b] <= Len(bytes) /\ fd[b] <= Len(bytes) /\ made[b] <= Len(bytes)
                        /\ temp[b] \in Nat /\ fd[b] \in Nat /\ made[b] \in Nat
      BY <1>0 DEF ToolTypes
    <3>2. leaf \in Nat /\ leaf <= Len(bytes) /\ Len(bytes) \in Nat
      BY <1>0, <1>c DEF ToolTypes
    <3>3. Len(bytes') \in Nat /\ Len(bytes) <= Len(bytes')
      BY <1>2 DEF FilesStep
    <3>4. leaf' \in Nat /\ leaf' <= Len(bytes')
      BY <1>3, <3>1, <3>2, <3>3 DEF NamesStep
    <3>5. temp'[a] <= Len(bytes') /\ fd'[a] <= Len(bytes') /\ made'[a] <= Len(bytes')
      BY <1>3, <1>c, <3>1, <3>2, <3>3 DEF NamesStep, SwapIn, At, Swapped, nameVars
    <3>6. \A b \in Tool \ {a} : temp'[b] = temp[b] /\ fd'[b] = fd[b] /\ made'[b] = made[b]
      BY <1>1 DEF Others
    <3>7. ASSUME NEW b \in Tool \ {a}
          PROVE  temp'[b] <= Len(bytes') /\ fd'[b] <= Len(bytes') /\ made'[b] <= Len(bytes')
      BY <3>1, <3>2, <3>3, <3>6
    <3> QED BY <3>4, <3>5, <3>7
  <2>5. preserved' \subseteq 1 .. Len(bytes')
    BY <1>0, <1>c DEF SwapIn, At, Swapped, ToolTypes, Inode
  <2> QED BY <1>c, <2>1, <2>2, <2>3, <2>4, <2>5 DEF ToolTypes, Inode, nameVars
<1>7. CallAt(a)'
  BY <1>0, <1>c DEF SwapIn, At, Swapped, ToolTypes, CallInv, CallAt, Inode, nameVars, reportVars,
     Displacing, PrivateAt, Private
<1>8. PrivateAt(a)'
  BY <1>0, <1>c DEF SwapIn, At, Swapped, ToolTypes, PrivateInv, PrivateAt, Inode, nameVars,
     Private, Displacing, Locked
<1>p. /\ tpc[a] = "swap" /\ tpc'[a] = "verify" /\ leaf # 0 /\ leaf' = temp[a] /\ temp'[a] = leaf
      /\ made'[a] = made[a] /\ call'[a] = call[a] /\ data'[a] = data[a] /\ fd'[a] = fd[a]
      /\ kept' = kept \cup {call[a]} /\ done' = done /\ undone' = undone /\ preserved' = preserved
  BY <1>0 DEF SwapIn, At, Swapped, ToolTypes, reportVars
<1>q. \A b \in Tool \ {a} : tpc[b] \notin Locked
  BY <1>0, <1>p, OneEdits DEF Locked
<1>r. ~InDoubt
  BY <1>p, <1>q DEF InDoubt, Locked
<1>s. /\ temp[a] = made[a] /\ made[a] > 0 /\ leaf # made[a]
      /\ bytes[made[a]] = Updated(a) /\ leaf \in Inode
  BY <1>0, <1>p DEF PrivateAt, EditAt, Private, Displacing, ToolTypes, Inode
<1>t. Recoverable' = Recoverable
  BY <1>0, <1>5, <1>p, RecoverableStays
<1>9. EditAt(a)'
  <2>1. Shown = bytes[leaf] /\ bytes[leaf] # {}
    BY <1>0, <1>p DEF Shown, FailedIsUndone
  <2>2. kept \subseteq bytes[leaf] \cup Recoverable
    BY <1>0, <1>r, <2>1 DEF OwedKept
  <2>3. preserved = {} => bytes[leaf] \cap undone = {}
    BY <1>0, <1>r, <2>1 DEF FailedIsUndone
  <2>4. Shown' = Updated(a)
    BY <1>c, <1>p, <1>s DEF Shown
  <2>5. kept' \ {call[a]} \subseteq kept /\ call[a] \in Shown'
    BY <1>p, <2>4 DEF Updated
  <2>6. fd[a] > 0 /\ data[a] = bytes[fd[a]] /\ leaf > 0
    BY <1>0, <1>p DEF EditAt, Locked, ToolTypes
  <2> QED BY <1>c, <1>p, <1>s, <1>t, <2>1, <2>2, <2>3, <2>5, <2>6 DEF EditAt, Updated
<1>10. OwedKept' /\ FailedIsUndone'
  <2>1. InDoubt'
    BY <1>p DEF InDoubt
  <2>2. Shown' # {}
    BY <1>c, <1>p, <1>s DEF Shown, Updated
  <2> QED BY <2>1, <2>2 DEF OwedKept, FailedIsUndone
<1>11. CallInv' /\ PrivateInv'
  BY <1>0, <1>5, <1>7, <1>8, CallsStay, PrivatesStay
<1>12. EditInv'
  <2>1. tpc[a] \in Locked
    BY DEF SwapIn, At, Swapped, Locked
  <2> QED BY <1>5, <1>9, <2>1, LockedOthersEdit DEF EditInv
<1> QED BY <1>6, <1>10, <1>11, <1>12 DEF ToolsInv

LEMMA VerifyKeeps ==
  ASSUME ToolsInv, NEW a \in Tool, Verify(a)
  PROVE  ToolsInv'
<1>0. /\ ToolTypes /\ CallInv /\ PrivateInv /\ EditInv /\ OwedKept /\ FailedIsUndone
      /\ CallAt(a) /\ PrivateAt(a) /\ EditAt(a)
  BY DEF ToolsInv, CallInv, PrivateInv, EditInv
<1>c. bytes' = bytes /\ Len(bytes) \in Nat /\ bytes \in Seq(SUBSET Nat)
  BY <1>0 DEF Verify, nameVars, ToolTypes, Swapped, At
<1>1. Others(a)
  BY <1>0 DEF Verify, At, ToolTypes, nameVars, Others
<1>2. FilesStep(a)
  BY <1>0, <1>c DEF Verify, At, FilesStep, Inode, Updated, Private
<1>3. NamesStep(a)
  BY <1>0, <1>c DEF Verify, At, NamesStep, ToolTypes, nameVars
<1>4. ReportsStep(a)
  BY <1>0 DEF Verify, At, ReportsStep, ToolTypes, reportVars
<1>5. Moves(a)
  BY <1>1, <1>2, <1>3, <1>4 DEF Moves
<1>6. ToolTypes'
  <2>1. /\ tpc' \in [Tool -> ToolAt] /\ over' \in [Tool -> BOOLEAN]
        /\ data' \in [Tool -> SUBSET Nat] /\ call' \in [Tool -> Nat] /\ calls' \in Nat
    BY <1>0, <1>c DEF Verify, At, ToolTypes, ToolAt, Inode
  <2>2. temp' \in [Tool -> Nat] /\ fd' \in [Tool -> Nat] /\ made' \in [Tool -> Nat]
    BY <1>0, <1>c DEF Verify, At, ToolTypes, nameVars
  <2>3. dirlock' \in Tool \cup {NoTool}
    BY <1>0 DEF Verify, At, ToolTypes
  <2>4. /\ leaf' \in Nat /\ leaf' <= Len(bytes')
        /\ \A b \in Tool :
             temp'[b] <= Len(bytes') /\ fd'[b] <= Len(bytes') /\ made'[b] <= Len(bytes')
    <3>1. \A b \in Tool : /\ temp[b] <= Len(bytes) /\ fd[b] <= Len(bytes) /\ made[b] <= Len(bytes)
                        /\ temp[b] \in Nat /\ fd[b] \in Nat /\ made[b] \in Nat
      BY <1>0 DEF ToolTypes
    <3>2. leaf \in Nat /\ leaf <= Len(bytes) /\ Len(bytes) \in Nat
      BY <1>0, <1>c DEF ToolTypes
    <3>3. Len(bytes') \in Nat /\ Len(bytes) <= Len(bytes')
      BY <1>2 DEF FilesStep
    <3>4. leaf' \in Nat /\ leaf' <= Len(bytes')
      BY <1>3, <3>1, <3>2, <3>3 DEF NamesStep
    <3>5. temp'[a] <= Len(bytes') /\ fd'[a] <= Len(bytes') /\ made'[a] <= Len(bytes')
      BY <1>3, <1>c, <3>1, <3>2, <3>3 DEF NamesStep, Verify, At, nameVars
    <3>6. \A b \in Tool \ {a} : temp'[b] = temp[b] /\ fd'[b] = fd[b] /\ made'[b] = made[b]
      BY <1>1 DEF Others
    <3>7. ASSUME NEW b \in Tool \ {a}
          PROVE  temp'[b] <= Len(bytes') /\ fd'[b] <= Len(bytes') /\ made'[b] <= Len(bytes')
      BY <3>1, <3>2, <3>3, <3>6
    <3> QED BY <3>4, <3>5, <3>7
  <2>5. preserved' \subseteq 1 .. Len(bytes')
    BY <1>0, <1>c DEF Verify, At, ToolTypes, Inode
  <2> QED BY <1>c, <2>1, <2>2, <2>3, <2>4, <2>5 DEF ToolTypes, Inode, nameVars
<1>7. CallAt(a)'
  BY <1>0, <1>c DEF Verify, At, ToolTypes, CallInv, CallAt, Inode, nameVars, reportVars, Displacing
<1>8. PrivateAt(a)'
  BY <1>0, <1>c DEF Verify, At, ToolTypes, PrivateInv, PrivateAt, Inode, nameVars, Private,
     Displacing, Locked
<1>p. /\ tpc[a] = "verify" /\ tpc'[a] \in {"commit", "rollback"}
      /\ tpc'[a] = "commit" => IdentityOk(a) /\ ContentOk(a)
      /\ leaf' = leaf /\ temp' = temp /\ made' = made /\ call' = call /\ data' = data /\ fd' = fd
      /\ kept' = kept /\ done' = done /\ undone' = undone /\ preserved' = preserved
  BY <1>0 DEF Verify, At, ToolTypes, nameVars, reportVars
<1>t. Recoverable' = Recoverable /\ Shown' = Shown
  BY <1>c, <1>p DEF Recoverable, Shown
<1>s. tpc'[a] = "commit" => Shown = data[a] \cup {call[a]} /\ data[a] = bytes[temp[a]]
  BY <1>0, <1>p DEF IdentityOk, ContentOk, Updated, Shown, EditAt, Displacing
<1>9. EditAt(a)'
  BY <1>0, <1>c, <1>p, <1>s, <1>t DEF EditAt, Updated, Displacing, Locked
<1>10. OwedKept' /\ FailedIsUndone'
  <2>1. CASE tpc'[a] = "rollback"
    <3>1. InDoubt'
      BY <2>1 DEF InDoubt
    <3> QED BY <1>0, <1>p, <1>t, <3>1 DEF OwedKept, FailedIsUndone
  <2>2. CASE tpc'[a] = "commit"
    <3>1. kept \subseteq Shown \cup Recoverable
      BY <1>0, <1>p, <1>s, <2>2 DEF EditAt, Displacing
    <3>2. preserved = {} => Shown \cap undone = {}
      BY <1>0, <1>p, <1>s, <2>2 DEF EditAt, CallAt, Displacing
    <3> QED BY <1>0, <1>p, <1>t, <3>1, <3>2 DEF OwedKept, FailedIsUndone
  <2> QED BY <1>p, <2>1, <2>2
<1>11. CallInv' /\ PrivateInv'
  BY <1>0, <1>5, <1>7, <1>8, CallsStay, PrivatesStay
<1>12. EditInv'
  <2>1. tpc[a] \in Locked
    BY DEF Verify, At, Locked
  <2> QED BY <1>5, <1>9, <2>1, LockedOthersEdit DEF EditInv
<1> QED BY <1>6, <1>10, <1>11, <1>12 DEF ToolsInv

LEMMA CommitEditKeeps ==
  ASSUME ToolsInv, NEW a \in Tool, CommitEdit(a)
  PROVE  ToolsInv'
<1>0. /\ ToolTypes /\ CallInv /\ PrivateInv /\ EditInv /\ OwedKept /\ FailedIsUndone
      /\ CallAt(a) /\ PrivateAt(a) /\ EditAt(a)
  BY DEF ToolsInv, CallInv, PrivateInv, EditInv
<1>c. bytes' = bytes /\ Len(bytes) \in Nat /\ bytes \in Seq(SUBSET Nat)
  BY <1>0 DEF CommitEdit, nameVars, ToolTypes, Swapped, At, Unlinked, Succeeds, Returned
<1>d. \/ Returned(a) /\ Unlinked(a)
      \/ At(a, "commit", "rollback") /\ UNCHANGED <<data, call, calls, over, temp, fd, made>>
  BY DEF CommitEdit, Succeeds, nameVars
<1>1. Others(a)
  BY <1>0 DEF CommitEdit, At, Unlinked, Succeeds, Returned, ToolTypes, nameVars, Others
<1>2. FilesStep(a)
  BY <1>0, <1>c DEF CommitEdit, At, Unlinked, Succeeds, Returned, FilesStep, Inode, Updated, Private
<1>3. NamesStep(a)
  BY <1>0, <1>c DEF CommitEdit, At, Unlinked, Succeeds, Returned, NamesStep, ToolTypes, nameVars
<1>4. ReportsStep(a)
  BY <1>0 DEF CommitEdit, At, Unlinked, Succeeds, Returned, ReportsStep, ToolTypes, reportVars
<1>5. Moves(a)
  BY <1>1, <1>2, <1>3, <1>4 DEF Moves
<1>6. ToolTypes'
  <2>1. /\ tpc' \in [Tool -> ToolAt] /\ over' \in [Tool -> BOOLEAN]
        /\ data' \in [Tool -> SUBSET Nat] /\ call' \in [Tool -> Nat] /\ calls' \in Nat
    <3>1. CASE Returned(a)
      BY <1>0, <3>1 DEF Returned, ToolTypes, ToolAt
    <3>2. CASE At(a, "commit", "rollback") /\ UNCHANGED <<data, call, calls, over>>
      BY <1>0, <3>2 DEF At, ToolTypes, ToolAt
    <3> QED BY <1>d, <3>1, <3>2
  <2>2. temp' \in [Tool -> Nat] /\ fd' \in [Tool -> Nat] /\ made' \in [Tool -> Nat]
    <3>1. CASE Returned(a) /\ Unlinked(a)
      BY <1>0, <3>1 DEF Returned, Unlinked, ToolTypes
    <3>2. CASE UNCHANGED <<temp, fd, made>>
      BY <1>0, <3>2 DEF ToolTypes
    <3> QED BY <1>d, <3>1, <3>2
  <2>3. dirlock' \in Tool \cup {NoTool}
    BY <1>0 DEF CommitEdit, At, Unlinked, Succeeds, Returned, ToolTypes
  <2>4. /\ leaf' \in Nat /\ leaf' <= Len(bytes')
        /\ \A b \in Tool :
             temp'[b] <= Len(bytes') /\ fd'[b] <= Len(bytes') /\ made'[b] <= Len(bytes')
    <3>1. \A b \in Tool : /\ temp[b] <= Len(bytes) /\ fd[b] <= Len(bytes) /\ made[b] <= Len(bytes)
                        /\ temp[b] \in Nat /\ fd[b] \in Nat /\ made[b] \in Nat
      BY <1>0 DEF ToolTypes
    <3>2. leaf \in Nat /\ leaf <= Len(bytes) /\ Len(bytes) \in Nat
      BY <1>0, <1>c DEF ToolTypes
    <3>3. Len(bytes') \in Nat /\ Len(bytes) <= Len(bytes')
      BY <1>2 DEF FilesStep
    <3>4. leaf' \in Nat /\ leaf' <= Len(bytes')
      BY <1>3, <3>1, <3>2, <3>3 DEF NamesStep
    <3>5. temp'[a] <= Len(bytes') /\ fd'[a] <= Len(bytes') /\ made'[a] <= Len(bytes')
      <4>1. temp'[a] \in {temp[a], 0} /\ fd'[a] \in {fd[a], 0} /\ made'[a] \in {made[a], 0}
        BY <1>0, <1>d DEF Returned, Unlinked, ToolTypes
      <4> QED BY <1>c, <3>1, <3>2, <4>1
    <3>6. \A b \in Tool \ {a} : temp'[b] = temp[b] /\ fd'[b] = fd[b] /\ made'[b] = made[b]
      BY <1>1 DEF Others
    <3>7. ASSUME NEW b \in Tool \ {a}
          PROVE  temp'[b] <= Len(bytes') /\ fd'[b] <= Len(bytes') /\ made'[b] <= Len(bytes')
      BY <3>1, <3>2, <3>3, <3>6
    <3> QED BY <3>4, <3>5, <3>7
  <2>5. preserved' \subseteq 1 .. Len(bytes')
    BY <1>0, <1>c DEF CommitEdit, At, Unlinked, Succeeds, Returned, ToolTypes, Inode
  <2> QED BY <1>c, <2>1, <2>2, <2>3, <2>4, <2>5 DEF ToolTypes, Inode, nameVars
<1>7. CallAt(a)'
  BY <1>0, <1>c DEF CommitEdit, At, Unlinked, Succeeds, Returned, ToolTypes, CallInv, CallAt,
     Inode, nameVars, reportVars, Displacing
<1>8. PrivateAt(a)'
  BY <1>0, <1>c DEF CommitEdit, At, Unlinked, Succeeds, Returned, ToolTypes, PrivateInv,
     PrivateAt, Inode, nameVars, Private, Displacing, Locked
<1>p. /\ tpc[a] = "commit" /\ leaf' = leaf /\ kept' = kept /\ preserved' = preserved
      /\ undone' = undone
      /\ \/ tpc'[a] = "idle" /\ done' = done \cup {call[a]}
         \/ /\ tpc'[a] = "rollback" /\ done' = done
            /\ temp' = temp /\ made' = made /\ call' = call /\ data' = data /\ fd' = fd
  BY <1>0 DEF CommitEdit, At, Succeeds, Returned, ToolTypes, nameVars, reportVars
<1>t. Recoverable' = Recoverable /\ Shown' = Shown
  BY <1>c, <1>p DEF Recoverable, Shown
<1>q. \A b \in Tool \ {a} : tpc[b] \notin Locked
  BY <1>0, <1>p, OneEdits DEF Locked
<1>r. ~InDoubt
  BY <1>p, <1>q DEF InDoubt, Locked
<1>9. EditAt(a)'
  <2>1. CASE tpc'[a] = "idle"
    BY <2>1 DEF EditAt, Displacing, Locked
  <2>2. CASE tpc'[a] # "idle"
    BY <1>0, <1>c, <1>p, <1>t, <2>2 DEF EditAt, Updated, Displacing, Locked
  <2> QED BY <2>1, <2>2
<1>10. OwedKept' /\ FailedIsUndone'
  <2>2. kept' \subseteq Shown \cup Recoverable
    BY <1>0, <1>p, <1>r DEF OwedKept
  <2> QED BY <1>0, <1>p, <1>r, <1>t, <2>2 DEF OwedKept, FailedIsUndone
<1>11. CallInv' /\ PrivateInv'
  BY <1>0, <1>5, <1>7, <1>8, CallsStay, PrivatesStay
<1>12. EditInv'
  <2>1. tpc[a] \in Locked
    BY DEF CommitEdit, At, Unlinked, Succeeds, Returned, Locked
  <2> QED BY <1>5, <1>9, <2>1, LockedOthersEdit DEF EditInv
<1> QED BY <1>6, <1>10, <1>11, <1>12 DEF ToolsInv

LEMMA RollbackKeeps ==
  ASSUME ToolsInv, NEW a \in Tool, Rollback(a)
  PROVE  ToolsInv'
<1>0. /\ ToolTypes /\ CallInv /\ PrivateInv /\ EditInv /\ OwedKept /\ FailedIsUndone
      /\ CallAt(a) /\ PrivateAt(a) /\ EditAt(a)
  BY DEF ToolsInv, CallInv, PrivateInv, EditInv
<1>c. bytes' = bytes /\ Len(bytes) \in Nat /\ bytes \in Seq(SUBSET Nat)
  BY <1>0 DEF Rollback, nameVars, ToolTypes, Swapped, Unlinked, Failed, Returned
<1>1. Others(a)
  BY <1>0 DEF Rollback, Unlinked, Failed, Returned, ToolTypes, nameVars, Others
<1>2. FilesStep(a)
  BY <1>0, <1>c DEF Rollback, Unlinked, Failed, Returned, FilesStep, Inode, Updated, Private
<1>3. NamesStep(a)
  BY <1>0, <1>c DEF Rollback, Unlinked, Failed, Returned, NamesStep, ToolTypes, nameVars
<1>4. ReportsStep(a)
  BY <1>0 DEF Rollback, Unlinked, Failed, Returned, ReportsStep, ToolTypes, reportVars
<1>5. Moves(a)
  BY <1>1, <1>2, <1>3, <1>4 DEF Moves
<1>6. ToolTypes'
  <2>1. /\ tpc' \in [Tool -> ToolAt] /\ over' \in [Tool -> BOOLEAN]
        /\ data' \in [Tool -> SUBSET Nat] /\ call' \in [Tool -> Nat] /\ calls' \in Nat
    BY <1>0, <1>c DEF Rollback, Unlinked, Failed, Returned, ToolTypes, ToolAt, Inode
  <2>2. temp' \in [Tool -> Nat] /\ fd' \in [Tool -> Nat] /\ made' \in [Tool -> Nat]
    BY <1>0, <1>c DEF Rollback, Unlinked, Failed, Returned, ToolTypes, nameVars
  <2>3. dirlock' \in Tool \cup {NoTool}
    BY <1>0 DEF Rollback, Unlinked, Failed, Returned, ToolTypes
  <2>4. /\ leaf' \in Nat /\ leaf' <= Len(bytes')
        /\ \A b \in Tool :
             temp'[b] <= Len(bytes') /\ fd'[b] <= Len(bytes') /\ made'[b] <= Len(bytes')
    <3>1. \A b \in Tool : /\ temp[b] <= Len(bytes) /\ fd[b] <= Len(bytes) /\ made[b] <= Len(bytes)
                        /\ temp[b] \in Nat /\ fd[b] \in Nat /\ made[b] \in Nat
      BY <1>0 DEF ToolTypes
    <3>2. leaf \in Nat /\ leaf <= Len(bytes) /\ Len(bytes) \in Nat
      BY <1>0, <1>c DEF ToolTypes
    <3>3. Len(bytes') \in Nat /\ Len(bytes) <= Len(bytes')
      BY <1>2 DEF FilesStep
    <3>4. leaf' \in Nat /\ leaf' <= Len(bytes')
      BY <1>3, <3>1, <3>2, <3>3 DEF NamesStep
    <3>5. temp'[a] <= Len(bytes') /\ fd'[a] <= Len(bytes') /\ made'[a] <= Len(bytes')
      BY <1>3, <1>c, <3>1, <3>2, <3>3 DEF NamesStep, Rollback, Unlinked, Failed, Returned, nameVars
    <3>6. \A b \in Tool \ {a} : temp'[b] = temp[b] /\ fd'[b] = fd[b] /\ made'[b] = made[b]
      BY <1>1 DEF Others
    <3>7. ASSUME NEW b \in Tool \ {a}
          PROVE  temp'[b] <= Len(bytes') /\ fd'[b] <= Len(bytes') /\ made'[b] <= Len(bytes')
      BY <3>1, <3>2, <3>3, <3>6
    <3> QED BY <3>4, <3>5, <3>7
  <2>5. preserved' \subseteq 1 .. Len(bytes')
    <3>1. preserved \subseteq 1 .. Len(bytes) /\ temp[a] \in 1 .. Len(bytes)
      BY <1>0, <1>c DEF Rollback, ToolTypes, Inode, EditAt, Displacing
    <3>2. preserved' \subseteq preserved \cup {temp[a]}
      BY <1>3 DEF NamesStep
    <3> QED BY <1>c, <3>1, <3>2
  <2> QED BY <1>c, <2>1, <2>2, <2>3, <2>4, <2>5 DEF ToolTypes, Inode, nameVars
<1>7. CallAt(a)'
  BY <1>0, <1>c DEF Rollback, Unlinked, Failed, Returned, ToolTypes, CallInv, CallAt, Inode,
     nameVars, reportVars, Displacing
<1>8. PrivateAt(a)'
  BY <1>0, <1>c DEF Rollback, Unlinked, Failed, Returned, ToolTypes, PrivateInv, PrivateAt, Inode,
     nameVars, Private, Displacing, Locked
<1>p. /\ tpc[a] = "rollback" /\ tpc'[a] = "idle" /\ done' = done /\ undone' = undone \cup {call[a]}
      /\ \/ leaf' = temp[a] /\ kept' = kept \ {call[a]} /\ preserved' = preserved
         \/ leaf' = leaf /\ kept' = kept /\ preserved' = preserved \cup {temp[a]}
  BY <1>0 DEF Rollback, Failed, Returned, ToolTypes
<1>s. /\ temp[a] > 0 /\ temp[a] # made[a] /\ bytes[temp[a]] # {}
      /\ kept \ {call[a]} \subseteq bytes[temp[a]] \cup Recoverable
      /\ call[a] \in kept => call[a] \in Shown
      /\ preserved = {} => bytes[temp[a]] \cap undone = {}
  BY <1>0, <1>p DEF EditAt, Displacing
<1>9. EditAt(a)'
  BY <1>p DEF EditAt, Displacing, Locked
<1>10. OwedKept' /\ FailedIsUndone'
  <2>1. CASE leaf' = temp[a] /\ kept' = kept \ {call[a]} /\ preserved' = preserved
    <3>1. Shown' = bytes[temp[a]] /\ Recoverable' = Recoverable
      BY <1>c, <1>s, <2>1 DEF Shown, Recoverable
    <3>2. call[a] \notin bytes[temp[a]]
      <4>1. temp[a] \in Inode
        BY <1>0, <1>s DEF ToolTypes, Inode
      <4> QED BY <1>0, <1>p, <1>s, <4>1 DEF CallAt
    <3> QED BY <1>p, <1>s, <2>1, <3>1, <3>2 DEF OwedKept, FailedIsUndone
  <2>2. CASE leaf' = leaf /\ kept' = kept /\ preserved' = preserved \cup {temp[a]}
    <3>1. Recoverable' = Recoverable \cup bytes[temp[a]]
      BY <1>c, <2>2 DEF Recoverable
    <3>2. Shown' = Shown
      BY <1>c, <2>2 DEF Shown
    <3> QED BY <1>0, <1>p, <1>s, <2>2, <3>1, <3>2 DEF OwedKept, FailedIsUndone
  <2> QED BY <1>p, <2>1, <2>2
<1>11. CallInv' /\ PrivateInv'
  BY <1>0, <1>5, <1>7, <1>8, CallsStay, PrivatesStay
<1>12. EditInv'
  <2>1. tpc[a] \in Locked
    BY DEF Rollback, Unlinked, Failed, Returned, Locked
  <2> QED BY <1>5, <1>9, <2>1, LockedOthersEdit DEF EditInv
<1> QED BY <1>6, <1>10, <1>11, <1>12 DEF ToolsInv

LEMMA OpenWriteKeeps ==
  ASSUME ToolsInv, NEW a \in Tool, OpenWrite(a)
  PROVE  ToolsInv'
<1>0. /\ ToolTypes /\ CallInv /\ PrivateInv /\ EditInv /\ OwedKept /\ FailedIsUndone
      /\ CallAt(a) /\ PrivateAt(a) /\ EditAt(a)
  BY DEF ToolsInv, CallInv, PrivateInv, EditInv
<1>c. bytes' = bytes /\ Len(bytes) \in Nat /\ bytes \in Seq(SUBSET Nat)
  BY <1>0 DEF OpenWrite, nameVars, ToolTypes, Swapped, At, Called
<1>1. Others(a)
  BY <1>0 DEF OpenWrite, At, Called, ToolTypes, nameVars, Others
<1>2. FilesStep(a)
  BY <1>0, <1>c DEF OpenWrite, At, Called, FilesStep, Inode, Updated, Private
<1>3. NamesStep(a)
  BY <1>0, <1>c DEF OpenWrite, At, Called, NamesStep, ToolTypes, nameVars
<1>4. ReportsStep(a)
  BY <1>0 DEF OpenWrite, At, Called, ReportsStep, ToolTypes, reportVars
<1>5. Moves(a)
  BY <1>1, <1>2, <1>3, <1>4 DEF Moves
<1>6. ToolTypes'
  <2>1. /\ tpc' \in [Tool -> ToolAt] /\ over' \in [Tool -> BOOLEAN]
        /\ data' \in [Tool -> SUBSET Nat] /\ call' \in [Tool -> Nat] /\ calls' \in Nat
    BY <1>0, <1>c DEF OpenWrite, At, Called, ToolTypes, ToolAt, Inode
  <2>2. temp' \in [Tool -> Nat] /\ fd' \in [Tool -> Nat] /\ made' \in [Tool -> Nat]
    BY <1>0, <1>c DEF OpenWrite, At, Called, ToolTypes, nameVars
  <2>3. dirlock' \in Tool \cup {NoTool}
    BY <1>0 DEF OpenWrite, At, Called, ToolTypes
  <2>4. /\ leaf' \in Nat /\ leaf' <= Len(bytes')
        /\ \A b \in Tool :
             temp'[b] <= Len(bytes') /\ fd'[b] <= Len(bytes') /\ made'[b] <= Len(bytes')
    <3>1. \A b \in Tool : /\ temp[b] <= Len(bytes) /\ fd[b] <= Len(bytes) /\ made[b] <= Len(bytes)
                        /\ temp[b] \in Nat /\ fd[b] \in Nat /\ made[b] \in Nat
      BY <1>0 DEF ToolTypes
    <3>2. leaf \in Nat /\ leaf <= Len(bytes) /\ Len(bytes) \in Nat
      BY <1>0, <1>c DEF ToolTypes
    <3>3. Len(bytes') \in Nat /\ Len(bytes) <= Len(bytes')
      BY <1>2 DEF FilesStep
    <3>4. leaf' \in Nat /\ leaf' <= Len(bytes')
      BY <1>3, <3>1, <3>2, <3>3 DEF NamesStep
    <3>5. temp'[a] <= Len(bytes') /\ fd'[a] <= Len(bytes') /\ made'[a] <= Len(bytes')
      BY <1>3, <1>c, <3>1, <3>2, <3>3 DEF NamesStep, OpenWrite, At, Called, nameVars
    <3>6. \A b \in Tool \ {a} : temp'[b] = temp[b] /\ fd'[b] = fd[b] /\ made'[b] = made[b]
      BY <1>1 DEF Others
    <3>7. ASSUME NEW b \in Tool \ {a}
          PROVE  temp'[b] <= Len(bytes') /\ fd'[b] <= Len(bytes') /\ made'[b] <= Len(bytes')
      BY <3>1, <3>2, <3>3, <3>6
    <3> QED BY <3>4, <3>5, <3>7
  <2>5. preserved' \subseteq 1 .. Len(bytes')
    BY <1>0, <1>c DEF OpenWrite, At, Called, ToolTypes, Inode
  <2> QED BY <1>c, <2>1, <2>2, <2>3, <2>4, <2>5 DEF ToolTypes, Inode, nameVars
<1>7. CallAt(a)'
  BY <1>0, <1>c DEF OpenWrite, At, Called, ToolTypes, CallInv, CallAt, Inode, nameVars,
     reportVars, Displacing
<1>8. PrivateAt(a)'
  BY <1>0, <1>c DEF OpenWrite, At, Called, ToolTypes, PrivateInv, PrivateAt, Inode, nameVars,
     Private, Displacing, Locked
<1>9. EditAt(a)'
  BY <1>0, <1>c DEF OpenWrite, At, Called, ToolTypes, PrivateAt, EditAt, Updated, Inode, nameVars,
     Private, Displacing, Locked
<1>10. Quiet(a)
  BY <1>0, <1>c DEF OpenWrite, At, Called, Quiet, Displacing, nameVars, reportVars
<1> QED BY <1>5, <1>6, <1>7, <1>8, <1>9, <1>10, QuietKeeps

LEMMA CreatePayloadKeeps ==
  ASSUME ToolsInv, NEW a \in Tool, CreatePayload(a)
  PROVE  ToolsInv'
<1>0. /\ ToolTypes /\ CallInv /\ PrivateInv /\ EditInv /\ OwedKept /\ FailedIsUndone
      /\ CallAt(a) /\ PrivateAt(a) /\ EditAt(a)
  BY DEF ToolsInv, CallInv, PrivateInv, EditInv
<1>b. Creates(a)
  BY DEF CreatePayload
<1>c. /\ bytes' \in Seq(SUBSET Nat) /\ Len(bytes') = Len(bytes) + 1 /\ Len(bytes) \in Nat
      /\ \A i \in Inode : bytes'[i] = bytes[i]
      /\ bytes'[Len(bytes) + 1] = {}
      /\ made'[a] = Len(bytes) + 1 /\ temp'[a] = Len(bytes) + 1
      /\ made' \in [Tool -> Nat] /\ temp' \in [Tool -> Nat]
  BY <1>0, <1>b, CreatesFacts
<1>1. Others(a)
  BY <1>0 DEF CreatePayload, At, Creates, ToolTypes, nameVars, Others
<1>2. FilesStep(a)
  BY <1>0, <1>c DEF CreatePayload, At, Creates, FilesStep, Inode, Updated, Private
<1>3. NamesStep(a)
  BY <1>0, <1>c DEF CreatePayload, At, Creates, NamesStep, ToolTypes, nameVars
<1>4. ReportsStep(a)
  BY <1>0 DEF CreatePayload, At, Creates, ReportsStep, ToolTypes, reportVars
<1>5. Moves(a)
  BY <1>1, <1>2, <1>3, <1>4 DEF Moves
<1>6. ToolTypes'
  <2>1. /\ tpc' \in [Tool -> ToolAt] /\ over' \in [Tool -> BOOLEAN]
        /\ data' \in [Tool -> SUBSET Nat] /\ call' \in [Tool -> Nat] /\ calls' \in Nat
    BY <1>0, <1>c DEF CreatePayload, At, Creates, ToolTypes, ToolAt, Inode
  <2>2. temp' \in [Tool -> Nat] /\ fd' \in [Tool -> Nat] /\ made' \in [Tool -> Nat]
    BY <1>0, <1>c DEF CreatePayload, At, Creates, ToolTypes, nameVars
  <2>3. dirlock' \in Tool \cup {NoTool}
    BY <1>0 DEF CreatePayload, At, Creates, ToolTypes
  <2>4. /\ leaf' \in Nat /\ leaf' <= Len(bytes')
        /\ \A b \in Tool :
             temp'[b] <= Len(bytes') /\ fd'[b] <= Len(bytes') /\ made'[b] <= Len(bytes')
    <3>1. \A b \in Tool : /\ temp[b] <= Len(bytes) /\ fd[b] <= Len(bytes) /\ made[b] <= Len(bytes)
                        /\ temp[b] \in Nat /\ fd[b] \in Nat /\ made[b] \in Nat
      BY <1>0 DEF ToolTypes
    <3>2. leaf \in Nat /\ leaf <= Len(bytes) /\ Len(bytes) \in Nat
      BY <1>0, <1>c DEF ToolTypes
    <3>3. Len(bytes') \in Nat /\ Len(bytes) <= Len(bytes')
      BY <1>2 DEF FilesStep
    <3>4. leaf' \in Nat /\ leaf' <= Len(bytes')
      BY <1>3, <3>1, <3>2, <3>3 DEF NamesStep
    <3>5. temp'[a] <= Len(bytes') /\ fd'[a] <= Len(bytes') /\ made'[a] <= Len(bytes')
      BY <1>3, <1>c, <3>1, <3>2, <3>3 DEF NamesStep, CreatePayload, At, Creates, nameVars
    <3>6. \A b \in Tool \ {a} : temp'[b] = temp[b] /\ fd'[b] = fd[b] /\ made'[b] = made[b]
      BY <1>1 DEF Others
    <3>7. ASSUME NEW b \in Tool \ {a}
          PROVE  temp'[b] <= Len(bytes') /\ fd'[b] <= Len(bytes') /\ made'[b] <= Len(bytes')
      BY <3>1, <3>2, <3>3, <3>6
    <3> QED BY <3>4, <3>5, <3>7
  <2>5. preserved' \subseteq 1 .. Len(bytes')
    BY <1>0, <1>c DEF CreatePayload, At, Creates, ToolTypes, Inode
  <2> QED BY <1>c, <2>1, <2>2, <2>3, <2>4, <2>5 DEF ToolTypes, Inode
<1>7. CallAt(a)'
  BY <1>0, <1>c DEF CreatePayload, At, Creates, ToolTypes, CallInv, CallAt, Inode, nameVars,
     reportVars, Displacing, PrivateAt, Private
<1>8. PrivateAt(a)'
  BY <1>0, <1>c DEF CreatePayload, At, Creates, ToolTypes, PrivateInv, PrivateAt, Inode, nameVars,
     Private, Displacing, Locked
<1>9. EditAt(a)'
  BY <1>0, <1>c DEF CreatePayload, At, Creates, ToolTypes, PrivateAt, EditAt, Updated, Inode,
     nameVars, Private, Displacing, Locked
<1>10. Quiet(a)
  BY <1>0, <1>c DEF CreatePayload, At, Creates, Quiet, Displacing, nameVars, reportVars
<1> QED BY <1>5, <1>6, <1>7, <1>8, <1>9, <1>10, QuietKeeps

LEMMA FillPayloadKeeps ==
  ASSUME ToolsInv, NEW a \in Tool, FillPayload(a)
  PROVE  ToolsInv'
<1>0. /\ ToolTypes /\ CallInv /\ PrivateInv /\ EditInv /\ OwedKept /\ FailedIsUndone
      /\ CallAt(a) /\ PrivateAt(a) /\ EditAt(a)
  BY DEF ToolsInv, CallInv, PrivateInv, EditInv
<1>b. made[a] \in Inode /\ {call[a]} \in SUBSET Nat
  BY <1>0 DEF FillPayload, At, ToolTypes, PrivateInv, PrivateAt, Private, Updated, Inode
<1>c. /\ bytes' \in Seq(SUBSET Nat) /\ Len(bytes') = Len(bytes) /\ Len(bytes) \in Nat
      /\ bytes'[made[a]] = {call[a]} /\ \A i \in Inode \ {made[a]} : bytes'[i] = bytes[i]
  BY <1>0, <1>b, FillFacts DEF FillPayload
<1>1. Others(a)
  BY <1>0 DEF FillPayload, At, ToolTypes, nameVars, Others
<1>2. FilesStep(a)
  BY <1>0, <1>c DEF FillPayload, At, FilesStep, Inode, Updated, Private
<1>3. NamesStep(a)
  BY <1>0, <1>c DEF FillPayload, At, NamesStep, ToolTypes, nameVars
<1>4. ReportsStep(a)
  BY <1>0 DEF FillPayload, At, ReportsStep, ToolTypes, reportVars
<1>5. Moves(a)
  BY <1>1, <1>2, <1>3, <1>4 DEF Moves
<1>6. ToolTypes'
  <2>1. /\ tpc' \in [Tool -> ToolAt] /\ over' \in [Tool -> BOOLEAN]
        /\ data' \in [Tool -> SUBSET Nat] /\ call' \in [Tool -> Nat] /\ calls' \in Nat
    BY <1>0, <1>c DEF FillPayload, At, ToolTypes, ToolAt, Inode
  <2>2. temp' \in [Tool -> Nat] /\ fd' \in [Tool -> Nat] /\ made' \in [Tool -> Nat]
    BY <1>0, <1>c DEF FillPayload, At, ToolTypes, nameVars
  <2>3. dirlock' \in Tool \cup {NoTool}
    BY <1>0 DEF FillPayload, At, ToolTypes
  <2>4. /\ leaf' \in Nat /\ leaf' <= Len(bytes')
        /\ \A b \in Tool :
             temp'[b] <= Len(bytes') /\ fd'[b] <= Len(bytes') /\ made'[b] <= Len(bytes')
    <3>1. \A b \in Tool : /\ temp[b] <= Len(bytes) /\ fd[b] <= Len(bytes) /\ made[b] <= Len(bytes)
                        /\ temp[b] \in Nat /\ fd[b] \in Nat /\ made[b] \in Nat
      BY <1>0 DEF ToolTypes
    <3>2. leaf \in Nat /\ leaf <= Len(bytes) /\ Len(bytes) \in Nat
      BY <1>0, <1>c DEF ToolTypes
    <3>3. Len(bytes') \in Nat /\ Len(bytes) <= Len(bytes')
      BY <1>2 DEF FilesStep
    <3>4. leaf' \in Nat /\ leaf' <= Len(bytes')
      BY <1>3, <3>1, <3>2, <3>3 DEF NamesStep
    <3>5. temp'[a] <= Len(bytes') /\ fd'[a] <= Len(bytes') /\ made'[a] <= Len(bytes')
      BY <1>3, <1>c, <3>1, <3>2, <3>3 DEF NamesStep, FillPayload, At, nameVars
    <3>6. \A b \in Tool \ {a} : temp'[b] = temp[b] /\ fd'[b] = fd[b] /\ made'[b] = made[b]
      BY <1>1 DEF Others
    <3>7. ASSUME NEW b \in Tool \ {a}
          PROVE  temp'[b] <= Len(bytes') /\ fd'[b] <= Len(bytes') /\ made'[b] <= Len(bytes')
      BY <3>1, <3>2, <3>3, <3>6
    <3> QED BY <3>4, <3>5, <3>7
  <2>5. preserved' \subseteq 1 .. Len(bytes')
    BY <1>0, <1>c DEF FillPayload, At, ToolTypes, Inode
  <2> QED BY <1>c, <2>1, <2>2, <2>3, <2>4, <2>5 DEF ToolTypes, Inode
<1>7. CallAt(a)'
  BY <1>0, <1>c DEF FillPayload, At, ToolTypes, CallInv, CallAt, Inode, nameVars, reportVars,
     Displacing
<1>8. PrivateAt(a)'
  BY <1>0, <1>c DEF FillPayload, At, ToolTypes, PrivateInv, PrivateAt, Inode, nameVars, Private,
     Displacing, Locked
<1>9. EditAt(a)'
  BY <1>0, <1>c DEF FillPayload, At, ToolTypes, PrivateAt, EditAt, Updated, Inode, nameVars,
     Private, Displacing, Locked
<1>10. Quiet(a)
  BY <1>0, <1>c DEF FillPayload, At, Quiet, Displacing, nameVars, reportVars
<1> QED BY <1>5, <1>6, <1>7, <1>8, <1>9, <1>10, QuietKeeps

LEMMA PublishFileKeeps ==
  ASSUME ToolsInv, NEW a \in Tool, PublishFile(a)
  PROVE  ToolsInv'
<1>0. /\ ToolTypes /\ CallInv /\ PrivateInv /\ EditInv /\ OwedKept /\ FailedIsUndone
      /\ CallAt(a) /\ PrivateAt(a) /\ EditAt(a)
  BY DEF ToolsInv, CallInv, PrivateInv, EditInv
<1>c. bytes' = bytes /\ Len(bytes) \in Nat /\ bytes \in Seq(SUBSET Nat)
  BY <1>0 DEF PublishFile, nameVars, ToolTypes, Swapped, At, Unlinked
<1>1. Others(a)
  BY <1>0 DEF PublishFile, At, Unlinked, ToolTypes, nameVars, Others
<1>2. FilesStep(a)
  BY <1>0, <1>c DEF PublishFile, At, Unlinked, FilesStep, Inode, Updated, Private
<1>3. NamesStep(a)
  BY <1>0, <1>c DEF PublishFile, At, Unlinked, NamesStep, ToolTypes, nameVars
<1>4. ReportsStep(a)
  BY <1>0 DEF PublishFile, At, Unlinked, ReportsStep, ToolTypes, reportVars
<1>5. Moves(a)
  BY <1>1, <1>2, <1>3, <1>4 DEF Moves
<1>6. ToolTypes'
  <2>1. /\ tpc' \in [Tool -> ToolAt] /\ over' \in [Tool -> BOOLEAN]
        /\ data' \in [Tool -> SUBSET Nat] /\ call' \in [Tool -> Nat] /\ calls' \in Nat
    BY <1>0, <1>c DEF PublishFile, At, Unlinked, ToolTypes, ToolAt, Inode
  <2>2. temp' \in [Tool -> Nat] /\ fd' \in [Tool -> Nat] /\ made' \in [Tool -> Nat]
    BY <1>0, <1>c DEF PublishFile, At, Unlinked, ToolTypes, nameVars
  <2>3. dirlock' \in Tool \cup {NoTool}
    BY <1>0 DEF PublishFile, At, Unlinked, ToolTypes
  <2>4. /\ leaf' \in Nat /\ leaf' <= Len(bytes')
        /\ \A b \in Tool :
             temp'[b] <= Len(bytes') /\ fd'[b] <= Len(bytes') /\ made'[b] <= Len(bytes')
    <3>1. \A b \in Tool : /\ temp[b] <= Len(bytes) /\ fd[b] <= Len(bytes) /\ made[b] <= Len(bytes)
                        /\ temp[b] \in Nat /\ fd[b] \in Nat /\ made[b] \in Nat
      BY <1>0 DEF ToolTypes
    <3>2. leaf \in Nat /\ leaf <= Len(bytes) /\ Len(bytes) \in Nat
      BY <1>0, <1>c DEF ToolTypes
    <3>3. Len(bytes') \in Nat /\ Len(bytes) <= Len(bytes')
      BY <1>2 DEF FilesStep
    <3>4. leaf' \in Nat /\ leaf' <= Len(bytes')
      BY <1>3, <3>1, <3>2, <3>3 DEF NamesStep
    <3>5. temp'[a] <= Len(bytes') /\ fd'[a] <= Len(bytes') /\ made'[a] <= Len(bytes')
      BY <1>3, <1>c, <3>1, <3>2, <3>3 DEF NamesStep, PublishFile, At, Unlinked, nameVars
    <3>6. \A b \in Tool \ {a} : temp'[b] = temp[b] /\ fd'[b] = fd[b] /\ made'[b] = made[b]
      BY <1>1 DEF Others
    <3>7. ASSUME NEW b \in Tool \ {a}
          PROVE  temp'[b] <= Len(bytes') /\ fd'[b] <= Len(bytes') /\ made'[b] <= Len(bytes')
      BY <3>1, <3>2, <3>3, <3>6
    <3> QED BY <3>4, <3>5, <3>7
  <2>5. preserved' \subseteq 1 .. Len(bytes')
    BY <1>0, <1>c DEF PublishFile, At, Unlinked, ToolTypes, Inode
  <2> QED BY <1>c, <2>1, <2>2, <2>3, <2>4, <2>5 DEF ToolTypes, Inode, nameVars
<1>7. CallAt(a)'
  BY <1>0, <1>c DEF PublishFile, At, Unlinked, ToolTypes, CallInv, CallAt, Inode, nameVars,
     reportVars, Displacing
<1>8. PrivateAt(a)'
  BY <1>0, <1>c DEF PublishFile, At, Unlinked, ToolTypes, PrivateInv, PrivateAt, Inode, nameVars,
     Private, Displacing, Locked
<1>9. EditAt(a)'
  BY <1>0, <1>c DEF PublishFile, At, Unlinked, ToolTypes, PrivateAt, EditAt, Updated, Inode,
     nameVars, Private, Displacing, Locked
<1>10. Quiet(a)
  BY <1>0, <1>c DEF PublishFile, At, Unlinked, Quiet, Displaced, Displacing, nameVars,
     reportVars
<1> QED BY <1>5, <1>6, <1>7, <1>8, <1>9, <1>10, QuietKeeps

LEMMA CheckPublishedKeeps ==
  ASSUME ToolsInv, NEW a \in Tool, CheckPublished(a)
  PROVE  ToolsInv'
<1>0. /\ ToolTypes /\ CallInv /\ PrivateInv /\ EditInv /\ OwedKept /\ FailedIsUndone
      /\ CallAt(a) /\ PrivateAt(a) /\ EditAt(a)
  BY DEF ToolsInv, CallInv, PrivateInv, EditInv
<1>c. bytes' = bytes /\ Len(bytes) \in Nat /\ bytes \in Seq(SUBSET Nat)
  BY <1>0 DEF CheckPublished, nameVars, ToolTypes, Swapped, Succeeds, Returned
<1>d. /\ tpc[a] = "check" /\ Returned(a) /\ UNCHANGED nameVars
      /\ kept' = kept /\ preserved' = preserved /\ undone' = undone
  BY DEF CheckPublished, Succeeds, reportVars
<1>1. Others(a)
  BY <1>0 DEF CheckPublished, Succeeds, Returned, ToolTypes, nameVars, Others
<1>2. FilesStep(a)
  BY <1>0, <1>c DEF CheckPublished, Succeeds, Returned, FilesStep, Inode, Updated, Private
<1>3. NamesStep(a)
  BY <1>0, <1>c DEF CheckPublished, Succeeds, Returned, NamesStep, ToolTypes, nameVars
<1>4. ReportsStep(a)
  BY <1>0 DEF CheckPublished, Succeeds, Returned, ReportsStep, ToolTypes, reportVars
<1>5. Moves(a)
  BY <1>1, <1>2, <1>3, <1>4 DEF Moves
<1>6. ToolTypes'
  <2>1. /\ tpc' \in [Tool -> ToolAt] /\ over' \in [Tool -> BOOLEAN]
        /\ data' \in [Tool -> SUBSET Nat] /\ call' \in [Tool -> Nat] /\ calls' \in Nat
    BY <1>0, <1>c, <1>d DEF Returned, ToolTypes, ToolAt, Inode
  <2>2. temp' \in [Tool -> Nat] /\ fd' \in [Tool -> Nat] /\ made' \in [Tool -> Nat]
    BY <1>0, <1>c, <1>d DEF Returned, ToolTypes, nameVars
  <2>3. dirlock' \in Tool \cup {NoTool}
    BY <1>0 DEF CheckPublished, Succeeds, Returned, ToolTypes
  <2>4. /\ leaf' \in Nat /\ leaf' <= Len(bytes')
        /\ \A b \in Tool :
             temp'[b] <= Len(bytes') /\ fd'[b] <= Len(bytes') /\ made'[b] <= Len(bytes')
    <3>1. \A b \in Tool : /\ temp[b] <= Len(bytes) /\ fd[b] <= Len(bytes) /\ made[b] <= Len(bytes)
                        /\ temp[b] \in Nat /\ fd[b] \in Nat /\ made[b] \in Nat
      BY <1>0 DEF ToolTypes
    <3>2. leaf \in Nat /\ leaf <= Len(bytes) /\ Len(bytes) \in Nat
      BY <1>0, <1>c DEF ToolTypes
    <3>3. Len(bytes') \in Nat /\ Len(bytes) <= Len(bytes')
      BY <1>2 DEF FilesStep
    <3>4. leaf' \in Nat /\ leaf' <= Len(bytes')
      BY <1>3, <3>1, <3>2, <3>3 DEF NamesStep
    <3>5. temp'[a] <= Len(bytes') /\ fd'[a] <= Len(bytes') /\ made'[a] <= Len(bytes')
      <4>1. temp'[a] = temp[a] /\ fd'[a] = 0 /\ made'[a] = 0
        BY <1>0, <1>d DEF Returned, nameVars, ToolTypes
      <4> QED BY <1>c, <3>1, <3>2, <4>1
    <3>6. \A b \in Tool \ {a} : temp'[b] = temp[b] /\ fd'[b] = fd[b] /\ made'[b] = made[b]
      BY <1>1 DEF Others
    <3>7. ASSUME NEW b \in Tool \ {a}
          PROVE  temp'[b] <= Len(bytes') /\ fd'[b] <= Len(bytes') /\ made'[b] <= Len(bytes')
      BY <3>1, <3>2, <3>3, <3>6
    <3> QED BY <3>4, <3>5, <3>7
  <2>5. preserved' \subseteq 1 .. Len(bytes')
    BY <1>0, <1>c DEF CheckPublished, Succeeds, Returned, ToolTypes, Inode
  <2> QED BY <1>c, <2>1, <2>2, <2>3, <2>4, <2>5 DEF ToolTypes, Inode, nameVars
<1>7. CallAt(a)'
  BY <1>0, <1>c DEF CheckPublished, Succeeds, Returned, ToolTypes, CallInv, CallAt, Inode,
     nameVars, reportVars, Displacing
<1>8. PrivateAt(a)'
  BY <1>0, <1>c DEF CheckPublished, Succeeds, Returned, ToolTypes, PrivateInv, PrivateAt, Inode,
     nameVars, Private, Displacing, Locked
<1>9. EditAt(a)'
  BY <1>0, <1>c DEF CheckPublished, Succeeds, Returned, ToolTypes, PrivateAt, EditAt, Updated,
     Inode, nameVars, Private, Displacing, Locked
<1>10. Quiet(a)
  BY <1>0, <1>d DEF Returned, Quiet, Displacing, nameVars, ToolTypes
<1> QED BY <1>5, <1>6, <1>7, <1>8, <1>9, <1>10, QuietKeeps

LEMMA ToolsBegins ==
  ASSUME ToolsInit
  PROVE  ToolsInv
<1>0. bytes = <<{0}>> /\ Len(bytes) = 1 /\ bytes[1] = {0} /\ bytes \in Seq(SUBSET Nat)
  BY DEF ToolsInit
<1>1. ToolTypes
  BY <1>0, ToolsAssumption DEF ToolsInit, ToolTypes, ToolAt, Inode
<1>2. CallInv
  BY <1>0 DEF ToolsInit, CallInv, CallAt, Inode
<1>3. PrivateInv
  BY DEF ToolsInit, PrivateInv, PrivateAt, Locked, Private, Displacing
<1>4. EditInv
  BY DEF ToolsInit, EditInv, EditAt, Locked, Displacing
<1>5. OwedKept /\ FailedIsUndone
  BY <1>0 DEF ToolsInit, OwedKept, FailedIsUndone, Shown
<1> QED BY <1>1, <1>2, <1>3, <1>4, <1>5 DEF ToolsInv

LEMMA ToolsStutters ==
  ASSUME ToolsInv, UNCHANGED toolsVars
  PROVE  ToolsInv'
<1>1. /\ ToolTypes' = ToolTypes /\ PrivateInv' = PrivateInv /\ CallInv' = CallInv
  BY DEF toolsVars, nameVars, reportVars, ToolTypes, PrivateInv, PrivateAt, CallInv, CallAt, Inode
<1>2. EditInv' = EditInv
  BY DEF toolsVars, nameVars, reportVars, EditInv, EditAt, Recoverable, Shown, Updated
<1>3. OwedKept' = OwedKept /\ FailedIsUndone' = FailedIsUndone
  BY DEF toolsVars, nameVars, reportVars, OwedKept, FailedIsUndone, InDoubt, Recoverable, Shown
<1> QED BY <1>1, <1>2, <1>3 DEF ToolsInv

LEMMA ToolsKeeps ==
  ASSUME ToolsInv, [ToolsNext]_toolsVars
  PROVE  ToolsInv'
<1>1. CASE UNCHANGED toolsVars
  BY <1>1, ToolsStutters
<1>2. CASE ToolsNext
  BY <1>2, GivesUpKeeps, OpenEditKeeps, LockParentKeeps, ReadTargetKeeps, CreateTempKeeps,
     FillTempKeeps, SwapInKeeps, VerifyKeeps, CommitEditKeeps, RollbackKeeps,
     OpenWriteKeeps, CreatePayloadKeeps, FillPayloadKeeps, PublishFileKeeps, CheckPublishedKeeps
     DEF ToolsNext
<1> QED BY <1>1, <1>2

(* The file tools report the truth, whatever other calls and programs do   *)
(* to the file in between: an edit or a write that was reported as done is *)
(* in the target until a later write replaces it, or in an original that a *)
(* failed rollback preserved (of a write that lands while an edit is       *)
(* displaced nothing is claimed), and a call that was reported as failed   *)
(* has left nothing of its own in the target (q27_agent_tools.c).          *)
THEOREM ToolReportsTrue == ToolsSpec => []ReportsTrue
<1>1. ToolsInit => ToolsInv
  BY ToolsBegins
<1>2. ToolsInv /\ [ToolsNext]_toolsVars => ToolsInv'
  BY ToolsKeeps
<1>3. ToolsInv => ReportsTrue
  BY DEF ToolsInv, ReportsTrue, OwedKept, WorkKept
<1> QED BY <1>1, <1>2, <1>3, PTL DEF ToolsSpec
=============================================================================
