-------------------------- MODULE PrefixTiersProofs --------------------------
(***************************************************************************)
(* The prefix tiers of the CUDA server, for every number of engines,       *)
(* blobs, entries, requests and crashes, and with prefixes that engines    *)
(* share: a restore imports the state of its own prompt, an indexed file   *)
(* is whole, nothing is left behind and a blob holds what it is published  *)
(* under, as long as no two writer threads are at one file name at once    *)
(* (WritersApart) and no two prefixes of different engines have one key    *)
(* (KeysApart).  Without the first none of this holds: the run             *)
(* prefix_shared_write shows two engines that write through one temporary  *)
(* name.                                                                   *)
(*                                                                         *)
(* The last sections are about what each engine keeps on the device        *)
(* (module EnginePrefix): its rows, its snapshot and its checkpoints.      *)
(***************************************************************************)
EXTENDS PrefixTiers, EnginePrefix, FiniteSetTheorems, SequenceTheorems, WellFoundedInduction, TLAPS

-----------------------------------------------------------------------------
(* The inductive invariant *)

NameAt(w) == NameOf(wtoks[w])

(* File i is a whole entry of p. *)
Entry(i, p) == Len(data[i]) = Parts /\ \A j \in 1 .. Parts : data[i][j] = p

(* A writer has its temporary file for itself, and what it has written of  *)
(* it is its prefix; while it is at it nobody can look the name up.        *)
WriterAt(w) ==
  /\ wpc[w] # "idle" => wtoks[w] \in Persisted(w)
  /\ wpc[w] # "write" => wfd[w] = Nothing
  /\ wpc[w] # "unlink" => doomed[w] = {}
  /\ wpc[w] = "write" =>
       /\ wfd[w] = tmp[NameAt(w)] /\ wfd[w] # Nothing
       /\ Len(data[wfd[w]]) = woff[w]
       /\ \A j \in 1 .. woff[w] : data[wfd[w]][j] = wtoks[w]
  /\ wpc[w] = "rename" =>
       /\ tmp[NameAt(w)] # Nothing
       /\ synced[tmp[NameAt(w)]] /\ Entry(tmp[NameAt(w)], wtoks[w])
  /\ wpc[w] \in {"open", "write", "rename"} => NameAt(w) \notin index \cup cands[w]

TmpOwned ==
  \A n \in Name : tmp[n] # Nothing =>
    \E w \in Engine : wpc[w] \in {"write", "rename", "fail"} /\ NameAt(w) = n

FinalWhole ==
  \A n \in Name : final[n] # Nothing =>
    /\ synced[final[n]]
    /\ \E e \in Engine : \E p \in Persisted(e) : NameOf(p) = n /\ Entry(final[n], p)

(* No file has two names. *)
LinkedOnce ==
  \A n, m \in Name :
    /\ tmp[n] # Nothing => tmp[n] # final[m] /\ (n # m => tmp[n] # tmp[m])
    /\ final[n] # Nothing /\ n # m => final[n] # final[m]

FinalKept ==
  \A n \in Name : final[n] # Nothing =>
    \/ n \in index
    \/ \E w \in Engine : n \in doomed[w]
    \/ \E w \in Engine : wpc[w] = "index" /\ NameAt(w) = n

FileInv == (\A w \in Engine : WriterAt(w)) /\ TmpOwned /\ FinalWhole /\ LinkedOnce /\ FinalKept

(* The entry an engine has verified and not yet read is the one it         *)
(* verified, if it is still there.                                         *)
Verified(e) ==
  LET n == Longest(cands[e])
      p == Cut(req[e], n[2])
  IN /\ cands[e] # {} /\ n \in cands[e]
     /\ NameOf(p) = n /\ \E f \in Engine : p \in Persisted(f)
     /\ final[n] # Nothing => Entry(final[n], p)

EngineAt(e) ==
  /\ epc[e] # "idle" => req[e] \in Conv[e]
  /\ epc[e] \notin {"verify", "acquire", "read"} => cands[e] = {}
  /\ \A n \in cands[e] : n[2] < Len(req[e].toks)
  /\ epc[e] \in {"acquire", "read"} => Verified(e)
  /\ slot[e] # NoBlob => epc[e] = "read"
  /\ ramHit[e] # NoBlob => epc[e] = "import"
  /\ epc[e] = "import" => ImportedFrom(e) = Cut(req[e], base[e])

(* Whose memory the writer thread streams. *)
Buffer(w) == IF wslot[w] # NoBlob THEN mem[wslot[w]] ELSE wstage[w]

(* A blob in flight is nobody else's, and a held one keeps its contents. *)
BlobInv ==
  /\ \A b \in Blob : toks[b] # <<>> => mem[b] = toks[b]
  /\ \A e \in Engine : slot[e] # NoBlob =>
       /\ toks[slot[e]] = <<>>
       /\ \A f \in Engine : slot[e] # ramHit[f] /\ slot[e] # wslot[f] /\ (f # e => slot[e] # slot[f])
  /\ \A w \in Engine :
       /\ wslot[w] # NoBlob => wpc[w] # "idle"
       /\ wpc[w] # "idle" => Buffer(w) = wtoks[w]

TiersInv == TypeOK /\ FileInv /\ (\A e \in Engine : EngineAt(e)) /\ BlobInv

-----------------------------------------------------------------------------
(* Least elements, and induction, over sets of naturals *)

LEMMA LeastNatural ==
  ASSUME NEW T \in SUBSET Nat, T # {}
  PROVE  \E n \in T : \A k \in T : n <= k
<1>1. PICK n \in T : \A k \in T : ~ (<<k, n>> \in OpToRel(<, Nat))
  BY NatLessThanWellFounded, WFMin
<1>2. \A k \in T : ~ (k < n)
  BY <1>1 DEF OpToRel
<1> QED BY <1>2

LEMMA SetInduction ==
  ASSUME NEW T \in SUBSET Nat, 0 \in T, \A n \in T : n + 1 \in T
  PROVE  \A n \in Nat : n \in T
<1> SUFFICES ASSUME NEW m \in Nat, m \notin T PROVE FALSE
  OBVIOUS
<1> DEFINE U == Nat \ T
<1>1. PICK n \in U : \A k \in U : n <= k
  BY LeastNatural
<1>2. n \in Nat /\ n # 0 /\ n \notin T
  BY <1>1
<1>3. n - 1 \in Nat /\ n - 1 \notin U
  BY <1>1, <1>2
<1>4. (n - 1) + 1 \in T
  BY <1>3
<1> QED BY <1>2, <1>4

LEMMA MinIsMember ==
  ASSUME NEW T \in SUBSET Nat, T # {}
  PROVE  Min(T) \in T
  BY LeastNatural DEF Min

(* A set of naturals below a bound has a largest element. *)
LEMMA LargestNatural ==
  ASSUME NEW B \in Nat, NEW T \in SUBSET (0 .. B), T # {}
  PROVE  \E n \in T : \A k \in T : k <= n
<1> DEFINE U == {x \in Nat : B - x \in T}
<1>1. U # {}
  <2>1. PICK k \in T : TRUE
    OBVIOUS
  <2>2. B - k \in Nat /\ B - (B - k) = k
    BY <2>1
  <2> QED BY <2>1, <2>2
<1>2. PICK x \in U : \A y \in U : x <= y
  BY <1>1, LeastNatural
<1>3. B - x \in T /\ x \in Nat
  BY <1>2
<1>4. ASSUME NEW k \in T PROVE k <= B - x
  <2>1. B - k \in Nat /\ B - (B - k) = k
    OBVIOUS
  <2>2. B - k \in U
    BY <2>1
  <2>3. x <= B - k
    BY <1>2, <2>2
  <2> QED BY <1>3, <2>1, <2>3
<1> QED BY <1>3, <1>4

-----------------------------------------------------------------------------
(* Erasing from lru_ *)

(* The functions that Without is defined by. *)
KeptIs(f, l, gone, n) ==
  f = [i \in 0 .. n |->
         IF i = 0 THEN <<>>
         ELSE IF l[i] \in gone THEN f[i - 1] ELSE Append(f[i - 1], l[i])]

LEMMA KeptExists ==
  ASSUME NEW l, NEW gone
  PROVE  \A n \in Nat : \E f : KeptIs(f, l, gone, n)
<1> DEFINE T == {n \in Nat : \E f : KeptIs(f, l, gone, n)}
<1>1. 0 \in T
  <2> DEFINE f == [i \in 0 .. 0 |-> <<>>]
  <2>1. KeptIs(f, l, gone, 0)
    BY DEF KeptIs
  <2> QED BY <2>1
<1>2. ASSUME NEW n \in T PROVE n + 1 \in T
  <2>1. PICK f : KeptIs(f, l, gone, n)
    OBVIOUS
  <2> DEFINE x == IF l[n + 1] \in gone THEN f[n] ELSE Append(f[n], l[n + 1])
             g == [i \in 0 .. n + 1 |-> IF i = n + 1 THEN x ELSE f[i]]
  <2>2. n \in Nat
    OBVIOUS
  <2>3. \A i \in 0 .. n : g[i] = f[i]
    BY <2>2
  <2>4. \A i \in 0 .. n : f[i] = IF i = 0 THEN <<>>
                          ELSE IF l[i] \in gone THEN f[i - 1] ELSE Append(f[i - 1], l[i])
    BY <2>1 DEF KeptIs
  <2>5. ASSUME NEW i \in 0 .. n + 1
        PROVE  g[i] = IF i = 0 THEN <<>>
                      ELSE IF l[i] \in gone THEN g[i - 1] ELSE Append(g[i - 1], l[i])
    <3>1. CASE i = n + 1
      <4>1. g[i] = x /\ i # 0 /\ i - 1 = n
        BY <2>2, <3>1
      <4>2. g[i - 1] = f[n]
        BY <2>2, <2>3, <4>1
      <4> QED BY <3>1, <4>1, <4>2
    <3>2. CASE i # n + 1
      <4>1. i \in 0 .. n /\ (i # 0 => i - 1 \in 0 .. n)
        BY <2>2, <3>2
      <4>2. g[i] = f[i] /\ (i # 0 => g[i - 1] = f[i - 1])
        BY <2>3, <4>1
      <4> HIDE DEF g, x
      <4> QED BY <2>4, <4>1, <4>2
    <3> QED BY <3>1, <3>2
  <2>6. g = [i \in 0 .. n + 1 |-> g[i]]
    OBVIOUS
  <2> HIDE DEF g
  <2>7. KeptIs(g, l, gone, n + 1)
    BY <2>5, <2>6 DEF KeptIs
  <2> QED BY <2>2, <2>7
<1> HIDE DEF T
<1>3. \A n \in Nat : n \in T
  BY <1>1, <1>2, SetInduction DEF T
<1> QED BY <1>3 DEF T

LEMMA WithoutIs ==
  ASSUME NEW l, NEW gone, Len(l) \in Nat
  PROVE  \E f : KeptIs(f, l, gone, Len(l)) /\ Without(l, gone) = f[Len(l)]
<1> DEFINE f == CHOOSE f : KeptIs(f, l, gone, Len(l))
<1>1. KeptIs(f, l, gone, Len(l))
  <2>1. \E g : KeptIs(g, l, gone, Len(l))
    BY KeptExists
  <2> QED BY <2>1
<1>2. Without(l, gone) = f[Len(l)]
  BY DEF Without, KeptIs
<1> QED BY <1>1, <1>2

(* Erasing keeps a sequence, adds nothing, removes what it should, and     *)
(* makes nothing appear twice.                                             *)
LEMMA WithoutKeeps ==
  ASSUME NEW S, NEW l \in Seq(S), NEW gone
  PROVE  /\ Without(l, gone) \in Seq(S)
         /\ \A j \in 1 .. Len(Without(l, gone)) :
              \E k \in 1 .. Len(l) : Without(l, gone)[j] = l[k] /\ l[k] \notin gone
         /\ IsInjective(l) => IsInjective(Without(l, gone))
<1>1. Len(l) \in Nat /\ DOMAIN l = 1 .. Len(l) /\ \A k \in 1 .. Len(l) : l[k] \in S
  OBVIOUS
<1>2. PICK f : KeptIs(f, l, gone, Len(l)) /\ Without(l, gone) = f[Len(l)]
  BY <1>1, WithoutIs
<1> DEFINE From(s, i) == \A j \in 1 .. Len(s) : \E k \in 1 .. i : s[j] = l[k] /\ l[k] \notin gone
           Once(s) == \A a, b \in 1 .. Len(s) : s[a] = s[b] => a = b
           Good(i) == f[i] \in Seq(S) /\ From(f[i], i) /\ (Once(l) => Once(f[i]))
           T == {i \in Nat : i <= Len(l) => Good(i)}
<1>3. 0 \in T
  <2>1. f[0] = <<>>
    BY <1>1, <1>2 DEF KeptIs
  <2>2. f[0] \in Seq(S) /\ Len(f[0]) = 0
    BY <2>1
  <2>3. 1 .. Len(f[0]) = {}
    BY <2>2
  <2>4. Good(0)
    BY <2>2, <2>3
  <2> HIDE DEF Good
  <2> QED BY <2>4
<1>4. ASSUME NEW i \in T PROVE i + 1 \in T
  <2> HIDE DEF Good
  <2> SUFFICES ASSUME i + 1 <= Len(l) PROVE Good(i + 1)
    BY <1>1
  <2>1. i \in Nat /\ i + 1 \in 1 .. Len(l) /\ l[i + 1] \in S /\ Good(i)
    BY <1>1
  <2> USE DEF Good
  <2>2. f[i + 1] = IF l[i + 1] \in gone THEN f[i] ELSE Append(f[i], l[i + 1])
    <3>1. i + 1 \in 0 .. Len(l) /\ i + 1 # 0 /\ (i + 1) - 1 = i
      BY <2>1
    <3> QED BY <1>2, <3>1 DEF KeptIs
  <2>3. CASE l[i + 1] \in gone
    <3>1. f[i + 1] = f[i]
      BY <2>2, <2>3
    <3>2. From(f[i], i + 1)
      <4> SUFFICES ASSUME NEW j \in 1 .. Len(f[i])
                   PROVE  \E k \in 1 .. i + 1 : f[i][j] = l[k] /\ l[k] \notin gone
        OBVIOUS
      <4>1. PICK k \in 1 .. i : f[i][j] = l[k] /\ l[k] \notin gone
        BY <2>1
      <4>2. k \in 1 .. i + 1
        BY <2>1, <4>1
      <4> QED BY <4>1, <4>2
    <3> QED BY <2>1, <3>1, <3>2
  <2>4. CASE l[i + 1] \notin gone
    <3> DEFINE s == f[i]
               t == f[i + 1]
    <3>1. t = Append(s, l[i + 1]) /\ s \in Seq(S)
      BY <2>1, <2>2, <2>4
    <3>2. /\ t \in Seq(S) /\ Len(s) \in Nat /\ Len(t) = Len(s) + 1
          /\ t[Len(s) + 1] = l[i + 1]
          /\ \A j \in 1 .. Len(s) : t[j] = s[j]
      BY <2>1, <3>1
    <3>3. From(s, i) /\ (Once(l) => Once(s))
      BY <2>1
    <3> HIDE DEF s, t
    <3>4. From(t, i + 1)
      <4> SUFFICES ASSUME NEW j \in 1 .. Len(t)
                   PROVE  \E k \in 1 .. i + 1 : t[j] = l[k] /\ l[k] \notin gone
        OBVIOUS
      <4>1. CASE j = Len(s) + 1
        BY <2>1, <2>4, <3>2, <4>1
      <4>2. CASE j \in 1 .. Len(s)
        <5>1. PICK k \in 1 .. i : s[j] = l[k] /\ l[k] \notin gone
          BY <3>3, <4>2
        <5>2. k \in 1 .. i + 1 /\ t[j] = s[j]
          BY <2>1, <3>2, <4>2, <5>1
        <5> QED BY <5>1, <5>2
      <4> QED BY <3>2, <4>1, <4>2
    <3>5. ASSUME Once(l) PROVE Once(t)
      <4>1. \A j \in 1 .. Len(s) : s[j] # l[i + 1]
        <5> SUFFICES ASSUME NEW j \in 1 .. Len(s) PROVE s[j] # l[i + 1]
          OBVIOUS
        <5>1. PICK k \in 1 .. i : s[j] = l[k]
          BY <3>3
        <5>2. k \in 1 .. Len(l) /\ k # i + 1
          BY <1>1, <2>1, <5>1
        <5>3. l[k] # l[i + 1]
          BY <2>1, <3>5, <5>2
        <5> QED BY <5>1, <5>3
      <4>2. Once(s)
        BY <3>3, <3>5
      <4> SUFFICES ASSUME NEW a \in 1 .. Len(t), NEW b \in 1 .. Len(t), t[a] = t[b]
                   PROVE  a = b
        OBVIOUS
      <4>3. \A c \in 1 .. Len(t) : c \in 1 .. Len(s) \/ c = Len(s) + 1
        BY <3>2
      <4>4. CASE a \in 1 .. Len(s) /\ b \in 1 .. Len(s)
        BY <3>2, <4>2, <4>4
      <4>5. CASE a = Len(s) + 1 \/ b = Len(s) + 1
        BY <3>2, <4>1, <4>3, <4>5
      <4> QED BY <4>3, <4>4, <4>5
    <3>6. t \in Seq(S) /\ From(t, i + 1) /\ (Once(l) => Once(t))
      BY <3>2, <3>4, <3>5
    <3> QED BY <3>6 DEF t
  <2> QED BY <2>3, <2>4
<1> HIDE DEF T
<1>5. Len(l) \in T
  <2>1. T \subseteq Nat
    BY DEF T
  <2> QED BY <1>1, <1>3, <1>4, <2>1, SetInduction
<1>6. Good(Len(l))
  BY <1>1, <1>5 DEF T
<1>7. IsInjective(l) => Once(l)
  BY <1>1 DEF IsInjective
<1>8. Once(Without(l, gone)) => IsInjective(Without(l, gone))
  <2>1. DOMAIN Without(l, gone) = 1 .. Len(Without(l, gone))
    BY <1>2, <1>6
  <2> QED BY <2>1 DEF IsInjective
<1>9. /\ Without(l, gone) \in Seq(S) /\ From(Without(l, gone), Len(l))
      /\ Once(l) => Once(Without(l, gone))
  BY <1>2, <1>6
<1> QED BY <1>7, <1>8, <1>9

-----------------------------------------------------------------------------
(* The RAM tier *)

LEMMA AppendOnce ==
  ASSUME NEW S, NEW s \in Seq(S), IsInjective(s), NEW b \in S, \A j \in 1 .. Len(s) : s[j] # b
  PROVE  Append(s, b) \in Seq(S) /\ IsInjective(Append(s, b))
<1> DEFINE t == Append(s, b)
<1>1. /\ t \in Seq(S) /\ Len(s) \in Nat /\ Len(t) = Len(s) + 1 /\ t[Len(s) + 1] = b
      /\ \A j \in 1 .. Len(s) : t[j] = s[j]
      /\ DOMAIN t = 1 .. Len(t) /\ DOMAIN s = 1 .. Len(s)
  OBVIOUS
<1> HIDE DEF t
<1>2. ASSUME NEW x \in 1 .. Len(t), NEW y \in 1 .. Len(t), t[x] = t[y] PROVE x = y
  <2>1. \A c \in 1 .. Len(t) : c \in 1 .. Len(s) \/ c = Len(s) + 1
    BY <1>1
  <2>2. CASE x \in 1 .. Len(s) /\ y \in 1 .. Len(s)
    BY <1>1, <1>2, <2>2 DEF IsInjective
  <2>3. CASE x = Len(s) + 1 \/ y = Len(s) + 1
    BY <1>1, <1>2, <2>1, <2>3
  <2> QED BY <2>1, <2>2, <2>3
<1>3. IsInjective(t)
  BY <1>1, <1>2 DEF IsInjective
<1> QED BY <1>1, <1>3 DEF t

LEMMA TouchedKeeps ==
  ASSUME RamTypeOK, NEW b \in Blob
  PROVE  Touched(b) \in Seq(Blob) /\ IsInjective(Touched(b))
<1> DEFINE s == Without(lru, {b})
<1>1. s \in Seq(Blob) /\ IsInjective(s) /\ \A j \in 1 .. Len(s) : s[j] # b
  BY WithoutKeeps DEF RamTypeOK
<1> QED BY <1>1, AppendOnce DEF Touched

LEMMA PublishedKeeps ==
  ASSUME NEW l \in Seq(Blob), IsInjective(l), NEW t, NEW b \in Blob, NEW p
  PROVE  PublishedLru(l, t, b, p) \in Seq(Blob) /\ IsInjective(PublishedLru(l, t, b, p))
<1> DEFINE K == {x \in Blob : x = b \/ t[x] = p}
           s == Without(l, K)
<1>1. b \in K
  OBVIOUS
<1> HIDE DEF K
<1>2. s \in Seq(Blob) /\ IsInjective(s) /\ \A j \in 1 .. Len(s) : s[j] # b
  BY <1>1, WithoutKeeps
<1>3. PublishedLru(l, t, b, p) = Append(s, b)
  BY DEF PublishedLru, K
<1> HIDE DEF s
<1> QED BY <1>2, <1>3, AppendOnce

LEMMA RemovedKeeps ==
  ASSUME NEW S, NEW l \in Seq(S), IsInjective(l), NEW j \in 1 .. Len(l)
  PROVE  RemoveAt(l, j) \in Seq(S) /\ IsInjective(RemoveAt(l, j))
<1> DEFINE t == RemoveAt(l, j)
           u == SubSeq(l, 1, j - 1)
           v == SubSeq(l, j + 1, Len(l))
<1>1. Len(l) \in Nat /\ j \in Nat /\ j >= 1 /\ j <= Len(l) /\ DOMAIN l = 1 .. Len(l)
  OBVIOUS
<1>2. /\ u \in Seq(S) /\ Len(u) = j - 1
      /\ \A i \in 1 .. j - 1 : u[i] = l[i]
  BY <1>1, SubSeqProperties
<1>3. /\ v \in Seq(S) /\ Len(v) = Len(l) - j
      /\ \A i \in 1 .. Len(l) - j : v[i] = l[j + i]
  <2>1. PICK k \in Int : k = j + 1
    BY <1>1
  <2>2. PICK n \in Nat : n = Len(l)
    BY <1>1
  <2>3. \A i \in k .. n : l[i] \in S
    BY <1>1, <2>1, <2>2
  <2>4. /\ SubSeq(l, k, n) \in Seq(S)
        /\ Len(SubSeq(l, k, n)) = IF k <= n THEN n - k + 1 ELSE 0
        /\ \A i \in 1 .. n - k + 1 : SubSeq(l, k, n)[i] = l[k + i - 1]
    BY <2>3, SubSeqProperties
  <2>5. v = SubSeq(l, k, n)
    BY <2>1, <2>2
  <2> HIDE DEF v
  <2>5a. j <= n /\ j \in Nat
    BY <1>1, <2>2
  <2>6. (IF k <= n THEN n - k + 1 ELSE 0) = n - j /\ n - k + 1 = n - j
    BY <2>1, <2>5a
  <2>7. \A i \in 1 .. n - j : k + i - 1 = j + i
    BY <1>1, <2>1, <2>2
  <2>8. \A i \in 1 .. n - j : v[i] = l[j + i]
    BY <2>4, <2>5, <2>6, <2>7
  <2> QED BY <2>2, <2>4, <2>5, <2>6, <2>8
<1>4. t = u \o v
  BY DEF RemoveAt
<1> HIDE DEF t, u, v
<1>5. /\ t \in Seq(S) /\ Len(t) = Len(u) + Len(v)
      /\ \A i \in 1 .. Len(u) + Len(v) : t[i] = IF i <= Len(u) THEN u[i] ELSE v[i - Len(u)]
  BY <1>2, <1>3, <1>4, ConcatProperties
<1>5a. t \in Seq(S) /\ Len(t) = Len(l) - 1 /\ DOMAIN t = 1 .. Len(t)
  BY <1>1, <1>2, <1>3, <1>5
<1>6. \A i \in 1 .. Len(t) : t[i] = IF i < j THEN l[i] ELSE l[i + 1]
  <2> SUFFICES ASSUME NEW i \in 1 .. Len(t) PROVE t[i] = IF i < j THEN l[i] ELSE l[i + 1]
    OBVIOUS
  <2>1. CASE i < j
    <3>1. i \in 1 .. j - 1 /\ i <= Len(u) /\ i \in 1 .. Len(u) + Len(v)
      BY <1>1, <1>2, <1>5, <1>5a, <2>1
    <3>2. t[i] = u[i]
      BY <1>5, <3>1
    <3> QED BY <1>2, <2>1, <3>1, <3>2
  <2>2. CASE ~ (i < j)
    <3>1. /\ i - Len(u) \in 1 .. Len(l) - j /\ j + (i - Len(u)) = i + 1
          /\ ~ (i <= Len(u)) /\ i \in 1 .. Len(u) + Len(v)
      BY <1>1, <1>2, <1>5, <1>5a, <2>2
    <3>2. t[i] = v[i - Len(u)]
      BY <1>5, <3>1
    <3>3. v[i - Len(u)] = l[j + (i - Len(u))]
      BY <1>3, <3>1
    <3> QED BY <2>2, <3>1, <3>2, <3>3
  <2> QED BY <2>1, <2>2
<1>7. ASSUME NEW x \in 1 .. Len(t), NEW y \in 1 .. Len(t), t[x] = t[y] PROVE x = y
  <2> DEFINE At1(i) == IF i < j THEN i ELSE i + 1
  <2>1. At1(x) \in 1 .. Len(l) /\ At1(y) \in 1 .. Len(l) /\ l[At1(x)] = l[At1(y)]
    BY <1>1, <1>5a, <1>6, <1>7
  <2>2. At1(x) = At1(y)
    BY <1>1, <2>1 DEF IsInjective
  <2> QED BY <1>1, <1>5a, <2>2
<1>8. IsInjective(t)
  BY <1>5a, <1>7 DEF IsInjective
<1> QED BY <1>5, <1>8 DEF t

-----------------------------------------------------------------------------
(* There is always a blob and a file to be had *)

LEMMA ImageBound ==
  ASSUME NEW S, IsFiniteSet(S), NEW f, f = [x \in S |-> f[x]]
  PROVE  /\ IsFiniteSet({f[x] : x \in S}) /\ Cardinality({f[x] : x \in S}) \in Nat
         /\ Cardinality({f[x] : x \in S}) <= Cardinality(S)
<1> DEFINE T == {f[x] : x \in S}
<1>1. f \in Surjection(S, T)
  <2>1. \A x \in S : f[x] \in T
    OBVIOUS
  <2>2. f \in [S -> T]
    BY <2>1
  <2>3. \A t \in T : \E x \in S : f[x] = t
    OBVIOUS
  <2> QED BY <2>2, <2>3 DEF Surjection
<1>2. IsFiniteSet(T) /\ Cardinality(T) <= Cardinality(S)
  BY <1>1, FS_Surjection
<1> QED BY <1>2, FS_CardinalityType

LEMMA UnionBound ==
  ASSUME NEW S, IsFiniteSet(S), NEW T, IsFiniteSet(T)
  PROVE  /\ IsFiniteSet(S \cup T) /\ Cardinality(S \cup T) \in Nat
         /\ Cardinality(S) \in Nat /\ Cardinality(T) \in Nat
         /\ Cardinality(S \cup T) <= Cardinality(S) + Cardinality(T)
<1>1. IsFiniteSet(S \cup T) /\ IsFiniteSet(S \cap T)
  BY FS_Union, FS_Intersection
<1>2. /\ Cardinality(S \cup T) \in Nat /\ Cardinality(S \cap T) \in Nat
      /\ Cardinality(S) \in Nat /\ Cardinality(T) \in Nat
  BY <1>1, FS_CardinalityType
<1>3. Cardinality(S \cup T) = Cardinality(S) + Cardinality(T) - Cardinality(S \cap T)
  BY FS_Union
<1> QED BY <1>1, <1>2, <1>3

LEMMA SomeBlobFree ==
  ASSUME TypeOK, \A e \in Engine : EngineAt(e), Len(lru) < slots
  PROVE  {b \in Blob : b \notin Held \cup InLru} # {}
<1> DEFINE x == [e \in Engine |-> IF slot[e] # NoBlob THEN slot[e] ELSE ramHit[e]]
           A == {lru[j] : j \in 1 .. Len(lru)}
           B == {x[e] : e \in Engine}
           C == {wslot[e] : e \in Engine}
<1>1. /\ lru \in Seq(Blob) /\ Len(lru) \in Nat /\ slots \in 0 .. MaxSlots
      /\ wslot = [e \in Engine |-> wslot[e]]
      /\ lru = [j \in 1 .. Len(lru) |-> lru[j]]
  BY DEF TypeOK, RamTypeOK
<1>2. /\ IsFiniteSet(Engine) /\ Cardinality(Engine) \in Nat
      /\ MaxSlots \in Nat /\ NBlobs \in Nat /\ NBlobs >= MaxSlots + 2 * Cardinality(Engine)
  BY PrefixCacheAssumption, PrefixTiersAssumption, PrefixRamAssumption, FS_CardinalityType
<1>3. IsFiniteSet(1 .. Len(lru)) /\ Cardinality(1 .. Len(lru)) = Len(lru)
  BY <1>1, FS_Interval
<1>4. IsFiniteSet(Blob) /\ Cardinality(Blob) = NBlobs
  BY <1>2, FS_Interval DEF Blob
<1>5. Held \cup InLru \subseteq (A \cup B) \cup C
  <2>1. InLru \subseteq A
    BY <1>1 DEF InLru, ToSet
  <2>2. ASSUME NEW b \in Held PROVE b \in B \cup C
    <3>1. PICK e \in Engine : b \in {slot[e], ramHit[e], wslot[e]} /\ b # NoBlob
      BY DEF Held
    <3>2. slot[e] = NoBlob \/ ramHit[e] = NoBlob
      BY DEF EngineAt
    <3>3. b = x[e] \/ b = wslot[e]
      BY <3>1, <3>2
    <3> HIDE DEF x
    <3> QED BY <3>3
  <2> QED BY <2>1, <2>2
<1>6. IsFiniteSet(A) /\ Cardinality(A) \in Nat /\ Cardinality(A) <= Len(lru)
  BY <1>1, <1>3, ImageBound
<1>7. IsFiniteSet(B) /\ Cardinality(B) \in Nat /\ Cardinality(B) <= Cardinality(Engine)
  <2>1. x = [e \in Engine |-> x[e]]
    OBVIOUS
  <2> HIDE DEF x
  <2> QED BY <1>2, <2>1, ImageBound
<1>8. IsFiniteSet(C) /\ Cardinality(C) \in Nat /\ Cardinality(C) <= Cardinality(Engine)
  BY <1>1, <1>2, ImageBound
<1> HIDE DEF A, B, C
<1>9. /\ IsFiniteSet((A \cup B) \cup C) /\ Cardinality((A \cup B) \cup C) \in Nat
      /\ Cardinality((A \cup B) \cup C) <= Cardinality(A) + Cardinality(B) + Cardinality(C)
  <2>1. /\ IsFiniteSet(A \cup B) /\ Cardinality(A \cup B) \in Nat
        /\ Cardinality(A \cup B) <= Cardinality(A) + Cardinality(B)
    BY <1>6, <1>7, UnionBound
  <2>2. /\ IsFiniteSet((A \cup B) \cup C) /\ Cardinality((A \cup B) \cup C) \in Nat
        /\ Cardinality((A \cup B) \cup C) <= Cardinality(A \cup B) + Cardinality(C)
    BY <1>8, <2>1, UnionBound
  <2> QED BY <1>6, <1>7, <1>8, <2>1, <2>2
<1>10. Cardinality((A \cup B) \cup C) < NBlobs
  BY <1>1, <1>2, <1>6, <1>7, <1>8, <1>9
<1>11. ~ (Blob \subseteq (A \cup B) \cup C)
  <2> SUFFICES ASSUME Blob \subseteq (A \cup B) \cup C PROVE FALSE
    OBVIOUS
  <2>1. Cardinality(Blob) <= Cardinality((A \cup B) \cup C)
    BY <1>9, FS_Subset
  <2> QED BY <1>2, <1>4, <1>9, <1>10, <2>1
<1> QED BY <1>5, <1>11

(* The files in use have a name each, for a writer's is its temporary one. *)
LEMMA SomeFileUnused ==
  ASSUME TypeOK, FileInv, NEW w \in Engine
  PROVE  Unused # {}
<1> DEFINE A == {tmp[n] : n \in Name}
           B == {final[n] : n \in Name}
<1>1. tmp = [n \in Name |-> tmp[n]] /\ final = [n \in Name |-> final[n]]
  BY DEF TypeOK, CacheTypeOK
<1>2. IsFiniteSet(Name) /\ Cardinality(Name) \in Nat
  <2> DEFINE f == [p \in Prefix |-> NameOf(p)]
  <2>1. f = [p \in Prefix |-> f[p]] /\ Name = {f[p] : p \in Prefix}
    BY DEF Name
  <2> HIDE DEF f
  <2> QED BY <2>1, ImageBound, PrefixCacheAssumption
<1>3. Cardinality(Engine) \in Nat /\ Cardinality(Engine) >= 1
  <2>1. IsFiniteSet(Engine) /\ Cardinality(Engine) \in Nat
    BY PrefixCacheAssumption, FS_CardinalityType
  <2>2. Cardinality(Engine) # 0
    BY <2>1, FS_EmptySet
  <2> QED BY <2>1, <2>2
<1>4. IsFiniteSet(A) /\ IsFiniteSet(B) /\ Cardinality(A) \in Nat /\ Cardinality(B) \in Nat
      /\ Cardinality(A) <= Cardinality(Name) /\ Cardinality(B) <= Cardinality(Name)
  BY <1>1, <1>2, ImageBound
<1>5. Cardinality(Inode) = 2 * Cardinality(Name) + Cardinality(Engine) /\ IsFiniteSet(Inode)
  <2> DEFINE k == 2 * Cardinality(Name) + Cardinality(Engine)
  <2>1. k \in Nat /\ k >= 1
    BY <1>2, <1>3
  <2> HIDE DEF k
  <2>2. IsFiniteSet(1 .. k) /\ Cardinality(1 .. k) = k
    BY <2>1, FS_Interval
  <2> QED BY <2>2 DEF Inode, k
<1>6. ASSUME NEW i \in Inode, i \notin Unused PROVE i \in A \cup B
  <2>1. CASE \E n \in Name : tmp[n] = i \/ final[n] = i
    BY <2>1
  <2>2. CASE \E v \in Engine : wfd[v] = i
    <3>1. PICK v \in Engine : wfd[v] = i
      BY <2>2
    <3>2. i # Nothing
      BY DEF Inode, Nothing
    <3>3. wpc[v] = "write" /\ i = tmp[NameAt(v)] /\ wtoks[v] \in Prefix \cup {<<>>}
      BY <3>1, <3>2 DEF FileInv, WriterAt, TypeOK, CacheTypeOK
    <3>4. wtoks[v] \in Prefix
      BY <3>3 DEF FileInv, WriterAt, Persisted
    <3>5. NameAt(v) \in Name
      BY <3>4 DEF Name, NameAt
    <3> QED BY <3>3, <3>5
  <2> QED BY <1>6, <2>1, <2>2 DEF Unused
<1> HIDE DEF A, B
<1>7. /\ IsFiniteSet(A \cup B) /\ Cardinality(A \cup B) \in Nat
      /\ Cardinality(A \cup B) <= Cardinality(A) + Cardinality(B)
  BY <1>4, UnionBound
<1>8. Cardinality(A \cup B) < Cardinality(Inode)
  BY <1>2, <1>3, <1>4, <1>5, <1>7
<1>9. ~ (Inode \subseteq A \cup B)
  <2> SUFFICES ASSUME Inode \subseteq A \cup B PROVE FALSE
    OBVIOUS
  <2>1. Cardinality(Inode) <= Cardinality(A \cup B)
    BY <1>7, FS_Subset
  <2> QED BY <1>2, <1>3, <1>5, <1>7, <1>8, <2>1
<1> QED BY <1>6, <1>9

-----------------------------------------------------------------------------
(* What the operators choose *)

LEMMA RequestFacts ==
  ASSUME NEW e \in Engine, NEW q \in Conv[e]
  PROVE  /\ q \in AllRequests /\ q.toks \in Seq(Int) /\ Len(q.toks) \in Nat
         /\ q.sys \in 0 .. Len(q.toks) - 1 /\ q.stable \in 0 .. Len(q.toks) - 1
         /\ Cut(q, q.sys) \in Prefix \cup {<<>>} /\ Cut(q, q.stable) \in Prefix \cup {<<>>}
<1>1. q \in AllRequests
  BY DEF AllRequests
<1>2. RequestRec(q) /\ {Cut(q, q.sys), Cut(q, q.stable)} \subseteq Prefix \cup {<<>>}
  BY <1>1, PrefixTiersAssumption
<1>3. q.toks \in Seq(Int) /\ q.sys \in 0 .. Len(q.toks) - 1 /\ q.stable \in 0 .. Len(q.toks) - 1
  BY <1>2 DEF RequestRec
<1> QED BY <1>1, <1>2, <1>3

LEMMA CutFacts ==
  ASSUME NEW q, q.toks \in Seq(Int), NEW L \in 0 .. Len(q.toks)
  PROVE  Cut(q, L) \in Seq(Int) /\ Len(Cut(q, L)) = L
  BY DEF Cut

LEMMA PersistedFacts ==
  ASSUME NEW e \in Engine, NEW p \in Persisted(e)
  PROVE  /\ p \in Prefix /\ p \in Seq(Int) /\ p # <<>> /\ Len(p) \in Nat
         /\ NameOf(p) \in Name /\ NameOf(p)[2] = Len(p)
<1>1. PICK q \in Conv[e] : p \in {Cut(q, q.sys), Cut(q, q.stable)} /\ p # <<>>
  BY DEF Persisted
<1>2. p \in Prefix /\ p # <<>>
  BY <1>1, RequestFacts
<1>3. p \in Seq(Int)
  BY <1>2, PrefixCacheAssumption
<1> QED BY <1>2, <1>3 DEF Name, NameOf

LEMMA NameFacts ==
  ASSUME NEW n \in Name PROVE n[2] \in Nat
<1>1. PICK p \in Prefix : n = NameOf(p)
  BY DEF Name
<1>2. p \in Seq(Int)
  BY <1>1, PrefixCacheAssumption
<1> QED BY <1>1, <1>2 DEF NameOf

LEMMA LongestIsMember ==
  ASSUME NEW B \in Nat, NEW C \in SUBSET Name, C # {}, \A n \in C : n[2] < B
  PROVE  Longest(C) \in C
<1> DEFINE T == {n[2] : n \in C}
<1>1. T \in SUBSET (0 .. B) /\ T # {}
  BY NameFacts
<1>2. PICK k \in T : \A j \in T : j <= k
  BY <1>1, LargestNatural
<1>3. PICK n \in C : n[2] = k
  OBVIOUS
<1>4. \A m \in C : m[2] <= n[2]
  BY <1>2, <1>3
<1> QED BY <1>3, <1>4 DEF Longest

LEMMA BestIsResident ==
  ASSUME TypeOK, NEW prompt \in Seq(Int), Best(prompt) # NoBlob
  PROVE  /\ Best(prompt) \in Blob /\ toks[Best(prompt)] # <<>>
         /\ toks[Best(prompt)] \in Prefix /\ Len(toks[Best(prompt)]) \in 0 .. Len(prompt)
         /\ toks[Best(prompt)] = SubSeq(prompt, 1, Len(toks[Best(prompt)]))
<1> DEFINE R == Resident(prompt)
           T == {Len(toks[b]) : b \in R}
<1>1. R # {} /\ Best(prompt) = CHOOSE b \in R : \A c \in R : Len(toks[c]) <= Len(toks[b])
  BY DEF Best
<1>2. InLru \subseteq Blob
  BY DEF InLru, ToSet, TypeOK, RamTypeOK
<1>3. \A b \in R : b \in Blob /\ toks[b] # <<>> /\ Len(toks[b]) < Len(prompt)
                   /\ IsPrefix(toks[b], prompt)
  BY <1>2 DEF Resident
<1>4. \A b \in Blob : toks[b] \in Seq(Int) /\ (toks[b] # <<>> => toks[b] \in Prefix)
  <2> SUFFICES ASSUME NEW b \in Blob
               PROVE  toks[b] \in Seq(Int) /\ (toks[b] # <<>> => toks[b] \in Prefix)
    OBVIOUS
  <2>1. toks[b] \in Prefix \cup {<<>>}
    BY DEF TypeOK
  <2>2. <<>> \in Seq(Int)
    OBVIOUS
  <2>3. Prefix \subseteq Seq(Int)
    BY PrefixCacheAssumption
  <2> QED BY <2>1, <2>2, <2>3
<1>5. \A b \in R : Len(toks[b]) \in 0 .. Len(prompt)
  BY <1>3, <1>4
<1>6. PICK b \in R : \A c \in R : Len(toks[c]) <= Len(toks[b])
  <2>1. T \in SUBSET (0 .. Len(prompt)) /\ Len(prompt) \in Nat
    BY <1>5
  <2>1a. T # {}
    BY <1>1
  <2>2. PICK k \in T : \A j \in T : j <= k
    BY <2>1, <2>1a, LargestNatural
  <2>3. PICK b \in R : Len(toks[b]) = k
    OBVIOUS
  <2> QED BY <2>2, <2>3
<1> HIDE DEF R
<1>7. Best(prompt) \in R
  BY <1>1, <1>6
<1> DEFINE c == Best(prompt)
<1>8. c \in Blob /\ toks[c] # <<>> /\ toks[c] \in Seq(Int) /\ toks[c] \in Prefix
      /\ Len(toks[c]) \in 0 .. Len(prompt) /\ IsPrefix(toks[c], prompt)
  BY <1>3, <1>4, <1>5, <1>7
<1> HIDE DEF c
<1>9. SubSeq(toks[c], 1, Len(toks[c])) = toks[c]
  BY <1>8
<1>10. toks[c] = SubSeq(prompt, 1, Len(toks[c]))
  BY <1>8, <1>9 DEF IsPrefix
<1> QED BY <1>8, <1>10 DEF c

(* acquire() gives a blob that nobody holds. *)
LEMMA GrantsGive ==
  ASSUME TypeOK, \A e \in Engine : EngineAt(e), NEW g \in Grants(Held)
  PROVE  /\ g.slots \in 0 .. MaxSlots /\ g.lru \in Seq(Blob) /\ IsInjective(g.lru)
         /\ g.blob = NoBlob \/ (g.blob \in Blob /\ g.blob \notin Held)
<1>1. /\ lru \in Seq(Blob) /\ IsInjective(lru) /\ slots \in 0 .. MaxSlots /\ Len(lru) \in Nat
      /\ DOMAIN lru = 1 .. Len(lru) /\ \A j \in 1 .. Len(lru) : lru[j] \in Blob
      /\ 0 \in 0 .. MaxSlots
  BY PrefixRamAssumption DEF TypeOK, RamTypeOK
<1>2. CASE g = Denied
  BY <1>1, <1>2 DEF Denied, Grant
<1>3. CASE slots # 0 /\ Len(lru) >= slots /\ Evictable(Held) # {}
  <2> DEFINE j == Min(Evictable(Held))
  <2>1. Evictable(Held) \in SUBSET Nat
    BY <1>1 DEF Evictable
  <2>2. j \in Evictable(Held)
    BY <1>3, <2>1, MinIsMember
  <2>3. j \in 1 .. Len(lru) /\ lru[j] \in Blob /\ lru[j] \notin Held
    BY <1>1, <2>2 DEF Evictable
  <2>4. g = Grant(lru[j], RemoveAt(lru, j), slots)
    BY <1>3 DEF Grants
  <2> HIDE DEF j
  <2>5. RemoveAt(lru, j) \in Seq(Blob) /\ IsInjective(RemoveAt(lru, j))
    BY <1>1, <2>3, RemovedKeeps
  <2> QED BY <1>1, <2>3, <2>4, <2>5 DEF Grant
<1>4. CASE slots # 0 /\ ~ (Len(lru) >= slots)
  <2> DEFINE F == {b \in Blob : b \notin Held \cup InLru}
  <2>1. Len(lru) < slots
    BY <1>1, <1>4
  <2>2. F # {} /\ F \in SUBSET Nat
    BY <2>1, SomeBlobFree DEF Blob
  <2>3. Min(F) \in F
    BY <2>2, MinIsMember
  <2>4. Min(F) \in Blob /\ Min(F) \notin Held
    BY <2>3
  <2>5. g \in {Grant(Min(F), lru, slots), Grant(NoBlob, lru, 0)}
    BY <1>4 DEF Grants
  <2> HIDE DEF F
  <2> QED BY <1>1, <2>4, <2>5 DEF Grant
<1>5. g = Denied \/ (slots # 0 /\ Len(lru) >= slots /\ Evictable(Held) # {})
      \/ (slots # 0 /\ ~ (Len(lru) >= slots))
  BY DEF Grants
<1> QED BY <1>2, <1>3, <1>4, <1>5

-----------------------------------------------------------------------------
(* What a step leaves alone *)

LEMMA VerifiedKept ==
  ASSUME NEW f \in Engine, Verified(f), UNCHANGED <<data, final>>,
         cands'[f] = cands[f], req'[f] = req[f]
  PROVE  Verified(f)'
  BY DEF Verified, Entry

(* An engine that another one's step does not touch. *)
LEMMA EngineKept ==
  ASSUME NEW f \in Engine, EngineAt(f),
         epc'[f] = epc[f], req'[f] = req[f], base'[f] = base[f], cands'[f] = cands[f],
         slot'[f] = slot[f], ramHit'[f] = ramHit[f], stage'[f] = stage[f],
         ramHit[f] # NoBlob => mem'[ramHit[f]] = mem[ramHit[f]],
         epc[f] \in {"acquire", "read"} => Verified(f)'
  PROVE  EngineAt(f)'
<1>1. /\ epc'[f] # "idle" => req'[f] \in Conv[f]
      /\ epc'[f] \notin {"verify", "acquire", "read"} => cands'[f] = {}
      /\ \A n \in cands'[f] : n[2] < Len(req'[f].toks)
      /\ slot'[f] # NoBlob => epc'[f] = "read"
      /\ ramHit'[f] # NoBlob => epc'[f] = "import"
  BY DEF EngineAt
<1>2. epc'[f] \in {"acquire", "read"} => Verified(f)'
  OBVIOUS
<1>3. epc'[f] = "import" => ImportedFrom(f)' = Cut(req'[f], base'[f])
  BY DEF EngineAt, ImportedFrom
<1> QED BY <1>1, <1>2, <1>3 DEF EngineAt

(* A step of engine e that leaves the files and the other engines alone. *)
OnlyEngine(e) ==
  /\ UNCHANGED <<data, final>>
  /\ \A f \in Engine : f # e =>
       /\ epc'[f] = epc[f] /\ req'[f] = req[f] /\ base'[f] = base[f] /\ cands'[f] = cands[f]
       /\ slot'[f] = slot[f] /\ ramHit'[f] = ramHit[f] /\ stage'[f] = stage[f]
       /\ ramHit[f] # NoBlob => mem'[ramHit[f]] = mem[ramHit[f]]

LEMMA EnginesKept ==
  ASSUME NEW e \in Engine, \A f \in Engine : EngineAt(f), OnlyEngine(e), EngineAt(e)'
  PROVE  \A f \in Engine : EngineAt(f)'
<1> SUFFICES ASSUME NEW f \in Engine, f # e PROVE EngineAt(f)'
  OBVIOUS
<1>1. /\ UNCHANGED <<data, final>>
      /\ epc'[f] = epc[f] /\ req'[f] = req[f] /\ base'[f] = base[f] /\ cands'[f] = cands[f]
      /\ slot'[f] = slot[f] /\ ramHit'[f] = ramHit[f] /\ stage'[f] = stage[f]
      /\ ramHit[f] # NoBlob => mem'[ramHit[f]] = mem[ramHit[f]]
  BY DEF OnlyEngine
<1>2. epc[f] \in {"acquire", "read"} => Verified(f)
  BY DEF EngineAt
<1>3. epc[f] \in {"acquire", "read"} => Verified(f)'
  BY <1>1, <1>2, VerifiedKept
<1>4. EngineAt(f)
  OBVIOUS
<1> QED BY <1>1, <1>3, <1>4, EngineKept

(* A step that leaves the cache alone and offers no name that was not in   *)
(* the index.                                                              *)
LEMMA FilesKept ==
  ASSUME FileInv, UNCHANGED cacheVars,
         \A w \in Engine : cands'[w] \subseteq cands[w] \cup index
  PROVE  FileInv'
<1>1. UNCHANGED <<data, synced, tmp, final, index, mtime, clock, wpc, wtoks, wfd, woff, doomed>>
  BY DEF cacheVars, fileVars, indexVars, writerVars
<1>2. ASSUME NEW w \in Engine PROVE WriterAt(w)'
  <2>1. WriterAt(w) /\ cands'[w] \subseteq cands[w] \cup index
    BY DEF FileInv
  <2>2. wpc[w] \in {"open", "write", "rename"} => NameAt(w) \notin index \cup cands'[w]
    BY <2>1 DEF WriterAt
  <2> QED BY <1>1, <2>1, <2>2 DEF WriterAt, NameAt, Entry
<1>3. TmpOwned'
  BY <1>1 DEF FileInv, TmpOwned, NameAt
<1>4. FinalWhole'
  BY <1>1 DEF FileInv, FinalWhole, Entry
<1>5. LinkedOnce' /\ FinalKept'
  BY <1>1 DEF FileInv, LinkedOnce, FinalKept, NameAt
<1> QED BY <1>2, <1>3, <1>4, <1>5 DEF FileInv

LEMMA CacheTypeKept == ASSUME CacheTypeOK, UNCHANGED cacheVars PROVE CacheTypeOK'
  BY DEF CacheTypeOK, cacheVars, fileVars, indexVars, writerVars

-----------------------------------------------------------------------------
(* The restore path *)

LEMMA BeginKeeps ==
  ASSUME TiersInv, NEW e \in Engine, NEW q \in Conv[e], Begin(e, q)
  PROVE  TiersInv'
<1>1. /\ epc[e] = "idle" /\ gpu' = e /\ served' = served + 1 /\ served < MaxRequests
      /\ req' = [req EXCEPT ![e] = q] /\ ramHit' = [ramHit EXCEPT ![e] = NoBlob]
      /\ base' = [base EXCEPT ![e] = IF SnapHit(e, q) THEN Len(snap[e]) ELSE 0]
      /\ epc' = [epc EXCEPT ![e] = IF SnapHit(e, q) THEN "chunks" ELSE "ram"]
      /\ UNCHANGED <<lru, slots, toks, mem, wslot, wstage, cands, slot, stage, lastPersist, snap,
                     crashes>>
      /\ UNCHANGED cacheVars
  BY DEF Begin, Go, ramVars, handoffVars
<1>2. TypeOK /\ EngineAt(e) /\ FileInv /\ BlobInv /\ \A f \in Engine : EngineAt(f)
  BY DEF TiersInv
<1>3. TypeOK'
  <2>1. CacheTypeOK' /\ RamTypeOK'
    BY <1>1, <1>2, CacheTypeKept DEF TypeOK, RamTypeOK
  <2>2. q \in AllRequests /\ Len(q.toks) \in Nat
    BY RequestFacts
  <2> DEFINE x == IF SnapHit(e, q) THEN Len(snap[e]) ELSE 0
  <2>3. x \in Nat /\ x <= Len(q.toks)
    BY <1>2, <2>2 DEF SnapHit, TypeOK
  <2>3a. base' = [base EXCEPT ![e] = x]
    BY <1>1
  <2> HIDE DEF x
  <2>4. \A f \in Engine : base'[f] <= Len(req'[f].toks)
    <3> SUFFICES ASSUME NEW f \in Engine PROVE base'[f] <= Len(req'[f].toks)
      OBVIOUS
    <3>1. CASE f = e
      BY <1>1, <1>2, <2>3, <2>3a, <3>1 DEF TypeOK
    <3>2. CASE f # e
      BY <1>1, <1>2, <2>3a, <3>2 DEF TypeOK
    <3> QED BY <3>1, <3>2
  <2>5. served' \in 0 .. MaxRequests
    BY <1>1, <1>2, PrefixTiersAssumption DEF TypeOK
  <2> QED BY <1>1, <1>2, <2>1, <2>2, <2>3, <2>3a, <2>4, <2>5 DEF TypeOK, EnginePc
<1>4. FileInv'
  BY <1>1, <1>2, FilesKept
<1>5. EngineAt(e)'
  <2>1. /\ epc'[e] \in {"chunks", "ram"} /\ req'[e] = q /\ ramHit'[e] = NoBlob
    BY <1>1, <1>2 DEF TypeOK
  <2>2. cands[e] = {} /\ slot[e] = NoBlob
    BY <1>1, <1>2 DEF EngineAt
  <2> QED BY <1>1, <2>1, <2>2 DEF EngineAt
<1>6. OnlyEngine(e)
  BY <1>1, <1>2 DEF OnlyEngine, TypeOK, cacheVars, fileVars
<1>7. BlobInv'
  <2>1. \A f \in Engine : ramHit'[f] = ramHit[f] \/ ramHit'[f] = NoBlob
    BY <1>1, <1>2 DEF TypeOK
  <2>2. UNCHANGED <<wpc, wtoks>>
    BY <1>1 DEF cacheVars, writerVars
  <2> QED BY <1>1, <1>2, <2>1, <2>2 DEF BlobInv, Buffer
<1> QED BY <1>2, <1>3, <1>4, <1>5, <1>6, <1>7, EnginesKept DEF TiersInv

LEMMA RamFindKeeps ==
  ASSUME TiersInv, NEW e \in Engine, RamFind(e)
  PROVE  TiersInv'
<1> DEFINE b == Best(Prompt(e))
<1>1. /\ epc[e] = "ram" /\ gpu' = gpu /\ served' = served
      /\ UNCHANGED <<slots, toks, mem, wslot, wstage, req, cands, slot, stage, snap, crashes>>
      /\ UNCHANGED cacheVars
  BY DEF RamFind, At, handoffVars
<1>2. TypeOK /\ EngineAt(e) /\ FileInv /\ BlobInv /\ \A f \in Engine : EngineAt(f)
  BY DEF TiersInv
<1>3. cands[e] = {} /\ slot[e] = NoBlob /\ ramHit[e] = NoBlob /\ req[e] \in Conv[e]
  BY <1>1, <1>2 DEF EngineAt
<1>4. req[e].toks \in Seq(Int) /\ Len(req[e].toks) \in Nat /\ Prompt(e) = req[e].toks
  BY <1>3, RequestFacts DEF Prompt
<1>5. FileInv' /\ CacheTypeOK'
  BY <1>1, <1>2, FilesKept, CacheTypeKept DEF TypeOK
<1>6. UNCHANGED <<wpc, wtoks, data, final>>
  BY <1>1 DEF cacheVars, writerVars, fileVars
<1>7. CASE b = NoBlob
  <2>1. epc' = [epc EXCEPT ![e] = "disk"] /\ UNCHANGED <<lru, base, ramHit, lastPersist>>
    BY <1>7 DEF RamFind, Go
  <2>2. TypeOK'
    BY <1>1, <1>2, <1>5, <2>1 DEF TypeOK, RamTypeOK, EnginePc
  <2>3. EngineAt(e)'
    BY <1>1, <1>2, <1>3, <2>1 DEF EngineAt, TypeOK
  <2>4. OnlyEngine(e)
    BY <1>1, <1>2, <1>6, <2>1 DEF OnlyEngine, TypeOK
  <2>5. BlobInv'
    BY <1>1, <1>2, <1>6, <2>1 DEF BlobInv, Buffer
  <2> QED BY <1>2, <1>5, <2>2, <2>3, <2>4, <2>5, EnginesKept DEF TiersInv
<1>8. CASE b # NoBlob
  <2>1. /\ epc' = [epc EXCEPT ![e] = "import"] /\ lru' = Touched(b)
        /\ ramHit' = [ramHit EXCEPT ![e] = b]
        /\ base' = [base EXCEPT ![e] = Len(toks[b])]
        /\ lastPersist' = [lastPersist EXCEPT ![e] = Len(toks[b])]
    BY <1>8 DEF RamFind, Go
  <2>2. /\ b \in Blob /\ toks[b] # <<>> /\ Len(toks[b]) \in 0 .. Len(req[e].toks)
        /\ toks[b] = SubSeq(req[e].toks, 1, Len(toks[b]))
    BY <1>2, <1>4, <1>8, BestIsResident
  <2> HIDE DEF b
  <2>3. lru' \in Seq(Blob) /\ IsInjective(lru')
    BY <1>2, <2>1, <2>2, TouchedKeeps DEF TypeOK
  <2>4. TypeOK'
    <3>1. RamTypeOK'
      BY <1>1, <1>2, <2>3 DEF TypeOK, RamTypeOK
    <3>2. \A f \in Engine : base'[f] <= Len(req'[f].toks)
      BY <1>1, <1>2, <2>1, <2>2 DEF TypeOK
    <3>3. Len(toks[b]) \in Nat
      BY <1>4, <2>2
    <3> QED BY <1>1, <1>2, <1>5, <2>1, <2>2, <3>1, <3>2, <3>3 DEF TypeOK, EnginePc
  <2>5. mem[b] = toks[b]
    BY <1>2, <2>2 DEF BlobInv
  <2>6. EngineAt(e)'
    <3>1. epc'[e] = "import" /\ ramHit'[e] = b /\ base'[e] = Len(toks[b])
      BY <1>2, <2>1 DEF TypeOK
    <3>2. ImportedFrom(e)' = Cut(req[e], base'[e])
      BY <1>1, <1>8, <2>2, <2>5, <3>1 DEF ImportedFrom, Cut
    <3> QED BY <1>1, <1>3, <3>1, <3>2 DEF EngineAt
  <2>7. OnlyEngine(e)
    BY <1>1, <1>2, <1>6, <2>1 DEF OnlyEngine, TypeOK
  <2>8. BlobInv'
    <3>1. ASSUME NEW f \in Engine, slot[f] # NoBlob PROVE slot[f] # b
      BY <1>2, <2>2, <3>1 DEF BlobInv
    <3>2. \A f \in Engine : ramHit'[f] = ramHit[f] \/ ramHit'[f] = b
      BY <1>2, <2>1 DEF TypeOK
    <3> QED BY <1>1, <1>2, <1>6, <3>1, <3>2 DEF BlobInv, Buffer
  <2> QED BY <1>2, <1>5, <2>4, <2>6, <2>7, <2>8, EnginesKept DEF TiersInv
<1> QED BY <1>7, <1>8

LEMMA DiskFindKeeps ==
  ASSUME TiersInv, NEW e \in Engine, DiskFind(e)
  PROVE  TiersInv'
<1> DEFINE C == {n \in Candidates(Prompt(e)) : n[2] >= MinTokens}
<1>1. /\ epc[e] = "disk" /\ gpu' = gpu /\ served' = served
      /\ cands' = [cands EXCEPT ![e] = C] /\ epc' = [epc EXCEPT ![e] = "verify"]
      /\ UNCHANGED <<lru, slots, toks, mem, wslot, wstage, req, base, slot, ramHit, stage,
                     lastPersist, snap, crashes>>
      /\ UNCHANGED cacheVars
  BY DEF DiskFind, At, Go, ramVars, handoffVars
<1>2. TypeOK /\ EngineAt(e) /\ FileInv /\ BlobInv /\ \A f \in Engine : EngineAt(f)
  BY DEF TiersInv
<1>3. C \subseteq index /\ C \subseteq Name /\ \A n \in C : n[2] < Len(req[e].toks)
  BY <1>2 DEF Candidates, TypeOK, CacheTypeOK, Prompt
<1> HIDE DEF C
<1>4. \A w \in Engine : cands'[w] \subseteq cands[w] \cup index
  BY <1>1, <1>2, <1>3 DEF TypeOK
<1>5. FileInv' /\ CacheTypeOK'
  BY <1>1, <1>2, <1>4, FilesKept, CacheTypeKept DEF TypeOK
<1>6. UNCHANGED <<wpc, wtoks, data, final>>
  BY <1>1 DEF cacheVars, writerVars, fileVars
<1>7. TypeOK'
  BY <1>1, <1>2, <1>3, <1>5 DEF TypeOK, RamTypeOK, EnginePc
<1>8. EngineAt(e)'
  BY <1>1, <1>2, <1>3 DEF EngineAt, TypeOK
<1>9. OnlyEngine(e)
  BY <1>1, <1>2, <1>6 DEF OnlyEngine, TypeOK
<1>10. BlobInv'
  BY <1>1, <1>2, <1>6 DEF BlobInv, Buffer
<1> QED BY <1>2, <1>5, <1>7, <1>8, <1>9, <1>10, EnginesKept DEF TiersInv

LEMMA VerifyNextKeeps ==
  ASSUME TiersInv, NEW e \in Engine, VerifyNext(e)
  PROVE  TiersInv'
<1> DEFINE n == Longest(cands[e])
<1>1. /\ epc[e] = "verify" /\ gpu' = gpu /\ served' = served
      /\ UNCHANGED <<lru, slots, toks, mem, wslot, wstage, req, base, slot, ramHit, stage, snap,
                     crashes>>
      /\ UNCHANGED cacheVars
  BY DEF VerifyNext, At, ramVars, handoffVars
<1>2. TypeOK /\ EngineAt(e) /\ FileInv /\ BlobInv /\ \A f \in Engine : EngineAt(f)
  BY DEF TiersInv
<1>3. \/ cands[e] = {} /\ epc' = [epc EXCEPT ![e] = "chunks"] /\ cands' = cands
      \/ cands[e] # {} /\ epc' = [epc EXCEPT ![e] = "acquire"] /\ cands' = cands
         /\ Verify(n, Prompt(e))
      \/ epc' = epc /\ cands' = [cands EXCEPT ![e] = @ \ {n}]
  BY DEF VerifyNext, Go
<1>4. lastPersist' = lastPersist \/ lastPersist' = [lastPersist EXCEPT ![e] = 0]
  BY DEF VerifyNext
<1> HIDE DEF n
<1>5. \A f \in Engine : cands'[f] \subseteq cands[f] /\ (f # e => cands'[f] = cands[f])
  BY <1>2, <1>3 DEF TypeOK
<1>6. FileInv' /\ CacheTypeOK'
  BY <1>1, <1>2, <1>5, FilesKept, CacheTypeKept DEF TypeOK
<1>7. UNCHANGED <<wpc, wtoks, data, final>>
  BY <1>1 DEF cacheVars, writerVars, fileVars
<1>8. TypeOK'
  <2>1. cands' \in [Engine -> SUBSET Name]
    BY <1>2, <1>3 DEF TypeOK
  <2>2. lastPersist' \in [Engine -> Nat]
    <3>1. lastPersist \in [Engine -> Nat]
      BY <1>2 DEF TypeOK
    <3> QED BY <1>4, <3>1
  <2>3. epc' \in [Engine -> EnginePc]
    BY <1>2, <1>3 DEF TypeOK, EnginePc
  <2> QED BY <1>1, <1>2, <1>6, <2>1, <2>2, <2>3 DEF TypeOK, RamTypeOK
<1>9. epc'[e] = "acquire" => Verified(e)'
  <2> SUFFICES ASSUME epc'[e] = "acquire" PROVE Verified(e)'
    OBVIOUS
  <2>1. cands[e] # {} /\ cands' = cands /\ Verify(n, Prompt(e))
    BY <1>1, <1>2, <1>3 DEF TypeOK
  <2>2. req[e] \in Conv[e] /\ cands[e] \subseteq Name /\ \A m \in cands[e] : m[2] < Len(req[e].toks)
    BY <1>1, <1>2 DEF EngineAt, TypeOK
  <2>3. Len(req[e].toks) \in Nat
    BY <2>2, RequestFacts
  <2>4. n \in cands[e] /\ n \in Name
    BY <2>1, <2>2, <2>3, LongestIsMember DEF n
  <2>5. final[n] # Nothing /\ data[final[n]][2] = Cut(req[e], n[2])
    BY <2>1 DEF Verify, Prompt, Cut
  <2>6. PICK f \in Engine : \E p \in Persisted(f) : NameOf(p) = n /\ Entry(final[n], p)
    BY <1>2, <2>4, <2>5 DEF FileInv, FinalWhole
  <2>7. PICK p \in Persisted(f) : NameOf(p) = n /\ Entry(final[n], p)
    BY <2>6
  <2>8. p = Cut(req[e], n[2])
    BY <2>5, <2>7 DEF Entry, Parts
  <2>9. Verified(e)
    BY <2>1, <2>4, <2>6, <2>7, <2>8 DEF Verified, n
  <2> QED BY <1>1, <1>7, <2>1, <2>9, VerifiedKept
<1>10. EngineAt(e)'
  <2>1. epc'[e] \in {"chunks", "acquire", "verify"} /\ (epc'[e] = "chunks" => cands'[e] = {})
    BY <1>1, <1>2, <1>3 DEF TypeOK
  <2>2. slot[e] = NoBlob /\ ramHit[e] = NoBlob /\ req[e] \in Conv[e]
    BY <1>1, <1>2 DEF EngineAt
  <2>3. \A m \in cands'[e] : m[2] < Len(req'[e].toks)
    BY <1>1, <1>2, <1>5 DEF EngineAt
  <2> QED BY <1>1, <1>9, <2>1, <2>2, <2>3 DEF EngineAt
<1>11. OnlyEngine(e)
  <2>1. \A f \in Engine : f # e => epc'[f] = epc[f]
    BY <1>2, <1>3 DEF TypeOK
  <2> QED BY <1>1, <1>5, <1>7, <2>1 DEF OnlyEngine
<1>12. BlobInv'
  BY <1>1, <1>2, <1>7 DEF BlobInv, Buffer
<1> QED BY <1>2, <1>6, <1>8, <1>10, <1>11, <1>12, EnginesKept DEF TiersInv

LEMMA AcquireKeeps ==
  ASSUME TiersInv, NEW e \in Engine, AcquireForRead(e)
  PROVE  TiersInv'
<1>1. /\ epc[e] = "acquire" /\ gpu' = gpu /\ served' = served
      /\ epc' = [epc EXCEPT ![e] = "read"]
      /\ UNCHANGED <<mem, wslot, wstage, req, base, cands, ramHit, stage, lastPersist, snap,
                     crashes>>
      /\ UNCHANGED cacheVars
  BY DEF AcquireForRead, At, Go, handoffVars
<1>2. TypeOK /\ EngineAt(e) /\ FileInv /\ BlobInv /\ \A f \in Engine : EngineAt(f)
  BY DEF TiersInv
<1>3. PICK g \in Grants(Held) :
        /\ slot' = [slot EXCEPT ![e] = g.blob] /\ lru' = g.lru /\ slots' = g.slots
        /\ toks' = IF g.blob = NoBlob THEN toks ELSE [toks EXCEPT ![g.blob] = <<>>]
  BY DEF AcquireForRead
<1>4. /\ slots' \in 0 .. MaxSlots /\ lru' \in Seq(Blob) /\ IsInjective(lru')
      /\ g.blob = NoBlob \/ (g.blob \in Blob /\ g.blob \notin Held)
  BY <1>2, <1>3, GrantsGive
<1> DEFINE b == g.blob
<1>5. /\ slot' = [slot EXCEPT ![e] = b] /\ b \in Blob \cup {NoBlob} /\ (b # NoBlob => b \notin Held)
      /\ b # NoBlob => toks' = [toks EXCEPT ![b] = <<>>]
      /\ b = NoBlob => toks' = toks
  BY <1>3, <1>4
<1> HIDE DEF b
<1>6. FileInv' /\ CacheTypeOK'
  BY <1>1, <1>2, FilesKept, CacheTypeKept DEF TypeOK
<1>7. UNCHANGED <<wpc, wtoks, data, final>>
  BY <1>1 DEF cacheVars, writerVars, fileVars
<1>8. toks' \in [Blob -> Prefix \cup {<<>>}] /\ \A x \in Blob : toks'[x] = toks[x] \/ toks'[x] = <<>>
  BY <1>2, <1>5 DEF TypeOK
<1>9. TypeOK'
  <2>1. RamTypeOK'
    BY <1>4 DEF RamTypeOK
  <2>2. slot' \in [Engine -> Blob \cup {NoBlob}]
    BY <1>2, <1>5 DEF TypeOK
  <2> QED BY <1>1, <1>2, <1>6, <1>8, <2>1, <2>2 DEF TypeOK, EnginePc
<1>10. EngineAt(e)'
  <2>1. epc'[e] = "read" /\ ramHit[e] = NoBlob
    BY <1>1, <1>2 DEF TypeOK, EngineAt
  <2>2. Verified(e)
    BY <1>1, <1>2 DEF EngineAt
  <2>3. Verified(e)'
    BY <1>1, <1>7, <2>2, VerifiedKept
  <2> QED BY <1>1, <1>2, <2>1, <2>3 DEF EngineAt
<1>11. OnlyEngine(e)
  BY <1>1, <1>2, <1>5, <1>7 DEF OnlyEngine, TypeOK
<1>12. BlobInv'
  <2>1. \A x \in Blob : toks'[x] # <<>> => mem'[x] = toks'[x]
    BY <1>1, <1>2, <1>8 DEF BlobInv
  <2>2. ASSUME NEW d \in Engine, slot'[d] # NoBlob
        PROVE  /\ toks'[slot'[d]] = <<>>
               /\ \A f \in Engine : slot'[d] # ramHit'[f] /\ slot'[d] # wslot'[f]
                                    /\ (f # d => slot'[d] # slot'[f])
    <3>1. \A f \in Engine : b # NoBlob => b # ramHit[f] /\ b # wslot[f] /\ b # slot[f]
      BY <1>5 DEF Held
    <3>2. slot'[e] = b /\ \A f \in Engine : f # e => slot'[f] = slot[f]
      BY <1>2, <1>5 DEF TypeOK
    <3>3. CASE d = e
      <4>1. toks'[b] = <<>>
        BY <1>2, <1>5, <2>2, <3>2, <3>3 DEF TypeOK
      <4> QED BY <1>1, <2>2, <3>1, <3>2, <3>3, <4>1
    <3>4. CASE d # e
      <4>1. slot'[d] = slot[d] /\ slot[d] # NoBlob /\ slot[d] \in Blob
        BY <1>2, <2>2, <3>2, <3>4 DEF TypeOK
      <4>2. /\ toks[slot[d]] = <<>>
            /\ \A f \in Engine : slot[d] # ramHit[f] /\ slot[d] # wslot[f]
                                 /\ (f # d => slot[d] # slot[f])
        BY <1>2, <4>1 DEF BlobInv
      <4>3. toks'[slot[d]] = <<>>
        BY <1>8, <4>1, <4>2
      <4>4. slot[d] # b
        BY <1>5, <3>1, <4>1
      <4> QED BY <1>1, <3>2, <3>4, <4>1, <4>2, <4>3, <4>4
    <3> QED BY <3>3, <3>4
  <2>3. \A w \in Engine : (wslot'[w] # NoBlob => wpc'[w] # "idle")
                          /\ (wpc'[w] # "idle" => Buffer(w)' = wtoks'[w])
    BY <1>1, <1>2, <1>7 DEF BlobInv, Buffer
  <2> QED BY <2>1, <2>2, <2>3 DEF BlobInv
<1> QED BY <1>2, <1>6, <1>9, <1>10, <1>11, <1>12, EnginesKept DEF TiersInv

(* A blob of engine e's that nobody else has is filled. *)
LEMMA FilledKeeps ==
  ASSUME TypeOK, BlobInv, NEW e \in Engine, slot[e] # NoBlob, NEW x,
         mem' = [mem EXCEPT ![slot[e]] = x]
  PROVE  /\ mem'[slot[e]] = x
         /\ \A b \in Blob : b # slot[e] => mem'[b] = mem[b]
         /\ \A f \in Engine : ramHit[f] # NoBlob => mem'[ramHit[f]] = mem[ramHit[f]]
         /\ \A f \in Engine : wslot[f] # NoBlob => mem'[wslot[f]] = mem[wslot[f]]
<1>1. /\ slot[e] \in Blob /\ mem \in [Blob -> Prefix \cup {Hole}]
      /\ \A f \in Engine : ramHit[f] \in Blob \cup {NoBlob} /\ wslot[f] \in Blob \cup {NoBlob}
  BY DEF TypeOK
<1>2. \A f \in Engine : slot[e] # ramHit[f] /\ slot[e] # wslot[f]
  BY DEF BlobInv
<1> QED BY <1>1, <1>2

LEMMA ReadStateKeeps ==
  ASSUME TiersInv, NEW e \in Engine, ReadState(e)
  PROVE  TiersInv'
<1> DEFINE n == Longest(cands[e])
           p == Cut(req[e], n[2])
<1>1. /\ epc[e] = "read" /\ gpu' = gpu /\ served' = served /\ CanReadState(n)
      /\ epc' = [epc EXCEPT ![e] = "import"]
      /\ base' = [base EXCEPT ![e] = n[2]] /\ lastPersist' = [lastPersist EXCEPT ![e] = n[2]]
      /\ ramHit' = [ramHit EXCEPT ![e] = slot[e]] /\ slot' = [slot EXCEPT ![e] = NoBlob]
      /\ cands' = [cands EXCEPT ![e] = {}]
      /\ UNCHANGED <<slots, wslot, wstage, req, snap, crashes>>
      /\ UNCHANGED cacheVars
  BY DEF ReadState, At, Go, handoffVars
<1>2. TypeOK /\ EngineAt(e) /\ FileInv /\ BlobInv /\ \A f \in Engine : EngineAt(f)
  BY DEF TiersInv
<1>3. \/ /\ slot[e] = NoBlob /\ stage' = [stage EXCEPT ![e] = StateRead(n)]
         /\ UNCHANGED <<lru, toks, mem>>
      \/ /\ slot[e] # NoBlob /\ mem' = [mem EXCEPT ![slot[e]] = StateRead(n)]
         /\ lru' = PublishedLru(lru, toks, slot[e], p)
         /\ toks' = [toks EXCEPT ![slot[e]] = p] /\ stage' = stage
  BY DEF ReadState
<1>4. Verified(e) /\ req[e] \in Conv[e] /\ cands[e] \subseteq Name
      /\ \A m \in cands[e] : m[2] < Len(req[e].toks)
  BY <1>1, <1>2 DEF EngineAt, TypeOK
<1>5. n \in cands[e] /\ n \in Name /\ final[n] # Nothing /\ Entry(final[n], p)
  BY <1>1, <1>4 DEF Verified, CanReadState
<1>6. StateRead(n) = p
  BY <1>5 DEF StateRead, Entry, Parts
<1>7. PICK f \in Engine : p \in Persisted(f)
  BY <1>4 DEF Verified
<1>8. p \in Prefix /\ n[2] \in Nat /\ n[2] < Len(req[e].toks)
  BY <1>4, <1>5, <1>7, PersistedFacts, NameFacts
<1>9. FileInv' /\ CacheTypeOK'
  <2>1. \A w \in Engine : cands'[w] \subseteq cands[w] \cup index
    BY <1>1, <1>2 DEF TypeOK
  <2> QED BY <1>1, <1>2, <2>1, FilesKept, CacheTypeKept DEF TypeOK
<1>10. UNCHANGED <<wpc, wtoks, data, final>>
  BY <1>1 DEF cacheVars, writerVars, fileVars
<1> HIDE DEF n, p
<1>11. /\ epc'[e] = "import" /\ base'[e] = n[2] /\ ramHit'[e] = slot[e] /\ slot'[e] = NoBlob
       /\ cands'[e] = {}
       /\ \A g \in Engine : g # e =>
            /\ epc'[g] = epc[g] /\ base'[g] = base[g] /\ ramHit'[g] = ramHit[g]
            /\ slot'[g] = slot[g] /\ cands'[g] = cands[g] /\ stage'[g] = stage[g]
  BY <1>1, <1>2, <1>3 DEF TypeOK
<1>12. /\ epc' \in [Engine -> EnginePc] /\ base' \in [Engine -> Nat]
       /\ \A g \in Engine : base'[g] <= Len(req'[g].toks)
       /\ cands' \in [Engine -> SUBSET Name] /\ slot' \in [Engine -> Blob \cup {NoBlob}]
       /\ ramHit' \in [Engine -> Blob \cup {NoBlob}] /\ lastPersist' \in [Engine -> Nat]
  <2>1. Len(req[e].toks) \in Nat
    BY <1>4, RequestFacts
  <2>2. \A g \in Engine : base'[g] <= Len(req'[g].toks)
    <3>1. req' = req /\ \A g \in Engine : base[g] <= Len(req[g].toks)
      BY <1>1, <1>2 DEF TypeOK
    <3>2. base'[e] <= Len(req'[e].toks)
      BY <1>8, <1>11, <2>1, <3>1
    <3>3. \A g \in Engine : g # e => base'[g] = base[g]
      BY <1>11
    <3> QED BY <3>1, <3>2, <3>3
  <2>3. epc' \in [Engine -> EnginePc] /\ base' \in [Engine -> Nat]
        /\ lastPersist' \in [Engine -> Nat]
    BY <1>1, <1>2, <1>8 DEF TypeOK, EnginePc
  <2>4. cands' \in [Engine -> SUBSET Name] /\ slot' \in [Engine -> Blob \cup {NoBlob}]
        /\ ramHit' \in [Engine -> Blob \cup {NoBlob}]
    BY <1>1, <1>2 DEF TypeOK
  <2> QED BY <2>2, <2>3, <2>4
<1>13. CASE slot[e] = NoBlob
  <2>1. stage' = [stage EXCEPT ![e] = p] /\ UNCHANGED <<lru, toks, mem>>
    BY <1>3, <1>6, <1>13
  <2>2. stage' \in [Engine -> Prefix \cup {Hole}] /\ stage'[e] = p
    BY <1>2, <1>8, <2>1 DEF TypeOK
  <2>3. TypeOK'
    BY <1>1, <1>2, <1>9, <1>12, <2>1, <2>2 DEF TypeOK, RamTypeOK
  <2>4. ImportedFrom(e)' = Cut(req'[e], base'[e])
    BY <1>1, <1>11, <1>13, <2>2 DEF ImportedFrom, p
  <2>5. EngineAt(e)'
    BY <1>1, <1>4, <1>11, <2>4 DEF EngineAt
  <2>6. OnlyEngine(e)
    BY <1>1, <1>10, <1>11, <2>1 DEF OnlyEngine
  <2>7. BlobInv'
    <3>1. \A g \in Engine : ramHit'[g] = ramHit[g] \/ ramHit'[g] = NoBlob
      BY <1>11, <1>13
    <3>2. \A g \in Engine : slot'[g] = slot[g]
      BY <1>11, <1>13
    <3> QED BY <1>1, <1>2, <1>10, <2>1, <3>1, <3>2 DEF BlobInv, Buffer
  <2> QED BY <1>2, <1>9, <2>3, <2>5, <2>6, <2>7, EnginesKept DEF TiersInv
<1>14. CASE slot[e] # NoBlob
  <2>1. /\ mem' = [mem EXCEPT ![slot[e]] = p]
        /\ lru' = PublishedLru(lru, toks, slot[e], p)
        /\ toks' = [toks EXCEPT ![slot[e]] = p] /\ stage' = stage
    BY <1>3, <1>6, <1>14
  <2>2. slot[e] \in Blob
    BY <1>2, <1>14 DEF TypeOK
  <2>3. /\ mem'[slot[e]] = p
        /\ \A b \in Blob : b # slot[e] => mem'[b] = mem[b]
        /\ \A g \in Engine : ramHit[g] # NoBlob => mem'[ramHit[g]] = mem[ramHit[g]]
        /\ \A g \in Engine : wslot[g] # NoBlob => mem'[wslot[g]] = mem[wslot[g]]
    BY <1>2, <1>14, <2>1, FilledKeeps
  <2>4. toks'[slot[e]] = p /\ \A b \in Blob : b # slot[e] => toks'[b] = toks[b]
    BY <1>2, <2>1, <2>2 DEF TypeOK
  <2>5. TypeOK'
    <3>1. RamTypeOK'
      <4>1. lru' \in Seq(Blob) /\ IsInjective(lru')
        BY <1>2, <2>1, <2>2, PublishedKeeps DEF TypeOK, RamTypeOK
      <4> QED BY <1>1, <1>2, <4>1 DEF TypeOK, RamTypeOK
    <3>2. toks' \in [Blob -> Prefix \cup {<<>>}] /\ mem' \in [Blob -> Prefix \cup {Hole}]
      BY <1>2, <1>8, <2>1 DEF TypeOK
    <3> QED BY <1>1, <1>2, <1>9, <1>12, <2>1, <3>1, <3>2 DEF TypeOK
  <2>6. ImportedFrom(e)' = Cut(req'[e], base'[e])
    BY <1>1, <1>11, <1>14, <2>3 DEF ImportedFrom, p
  <2>7. EngineAt(e)'
    BY <1>1, <1>4, <1>11, <2>6 DEF EngineAt
  <2>8. OnlyEngine(e)
    BY <1>1, <1>10, <1>11, <2>1, <2>3 DEF OnlyEngine
  <2>9. BlobInv'
    <3>1. \A b \in Blob : toks'[b] # <<>> => mem'[b] = toks'[b]
      BY <1>2, <2>3, <2>4 DEF BlobInv
    <3>2. ASSUME NEW d \in Engine, slot'[d] # NoBlob
          PROVE  /\ toks'[slot'[d]] = <<>>
                 /\ \A f1 \in Engine : slot'[d] # ramHit'[f1] /\ slot'[d] # wslot'[f1]
                                       /\ (f1 # d => slot'[d] # slot'[f1])
      <4>1. d # e /\ slot'[d] = slot[d] /\ slot[d] # NoBlob
        BY <1>11, <3>2
      <4>2. /\ toks[slot[d]] = <<>>
            /\ \A f1 \in Engine : slot[d] # ramHit[f1] /\ slot[d] # wslot[f1]
                                  /\ (f1 # d => slot[d] # slot[f1])
        BY <1>2, <4>1 DEF BlobInv
      <4>3. slot[d] # slot[e] /\ slot[d] \in Blob
        BY <1>2, <4>1, <4>2 DEF TypeOK
      <4>4. toks'[slot[d]] = <<>>
        BY <2>4, <4>2, <4>3
      <4> QED BY <1>1, <1>11, <4>1, <4>2, <4>3, <4>4
    <3>3. \A w \in Engine : (wslot'[w] # NoBlob => wpc'[w] # "idle")
                            /\ (wpc'[w] # "idle" => Buffer(w)' = wtoks'[w])
      BY <1>1, <1>2, <1>10, <2>3 DEF BlobInv, Buffer
    <3> QED BY <3>1, <3>2, <3>3 DEF BlobInv
  <2> QED BY <1>2, <1>9, <2>5, <2>7, <2>8, <2>9, EnginesKept DEF TiersInv
<1> QED BY <1>13, <1>14

LEMMA ReadFailsKeeps ==
  ASSUME TiersInv, NEW e \in Engine, ReadFails(e)
  PROVE  TiersInv'
<1>1. /\ epc[e] = "read" /\ gpu' = gpu /\ served' = served
      /\ epc' = [epc EXCEPT ![e] = "chunks"] /\ lastPersist' = [lastPersist EXCEPT ![e] = 0]
      /\ slot' = [slot EXCEPT ![e] = NoBlob] /\ cands' = [cands EXCEPT ![e] = {}]
      /\ slot[e] = NoBlob => mem' = mem
      /\ slot[e] # NoBlob => mem' = [mem EXCEPT ![slot[e]] = Hole]
      /\ UNCHANGED <<lru, slots, toks, wslot, wstage, req, base, ramHit, stage, snap, crashes>>
      /\ UNCHANGED cacheVars
  BY DEF ReadFails, At, Go, handoffVars
<1>2. TypeOK /\ EngineAt(e) /\ FileInv /\ BlobInv /\ \A f \in Engine : EngineAt(f)
  BY DEF TiersInv
<1>3. FileInv' /\ CacheTypeOK'
  <2>1. \A w \in Engine : cands'[w] \subseteq cands[w] \cup index
    BY <1>1, <1>2 DEF TypeOK
  <2> QED BY <1>1, <1>2, <2>1, FilesKept, CacheTypeKept DEF TypeOK
<1>4. UNCHANGED <<wpc, wtoks, data, final>>
  BY <1>1 DEF cacheVars, writerVars, fileVars
<1>5. /\ epc'[e] = "chunks" /\ slot'[e] = NoBlob /\ cands'[e] = {}
      /\ \A f \in Engine : f # e =>
           epc'[f] = epc[f] /\ slot'[f] = slot[f] /\ cands'[f] = cands[f]
  BY <1>1, <1>2 DEF TypeOK
<1>6. /\ \A f \in Engine : ramHit[f] # NoBlob => mem'[ramHit[f]] = mem[ramHit[f]]
      /\ \A f \in Engine : wslot[f] # NoBlob => mem'[wslot[f]] = mem[wslot[f]]
      /\ \A b \in Blob : toks[b] # <<>> => mem'[b] = mem[b]
  <2>1. CASE slot[e] = NoBlob
    BY <1>1, <2>1
  <2>2. CASE slot[e] # NoBlob
    <3>1. toks[slot[e]] = <<>>
      BY <1>2, <2>2 DEF BlobInv
    <3>2. mem' = [mem EXCEPT ![slot[e]] = Hole]
      BY <1>1, <2>2
    <3> QED BY <1>2, <2>2, <3>1, <3>2, FilledKeeps
  <2> QED BY <2>1, <2>2
<1>7. TypeOK'
  <2>1. mem' \in [Blob -> Prefix \cup {Hole}]
    BY <1>1, <1>2 DEF TypeOK
  <2>2. epc' \in [Engine -> EnginePc] /\ cands' \in [Engine -> SUBSET Name]
        /\ slot' \in [Engine -> Blob \cup {NoBlob}]
    BY <1>1, <1>2 DEF TypeOK, EnginePc
  <2>3. lastPersist' \in [Engine -> Nat]
    BY <1>1, <1>2 DEF TypeOK
  <2> QED BY <1>1, <1>2, <1>3, <2>1, <2>2, <2>3 DEF TypeOK, RamTypeOK
<1>8. EngineAt(e)'
  <2>1. ramHit[e] = NoBlob /\ req[e] \in Conv[e]
    BY <1>1, <1>2 DEF EngineAt
  <2> QED BY <1>1, <1>5, <2>1 DEF EngineAt
<1>9. OnlyEngine(e)
  BY <1>1, <1>4, <1>5, <1>6 DEF OnlyEngine
<1>10. BlobInv'
  <2>1. \A f \in Engine : slot'[f] = slot[f] \/ slot'[f] = NoBlob
    BY <1>5
  <2>2. \A b \in Blob : toks'[b] # <<>> => mem'[b] = toks'[b]
    BY <1>1, <1>2, <1>6 DEF BlobInv
  <2>3. \A w \in Engine : (wslot'[w] # NoBlob => wpc'[w] # "idle")
                          /\ (wpc'[w] # "idle" => Buffer(w)' = wtoks'[w])
    BY <1>1, <1>2, <1>4, <1>6 DEF BlobInv, Buffer
  <2> QED BY <1>1, <1>2, <2>1, <2>2, <2>3 DEF BlobInv
<1> QED BY <1>2, <1>3, <1>7, <1>8, <1>9, <1>10, EnginesKept DEF TiersInv

LEMMA ImportKeeps ==
  ASSUME TiersInv, NEW e \in Engine, Import(e)
  PROVE  TiersInv'
<1>1. /\ epc[e] = "import" /\ gpu' = gpu /\ served' = served
      /\ epc' = [epc EXCEPT ![e] = "chunks"] /\ ramHit' = [ramHit EXCEPT ![e] = NoBlob]
      /\ UNCHANGED <<lru, slots, toks, mem, wslot, wstage, req, base, cands, slot, stage,
                     lastPersist, snap, crashes>>
      /\ UNCHANGED cacheVars
  BY DEF Import, At, Go, ramVars, handoffVars
<1>2. TypeOK /\ EngineAt(e) /\ FileInv /\ BlobInv /\ \A f \in Engine : EngineAt(f)
  BY DEF TiersInv
<1>3. FileInv' /\ CacheTypeOK'
  BY <1>1, <1>2, FilesKept, CacheTypeKept DEF TypeOK
<1>4. UNCHANGED <<wpc, wtoks, data, final>>
  BY <1>1 DEF cacheVars, writerVars, fileVars
<1>5. /\ epc'[e] = "chunks" /\ ramHit'[e] = NoBlob
      /\ \A f \in Engine : f # e => epc'[f] = epc[f] /\ ramHit'[f] = ramHit[f]
  BY <1>1, <1>2 DEF TypeOK
<1>6. TypeOK'
  BY <1>1, <1>2, <1>3 DEF TypeOK, RamTypeOK, EnginePc
<1>7. EngineAt(e)'
  <2>1. cands[e] = {} /\ slot[e] = NoBlob /\ req[e] \in Conv[e]
    BY <1>1, <1>2 DEF EngineAt
  <2> QED BY <1>1, <1>5, <2>1 DEF EngineAt
<1>8. OnlyEngine(e)
  BY <1>1, <1>4, <1>5 DEF OnlyEngine
<1>9. BlobInv'
  <2>1. \A f \in Engine : ramHit'[f] = ramHit[f] \/ ramHit'[f] = NoBlob
    BY <1>5
  <2> QED BY <1>1, <1>2, <1>4, <2>1 DEF BlobInv, Buffer
<1> QED BY <1>2, <1>3, <1>6, <1>7, <1>8, <1>9, EnginesKept DEF TiersInv

-----------------------------------------------------------------------------
(* Persisting *)

(* What a step of engine e that may persist does to the tiers. *)
Stored(e) ==
  /\ CacheTypeOK' /\ RamTypeOK' /\ FileInv' /\ BlobInv'
  /\ toks' \in [Blob -> Prefix \cup {<<>>}] /\ mem' \in [Blob -> Prefix \cup {Hole}]
  /\ wslot' \in [Engine -> Blob \cup {NoBlob}] /\ wstage' \in [Engine -> Prefix \cup {Hole}]
  /\ lastPersist' \in [Engine -> Nat]
  /\ UNCHANGED <<data, final>>
  /\ \A f \in Engine : ramHit[f] # NoBlob => mem'[ramHit[f]] = mem[ramHit[f]]

LEMMA PersistKeeps ==
  ASSUME TiersInv, NEW e \in Engine, NEW L \in Nat, Cut(req[e], L) \in Persisted(e),
         cands[e] = {}, ShouldPersist(e, L), Persist(e, L), UNCHANGED <<cands, slot, ramHit>>
  PROVE  Stored(e)
<1> DEFINE p == Cut(req[e], L)
<1>1. /\ wpc[e] = "idle" /\ NameOf(p) \notin index
      /\ wpc' = [wpc EXCEPT ![e] = "open"] /\ wtoks' = [wtoks EXCEPT ![e] = p]
      /\ UNCHANGED <<data, synced, tmp, final, index, mtime, clock, wfd, woff, doomed>>
      /\ lastPersist' = [lastPersist EXCEPT ![e] = L]
  BY DEF ShouldPersist, Has, Persist, StartWrite, fileVars, indexVars
<1>2. TypeOK /\ FileInv /\ BlobInv /\ \A f \in Engine : EngineAt(f)
  BY DEF TiersInv
<1>3. PICK g \in Grants(Held) :
        /\ slots' = g.slots /\ wslot' = [wslot EXCEPT ![e] = g.blob]
        /\ g.blob = NoBlob => /\ wstage' = [wstage EXCEPT ![e] = p] /\ lru' = g.lru
                              /\ UNCHANGED <<toks, mem>>
        /\ g.blob # NoBlob => /\ mem' = [mem EXCEPT ![g.blob] = p]
                              /\ lru' = PublishedLru(g.lru, toks, g.blob, p)
                              /\ toks' = [toks EXCEPT ![g.blob] = p] /\ wstage' = wstage
  BY DEF Persist
<1>4. /\ g.slots \in 0 .. MaxSlots /\ g.lru \in Seq(Blob) /\ IsInjective(g.lru)
      /\ g.blob = NoBlob \/ (g.blob \in Blob /\ g.blob \notin Held)
  BY <1>2, GrantsGive
<1>5. p \in Persisted(e) /\ p \in Prefix
  BY PersistedFacts
<1> DEFINE b == g.blob
<1>6. /\ b \in Blob \cup {NoBlob} /\ (b # NoBlob => b \notin Held)
      /\ wslot' = [wslot EXCEPT ![e] = b]
      /\ b = NoBlob => wstage' = [wstage EXCEPT ![e] = p] /\ UNCHANGED <<toks, mem>>
      /\ b # NoBlob => /\ mem' = [mem EXCEPT ![b] = p] /\ toks' = [toks EXCEPT ![b] = p]
                       /\ wstage' = wstage
  BY <1>3, <1>4
<1>7. RamTypeOK'
  <2>1. lru' \in Seq(Blob) /\ IsInjective(lru')
    BY <1>3, <1>4, PublishedKeeps
  <2> QED BY <1>3, <1>4, <2>1 DEF RamTypeOK
<1> HIDE DEF p, b
<1>8. /\ wpc'[e] = "open" /\ wtoks'[e] = p
      /\ \A w \in Engine : w # e => wpc'[w] = wpc[w] /\ wtoks'[w] = wtoks[w]
  BY <1>1, <1>2 DEF TypeOK, CacheTypeOK
<1>9. CacheTypeOK'
  <2>1. wpc' \in [Engine -> WriterPc] /\ wtoks' \in [Engine -> Prefix \cup {<<>>}]
    BY <1>1, <1>2, <1>5 DEF TypeOK, CacheTypeOK, WriterPc
  <2> QED BY <1>1, <1>2, <2>1 DEF TypeOK, CacheTypeOK
<1>10. /\ toks' \in [Blob -> Prefix \cup {<<>>}] /\ mem' \in [Blob -> Prefix \cup {Hole}]
       /\ wslot' \in [Engine -> Blob \cup {NoBlob}] /\ wstage' \in [Engine -> Prefix \cup {Hole}]
       /\ lastPersist' \in [Engine -> Nat]
  <2>1. toks' \in [Blob -> Prefix \cup {<<>>}] /\ mem' \in [Blob -> Prefix \cup {Hole}]
    <3>1. toks \in [Blob -> Prefix \cup {<<>>}] /\ mem \in [Blob -> Prefix \cup {Hole}]
      BY <1>2 DEF TypeOK
    <3>2. CASE b = NoBlob
      BY <1>6, <3>1, <3>2
    <3>3. CASE b # NoBlob
      <4>1. mem' = [mem EXCEPT ![b] = p] /\ toks' = [toks EXCEPT ![b] = p]
        BY <1>6, <3>3
      <4> QED BY <1>5, <3>1, <4>1
    <3> QED BY <3>2, <3>3
  <2>2. wslot' \in [Engine -> Blob \cup {NoBlob}] /\ wstage' \in [Engine -> Prefix \cup {Hole}]
    <3>1. /\ wslot \in [Engine -> Blob \cup {NoBlob}] /\ wstage \in [Engine -> Prefix \cup {Hole}]
          /\ p \in Prefix
      BY <1>2, <1>5 DEF TypeOK
    <3>2. wslot' \in [Engine -> Blob \cup {NoBlob}]
      BY <1>6, <3>1
    <3>3. wstage' = wstage \/ wstage' = [wstage EXCEPT ![e] = p]
      BY <1>6
    <3>4. wstage' \in [Engine -> Prefix \cup {Hole}]
      BY <3>1, <3>3
    <3> QED BY <3>2, <3>4
  <2>3. lastPersist' \in [Engine -> Nat]
    BY <1>1, <1>2 DEF TypeOK
  <2> QED BY <2>1, <2>2, <2>3
<1>11. FileInv'
  <2>1. ASSUME NEW w \in Engine PROVE WriterAt(w)'
    <3>1. WriterAt(w)
      BY <1>2 DEF FileInv
    <3>2. CASE w = e
      <4>1. wfd[w] = Nothing /\ doomed[w] = {}
        BY <1>1, <3>1, <3>2 DEF WriterAt
      <4>2. NameAt(w)' = NameOf(p) /\ NameOf(p) \notin index \cup cands[e]
        BY <1>1, <1>8, <3>2 DEF NameAt, p
      <4> QED BY <1>1, <1>5, <1>8, <3>2, <4>1, <4>2 DEF WriterAt
    <3>3. CASE w # e
      <4>1. wpc'[w] = wpc[w] /\ wtoks'[w] = wtoks[w] /\ NameAt(w)' = NameAt(w)
        BY <1>8, <3>3 DEF NameAt
      <4> QED BY <1>1, <3>1, <4>1 DEF WriterAt, Entry
    <3> QED BY <3>2, <3>3
  <2>2. \A w \in Engine : wpc[w] \in {"write", "rename", "fail", "index"} =>
          wpc'[w] = wpc[w] /\ NameAt(w)' = NameAt(w)
    BY <1>1, <1>8 DEF NameAt
  <2>3. TmpOwned'
    BY <1>1, <1>2, <2>2 DEF FileInv, TmpOwned
  <2>4. FinalKept'
    BY <1>1, <1>2, <2>2 DEF FileInv, FinalKept
  <2>5. FinalWhole' /\ LinkedOnce'
    BY <1>1, <1>2 DEF FileInv, FinalWhole, LinkedOnce, Entry
  <2> QED BY <2>1, <2>3, <2>4, <2>5 DEF FileInv
<1>12. \A f \in Engine : b # NoBlob => b # ramHit[f] /\ b # wslot[f] /\ b # slot[f]
  BY <1>6 DEF Held
<1>13. \A c \in Blob : (c = b /\ mem'[c] = p /\ toks'[c] = p)
                       \/ (c # b /\ mem'[c] = mem[c] /\ toks'[c] = toks[c])
  <2>1. NoBlob \notin Blob
    BY DEF NoBlob, Blob
  <2> QED BY <1>2, <1>6, <2>1 DEF TypeOK
<1>14. \A f \in Engine : ramHit[f] # NoBlob => mem'[ramHit[f]] = mem[ramHit[f]]
  <2>1. \A f \in Engine : ramHit[f] \in Blob \cup {NoBlob}
    BY <1>2 DEF TypeOK
  <2>2. \A f \in Engine : ramHit[f] # NoBlob => ramHit[f] # b
    BY <1>12
  <2> QED BY <1>13, <2>1, <2>2
<1>15. wslot'[e] = b /\ \A f \in Engine : f # e => wslot'[f] = wslot[f]
  BY <1>2, <1>6 DEF TypeOK
<1>16. BlobInv'
  <2>1. \A c \in Blob : toks'[c] # <<>> => mem'[c] = toks'[c]
    BY <1>2, <1>13 DEF BlobInv
  <2>2. ASSUME NEW d \in Engine, slot'[d] # NoBlob
        PROVE  /\ toks'[slot'[d]] = <<>>
               /\ \A f \in Engine : slot'[d] # ramHit'[f] /\ slot'[d] # wslot'[f]
                                    /\ (f # d => slot'[d] # slot'[f])
    <3>1. slot'[d] = slot[d] /\ slot[d] # NoBlob /\ slot[d] \in Blob
      BY <1>2, <2>2 DEF TypeOK
    <3>2. /\ toks[slot[d]] = <<>>
          /\ \A f \in Engine : slot[d] # ramHit[f] /\ slot[d] # wslot[f]
                               /\ (f # d => slot[d] # slot[f])
      BY <1>2, <3>1 DEF BlobInv
    <3>3. slot[d] # b
      BY <1>12, <3>1
    <3>4. toks'[slot[d]] = <<>>
      BY <1>13, <3>1, <3>2, <3>3
    <3>5. \A f \in Engine : slot[d] # wslot'[f]
      BY <1>15, <3>2, <3>3
    <3> QED BY <3>1, <3>2, <3>4, <3>5
  <2>3. ASSUME NEW w \in Engine
        PROVE  (wslot'[w] # NoBlob => wpc'[w] # "idle") /\ (wpc'[w] # "idle" => Buffer(w)' = wtoks'[w])
    <3>1. CASE w = e
      <4>1. wstage \in [Engine -> Prefix \cup {Hole}] /\ (b # NoBlob => b \in Blob)
        BY <1>2, <1>6 DEF TypeOK
      <4>2. b # NoBlob => mem'[b] = p
        BY <1>13, <4>1
      <4>3. b = NoBlob => wstage'[e] = p
        BY <1>6, <4>1
      <4> QED BY <1>8, <1>15, <3>1, <4>2, <4>3 DEF Buffer
    <3>2. CASE w # e
      <4>1. /\ wslot'[w] = wslot[w] /\ wpc'[w] = wpc[w] /\ wtoks'[w] = wtoks[w]
            /\ wslot[w] \in Blob \cup {NoBlob}
        BY <1>2, <1>8, <1>15, <3>2 DEF TypeOK
      <4>2. wslot[w] # NoBlob => mem'[wslot[w]] = mem[wslot[w]]
        BY <1>12, <1>13, <4>1
      <4>3. wstage'[w] = wstage[w]
        BY <1>2, <1>6, <3>2 DEF TypeOK
      <4> QED BY <1>2, <4>1, <4>2, <4>3 DEF BlobInv, Buffer
    <3> QED BY <3>1, <3>2
  <2> QED BY <2>1, <2>2, <2>3 DEF BlobInv
<1> QED BY <1>1, <1>7, <1>9, <1>10, <1>11, <1>14, <1>16 DEF Stored

(* The boundary is 0 where there is none. *)
LEMMA PersistAtKeeps ==
  ASSUME TiersInv, NEW e \in Engine, NEW L \in Nat,
         L > 0 => Cut(req[e], L) \in Persisted(e), cands[e] = {}, PersistAt(e, L),
         UNCHANGED <<cands, slot, ramHit>>
  PROVE  Stored(e)
<1>1. CASE L > 0 /\ ShouldPersist(e, L)
  <2>1. Persist(e, L) /\ Cut(req[e], L) \in Persisted(e) /\ ShouldPersist(e, L)
    BY <1>1 DEF PersistAt
  <2> QED BY <2>1, PersistKeeps
<1>2. CASE ~ (L > 0 /\ ShouldPersist(e, L))
  <2>1. UNCHANGED cacheVars /\ UNCHANGED <<lru, slots, toks, mem, wslot, wstage, lastPersist>>
    BY <1>2 DEF PersistAt, ramVars, handoffVars
  <2>2. TypeOK /\ FileInv /\ BlobInv
    BY DEF TiersInv
  <2>3. FileInv' /\ CacheTypeOK'
    BY <2>1, <2>2, FilesKept, CacheTypeKept DEF TypeOK
  <2>4. UNCHANGED <<wpc, wtoks, data, final>>
    BY <2>1 DEF cacheVars, writerVars, fileVars
  <2>5. BlobInv'
    BY <2>1, <2>2, <2>4 DEF BlobInv, Buffer
  <2>6. RamTypeOK'
    BY <2>1, <2>2 DEF TypeOK, RamTypeOK
  <2> QED BY <2>1, <2>2, <2>3, <2>4, <2>5, <2>6 DEF Stored, TypeOK
<1> QED BY <1>1, <1>2

LEMMA BoundaryFacts ==
  ASSUME NEW e \in Engine, NEW q \in Conv[e]
  PROVE  /\ q.sys \in Nat /\ q.stable \in Nat
         /\ q.sys > 0 => Cut(q, q.sys) \in Persisted(e)
         /\ q.stable > 0 => Cut(q, q.stable) \in Persisted(e)
<1>1. /\ q.toks \in Seq(Int) /\ Len(q.toks) \in Nat /\ q.sys \in 0 .. Len(q.toks) - 1
      /\ q.stable \in 0 .. Len(q.toks) - 1
  BY RequestFacts
<1>2. q.sys \in Nat /\ q.stable \in Nat /\ q.sys \in 0 .. Len(q.toks) /\ q.stable \in 0 .. Len(q.toks)
  BY <1>1
<1>3. Len(Cut(q, q.sys)) = q.sys /\ Len(Cut(q, q.stable)) = q.stable /\ Len(<<>>) = 0
  BY <1>1, <1>2, CutFacts
<1>4. (q.sys > 0 => Cut(q, q.sys) # <<>>) /\ (q.stable > 0 => Cut(q, q.stable) # <<>>)
  BY <1>2, <1>3
<1> QED BY <1>2, <1>4 DEF Persisted

LEMMA SystemChunksKeeps ==
  ASSUME TiersInv, NEW e \in Engine, SystemChunks(e)
  PROVE  TiersInv'
<1> DEFINE L == IF base[e] = 0 THEN req[e].sys ELSE 0
<1>1. /\ epc[e] = "chunks" /\ gpu' = Nobody /\ epc' = [epc EXCEPT ![e] = "gap"]
      /\ UNCHANGED <<req, base, cands, slot, ramHit, stage, snap, served, crashes>>
      /\ PersistAt(e, L)
  BY DEF SystemChunks, At, Go
<1>2. TypeOK /\ EngineAt(e) /\ \A f \in Engine : EngineAt(f)
  BY DEF TiersInv
<1>3. req[e] \in Conv[e] /\ cands[e] = {} /\ slot[e] = NoBlob /\ ramHit[e] = NoBlob
  BY <1>1, <1>2 DEF EngineAt
<1>4. L \in Nat /\ (L > 0 => Cut(req[e], L) \in Persisted(e))
  BY <1>3, BoundaryFacts
<1> HIDE DEF L
<1>5. Stored(e)
  BY <1>1, <1>3, <1>4, PersistAtKeeps
<1>6. epc'[e] = "gap" /\ \A f \in Engine : f # e => epc'[f] = epc[f]
  BY <1>1, <1>2 DEF TypeOK
<1>7. epc' \in [Engine -> EnginePc]
  BY <1>1, <1>2 DEF TypeOK, EnginePc
<1>8. TypeOK'
  BY <1>1, <1>2, <1>5, <1>7 DEF TypeOK, Stored
<1>9. EngineAt(e)'
  BY <1>1, <1>3, <1>6 DEF EngineAt
<1>10. OnlyEngine(e)
  BY <1>1, <1>5, <1>6 DEF OnlyEngine, Stored
<1> QED BY <1>2, <1>5, <1>8, <1>9, <1>10, EnginesKept DEF TiersInv, Stored

LEMMA StableChunksKeeps ==
  ASSUME TiersInv, NEW e \in Engine, StableChunks(e)
  PROVE  TiersInv'
<1> DEFINE q == req[e]
           L == IF q.stable > base[e] THEN q.stable ELSE 0
           K == IF q.stable > base[e] THEN q.stable ELSE Len(q.toks) - 1
<1>1. /\ epc[e] = "gap" /\ epc' = [epc EXCEPT ![e] = "idle"]
      /\ req' = [req EXCEPT ![e] = NoRequest] /\ base' = [base EXCEPT ![e] = 0]
      /\ snap' = [snap EXCEPT ![e] = Cut(q, K)]
      /\ UNCHANGED <<cands, slot, ramHit, stage, gpu, served, crashes>>
      /\ PersistAt(e, L)
  BY DEF StableChunks, Go
<1>2. TypeOK /\ EngineAt(e) /\ \A f \in Engine : EngineAt(f)
  BY DEF TiersInv
<1>3. q \in Conv[e] /\ cands[e] = {} /\ slot[e] = NoBlob /\ ramHit[e] = NoBlob
  BY <1>1, <1>2 DEF EngineAt
<1>4. L \in Nat /\ (L > 0 => Cut(q, L) \in Persisted(e))
  BY <1>3, BoundaryFacts
<1>5. Cut(q, K) \in Seq(Int)
  <2>1. q.toks \in Seq(Int) /\ Len(q.toks) \in Nat /\ q.stable \in 0 .. Len(q.toks) - 1
    BY <1>3, RequestFacts
  <2>2. K \in 0 .. Len(q.toks)
    BY <2>1
  <2> QED BY <2>1, <2>2, CutFacts
<1> HIDE DEF L, K
<1>6. Stored(e)
  BY <1>1, <1>3, <1>4, PersistAtKeeps
<1>7. /\ epc'[e] = "idle" /\ base'[e] = 0 /\ req'[e] = NoRequest
      /\ \A f \in Engine : f # e =>
           epc'[f] = epc[f] /\ base'[f] = base[f] /\ req'[f] = req[f]
  BY <1>1, <1>2 DEF TypeOK
<1>8. epc' \in [Engine -> EnginePc] /\ req' \in [Engine -> AllRequests \cup {NoRequest}]
      /\ base' \in [Engine -> Nat] /\ snap' \in [Engine -> Seq(Int)]
  <2>1. epc' \in [Engine -> EnginePc] /\ base' \in [Engine -> Nat]
    BY <1>1, <1>2 DEF TypeOK, EnginePc
  <2>2. req' \in [Engine -> AllRequests \cup {NoRequest}] /\ snap' \in [Engine -> Seq(Int)]
    BY <1>1, <1>2, <1>5 DEF TypeOK
  <2> QED BY <2>1, <2>2
<1>9. \A f \in Engine : base'[f] <= Len(req'[f].toks)
  <2>1. Len(NoRequest.toks) = 0
    BY DEF NoRequest
  <2>2. \A f \in Engine : f # e => base'[f] <= Len(req'[f].toks)
    BY <1>2, <1>7 DEF TypeOK
  <2>3. base'[e] <= Len(req'[e].toks)
    BY <1>7, <2>1
  <2> QED BY <2>2, <2>3
<1>10. TypeOK'
  BY <1>1, <1>2, <1>6, <1>8, <1>9 DEF TypeOK, Stored
<1>11. EngineAt(e)'
  BY <1>1, <1>3, <1>7 DEF EngineAt
<1>12. OnlyEngine(e)
  BY <1>1, <1>6, <1>7 DEF OnlyEngine, Stored
<1> QED BY <1>2, <1>6, <1>10, <1>11, <1>12, EnginesKept DEF TiersInv, Stored

-----------------------------------------------------------------------------
(* The writer threads *)

(* What a step of w's writer thread does to the cache. *)
Streamed(w) ==
  /\ CacheTypeOK' /\ FileInv' /\ wpc[w] # "idle" /\ wtoks' = wtoks
  /\ \A f \in Engine : f # w => wpc'[f] = wpc[f]
  /\ \A f \in Engine : epc[f] \in {"acquire", "read"} => Verified(f)'

LEMMA StreamedKeeps ==
  ASSUME TiersInv, NEW w \in Engine, Streamed(w),
         wslot' = [wslot EXCEPT ![w] = IF wpc'[w] = "idle" THEN NoBlob ELSE @],
         UNCHANGED <<ramVars, engineVars, wstage, gpu, served, crashes>>
  PROVE  TiersInv'
<1>1. /\ UNCHANGED <<lru, slots, toks, mem, epc, req, base, cands, slot, ramHit, stage, lastPersist,
                     snap, wstage, gpu, served, crashes>>
  BY DEF ramVars, engineVars
<1>2. TypeOK /\ BlobInv /\ \A f \in Engine : EngineAt(f)
  BY DEF TiersInv
<1>3. wslot' \in [Engine -> Blob \cup {NoBlob}]
      /\ (wpc'[w] = "idle" => wslot'[w] = NoBlob) /\ (wpc'[w] # "idle" => wslot'[w] = wslot[w])
      /\ \A f \in Engine : f # w => wslot'[f] = wslot[f]
  BY <1>2 DEF TypeOK
<1>4. TypeOK'
  BY <1>1, <1>2, <1>3 DEF TypeOK, RamTypeOK, Streamed
<1>5. \A f \in Engine : EngineAt(f)'
  <2> SUFFICES ASSUME NEW f \in Engine PROVE EngineAt(f)'
    OBVIOUS
  <2>1. EngineAt(f) /\ (epc[f] \in {"acquire", "read"} => Verified(f)')
    BY <1>2 DEF Streamed
  <2> QED BY <1>1, <2>1, EngineKept
<1>6. BlobInv'
  <2>1. \A f \in Engine : wslot'[f] = wslot[f] \/ wslot'[f] = NoBlob
    BY <1>3
  <2>2. ASSUME NEW d \in Engine, slot'[d] # NoBlob
        PROVE  /\ toks'[slot'[d]] = <<>>
               /\ \A f \in Engine : slot'[d] # ramHit'[f] /\ slot'[d] # wslot'[f]
                                    /\ (f # d => slot'[d] # slot'[f])
    BY <1>1, <1>2, <2>1, <2>2 DEF BlobInv
  <2>3. ASSUME NEW f \in Engine
        PROVE  (wslot'[f] # NoBlob => wpc'[f] # "idle") /\ (wpc'[f] # "idle" => Buffer(f)' = wtoks'[f])
    <3>1. (wslot[f] # NoBlob => wpc[f] # "idle") /\ (wpc[f] # "idle" => Buffer(f) = wtoks[f])
      BY <1>2 DEF BlobInv
    <3>2. wtoks' = wtoks /\ wpc[w] # "idle" /\ (f # w => wpc'[f] = wpc[f])
      BY DEF Streamed
    <3> QED BY <1>1, <1>3, <3>1, <3>2 DEF Buffer
  <2> QED BY <1>1, <1>2, <2>2, <2>3 DEF BlobInv
<1> QED BY <1>4, <1>5, <1>6 DEF TiersInv, Streamed

LEMMA NamesApart ==
  ASSUME WritersApart, NEW w \in Engine, NEW f \in Engine, w # f,
         wpc[w] # "idle", wpc[f] # "idle"
  PROVE  NameAt(w) # NameAt(f)
  BY DEF WritersApart, NameAt

LEMMA NameAtFacts ==
  ASSUME FileInv, NEW w \in Engine, wpc[w] # "idle"
  PROVE  NameAt(w) \in Name /\ wtoks[w] \in Persisted(w) /\ wtoks[w] \in Prefix
<1>1. wtoks[w] \in Persisted(w)
  BY DEF FileInv, WriterAt
<1> QED BY <1>1, PersistedFacts DEF NameAt

(* A writer that another one's step does not touch. *)
LEMMA WriterKept ==
  ASSUME NEW f \in Engine, WriterAt(f),
         wpc'[f] = wpc[f], wtoks'[f] = wtoks[f], wfd'[f] = wfd[f], woff'[f] = woff[f],
         doomed'[f] = doomed[f], cands'[f] = cands[f],
         wpc[f] \in {"write", "rename"} =>
           /\ tmp'[NameAt(f)] = tmp[NameAt(f)]
           /\ data'[tmp[NameAt(f)]] = data[tmp[NameAt(f)]]
           /\ synced'[tmp[NameAt(f)]] = synced[tmp[NameAt(f)]],
         wpc[f] # "idle" /\ NameAt(f) \notin index => NameAt(f) \notin index'
  PROVE  WriterAt(f)'
<1>1. NameAt(f)' = NameAt(f)
  BY DEF NameAt
<1>2. wpc[f] = "write" => /\ wfd'[f] = tmp'[NameAt(f)] /\ wfd'[f] # Nothing
                          /\ Len(data'[wfd'[f]]) = woff'[f]
                          /\ \A j \in 1 .. woff'[f] : data'[wfd'[f]][j] = wtoks'[f]
  BY DEF WriterAt
<1>3. wpc[f] = "rename" => /\ tmp'[NameAt(f)] # Nothing
                           /\ synced'[tmp'[NameAt(f)]]
                           /\ Len(data'[tmp'[NameAt(f)]]) = Parts
                           /\ \A j \in 1 .. Parts : data'[tmp'[NameAt(f)]][j] = wtoks'[f]
  BY DEF WriterAt, Entry
<1>4. wpc'[f] \in {"open", "write", "rename"} => NameAt(f)' \notin index' \cup cands'[f]
  BY <1>1 DEF WriterAt
<1>5. /\ wpc'[f] # "idle" => wtoks'[f] \in Persisted(f)
      /\ wpc'[f] # "write" => wfd'[f] = Nothing
      /\ wpc'[f] # "unlink" => doomed'[f] = {}
  BY DEF WriterAt
<1> QED BY <1>1, <1>2, <1>3, <1>4, <1>5 DEF WriterAt, Entry

(* A step that leaves alone what the final names refer to. *)
LEMMA FinalsKept ==
  ASSUME TypeOK, FileInv, NEW i \in Inode \cup {Nothing},
         \A m \in Name : final[m] # Nothing => final[m] # i,
         \A j \in Inode : j # i => data'[j] = data[j] /\ synced'[j] = synced[j],
         UNCHANGED <<final, cands, req>>, \A f \in Engine : EngineAt(f)
  PROVE  FinalWhole' /\ \A f \in Engine : epc[f] \in {"acquire", "read"} => Verified(f)'
<1>1. \A m \in Name : final[m] # Nothing =>
        data'[final[m]] = data[final[m]] /\ synced'[final[m]] = synced[final[m]]
  BY DEF TypeOK, CacheTypeOK
<1>2. FinalWhole'
  BY <1>1 DEF FileInv, FinalWhole, Entry
<1>3. ASSUME NEW f \in Engine, Verified(f) PROVE Verified(f)'
  <2>1. cands[f] \subseteq Name
    BY DEF TypeOK
  <2> QED BY <1>1, <1>3, <2>1 DEF Verified, Entry
<1>4. \A f \in Engine : epc[f] \in {"acquire", "read"} => Verified(f)
  BY DEF EngineAt
<1> QED BY <1>2, <1>3, <1>4

LEMMA OpenTmpKeeps ==
  ASSUME WritersApart, TiersInv, NEW w \in Engine, OpenTmp(w), UNCHANGED <<cands, req>>
  PROVE  Streamed(w)
<1> DEFINE n == NameAt(w)
           i == CHOOSE u \in Unused : \A v \in Unused : u <= v
<1>1. TypeOK /\ FileInv /\ \A f \in Engine : EngineAt(f)
  BY DEF TiersInv
<1>2. wpc[w] = "open"
  BY DEF OpenTmp
<1>3. n \in Name /\ wtoks[w] \in Persisted(w) /\ WriterAt(w)
  BY <1>1, <1>2, NameAtFacts DEF FileInv
<1>4. tmp[n] = Nothing
  <2> SUFFICES ASSUME tmp[n] # Nothing PROVE FALSE
    OBVIOUS
  <2>1. PICK f \in Engine : wpc[f] \in {"write", "rename", "fail"} /\ NameAt(f) = n
    BY <1>1, <1>3 DEF FileInv, TmpOwned
  <2> QED BY <1>1, <1>2, <2>1, NamesApart
<1>5. i \in Unused
  <2>1. Unused # {}
    BY <1>1, SomeFileUnused
  <2>2. Unused \in SUBSET Nat
    <3>1. Inode \subseteq Nat
      BY DEF Inode
    <3> QED BY <3>1 DEF Unused
  <2> QED BY <2>1, <2>2, LeastNatural
<1>6. /\ data' = [data EXCEPT ![i] = <<>>] /\ synced' = [synced EXCEPT ![i] = FALSE]
      /\ tmp' = [tmp EXCEPT ![n] = i] /\ wfd' = [wfd EXCEPT ![w] = i]
      /\ woff' = [woff EXCEPT ![w] = 0] /\ wpc' = [wpc EXCEPT ![w] = "write"]
      /\ UNCHANGED <<final, index, mtime, clock, wtoks, doomed>>
  BY <1>4 DEF OpenTmp, NameAt, indexVars
<1> HIDE DEF i, n
<1>7. i \in Inode /\ i # Nothing /\ \A m \in Name : tmp[m] # i /\ final[m] # i
  BY <1>5 DEF Unused, Inode, Nothing
<1>8. /\ data'[i] = <<>> /\ \A j \in Inode : j # i => data'[j] = data[j] /\ synced'[j] = synced[j]
      /\ tmp'[n] = i /\ \A m \in Name : m # n => tmp'[m] = tmp[m]
      /\ wfd'[w] = i /\ woff'[w] = 0 /\ wpc'[w] = "write"
      /\ \A f \in Engine : f # w => wfd'[f] = wfd[f] /\ woff'[f] = woff[f] /\ wpc'[f] = wpc[f]
  BY <1>1, <1>3, <1>6, <1>7 DEF TypeOK, CacheTypeOK
<1>9. CacheTypeOK'
  <2>1. data' \in [Inode -> Seq(Prefix \cup {Hole})] /\ \A j \in Inode : Len(data'[j]) <= Parts
    <3>1. <<>> \in Seq(Prefix \cup {Hole}) /\ Len(<<>>) <= Parts
      BY DEF Parts
    <3>2. data \in [Inode -> Seq(Prefix \cup {Hole})] /\ \A j \in Inode : Len(data[j]) <= Parts
      BY <1>1 DEF TypeOK, CacheTypeOK
    <3>3. data' \in [Inode -> Seq(Prefix \cup {Hole})]
      BY <1>6, <3>1, <3>2
    <3> QED BY <1>8, <3>1, <3>2, <3>3
  <2>2. synced' \in [Inode -> BOOLEAN] /\ tmp' \in [Name -> Inode \cup {Nothing}]
        /\ wfd' \in [Engine -> Inode \cup {Nothing}]
    BY <1>1, <1>6, <1>7 DEF TypeOK, CacheTypeOK
  <2>3. woff' \in [Engine -> 0 .. Parts] /\ wpc' \in [Engine -> WriterPc]
    BY <1>1, <1>6 DEF TypeOK, CacheTypeOK, WriterPc, Parts
  <2> QED BY <1>1, <1>6, <2>1, <2>2, <2>3 DEF TypeOK, CacheTypeOK
<1>10. FinalWhole' /\ \A f \in Engine : epc[f] \in {"acquire", "read"} => Verified(f)'
  <2>1. /\ \A m \in Name : final[m] # Nothing => final[m] # i
        /\ \A j \in Inode : j # i => data'[j] = data[j] /\ synced'[j] = synced[j]
        /\ UNCHANGED <<final, cands, req>> /\ i \in Inode \cup {Nothing}
    BY <1>6, <1>7, <1>8
  <2> QED BY <1>1, <2>1, FinalsKept
<1>11. ASSUME NEW f \in Engine PROVE WriterAt(f)'
  <2>1. CASE f = w
    <3>1. NameAt(w)' = n /\ n \notin index \cup cands[w] /\ doomed[w] = {}
      BY <1>2, <1>3, <1>6 DEF NameAt, n, WriterAt
    <3>2. Len(data'[i]) = 0 /\ 1 .. 0 = {}
      BY <1>8
    <3> QED BY <1>3, <1>6, <1>7, <1>8, <2>1, <3>1, <3>2 DEF WriterAt
  <2>2. CASE f # w
    <3>1. WriterAt(f)
      BY <1>1 DEF FileInv
    <3>2. wpc[f] # "idle" => NameAt(f) # n /\ NameAt(f) \in Name
      BY <1>1, <1>2, <2>2, NamesApart, NameAtFacts DEF n
    <3>3. wpc[f] \in {"write", "rename"} =>
            /\ tmp'[NameAt(f)] = tmp[NameAt(f)] /\ tmp[NameAt(f)] \in Inode
            /\ tmp[NameAt(f)] # i
      BY <1>1, <1>7, <1>8, <3>1, <3>2 DEF WriterAt, TypeOK, CacheTypeOK
    <3> QED BY <1>6, <1>8, <2>2, <3>1, <3>3, WriterKept
  <2> QED BY <2>1, <2>2
<1>12. \A f \in Engine : NameAt(f)' = NameAt(f)
  BY <1>6 DEF NameAt
<1>13. TmpOwned'
  <2> SUFFICES ASSUME NEW m \in Name, tmp'[m] # Nothing
               PROVE  \E f \in Engine : wpc'[f] \in {"write", "rename", "fail"} /\ NameAt(f)' = m
    BY DEF TmpOwned
  <2>1. CASE m = n
    BY <1>8, <1>12, <2>1 DEF n
  <2>2. CASE m # n
    <3>1. PICK f \in Engine : wpc[f] \in {"write", "rename", "fail"} /\ NameAt(f) = m
      BY <1>1, <1>8, <2>2 DEF FileInv, TmpOwned
    <3> QED BY <1>2, <1>8, <1>12, <3>1
  <2> QED BY <2>1, <2>2
<1>14. LinkedOnce'
  BY <1>1, <1>6, <1>7, <1>8 DEF FileInv, LinkedOnce
<1>15. FinalKept'
  <2>1. \A f \in Engine : wpc[f] = "index" => wpc'[f] = "index"
    BY <1>2, <1>8
  <2> QED BY <1>1, <1>6, <1>12, <2>1 DEF FileInv, FinalKept
<1> QED BY <1>2, <1>6, <1>8, <1>9, <1>10, <1>11, <1>13, <1>14, <1>15 DEF Streamed, FileInv

LEMMA WrittenNext ==
  ASSUME NEW d \in Seq(Prefix \cup {Hole}), NEW p \in Prefix \cup {Hole}, NEW k \in Nat,
         k = Len(d) + 1
  PROVE  /\ Written(d, k, p) \in Seq(Prefix \cup {Hole}) /\ Len(Written(d, k, p)) = k
         /\ Written(d, k, p)[k] = p
         /\ \A j \in 1 .. Len(d) : Written(d, k, p)[j] = d[j]
<1>1. Len(d) \in Nat /\ k > Len(d) /\ \A j \in 1 .. Len(d) : d[j] \in Prefix \cup {Hole}
  OBVIOUS
<1> DEFINE x == [j \in 1 .. k |-> IF j = k THEN p ELSE IF j <= Len(d) THEN d[j] ELSE Hole]
<1>2. Written(d, k, p) = x
  BY <1>1 DEF Written
<1>3. x \in Seq(Prefix \cup {Hole}) /\ Len(x) = k
  <2>1. \A j \in 1 .. k : x[j] \in Prefix \cup {Hole}
    BY <1>1
  <2> QED BY <1>1, <2>1
<1>4. x[k] = p /\ \A j \in 1 .. Len(d) : x[j] = d[j]
  BY <1>1
<1> QED BY <1>2, <1>3, <1>4

(* A step that writes to, or syncs, the temporary file it has open. *)
LEMMA OthersKept ==
  ASSUME WritersApart, TiersInv, NEW w \in Engine, wpc[w] \in {"write", "rename", "fail"},
         \A j \in Inode : j # tmp[NameAt(w)] => data'[j] = data[j] /\ synced'[j] = synced[j],
         \A m \in Name : m # NameAt(w) => tmp'[m] = tmp[m],
         UNCHANGED <<final, index, wtoks, doomed, cands, req>>,
         \A f \in Engine : f # w => wpc'[f] = wpc[f] /\ wfd'[f] = wfd[f] /\ woff'[f] = woff[f]
  PROVE  /\ FinalWhole' /\ \A f \in Engine : epc[f] \in {"acquire", "read"} => Verified(f)'
         /\ \A f \in Engine : f # w => WriterAt(f)'
         /\ FinalKept'
<1> DEFINE n == NameAt(w)
           i == tmp[n]
<1>1. TypeOK /\ FileInv /\ \A f \in Engine : EngineAt(f)
  BY DEF TiersInv
<1>2. n \in Name /\ i \in Inode \cup {Nothing}
  BY <1>1, NameAtFacts DEF TypeOK, CacheTypeOK
<1>3. \A m \in Name : (final[m] # Nothing => final[m] # i) /\ (m # n /\ tmp[m] # Nothing => tmp[m] # i)
  BY <1>1, <1>2 DEF FileInv, LinkedOnce
<1>4. \A j \in Inode : j # i => data'[j] = data[j] /\ synced'[j] = synced[j]
  OBVIOUS
<1> HIDE DEF n, i
<1>5. FinalWhole' /\ \A f \in Engine : epc[f] \in {"acquire", "read"} => Verified(f)'
  <2>1. \A m \in Name : final[m] # Nothing => final[m] # i
    BY <1>3
  <2>2. UNCHANGED <<final, cands, req>>
    OBVIOUS
  <2> QED BY <1>1, <1>2, <1>4, <2>1, <2>2, FinalsKept
<1>6. ASSUME NEW f \in Engine, f # w PROVE WriterAt(f)'
  <2>1. WriterAt(f)
    BY <1>1 DEF FileInv
  <2>2. wpc[f] # "idle" => NameAt(f) # n /\ NameAt(f) \in Name
    BY <1>1, <1>6, NamesApart, NameAtFacts DEF n
  <2>3. wpc[f] \in {"write", "rename"} => tmp[NameAt(f)] # Nothing
    BY <2>1 DEF WriterAt
  <2>4. wpc[f] \in {"write", "rename"} => tmp[NameAt(f)] \in Inode
    BY <1>1, <2>2, <2>3 DEF TypeOK, CacheTypeOK
  <2>5. wpc[f] \in {"write", "rename"} => tmp[NameAt(f)] # i
    BY <1>3, <2>2, <2>3
  <2>6. wpc[f] \in {"write", "rename"} => tmp'[NameAt(f)] = tmp[NameAt(f)]
    BY <2>2 DEF n
  <2>7. wpc[f] \in {"write", "rename"} =>
          /\ tmp'[NameAt(f)] = tmp[NameAt(f)]
          /\ data'[tmp[NameAt(f)]] = data[tmp[NameAt(f)]]
          /\ synced'[tmp[NameAt(f)]] = synced[tmp[NameAt(f)]]
    BY <1>4, <2>4, <2>5, <2>6
  <2>8. /\ wpc'[f] = wpc[f] /\ wtoks'[f] = wtoks[f] /\ wfd'[f] = wfd[f] /\ woff'[f] = woff[f]
        /\ doomed'[f] = doomed[f] /\ cands'[f] = cands[f] /\ index' = index
    BY <1>6
  <2> QED BY <2>1, <2>7, <2>8, WriterKept
<1>7. FinalKept'
  <2>1. \A f \in Engine : wpc[f] = "index" => wpc'[f] = "index"
    OBVIOUS
  <2>2. \A f \in Engine : NameAt(f)' = NameAt(f)
    BY DEF NameAt
  <2>3. UNCHANGED <<final, index, doomed>>
    OBVIOUS
  <2> QED BY <1>1, <2>1, <2>2, <2>3 DEF FileInv, FinalKept
<1> QED BY <1>5, <1>6, <1>7

LEMMA WritePartKeeps ==
  ASSUME WritersApart, TiersInv, NEW w \in Engine, WritePart(w, Buffer(w)), UNCHANGED <<cands, req>>
  PROVE  Streamed(w)
<1> DEFINE n == NameAt(w)
           i == wfd[w]
           k == woff[w] + 1
<1>1. TypeOK /\ FileInv /\ BlobInv
  BY DEF TiersInv
<1>2. wpc[w] = "write" /\ woff[w] < Parts
  BY DEF WritePart
<1>3. n \in Name /\ wtoks[w] \in Persisted(w) /\ wtoks[w] \in Prefix /\ WriterAt(w)
  BY <1>1, <1>2, NameAtFacts DEF FileInv
<1>4. /\ i = tmp[n] /\ i # Nothing /\ Len(data[i]) = woff[w]
      /\ \A j \in 1 .. woff[w] : data[i][j] = wtoks[w]
  BY <1>2, <1>3 DEF WriterAt
<1>5. i \in Inode /\ woff[w] \in 0 .. Parts
  BY <1>1, <1>3, <1>4 DEF TypeOK, CacheTypeOK
<1>6. Buffer(w) = wtoks[w]
  BY <1>1, <1>2 DEF BlobInv
<1> DEFINE d == Written(data[i], k, wtoks[w])
<1>7. /\ data' = [data EXCEPT ![i] = d] /\ synced' = [synced EXCEPT ![i] = FALSE]
      /\ woff' = [woff EXCEPT ![w] = k]
      /\ UNCHANGED <<tmp, final, index, mtime, clock, wpc, wtoks, wfd, doomed>>
  <2>1. (IF k <= 2 THEN wtoks[w] ELSE Buffer(w)) = wtoks[w]
    BY <1>6
  <2> QED BY <2>1 DEF WritePart, indexVars
<1>8. k \in 0 .. Parts /\ k = woff[w] + 1
  BY <1>2, <1>5 DEF Parts
<1>9. /\ d \in Seq(Prefix \cup {Hole}) /\ Len(d) = k /\ d[k] = wtoks[w]
      /\ \A j \in 1 .. woff[w] : d[j] = data[i][j]
  <2>1. data[i] \in Seq(Prefix \cup {Hole}) /\ wtoks[w] \in Prefix \cup {Hole}
    BY <1>1, <1>3, <1>5 DEF TypeOK, CacheTypeOK
  <2>2. k \in Nat /\ k = Len(data[i]) + 1
    BY <1>4, <1>8 DEF Parts
  <2> HIDE DEF k, i
  <2>3. /\ d \in Seq(Prefix \cup {Hole}) /\ Len(d) = k /\ d[k] = wtoks[w]
        /\ \A j \in 1 .. Len(data[i]) : d[j] = data[i][j]
    <3> DEFINE old == data[i]  mine == wtoks[w]
    <3>1. /\ old \in Seq(Prefix \cup {Hole}) /\ mine \in Prefix \cup {Hole}
          /\ k \in Nat /\ k = Len(old) + 1
      BY <2>1, <2>2
    <3>2. d = Written(old, k, mine)
      OBVIOUS
    <3> HIDE DEF old, mine, d
    <3>3. /\ Written(old, k, mine) \in Seq(Prefix \cup {Hole}) /\ Len(Written(old, k, mine)) = k
          /\ Written(old, k, mine)[k] = mine
          /\ \A j \in 1 .. Len(old) : Written(old, k, mine)[j] = old[j]
      BY <3>1, WrittenNext, Zenon
    <3>4. /\ d \in Seq(Prefix \cup {Hole}) /\ Len(d) = k /\ d[k] = mine
          /\ \A j \in 1 .. Len(old) : d[j] = old[j]
      BY <3>2, <3>3, Zenon
    <3> QED BY <3>4 DEF old, mine
  <2>4. Len(data[i]) = woff[w]
    BY <1>4
  <2> HIDE DEF d
  <2> QED BY <2>3, <2>4
<1> HIDE DEF n, i, k, d
<1>10. \A j \in 1 .. k : d[j] = wtoks[w]
  <2>1. \A j \in 1 .. k : j = k \/ j \in 1 .. woff[w]
    BY <1>5, <1>8
  <2> QED BY <1>4, <1>9, <2>1
<1>11. /\ data'[i] = d /\ \A j \in Inode : j # i => data'[j] = data[j] /\ synced'[j] = synced[j]
       /\ woff'[w] = k /\ \A f \in Engine : f # w => woff'[f] = woff[f]
  BY <1>1, <1>5, <1>7 DEF TypeOK, CacheTypeOK
<1>12. CacheTypeOK'
  <2>1. data' \in [Inode -> Seq(Prefix \cup {Hole})] /\ \A j \in Inode : Len(data'[j]) <= Parts
    <3>1. data \in [Inode -> Seq(Prefix \cup {Hole})] /\ \A j \in Inode : Len(data[j]) <= Parts
      BY <1>1 DEF TypeOK, CacheTypeOK
    <3>2. data' \in [Inode -> Seq(Prefix \cup {Hole})]
      BY <1>7, <1>9, <3>1
    <3>3. Len(d) <= Parts
      BY <1>8, <1>9 DEF Parts
    <3> QED BY <1>11, <3>1, <3>2, <3>3
  <2>2. synced' \in [Inode -> BOOLEAN] /\ woff' \in [Engine -> 0 .. Parts]
    BY <1>1, <1>7, <1>8 DEF TypeOK, CacheTypeOK
  <2> QED BY <1>1, <1>7, <2>1, <2>2 DEF TypeOK, CacheTypeOK
<1>13. /\ FinalWhole' /\ \A f \in Engine : epc[f] \in {"acquire", "read"} => Verified(f)'
       /\ \A f \in Engine : f # w => WriterAt(f)'
       /\ FinalKept'
  <2>1. \A j \in Inode : j # tmp[NameAt(w)] => data'[j] = data[j] /\ synced'[j] = synced[j]
    BY <1>4, <1>11 DEF n
  <2>2. /\ \A m \in Name : m # NameAt(w) => tmp'[m] = tmp[m]
        /\ UNCHANGED <<final, index, wtoks, doomed, cands, req>>
        /\ \A f \in Engine : f # w => wpc'[f] = wpc[f] /\ wfd'[f] = wfd[f] /\ woff'[f] = woff[f]
    BY <1>7, <1>11
  <2> QED BY <1>2, <2>1, <2>2, OthersKept
<1>14. WriterAt(w)'
  <2>1. NameAt(w)' = n /\ n \notin index \cup cands[w] /\ doomed[w] = {} /\ wfd'[w] = i
    BY <1>2, <1>3, <1>7 DEF NameAt, n, i, WriterAt
  <2> QED BY <1>2, <1>3, <1>4, <1>7, <1>9, <1>10, <1>11, <2>1 DEF WriterAt
<1>15. TmpOwned' /\ LinkedOnce'
  BY <1>1, <1>7 DEF FileInv, TmpOwned, LinkedOnce, NameAt
<1> QED BY <1>2, <1>7, <1>12, <1>13, <1>14, <1>15 DEF Streamed, FileInv

(* Steps that leave the files alone and give up, and the fsync. *)
LEMMA OpenFailsKeeps ==
  ASSUME WritersApart, TiersInv, NEW w \in Engine, OpenFails(w), UNCHANGED <<cands, req>>
  PROVE  Streamed(w)
<1>1. TypeOK /\ FileInv /\ \A f \in Engine : EngineAt(f)
  BY DEF TiersInv
<1>2. /\ wpc[w] = "open" /\ wpc' = [wpc EXCEPT ![w] = "idle"]
      /\ UNCHANGED <<data, synced, tmp, final, index, mtime, clock, wtoks, wfd, woff, doomed>>
  BY DEF OpenFails, fileVars, indexVars
<1>3. wpc'[w] = "idle" /\ \A f \in Engine : f # w => wpc'[f] = wpc[f]
  BY <1>1, <1>2 DEF TypeOK, CacheTypeOK
<1>4. CacheTypeOK'
  <2>1. wpc' \in [Engine -> WriterPc]
    BY <1>1, <1>2 DEF TypeOK, CacheTypeOK, WriterPc
  <2> QED BY <1>1, <1>2, <2>1 DEF TypeOK, CacheTypeOK
<1>5. ASSUME NEW f \in Engine PROVE WriterAt(f)'
  <2>1. WriterAt(f)
    BY <1>1 DEF FileInv
  <2>2. CASE f = w
    BY <1>2, <1>3, <2>1, <2>2 DEF WriterAt
  <2>3. CASE f # w
    BY <1>2, <1>3, <2>1, <2>3, WriterKept
  <2> QED BY <2>2, <2>3
<1>6. \A f \in Engine : NameAt(f)' = NameAt(f) /\
        (wpc[f] \in {"write", "rename", "fail", "index"} => wpc'[f] = wpc[f])
  BY <1>2, <1>3 DEF NameAt
<1>7. TmpOwned' /\ FinalKept'
  BY <1>1, <1>2, <1>6 DEF FileInv, TmpOwned, FinalKept
<1>8. FinalWhole' /\ LinkedOnce'
  BY <1>1, <1>2 DEF FileInv, FinalWhole, LinkedOnce, Entry
<1>9. ASSUME NEW f \in Engine, epc[f] \in {"acquire", "read"} PROVE Verified(f)'
  <2>1. Verified(f)
    BY <1>1, <1>9 DEF EngineAt
  <2> QED BY <1>2, <2>1, VerifiedKept
<1> QED BY <1>2, <1>3, <1>4, <1>5, <1>7, <1>8, <1>9 DEF Streamed, FileInv

LEMMA WriteFailsKeeps ==
  ASSUME WritersApart, TiersInv, NEW w \in Engine, WriteFails(w) \/ RenameFails(w),
         UNCHANGED <<cands, req>>
  PROVE  Streamed(w)
<1>1. TypeOK /\ FileInv
  BY DEF TiersInv
<1>2. /\ wpc[w] \in {"write", "rename"} /\ wpc' = [wpc EXCEPT ![w] = "fail"]
      /\ wfd' = [wfd EXCEPT ![w] = Nothing]
      /\ UNCHANGED <<data, synced, tmp, final, index, mtime, clock, wtoks, woff, doomed>>
  <2>1. CASE WriteFails(w)
    BY <2>1 DEF WriteFails, fileVars, indexVars
  <2>2. CASE RenameFails(w)
    <3>1. /\ wpc[w] = "rename" /\ wpc' = [wpc EXCEPT ![w] = "fail"]
          /\ UNCHANGED <<data, synced, tmp, final, index, mtime, clock, wtoks, wfd, woff, doomed>>
      BY <2>2 DEF RenameFails, fileVars, indexVars
    <3>2. wfd[w] = Nothing /\ wfd \in [Engine -> Inode \cup {Nothing}]
      BY <1>1, <3>1 DEF FileInv, WriterAt, TypeOK, CacheTypeOK
    <3>3. wfd = [wfd EXCEPT ![w] = Nothing]
      BY <3>2
    <3> QED BY <3>1, <3>3
  <2> QED BY <2>1, <2>2
<1>3. /\ wpc'[w] = "fail" /\ wfd'[w] = Nothing
      /\ \A f \in Engine : f # w => wpc'[f] = wpc[f] /\ wfd'[f] = wfd[f]
  BY <1>1, <1>2 DEF TypeOK, CacheTypeOK
<1>4. CacheTypeOK'
  <2>1. wpc' \in [Engine -> WriterPc] /\ wfd' \in [Engine -> Inode \cup {Nothing}]
    BY <1>1, <1>2 DEF TypeOK, CacheTypeOK, WriterPc
  <2> QED BY <1>1, <1>2, <2>1 DEF TypeOK, CacheTypeOK
<1>5. /\ FinalWhole' /\ \A f \in Engine : epc[f] \in {"acquire", "read"} => Verified(f)'
      /\ \A f \in Engine : f # w => WriterAt(f)'
      /\ FinalKept'
  BY <1>2, <1>3, OthersKept
<1>6. WriterAt(w)'
  <2>1. WriterAt(w)
    BY <1>1 DEF FileInv
  <2> QED BY <1>2, <1>3, <2>1 DEF WriterAt
<1>7. TmpOwned'
  <2>1. \A f \in Engine : NameAt(f)' = NameAt(f) /\
          (wpc[f] \in {"write", "rename", "fail"} => wpc'[f] \in {"write", "rename", "fail"})
    BY <1>2, <1>3 DEF NameAt
  <2> QED BY <1>1, <1>2, <2>1 DEF FileInv, TmpOwned
<1>8. LinkedOnce'
  BY <1>1, <1>2 DEF FileInv, LinkedOnce
<1> QED BY <1>2, <1>3, <1>4, <1>5, <1>6, <1>7, <1>8 DEF Streamed, FileInv

LEMMA SyncCloseKeeps ==
  ASSUME WritersApart, TiersInv, NEW w \in Engine, SyncClose(w), UNCHANGED <<cands, req>>
  PROVE  Streamed(w)
<1> DEFINE n == NameAt(w)
           i == wfd[w]
<1>1. TypeOK /\ FileInv
  BY DEF TiersInv
<1>2. /\ wpc[w] = "write" /\ woff[w] = Parts /\ wpc' = [wpc EXCEPT ![w] = "rename"]
      /\ wfd' = [wfd EXCEPT ![w] = Nothing] /\ synced' = [synced EXCEPT ![i] = TRUE]
      /\ UNCHANGED <<data, tmp, final, index, mtime, clock, wtoks, woff, doomed>>
  BY DEF SyncClose, indexVars
<1>3. n \in Name /\ wtoks[w] \in Persisted(w) /\ WriterAt(w)
  BY <1>1, <1>2, NameAtFacts DEF FileInv
<1>4. i = tmp[n] /\ i # Nothing /\ Entry(i, wtoks[w])
  BY <1>2, <1>3 DEF WriterAt, Entry
<1>5. i \in Inode
  BY <1>1, <1>3, <1>4 DEF TypeOK, CacheTypeOK
<1> HIDE DEF n, i
<1>6. /\ wpc'[w] = "rename" /\ wfd'[w] = Nothing /\ synced'[i] = TRUE
      /\ \A f \in Engine : f # w => wpc'[f] = wpc[f] /\ wfd'[f] = wfd[f]
      /\ \A j \in Inode : j # i => synced'[j] = synced[j]
  BY <1>1, <1>2, <1>5 DEF TypeOK, CacheTypeOK
<1>7. CacheTypeOK'
  <2>1. wpc' \in [Engine -> WriterPc] /\ wfd' \in [Engine -> Inode \cup {Nothing}]
        /\ synced' \in [Inode -> BOOLEAN]
    BY <1>1, <1>2 DEF TypeOK, CacheTypeOK, WriterPc
  <2> QED BY <1>1, <1>2, <2>1 DEF TypeOK, CacheTypeOK
<1>8. /\ FinalWhole' /\ \A f \in Engine : epc[f] \in {"acquire", "read"} => Verified(f)'
      /\ \A f \in Engine : f # w => WriterAt(f)'
      /\ FinalKept'
  <2>1. \A j \in Inode : j # tmp[NameAt(w)] => data'[j] = data[j] /\ synced'[j] = synced[j]
    BY <1>2, <1>4, <1>6 DEF n
  <2>2. wpc[w] \in {"write", "rename", "fail"}
    BY <1>2
  <2> QED BY <1>2, <1>6, <2>1, <2>2, OthersKept
<1>9. WriterAt(w)'
  <2>1. NameAt(w)' = n /\ n \notin index \cup cands[w] /\ doomed[w] = {}
    BY <1>2, <1>3 DEF NameAt, n, WriterAt
  <2>2. /\ Len(data'[i]) = Parts /\ (\A j \in 1 .. Parts : data'[i][j] = wtoks'[w])
        /\ tmp'[n] = i
    BY <1>2, <1>4 DEF Entry
  <2> QED BY <1>2, <1>3, <1>4, <1>6, <2>1, <2>2 DEF WriterAt, Entry
<1>10. TmpOwned'
  <2>1. \A f \in Engine : NameAt(f)' = NameAt(f) /\
          (wpc[f] \in {"write", "rename", "fail"} => wpc'[f] \in {"write", "rename", "fail"})
    BY <1>2, <1>6 DEF NameAt
  <2> QED BY <1>1, <1>2, <2>1 DEF FileInv, TmpOwned
<1>11. LinkedOnce'
  BY <1>1, <1>2 DEF FileInv, LinkedOnce
<1> QED BY <1>2, <1>6, <1>7, <1>8, <1>9, <1>10, <1>11 DEF Streamed, FileInv

(* What is left of the contents when a name of file i goes. *)
LEMMA UnlinkedFacts ==
  ASSUME TypeOK, NEW i, data' = Unlinked(i)
  PROVE  /\ data' \in [Inode -> Seq(Prefix \cup {Hole})] /\ \A j \in Inode : Len(data'[j]) <= Parts
         /\ \A j \in Inode : j # i => data'[j] = data[j]
<1>1. data \in [Inode -> Seq(Prefix \cup {Hole})] /\ \A j \in Inode : Len(data[j]) <= Parts
  BY DEF TypeOK, CacheTypeOK
<1>2. <<>> \in Seq(Prefix \cup {Hole}) /\ Len(<<>>) <= Parts
  BY DEF Parts
<1>3. \A j \in Inode : data'[j] = <<>> \/ data'[j] = data[j]
  BY DEF Unlinked
<1>4. \A j \in Inode : j # i => data'[j] = data[j]
  BY DEF Unlinked
<1>5. data' = [j \in Inode |-> data'[j]]
  BY DEF Unlinked
<1>6. \A j \in Inode : data'[j] \in Seq(Prefix \cup {Hole}) /\ Len(data'[j]) <= Parts
  BY <1>1, <1>2, <1>3
<1> QED BY <1>4, <1>5, <1>6

LEMMA UnlinkTmpKeeps ==
  ASSUME WritersApart, TiersInv, NEW w \in Engine, UnlinkTmp(w), UNCHANGED <<cands, req>>
  PROVE  Streamed(w)
<1> DEFINE n == NameAt(w)
<1>1. TypeOK /\ FileInv
  BY DEF TiersInv
<1>2. /\ wpc[w] = "fail" /\ wpc' = [wpc EXCEPT ![w] = "idle"]
      /\ tmp' = [tmp EXCEPT ![n] = Nothing] /\ data' = Unlinked(tmp[n])
      /\ UNCHANGED <<synced, final, index, mtime, clock, wtoks, wfd, woff, doomed>>
  BY DEF UnlinkTmp, NameAt, indexVars
<1>3. n \in Name /\ WriterAt(w)
  BY <1>1, <1>2, NameAtFacts DEF FileInv
<1>4. /\ data' \in [Inode -> Seq(Prefix \cup {Hole})] /\ \A j \in Inode : Len(data'[j]) <= Parts
      /\ \A j \in Inode : j # tmp[n] => data'[j] = data[j]
  BY <1>1, <1>2, UnlinkedFacts
<1> HIDE DEF n
<1>5. /\ wpc'[w] = "idle" /\ tmp'[n] = Nothing
      /\ \A f \in Engine : f # w => wpc'[f] = wpc[f]
      /\ \A m \in Name : m # n => tmp'[m] = tmp[m]
  BY <1>1, <1>2, <1>3 DEF TypeOK, CacheTypeOK
<1>6. CacheTypeOK'
  <2>1. wpc' \in [Engine -> WriterPc] /\ tmp' \in [Name -> Inode \cup {Nothing}]
    BY <1>1, <1>2 DEF TypeOK, CacheTypeOK, WriterPc
  <2> QED BY <1>1, <1>2, <1>4, <2>1 DEF TypeOK, CacheTypeOK
<1>7. /\ FinalWhole' /\ \A f \in Engine : epc[f] \in {"acquire", "read"} => Verified(f)'
      /\ \A f \in Engine : f # w => WriterAt(f)'
      /\ FinalKept'
  <2>1. \A j \in Inode : j # tmp[NameAt(w)] => data'[j] = data[j] /\ synced'[j] = synced[j]
    BY <1>2, <1>4 DEF n
  <2>2. wpc[w] \in {"write", "rename", "fail"} /\ \A m \in Name : m # NameAt(w) => tmp'[m] = tmp[m]
    BY <1>2, <1>5 DEF n
  <2> QED BY <1>2, <1>5, <2>1, <2>2, OthersKept
<1>8. WriterAt(w)'
  BY <1>2, <1>3, <1>5 DEF WriterAt
<1>9. TmpOwned'
  <2> SUFFICES ASSUME NEW m \in Name, tmp'[m] # Nothing
               PROVE  \E f \in Engine : wpc'[f] \in {"write", "rename", "fail"} /\ NameAt(f)' = m
    BY DEF TmpOwned
  <2>1. m # n /\ tmp[m] # Nothing
    BY <1>5
  <2>2. PICK f \in Engine : wpc[f] \in {"write", "rename", "fail"} /\ NameAt(f) = m
    BY <1>1, <2>1 DEF FileInv, TmpOwned
  <2>3. f # w
    BY <2>1, <2>2 DEF n
  <2>4. NameAt(f)' = m
    BY <1>2, <2>2 DEF NameAt
  <2> QED BY <1>5, <2>2, <2>3, <2>4
<1>10. LinkedOnce'
  BY <1>1, <1>2, <1>5 DEF FileInv, LinkedOnce
<1> QED BY <1>2, <1>5, <1>6, <1>7, <1>8, <1>9, <1>10 DEF Streamed, FileInv

(* The name an engine is about to read is given to the file of the prefix  *)
(* that it verified.                                                       *)
LEMMA RenamedRight ==
  ASSUME KeysApart, TiersInv, NEW w \in Engine, wpc[w] = "rename",
         NEW f \in Engine, Verified(f), req[f] \in Conv[f], Longest(cands[f]) = NameAt(w)
  PROVE  Cut(req[f], NameAt(w)[2]) = wtoks[w]
<1> DEFINE p == Cut(req[f], NameAt(w)[2])
<1>1. FileInv /\ WriterAt(w)
  BY DEF TiersInv, FileInv
<1>2. wtoks[w] \in Persisted(w) /\ NameOf(wtoks[w]) = NameAt(w) /\ NameAt(w) \notin cands[w]
  BY <1>1 DEF WriterAt, NameAt
<1>3. NameAt(w) \in cands[f] /\ NameOf(p) = NameAt(w)
  BY DEF Verified
<1>4. p \in UNION {Persisted(g) : g \in Engine}
  BY DEF Verified
<1>5. f # w
  BY <1>2, <1>3
<1>6. Cut(req[f], Len(wtoks[w])) = p
  BY <1>2 DEF NameOf
<1> HIDE DEF p
<1>7. p = wtoks[w]
  BY <1>2, <1>3, <1>4, <1>5, <1>6 DEF KeysApart
<1> QED BY <1>7 DEF p

LEMMA RenameKeeps ==
  ASSUME KeysApart, WritersApart, TiersInv, NEW w \in Engine, Rename(w), UNCHANGED <<cands, req>>
  PROVE  Streamed(w)
<1> DEFINE n == NameAt(w)
           i == tmp[n]
           o == final[n]
<1>1. TypeOK /\ FileInv /\ \A f \in Engine : EngineAt(f)
  BY DEF TiersInv
<1>2. /\ wpc[w] = "rename" /\ wpc' = [wpc EXCEPT ![w] = "index"] /\ i # Nothing
      /\ tmp' = [tmp EXCEPT ![n] = Nothing] /\ final' = [final EXCEPT ![n] = i]
      /\ data' = Unlinked(o)
      /\ UNCHANGED <<synced, index, mtime, clock, wtoks, wfd, woff, doomed>>
  BY DEF Rename, NameAt, indexVars
<1>3. n \in Name /\ WriterAt(w) /\ wtoks[w] \in Persisted(w)
  BY <1>1, <1>2, NameAtFacts DEF FileInv
<1>4. /\ data' \in [Inode -> Seq(Prefix \cup {Hole})] /\ \A j \in Inode : Len(data'[j]) <= Parts
      /\ \A j \in Inode : j # o => data'[j] = data[j]
  BY <1>1, <1>2, UnlinkedFacts
<1>5. synced[i] /\ Entry(i, wtoks[w]) /\ i \in Inode
  BY <1>1, <1>2, <1>3 DEF WriterAt, TypeOK, CacheTypeOK
<1>6. /\ i # o
      /\ \A m \in Name : /\ final[m] # Nothing => final[m] # i
                         /\ m # n /\ final[m] # Nothing => final[m] # o
                         /\ m # n /\ tmp[m] # Nothing => tmp[m] # i
                         /\ tmp[m] # Nothing => tmp[m] # o
  BY <1>1, <1>2, <1>3 DEF FileInv, LinkedOnce
<1>7. NameAt(w)' = n
  BY <1>2 DEF NameAt
<1>8. Len(data'[i]) = Parts /\ \A j \in 1 .. Parts : data'[i][j] = wtoks[w]
  BY <1>4, <1>5, <1>6 DEF Entry
<1>9. /\ wpc'[w] = "index" /\ tmp'[n] = Nothing /\ final'[n] = i
      /\ \A f \in Engine : f # w => wpc'[f] = wpc[f]
      /\ \A m \in Name : m # n => tmp'[m] = tmp[m] /\ final'[m] = final[m]
  BY <1>1, <1>2, <1>3 DEF TypeOK, CacheTypeOK
<1>10. \A m \in Name : m # n /\ final[m] # Nothing =>
         final[m] \in Inode /\ data'[final[m]] = data[final[m]]
  <2>1. \A m \in Name : final[m] # Nothing => final[m] \in Inode
    BY <1>1 DEF TypeOK, CacheTypeOK
  <2> QED BY <1>4, <1>6, <2>1
<1>11. CacheTypeOK'
  <2>1. wpc' \in [Engine -> WriterPc] /\ tmp' \in [Name -> Inode \cup {Nothing}]
    BY <1>1, <1>2 DEF TypeOK, CacheTypeOK, WriterPc
  <2>2. final' \in [Name -> Inode \cup {Nothing}]
    BY <1>1, <1>2, <1>5 DEF TypeOK, CacheTypeOK
  <2> QED BY <1>1, <1>2, <1>4, <2>1, <2>2 DEF TypeOK, CacheTypeOK
<1>12. FinalWhole'
  <2> SUFFICES ASSUME NEW m \in Name, final'[m] # Nothing
               PROVE  /\ synced'[final'[m]]
                      /\ \E e \in Engine : \E p \in Persisted(e) :
                           /\ NameOf(p) = m /\ Len(data'[final'[m]]) = Parts
                           /\ \A j \in 1 .. Parts : data'[final'[m]][j] = p
    BY DEF FinalWhole, Entry
  <2>1. CASE m = n
    BY <1>2, <1>3, <1>5, <1>8, <1>9, <2>1 DEF NameAt
  <2>2. CASE m # n
    <3>1. final'[m] = final[m] /\ data'[final[m]] = data[final[m]]
      BY <1>9, <1>10, <2>2
    <3> QED BY <1>1, <1>2, <3>1 DEF FileInv, FinalWhole, Entry
  <2> QED BY <2>1, <2>2
<1>13. ASSUME NEW f \in Engine, epc[f] \in {"acquire", "read"} PROVE Verified(f)'
  <2> DEFINE m == Longest(cands[f])
             p == Cut(req[f], m[2])
  <2>1. Verified(f) /\ req[f] \in Conv[f]
    BY <1>1, <1>13 DEF EngineAt
  <2>2. /\ cands[f] # {} /\ m \in cands[f] /\ NameOf(p) = m
        /\ (\E g \in Engine : p \in Persisted(g)) /\ (final[m] # Nothing => Entry(final[m], p))
    BY <2>1 DEF Verified
  <2>3. m \in Name
    BY <1>1, <2>2 DEF TypeOK
  <2>4. m = n => p = wtoks[w]
    BY <1>2, <2>1, RenamedRight
  <2> HIDE DEF m, p
  <2>5. final'[m] # Nothing => /\ Len(data'[final'[m]]) = Parts
                               /\ \A j \in 1 .. Parts : data'[final'[m]][j] = p
    <3>1. CASE m = n
      BY <1>8, <1>9, <2>4, <3>1
    <3>2. CASE m # n
      BY <1>9, <1>10, <2>2, <2>3, <3>2 DEF Entry
    <3> QED BY <3>1, <3>2
  <2> QED BY <2>2, <2>5 DEF Verified, Entry, m, p
<1> HIDE DEF i, o
<1>14. ASSUME NEW f \in Engine PROVE WriterAt(f)'
  <2>1. WriterAt(f)
    BY <1>1 DEF FileInv
  <2>2. CASE f = w
    BY <1>2, <1>3, <1>9, <2>2 DEF WriterAt
  <2>3. CASE f # w
    <3>1. wpc[f] # "idle" => NameAt(f) # n /\ NameAt(f) \in Name
      BY <1>1, <1>2, <2>3, NamesApart, NameAtFacts
    <3> HIDE DEF n
    <3>2. wpc[f] \in {"write", "rename"} => tmp[NameAt(f)] # Nothing
      BY <2>1 DEF WriterAt
    <3>3. wpc[f] \in {"write", "rename"} =>
            /\ tmp[NameAt(f)] \in Inode /\ tmp[NameAt(f)] # o /\ tmp'[NameAt(f)] = tmp[NameAt(f)]
      BY <1>1, <1>6, <1>9, <3>1, <3>2 DEF TypeOK, CacheTypeOK
    <3>4. wpc[f] \in {"write", "rename"} =>
            /\ tmp'[NameAt(f)] = tmp[NameAt(f)]
            /\ data'[tmp[NameAt(f)]] = data[tmp[NameAt(f)]]
            /\ synced'[tmp[NameAt(f)]] = synced[tmp[NameAt(f)]]
      BY <1>2, <1>4, <3>3
    <3> QED BY <1>2, <1>9, <2>1, <2>3, <3>4, WriterKept
  <2> QED BY <2>2, <2>3
<1>15. TmpOwned'
  <2> SUFFICES ASSUME NEW m \in Name, tmp'[m] # Nothing
               PROVE  \E f \in Engine : wpc'[f] \in {"write", "rename", "fail"} /\ NameAt(f)' = m
    BY DEF TmpOwned
  <2>1. m # n /\ tmp[m] # Nothing
    BY <1>9
  <2>2. PICK f \in Engine : wpc[f] \in {"write", "rename", "fail"} /\ NameAt(f) = m
    BY <1>1, <2>1 DEF FileInv, TmpOwned
  <2>3. f # w /\ NameAt(f)' = m
    BY <1>2, <2>1, <2>2 DEF NameAt
  <2> QED BY <1>9, <2>2, <2>3
<1> HIDE DEF n
<1>16. LinkedOnce'
  <2> SUFFICES ASSUME NEW a \in Name, NEW b \in Name
               PROVE  /\ tmp'[a] # Nothing => tmp'[a] # final'[b] /\ (a # b => tmp'[a] # tmp'[b])
                      /\ final'[a] # Nothing /\ a # b => final'[a] # final'[b]
    BY DEF LinkedOnce
  <2>1. /\ tmp[a] # Nothing => tmp[a] # final[b] /\ (a # b => tmp[a] # tmp[b])
        /\ final[a] # Nothing /\ a # b => final[a] # final[b]
    BY <1>1 DEF FileInv, LinkedOnce
  <2>2. i # Nothing
    BY <1>2
  <2> QED BY <1>6, <1>9, <2>1, <2>2
<1>17. FinalKept'
  <2> SUFFICES ASSUME NEW m \in Name, final'[m] # Nothing
               PROVE  \/ m \in index' \/ \E f \in Engine : m \in doomed'[f]
                      \/ \E f \in Engine : wpc'[f] = "index" /\ NameAt(f)' = m
    BY DEF FinalKept
  <2>1. CASE m = n
    BY <1>7, <1>9, <2>1
  <2>2. CASE m # n
    <3>1. final[m] # Nothing
      BY <1>9, <2>2
    <3>2. \A f \in Engine : NameAt(f)' = NameAt(f) /\ (wpc[f] = "index" => wpc'[f] = "index")
      BY <1>2, <1>9 DEF NameAt
    <3> QED BY <1>1, <1>2, <3>1, <3>2 DEF FileInv, FinalKept
  <2> QED BY <2>1, <2>2
<1> QED BY <1>2, <1>9, <1>11, <1>12, <1>13, <1>14, <1>15, <1>16, <1>17 DEF Streamed, FileInv

LEMMA IndexEntryKeeps ==
  ASSUME WritersApart, TiersInv, NEW w \in Engine, IndexEntry(w), UNCHANGED <<cands, req>>
  PROVE  Streamed(w)
<1> DEFINE n == NameAt(w)
<1>1. TypeOK /\ FileInv /\ \A f \in Engine : EngineAt(f)
  BY DEF TiersInv
<1>2. /\ wpc[w] = "index" /\ wpc' = [wpc EXCEPT ![w] = "evict"]
      /\ clock' \in 0 .. MaxClock /\ index' = index \cup {n}
      /\ mtime' = [mtime EXCEPT ![n] = clock']
      /\ UNCHANGED <<data, synced, tmp, final, wtoks, wfd, woff, doomed>>
  BY DEF IndexEntry, NameAt, fileVars
<1>3. n \in Name /\ WriterAt(w)
  BY <1>1, <1>2, NameAtFacts DEF FileInv
<1>4. wpc'[w] = "evict" /\ \A f \in Engine : f # w => wpc'[f] = wpc[f]
  BY <1>1, <1>2 DEF TypeOK, CacheTypeOK
<1>5. CacheTypeOK'
  <2> HIDE DEF n
  <2>1. wpc' \in [Engine -> WriterPc] /\ mtime' \in [Name -> 0 .. MaxClock] /\ index' \subseteq Name
    BY <1>1, <1>2, <1>3 DEF TypeOK, CacheTypeOK, WriterPc
  <2> QED BY <1>1, <1>2, <2>1 DEF TypeOK, CacheTypeOK
<1>6. ASSUME NEW f \in Engine PROVE WriterAt(f)'
  <2>1. WriterAt(f)
    BY <1>1 DEF FileInv
  <2>2. CASE f = w
    BY <1>2, <1>4, <2>1, <2>2 DEF WriterAt
  <2>3. CASE f # w
    <3>1. wpc[f] # "idle" => NameAt(f) # n
      BY <1>1, <1>2, <2>3, NamesApart
    <3>2. wpc[f] # "idle" /\ NameAt(f) \notin index => NameAt(f) \notin index'
      BY <1>2, <3>1
    <3> QED BY <1>2, <1>4, <2>1, <2>3, <3>2, WriterKept
  <2> QED BY <2>2, <2>3
<1>7. \A f \in Engine : NameAt(f)' = NameAt(f)
  BY <1>2 DEF NameAt
<1>8. TmpOwned'
  <2>1. \A f \in Engine : wpc[f] \in {"write", "rename", "fail"} => wpc'[f] = wpc[f]
    BY <1>2, <1>4
  <2> QED BY <1>1, <1>2, <1>7, <2>1 DEF FileInv, TmpOwned
<1>9. FinalKept'
  <2> SUFFICES ASSUME NEW m \in Name, final'[m] # Nothing
               PROVE  \/ m \in index' \/ \E f \in Engine : m \in doomed'[f]
                      \/ \E f \in Engine : wpc'[f] = "index" /\ NameAt(f)' = m
    BY DEF FinalKept
  <2>1. \/ m \in index \/ \E f \in Engine : m \in doomed[f]
        \/ \E f \in Engine : wpc[f] = "index" /\ NameAt(f) = m
    BY <1>1, <1>2 DEF FileInv, FinalKept
  <2>2. ASSUME NEW f \in Engine, wpc[f] = "index", NameAt(f) = m
        PROVE  m \in index' \/ wpc'[f] = "index"
    BY <1>2, <1>4, <2>2
  <2> QED BY <1>2, <1>7, <2>1, <2>2
<1>10. FinalWhole' /\ LinkedOnce'
  BY <1>1, <1>2 DEF FileInv, FinalWhole, LinkedOnce, Entry
<1>11. ASSUME NEW f \in Engine, epc[f] \in {"acquire", "read"} PROVE Verified(f)'
  <2>1. Verified(f)
    BY <1>1, <1>11 DEF EngineAt
  <2> QED BY <1>2, <2>1, VerifiedKept
<1> QED BY <1>2, <1>4, <1>5, <1>6, <1>8, <1>9, <1>10, <1>11 DEF Streamed, FileInv

LEMMA EvictKeeps ==
  ASSUME WritersApart, TiersInv, NEW w \in Engine, Evict(w), UNCHANGED <<cands, req>>
  PROVE  Streamed(w)
<1>1. TypeOK /\ FileInv /\ \A f \in Engine : EngineAt(f)
  BY DEF TiersInv
<1>2. /\ wpc[w] = "evict"
      /\ UNCHANGED <<data, synced, tmp, final, mtime, clock, wtoks, wfd, woff>>
  BY DEF Evict, fileVars
<1>3. PICK D \in SUBSET index :
        /\ index' = index \ D /\ doomed' = [doomed EXCEPT ![w] = D]
        /\ wpc' = [wpc EXCEPT ![w] = IF D = {} THEN "idle" ELSE "unlink"]
  BY DEF Evict
<1>4. /\ wpc'[w] = (IF D = {} THEN "idle" ELSE "unlink") /\ doomed'[w] = D
      /\ \A f \in Engine : f # w => wpc'[f] = wpc[f] /\ doomed'[f] = doomed[f]
  BY <1>1, <1>3 DEF TypeOK, CacheTypeOK
<1>5. CacheTypeOK'
  <2>1. index \subseteq Name
    BY <1>1 DEF TypeOK, CacheTypeOK
  <2>2. wpc' \in [Engine -> WriterPc] /\ index' \subseteq Name
    BY <1>1, <1>3, <2>1 DEF TypeOK, CacheTypeOK, WriterPc
  <2>3. doomed' \in [Engine -> SUBSET Name]
    <3>1. D \in SUBSET Name
      BY <2>1
    <3> QED BY <1>1, <1>3, <3>1 DEF TypeOK, CacheTypeOK
  <2> QED BY <1>1, <1>2, <2>2, <2>3 DEF TypeOK, CacheTypeOK
<1>6. ASSUME NEW f \in Engine PROVE WriterAt(f)'
  <2>1. WriterAt(f)
    BY <1>1 DEF FileInv
  <2>2. CASE f = w
    <3>1. wpc[f] # "idle" /\ wfd[f] = Nothing /\ wtoks[f] \in Persisted(f)
      BY <1>2, <2>1, <2>2 DEF WriterAt
    <3> QED BY <1>2, <1>4, <2>2, <3>1 DEF WriterAt
  <2>3. CASE f # w
    BY <1>2, <1>3, <1>4, <2>1, <2>3, WriterKept
  <2> QED BY <2>2, <2>3
<1>7. \A f \in Engine : NameAt(f)' = NameAt(f)
  BY <1>2 DEF NameAt
<1>8. TmpOwned'
  <2>1. \A f \in Engine : wpc[f] \in {"write", "rename", "fail"} => wpc'[f] = wpc[f]
    BY <1>2, <1>4
  <2> QED BY <1>1, <1>2, <1>7, <2>1 DEF FileInv, TmpOwned
<1>9. FinalKept'
  <2> SUFFICES ASSUME NEW m \in Name, final'[m] # Nothing
               PROVE  \/ m \in index' \/ \E f \in Engine : m \in doomed'[f]
                      \/ \E f \in Engine : wpc'[f] = "index" /\ NameAt(f)' = m
    BY DEF FinalKept
  <2>1. \/ m \in index \/ \E f \in Engine : m \in doomed[f]
        \/ \E f \in Engine : wpc[f] = "index" /\ NameAt(f) = m
    BY <1>1, <1>2 DEF FileInv, FinalKept
  <2>2. doomed[w] = {}
    BY <1>1, <1>2 DEF FileInv, WriterAt
  <2>3. m \in index => m \in index' \/ m \in doomed'[w]
    BY <1>3, <1>4
  <2>4. ASSUME NEW f \in Engine, m \in doomed[f] PROVE m \in doomed'[f]
    BY <1>4, <2>2, <2>4
  <2>5. ASSUME NEW f \in Engine, wpc[f] = "index" PROVE wpc'[f] = "index"
    BY <1>2, <1>4, <2>5
  <2> QED BY <1>7, <2>1, <2>3, <2>4, <2>5
<1>10. FinalWhole' /\ LinkedOnce'
  BY <1>1, <1>2 DEF FileInv, FinalWhole, LinkedOnce, Entry
<1>11. ASSUME NEW f \in Engine, epc[f] \in {"acquire", "read"} PROVE Verified(f)'
  <2>1. Verified(f)
    BY <1>1, <1>11 DEF EngineAt
  <2> QED BY <1>2, <2>1, VerifiedKept
<1> QED BY <1>2, <1>4, <1>5, <1>6, <1>8, <1>9, <1>10, <1>11 DEF Streamed, FileInv

LEMMA UnlinkDoomedKeeps ==
  ASSUME WritersApart, TiersInv, NEW w \in Engine, NEW n \in Name, UnlinkDoomed(w, n),
         UNCHANGED <<cands, req>>
  PROVE  Streamed(w)
<1> DEFINE o == final[n]
<1>1. TypeOK /\ FileInv /\ \A f \in Engine : EngineAt(f)
  BY DEF TiersInv
<1>2. /\ wpc[w] = "unlink" /\ n \in doomed[w] /\ data' = Unlinked(o)
      /\ final' = [final EXCEPT ![n] = Nothing]
      /\ doomed' = [doomed EXCEPT ![w] = doomed[w] \ {n}]
      /\ wpc' = [wpc EXCEPT ![w] = IF doomed[w] = {n} THEN "idle" ELSE "unlink"]
      /\ UNCHANGED <<synced, tmp, index, mtime, clock, wtoks, wfd, woff>>
  BY <1>1 DEF UnlinkDoomed, indexVars, TypeOK, CacheTypeOK
<1>3. /\ data' \in [Inode -> Seq(Prefix \cup {Hole})] /\ \A j \in Inode : Len(data'[j]) <= Parts
      /\ \A j \in Inode : j # o => data'[j] = data[j]
  BY <1>1, <1>2, UnlinkedFacts
<1>4. /\ wpc'[w] = (IF doomed[w] = {n} THEN "idle" ELSE "unlink") /\ doomed'[w] = doomed[w] \ {n}
      /\ \A f \in Engine : f # w => wpc'[f] = wpc[f] /\ doomed'[f] = doomed[f]
      /\ final'[n] = Nothing /\ \A m \in Name : m # n => final'[m] = final[m]
  BY <1>1, <1>2 DEF TypeOK, CacheTypeOK
<1>5. \A m \in Name : /\ m # n /\ final[m] # Nothing => final[m] # o
                      /\ tmp[m] # Nothing => tmp[m] # o
  BY <1>1 DEF FileInv, LinkedOnce
<1>6. \A m \in Name : m # n /\ final[m] # Nothing => data'[final[m]] = data[final[m]]
  <2>1. \A m \in Name : final[m] # Nothing => final[m] \in Inode
    BY <1>1 DEF TypeOK, CacheTypeOK
  <2> QED BY <1>3, <1>5, <2>1
<1> HIDE DEF o
<1>7. CacheTypeOK'
  <2>1. wpc' \in [Engine -> WriterPc] /\ final' \in [Name -> Inode \cup {Nothing}]
    BY <1>1, <1>2 DEF TypeOK, CacheTypeOK, WriterPc
  <2>2. doomed' \in [Engine -> SUBSET Name]
    <3>1. doomed \in [Engine -> SUBSET Name]
      BY <1>1 DEF TypeOK, CacheTypeOK
    <3>2. doomed[w] \ {n} \in SUBSET Name
      BY <3>1
    <3> QED BY <1>2, <3>1, <3>2
  <2> QED BY <1>1, <1>2, <1>3, <2>1, <2>2 DEF TypeOK, CacheTypeOK
<1>8. ASSUME NEW f \in Engine PROVE WriterAt(f)'
  <2>1. WriterAt(f)
    BY <1>1 DEF FileInv
  <2>2. CASE f = w
    <3>1. wfd[f] = Nothing /\ wtoks[f] \in Persisted(f)
      BY <1>2, <2>1, <2>2 DEF WriterAt
    <3> QED BY <1>2, <1>4, <2>2, <3>1 DEF WriterAt
  <2>3. CASE f # w
    <3>1. wpc[f] # "idle" => NameAt(f) \in Name
      BY <1>1, NameAtFacts
    <3>2. wpc[f] \in {"write", "rename"} => tmp[NameAt(f)] # Nothing
      BY <2>1 DEF WriterAt
    <3>3. wpc[f] \in {"write", "rename"} => tmp[NameAt(f)] \in Inode /\ tmp[NameAt(f)] # o
      BY <1>1, <1>5, <3>1, <3>2 DEF TypeOK, CacheTypeOK
    <3>4. wpc[f] \in {"write", "rename"} =>
            /\ tmp'[NameAt(f)] = tmp[NameAt(f)]
            /\ data'[tmp[NameAt(f)]] = data[tmp[NameAt(f)]]
            /\ synced'[tmp[NameAt(f)]] = synced[tmp[NameAt(f)]]
      BY <1>2, <1>3, <3>3
    <3> QED BY <1>2, <1>4, <2>1, <2>3, <3>4, WriterKept
  <2> QED BY <2>2, <2>3
<1>9. \A f \in Engine : NameAt(f)' = NameAt(f)
  BY <1>2 DEF NameAt
<1>10. TmpOwned'
  <2>1. \A f \in Engine : wpc[f] \in {"write", "rename", "fail"} => wpc'[f] = wpc[f]
    BY <1>2, <1>4
  <2> QED BY <1>1, <1>2, <1>9, <2>1 DEF FileInv, TmpOwned
<1>11. FinalWhole'
  <2> SUFFICES ASSUME NEW m \in Name, final'[m] # Nothing
               PROVE  /\ synced'[final'[m]]
                      /\ \E e \in Engine : \E p \in Persisted(e) :
                           /\ NameOf(p) = m /\ Len(data'[final'[m]]) = Parts
                           /\ \A j \in 1 .. Parts : data'[final'[m]][j] = p
    BY DEF FinalWhole, Entry
  <2>1. m # n /\ final'[m] = final[m] /\ final[m] # Nothing
    BY <1>4
  <2>2. data'[final[m]] = data[final[m]]
    BY <1>6, <2>1
  <2> QED BY <1>1, <1>2, <2>1, <2>2 DEF FileInv, FinalWhole, Entry
<1>12. LinkedOnce'
  BY <1>1, <1>2, <1>4 DEF FileInv, LinkedOnce
<1>13. FinalKept'
  <2> SUFFICES ASSUME NEW m \in Name, final'[m] # Nothing
               PROVE  \/ m \in index' \/ \E f \in Engine : m \in doomed'[f]
                      \/ \E f \in Engine : wpc'[f] = "index" /\ NameAt(f)' = m
    BY DEF FinalKept
  <2>1. m # n /\ final[m] # Nothing
    BY <1>4
  <2>2. \/ m \in index \/ \E f \in Engine : m \in doomed[f]
        \/ \E f \in Engine : wpc[f] = "index" /\ NameAt(f) = m
    BY <1>1, <2>1 DEF FileInv, FinalKept
  <2>3. ASSUME NEW f \in Engine, m \in doomed[f] PROVE m \in doomed'[f]
    BY <1>4, <2>1, <2>3
  <2>4. ASSUME NEW f \in Engine, wpc[f] = "index" PROVE wpc'[f] = "index"
    BY <1>2, <1>4, <2>4
  <2> QED BY <1>2, <1>9, <2>2, <2>3, <2>4
<1>14. ASSUME NEW f \in Engine, epc[f] \in {"acquire", "read"} PROVE Verified(f)'
  <2> DEFINE m == Longest(cands[f])
             p == Cut(req[f], m[2])
  <2>1. Verified(f)
    BY <1>1, <1>14 DEF EngineAt
  <2>2. /\ cands[f] # {} /\ m \in cands[f] /\ NameOf(p) = m
        /\ (\E g \in Engine : p \in Persisted(g)) /\ (final[m] # Nothing => Entry(final[m], p))
    BY <2>1 DEF Verified
  <2>3. m \in Name
    BY <1>1, <2>2 DEF TypeOK
  <2> HIDE DEF m, p
  <2>4. final'[m] # Nothing => /\ Len(data'[final'[m]]) = Parts
                               /\ \A j \in 1 .. Parts : data'[final'[m]][j] = p
    BY <1>4, <1>6, <2>2, <2>3 DEF Entry
  <2> QED BY <2>2, <2>4 DEF Verified, Entry, m, p
<1> QED BY <1>2, <1>4, <1>7, <1>8, <1>10, <1>11, <1>12, <1>13, <1>14 DEF Streamed, FileInv

LEMMA WriterStepKeeps ==
  ASSUME KeysApart, WritersApart, TiersInv, NEW w \in Engine, WriterStep(w)
  PROVE  TiersInv'
<1>1. /\ WriteStep(w, Buffer(w))
      /\ wslot' = [wslot EXCEPT ![w] = IF wpc'[w] = "idle" THEN NoBlob ELSE @]
      /\ UNCHANGED <<ramVars, engineVars, wstage, gpu, served, crashes>>
  BY DEF WriterStep, Buffer
<1>2. UNCHANGED <<cands, req>>
  BY <1>1 DEF engineVars
<1>3. Streamed(w)
  <2>1. CASE OpenTmp(w) \/ OpenFails(w)
    BY <1>2, <2>1, OpenTmpKeeps, OpenFailsKeeps
  <2>2. CASE WritePart(w, Buffer(w)) \/ WriteFails(w) \/ RenameFails(w)
    BY <1>2, <2>2, WritePartKeeps, WriteFailsKeeps
  <2>3. CASE SyncClose(w) \/ Rename(w) \/ UnlinkTmp(w)
    BY <1>2, <2>3, SyncCloseKeeps, RenameKeeps, UnlinkTmpKeeps
  <2>4. CASE IndexEntry(w) \/ Evict(w)
    BY <1>2, <2>4, IndexEntryKeeps, EvictKeeps
  <2>5. CASE \E n \in Name : UnlinkDoomed(w, n)
    BY <1>2, <2>5, UnlinkDoomedKeeps
  <2> QED BY <1>1, <2>1, <2>2, <2>3, <2>4, <2>5 DEF WriteStep
<1> QED BY <1>1, <1>3, StreamedKeeps

-----------------------------------------------------------------------------
(* Booting *)

LEMMA FreshLru ==
  ASSUME NEW k \in 0 .. MaxSlots
  PROVE  [j \in 1 .. k |-> j] \in Seq(Blob) /\ IsInjective([j \in 1 .. k |-> j])
<1> DEFINE l == [j \in 1 .. k |-> j]
<1>1. k \in Nat /\ \A j \in 1 .. k : j \in Blob
  BY PrefixRamAssumption DEF Blob
<1>2. l \in Seq(Blob)
  BY <1>1
<1>3. DOMAIN l = 1 .. k /\ \A j \in 1 .. k : l[j] = j
  OBVIOUS
<1> HIDE DEF l
<1>4. IsInjective(l)
  BY <1>3 DEF IsInjective
<1> QED BY <1>2, <1>4 DEF l

(* What is left of a synced file is all of it. *)
LEMMA RescanKeepsFinals ==
  ASSUME TypeOK, FileInv, Rescan
  PROVE  /\ data' \in [Inode -> Seq(Prefix \cup {Hole})] /\ \A i \in Inode : Len(data'[i]) <= Parts
         /\ \A n \in Name : final[n] # Nothing => data'[final[n]] = data[final[n]]
<1>1. PICK left \in [Published -> UNION {Leftovers(i) : i \in Published}] :
        /\ \A i \in Published : left[i] \in Leftovers(i)
        /\ data' = [i \in Inode |-> IF i \in Published THEN left[i] ELSE <<>>]
  BY DEF Rescan
<1>2. ASSUME NEW i \in Published PROVE i \in Inode /\ left[i] = data[i]
  <2>1. PICK n \in Name : i = final[n] /\ final[n] # Nothing
    BY DEF Published
  <2>2. synced[i] /\ i \in Inode
    BY <2>1 DEF FileInv, FinalWhole, TypeOK, CacheTypeOK
  <2>3. left[i] \in Leftovers(i)
    BY <1>1
  <2> QED BY <2>2, <2>3 DEF Leftovers
<1>3. data \in [Inode -> Seq(Prefix \cup {Hole})] /\ \A i \in Inode : Len(data[i]) <= Parts
  BY DEF TypeOK, CacheTypeOK
<1>4. <<>> \in Seq(Prefix \cup {Hole}) /\ Len(<<>>) <= Parts
  BY DEF Parts
<1>5. \A i \in Inode : data'[i] = (IF i \in Published THEN data[i] ELSE <<>>)
  BY <1>1, <1>2
<1>6. data' = [i \in Inode |-> data'[i]]
  BY <1>1
<1>7. \A i \in Inode : data'[i] \in Seq(Prefix \cup {Hole}) /\ Len(data'[i]) <= Parts
  BY <1>3, <1>4, <1>5
<1>8. ASSUME NEW n \in Name, final[n] # Nothing PROVE data'[final[n]] = data[final[n]]
  <2>1. final[n] \in Published
    BY <1>8 DEF Published
  <2> QED BY <1>2, <1>5, <2>1
<1> QED BY <1>6, <1>7, <1>8

LEMMA CrashKeeps ==
  ASSUME TiersInv, Crash
  PROVE  TiersInv'
<1>1. TypeOK /\ FileInv
  BY DEF TiersInv
<1>2. /\ Rescan /\ RamReboot /\ crashes' = crashes + 1 /\ crashes < MaxCrashes
      /\ epc' = [e \in Engine |-> "idle"] /\ req' = [e \in Engine |-> NoRequest]
      /\ base' = [e \in Engine |-> 0] /\ cands' = [e \in Engine |-> {}]
      /\ slot' = [e \in Engine |-> NoBlob] /\ ramHit' = [e \in Engine |-> NoBlob]
      /\ stage' = [e \in Engine |-> Hole] /\ lastPersist' = [e \in Engine |-> 0]
      /\ snap' = [e \in Engine |-> <<>>] /\ wslot' = [e \in Engine |-> NoBlob]
      /\ wstage' = [e \in Engine |-> Hole] /\ gpu' = Nobody /\ served' = served
  BY DEF Crash
<1>3. /\ synced' = [i \in Inode |-> TRUE] /\ tmp' = [n \in Name |-> Nothing]
      /\ index' = {n \in Name : final[n] # Nothing /\ WellFormed(data'[final[n]])}
      /\ mtime' = [n \in Name |-> IF n \in index THEN mtime[n] ELSE clock]
      /\ wpc' = [w \in Engine |-> "idle"] /\ wtoks' = [w \in Engine |-> <<>>]
      /\ wfd' = [w \in Engine |-> Nothing] /\ woff' = [w \in Engine |-> 0]
      /\ doomed' = [w \in Engine |-> {}] /\ final' = final /\ clock' = clock
  BY <1>2 DEF Rescan
<1>4. /\ data' \in [Inode -> Seq(Prefix \cup {Hole})] /\ \A i \in Inode : Len(data'[i]) <= Parts
      /\ \A n \in Name : final[n] # Nothing => data'[final[n]] = data[final[n]]
  BY <1>1, <1>2, RescanKeepsFinals
<1>5. CacheTypeOK'
  <2>1. synced' \in [Inode -> BOOLEAN] /\ tmp' \in [Name -> Inode \cup {Nothing}] /\ index' \subseteq Name
    BY <1>3
  <2>2. mtime' \in [Name -> 0 .. MaxClock]
    BY <1>1, <1>3 DEF TypeOK, CacheTypeOK
  <2>3. /\ wpc' \in [Engine -> WriterPc] /\ wtoks' \in [Engine -> Prefix \cup {<<>>}]
        /\ wfd' \in [Engine -> Inode \cup {Nothing}] /\ woff' \in [Engine -> 0 .. Parts]
        /\ doomed' \in [Engine -> SUBSET Name]
    BY <1>3 DEF WriterPc, Parts
  <2> QED BY <1>1, <1>3, <1>4, <2>1, <2>2, <2>3 DEF TypeOK, CacheTypeOK
<1>6. RamTypeOK' /\ toks' = [b \in Blob |-> <<>>] /\ mem' = [b \in Blob |-> <<>>]
  BY <1>2, FreshLru DEF RamReboot, RamTypeOK
<1>7. TypeOK'
  <2>1. /\ toks' \in [Blob -> Prefix \cup {<<>>}] /\ mem' \in [Blob -> Prefix \cup {Hole}]
        /\ stage' \in [Engine -> Prefix \cup {Hole}] /\ wstage' \in [Engine -> Prefix \cup {Hole}]
    BY <1>2, <1>6 DEF Hole
  <2>2. /\ epc' \in [Engine -> EnginePc] /\ req' \in [Engine -> AllRequests \cup {NoRequest}]
        /\ cands' \in [Engine -> SUBSET Name] /\ slot' \in [Engine -> Blob \cup {NoBlob}]
        /\ ramHit' \in [Engine -> Blob \cup {NoBlob}] /\ wslot' \in [Engine -> Blob \cup {NoBlob}]
    BY <1>2 DEF EnginePc
  <2>3. /\ base' \in [Engine -> Nat] /\ lastPersist' \in [Engine -> Nat]
        /\ snap' \in [Engine -> Seq(Int)] /\ gpu' \in Engine \cup {Nobody}
    BY <1>2
  <2>4. \A e \in Engine : base'[e] <= Len(req'[e].toks)
    <3>1. Len(NoRequest.toks) = 0
      BY DEF NoRequest
    <3> QED BY <1>2, <3>1
  <2>5. served' \in 0 .. MaxRequests /\ crashes' \in 0 .. MaxCrashes
    BY <1>1, <1>2, PrefixTiersAssumption DEF TypeOK
  <2> QED BY <1>5, <1>6, <2>1, <2>2, <2>3, <2>4, <2>5 DEF TypeOK
<1>8. FileInv'
  <2>1. \A w \in Engine : WriterAt(w)'
    BY <1>3 DEF WriterAt
  <2>2. TmpOwned' /\ LinkedOnce'
    BY <1>1, <1>3 DEF TmpOwned, FileInv, LinkedOnce
  <2>3. ASSUME NEW n \in Name, final[n] # Nothing
        PROVE  /\ final[n] \in Inode
               /\ \E e \in Engine : \E p \in Persisted(e) : NameOf(p) = n /\ Entry(final[n], p)
    BY <1>1, <2>3 DEF FileInv, FinalWhole, TypeOK, CacheTypeOK
  <2>4. FinalWhole'
    <3> SUFFICES ASSUME NEW n \in Name, final'[n] # Nothing
                 PROVE  /\ synced'[final'[n]]
                        /\ \E e \in Engine : \E p \in Persisted(e) :
                             /\ NameOf(p) = n /\ Len(data'[final'[n]]) = Parts
                             /\ \A j \in 1 .. Parts : data'[final'[n]][j] = p
      BY DEF FinalWhole, Entry
    <3>1. final'[n] = final[n] /\ data'[final[n]] = data[final[n]] /\ final[n] \in Inode
      BY <1>3, <1>4, <2>3
    <3> QED BY <1>3, <2>3, <3>1 DEF Entry
  <2>5. FinalKept'
    <3> SUFFICES ASSUME NEW n \in Name, final'[n] # Nothing PROVE n \in index'
      BY DEF FinalKept
    <3>1. final[n] # Nothing /\ data'[final[n]] = data[final[n]]
      BY <1>3, <1>4
    <3>2. PICK e \in Engine : \E p \in Persisted(e) : Entry(final[n], p)
      BY <2>3, <3>1
    <3>3. PICK p \in Persisted(e) : Entry(final[n], p)
      BY <3>2
    <3>4. p # Hole
      BY PersistedFacts DEF Hole
    <3>5. WellFormed(data'[final[n]])
      BY <3>1, <3>3, <3>4 DEF WellFormed, Entry, Parts
    <3> QED BY <1>3, <3>1, <3>5
  <2> QED BY <2>1, <2>2, <2>4, <2>5 DEF FileInv
<1>9. \A e \in Engine : EngineAt(e)'
  BY <1>2 DEF EngineAt
<1>10. BlobInv'
  BY <1>2, <1>3, <1>6 DEF BlobInv
<1> QED BY <1>7, <1>8, <1>9, <1>10 DEF TiersInv

LEMMA TiersStart == ASSUME Init PROVE TiersInv
<1>1. /\ data = [i \in Inode |-> <<>>] /\ synced = [i \in Inode |-> TRUE]
      /\ tmp = [n \in Name |-> Nothing] /\ final = [n \in Name |-> Nothing]
      /\ index = {} /\ mtime = [n \in Name |-> 0] /\ clock = 0
      /\ wpc = [w \in Engine |-> "idle"] /\ wtoks = [w \in Engine |-> <<>>]
      /\ wfd = [w \in Engine |-> Nothing] /\ woff = [w \in Engine |-> 0]
      /\ doomed = [w \in Engine |-> {}]
  BY DEF Init, CacheInit
<1>2. /\ epc = [e \in Engine |-> "idle"] /\ req = [e \in Engine |-> NoRequest]
      /\ base = [e \in Engine |-> 0] /\ cands = [e \in Engine |-> {}]
      /\ slot = [e \in Engine |-> NoBlob] /\ ramHit = [e \in Engine |-> NoBlob]
      /\ stage = [e \in Engine |-> Hole] /\ lastPersist = [e \in Engine |-> 0]
      /\ snap = [e \in Engine |-> <<>>] /\ wslot = [e \in Engine |-> NoBlob]
      /\ wstage = [e \in Engine |-> Hole] /\ gpu = Nobody /\ served = 0 /\ crashes = 0
  BY DEF Init, EngineInit
<1>3. CacheTypeOK
  <2>1. data \in [Inode -> Seq(Prefix \cup {Hole})] /\ \A i \in Inode : Len(data[i]) <= Parts
    <3>1. <<>> \in Seq(Prefix \cup {Hole}) /\ Len(<<>>) <= Parts
      BY DEF Parts
    <3> QED BY <1>1, <3>1
  <2>2. /\ synced \in [Inode -> BOOLEAN] /\ tmp \in [Name -> Inode \cup {Nothing}]
        /\ final \in [Name -> Inode \cup {Nothing}] /\ index \subseteq Name
    BY <1>1
  <2>3. mtime \in [Name -> 0 .. MaxClock] /\ clock \in 0 .. MaxClock
    BY <1>1, PrefixCacheAssumption
  <2>4. /\ wpc \in [Engine -> WriterPc] /\ wtoks \in [Engine -> Prefix \cup {<<>>}]
        /\ wfd \in [Engine -> Inode \cup {Nothing}] /\ woff \in [Engine -> 0 .. Parts]
        /\ doomed \in [Engine -> SUBSET Name]
    BY <1>1 DEF WriterPc, Parts
  <2> QED BY <2>1, <2>2, <2>3, <2>4 DEF CacheTypeOK
<1>4. RamTypeOK /\ toks = [b \in Blob |-> <<>>] /\ mem = [b \in Blob |-> <<>>]
  BY FreshLru DEF Init, RamInit, RamTypeOK
<1>5. TypeOK
  <2>1. /\ toks \in [Blob -> Prefix \cup {<<>>}] /\ mem \in [Blob -> Prefix \cup {Hole}]
        /\ stage \in [Engine -> Prefix \cup {Hole}] /\ wstage \in [Engine -> Prefix \cup {Hole}]
    BY <1>2, <1>4 DEF Hole
  <2>2. /\ epc \in [Engine -> EnginePc] /\ req \in [Engine -> AllRequests \cup {NoRequest}]
        /\ cands \in [Engine -> SUBSET Name] /\ slot \in [Engine -> Blob \cup {NoBlob}]
        /\ ramHit \in [Engine -> Blob \cup {NoBlob}] /\ wslot \in [Engine -> Blob \cup {NoBlob}]
    BY <1>2 DEF EnginePc
  <2>3. /\ base \in [Engine -> Nat] /\ lastPersist \in [Engine -> Nat]
        /\ snap \in [Engine -> Seq(Int)] /\ gpu \in Engine \cup {Nobody}
    BY <1>2
  <2>4. \A e \in Engine : base[e] <= Len(req[e].toks)
    <3>1. Len(NoRequest.toks) = 0
      BY DEF NoRequest
    <3> QED BY <1>2, <3>1
  <2>5. served \in 0 .. MaxRequests /\ crashes \in 0 .. MaxCrashes
    BY <1>2, PrefixTiersAssumption
  <2> QED BY <1>3, <1>4, <2>1, <2>2, <2>3, <2>4, <2>5 DEF TypeOK
<1>6. FileInv
  BY <1>1 DEF FileInv, WriterAt, TmpOwned, FinalWhole, LinkedOnce, FinalKept
<1>7. \A e \in Engine : EngineAt(e)
  BY <1>2 DEF EngineAt
<1>8. BlobInv
  BY <1>1, <1>2, <1>4 DEF BlobInv
<1> QED BY <1>5, <1>6, <1>7, <1>8 DEF TiersInv

-----------------------------------------------------------------------------
(* The invariant *)

LEMMA TiersNext ==
  ASSUME KeysApart, WritersApart, TiersInv, [Next]_vars
  PROVE  TiersInv'
<1>1. CASE UNCHANGED vars
  <2>1. /\ UNCHANGED <<lru, slots, toks, mem, epc, req, base, cands, slot, ramHit, stage,
                       lastPersist, snap, wslot, wstage, gpu, served, crashes>>
        /\ UNCHANGED cacheVars
    BY <1>1 DEF vars, ramVars, engineVars, handoffVars
  <2>2. UNCHANGED <<wpc, wtoks, data, final>>
    BY <2>1 DEF cacheVars, writerVars, fileVars
  <2>3. TypeOK /\ FileInv /\ BlobInv /\ \A f \in Engine : EngineAt(f)
    BY DEF TiersInv
  <2>4. FileInv' /\ CacheTypeOK'
    BY <2>1, <2>3, FilesKept, CacheTypeKept DEF TypeOK
  <2>5. TypeOK'
    BY <2>1, <2>3, <2>4 DEF TypeOK, RamTypeOK
  <2>6. BlobInv'
    BY <2>1, <2>2, <2>3 DEF BlobInv, Buffer
  <2>7. ASSUME NEW f \in Engine PROVE EngineAt(f)'
    <3>1. EngineAt(f) /\ (epc[f] \in {"acquire", "read"} => Verified(f))
      BY <2>3 DEF EngineAt
    <3>2. epc[f] \in {"acquire", "read"} => Verified(f)'
      BY <2>1, <2>2, <3>1, VerifiedKept
    <3> QED BY <2>1, <3>1, <3>2, EngineKept
  <2> QED BY <2>4, <2>5, <2>6, <2>7 DEF TiersInv
<1>2. CASE \E e \in Engine : \E q \in Conv[e] : Begin(e, q)
  BY <1>2, BeginKeeps
<1>3. CASE \E e \in Engine : RamFind(e) \/ DiskFind(e) \/ VerifyNext(e) \/ AcquireForRead(e)
  BY <1>3, RamFindKeeps, DiskFindKeeps, VerifyNextKeeps, AcquireKeeps
<1>4. CASE \E e \in Engine : ReadState(e) \/ ReadFails(e) \/ Import(e)
  BY <1>4, ReadStateKeeps, ReadFailsKeeps, ImportKeeps
<1>5. CASE \E e \in Engine : SystemChunks(e) \/ StableChunks(e) \/ WriterStep(e)
  BY <1>5, SystemChunksKeeps, StableChunksKeeps, WriterStepKeeps
<1>6. CASE Crash
  BY <1>6, CrashKeeps
<1> QED BY <1>1, <1>2, <1>3, <1>4, <1>5, <1>6 DEF Next

(* The invariant holds throughout, while no two writers are at one name. *)
THEOREM TiersKeepInvariant ==
  ASSUME KeysApart PROVE Spec /\ []WritersApart => []TiersInv
<1>1. Init => TiersInv
  BY TiersStart
<1>2. TiersInv /\ WritersApart /\ [Next]_vars => TiersInv'
  BY TiersNext
<1> QED BY <1>1, <1>2, PTL DEF Spec

(* pfx_import puts into an engine the state of the first base tokens of    *)
(* its own prompt, whatever writers, evictions, failed reads, failed       *)
(* allocations and crashes happened since the blob or the file was chosen, *)
(* and although the index is by hash and engines persist, replace and      *)
(* restore entries of one another (src/engine.cuh generate_prefill), if    *)
(* only no two writers are at one file name at the same time.              *)
THEOREM TiersRestoreRight ==
  ASSUME KeysApart PROVE Spec /\ []WritersApart => []RestoreRight
<1>1. TiersInv => RestoreRight
  BY DEF TiersInv, EngineAt, RestoreRight
<1> QED BY <1>1, TiersKeepInvariant, PTL

(* What the tiers' own bookkeeping says is so: an indexed file is one      *)
(* whole entry of its name, after any crash too; every file that is left   *)
(* has somebody who will index or remove it; and a blob that find() can    *)
(* return holds the state it is published under (src/prefix_cache.h,       *)
(* src/prefix_ram.h), again while no two writers are at one file name.     *)
THEOREM TiersAreHonest ==
  ASSUME KeysApart PROVE Spec /\ []WritersApart => []TiersHonest
<1>1. TiersInv => TornNeverIndexed
  <2> SUFFICES ASSUME TiersInv, NEW n \in index, final[n] # Nothing
               PROVE  Whole(final[n], n)
    BY DEF TornNeverIndexed
  <2>1. n \in Name
    BY DEF TiersInv, TypeOK, CacheTypeOK
  <2>2. PICK e \in Engine : \E p \in Persisted(e) : NameOf(p) = n /\ Entry(final[n], p)
    BY <2>1 DEF TiersInv, FileInv, FinalWhole
  <2>3. PICK p \in Persisted(e) : NameOf(p) = n /\ Entry(final[n], p)
    BY <2>2
  <2>4. p # Hole
    BY PersistedFacts DEF Hole
  <2> QED BY <2>3, <2>4 DEF Whole, Entry, Parts
<1>2. TiersInv => NoOrphans
  BY DEF TiersInv, FileInv, TmpOwned, FinalKept, NoOrphans, NameAt
<1>3. TiersInv => RamHonest
  <2>1. TiersInv => InLru \subseteq Blob
    BY DEF TiersInv, TypeOK, RamTypeOK, InLru, ToSet
  <2> QED BY <2>1 DEF TiersInv, BlobInv, RamHonest
<1>4. TiersInv => TiersHonest
  BY <1>1, <1>2, <1>3 DEF TiersInv, TiersHonest
<1> QED BY <1>4, TiersKeepInvariant, PTL

-----------------------------------------------------------------------------
(* What an engine keeps of its prompts *)

JobAts == {"free", "claimed", "chunks", "tail", "decode"}
TokenSeqs == Seq(Int)
Checkpoints == [toks : TokenSeqs, state : TokenSeqs]
Snapshots == [have : BOOLEAN, toks : TokenSeqs, state : TokenSeqs]
Jobs == [at : JobAts, toks : TokenSeqs, stable : Int, base : Nat, pos : Nat,
         ck : Nat, ph : Nat, promised : Nat]

PrefixTypes ==
  /\ kv = [e \in Eng |-> kv[e]]
  /\ \A e \in Eng : DOMAIN kv[e] = 0 .. Ctx[e] + RoundWidth
  /\ gdn = [e \in Eng |-> gdn[e]]
  /\ snapshot \in [Eng -> Snapshots]
  /\ ring \in [Eng -> [1 .. CkptSlots -> Checkpoints]]
  /\ ckNext \in [Eng -> 1 .. CkptSlots]
  /\ job \in [Eng -> Jobs]

(* What was persisted is the state and the rows of its own tokens. *)
BlobsRight == \A b \in blobs : b.toks \in TokenSeqs /\ b.state = b.toks /\ b.rows = b.toks

(* Cached state is that of its tokens, whose rows are those of the cache. *)
Backed(c, rows, n) == c.state = c.toks /\ RowsAre(rows, c.toks) /\ Len(c.toks) <= n

(* A checkpoint that outlives the beginning of a prefill is either below   *)
(* the rows that it writes or a prefix of its prompt.                      *)
RingInv(e) ==
  \A k \in 1 .. CkptSlots :
    LET c == ring[e][k] IN
    /\ Backed(c, kv[e], Ctx[e])
    /\ job[e].at \in {"chunks", "tail"} =>
         Len(c.toks) <= job[e].base \/ Extends(job[e].toks, c.toks)
    /\ job[e].at = "decode" => Len(c.toks) <= Len(job[e].toks)

(* The snapshot may be of rows that a blob has overwritten until the       *)
(* prefill takes its own.                                                  *)
SnapshotInv(e) ==
  job[e].at # "chunks" =>
    /\ Backed(snapshot[e], kv[e], Ctx[e])
    /\ job[e].at = "tail" => Extends(job[e].toks, snapshot[e].toks)
    /\ job[e].at = "decode" => Len(snapshot[e].toks) <= Len(job[e].toks)

ReadInv(e) ==
  job[e].at \in {"chunks", "tail", "decode"} =>
    /\ RowsAre(kv[e], Upto(job[e].toks, job[e].pos))
    /\ ~(job[e].at = "decode" /\ job[e].ph >= job[e].pos) =>
         gdn[e] = Upto(job[e].toks, job[e].pos)

PlaceInv(e) ==
  /\ job[e].at # "free" => 1 <= Len(job[e].toks) /\ Len(job[e].toks) + Reserve <= Ctx[e]
  /\ job[e].at \in {"chunks", "tail"} =>
       job[e].base <= job[e].pos /\ job[e].pos <= Len(job[e].toks) - 1
  /\ job[e].at = "chunks" => job[e].pos <= SnapUpto(e)
  /\ job[e].at = "decode" =>
       job[e].pos = Len(job[e].toks) /\ job[e].pos <= job[e].ph + 1

RoutedInv(e) ==
  /\ job[e].at = "claimed" => job[e].promised = ReuseLen(e, job[e].toks)
  /\ job[e].at \in {"chunks", "tail"} => job[e].base = job[e].promised \/ job[e].promised = 0

RowsInv(e) == \A i \in DOMAIN kv[e] : i >= Ctx[e] => kv[e][i] = Zero

ReuseInv(e) ==
  RingInv(e) /\ SnapshotInv(e) /\ ReadInv(e) /\ PlaceInv(e) /\ RoutedInv(e) /\ RowsInv(e)

PrefixInv == PrefixTypes /\ BlobsRight /\ \A e \in Eng : ReuseInv(e)

-----------------------------------------------------------------------------
(* TokenSeqs and rows *)

LEMMA UptoFacts ==
  ASSUME NEW s \in TokenSeqs, NEW n \in 0 .. Len(s)
  PROVE  /\ Upto(s, n) \in TokenSeqs /\ Len(Upto(s, n)) = n
         /\ \A i \in 1 .. n : Upto(s, n)[i] = s[i]
  BY DEF Upto, TokenSeqs

LEMMA ExtendsFacts ==
  ASSUME NEW s \in TokenSeqs, NEW p \in TokenSeqs, Extends(s, p)
  PROVE  Len(p) <= Len(s) /\ p = Upto(s, Len(p)) /\ \A i \in 1 .. Len(p) : p[i] = s[i]
<1>1. Len(p) \in 0 .. Len(s) /\ p = Upto(s, Len(p))
  BY DEF Extends, TokenSeqs
<1> QED BY <1>1, UptoFacts

LEMMA UptoExtended ==
  ASSUME NEW s \in TokenSeqs, NEW n \in 0 .. Len(s)
  PROVE  Extends(s, Upto(s, n))
  BY UptoFacts DEF Extends, TokenSeqs

LEMMA SamePrefix ==
  ASSUME NEW s \in TokenSeqs, NEW t \in TokenSeqs, Len(s) = Len(t),
         \A i \in 1 .. Len(s) : s[i] = t[i]
  PROVE  s = t
  BY DEF TokenSeqs

LEMMA UptoAll == ASSUME NEW s \in TokenSeqs PROVE Upto(s, Len(s)) = s
<1>1. Len(s) \in 0 .. Len(s)
  BY DEF TokenSeqs
<1> QED BY <1>1, UptoFacts, SamePrefix

(* A prefix grows by the chunk that is read. *)
LEMMA UptoGrows ==
  ASSUME NEW s \in TokenSeqs, NEW m \in 0 .. Len(s), NEW n \in m .. Len(s)
  PROVE  Upto(s, m) \o SubSeq(s, m + 1, n) = Upto(s, n)
<1>1. n \in 0 .. Len(s)
  BY DEF TokenSeqs
<1>2. /\ Upto(s, m) \in TokenSeqs /\ Len(Upto(s, m)) = m
      /\ \A i \in 1 .. m : Upto(s, m)[i] = s[i]
  BY UptoFacts
<1>3. /\ Upto(s, n) \in TokenSeqs /\ Len(Upto(s, n)) = n
      /\ \A i \in 1 .. n : Upto(s, n)[i] = s[i]
  BY <1>1, UptoFacts
<1> DEFINE t == SubSeq(s, m + 1, n)
<1>4. t \in TokenSeqs /\ Len(t) = n - m /\ \A i \in 1 .. n - m : t[i] = s[m + i]
  <2>1. Len(s) \in Nat
    BY DEF TokenSeqs
  <2>2. m \in Nat /\ n \in Nat /\ m <= n /\ n <= Len(s) /\ s \in Seq(Int)
    BY <2>1 DEF TokenSeqs
  <2>3. t \in Seq(Int) /\ Len(t) = IF m + 1 <= n THEN n - (m + 1) + 1 ELSE 0
    BY <2>2
  <2>4. Len(t) = n - m
    BY <2>2, <2>3
  <2>5. ASSUME NEW i \in 1 .. n - m PROVE t[i] = s[m + i]
    <3>1. t[i] = s[(m + 1) + i - 1] /\ (m + 1) + i - 1 = m + i
      BY <2>2
    <3> QED BY <3>1
  <2> QED BY <2>3, <2>4, <2>5 DEF TokenSeqs
<1> HIDE DEF t
<1> DEFINE u == Upto(s, m)
<1>5. u \o t \in TokenSeqs /\ Len(u \o t) = n
  <2>1. u \in Seq(Int) /\ t \in Seq(Int) /\ Len(u) = m /\ Len(t) = n - m
    BY <1>2, <1>4 DEF TokenSeqs
  <2>2. u \o t \in Seq(Int) /\ Len(u \o t) = Len(u) + Len(t)
    BY <2>1
  <2>3. m \in Nat /\ n \in Nat
    BY <1>1
  <2> QED BY <2>1, <2>2, <2>3 DEF TokenSeqs
<1>6. ASSUME NEW i \in 1 .. n PROVE (u \o t)[i] = s[i]
  <2>0. u \in Seq(Int) /\ t \in Seq(Int) /\ Len(u) = m /\ Len(t) = n - m /\ m \in Nat /\ n \in Nat
    BY <1>1, <1>2, <1>4 DEF TokenSeqs
  <2>1. CASE i <= m
    <3>1. (u \o t)[i] = u[i]
      BY <2>0, <2>1
    <3> QED BY <3>1, <2>1, <1>2
  <2>2. CASE i > m
    <3>1. (u \o t)[i] = t[i - m] /\ i - m \in 1 .. n - m /\ m + (i - m) = i
      BY <2>0, <2>2
    <3> QED BY <3>1, <1>4
  <2> QED BY <2>0, <2>1, <2>2
<1> QED BY <1>3, <1>5, <1>6, SamePrefix DEF t

LEMMA UptoLast ==
  ASSUME NEW s \in TokenSeqs, Len(s) >= 1
  PROVE  Append(Upto(s, Len(s) - 1), s[Len(s)]) = s
<1>1. Len(s) - 1 \in 0 .. Len(s) /\ Len(s) \in Nat
  BY DEF TokenSeqs
<1> DEFINE u == Upto(s, Len(s) - 1)
<1>2. u \in TokenSeqs /\ Len(u) = Len(s) - 1 /\ \A i \in 1 .. Len(s) - 1 : u[i] = s[i]
  BY <1>1, UptoFacts
<1>3. s[Len(s)] \in Int
  BY <1>1 DEF TokenSeqs
<1> HIDE DEF u
<1> DEFINE v == Append(u, s[Len(s)])
<1>4. v \in TokenSeqs /\ Len(v) = Len(s)
  BY <1>1, <1>2, <1>3 DEF TokenSeqs
<1>5. \A i \in 1 .. Len(s) : v[i] = s[i]
  BY <1>1, <1>2, <1>3 DEF TokenSeqs
<1>6. v = s
  BY <1>4, <1>5, SamePrefix
<1> QED BY <1>6 DEF u

(* Rows that a prefix was read into stay its rows when they are written    *)
(* again with the same tokens, or when others are written.                 *)
LEMMA RowsKept ==
  ASSUME NEW N \in Nat, NEW rows, DOMAIN rows = 0 .. N,
         NEW s \in TokenSeqs, NEW c \in TokenSeqs, NEW from \in Nat, NEW to \in Nat,
         RowsAre(rows, c), Len(c) <= N,
         \A i \in 1 .. Len(c) : from < i /\ i <= to => c[i] = s[i]
  PROVE  RowsAre(Filled(rows, s, from, to), c)
<1> SUFFICES ASSUME NEW i \in 1 .. Len(c) PROVE Filled(rows, s, from, to)[i - 1] = c[i]
  BY DEF RowsAre
<1>1. Len(c) \in Nat /\ i - 1 \in 0 .. N /\ (i - 1) + 1 = i
  BY DEF TokenSeqs
<1>2. rows[i - 1] = c[i]
  BY DEF RowsAre
<1>3. Filled(rows, s, from, to)[i - 1] =
        IF from <= i - 1 /\ i - 1 < to THEN s[(i - 1) + 1] ELSE rows[i - 1]
  BY <1>1 DEF Filled
<1> QED BY <1>1, <1>2, <1>3

LEMMA FilledReads ==
  ASSUME NEW N \in Nat, NEW rows, DOMAIN rows = 0 .. N,
         NEW s \in TokenSeqs, NEW from \in Nat, NEW to \in Nat,
         from <= to, to <= Len(s), to <= N, RowsAre(rows, Upto(s, from))
  PROVE  RowsAre(Filled(rows, s, from, to), Upto(s, to))
<1>0. Len(s) \in Nat /\ from \in 0 .. Len(s) /\ to \in 0 .. Len(s)
  BY DEF TokenSeqs
<1>1. Len(Upto(s, to)) = to /\ \A i \in 1 .. to : Upto(s, to)[i] = s[i]
  BY <1>0, UptoFacts
<1>2. Len(Upto(s, from)) = from /\ \A i \in 1 .. from : Upto(s, from)[i] = s[i]
  BY <1>0, UptoFacts
<1> SUFFICES ASSUME NEW i \in 1 .. to PROVE Filled(rows, s, from, to)[i - 1] = s[i]
  BY <1>1 DEF RowsAre
<1>3. Filled(rows, s, from, to)[i - 1] =
        IF from <= i - 1 /\ i - 1 < to THEN s[(i - 1) + 1] ELSE rows[i - 1]
  BY DEF Filled
<1>4. CASE from <= i - 1
  BY <1>3, <1>4
<1>5. CASE i - 1 < from
  <2>1. i \in 1 .. from
    BY <1>5
  <2>2. rows[i - 1] = s[i]
    BY <1>2, <2>1 DEF RowsAre
  <2> QED BY <1>3, <1>5, <2>2
<1> QED BY <1>4, <1>5

LEMMA RowsOfUpto ==
  ASSUME NEW s \in TokenSeqs, NEW rows, NEW n \in 0 .. Len(s), RowsAre(rows, Upto(s, n))
  PROVE  [i \in 1 .. n |-> rows[i - 1]] = Upto(s, n)
<1> DEFINE u == Upto(s, n)
<1>0. u \in Seq(Int) /\ Len(u) = n /\ n \in Nat
  BY UptoFacts DEF TokenSeqs
<1>1. \A i \in 1 .. n : rows[i - 1] = u[i]
  BY <1>0 DEF RowsAre
<1> HIDE DEF u
<1>2. u = [i \in 1 .. n |-> u[i]]
  BY <1>0
<1>3. [i \in 1 .. n |-> rows[i - 1]] = [i \in 1 .. n |-> u[i]]
  BY <1>1
<1> QED BY <1>2, <1>3 DEF u

-----------------------------------------------------------------------------
(* What is restored *)

LEMMA BestFacts ==
  ASSUME PrefixTypes, NEW e \in Eng, NEW p \in TokenSeqs, CkptBest(e, p) # 0
  PROVE  /\ CkptBest(e, p) \in 1 .. CkptSlots
         /\ Len(ring[e][CkptBest(e, p)].toks) + 1 <= Len(p)
         /\ Extends(p, ring[e][CkptBest(e, p)].toks)
<1> DEFINE Match == {k \in 1 .. CkptSlots :
                       /\ ring[e][k].toks # <<>>
                       /\ Len(ring[e][k].toks) + 1 <= Len(p)
                       /\ Extends(p, ring[e][k].toks)}
           L(k) == Len(ring[e][k].toks)
           Deepest == {k \in Match : \A j \in Match : L(j) <= L(k)}
<1>1. CkptBest(e, p) = IF Match = {} THEN 0 ELSE CHOOSE k \in Deepest : \A j \in Deepest : k <= j
  BY DEF CkptBest
<1>2. Match # {}
  BY <1>1
<1>3. \A k \in 1 .. CkptSlots : L(k) \in Nat
  BY DEF PrefixTypes, Checkpoints, TokenSeqs
<1>4. Len(p) \in Nat /\ CkptSlots \in Nat
  BY PrefixAssumption DEF TokenSeqs
<1> HIDE DEF L
<1>5. Deepest # {}
  <2> DEFINE T == {L(k) : k \in Match}
  <2>1. T \in SUBSET (0 .. Len(p))
    BY <1>3, <1>4 DEF L
  <2>2. T # {}
    BY <1>2
  <2>3. PICK n \in T : \A m \in T : m <= n
    BY <1>4, <2>1, <2>2, LargestNatural
  <2>4. PICK k \in Match : n = L(k)
    BY <2>3
  <2>5. k \in Deepest
    BY <2>3, <2>4
  <2> QED BY <2>5
<1>6. Deepest \in SUBSET Nat
  BY <1>4
<1>7. \E k \in Deepest : \A j \in Deepest : k <= j
  BY <1>5, <1>6, LeastNatural
<1>8. (CHOOSE k \in Deepest : \A j \in Deepest : k <= j) \in Deepest
  BY <1>7
<1>9. CkptBest(e, p) \in Match
  BY <1>1, <1>2, <1>8
<1> QED BY <1>9

(* What an engine can restore depends on what it has cached only. *)
LEMMA ReuseSame ==
  ASSUME NEW f \in Eng, NEW p, ring'[f] = ring[f], snapshot'[f] = snapshot[f]
  PROVE  ReuseLen(f, p)' = ReuseLen(f, p)
<1> DEFINE M == {k \in 1 .. CkptSlots :
                   /\ ring[f][k].toks # <<>>
                   /\ Len(ring[f][k].toks) + 1 <= Len(p)
                   /\ Extends(p, ring[f][k].toks)}
           D == {k \in M : \A j \in M : Len(ring[f][j].toks) <= Len(ring[f][k].toks)}
           N == {k \in 1 .. CkptSlots :
                   /\ ring'[f][k].toks # <<>>
                   /\ Len(ring'[f][k].toks) + 1 <= Len(p)
                   /\ Extends(p, ring'[f][k].toks)}
           E == {k \in N : \A j \in N : Len(ring'[f][j].toks) <= Len(ring'[f][k].toks)}
<1>1. CkptBest(f, p) = IF M = {} THEN 0 ELSE CHOOSE k \in D : \A j \in D : k <= j
  BY DEF CkptBest
<1>2. CkptBest(f, p)' = IF N = {} THEN 0 ELSE CHOOSE k \in E : \A j \in E : k <= j
  BY DEF CkptBest
<1>3. N = M
  OBVIOUS
<1>4. E = D
  BY <1>3
<1>5. CkptBest(f, p)' = CkptBest(f, p)
  <2> HIDE DEF M, N, D, E
  <2> QED BY <1>1, <1>2, <1>3, <1>4
<1>6. SnapCovers(f, p)' = SnapCovers(f, p)
  BY DEF SnapCovers
<1>7. ReuseLen(f, p)' =
        IF SnapCovers(f, p)' THEN Len(snapshot'[f].toks)
        ELSE IF CkptBest(f, p)' > 0 THEN Len(ring'[f][CkptBest(f, p)'].toks) ELSE 0
  BY DEF ReuseLen
<1> QED BY <1>5, <1>6, <1>7 DEF ReuseLen

(* An engine that a step leaves alone. *)
LEMMA IdleEngine ==
  ASSUME NEW f \in Eng, ReuseInv(f),
         kv'[f] = kv[f], gdn'[f] = gdn[f], snapshot'[f] = snapshot[f],
         ring'[f] = ring[f], job'[f] = job[f]
  PROVE  ReuseInv(f)'
<1>1. RingInv(f)' /\ SnapshotInv(f)'
  BY DEF ReuseInv, RingInv, SnapshotInv, Backed
<1>2. ReadInv(f)' /\ RowsInv(f)'
  BY DEF ReuseInv, ReadInv, RowsInv
<1>3. PlaceInv(f)'
  BY DEF ReuseInv, PlaceInv, SnapUpto, NP
<1>5. RoutedInv(f)'
  <2>1. \A p : ReuseLen(f, p)' = ReuseLen(f, p)
    BY ReuseSame
  <2>2. job'[f] = job[f]
    OBVIOUS
  <2> QED BY <2>1, <2>2 DEF ReuseInv, RoutedInv
<1> QED BY <1>1, <1>2, <1>3, <1>5 DEF ReuseInv

LEMMA OneEngine ==
  ASSUME PrefixInv, NEW e \in Eng, PrefixTypes', BlobsRight', ReuseInv(e)',
         \A f \in Eng \ {e} :
           /\ kv'[f] = kv[f] /\ gdn'[f] = gdn[f] /\ snapshot'[f] = snapshot[f]
           /\ ring'[f] = ring[f] /\ job'[f] = job[f]
  PROVE  PrefixInv'
<1>1. ASSUME NEW f \in Eng PROVE ReuseInv(f)'
  <2>1. CASE f = e
    BY <2>1
  <2>2. CASE f # e
    BY <2>2, IdleEngine DEF PrefixInv
  <2> QED BY <2>1, <2>2
<1> QED BY <1>1 DEF PrefixInv

LEMMA ReuseLenType ==
  ASSUME PrefixTypes, NEW e \in Eng, NEW p \in TokenSeqs
  PROVE  ReuseLen(e, p) \in Nat
<1>1. Len(snapshot[e].toks) \in Nat
  BY DEF PrefixTypes, Snapshots, TokenSeqs
<1>2. CkptBest(e, p) # 0 => Len(ring[e][CkptBest(e, p)].toks) \in Nat
  BY BestFacts DEF PrefixTypes, Checkpoints, TokenSeqs
<1> QED BY <1>1, <1>2 DEF ReuseLen

LEMMA SizesAre ==
  ASSUME NEW e \in Eng
  PROVE  /\ Ctx[e] \in Nat /\ RoundWidth \in Nat \ {0} /\ Reserve = RoundWidth + 1
         /\ Ctx[e] + RoundWidth \in Nat /\ PfT \in Nat \ {0}
         /\ PfBatchMin \in Nat \ {0, 1} /\ CkptSlots \in Nat \ {0} /\ CkptInterval \in Nat
  BY PrefixAssumption DEF Reserve, Eng

LEMMA InsideContext ==
  ASSUME NEW e \in Eng, NEW n \in Nat, n + Reserve <= Ctx[e]
  PROVE  n <= Ctx[e] /\ n <= Ctx[e] + RoundWidth /\ (n + RoundWidth) + 1 <= Ctx[e]
<1>1. Ctx[e] \in Nat /\ RoundWidth \in Nat /\ Reserve = RoundWidth + 1
  BY SizesAre
<1> DEFINE c == Ctx[e]
<1>2. c \in Nat /\ n + (RoundWidth + 1) <= c
  BY <1>1
<1> HIDE DEF c
<1>3. n <= c /\ n <= c + RoundWidth /\ (n + RoundWidth) + 1 <= c
  BY <1>1, <1>2
<1> QED BY <1>3 DEF c

LEMMA EmptyTypes == NoJob \in Jobs /\ NoSnap \in Snapshots /\ NoCkpt \in Checkpoints
<1>1. <<>> \in TokenSeqs
  BY DEF TokenSeqs
<1> QED BY <1>1 DEF NoJob, NoSnap, NoCkpt, Jobs, JobAts, Snapshots, Checkpoints

LEMMA PrefixInits == PrefixInit => PrefixInv
<1> SUFFICES ASSUME PrefixInit PROVE PrefixInv
  OBVIOUS
<1>1. <<>> \in TokenSeqs /\ Len(<<>>) = 0
  BY DEF TokenSeqs
<1>2. NoJob \in Jobs /\ NoSnap \in Snapshots /\ NoCkpt \in Checkpoints
  BY EmptyTypes
<1>3. 1 \in 1 .. CkptSlots
  BY PrefixAssumption
<1>4. PrefixTypes
  BY <1>2, <1>3 DEF PrefixInit, PrefixTypes, EmptyRing
<1>5. ASSUME NEW e \in Eng PROVE ReuseInv(e)
  <2>1. /\ job[e].at = "free" /\ ring[e] = EmptyRing /\ snapshot[e] = NoSnap
        /\ \A i \in DOMAIN kv[e] : kv[e][i] = Zero
    BY DEF PrefixInit, NoJob
  <2>2. \A rows : Backed(NoSnap, rows, Ctx[e]) /\ Backed(NoCkpt, rows, Ctx[e])
    BY <1>1, SizesAre DEF Backed, NoSnap, NoCkpt, RowsAre
  <2> QED BY <2>1, <2>2 DEF ReuseInv, RingInv, SnapshotInv, ReadInv, PlaceInv, RoutedInv, RowsInv,
                            EmptyRing
<1> QED BY <1>4, <1>5 DEF PrefixInv, BlobsRight, PrefixInit

LEMMA ClaimReuse ==
  ASSUME PrefixInv, NEW e \in Eng, NEW r \in Prompts, ClaimBestSlot(e, r)
  PROVE  PrefixInv'
<1>1. /\ r.toks \in TokenSeqs /\ r.stable \in Int /\ PrefixTypes /\ job[e].at = "free"
      /\ 1 <= Len(r.toks) /\ Len(r.toks) + Reserve <= Ctx[e]
  BY PrefixAssumption DEF TokenSeqs, PrefixInv, ClaimBestSlot, Free
<1>2. PICK n \in Nat : n = ReuseLen(e, r.toks)
  BY <1>1, ReuseLenType
<1> DEFINE j == [NoJob EXCEPT !.at = "claimed", !.toks = r.toks, !.stable = r.stable,
                              !.promised = n]
<1>3. job' = [job EXCEPT ![e] = j]
  BY <1>2 DEF ClaimBestSlot
<1>4. j \in Jobs /\ j.at = "claimed" /\ j.toks = r.toks /\ j.promised = n
  BY <1>1, EmptyTypes DEF Jobs, JobAts
<1> HIDE DEF j
<1>5. job' \in [Eng -> Jobs] /\ job'[e] = j /\ \A f \in Eng \ {e} : job'[f] = job[f]
  BY <1>1, <1>3, <1>4 DEF PrefixTypes
<1>6. UNCHANGED <<kv, gdn, snapshot, ring, ckNext, blobs>>
  BY DEF ClaimBestSlot
<1>7. PrefixTypes' /\ BlobsRight'
  BY <1>5, <1>6 DEF PrefixInv, PrefixTypes, BlobsRight
<1>8. /\ job'[e].at = "claimed" /\ job'[e].toks = r.toks /\ job'[e].promised = n
  BY <1>4, <1>5
<1>9. ReuseInv(e)'
  <2>1. ReuseInv(e)
    BY DEF PrefixInv
  <2>2. RingInv(e)' /\ SnapshotInv(e)' /\ ReadInv(e)' /\ RowsInv(e)'
    BY <1>1, <1>6, <1>8, <2>1 DEF ReuseInv, RingInv, SnapshotInv, ReadInv, RowsInv, Backed
  <2>3. PlaceInv(e)'
    BY <1>1, <1>8 DEF PlaceInv
  <2>4. ReuseLen(e, r.toks)' = n
    BY <1>2, <1>6, ReuseSame
  <2>5. RoutedInv(e)'
    BY <1>8, <2>4 DEF RoutedInv
  <2> QED BY <2>2, <2>3, <2>5 DEF ReuseInv
<1> QED BY <1>5, <1>6, <1>7, <1>9, OneEngine

(* What beginning at lo does to the job. *)
LEMMA BeginFacts ==
  ASSUME PrefixTypes, NEW e \in Eng, NEW lo \in Nat, BeginAt(e, lo)
  PROVE  /\ job' \in [Eng -> Jobs] /\ \A f \in Eng \ {e} : job'[f] = job[f]
         /\ job'[e].at = "chunks" /\ job'[e].base = lo /\ job'[e].pos = lo /\ job'[e].ck = lo
         /\ job'[e].toks = job[e].toks /\ job'[e].stable = job[e].stable
         /\ job'[e].promised = job[e].promised
<1> DEFINE j == [job[e] EXCEPT !.at = "chunks", !.base = lo, !.pos = lo, !.ck = lo]
<1>1. job[e] \in Jobs /\ job \in [Eng -> Jobs]
  BY DEF PrefixTypes
<1>2. j \in Jobs
  BY <1>1 DEF Jobs, JobAts
<1>3. job' = [job EXCEPT ![e] = j]
  BY <1>1 DEF BeginAt
<1>4. job'[e] = j
  BY <1>1, <1>3
<1>5. /\ j.at = "chunks" /\ j.base = lo /\ j.pos = lo /\ j.ck = lo
      /\ j.toks = job[e].toks /\ j.stable = job[e].stable /\ j.promised = job[e].promised
  BY <1>1 DEF Jobs
<1> HIDE DEF j
<1> QED BY <1>1, <1>2, <1>3, <1>4, <1>5

(* A prefill that begins at the state and the rows of its own tokens. *)
LEMMA BeginReuse ==
  ASSUME PrefixInv, NEW e \in Eng, NEW lo \in Nat, AtJob(e, "claimed"), BeginAt(e, lo),
         lo <= Len(job[e].toks) - 1, lo = job[e].promised \/ job[e].promised = 0,
         gdn'[e] = Upto(job[e].toks, lo), RowsAre(kv'[e], Upto(job[e].toks, lo)), RowsInv(e)',
         \A k \in 1 .. CkptSlots :
           /\ Backed(ring'[e][k], kv'[e], Ctx[e])
           /\ Len(ring'[e][k].toks) <= lo \/ Extends(job[e].toks, ring'[e][k].toks)
  PROVE  ReuseInv(e)'
<1>1. /\ job'[e].at = "chunks" /\ job'[e].base = lo /\ job'[e].pos = lo
      /\ job'[e].toks = job[e].toks /\ job'[e].stable = job[e].stable
      /\ job'[e].promised = job[e].promised
  BY BeginFacts DEF PrefixInv
<1>2. job[e].toks \in TokenSeqs /\ Len(job[e].toks) \in Nat /\ job[e].stable \in Int
  BY DEF PrefixInv, PrefixTypes, Jobs, TokenSeqs
<1>3. 1 <= Len(job[e].toks) /\ Len(job[e].toks) + Reserve <= Ctx[e]
  BY DEF PrefixInv, ReuseInv, PlaceInv, AtJob
<1>4. PlaceInv(e)'
  BY <1>1, <1>2, <1>3 DEF PlaceInv, SnapUpto, NP
<1>5. RingInv(e)'
  BY <1>1 DEF RingInv
<1>6. ReadInv(e)' /\ SnapshotInv(e)'
  BY <1>1 DEF ReadInv, SnapshotInv
<1>7. RoutedInv(e)'
  BY <1>1 DEF RoutedInv
<1> QED BY <1>4, <1>5, <1>6, <1>7 DEF ReuseInv

LEMMA KeptRingFacts ==
  ASSUME PrefixInv, NEW e \in Eng, AtJob(e, "claimed"), NEW lo \in Nat
  PROVE  /\ KeptRing(e, lo, job[e].toks) \in [1 .. CkptSlots -> Checkpoints]
         /\ \A k \in 1 .. CkptSlots :
              LET c == KeptRing(e, lo, job[e].toks)[k] IN
              /\ Backed(c, kv[e], Ctx[e])
              /\ Len(c.toks) <= lo \/ Extends(job[e].toks, c.toks)
<1>0. <<>> \in TokenSeqs /\ Len(<<>>) = 0
  BY DEF TokenSeqs
<1>1. NoCkpt \in Checkpoints /\ Backed(NoCkpt, kv[e], Ctx[e]) /\ Len(NoCkpt.toks) <= lo
  BY <1>0, SizesAre DEF NoCkpt, Checkpoints, Backed, RowsAre
<1>2. ring[e] \in [1 .. CkptSlots -> Checkpoints]
  BY DEF PrefixInv, PrefixTypes
<1>3. \A k \in 1 .. CkptSlots : Backed(ring[e][k], kv[e], Ctx[e])
  BY DEF PrefixInv, ReuseInv, RingInv
<1>4. \A k \in 1 .. CkptSlots : ring[e][k] \in Checkpoints /\ Len(ring[e][k].toks) \in Nat
  <2>1. \A k \in 1 .. CkptSlots : ring[e][k] \in Checkpoints
    BY <1>2
  <2>2. \A c \in Checkpoints : Len(c.toks) \in Nat
    BY DEF Checkpoints, TokenSeqs
  <2> QED BY <2>1, <2>2
<1> QED BY <1>1, <1>3, <1>4 DEF KeptRing, Survives

LEMMA KeptSnapType ==
  ASSUME PrefixTypes, NEW e \in Eng, NEW lo, NEW p
  PROVE  KeptSnap(e, lo, p) \in Snapshots
<1>0. NoSnap \in Snapshots
  BY DEF NoSnap, Snapshots, TokenSeqs
<1> QED BY <1>0 DEF KeptSnap, PrefixTypes

(* The engine restores from its own memory: no row changes. *)
LEMMA RestoredReuse ==
  ASSUME PrefixInv, NEW e \in Eng, AtJob(e, "claimed"), NEW lo \in Nat, NEW c,
         c.toks \in TokenSeqs, lo = Len(c.toks), Backed(c, kv[e], Ctx[e]),
         Extends(job[e].toks, c.toks), lo <= Len(job[e].toks) - 1,
         lo = job[e].promised,
         BeginAt(e, lo), gdn' = [gdn EXCEPT ![e] = c.state],
         ring' = [ring EXCEPT ![e] = KeptRing(e, lo, job[e].toks)],
         snapshot' = [snapshot EXCEPT ![e] = KeptSnap(e, lo, job[e].toks)],
         UNCHANGED <<kv, ckNext, blobs>>
  PROVE  PrefixInv'
<1> DEFINE R == KeptRing(e, lo, job[e].toks)
           S == KeptSnap(e, lo, job[e].toks)
<1>1. R \in [1 .. CkptSlots -> Checkpoints] /\ S \in Snapshots
  BY KeptRingFacts, KeptSnapType DEF PrefixInv
<1>2. \A k \in 1 .. CkptSlots :
        /\ Backed(R[k], kv[e], Ctx[e])
        /\ Len(R[k].toks) <= lo \/ Extends(job[e].toks, R[k].toks)
  BY KeptRingFacts
<1> HIDE DEF R, S
<1>3. job' \in [Eng -> Jobs] /\ \A f \in Eng \ {e} : job'[f] = job[f]
  BY BeginFacts DEF PrefixInv
<1>4. ring' \in [Eng -> [1 .. CkptSlots -> Checkpoints]] /\ ring'[e] = R
  BY <1>1 DEF PrefixInv, PrefixTypes, R
<1>5. snapshot' \in [Eng -> Snapshots]
  BY <1>1 DEF PrefixInv, PrefixTypes, S
<1>6. gdn' = [f \in Eng |-> gdn'[f]] /\ gdn'[e] = c.state
  BY DEF PrefixInv, PrefixTypes
<1>7. PrefixTypes' /\ BlobsRight'
  BY <1>3, <1>4, <1>5, <1>6 DEF PrefixInv, PrefixTypes, BlobsRight
<1>8. \A f \in Eng \ {e} :
        gdn'[f] = gdn[f] /\ snapshot'[f] = snapshot[f] /\ ring'[f] = ring[f]
  BY DEF PrefixInv, PrefixTypes
<1>9. job[e].toks \in TokenSeqs
  BY DEF PrefixInv, PrefixTypes, Jobs
<1>10. c.toks = Upto(job[e].toks, lo)
  BY <1>9, ExtendsFacts
<1>11. gdn'[e] = Upto(job[e].toks, lo) /\ RowsAre(kv'[e], Upto(job[e].toks, lo))
  BY <1>6, <1>10 DEF Backed
<1>12. RowsInv(e)'
  BY DEF PrefixInv, ReuseInv, RowsInv
<1>13. \A k \in 1 .. CkptSlots :
         /\ Backed(ring'[e][k], kv'[e], Ctx[e])
         /\ Len(ring'[e][k].toks) <= lo \/ Extends(job[e].toks, ring'[e][k].toks)
  BY <1>2, <1>4
<1>14. ReuseInv(e)'
  BY <1>11, <1>12, <1>13, BeginReuse
<1> QED BY <1>3, <1>7, <1>8, <1>14, OneEngine

LEMMA RestoreSnapReuse ==
  ASSUME PrefixInv, NEW e \in Eng, RestoreSnap(e) PROVE PrefixInv'
<1> DEFINE p == job[e].toks
           c == snapshot[e]
<1>1. AtJob(e, "claimed") /\ SnapCovers(e, p)
  BY DEF RestoreSnap, Batched
<1>2. /\ c.toks \in TokenSeqs /\ Len(c.toks) \in Nat /\ Backed(c, kv[e], Ctx[e])
  BY <1>1 DEF PrefixInv, PrefixTypes, Snapshots, TokenSeqs, ReuseInv, SnapshotInv, AtJob
<1>3. Extends(p, c.toks) /\ Len(c.toks) <= Len(p) - 1
  BY <1>1 DEF SnapCovers
<1>4. Len(c.toks) = job[e].promised
  BY <1>1 DEF PrefixInv, ReuseInv, RoutedInv, AtJob, ReuseLen
<1>5. /\ BeginAt(e, Len(c.toks)) /\ gdn' = [gdn EXCEPT ![e] = c.state]
      /\ ring' = [ring EXCEPT ![e] = KeptRing(e, Len(c.toks), p)]
      /\ snapshot' = [snapshot EXCEPT ![e] = KeptSnap(e, Len(c.toks), p)]
      /\ UNCHANGED <<kv, ckNext, blobs>>
  BY DEF RestoreSnap
<1> QED BY <1>1, <1>2, <1>3, <1>4, <1>5, RestoredReuse

LEMMA RestoreCkptReuse ==
  ASSUME PrefixInv, NEW e \in Eng, RestoreCkpt(e) PROVE PrefixInv'
<1> DEFINE p == job[e].toks
           k == CkptBest(e, p)
           c == ring[e][k]
<1>1. AtJob(e, "claimed") /\ ~SnapCovers(e, p) /\ k > 0
  BY DEF RestoreCkpt, Batched
<1>2. p \in TokenSeqs /\ PrefixTypes
  BY DEF PrefixInv, PrefixTypes, Jobs
<1>3. k \in 1 .. CkptSlots /\ Len(c.toks) + 1 <= Len(p) /\ Extends(p, c.toks)
  BY <1>1, <1>2, BestFacts
<1>4. c.toks \in TokenSeqs /\ Len(c.toks) \in Nat /\ Len(p) \in Nat
  <2>1. c \in Checkpoints
    BY <1>2, <1>3 DEF PrefixTypes
  <2>2. \A s \in TokenSeqs : Len(s) \in Nat
    BY DEF TokenSeqs
  <2> HIDE DEF c
  <2> QED BY <1>2, <2>1, <2>2 DEF Checkpoints
<1>5. Backed(c, kv[e], Ctx[e])
  BY <1>3 DEF PrefixInv, ReuseInv, RingInv
<1>6. Len(c.toks) = job[e].promised
  BY <1>1 DEF PrefixInv, ReuseInv, RoutedInv, AtJob, ReuseLen
<1>7. /\ BeginAt(e, Len(c.toks)) /\ gdn' = [gdn EXCEPT ![e] = c.state]
      /\ ring' = [ring EXCEPT ![e] = KeptRing(e, Len(c.toks), p)]
      /\ snapshot' = [snapshot EXCEPT ![e] = KeptSnap(e, Len(c.toks), p)]
      /\ UNCHANGED <<kv, ckNext, blobs>>
  BY DEF RestoreCkpt
<1>8. Len(c.toks) <= Len(p) - 1
  BY <1>3, <1>4
<1> HIDE DEF k
<1> QED BY <1>1, <1>3, <1>4, <1>5, <1>6, <1>7, <1>8, RestoredReuse

(* An empty ring is right whatever the rows are. *)
LEMMA EmptyRingFacts ==
  ASSUME NEW e \in Eng, NEW rows
  PROVE  /\ EmptyRing \in [1 .. CkptSlots -> Checkpoints]
         /\ Backed(NoSnap, rows, Ctx[e]) /\ NoSnap.toks = <<>>
         /\ \A k \in 1 .. CkptSlots :
              Backed(EmptyRing[k], rows, Ctx[e]) /\ Len(EmptyRing[k].toks) = 0
<1>1. Len(<<>>) = 0
  OBVIOUS
<1>2. \A k \in 1 .. CkptSlots : EmptyRing[k] = NoCkpt
  BY DEF EmptyRing
<1>3. Backed(NoSnap, rows, Ctx[e]) /\ Backed(NoCkpt, rows, Ctx[e]) /\ Len(NoCkpt.toks) = 0
  BY <1>1, SizesAre DEF NoSnap, NoCkpt, Backed, RowsAre
<1>4. EmptyRing \in [1 .. CkptSlots -> Checkpoints]
  BY EmptyTypes DEF EmptyRing
<1> QED BY <1>2, <1>3, <1>4 DEF NoSnap

LEMMA MissPromised ==
  ASSUME PrefixInv, NEW e \in Eng, Misses(e)
  PROVE  AtJob(e, "claimed") /\ job[e].promised = 0
  BY DEF PrefixInv, ReuseInv, RoutedInv, Misses, Batched, AtJob, ReuseLen

(* The ring is emptied and the engine begins with other rows, or with none. *)
LEMMA FreshReuse ==
  ASSUME PrefixInv, NEW e \in Eng, Misses(e), NEW lo \in Nat, lo <= Len(job[e].toks) - 1,
         BeginAt(e, lo), gdn' = [gdn EXCEPT ![e] = Upto(job[e].toks, lo)],
         NEW K, kv' = [kv EXCEPT ![e] = K],
         DOMAIN K = 0 .. Ctx[e] + RoundWidth, \A i \in DOMAIN K : i >= Ctx[e] => K[i] = Zero,
         RowsAre(K, Upto(job[e].toks, lo)),
         ring' = [ring EXCEPT ![e] = EmptyRing], ckNext' = [ckNext EXCEPT ![e] = 1],
         snapshot' = [snapshot EXCEPT ![e] = KeptSnap(e, lo, job[e].toks)],
         UNCHANGED blobs
  PROVE  PrefixInv'
<1> DEFINE S == KeptSnap(e, lo, job[e].toks)
<1>1. S \in Snapshots /\ EmptyRing \in [1 .. CkptSlots -> Checkpoints] /\ 1 \in 1 .. CkptSlots
  <2>1. S \in Snapshots
    BY KeptSnapType DEF PrefixInv
  <2>2. EmptyRing \in [1 .. CkptSlots -> Checkpoints]
    BY EmptyRingFacts
  <2>3. 1 \in 1 .. CkptSlots
    BY SizesAre
  <2> QED BY <2>1, <2>2, <2>3
<1> HIDE DEF S
<1>2. job' \in [Eng -> Jobs] /\ \A f \in Eng \ {e} : job'[f] = job[f]
  BY BeginFacts DEF PrefixInv
<1>3. /\ ring' \in [Eng -> [1 .. CkptSlots -> Checkpoints]] /\ ring'[e] = EmptyRing
      /\ ckNext' \in [Eng -> 1 .. CkptSlots]
  BY <1>1 DEF PrefixInv, PrefixTypes
<1>4. snapshot' \in [Eng -> Snapshots]
  BY <1>1 DEF PrefixInv, PrefixTypes, S
<1>5. gdn' = [f \in Eng |-> gdn'[f]] /\ gdn'[e] = Upto(job[e].toks, lo)
  BY DEF PrefixInv, PrefixTypes
<1>6. kv' = [f \in Eng |-> kv'[f]] /\ kv'[e] = K
  BY DEF PrefixInv, PrefixTypes
<1>7. \A f \in Eng \ {e} :
        /\ gdn'[f] = gdn[f] /\ snapshot'[f] = snapshot[f] /\ ring'[f] = ring[f]
        /\ kv'[f] = kv[f]
  BY DEF PrefixInv, PrefixTypes
<1>8. \A f \in Eng : DOMAIN kv'[f] = 0 .. Ctx[f] + RoundWidth
  BY <1>6, <1>7 DEF PrefixInv, PrefixTypes
<1>9. PrefixTypes' /\ BlobsRight'
  BY <1>2, <1>3, <1>4, <1>5, <1>6, <1>8 DEF PrefixInv, PrefixTypes, BlobsRight
<1>10. RowsInv(e)' /\ RowsAre(kv'[e], Upto(job[e].toks, lo))
  BY <1>6 DEF RowsInv
<1>11. \A k \in 1 .. CkptSlots :
         /\ Backed(ring'[e][k], kv'[e], Ctx[e])
         /\ Len(ring'[e][k].toks) <= lo
  <2>1. \A k \in 1 .. CkptSlots :
          Backed(EmptyRing[k], kv'[e], Ctx[e]) /\ Len(EmptyRing[k].toks) = 0
    BY EmptyRingFacts
  <2> QED BY <1>3, <2>1
<1>12. ReuseInv(e)'
  BY <1>5, <1>10, <1>11, BeginReuse, MissPromised
<1> QED BY <1>2, <1>7, <1>9, <1>12, OneEngine

LEMMA JobFacts ==
  ASSUME PrefixInv, NEW e \in Eng
  PROVE  /\ job[e] \in Jobs /\ job[e].toks \in TokenSeqs /\ Len(job[e].toks) \in Nat
         /\ job[e].pos \in Nat /\ job[e].base \in Nat /\ job[e].ph \in Nat
         /\ job[e].stable \in Int /\ job[e].ck \in Nat
         /\ job[e].at # "free" => 1 <= Len(job[e].toks) /\ Len(job[e].toks) + Reserve <= Ctx[e]
         /\ DOMAIN kv[e] = 0 .. Ctx[e] + RoundWidth
         /\ \A i \in DOMAIN kv[e] : i >= Ctx[e] => kv[e][i] = Zero
<1>1. job[e] \in Jobs
  BY DEF PrefixInv, PrefixTypes
<1>2. job[e].toks \in TokenSeqs
  BY <1>1 DEF Jobs
<1>3. Len(job[e].toks) \in Nat
  BY <1>2 DEF TokenSeqs
<1>4. DOMAIN kv[e] = 0 .. Ctx[e] + RoundWidth
  BY DEF PrefixInv, PrefixTypes
<1>5. /\ job[e].at # "free" => 1 <= Len(job[e].toks) /\ Len(job[e].toks) + Reserve <= Ctx[e]
      /\ \A i \in DOMAIN kv[e] : i >= Ctx[e] => kv[e][i] = Zero
  BY DEF PrefixInv, ReuseInv, PlaceInv, RowsInv
<1> QED BY <1>1, <1>2, <1>3, <1>4, <1>5 DEF Jobs

(* Rows written inside the context leave the spare ones alone. *)
LEMMA EngineFilled ==
  ASSUME PrefixInv, NEW e \in Eng, NEW s, NEW from \in Nat, NEW to \in Nat, to <= Ctx[e]
  PROVE  /\ DOMAIN Filled(kv[e], s, from, to) = 0 .. Ctx[e] + RoundWidth
         /\ \A i \in DOMAIN Filled(kv[e], s, from, to) :
              i >= Ctx[e] => Filled(kv[e], s, from, to)[i] = Zero
<1> DEFINE rows == kv[e]
           c == Ctx[e]
           n == Ctx[e] + RoundWidth
<1>1. DOMAIN rows = 0 .. n /\ \A i \in DOMAIN rows : i >= c => rows[i] = Zero
  BY JobFacts
<1>2. n \in Nat /\ c \in Nat /\ to <= c
  BY SizesAre
<1> HIDE DEF rows, c, n
<1>3. /\ DOMAIN Filled(rows, s, from, to) = 0 .. n
      /\ \A i \in DOMAIN Filled(rows, s, from, to) : i >= c => Filled(rows, s, from, to)[i] = Zero
  BY <1>1, <1>2 DEF Filled
<1> QED BY <1>3 DEF rows, c, n

LEMMA RestoreBlobReuse ==
  ASSUME PrefixInv, NEW e \in Eng, RestoreBlob(e) PROVE PrefixInv'
<1> DEFINE p == job[e].toks
<1>1. PICK b \in blobs :
        /\ Misses(e) /\ Len(b.toks) <= Len(p) - 1 /\ Extends(p, b.toks)
        /\ BeginAt(e, Len(b.toks)) /\ gdn' = [gdn EXCEPT ![e] = b.state]
        /\ kv' = [kv EXCEPT ![e] = Filled(@, b.rows, 0, Len(b.rows))]
        /\ ring' = [ring EXCEPT ![e] = EmptyRing] /\ ckNext' = [ckNext EXCEPT ![e] = 1]
        /\ snapshot' = [snapshot EXCEPT ![e] = KeptSnap(e, Len(b.toks), p)]
        /\ UNCHANGED blobs
  BY DEF RestoreBlob
<1>2. b.toks \in TokenSeqs /\ b.state = b.toks /\ b.rows = b.toks
  BY DEF PrefixInv, BlobsRight
<1>3. /\ p \in TokenSeqs /\ Len(p) \in Nat /\ Len(b.toks) \in Nat
      /\ DOMAIN kv[e] = 0 .. Ctx[e] + RoundWidth
  BY <1>2, JobFacts DEF TokenSeqs
<1>4. b.toks = Upto(p, Len(b.toks)) /\ b.toks = Upto(b.toks, Len(b.toks))
  BY <1>1, <1>2, <1>3, ExtendsFacts, UptoAll
<1>5. /\ Len(p) <= Ctx[e] /\ Len(b.toks) <= Ctx[e] + RoundWidth /\ Len(b.toks) <= Ctx[e]
      /\ Ctx[e] + RoundWidth \in Nat /\ Ctx[e] \in Nat
  <2>1. job[e].at # "free"
    BY <1>1, MissPromised DEF AtJob
  <2>2. Len(p) + Reserve <= Ctx[e]
    BY <2>1, JobFacts
  <2>3. Len(b.toks) <= Len(p) - 1 /\ Len(b.toks) \in Nat /\ Len(p) \in Nat
    BY <1>1, <1>3
  <2>4. Ctx[e] \in Nat /\ RoundWidth \in Nat \ {0} /\ Reserve = RoundWidth + 1
    BY SizesAre
  <2>5. Len(b.toks) + 1 <= Len(p) /\ Len(p) <= Ctx[e] /\ Len(p) <= Ctx[e] + RoundWidth
    BY <2>2, <2>3, InsideContext
  <2>6. \A a, b1 \in Nat, c \in Nat : (a \in Nat /\ a + 1 <= b1 /\ b1 <= c) => a <= c
    OBVIOUS
  <2>7. Ctx[e] + RoundWidth \in Nat
    BY SizesAre
  <2>8. Len(b.toks) <= Ctx[e] /\ Len(b.toks) <= Ctx[e] + RoundWidth
    BY <2>3, <2>4, <2>5, <2>6, <2>7
  <2> QED BY <2>4, <2>5, <2>7, <2>8
<1> DEFINE K == Filled(kv[e], b.toks, 0, Len(b.toks))
<1>6. /\ DOMAIN K = 0 .. Ctx[e] + RoundWidth
      /\ \A i \in DOMAIN K : i >= Ctx[e] => K[i] = Zero
  <2> DEFINE n == Len(b.toks)
  <2>1. 0 \in Nat /\ n \in Nat /\ n <= Ctx[e]
    BY <1>3, <1>5
  <2> HIDE DEF n
  <2>2. \A s : /\ DOMAIN Filled(kv[e], s, 0, n) = 0 .. Ctx[e] + RoundWidth
             /\ \A i \in DOMAIN Filled(kv[e], s, 0, n) :
                  i >= Ctx[e] => Filled(kv[e], s, 0, n)[i] = Zero
    BY <2>1, EngineFilled
  <2> QED BY <2>2 DEF n
<1>7. RowsAre(kv[e], Upto(b.toks, 0))
  <2>1. Len(Upto(b.toks, 0)) = 0
    BY <1>2, <1>3, UptoFacts
  <2> QED BY <2>1 DEF RowsAre
<1>8. RowsAre(K, Upto(b.toks, Len(b.toks)))
  BY <1>1, <1>2, <1>3, <1>5, <1>7, FilledReads
<1>9. kv' = [kv EXCEPT ![e] = K]
  BY <1>1, <1>2 DEF PrefixInv, PrefixTypes
<1> HIDE DEF K
<1>10. /\ Misses(e) /\ Len(b.toks) <= Len(p) - 1 /\ BeginAt(e, Len(b.toks))
       /\ ring' = [ring EXCEPT ![e] = EmptyRing] /\ ckNext' = [ckNext EXCEPT ![e] = 1]
       /\ snapshot' = [snapshot EXCEPT ![e] = KeptSnap(e, Len(b.toks), p)]
       /\ UNCHANGED blobs
  BY <1>1
<1>11. gdn' = [gdn EXCEPT ![e] = Upto(p, Len(b.toks))] /\ RowsAre(K, Upto(p, Len(b.toks)))
  BY <1>1, <1>2, <1>4, <1>8
<1> QED BY <1>3, <1>6, <1>9, <1>10, <1>11, FreshReuse

LEMMA ColdReuse ==
  ASSUME PrefixInv, NEW e \in Eng, ColdPrefill(e) PROVE PrefixInv'
<1> DEFINE p == job[e].toks
<1>1. /\ Misses(e) /\ BeginAt(e, 0) /\ gdn' = [gdn EXCEPT ![e] = <<>>]
      /\ ring' = [ring EXCEPT ![e] = EmptyRing] /\ ckNext' = [ckNext EXCEPT ![e] = 1]
      /\ snapshot' = [snapshot EXCEPT ![e] = KeptSnap(e, 0, p)]
      /\ UNCHANGED blobs /\ kv' = kv
  BY DEF ColdPrefill
<1>2. p \in TokenSeqs /\ Len(p) \in Nat /\ 1 <= Len(p)
  BY <1>1, JobFacts, MissPromised DEF AtJob
<1>3. Upto(p, 0) = <<>> /\ RowsAre(kv[e], Upto(p, 0))
  <2>1. Len(Upto(p, 0)) = 0 /\ Upto(p, 0) \in TokenSeqs
    BY <1>2, UptoFacts
  <2> QED BY <2>1 DEF RowsAre, TokenSeqs
<1>4. kv' = [kv EXCEPT ![e] = kv[e]]
  BY <1>1 DEF PrefixInv, PrefixTypes
<1>5. 0 \in Nat /\ 0 <= Len(p) - 1
  BY <1>2
<1>6. /\ DOMAIN kv[e] = 0 .. Ctx[e] + RoundWidth
      /\ \A i \in DOMAIN kv[e] : i >= Ctx[e] => kv[e][i] = Zero
  BY JobFacts
<1>7. gdn' = [gdn EXCEPT ![e] = Upto(p, 0)]
  BY <1>1, <1>3
<1> QED BY <1>1, <1>3, <1>4, <1>5, <1>6, <1>7, FreshReuse

(* A request that reaches its first round: the rows of the whole prompt,   *)
(* and caches that are no longer than it.                                  *)
LEMMA PromptRead ==
  ASSUME PrefixInv, NEW e \in Eng, job[e].at # "free", NEW j \in Jobs,
         job' = [job EXCEPT ![e] = j],
         j.at = "decode", j.toks = job[e].toks, j.pos = Len(j.toks), j.ph = Len(j.toks) - 1,
         gdn' = [gdn EXCEPT ![e] = job[e].toks],
         NEW K, kv' = [kv EXCEPT ![e] = K],
         DOMAIN K = 0 .. Ctx[e] + RoundWidth, \A i \in DOMAIN K : i >= Ctx[e] => K[i] = Zero,
         RowsAre(K, job[e].toks),
         NEW R \in [1 .. CkptSlots -> Checkpoints], ring' = [ring EXCEPT ![e] = R],
         NEW S \in Snapshots, snapshot' = [snapshot EXCEPT ![e] = S],
         \A k \in 1 .. CkptSlots :
           Backed(R[k], K, Ctx[e]) /\ Len(R[k].toks) <= Len(job[e].toks),
         Backed(S, K, Ctx[e]), Len(S.toks) <= Len(job[e].toks),
         ckNext' \in [Eng -> 1 .. CkptSlots], UNCHANGED blobs
  PROVE  PrefixInv'
<1>1. job' \in [Eng -> Jobs] /\ job'[e] = j /\ \A f \in Eng \ {e} : job'[f] = job[f]
  BY DEF PrefixInv, PrefixTypes
<1>2. ring' \in [Eng -> [1 .. CkptSlots -> Checkpoints]] /\ ring'[e] = R
  BY DEF PrefixInv, PrefixTypes
<1>3. snapshot' \in [Eng -> Snapshots] /\ snapshot'[e] = S
  BY DEF PrefixInv, PrefixTypes
<1>4. gdn' = [f \in Eng |-> gdn'[f]] /\ gdn'[e] = job[e].toks
  BY DEF PrefixInv, PrefixTypes
<1>5. kv' = [f \in Eng |-> kv'[f]] /\ kv'[e] = K
  BY DEF PrefixInv, PrefixTypes
<1>6. \A f \in Eng \ {e} :
        /\ gdn'[f] = gdn[f] /\ snapshot'[f] = snapshot[f] /\ ring'[f] = ring[f]
        /\ kv'[f] = kv[f]
  BY DEF PrefixInv, PrefixTypes
<1>7. \A f \in Eng : DOMAIN kv'[f] = 0 .. Ctx[f] + RoundWidth
  BY <1>5, <1>6 DEF PrefixInv, PrefixTypes
<1>8. PrefixTypes' /\ BlobsRight'
  BY <1>1, <1>2, <1>3, <1>4, <1>5, <1>7 DEF PrefixInv, PrefixTypes, BlobsRight
<1>9. /\ job[e].toks \in TokenSeqs /\ Len(job[e].toks) \in Nat
      /\ 1 <= Len(job[e].toks) /\ Len(job[e].toks) + Reserve <= Ctx[e]
  BY JobFacts
<1>10. Upto(job[e].toks, Len(job[e].toks)) = job[e].toks
  BY <1>9, UptoAll
<1>11. RingInv(e)' /\ SnapshotInv(e)'
  BY <1>1, <1>2, <1>3, <1>5 DEF RingInv, SnapshotInv
<1>12. ReadInv(e)' /\ RowsInv(e)'
  BY <1>1, <1>4, <1>5, <1>10 DEF ReadInv, RowsInv
<1>13. PlaceInv(e)' /\ RoutedInv(e)'
  BY <1>1, <1>9 DEF PlaceInv, RoutedInv
<1>14. ReuseInv(e)'
  BY <1>11, <1>12, <1>13 DEF ReuseInv
<1> QED BY <1>1, <1>6, <1>8, <1>14, OneEngine

(* The job of an engine that comes to decode. *)
LEMMA DecodeJob ==
  ASSUME PrefixInv, NEW e \in Eng, job[e].at # "free",
         job' = [job EXCEPT ![e].at = "decode", ![e].pos = Len(job[e].toks),
                            ![e].ph = Len(job[e].toks) - 1]
  PROVE  \E j \in Jobs :
           /\ job' = [job EXCEPT ![e] = j]
           /\ j.at = "decode" /\ j.toks = job[e].toks
           /\ j.pos = Len(job[e].toks) /\ j.ph = Len(job[e].toks) - 1
<1>1. job \in [Eng -> Jobs] /\ job[e] \in Jobs
  BY DEF PrefixInv, PrefixTypes
<1>2. PICK n \in Nat, h \in Nat : n = Len(job[e].toks) /\ h = Len(job[e].toks) - 1
  <2>1. Len(job[e].toks) \in Nat /\ 1 <= Len(job[e].toks)
    BY JobFacts
  <2>2. Len(job[e].toks) - 1 \in Nat
    BY <2>1
  <2> QED BY <2>1, <2>2
<1> DEFINE j == [job[e] EXCEPT !.at = "decode", !.pos = n, !.ph = h]
<1>3. j \in Jobs /\ j.at = "decode" /\ j.toks = job[e].toks /\ j.pos = n /\ j.ph = h
  BY <1>1 DEF Jobs, JobAts
<1>4. job' = [job EXCEPT ![e] = j]
  BY <1>1, <1>2
<1> HIDE DEF j
<1> QED BY <1>2, <1>3, <1>4

LEMMA SerialReuse ==
  ASSUME PrefixInv, NEW e \in Eng, SerialPrefill(e) PROVE PrefixInv'
<1> DEFINE p == job[e].toks
           K == Filled(kv[e], p, 0, Len(p))
<1>0. job[e].at # "free"
  BY DEF SerialPrefill, AtJob
<1>1. PICK j \in Jobs :
        /\ job' = [job EXCEPT ![e] = j] /\ j.at = "decode" /\ j.toks = p
        /\ j.pos = Len(p) /\ j.ph = Len(p) - 1
  BY <1>0, DecodeJob DEF SerialPrefill
<1>2. /\ gdn' = [gdn EXCEPT ![e] = p]
      /\ ring' = [ring EXCEPT ![e] = EmptyRing] /\ ckNext' = [ckNext EXCEPT ![e] = 1]
      /\ snapshot' = [snapshot EXCEPT ![e] = NoSnap] /\ UNCHANGED blobs
  BY DEF SerialPrefill
<1>3. kv' = [kv EXCEPT ![e] = K]
  BY DEF SerialPrefill, PrefixInv, PrefixTypes
<1>4. /\ p \in TokenSeqs /\ Len(p) \in Nat /\ 1 <= Len(p) /\ Len(p) + Reserve <= Ctx[e]
      /\ DOMAIN kv[e] = 0 .. Ctx[e] + RoundWidth
      /\ \A i \in DOMAIN kv[e] : i >= Ctx[e] => kv[e][i] = Zero
  BY <1>0, JobFacts
<1>5. /\ Ctx[e] \in Nat /\ RoundWidth \in Nat \ {0} /\ Reserve = RoundWidth + 1
      /\ Ctx[e] + RoundWidth \in Nat
  BY SizesAre
<1>6. Len(p) <= Ctx[e] /\ Len(p) <= Ctx[e] + RoundWidth
  BY <1>4, InsideContext
<1>7. DOMAIN K = 0 .. Ctx[e] + RoundWidth /\ \A i \in DOMAIN K : i >= Ctx[e] => K[i] = Zero
  <2>1. 0 \in Nat
    OBVIOUS
  <2>2. Len(p) \in Nat /\ Len(p) <= Ctx[e]
    BY <1>4, <1>6
  <2> QED BY <2>1, <2>2, EngineFilled
<1>8. RowsAre(K, p)
  <2>1. RowsAre(kv[e], Upto(p, 0))
    <3>1. Len(Upto(p, 0)) = 0
      BY <1>4, UptoFacts
    <3> QED BY <3>1 DEF RowsAre
  <2>2. RowsAre(K, Upto(p, Len(p)))
    BY <1>4, <1>5, <1>6, <2>1, FilledReads
  <2> QED BY <1>4, <2>2, UptoAll
<1>9. /\ EmptyRing \in [1 .. CkptSlots -> Checkpoints] /\ NoSnap \in Snapshots
      /\ Backed(NoSnap, K, Ctx[e]) /\ NoSnap.toks = <<>>
      /\ \A k \in 1 .. CkptSlots : Backed(EmptyRing[k], K, Ctx[e]) /\ Len(EmptyRing[k].toks) = 0
  BY EmptyRingFacts, EmptyTypes
<1>10. ckNext' \in [Eng -> 1 .. CkptSlots]
  BY <1>2, SizesAre DEF PrefixInv, PrefixTypes
<1> HIDE DEF K
<1>11. Len(NoSnap.toks) <= Len(p) /\ \A k \in 1 .. CkptSlots : Len(EmptyRing[k].toks) <= Len(p)
  BY <1>4, <1>9
<1> QED BY <1>0, <1>1, <1>2, <1>3, <1>7, <1>8, <1>9, <1>10, <1>11, PromptRead

(* Reading on: the tokens from..to of the prompt are written. *)
LEMMA WrittenFacts ==
  ASSUME PrefixInv, NEW e \in Eng, job[e].at \in {"chunks", "tail"}, NEW to \in Nat,
         job[e].pos < to, to <= Len(job[e].toks)
  PROVE  LET K == Filled(kv[e], job[e].toks, job[e].pos, to) IN
         /\ DOMAIN K = 0 .. Ctx[e] + RoundWidth
         /\ \A i \in DOMAIN K : i >= Ctx[e] => K[i] = Zero
         /\ RowsAre(K, Upto(job[e].toks, to))
         /\ Len(Upto(job[e].toks, to)) <= Ctx[e]
         /\ gdn[e] \o SubSeq(job[e].toks, job[e].pos + 1, to) = Upto(job[e].toks, to)
         /\ \A c : /\ c.toks \in TokenSeqs /\ Backed(c, kv[e], Ctx[e])
                   /\ (Len(c.toks) <= job[e].base \/ Extends(job[e].toks, c.toks))
                   => Backed(c, K, Ctx[e])
<1> DEFINE p == job[e].toks
           from == job[e].pos
           K == Filled(kv[e], p, from, to)
<1>1. /\ p \in TokenSeqs /\ Len(p) \in Nat /\ 1 <= Len(p) /\ Len(p) + Reserve <= Ctx[e]
      /\ from \in Nat /\ job[e].base \in Nat /\ DOMAIN kv[e] = 0 .. Ctx[e] + RoundWidth
  BY JobFacts
<1>2. Ctx[e] \in Nat /\ RoundWidth \in Nat /\ Ctx[e] + RoundWidth \in Nat
  BY SizesAre
<1>3. Len(p) <= Ctx[e] /\ Len(p) <= Ctx[e] + RoundWidth
  BY <1>1, InsideContext
<1>4. to <= Len(p) /\ from <= to
  BY <1>1
<1>5. to <= Ctx[e] /\ to <= Ctx[e] + RoundWidth
  BY <1>1, <1>2, <1>3, <1>4
<1>6. RowsAre(kv[e], Upto(p, from)) /\ gdn[e] = Upto(p, from) /\ job[e].base <= from
  BY DEF PrefixInv, ReuseInv, ReadInv, PlaceInv
<1>7. DOMAIN K = 0 .. Ctx[e] + RoundWidth /\ \A i \in DOMAIN K : i >= Ctx[e] => K[i] = Zero
  <2>1. from \in Nat /\ to \in Nat /\ to <= Ctx[e]
    BY <1>1, <1>5
  <2> HIDE DEF from, p
  <2>2. \A s : /\ DOMAIN Filled(kv[e], s, from, to) = 0 .. Ctx[e] + RoundWidth
             /\ \A i \in DOMAIN Filled(kv[e], s, from, to) :
                  i >= Ctx[e] => Filled(kv[e], s, from, to)[i] = Zero
    BY <2>1, EngineFilled
  <2> QED BY <2>2
<1>8. RowsAre(K, Upto(p, to))
  BY <1>1, <1>2, <1>4, <1>5, <1>6, FilledReads
<1>9. from \in 0 .. Len(p) /\ to \in from .. Len(p) /\ to \in 0 .. Len(p)
  BY <1>1, <1>4
<1>10. gdn[e] \o SubSeq(p, from + 1, to) = Upto(p, to)
  BY <1>1, <1>6, <1>9, UptoGrows
<1>11. Len(Upto(p, to)) <= Ctx[e]
  BY <1>1, <1>5, <1>9, UptoFacts
<1>12. ASSUME NEW c, c.toks \in TokenSeqs, Backed(c, kv[e], Ctx[e]),
              Len(c.toks) <= job[e].base \/ Extends(p, c.toks)
       PROVE  Backed(c, K, Ctx[e])
  <2>1. Len(c.toks) \in Nat /\ Len(c.toks) <= Ctx[e] /\ RowsAre(kv[e], c.toks)
    BY <1>12 DEF Backed, TokenSeqs
  <2>2. \A i \in 1 .. Len(c.toks) : from < i /\ i <= to => c.toks[i] = p[i]
    <3>1. CASE Len(c.toks) <= job[e].base
      BY <1>1, <1>6, <2>1, <3>1
    <3>2. CASE Extends(p, c.toks)
      BY <1>1, <1>12, <3>2, ExtendsFacts
    <3> QED BY <1>12, <3>1, <3>2
  <2>3. Len(c.toks) <= Ctx[e] + RoundWidth
    BY <1>2, <2>1
  <2> DEFINE rows == kv[e]
             N == Ctx[e] + RoundWidth
             u == c.toks
  <2>4. /\ N \in Nat /\ DOMAIN rows = 0 .. N /\ p \in TokenSeqs /\ u \in TokenSeqs
        /\ from \in Nat /\ to \in Nat /\ RowsAre(rows, u) /\ Len(u) <= N
        /\ \A i \in 1 .. Len(u) : from < i /\ i <= to => u[i] = p[i]
    BY <1>1, <1>2, <1>12, <2>1, <2>2, <2>3
  <2> HIDE DEF rows, N, u, p, from
  <2>5. RowsAre(Filled(rows, p, from, to), u)
    BY <2>4, RowsKept
  <2>6. RowsAre(K, c.toks)
    BY <2>5 DEF rows, u
  <2> QED BY <1>12, <2>6 DEF Backed
<1> HIDE DEF K
<1>13. /\ DOMAIN K = 0 .. Ctx[e] + RoundWidth
       /\ \A i \in DOMAIN K : i >= Ctx[e] => K[i] = Zero
       /\ RowsAre(K, Upto(job[e].toks, to))
       /\ Len(Upto(job[e].toks, to)) <= Ctx[e]
       /\ gdn[e] \o SubSeq(job[e].toks, job[e].pos + 1, to) = Upto(job[e].toks, to)
       /\ \A c : /\ c.toks \in TokenSeqs /\ Backed(c, kv[e], Ctx[e])
                 /\ (Len(c.toks) <= job[e].base \/ Extends(job[e].toks, c.toks))
                 => Backed(c, K, Ctx[e])
  BY <1>7, <1>8, <1>10, <1>11, <1>12
<1> QED BY <1>13 DEF K

LEMMA StepLastReuse ==
  ASSUME PrefixInv, NEW e \in Eng, StepLast(e) PROVE PrefixInv'
<1> DEFINE p == job[e].toks
           K == Filled(kv[e], p, job[e].pos, Len(p))
<1>0. job[e].at = "tail" /\ job[e].pos = Len(p) - 1
  BY DEF StepLast, AtJob
<1>1. PICK j \in Jobs :
        /\ job' = [job EXCEPT ![e] = j] /\ j.at = "decode" /\ j.toks = p
        /\ j.pos = Len(p) /\ j.ph = Len(p) - 1
  BY <1>0, DecodeJob DEF StepLast
<1>2. p \in TokenSeqs /\ Len(p) \in Nat /\ 1 <= Len(p) /\ job[e].base \in Nat
  BY <1>0, JobFacts
<1>3. job[e].pos < Len(p) /\ Len(p) <= Len(p)
  BY <1>0, <1>2
<1>4. /\ DOMAIN K = 0 .. Ctx[e] + RoundWidth
      /\ \A i \in DOMAIN K : i >= Ctx[e] => K[i] = Zero
      /\ RowsAre(K, Upto(p, Len(p)))
      /\ \A c : /\ c.toks \in TokenSeqs /\ Backed(c, kv[e], Ctx[e])
                /\ (Len(c.toks) <= job[e].base \/ Extends(p, c.toks))
                => Backed(c, K, Ctx[e])
  BY <1>0, <1>2, <1>3, WrittenFacts
<1>5. gdn[e] = Upto(p, Len(p) - 1) /\ job[e].base <= Len(p) - 1
  BY <1>0 DEF PrefixInv, ReuseInv, ReadInv, PlaceInv
<1>6. gdn' = [gdn EXCEPT ![e] = p]
  BY <1>2, <1>5, UptoLast DEF StepLast, PrefixInv, PrefixTypes
<1>7. kv' = [kv EXCEPT ![e] = K] /\ UNCHANGED <<snapshot, ring, ckNext, blobs>>
  BY <1>0 DEF StepLast, PrefixInv, PrefixTypes
<1> HIDE DEF K
<1>8. /\ DOMAIN K = 0 .. Ctx[e] + RoundWidth
      /\ \A i \in DOMAIN K : i >= Ctx[e] => K[i] = Zero
  BY <1>4
<1>9. RowsAre(K, p)
  BY <1>2, <1>4, UptoAll
<1>10. ASSUME NEW c, c.toks \in TokenSeqs, Backed(c, kv[e], Ctx[e]),
              Len(c.toks) <= job[e].base \/ Extends(p, c.toks)
       PROVE  Backed(c, K, Ctx[e]) /\ Len(c.toks) <= Len(p)
  <2>1. Len(c.toks) \in Nat
    BY <1>10 DEF TokenSeqs
  <2>2. Len(c.toks) <= Len(p)
    <3>1. CASE Len(c.toks) <= job[e].base
      BY <1>2, <1>5, <2>1, <3>1
    <3>2. CASE Extends(p, c.toks)
      BY <3>2 DEF Extends
    <3> QED BY <1>10, <3>1, <3>2
  <2> QED BY <1>4, <1>10, <2>2
<1> DEFINE R == ring[e]
           S == snapshot[e]
<1>11. /\ R \in [1 .. CkptSlots -> Checkpoints] /\ S \in Snapshots
       /\ ckNext' \in [Eng -> 1 .. CkptSlots]
  BY <1>7 DEF PrefixInv, PrefixTypes
<1>12. \A k \in 1 .. CkptSlots : Backed(R[k], K, Ctx[e]) /\ Len(R[k].toks) <= Len(p)
  <2> SUFFICES ASSUME NEW k \in 1 .. CkptSlots
               PROVE  Backed(R[k], K, Ctx[e]) /\ Len(R[k].toks) <= Len(p)
    OBVIOUS
  <2>1. R[k].toks \in TokenSeqs
    BY <1>11 DEF Checkpoints
  <2>2. Backed(R[k], kv[e], Ctx[e]) /\ (Len(R[k].toks) <= job[e].base \/ Extends(p, R[k].toks))
    BY <1>0 DEF PrefixInv, ReuseInv, RingInv
  <2> QED BY <1>10, <2>1, <2>2
<1>13. Backed(S, K, Ctx[e]) /\ Len(S.toks) <= Len(p)
  <2>1. S.toks \in TokenSeqs
    BY <1>11 DEF Snapshots
  <2>2. Backed(S, kv[e], Ctx[e]) /\ Extends(p, S.toks)
    BY <1>0 DEF PrefixInv, ReuseInv, SnapshotInv
  <2> QED BY <1>10, <2>1, <2>2
<1>14. ring' = [ring EXCEPT ![e] = R] /\ snapshot' = [snapshot EXCEPT ![e] = S]
  BY <1>7 DEF PrefixInv, PrefixTypes
<1> HIDE DEF K, R, S
<1> QED BY <1>0, <1>1, <1>6, <1>7, <1>8, <1>9, <1>11, <1>12, <1>13, <1>14, PromptRead

(* A round writes behind the prompt, and inside the context. *)
LEMMA DecodeReuse ==
  ASSUME PrefixInv, NEW e \in Eng, DecodeRound(e) PROVE PrefixInv'
<1> DEFINE p == job[e].toks
           h == job[e].ph
           K == [i \in DOMAIN kv[e] |-> IF h < i /\ i <= h + RoundWidth THEN Guess ELSE kv[e][i]]
<1>0. job[e].at = "decode" /\ h + Reserve <= Ctx[e] /\ UNCHANGED <<snapshot, ring, ckNext, blobs>>
  BY DEF DecodeRound, AtJob, RoundFits
<1>1. PICK n \in 1 .. RoundWidth : job' = [job EXCEPT ![e].ph = @ + n]
  BY DEF DecodeRound
<1>2. /\ p \in TokenSeqs /\ Len(p) \in Nat /\ h \in Nat /\ job[e].pos \in Nat
      /\ DOMAIN kv[e] = 0 .. Ctx[e] + RoundWidth /\ job[e] \in Jobs
      /\ \A i \in DOMAIN kv[e] : i >= Ctx[e] => kv[e][i] = Zero
  BY JobFacts
<1>3. /\ Ctx[e] \in Nat /\ RoundWidth \in Nat \ {0} /\ Reserve = RoundWidth + 1
      /\ Ctx[e] + RoundWidth \in Nat
  BY SizesAre
<1>4. /\ job[e].pos = Len(p) /\ Len(p) <= h + 1 /\ RowsAre(kv[e], Upto(p, Len(p)))
      /\ 1 <= Len(p) /\ Len(p) + Reserve <= Ctx[e]
  BY <1>0 DEF PrefixInv, ReuseInv, PlaceInv, ReadInv
<1>5. kv' = [kv EXCEPT ![e] = K]
  BY DEF DecodeRound, PrefixInv, PrefixTypes
<1>6. ASSUME NEW c \in TokenSeqs, RowsAre(kv[e], c), Len(c) <= Len(p) PROVE RowsAre(K, c)
  <2> SUFFICES ASSUME NEW i \in 1 .. Len(c) PROVE K[i - 1] = c[i]
    BY DEF RowsAre
  <2>1. Len(c) \in Nat
    BY DEF TokenSeqs
  <2>2. i - 1 \in DOMAIN kv[e] /\ ~(h < i - 1)
    <3>1. i \in Nat /\ 1 <= i /\ i <= Len(p) /\ Len(p) <= h + 1
      BY <1>2, <1>4, <1>6, <2>1
    <3>2. Len(p) <= Ctx[e] + RoundWidth /\ Ctx[e] + RoundWidth \in Nat
      BY <1>2, <1>3, <1>4, InsideContext
    <3>3. i - 1 \in 0 .. Ctx[e] + RoundWidth
      BY <1>2, <3>1, <3>2
    <3>4. ~(h < i - 1)
      BY <1>2, <3>1
    <3> QED BY <1>2, <3>3, <3>4
  <2>3. kv[e][i - 1] = c[i]
    BY <1>6 DEF RowsAre
  <2> QED BY <2>2, <2>3
<1>7. DOMAIN K = 0 .. Ctx[e] + RoundWidth /\ \A i \in DOMAIN K : i >= Ctx[e] => K[i] = Zero
  <2>1. (h + RoundWidth) + 1 <= Ctx[e]
    BY <1>0, <1>2, InsideContext
  <2>2. DOMAIN K = DOMAIN kv[e]
    OBVIOUS
  <2>3. ASSUME NEW i \in DOMAIN kv[e], i >= Ctx[e] PROVE K[i] = Zero
    <3>1. i \in Nat
      BY <1>2, <1>3
    <3>2. ~(i <= h + RoundWidth)
      BY <1>2, <1>3, <2>1, <2>3, <3>1
    <3> QED BY <1>2, <2>3, <3>2
  <2> QED BY <1>2, <2>2, <2>3
<1>8. PICK m \in Nat : m = h + n /\ m >= Len(p)
  <2>1. h \in Nat /\ n \in Nat /\ 1 <= n /\ Len(p) \in Nat /\ Len(p) <= h + 1
    BY <1>2, <1>3, <1>4
  <2>2. h + n \in Nat /\ h + n >= Len(p)
    BY <2>1
  <2> QED BY <2>2
<1> DEFINE j == [job[e] EXCEPT !.ph = m]
<1>9. j \in Jobs /\ j.at = "decode" /\ j.toks = p /\ j.pos = Len(p) /\ j.ph = m
  BY <1>0, <1>2, <1>4 DEF Jobs
<1>10. job' = [job EXCEPT ![e] = j]
  BY <1>1, <1>8 DEF PrefixInv, PrefixTypes
<1> HIDE DEF j, K
<1>11. job' \in [Eng -> Jobs] /\ job'[e] = j /\ \A f \in Eng \ {e} : job'[f] = job[f]
  BY <1>9, <1>10 DEF PrefixInv, PrefixTypes
<1>12. kv' = [f \in Eng |-> kv'[f]] /\ kv'[e] = K /\ \A f \in Eng \ {e} : kv'[f] = kv[f]
  BY <1>5 DEF PrefixInv, PrefixTypes
<1>13. gdn' = [f \in Eng |-> gdn'[f]] /\ \A f \in Eng \ {e} : gdn'[f] = gdn[f]
  BY DEF DecodeRound, PrefixInv, PrefixTypes
<1>14. \A f \in Eng : DOMAIN kv'[f] = 0 .. Ctx[f] + RoundWidth
  BY <1>7, <1>12 DEF PrefixInv, PrefixTypes
<1>15. PrefixTypes' /\ BlobsRight'
  BY <1>0, <1>11, <1>12, <1>13, <1>14 DEF PrefixInv, PrefixTypes, BlobsRight
<1>16. RingInv(e)'
  <2> SUFFICES ASSUME NEW k \in 1 .. CkptSlots
               PROVE  Backed(ring[e][k], K, Ctx[e]) /\ Len(ring[e][k].toks) <= Len(p)
    BY <1>0, <1>9, <1>11, <1>12 DEF RingInv
  <2>1. Backed(ring[e][k], kv[e], Ctx[e]) /\ Len(ring[e][k].toks) <= Len(p)
    BY <1>0 DEF PrefixInv, ReuseInv, RingInv
  <2>2. ring \in [Eng -> [1 .. CkptSlots -> Checkpoints]]
    BY DEF PrefixInv, PrefixTypes
  <2>3. ring[e][k].toks \in TokenSeqs
    BY <2>2 DEF Checkpoints
  <2> QED BY <1>6, <2>1, <2>3 DEF Backed
<1>17. SnapshotInv(e)'
  <2>1. Backed(snapshot[e], kv[e], Ctx[e]) /\ Len(snapshot[e].toks) <= Len(p)
    BY <1>0 DEF PrefixInv, ReuseInv, SnapshotInv
  <2>2. snapshot[e].toks \in TokenSeqs
    BY DEF PrefixInv, PrefixTypes, Snapshots
  <2>3. Backed(snapshot[e], K, Ctx[e])
    BY <1>6, <2>1, <2>2 DEF Backed
  <2> QED BY <1>0, <1>9, <1>11, <1>12, <2>1, <2>3 DEF SnapshotInv
<1>18. ReadInv(e)' /\ RowsInv(e)'
  <2>1. Len(Upto(p, Len(p))) <= Len(p) /\ Upto(p, Len(p)) \in TokenSeqs
    BY <1>2, UptoAll
  <2>2. RowsAre(K, Upto(p, Len(p)))
    BY <1>4, <1>6, <2>1
  <2> QED BY <1>7, <1>8, <1>9, <1>11, <1>12, <2>2 DEF ReadInv, RowsInv
<1>19. PlaceInv(e)' /\ RoutedInv(e)'
  BY <1>2, <1>4, <1>8, <1>9, <1>11 DEF PlaceInv, RoutedInv
<1>20. ReuseInv(e)'
  BY <1>16, <1>17, <1>18, <1>19 DEF ReuseInv
<1> QED BY <1>0, <1>11, <1>12, <1>13, <1>15, <1>20, OneEngine

LEMMA FreeReuse ==
  ASSUME PrefixInv, NEW e \in Eng, FreeSlot(e) PROVE PrefixInv'
<1>0. job[e].at = "decode" /\ UNCHANGED <<kv, gdn, snapshot, ring, ckNext, blobs>>
  BY DEF FreeSlot, AtJob
<1>1. job' \in [Eng -> Jobs] /\ job'[e] = NoJob /\ \A f \in Eng \ {e} : job'[f] = job[f]
  BY EmptyTypes DEF FreeSlot, PrefixInv, PrefixTypes
<1>2. NoJob.at = "free"
  BY DEF NoJob
<1>3. PrefixTypes' /\ BlobsRight'
  BY <1>0, <1>1 DEF PrefixInv, PrefixTypes, BlobsRight
<1>4. ReuseInv(e)'
  BY <1>0, <1>1, <1>2
     DEF PrefixInv, ReuseInv, RingInv, SnapshotInv, ReadInv, PlaceInv, RoutedInv, RowsInv
<1> QED BY <1>0, <1>1, <1>3, <1>4, OneEngine

-----------------------------------------------------------------------------
(* The chunks *)

(* What a chunk boundary does to the job and to the ring: a checkpoint, if *)
(* one is due, is the state of the tokens read.                            *)
LEMMA SaveFacts ==
  ASSUME PrefixInv, NEW e \in Eng, NEW n \in 0 .. Len(job[e].toks), CkptSave(e, n),
         gdn'[e] = Upto(job[e].toks, n)
  PROVE  /\ \E j \in Jobs :
              /\ job' = [job EXCEPT ![e] = j]
              /\ j.at = job[e].at /\ j.toks = job[e].toks /\ j.stable = job[e].stable
              /\ j.base = job[e].base /\ j.promised = job[e].promised /\ j.pos = n
         /\ \E R \in [1 .. CkptSlots -> Checkpoints] :
              /\ ring' = [ring EXCEPT ![e] = R]
              /\ \A k \in 1 .. CkptSlots :
                   R[k] = ring[e][k] \/ (R[k].toks = Upto(job[e].toks, n) /\ R[k].state = R[k].toks)
         /\ ckNext' \in [Eng -> 1 .. CkptSlots]
<1> DEFINE u == Upto(job[e].toks, n)
           c == [toks |-> u, state |-> u]
           a == ckNext[e]
<1>1. /\ job[e] \in Jobs /\ job \in [Eng -> Jobs] /\ n \in Nat
      /\ ring \in [Eng -> [1 .. CkptSlots -> Checkpoints]]
      /\ ring[e] \in [1 .. CkptSlots -> Checkpoints]
      /\ a \in 1 .. CkptSlots /\ ckNext \in [Eng -> 1 .. CkptSlots]
  BY JobFacts DEF PrefixInv, PrefixTypes
<1>2. u \in TokenSeqs
  BY JobFacts, UptoFacts
<1>3. c \in Checkpoints /\ c.toks = u /\ c.state = u
  BY <1>2 DEF Checkpoints
<1>4. CASE CkptInterval > 0 /\ n - job[e].ck >= CkptInterval
  <2>1. /\ ring' = [ring EXCEPT ![e][a] = [toks |-> Upto(job[e].toks, n), state |-> gdn'[e]]]
        /\ ckNext' = [ckNext EXCEPT ![e] = (a % CkptSlots) + 1]
        /\ job' = [job EXCEPT ![e].pos = n, ![e].ck = n]
    BY <1>4 DEF CkptSave
  <2>2. (a % CkptSlots) + 1 \in 1 .. CkptSlots
    <3>1. CkptSlots \in Nat \ {0} /\ a \in Nat
      BY <1>1, SizesAre
    <3>2. a % CkptSlots \in 0 .. (CkptSlots - 1)
      BY <3>1
    <3> QED BY <3>1, <3>2
  <2>3. ckNext' \in [Eng -> 1 .. CkptSlots]
    BY <1>1, <2>1, <2>2
  <2> DEFINE R == [ring[e] EXCEPT ![a] = c]
             j == [job[e] EXCEPT !.pos = n, !.ck = n]
  <2>4. ring' = [ring EXCEPT ![e] = R]
    BY <1>1, <2>1
  <2>5. R \in [1 .. CkptSlots -> Checkpoints]
    BY <1>1, <1>3
  <2>6. \A k \in 1 .. CkptSlots : R[k] = IF k = a THEN c ELSE ring[e][k]
    BY <1>1
  <2>7. job' = [job EXCEPT ![e] = j]
    BY <1>1, <2>1
  <2>8. /\ j \in Jobs /\ j.at = job[e].at /\ j.toks = job[e].toks /\ j.stable = job[e].stable
        /\ j.base = job[e].base /\ j.promised = job[e].promised /\ j.pos = n
    BY <1>1 DEF Jobs
  <2> HIDE DEF R, j, c
  <2>9. \A k \in 1 .. CkptSlots : R[k] = ring[e][k] \/ (R[k].toks = u /\ R[k].state = R[k].toks)
    BY <1>3, <2>6
  <2> QED BY <2>3, <2>4, <2>5, <2>7, <2>8, <2>9
<1>5. CASE ~(CkptInterval > 0 /\ n - job[e].ck >= CkptInterval)
  <2>1. job' = [job EXCEPT ![e].pos = n] /\ ring' = ring /\ ckNext' = ckNext
    BY <1>5 DEF CkptSave
  <2> DEFINE R == ring[e]
             j == [job[e] EXCEPT !.pos = n]
  <2>2. ring' = [ring EXCEPT ![e] = R]
    BY <1>1, <2>1
  <2>3. job' = [job EXCEPT ![e] = j]
    BY <1>1, <2>1
  <2>4. /\ j \in Jobs /\ j.at = job[e].at /\ j.toks = job[e].toks /\ j.stable = job[e].stable
        /\ j.base = job[e].base /\ j.promised = job[e].promised /\ j.pos = n
    BY <1>1 DEF Jobs
  <2>5. \A k \in 1 .. CkptSlots : R[k] = ring[e][k]
    OBVIOUS
  <2> HIDE DEF j
  <2>6. R \in [1 .. CkptSlots -> Checkpoints] /\ ckNext' \in [Eng -> 1 .. CkptSlots]
    BY <1>1, <2>1
  <2> HIDE DEF R
  <2> QED BY <2>2, <2>3, <2>4, <2>5, <2>6
<1> QED BY <1>4, <1>5

(* A snapshot is due inside the prompt. *)
LEMMA SnapUptoFacts ==
  ASSUME PrefixInv, NEW e \in Eng, job[e].at # "free"
  PROVE  SnapUpto(e) \in Nat /\ SnapUpto(e) <= Len(job[e].toks) - 1
<1>1. /\ job[e].base \in Nat /\ job[e].stable \in Int /\ Len(job[e].toks) \in Nat
      /\ 1 <= Len(job[e].toks)
  BY JobFacts
<1> QED BY <1>1 DEF SnapUpto, NP

(* What is persisted is the state and the rows of the tokens read. *)
LEMMA ExportRight ==
  ASSUME NEW e \in Eng, job[e].toks \in TokenSeqs, NEW n \in 0 .. Len(job[e].toks),
         gdn'[e] = Upto(job[e].toks, n), RowsAre(kv'[e], Upto(job[e].toks, n))
  PROVE  LET b == Exported(e, n) IN b.toks \in TokenSeqs /\ b.state = b.toks /\ b.rows = b.toks
<1> DEFINE rows == kv'[e]
<1>1. Upto(job[e].toks, n) \in TokenSeqs
  BY UptoFacts
<1>2. RowsAre(rows, Upto(job[e].toks, n))
  OBVIOUS
<1> HIDE DEF rows
<1>3. [i \in 1 .. n |-> rows[i - 1]] = Upto(job[e].toks, n)
  BY <1>2, RowsOfUpto
<1> QED BY <1>1, <1>3 DEF Exported, rows

(* The rows of another engine, and the blobs, when a job reads on. *)
LEMMA ChunkReuse ==
  ASSUME PrefixInv, NEW e \in Eng, PrefillChunk(e) PROVE PrefixInv'
<1> DEFINE p == job[e].toks
           from == job[e].pos
           limit == IF AtJob(e, "chunks") THEN SnapUpto(e) ELSE Len(p) - 1
           to == IF from + PfT < limit THEN from + PfT ELSE limit
           K == Filled(kv[e], p, from, to)
<1>1. /\ job[e].at \in {"chunks", "tail"} /\ from < limit
      /\ gdn' = [gdn EXCEPT ![e] = @ \o SubSeq(p, from + 1, to)]
      /\ kv' = [kv EXCEPT ![e] = Filled(@, p, from, to)]
      /\ CkptSave(e, to)
      /\ (UNCHANGED blobs \/ blobs' = blobs \cup {Exported(e, to)})
      /\ UNCHANGED snapshot
  BY DEF PrefillChunk
<1>2. /\ p \in TokenSeqs /\ Len(p) \in Nat /\ 1 <= Len(p) /\ from \in Nat /\ job[e].base \in Nat
  BY <1>1, JobFacts
<1>3. /\ SnapUpto(e) \in Nat /\ SnapUpto(e) <= Len(p) - 1
      /\ PfT \in Nat \ {0}
  BY <1>1, SnapUptoFacts, SizesAre
<1>4. /\ limit \in Nat /\ limit <= Len(p) - 1
      /\ (job[e].at = "chunks" => limit = SnapUpto(e))
  BY <1>2, <1>3 DEF AtJob
<1>5. from < limit
  BY <1>1
<1> HIDE DEF limit
<1>6. to \in Nat /\ from < to /\ to <= limit /\ to <= Len(p) - 1 /\ to \in 0 .. Len(p)
  <2>1. from \in Nat /\ PfT \in Nat \ {0} /\ limit \in Nat /\ from < limit
    BY <1>2, <1>3, <1>4, <1>5
  <2> HIDE DEF from
  <2>2. to \in Nat /\ from < to /\ to <= limit
    BY <2>1
  <2>3. Len(p) \in Nat /\ limit <= Len(p) - 1
    BY <1>2, <1>4
  <2> HIDE DEF to, p
  <2> QED BY <2>1, <2>2, <2>3
<1>7. gdn'[e] = gdn[e] \o SubSeq(p, from + 1, to) /\ \A f \in Eng \ {e} : gdn'[f] = gdn[f]
  BY <1>1 DEF PrefixInv, PrefixTypes
<1>8. kv'[e] = K /\ \A f \in Eng \ {e} : kv'[f] = kv[f]
  BY <1>1 DEF PrefixInv, PrefixTypes
<1>9. gdn' = [f \in Eng |-> gdn'[f]] /\ kv' = [f \in Eng |-> kv'[f]]
  BY <1>1 DEF PrefixInv, PrefixTypes
<1>10. CkptSave(e, to) /\ (UNCHANGED blobs \/ blobs' = blobs \cup {Exported(e, to)})
  BY <1>1
<1> HIDE DEF to
<1>11. /\ DOMAIN K = 0 .. Ctx[e] + RoundWidth
       /\ \A i \in DOMAIN K : i >= Ctx[e] => K[i] = Zero
       /\ RowsAre(K, Upto(p, to)) /\ Len(Upto(p, to)) <= Ctx[e]
       /\ gdn[e] \o SubSeq(p, from + 1, to) = Upto(p, to)
       /\ \A c : /\ c.toks \in TokenSeqs /\ Backed(c, kv[e], Ctx[e])
                 /\ (Len(c.toks) <= job[e].base \/ Extends(p, c.toks))
                 => Backed(c, K, Ctx[e])
  <2>1. to <= Len(p)
    BY <1>2, <1>6
  <2> QED BY <1>1, <1>6, <2>1, WrittenFacts
<1> HIDE DEF K
<1>12. gdn'[e] = Upto(p, to)
  BY <1>7, <1>11
<1>13. /\ \E j \in Jobs :
            /\ job' = [job EXCEPT ![e] = j]
            /\ j.at = job[e].at /\ j.toks = p /\ j.stable = job[e].stable
            /\ j.base = job[e].base /\ j.promised = job[e].promised /\ j.pos = to
       /\ \E R \in [1 .. CkptSlots -> Checkpoints] :
            /\ ring' = [ring EXCEPT ![e] = R]
            /\ \A k \in 1 .. CkptSlots :
                 R[k] = ring[e][k] \/ (R[k].toks = Upto(p, to) /\ R[k].state = R[k].toks)
       /\ ckNext' \in [Eng -> 1 .. CkptSlots]
  BY <1>6, <1>10, <1>12, SaveFacts
<1>14. PICK j \in Jobs :
         /\ job' = [job EXCEPT ![e] = j]
         /\ j.at = job[e].at /\ j.toks = p /\ j.stable = job[e].stable
         /\ j.base = job[e].base /\ j.promised = job[e].promised /\ j.pos = to
  BY <1>13
<1>15. PICK R \in [1 .. CkptSlots -> Checkpoints] :
         /\ ring' = [ring EXCEPT ![e] = R]
         /\ \A k \in 1 .. CkptSlots :
              R[k] = ring[e][k] \/ (R[k].toks = Upto(p, to) /\ R[k].state = R[k].toks)
  BY <1>13
<1>16. job' \in [Eng -> Jobs] /\ job'[e] = j /\ \A f \in Eng \ {e} : job'[f] = job[f]
  BY <1>14 DEF PrefixInv, PrefixTypes
<1>17. /\ ring' \in [Eng -> [1 .. CkptSlots -> Checkpoints]] /\ ring'[e] = R
       /\ \A f \in Eng \ {e} : ring'[f] = ring[f]
  BY <1>15 DEF PrefixInv, PrefixTypes
<1>18. \A f \in Eng : DOMAIN kv'[f] = 0 .. Ctx[f] + RoundWidth
  BY <1>8, <1>11 DEF PrefixInv, PrefixTypes
<1>19. PrefixTypes'
  BY <1>1, <1>9, <1>13, <1>16, <1>17, <1>18 DEF PrefixInv, PrefixTypes
<1>20. BlobsRight'
  <2>1. LET b == Exported(e, to) IN b.toks \in TokenSeqs /\ b.state = b.toks /\ b.rows = b.toks
    BY <1>2, <1>6, <1>8, <1>11, <1>12, ExportRight
  <2> QED BY <1>10, <2>1 DEF PrefixInv, BlobsRight
<1>21. RingInv(e)'
  <2> SUFFICES ASSUME NEW k \in 1 .. CkptSlots
               PROVE  /\ Backed(R[k], K, Ctx[e])
                      /\ (Len(R[k].toks) <= job[e].base \/ Extends(p, R[k].toks))
    BY <1>1, <1>8, <1>14, <1>16, <1>17 DEF RingInv
  <2>1. CASE R[k] = ring[e][k]
    <3>1. /\ Backed(ring[e][k], kv[e], Ctx[e])
          /\ (Len(ring[e][k].toks) <= job[e].base \/ Extends(p, ring[e][k].toks))
      BY <1>1 DEF PrefixInv, ReuseInv, RingInv
    <3>2. ring[e][k] \in Checkpoints
      <4>1. ring \in [Eng -> [1 .. CkptSlots -> Checkpoints]]
        BY DEF PrefixInv, PrefixTypes
      <4> QED BY <4>1
    <3>3. ring[e][k].toks \in TokenSeqs
      BY <3>2 DEF Checkpoints
    <3> QED BY <1>11, <2>1, <3>1, <3>3
  <2>2. CASE R[k].toks = Upto(p, to) /\ R[k].state = R[k].toks
    <3>1. Extends(p, Upto(p, to))
      BY <1>2, <1>6, UptoExtended
    <3> QED BY <1>11, <2>2, <3>1 DEF Backed
  <2> QED BY <1>15, <2>1, <2>2
<1>22. SnapshotInv(e)'
  <2>1. CASE job[e].at = "chunks"
    BY <1>14, <1>16, <2>1 DEF SnapshotInv
  <2>2. CASE job[e].at = "tail"
    <3>1. Backed(snapshot[e], kv[e], Ctx[e]) /\ Extends(p, snapshot[e].toks)
      BY <2>2 DEF PrefixInv, ReuseInv, SnapshotInv
    <3>2. snapshot[e].toks \in TokenSeqs
      BY DEF PrefixInv, PrefixTypes, Snapshots
    <3>3. Backed(snapshot[e], K, Ctx[e])
      BY <1>11, <3>1, <3>2
    <3> QED BY <1>1, <1>8, <1>14, <1>16, <2>2, <3>1, <3>3 DEF SnapshotInv
  <2> QED BY <1>1, <2>1, <2>2
<1>23. ReadInv(e)' /\ RowsInv(e)'
  BY <1>1, <1>8, <1>11, <1>12, <1>14, <1>16 DEF ReadInv, RowsInv
<1>24. PlaceInv(e)'
  <2>1. /\ 1 <= Len(p) /\ Len(p) + Reserve <= Ctx[e] /\ job[e].base <= from
    BY <1>1 DEF PrefixInv, ReuseInv, PlaceInv
  <2>2. job[e].base <= to
    BY <1>2, <1>6, <2>1
  <2>3. SnapUpto(e)' = SnapUpto(e)
    BY <1>14, <1>16 DEF SnapUpto, NP
  <2> QED BY <1>1, <1>4, <1>6, <1>14, <1>16, <2>1, <2>2, <2>3 DEF PlaceInv
<1>25. RoutedInv(e)'
  BY <1>1, <1>14, <1>16 DEF PrefixInv, ReuseInv, RoutedInv
<1>26. ReuseInv(e)'
  BY <1>21, <1>22, <1>23, <1>24, <1>25 DEF ReuseInv
<1> QED BY <1>1, <1>7, <1>8, <1>16, <1>17, <1>19, <1>20, <1>26, OneEngine

(* The snapshot taken at its boundary is the state of the tokens read. *)
LEMMA SnapReuse ==
  ASSUME PrefixInv, NEW e \in Eng, SnapSave(e) PROVE PrefixInv'
<1> DEFINE p == job[e].toks
           n == SnapUpto(e)
           S == [have |-> TRUE, toks |-> Upto(p, n), state |-> gdn[e]]
           j == [job[e] EXCEPT !.at = "tail"]
<1>1. /\ job[e].at = "chunks" /\ job[e].pos = n
      /\ snapshot' = [snapshot EXCEPT ![e] = S]
      /\ job' = [job EXCEPT ![e].at = "tail"]
      /\ UNCHANGED <<kv, gdn, ring, ckNext>>
      /\ (UNCHANGED blobs \/ blobs' = blobs \cup {Exported(e, n)})
  BY DEF SnapSave, AtJob
<1>2. p \in TokenSeqs /\ Len(p) \in Nat /\ job[e] \in Jobs /\ Len(p) + Reserve <= Ctx[e]
  BY <1>1, JobFacts
<1>3. n \in Nat /\ n <= Len(p) - 1 /\ n \in 0 .. Len(p)
  <2>1. n \in Nat /\ n <= Len(p) - 1
    BY <1>1, SnapUptoFacts
  <2> HIDE DEF n, p
  <2> QED BY <1>2, <2>1
<1>4. gdn[e] = Upto(p, n) /\ RowsAre(kv[e], Upto(p, n))
  BY <1>1 DEF PrefixInv, ReuseInv, ReadInv
<1>5. Upto(p, n) \in TokenSeqs /\ Len(Upto(p, n)) = n /\ Extends(p, Upto(p, n))
  BY <1>2, <1>3, UptoFacts, UptoExtended
<1>6. n <= Ctx[e]
  <2>1. Len(p) <= Ctx[e] /\ Ctx[e] \in Nat
    BY <1>2, InsideContext, SizesAre
  <2> HIDE DEF n, p
  <2> QED BY <1>2, <1>3, <2>1
<1>7. S \in Snapshots /\ S.toks = Upto(p, n) /\ Backed(S, kv[e], Ctx[e])
  BY <1>4, <1>5, <1>6 DEF Snapshots, Backed
<1>8. /\ j \in Jobs /\ j.at = "tail" /\ j.toks = p /\ j.stable = job[e].stable
      /\ j.base = job[e].base
      /\ j.pos = job[e].pos /\ j.promised = job[e].promised
  BY <1>2 DEF Jobs, JobAts
<1>9. job' = [job EXCEPT ![e] = j]
  BY <1>1 DEF PrefixInv, PrefixTypes
<1> HIDE DEF S, j
<1>10. job' \in [Eng -> Jobs] /\ job'[e] = j /\ \A f \in Eng \ {e} : job'[f] = job[f]
  BY <1>8, <1>9 DEF PrefixInv, PrefixTypes
<1>11. /\ snapshot' \in [Eng -> Snapshots] /\ snapshot'[e] = S
       /\ \A f \in Eng \ {e} : snapshot'[f] = snapshot[f]
  BY <1>1, <1>7 DEF PrefixInv, PrefixTypes
<1>12. PrefixTypes'
  BY <1>1, <1>10, <1>11 DEF PrefixInv, PrefixTypes
<1>13. BlobsRight'
  <2>1. gdn'[e] = Upto(p, n) /\ RowsAre(kv'[e], Upto(p, n))
    BY <1>1, <1>4
  <2>2. LET b == Exported(e, n) IN b.toks \in TokenSeqs /\ b.state = b.toks /\ b.rows = b.toks
    BY <1>2, <1>3, <2>1, ExportRight
  <2> QED BY <1>1, <2>2 DEF PrefixInv, BlobsRight
<1>14. RingInv(e)'
  BY <1>1, <1>8, <1>10 DEF PrefixInv, ReuseInv, RingInv
<1>15. SnapshotInv(e)'
  BY <1>1, <1>5, <1>7, <1>8, <1>10, <1>11 DEF SnapshotInv
<1>16. ReadInv(e)' /\ RowsInv(e)'
  BY <1>1, <1>4, <1>8, <1>10 DEF PrefixInv, ReuseInv, ReadInv, RowsInv
<1>17. PlaceInv(e)' /\ RoutedInv(e)'
  BY <1>1, <1>8, <1>10 DEF PrefixInv, ReuseInv, PlaceInv, RoutedInv
<1>18. ReuseInv(e)'
  BY <1>14, <1>15, <1>16, <1>17 DEF ReuseInv
<1> QED BY <1>1, <1>10, <1>11, <1>12, <1>13, <1>18, OneEngine

-----------------------------------------------------------------------------
(* The theorem *)

LEMMA PrefixKept == ASSUME PrefixInv, [PrefixNext]_prefixVars PROVE PrefixInv'
<1>1. ASSUME NEW e \in Eng, NEW r \in Prompts, ClaimBestSlot(e, r) PROVE PrefixInv'
  BY <1>1, ClaimReuse
<1>2. ASSUME NEW e \in Eng, RestoreSnap(e) \/ RestoreCkpt(e) \/ RestoreBlob(e) PROVE PrefixInv'
  BY <1>2, RestoreSnapReuse, RestoreCkptReuse, RestoreBlobReuse
<1>3. ASSUME NEW e \in Eng, ColdPrefill(e) \/ SerialPrefill(e) PROVE PrefixInv'
  BY <1>3, ColdReuse, SerialReuse
<1>4. ASSUME NEW e \in Eng, PrefillChunk(e) \/ SnapSave(e) \/ StepLast(e) PROVE PrefixInv'
  BY <1>4, ChunkReuse, SnapReuse, StepLastReuse
<1>5. ASSUME NEW e \in Eng, DecodeRound(e) \/ FreeSlot(e) PROVE PrefixInv'
  BY <1>5, DecodeReuse, FreeReuse
<1>6. CASE UNCHANGED prefixVars
  <2>1. UNCHANGED <<kv, gdn, snapshot, ring, ckNext, blobs, job>>
    BY <1>6 DEF prefixVars
  <2>2. PrefixTypes' /\ BlobsRight'
    BY <2>1 DEF PrefixInv, PrefixTypes, BlobsRight
  <2>3. ASSUME NEW f \in Eng PROVE ReuseInv(f)'
    BY <2>1, IdleEngine DEF PrefixInv
  <2> QED BY <2>2, <2>3 DEF PrefixInv
<1> QED BY <1>1, <1>2, <1>3, <1>4, <1>5, <1>6 DEF PrefixNext

LEMMA PrefixInvRight == PrefixInv => RowsRight
<1> SUFFICES ASSUME PrefixInv PROVE RowsRight
  OBVIOUS
<1>1. ReuseRight
  BY DEF PrefixInv, ReuseInv, ReadInv, RingInv, SnapshotInv, Backed, ReuseRight
<1>2. RowsInside /\ RoutedAsPromised
  BY DEF PrefixInv, ReuseInv, RowsInv, RoutedInv, RowsInside, RoutedAsPromised
<1> QED BY <1>1, <1>2 DEF RowsRight

(* Whatever the prompts, their order and the engines they are routed to, a *)
(* prefill of the CUDA engine continues from the state of its own tokens:  *)
(* the recurrent state and the rows below it are those of the prompt read  *)
(* so far, through every restore of the snapshot, of a checkpoint or of a  *)
(* blob, and an idle engine offers only state whose rows are still there.  *)
(* What claim_slot was told by reuse_len is what generate_prefill restores *)
(* and no decode round writes past the context (engine.cuh, server.cu).    *)
THEOREM RowsStayRight == PrefixSpec => []RowsRight
<1>1. PrefixInit => PrefixInv
  BY PrefixInits
<1>2. PrefixInv /\ [PrefixNext]_prefixVars => PrefixInv'
  BY PrefixKept
<1>3. PrefixInv => RowsRight
  BY PrefixInvRight
<1> QED BY <1>1, <1>2, <1>3, PTL DEF PrefixSpec

=============================================================================
