--------------------------- MODULE SpecRoundProofs ---------------------------
(***************************************************************************)
(* Speculative decoding on one CUDA engine, for every model, depth ladder, *)
(* echo index, pool, budget and number of requests.                        *)
(***************************************************************************)
EXTENDS SpecRound, FiniteSetTheorems, SequenceTheorems, WellFoundedInduction, TLAPS

-----------------------------------------------------------------------------
(* Arithmetic of the roles *)

LEMMA RoleMod ==
  ASSUME NEW w \in Nat \ {0}, NEW a \in 0 .. 2 * w - 1
  PROVE  a % w = IF a < w THEN a ELSE a - w
  OBVIOUS

LEMMA LeastNatural ==
  ASSUME NEW T \in SUBSET Nat, T # {}
  PROVE  \E n \in T : \A k \in T : n <= k
<1>1. PICK n \in T : \A k \in T : ~ (<<k, n>> \in OpToRel(<, Nat))
  BY NatLessThanWellFounded, WFMin
<1>2. \A k \in T : ~ (k < n)
  BY <1>1 DEF OpToRel
<1> QED BY <1>2

-----------------------------------------------------------------------------
(* Sequences of no particular type *)

IsSeq(s) == \E S : s \in Seq(S)

LEMMA SeqFacts ==
  ASSUME NEW s, IsSeq(s)
  PROVE  Len(s) \in Nat /\ DOMAIN s = 1 .. Len(s) /\ s = [i \in 1 .. Len(s) |-> s[i]]
<1>1. PICK S : s \in Seq(S)
  BY DEF IsSeq
<1> QED BY <1>1

LEMMA FcnIsSeq ==
  ASSUME NEW n \in Nat, NEW s, s = [i \in 1 .. n |-> s[i]]
  PROVE  IsSeq(s) /\ Len(s) = n
<1> DEFINE S == {s[i] : i \in 1 .. n}
<1>1. s \in [1 .. n -> S]
  OBVIOUS
<1> HIDE DEF S
<1>2. s \in Seq(S) /\ Len(s) = n
  BY <1>1
<1> QED BY <1>2 DEF IsSeq

LEMMA EqualSeqs ==
  ASSUME NEW s, NEW t, IsSeq(s), IsSeq(t), Len(s) = Len(t), \A i \in 1 .. Len(s) : s[i] = t[i]
  PROVE  s = t
<1>1. s = [i \in 1 .. Len(s) |-> s[i]] /\ t = [i \in 1 .. Len(t) |-> t[i]]
  BY SeqFacts
<1>2. [i \in 1 .. Len(s) |-> s[i]] = [i \in 1 .. Len(s) |-> t[i]]
  OBVIOUS
<1> QED BY <1>1, <1>2

(* What s \o t is. *)
Joins(r, s, t) ==
  /\ IsSeq(r) /\ Len(r) = Len(s) + Len(t)
  /\ \A i \in 1 .. Len(s) : r[i] = s[i]
  /\ \A i \in 1 .. Len(t) : r[Len(s) + i] = t[i]

LEMMA ConcatFacts ==
  ASSUME NEW s, NEW t, IsSeq(s), IsSeq(t)
  PROVE  Joins(s \o t, s, t)
<1>1. PICK S : s \in Seq(S)
  BY DEF IsSeq
<1>2. PICK T : t \in Seq(T)
  BY DEF IsSeq
<1>3. s \in Seq(S \cup T) /\ t \in Seq(S \cup T)
  BY <1>1, <1>2
<1>4. s \o t \in Seq(S \cup T) /\ Len(s \o t) = Len(s) + Len(t)
  BY <1>3
<1> QED BY <1>3, <1>4 DEF IsSeq, Joins

LEMMA SubSeqFacts ==
  ASSUME NEW s, IsSeq(s), NEW n \in 0 .. Len(s)
  PROVE  /\ IsSeq(SubSeq(s, 1, n)) /\ Len(SubSeq(s, 1, n)) = n
         /\ \A i \in 1 .. n : SubSeq(s, 1, n)[i] = s[i]
<1>1. PICK S : s \in Seq(S)
  BY DEF IsSeq
<1>2. n \in Nat /\ n <= Len(s) /\ Len(s) \in Nat
  BY <1>1
<1>3. SubSeq(s, 1, n) \in Seq(S) /\ Len(SubSeq(s, 1, n)) = n
  BY <1>1, <1>2
<1>4. \A i \in 1 .. n : SubSeq(s, 1, n)[i] = s[i]
  BY <1>1, <1>2
<1> QED BY <1>3, <1>4 DEF IsSeq

LEMMA AppendFacts ==
  ASSUME NEW s, IsSeq(s), NEW x
  PROVE  /\ IsSeq(Append(s, x)) /\ Len(Append(s, x)) = Len(s) + 1
         /\ \A i \in 1 .. Len(s) : Append(s, x)[i] = s[i]
         /\ Append(s, x)[Len(s) + 1] = x
<1>1. PICK S : s \in Seq(S)
  BY DEF IsSeq
<1>2. s \in Seq(S \cup {x}) /\ x \in S \cup {x}
  BY <1>1
<1>3. Append(s, x) \in Seq(S \cup {x})
  BY <1>2
<1> QED BY <1>2, <1>3 DEF IsSeq

LEMMA SingleIsSeq ==
  ASSUME NEW x
  PROVE  IsSeq(<<x>>) /\ Len(<<x>>) = 1 /\ <<x>>[1] = x
<1>1. <<x>> \in Seq({x})
  OBVIOUS
<1> QED BY <1>1 DEF IsSeq

LEMMA EmptyIsSeq == IsSeq(<<>>) /\ Len(<<>>) = 0
<1>1. <<>> \in Seq({})
  OBVIOUS
<1> QED BY <1>1 DEF IsSeq

-----------------------------------------------------------------------------
(* finish_round: what is accepted reads the path *)

LEMMA AcceptedFacts ==
  ASSUME NEW d, Len(d) \in Nat, NEW o
  PROVE  Accepted(d, o) \in 1 .. Len(d) + 1 /\ OnPath(d, o, Accepted(d, o) - 1)
<1> DEFINE Right(u) == d[u] = Verdict(d, o, u - 1)
           Taken == {k \in 1 .. Len(d) : \A u \in 1 .. k : Right(u)}
           T == {k \in 1 .. Len(d) + 1 : k = Len(d) + 1 \/ ~Right(k)}
<1> HIDE DEF Right
<1>1. PICK j \in T : \A k \in T : j <= k
  <2>1. T \in SUBSET Nat /\ Len(d) + 1 \in T
    OBVIOUS
  <2> HIDE DEF T
  <2> QED BY <2>1, LeastNatural
<1>2. j \in 1 .. Len(d) + 1 /\ \A u \in 1 .. j - 1 : Right(u)
  BY <1>1
<1>3. Taken = 1 .. j - 1
  <2>1. ASSUME NEW k \in 1 .. Len(d), \A u \in 1 .. k : Right(u) PROVE k \in 1 .. j - 1
    <3> SUFFICES ASSUME ~(k < j) PROVE FALSE
      BY <1>2
    <3>1. j \in 1 .. k /\ j # Len(d) + 1
      BY <1>2
    <3>2. ~Right(j)
      BY <1>1, <3>1
    <3> QED BY <2>1, <3>1, <3>2
  <2>2. ASSUME NEW k \in 1 .. j - 1 PROVE k \in Taken
    BY <1>2
  <2> QED BY <2>1, <2>2
<1>4. Cardinality(Taken) = j - 1
  <2>1. 1 \in Int /\ j - 1 \in Int
    BY <1>2
  <2>2. Cardinality(1 .. j - 1) = IF 1 > j - 1 THEN 0 ELSE (j - 1) - 1 + 1
    BY <2>1, FS_Interval
  <2>3. Cardinality(1 .. j - 1) = j - 1
    BY <1>2, <2>2
  <2> HIDE DEF Taken
  <2> QED BY <1>3, <2>3
<1>5. \A u \in 1 .. j - 1 : d[u] = Decided(o, u - 1)
  <2> DEFINE Off == {u \in 1 .. j - 1 : d[u] # Decided(o, u - 1)}
  <2> SUFFICES ASSUME Off # {} PROVE FALSE
    OBVIOUS
  <2>1. PICK u \in Off : \A v \in Off : u <= v
    <3>1. Off \in SUBSET Nat
      BY <1>2
    <3> HIDE DEF Off
    <3> QED BY <3>1, LeastNatural
  <2>2. u \in 1 .. j - 1 /\ u - 1 \in Nat
    BY <1>2, <2>1
  <2>3. \A v \in 1 .. u - 1 : d[v] = Decided(o, v - 1)
    BY <1>2, <2>1, <2>2
  <2>4. Verdict(d, o, u - 1) = Decided(o, u - 1)
    BY <2>3 DEF Verdict, OnPath
  <2>5. d[u] = Verdict(d, o, u - 1)
    BY <1>2, <2>2 DEF Right
  <2> QED BY <2>1, <2>4, <2>5
<1>6. CASE AcceptCap
  <2>1. Accepted(d, o) = 1
    BY <1>6 DEF Accepted
  <2> QED BY <2>1 DEF OnPath
<1>7. CASE ~AcceptCap
  <2>1. Accepted(d, o) = 1 + Cardinality(Taken)
    BY <1>7 DEF Accepted, Right
  <2>2. Accepted(d, o) = j
    BY <1>2, <1>4, <2>1
  <2> QED BY <1>2, <1>5, <2>2 DEF OnPath
<1> QED BY <1>6, <1>7

-----------------------------------------------------------------------------
(* The inductive invariant *)

SeqTypes ==
  /\ IsSeq(raw) /\ IsSeq(done) /\ IsSeq(mask)
  /\ IsSeq(rows) /\ Len(rows) = Budget + SfxWidth
  /\ perm \in 0 .. WMax - 1 /\ emitted \in Nat /\ phase \in {"round", "post", "over"}

(* The committed tokens are in the rows, and each is what greedy decoding  *)
(* takes under the mask it was decided under.                              *)
Committed ==
  \A i \in 1 .. Len(done) : rows[i] = done[i] /\ done[i] = Pick(raw[i], mask[i])

(* Between rounds. *)
RoundInv ==
  /\ emitted < Budget => Len(done) = emitted
  /\ Len(raw) = Len(done) + 1 /\ Len(mask) = Len(done) + 1
  /\ buf[perm] = done /\ Committed
  /\ pending = Pick(raw[Len(done) + 1], mask[Len(done) + 1])

(* A round is read back and not yet committed: wherever it will be cut,    *)
(* the state of that lane is in the buffer the roles would turn back to.   *)
PostInv ==
  LET n == outcome.n  em == outcome.em  P == Len(done) IN
  /\ emitted < Budget /\ P = emitted
  /\ IsSeq(em) /\ Len(em) = n /\ n \in 1 .. SfxWidth
  /\ Len(raw) = P + n + 1 /\ Len(mask) = P + n + 1
  /\ Committed
  /\ \A k \in 1 .. n : rows[P + k] = em[k] /\ em[k] = Pick(raw[P + k], mask[P + k])
  /\ \A k \in 1 .. n : buf[RefinishPerm(k, n)] = done \o SubSeq(em, 1, k)
  /\ pending = Pick(raw[P + n + 1], mask[P + n + 1])

SpecInv ==
  /\ SeqTypes /\ depth \in DepthMin .. DepthMax
  /\ phase = "round" => RoundInv
  /\ phase = "post" => PostInv

-----------------------------------------------------------------------------
(* The roles of the state buffers *)

LEMMA MixedFacts ==
  ASSUME perm \in 0 .. WMax - 1, NEW input, IsSeq(input), Len(input) <= WMax,
         NEW k \in 1 .. Len(input)
  PROVE  Mixed(input)[((k - 1) + perm) % WMax] = buf[perm] \o SubSeq(input, 1, k)
<1>1. WMax \in Nat \ {0} /\ Len(input) \in Nat
  BY SpecAssumption, SeqFacts
<1> DEFINE W == Len(input)
           At(t) == (t + perm) % WMax
           ph == At(k - 1)
<1>2. \A t \in 0 .. W - 1 : At(t) = IF t + perm < WMax THEN t + perm ELSE (t + perm) - WMax
  <2> SUFFICES ASSUME NEW t \in 0 .. W - 1
               PROVE  At(t) = IF t + perm < WMax THEN t + perm ELSE (t + perm) - WMax
    OBVIOUS
  <2> DEFINE a == t + perm
  <2>1. a \in 0 .. 2 * WMax - 1
    BY <1>1
  <2> HIDE DEF a
  <2>2. a % WMax = IF a < WMax THEN a ELSE a - WMax
    BY <1>1, <2>1, RoleMod
  <2> QED BY <2>2 DEF a
<1>3. k - 1 \in 0 .. W - 1
  BY <1>1
<1> HIDE DEF At
<1>4. ph \in 0 .. WMax - 1
  BY <1>1, <1>2, <1>3
<1>5. \A t \in 0 .. W - 1 : At(t) = ph => t = k - 1
  BY <1>1, <1>2, <1>3
<1>6. (CHOOSE t \in 0 .. W - 1 : At(t) = ph) = k - 1
  BY <1>3, <1>5
<1>7. 1 + (k - 1) = k
  OBVIOUS
<1>8. Mixed(input)[ph] = buf[perm] \o SubSeq(input, 1, 1 + CHOOSE t \in 0 .. W - 1 : At(t) = ph)
  BY <1>3, <1>4 DEF Mixed, At
<1>9. Mixed(input)[ph] = buf[perm] \o SubSeq(input, 1, k)
  BY <1>6, <1>7, <1>8
<1> QED BY <1>9 DEF At

(* Turning forth by n and back to k is turning forth by k. *)
LEMMA TurnFacts ==
  ASSUME NEW p \in 0 .. WMax - 1, NEW n \in 1 .. WMax, NEW k \in 1 .. n
  PROVE  /\ (p + (n - 1)) % WMax \in 0 .. WMax - 1
         /\ (((p + (n - 1)) % WMax) + (k - n) + WMax) % WMax = ((k - 1) + p) % WMax
<1>1. WMax \in Nat \ {0}
  BY SpecAssumption
<1> DEFINE q == (p + (n - 1)) % WMax
<1>2. q = IF p + (n - 1) < WMax THEN p + (n - 1) ELSE (p + (n - 1)) - WMax
  <2> DEFINE a == p + (n - 1)
  <2>1. a \in 0 .. 2 * WMax - 1
    BY <1>1
  <2> HIDE DEF a
  <2>2. a % WMax = IF a < WMax THEN a ELSE a - WMax
    BY <1>1, <2>1, RoleMod
  <2> QED BY <2>2 DEF a
<1> HIDE DEF q
<1>3. q \in 0 .. WMax - 1 /\ q + (k - n) + WMax \in 0 .. 2 * WMax - 1
  BY <1>1, <1>2
<1>4. (q + (k - n) + WMax) % WMax
        = IF q + (k - n) + WMax < WMax THEN q + (k - n) + WMax ELSE (q + (k - n) + WMax) - WMax
  <2> DEFINE a == q + (k - n) + WMax
  <2>1. a \in 0 .. 2 * WMax - 1
    BY <1>3
  <2> HIDE DEF a
  <2>2. a % WMax = IF a < WMax THEN a ELSE a - WMax
    BY <1>1, <2>1, RoleMod
  <2> QED BY <2>2 DEF a
<1>5. ((k - 1) + p) % WMax = IF (k - 1) + p < WMax THEN (k - 1) + p ELSE ((k - 1) + p) - WMax
  <2> DEFINE a == (k - 1) + p
  <2>1. a \in 0 .. 2 * WMax - 1
    BY <1>1
  <2> HIDE DEF a
  <2>2. a % WMax = IF a < WMax THEN a ELSE a - WMax
    BY <1>1, <2>1, RoleMod
  <2> QED BY <2>2 DEF a
<1>6. (q + (k - n) + WMax) % WMax = ((k - 1) + p) % WMax
  BY <1>1, <1>2, <1>3, <1>4, <1>5
<1> QED BY <1>3, <1>6 DEF q

-----------------------------------------------------------------------------
(* A round *)

(* What a round does to the masks: it decides the token after the pending  *)
(* one under slot 0, and the others under none.                            *)
Verified ==
  /\ UNCHANGED <<done, emitted, tc, slot0>>
  /\ outcome'.em[1] = pending /\ (slot0 # None => outcome'.n = 1)
  /\ \A i \in 1 .. Len(done) + 1 : mask'[i] = mask[i]
  /\ \A k \in 1 .. outcome'.n : mask'[Len(done) + 1 + k] = IF k = 1 THEN slot0 ELSE None

LEMMA VerifyStep ==
  ASSUME SeqTypes, phase = "round", emitted < Budget, RoundInv,
         NEW W \in 1 .. SfxWidth, NEW d, IsSeq(d), Len(d) = W - 1,
         NEW o, IsSeq(o), Len(o) = W, NEW kind, VerifyRound(d, o, kind)
  PROVE  SeqTypes' /\ phase' = "post" /\ PostInv' /\ Verified
<1> DEFINE n == Accepted(d, o)
           input == <<pending>> \o d
           P == Len(done)
           em == SubSeq(input, 1, n)
           masks == [k \in 1 .. n |-> IF k = 1 THEN slot0 ELSE None]
<1>1. /\ SfxWidth \in Nat /\ SfxWidth <= WMax /\ WMax \in Nat /\ Budget \in Nat
      /\ W \in Nat /\ 1 <= W /\ W <= SfxWidth
  BY SpecAssumption
<1>2. /\ P \in Nat /\ P = emitted /\ P < Budget
      /\ Len(raw) = P + 1 /\ Len(mask) = P + 1
      /\ IsSeq(raw) /\ IsSeq(mask) /\ IsSeq(rows) /\ IsSeq(done)
      /\ Len(rows) = Budget + SfxWidth /\ perm \in 0 .. WMax - 1
  BY SeqFacts DEF SeqTypes, RoundInv
<1>3. /\ buf' = Mixed(input) /\ rows' = Stored(input) /\ perm' = Rotate(n)
      /\ outcome'.em = em /\ outcome'.n = n /\ pending' = Verdict(d, o, n - 1)
      /\ mask' = mask \o masks /\ raw' = raw \o SubSeq(o, 1, n) /\ phase' = "post"
      /\ UNCHANGED <<done, emitted>>
  BY DEF VerifyRound
<1>4. n \in 1 .. W /\ \A u \in 1 .. n - 1 : d[u] = Decided(o, u - 1)
  <2>1. Len(d) \in Nat /\ Len(d) + 1 = W
    BY <1>1
  <2> QED BY <2>1, AcceptedFacts DEF OnPath
<1>5. Verdict(d, o, n - 1) = Decided(o, n - 1)
  BY <1>4 DEF Verdict, OnPath
<1>6. /\ IsSeq(input) /\ Len(input) = W /\ input[1] = pending
      /\ \A u \in 1 .. W - 1 : input[1 + u] = d[u]
  <2>1. IsSeq(<<pending>>) /\ Len(<<pending>>) = 1 /\ <<pending>>[1] = pending
    BY SingleIsSeq
  <2>2. Joins(input, <<pending>>, d)
    BY <2>1, ConcatFacts, Zenon
  <2> HIDE DEF input
  <2> QED BY <1>1, <2>1, <2>2 DEF Joins
<1> HIDE DEF n, input
<1>7. IsSeq(em) /\ Len(em) = n /\ \A k \in 1 .. n : em[k] = input[k]
  <2>1. n \in 0 .. Len(input)
    BY <1>1, <1>4, <1>6
  <2> QED BY <1>6, <2>1, SubSeqFacts
<1>8. /\ IsSeq(raw') /\ Len(raw') = P + n + 1
      /\ \A i \in 1 .. P + 1 : raw'[i] = raw[i]
      /\ \A k \in 1 .. n : raw'[P + 1 + k] = o[k]
  <2>1. n \in 0 .. Len(o)
    BY <1>1, <1>4
  <2>2. /\ IsSeq(SubSeq(o, 1, n)) /\ Len(SubSeq(o, 1, n)) = n
        /\ \A k \in 1 .. n : SubSeq(o, 1, n)[k] = o[k]
    BY <2>1, SubSeqFacts
  <2> DEFINE more == SubSeq(o, 1, n)
  <2>3. IsSeq(raw) /\ IsSeq(more)
    BY <1>2, <2>2
  <2> HIDE DEF more
  <2>4. Joins(raw', raw, more)
    <3>1. raw' = raw \o more
      BY <1>3 DEF more
    <3> QED BY <2>3, <3>1, ConcatFacts, Zenon
  <2>5. Len(more) = n /\ \A k \in 1 .. n : more[k] = o[k]
    BY <2>2 DEF more
  <2> QED BY <1>2, <1>4, <2>4, <2>5 DEF Joins
<1>9. /\ IsSeq(mask') /\ Len(mask') = P + n + 1
      /\ \A i \in 1 .. P + 1 : mask'[i] = mask[i]
      /\ \A k \in 1 .. n : mask'[P + 1 + k] = IF k = 1 THEN slot0 ELSE None
  <2>1. n \in Nat /\ masks = [k \in 1 .. n |-> masks[k]]
        /\ \A k \in 1 .. n : masks[k] = IF k = 1 THEN slot0 ELSE None
    BY <1>4
  <2> HIDE DEF masks
  <2>2. IsSeq(masks) /\ Len(masks) = n
    BY <2>1, FcnIsSeq
  <2>3. IsSeq(mask) /\ mask' = mask \o masks
    BY <1>2, <1>3
  <2>4. Joins(mask', mask, masks)
    BY <2>2, <2>3, ConcatFacts, Zenon
  <2>5. Len(mask) = P + 1 /\ P \in Nat /\ n \in Nat
    BY <1>2, <2>1
  <2> QED BY <2>1, <2>2, <2>4, <2>5 DEF Joins
<1>10. ASSUME NEW k \in 1 .. n PROVE em[k] = Pick(raw'[P + k], mask'[P + k])
  <2>1. CASE k = 1
    <3>1. em[k] = pending /\ pending = Pick(raw[P + 1], mask[P + 1])
      BY <1>4, <1>6, <1>7, <2>1 DEF RoundInv
    <3>2. P + 1 \in 1 .. P + 1 /\ P + k = P + 1
      BY <1>2, <2>1
    <3> QED BY <1>8, <1>9, <3>1, <3>2
  <2>2. CASE k # 1
    <3>1. /\ k - 1 \in 1 .. n - 1 /\ k - 1 \in 1 .. W - 1 /\ k - 1 \in 1 .. n
          /\ 1 + (k - 1) = k /\ P + 1 + (k - 1) = P + k
          /\ ((k - 1) - 1) + 1 = k - 1 /\ ((k - 1) - 1 = 0 <=> k - 1 = 1)
      BY <1>1, <1>2, <1>4, <2>2
    <3>2. em[k] = d[k - 1]
      BY <1>6, <1>7, <3>1
    <3>3. d[k - 1] = Decided(o, (k - 1) - 1)
      BY <1>4, <3>1
    <3>4. Decided(o, (k - 1) - 1) = Pick(o[k - 1], IF k - 1 = 1 THEN slot0 ELSE None)
      BY <3>1 DEF Decided
    <3>5. raw'[P + k] = o[k - 1] /\ mask'[P + k] = IF k - 1 = 1 THEN slot0 ELSE None
      BY <1>8, <1>9, <3>1
    <3> QED BY <3>2, <3>3, <3>4, <3>5
  <2> QED BY <2>1, <2>2
<1>11. pending' = Pick(raw'[P + n + 1], mask'[P + n + 1])
  <2>1. n \in 1 .. n /\ P + 1 + n = P + n + 1 /\ (n - 1) + 1 = n /\ (n - 1 = 0 <=> n = 1)
    BY <1>2, <1>4
  <2>2. raw'[P + n + 1] = o[n] /\ mask'[P + n + 1] = IF n = 1 THEN slot0 ELSE None
    BY <1>8, <1>9, <2>1
  <2>3. Decided(o, n - 1) = Pick(o[n], IF n = 1 THEN slot0 ELSE None)
    BY <2>1 DEF Decided
  <2> QED BY <1>3, <1>5, <2>2, <2>3
<1>12. /\ IsSeq(rows') /\ Len(rows') = Budget + SfxWidth
       /\ \A i \in 1 .. P : rows'[i] = rows[i]
       /\ \A k \in 1 .. n : rows'[P + k] = input[k]
  <2>1. Len(rows) \in Nat /\ P + W <= Len(rows)
    BY <1>1, <1>2
  <2>2. rows' = [i \in 1 .. Len(rows) |->
                   IF P < i /\ i <= P + W THEN input[i - P] ELSE rows[i]]
    BY <1>3, <1>6 DEF Stored
  <2>3. rows' = [i \in 1 .. Len(rows) |-> rows'[i]]
    BY <2>2
  <2>4. IsSeq(rows') /\ Len(rows') = Len(rows)
    BY <2>1, <2>3, FcnIsSeq
  <2>5. \A i \in 1 .. P : rows'[i] = rows[i]
    BY <1>1, <1>2, <2>1, <2>2
  <2>6. ASSUME NEW k \in 1 .. n PROVE rows'[P + k] = input[k]
    <3>1. P + k \in 1 .. Len(rows) /\ P < P + k /\ P + k <= P + W /\ (P + k) - P = k
      BY <1>1, <1>2, <1>4, <2>1
    <3> QED BY <2>2, <3>1
  <2> QED BY <1>2, <2>4, <2>5, <2>6
<1>13. perm' \in 0 .. WMax - 1
  <2>1. n \in 1 .. WMax /\ 1 \in 1 .. n
    BY <1>1, <1>4
  <2> QED BY <1>2, <1>3, <2>1, TurnFacts DEF Rotate
<1>14. ASSUME NEW k \in 1 .. n
       PROVE  buf'[(perm' + (k - n) + WMax) % WMax] = done \o SubSeq(em, 1, k)
  <2>1. n \in 1 .. WMax /\ k \in 1 .. Len(input) /\ Len(input) <= WMax
    BY <1>1, <1>4, <1>6
  <2>2. (perm' + (k - n) + WMax) % WMax = ((k - 1) + perm) % WMax
    <3>1. (((perm + (n - 1)) % WMax) + (k - n) + WMax) % WMax = ((k - 1) + perm) % WMax
      BY <1>2, <2>1, TurnFacts
    <3> QED BY <1>3, <3>1 DEF Rotate
  <2>3. buf'[((k - 1) + perm) % WMax] = buf[perm] \o SubSeq(input, 1, k)
    BY <1>2, <1>3, <1>6, <2>1, MixedFacts
  <2>4. SubSeq(em, 1, k) = SubSeq(input, 1, k)
    <3>1. k \in 0 .. Len(em) /\ k \in 0 .. Len(input) /\ \A i \in 1 .. k : i \in 1 .. n
      BY <1>1, <1>4, <1>6, <1>7
    <3>2. /\ IsSeq(SubSeq(input, 1, k)) /\ Len(SubSeq(input, 1, k)) = k
          /\ \A i \in 1 .. k : SubSeq(input, 1, k)[i] = input[i]
      BY <1>6, <3>1, SubSeqFacts
    <3> HIDE DEF em
    <3>3. /\ IsSeq(SubSeq(em, 1, k)) /\ Len(SubSeq(em, 1, k)) = k
          /\ \A i \in 1 .. k : SubSeq(em, 1, k)[i] = em[i]
      BY <1>7, <3>1, SubSeqFacts
    <3>4. \A i \in 1 .. k : SubSeq(em, 1, k)[i] = SubSeq(input, 1, k)[i]
      BY <1>7, <3>1, <3>2, <3>3
    <3> QED BY <3>2, <3>3, <3>4, EqualSeqs
  <2>5. buf[perm] = done
    BY DEF RoundInv
  <2> QED BY <2>2, <2>3, <2>4, <2>5
<1> HIDE DEF em, masks
<1>15. SeqTypes'
  BY <1>2, <1>3, <1>8, <1>9, <1>12, <1>13 DEF SeqTypes
<1>16. Committed'
  <2>1. \A i \in 1 .. P : i \in 1 .. P + 1
    BY <1>2
  <2> QED BY <1>3, <1>8, <1>9, <1>12, <2>1 DEF RoundInv, Committed
<1>17. \A k \in 1 .. n : rows'[P + k] = em[k] /\ em[k] = Pick(raw'[P + k], mask'[P + k])
  BY <1>7, <1>10, <1>12
<1>18. n \in 1 .. SfxWidth
  BY <1>1, <1>4
<1>19. \A k \in 1 .. n : buf'[(perm' + (k - n) + WMax) % WMax] = done \o SubSeq(em, 1, k)
  BY <1>14
<1>20. done' = done /\ emitted' = emitted /\ outcome'.n = n /\ outcome'.em = em
  BY <1>3
<1>21. emitted < Budget /\ P = emitted /\ IsSeq(em) /\ Len(em) = n
  BY <1>2, <1>7
<1>22. Len(raw') = P + n + 1 /\ Len(mask') = P + n + 1
  BY <1>8, <1>9
<1>23. PostInv'
  BY <1>11, <1>16, <1>17, <1>18, <1>19, <1>20, <1>21, <1>22 DEF PostInv, RefinishPerm
<1>24. slot0 # None => n = 1
  BY DEF n, Accepted, AcceptCap
<1>25. em[1] = pending
  BY <1>4, <1>6, <1>7
<1>26. UNCHANGED <<done, emitted, tc, slot0>>
  BY DEF VerifyRound
<1>27. Verified
  BY <1>9, <1>20, <1>24, <1>25, <1>26 DEF Verified
<1> QED BY <1>3, <1>15, <1>23, <1>27

LEMMA OracleFacts ==
  ASSUME NEW W \in Nat, NEW o \in Oracle(W)
  PROVE  IsSeq(o) /\ Len(o) = W
<1>1. o \in [1 .. W -> DOMAIN After]
  BY DEF Oracle
<1>2. o = [i \in 1 .. W |-> o[i]]
  BY <1>1
<1> QED BY <1>2, FcnIsSeq

LEMMA DraftsFacts ==
  ASSUME NEW w \in Nat, NEW o, NEW d \in Drafts(w, o)
  PROVE  IsSeq(d) /\ Len(d) = w
<1>1. d = [i \in 1 .. w |-> d[i]]
  BY DEF Drafts
<1> QED BY <1>1, FcnIsSeq

LEMMA ProposeFacts ==
  ASSUME NEW k \in Nat, ProposeWith(k).len >= SfxL
  PROVE  IsSeq(ProposeWith(k).out) /\ Len(ProposeWith(k).out) = k
<1>1. \/ ProposeWith(k) = [len |-> 0, out |-> <<>>]
      \/ \E l, f : ProposeWith(k) = [len |-> l, out |-> [i \in 1 .. k |-> f[i]]]
  <2> DEFINE s == Append(sfxT, pending)
             N == Len(s)
             Ok(p) == {m \in 0 .. p : \A j \in 0 .. m - 1 : s[p - j] = s[N - j]}
             MatchLen(p) == CHOOSE m \in Ok(p) : \A o \in Ok(p) : o <= m
             Ends == {p \in NG .. N - 1 : MatchLen(p) >= NG}
             Best == CHOOSE p \in Ends :
                       \A q \in Ends : \/ MatchLen(q) < MatchLen(p)
                                       \/ MatchLen(q) = MatchLen(p) /\ q <= p
             out[i \in 1 .. k] == IF Best + i <= N THEN s[Best + i] ELSE out[Best + i - N]
  <2>1. ProposeWith(k) = IF Ends = {} THEN [len |-> 0, out |-> <<>>]
                         ELSE [len |-> MatchLen(Best), out |-> [i \in 1 .. k |-> out[i]]]
    BY Zenon DEF ProposeWith
  <2> HIDE DEF Ends, MatchLen, Best, out
  <2> QED BY <2>1
<1>2. SfxL \in Nat /\ 1 <= SfxL
  BY SpecAssumption
<1>3. PICK l, f : ProposeWith(k) = [len |-> l, out |-> [i \in 1 .. k |-> f[i]]]
  BY <1>1, <1>2
<1> DEFINE d == ProposeWith(k).out
<1>4. d = [i \in 1 .. k |-> f[i]]
  BY <1>3
<1> HIDE DEF d
<1>5. d = [i \in 1 .. k |-> d[i]]
  BY <1>4
<1>6. IsSeq(d) /\ Len(d) = k
  BY <1>5, FcnIsSeq
<1> QED BY <1>6 DEF d

LEMMA DepthFacts ==
  ASSUME depth \in DepthMin .. DepthMax, NEW hit, NEW x \in DepthUpdate(depth, hit)
  PROVE  x \in DepthMin .. DepthMax
  BY SpecAssumption DEF DepthUpdate

LEMMA RoundSteps ==
  ASSUME SpecInv, SuffixRound \/ GatedRound \/ ConstrainedRound
  PROVE  SpecInv' /\ phase = "round" /\ phase' = "post" /\ emitted < Budget /\ Verified
<1>1. /\ SfxWidth \in Nat /\ 2 <= SfxWidth /\ DepthMax + 1 <= SfxWidth
      /\ DepthMin \in Nat /\ DepthMax \in Nat
  BY SpecAssumption
<1>2. phase = "round" /\ emitted < Budget /\ SeqTypes /\ RoundInv /\ depth \in DepthMin .. DepthMax
  BY DEF SpecInv, SuffixRound, GatedRound, ConstrainedRound, Allowed
<1> SUFFICES /\ depth' \in DepthMin .. DepthMax /\ SeqTypes' /\ phase' = "post" /\ PostInv'
             /\ Verified
  BY <1>2 DEF SpecInv
<1>3. CASE SuffixRound
  <2> DEFINE d == ProposeWith(SfxWidth - 1).out
  <2>1. PICK o \in Oracle(SfxWidth) :
          /\ VerifyRound(d, o, [cap |-> -1, sfx |-> TRUE])
          /\ depth' \in IF outcome'.n >= depth + 1 THEN DepthUpdate(depth, TRUE) ELSE {depth}
    BY <1>3 DEF SuffixRound
  <2>2. IsSeq(o) /\ Len(o) = SfxWidth
    BY <1>1, OracleFacts
  <2>3. IsSeq(d) /\ Len(d) = SfxWidth - 1
    <3>1. SfxWidth - 1 \in Nat /\ ProposeWith(SfxWidth - 1).len >= SfxL
      BY <1>1, <1>3 DEF SuffixRound, SuffixFires
    <3> QED BY <3>1, ProposeFacts
  <2>4. SfxWidth \in 1 .. SfxWidth
    BY <1>1
  <2> HIDE DEF d
  <2>5. SeqTypes' /\ phase' = "post" /\ PostInv' /\ Verified
    BY <1>2, <2>1, <2>2, <2>3, <2>4, VerifyStep
  <2>6. depth' \in DepthMin .. DepthMax
    BY <1>2, <2>1, DepthFacts
  <2> QED BY <2>5, <2>6
<1>4. CASE GatedRound
  <2>1. PICK cap \in 0 .. depth :
          LET W == IF cap + 1 < 2 THEN 2 ELSE cap + 1 IN
          \E o \in Oracle(W) : \E d \in Drafts(W - 1, o) :
            /\ VerifyRound(d, o, [cap |-> cap, sfx |-> FALSE])
            /\ depth' \in DepthUpdate(depth, outcome'.n >= depth + 1)
    BY <1>4 DEF GatedRound
  <2> DEFINE W == IF cap + 1 < 2 THEN 2 ELSE cap + 1
  <2>2. W \in 1 .. SfxWidth /\ W \in Nat /\ W - 1 \in Nat
    BY <1>1, <1>2
  <2> HIDE DEF W
  <2>3. PICK o \in Oracle(W) : \E d \in Drafts(W - 1, o) :
          /\ VerifyRound(d, o, [cap |-> cap, sfx |-> FALSE])
          /\ depth' \in DepthUpdate(depth, outcome'.n >= depth + 1)
    BY <2>1 DEF W
  <2>4. PICK d \in Drafts(W - 1, o) :
          /\ VerifyRound(d, o, [cap |-> cap, sfx |-> FALSE])
          /\ depth' \in DepthUpdate(depth, outcome'.n >= depth + 1)
    BY <2>3
  <2>5. IsSeq(o) /\ Len(o) = W /\ IsSeq(d) /\ Len(d) = W - 1
    BY <2>2, OracleFacts, DraftsFacts
  <2>6. SeqTypes' /\ phase' = "post" /\ PostInv' /\ Verified
    BY <1>2, <2>2, <2>4, <2>5, VerifyStep
  <2>7. depth' \in DepthMin .. DepthMax
    BY <1>2, <2>4, DepthFacts
  <2> QED BY <2>6, <2>7
<1>5. CASE ConstrainedRound
  <2>1. PICK o \in Oracle(2) : VerifyRound(<<"w">>, o, [cap |-> -1, sfx |-> FALSE])
    BY <1>5 DEF ConstrainedRound
  <2>2. depth' = depth
    BY <1>5 DEF ConstrainedRound
  <2>3. IsSeq(o) /\ Len(o) = 2
    BY OracleFacts
  <2>4. IsSeq(<<"w">>) /\ Len(<<"w">>) = 2 - 1
    BY SingleIsSeq
  <2>5. 2 \in 1 .. SfxWidth
    BY <1>1
  <2>6. SeqTypes' /\ phase' = "post" /\ PostInv' /\ Verified
    BY <1>2, <2>1, <2>3, <2>4, <2>5, VerifyStep
  <2> QED BY <1>2, <2>2, <2>6
<1> QED BY <1>3, <1>4, <1>5

-----------------------------------------------------------------------------
(* post_round *)

LEMMA ScanFacts ==
  ASSUME NEW x, NEW em, IsSeq(em)
  PROVE  ScanRound(x, em).at \in 0 .. Len(em)
<1>1. Len(em) \in Nat /\ DOMAIN em = 1 .. Len(em)
  BY SeqFacts
<1> DEFINE Ends == {j \in DOMAIN em : Completes(x, em, j)}
           Fit == {j \in Ends : Entry(em[j]) # Dead}
           at == CHOOSE j \in Fit : \A i \in Fit : j <= i
<1>2. ScanRound(x, em).at \in {0} \cup {at} /\ (Fit = {} => ScanRound(x, em).at = 0)
  BY DEF ScanRound, Scan
<1>3. Fit # {} => at \in Fit
  <2>1. Fit \in SUBSET Nat
    BY <1>1
  <2> HIDE DEF Fit
  <2> QED BY <2>1, LeastNatural
<1>4. Fit \subseteq 1 .. Len(em)
  BY <1>1
<1> DEFINE r == ScanRound(x, em).at
<1> HIDE DEF Fit, at
<1>5. r = 0 \/ (Fit # {} /\ r = at)
  BY <1>2
<1> HIDE DEF r
<1>6. r \in 0 .. Len(em)
  <2>1. CASE r = 0
    BY <1>1, <2>1
  <2>2. CASE Fit # {} /\ r = at
    <3>1. r \in 1 .. Len(em)
      BY <1>3, <1>4, <2>2
    <3> QED BY <1>1, <3>1
  <2> QED BY <1>5, <2>1, <2>2
<1> QED BY <1>6 DEF r

LEMMA DeliverableFacts ==
  ASSUME NEW em, IsSeq(em), Budget \in Nat, emitted \in Nat, emitted < Budget
  PROVE  Len(Deliverable(em)) \in 0 .. Len(em)
<1>1. Len(em) \in Nat
  BY SeqFacts
<1> DEFINE room == Budget - emitted
           cut == IF Len(em) < room THEN em ELSE SubSeq(em, 1, room)
           Ends == {k \in 1 .. Len(cut) : cut[k] = "e"}
           first == CHOOSE k \in Ends : \A j \in Ends : k <= j
<1>2. IsSeq(cut) /\ Len(cut) \in 0 .. Len(em)
  <2>1. CASE Len(em) < room
    BY <1>1, <2>1
  <2>2. CASE ~(Len(em) < room)
    <3>1. room \in 0 .. Len(em)
      BY <1>1, <2>2
    <3>2. IsSeq(SubSeq(em, 1, room)) /\ Len(SubSeq(em, 1, room)) = room
      BY <3>1, SubSeqFacts
    <3> QED BY <2>2, <3>1, <3>2
  <2> QED BY <2>1, <2>2
<1>3. Deliverable(em) = IF Ends = {} THEN cut ELSE SubSeq(cut, 1, first - 1)
  BY Zenon DEF Deliverable
<1> HIDE DEF cut
<1>4. Ends # {} => first \in Ends
  <2>1. Ends \in SUBSET Nat
    BY <1>1, <1>2
  <2> HIDE DEF Ends
  <2> QED BY <2>1, LeastNatural
<1>5. CASE Ends = {}
  BY <1>2, <1>3, <1>5
<1>6. CASE Ends # {}
  <2>1. first \in 1 .. Len(cut)
    BY <1>4, <1>6
  <2> HIDE DEF first, Ends
  <2>2. first - 1 \in 0 .. Len(cut)
    BY <1>1, <1>2, <2>1
  <2>3. Len(SubSeq(cut, 1, first - 1)) = first - 1
    BY <1>2, <2>2, SubSeqFacts
  <2> QED BY <1>1, <1>2, <1>3, <1>6, <2>2, <2>3
<1> QED BY <1>5, <1>6

(* What post_round commits, and the masks it leaves. *)
Scanned == ScanRound(World(tc, pool, slot0), outcome.em)
Keep == IF Scanned.at > 0 THEN Scanned.at ELSE outcome.n

LEMMA PostShape ==
  ASSUME SpecInv, PostRound
  PROVE  /\ Keep \in 1 .. outcome.n /\ (~(Scanned.at > 0) => Keep = outcome.n)
         /\ IsSeq(done') /\ Len(done') = Len(done) + Keep
         /\ \A i \in 1 .. Len(done) : done'[i] = done[i]
         /\ \A k \in 1 .. Keep : done'[Len(done) + k] = outcome.em[k]
         /\ IsSeq(raw') /\ Len(raw') = Len(done) + Keep + 1
         /\ \A i \in 1 .. Len(done) + Keep + 1 : raw'[i] = raw[i]
         /\ IsSeq(mask') /\ Len(mask') = Len(done) + Keep + 1
         /\ \A i \in 1 .. Len(done) + Keep : mask'[i] = mask[i]
         /\ mask'[Len(done) + Keep + 1] = IF Scanned.at > 0 THEN Scanned.x.slot0
                                          ELSE mask[Len(done) + Keep + 1]
         /\ Len(Deliverable(SubSeq(outcome.em, 1, Keep))) \in 0 .. Keep
<1> DEFINE em0 == outcome.em
           n == outcome.n
           P == Len(done)
           em == SubSeq(em0, 1, Keep)
           out == Deliverable(em)
<1>1. phase = "post" /\ SeqTypes /\ PostInv /\ depth \in DepthMin .. DepthMax
  BY DEF SpecInv, PostRound
<1>2. /\ SfxWidth \in Nat /\ SfxWidth <= WMax /\ WMax \in Nat /\ WMax > 0 /\ Budget \in Nat
  BY SpecAssumption
<1>3. /\ IsSeq(em0) /\ Len(em0) = n /\ n \in 1 .. SfxWidth
      /\ P \in Nat /\ P = emitted /\ emitted \in Nat /\ emitted < Budget
      /\ IsSeq(raw) /\ IsSeq(mask) /\ IsSeq(rows) /\ IsSeq(done)
      /\ Len(rows) = Budget + SfxWidth /\ perm \in 0 .. WMax - 1
      /\ Len(raw) = P + n + 1 /\ Len(mask) = P + n + 1
  BY <1>1, SeqFacts DEF SeqTypes, PostInv
<1>4. /\ perm' = IF Scanned.at > 0 THEN RefinishPerm(Keep, n) ELSE perm
      /\ pending' = IF Scanned.at > 0 THEN Pick(raw[P + Keep + 1], Scanned.x.slot0) ELSE pending
      /\ mask' = IF Scanned.at > 0 THEN Append(SubSeq(mask, 1, P + Keep), Scanned.x.slot0) ELSE mask
      /\ done' = done \o em /\ raw' = SubSeq(raw, 1, P + Keep + 1)
      /\ emitted' = emitted + Len(out)
      /\ UNCHANGED <<buf, rows, depth>>
  BY Zenon DEF PostRound, Scanned, Keep
<1>5. Scanned.at \in 0 .. n
  BY <1>3, ScanFacts DEF Scanned
<1>6. Keep \in 1 .. n /\ (~(Scanned.at > 0) => Keep = n)
  BY <1>2, <1>3, <1>5 DEF Keep
<1> DEFINE late == Scanned.x.slot0
           hit == Scanned.at > 0
<1> HIDE DEF out, late, hit
<1>7. IsSeq(em) /\ Len(em) = Keep /\ \A k \in 1 .. Keep : em[k] = em0[k]
  <2>1. Keep \in 0 .. Len(em0)
    BY <1>2, <1>3, <1>6
  <2> QED BY <1>3, <2>1, SubSeqFacts
<1>8. Len(out) \in 0 .. Keep
  BY <1>2, <1>3, <1>7, DeliverableFacts DEF out
<1>9. /\ IsSeq(done') /\ Len(done') = P + Keep
      /\ \A i \in 1 .. P : done'[i] = done[i]
      /\ \A k \in 1 .. Keep : done'[P + k] = em0[k]
  <2> HIDE DEF em
  <2>1. Joins(done', done, em)
    BY <1>3, <1>4, <1>7, ConcatFacts, Zenon
  <2> QED BY <1>7, <2>1 DEF Joins
<1>10. /\ IsSeq(raw') /\ Len(raw') = P + Keep + 1
       /\ \A i \in 1 .. P + Keep + 1 : raw'[i] = raw[i]
  <2>1. P + Keep + 1 \in 0 .. Len(raw)
    BY <1>2, <1>3, <1>6
  <2> QED BY <1>3, <1>4, <2>1, SubSeqFacts
<1>11. /\ IsSeq(mask') /\ Len(mask') = P + Keep + 1
       /\ \A i \in 1 .. P + Keep : mask'[i] = mask[i]
       /\ mask'[P + Keep + 1] = IF hit THEN late ELSE mask[P + Keep + 1]
  <2>1. CASE hit
    <3> DEFINE kept == SubSeq(mask, 1, P + Keep)
    <3>1. P + Keep \in 0 .. Len(mask)
      BY <1>2, <1>3, <1>6
    <3>2. IsSeq(kept) /\ Len(kept) = P + Keep /\ \A i \in 1 .. P + Keep : kept[i] = mask[i]
      BY <1>3, <3>1, SubSeqFacts
    <3>3. mask' = Append(kept, late)
      BY <1>4, <2>1 DEF hit, late
    <3> HIDE DEF kept
    <3>4. /\ IsSeq(Append(kept, late)) /\ Len(Append(kept, late)) = Len(kept) + 1
          /\ \A i \in 1 .. Len(kept) : Append(kept, late)[i] = kept[i]
          /\ Append(kept, late)[Len(kept) + 1] = late
      BY <3>2, AppendFacts
    <3> QED BY <2>1, <3>2, <3>3, <3>4
  <2>2. CASE ~hit
    BY <1>3, <1>4, <1>6, <2>2 DEF hit
  <2> QED BY <2>1, <2>2
<1>12. mask'[P + Keep + 1] = IF Scanned.at > 0 THEN Scanned.x.slot0 ELSE mask[P + Keep + 1]
  BY <1>11 DEF hit, late
<1>13. Len(Deliverable(SubSeq(outcome.em, 1, Keep))) \in 0 .. Keep
  BY <1>8 DEF out
<1> HIDE DEF em
<1>14. /\ IsSeq(mask') /\ Len(mask') = P + Keep + 1
       /\ \A i \in 1 .. P + Keep : mask'[i] = mask[i]
  BY <1>11, Zenon
<1> QED BY <1>6, <1>9, <1>10, <1>12, <1>13, <1>14, Zenon

LEMMA PostStep ==
  ASSUME SpecInv, PostRound
  PROVE  SpecInv'
<1> DEFINE em0 == outcome.em
           n == outcome.n
           P == Len(done)
           scan == ScanRound(World(tc, pool, slot0), em0)
           m == IF scan.at > 0 THEN scan.at ELSE n
           em == SubSeq(em0, 1, m)
           out == Deliverable(em)
           ends == Len(out) < m /\ Len(out) < Budget - emitted
<1>1. phase = "post" /\ SeqTypes /\ PostInv /\ depth \in DepthMin .. DepthMax
  BY DEF SpecInv, PostRound
<1>2. /\ SfxWidth \in Nat /\ SfxWidth <= WMax /\ WMax \in Nat /\ WMax > 0 /\ Budget \in Nat
  BY SpecAssumption
<1>3. /\ IsSeq(em0) /\ Len(em0) = n /\ n \in 1 .. SfxWidth
      /\ P \in Nat /\ P = emitted /\ emitted \in Nat /\ emitted < Budget
      /\ IsSeq(raw) /\ IsSeq(mask) /\ IsSeq(rows) /\ IsSeq(done)
      /\ Len(rows) = Budget + SfxWidth /\ perm \in 0 .. WMax - 1
      /\ Len(raw) = P + n + 1 /\ Len(mask) = P + n + 1
  BY <1>1, SeqFacts DEF SeqTypes, PostInv
<1>4. /\ Committed
      /\ \A k \in 1 .. n : rows[P + k] = em0[k] /\ em0[k] = Pick(raw[P + k], mask[P + k])
      /\ \A k \in 1 .. n : buf[RefinishPerm(k, n)] = done \o SubSeq(em0, 1, k)
      /\ pending = Pick(raw[P + n + 1], mask[P + n + 1])
  BY <1>1 DEF PostInv
<1>5. /\ perm' = IF scan.at > 0 THEN RefinishPerm(m, n) ELSE perm
      /\ pending' = IF scan.at > 0 THEN Pick(raw[P + m + 1], scan.x.slot0) ELSE pending
      /\ mask' = IF scan.at > 0 THEN Append(SubSeq(mask, 1, P + m), scan.x.slot0) ELSE mask
      /\ done' = done \o em /\ raw' = SubSeq(raw, 1, P + m + 1)
      /\ emitted' = emitted + Len(out)
      /\ UNCHANGED <<buf, rows, depth>>
  BY DEF PostRound
<1>6. phase' \in {"round", "over"} /\ (phase' = "round" => ~ends)
  <2>1. \E stop : phase' = IF ends \/ stop # "no" THEN "over" ELSE "round"
    BY Zenon DEF PostRound
  <2> HIDE DEF ends
  <2> QED BY <2>1
<1>7. /\ m = Keep /\ scan = Scanned
  BY DEF Keep, Scanned
<1>8. m \in 1 .. n /\ (~(scan.at > 0) => m = n)
  BY <1>7, PostShape
<1> DEFINE late == scan.x.slot0
           hit == scan.at > 0
<1>10. Len(out) \in 0 .. m
  BY <1>7, PostShape
<1>11. /\ IsSeq(done') /\ Len(done') = P + m
       /\ \A i \in 1 .. P : done'[i] = done[i]
       /\ \A k \in 1 .. m : done'[P + k] = em0[k]
  BY <1>7, PostShape
<1>12. /\ IsSeq(raw') /\ Len(raw') = P + m + 1
       /\ \A i \in 1 .. P + m + 1 : raw'[i] = raw[i]
  BY <1>7, PostShape
<1>13. /\ IsSeq(mask') /\ Len(mask') = P + m + 1
       /\ \A i \in 1 .. P + m : mask'[i] = mask[i]
       /\ mask'[P + m + 1] = IF hit THEN late ELSE mask[P + m + 1]
  BY <1>7, PostShape
<1> HIDE DEF scan, m, em0, n, out, late, hit
<1>14. perm' \in 0 .. WMax - 1 /\ buf[perm'] = done'
  <2>1. CASE hit
    <3>1. perm' = RefinishPerm(m, n)
      BY <1>5, <2>1 DEF hit
    <3>2. RefinishPerm(m, n) \in 0 .. WMax - 1
      <4> DEFINE a == perm + (m - n) + WMax
      <4>1. a \in 0 .. 2 * WMax - 1 /\ WMax \in Nat \ {0}
        BY <1>2, <1>3, <1>8
      <4> HIDE DEF a
      <4>2. a % WMax = IF a < WMax THEN a ELSE a - WMax
        BY <4>1, RoleMod
      <4>3. a % WMax \in 0 .. WMax - 1
        BY <4>1, <4>2
      <4> QED BY <4>3 DEF RefinishPerm, a
    <3> QED BY <1>4, <1>5, <1>8, <3>1, <3>2
  <2>2. CASE ~hit
    <3>1. perm' = perm /\ m = n
      BY <1>5, <1>8, <2>2 DEF hit
    <3>2. RefinishPerm(n, n) = perm
      <4> DEFINE a == perm + (n - n) + WMax
      <4>1. a \in 0 .. 2 * WMax - 1 /\ WMax \in Nat \ {0} /\ a = perm + WMax
        BY <1>2, <1>3
      <4> HIDE DEF a
      <4>2. a % WMax = IF a < WMax THEN a ELSE a - WMax
        BY <4>1, RoleMod
      <4>3. a % WMax = perm
        BY <1>2, <1>3, <4>1, <4>2
      <4> QED BY <4>3 DEF RefinishPerm, a
    <3>3. n \in 1 .. n
      BY <1>2, <1>3
    <3> QED BY <1>3, <1>4, <1>5, <3>1, <3>2, <3>3
  <2> QED BY <2>1, <2>2
<1>15. Committed'
  <2> SUFFICES ASSUME NEW i \in 1 .. P + m
               PROVE  rows[i] = done'[i] /\ done'[i] = Pick(raw[i], mask[i])
    <3>1. \A i \in 1 .. P + m : i \in 1 .. P + m + 1
      BY <1>3, <1>8
    <3> QED BY <1>5, <1>11, <1>12, <1>13, <3>1 DEF Committed
  <2>1. CASE i <= P
    <3>1. i \in 1 .. P
      BY <1>3, <1>8, <2>1
    <3> QED BY <1>4, <1>11, <3>1 DEF Committed
  <2>2. CASE i > P
    <3>1. i - P \in 1 .. m /\ i - P \in 1 .. n /\ P + (i - P) = i
      BY <1>2, <1>3, <1>8, <2>2
    <3> DEFINE k == i - P
    <3>2. k \in 1 .. m /\ k \in 1 .. n /\ P + k = i
      BY <3>1
    <3> HIDE DEF k
    <3>3. rows[P + k] = em0[k] /\ em0[k] = Pick(raw[P + k], mask[P + k]) /\ done'[P + k] = em0[k]
      BY <1>4, <1>11, <3>2
    <3> QED BY <3>2, <3>3
  <2> QED BY <1>3, <1>8, <2>1, <2>2
<1>16. pending' = Pick(raw'[P + m + 1], mask'[P + m + 1])
  <2>1. raw'[P + m + 1] = raw[P + m + 1]
    BY <1>3, <1>8, <1>12
  <2>2. CASE hit
    BY <1>5, <1>13, <2>1, <2>2 DEF hit, late
  <2>3. CASE ~hit
    <3>1. m = n /\ pending' = pending
      BY <1>5, <1>8, <2>3 DEF hit
    <3> QED BY <1>4, <1>13, <2>1, <2>3, <3>1
  <2> QED BY <2>2, <2>3
<1>17. emitted' \in Nat /\ (phase' = "round" /\ emitted' < Budget => Len(done') = emitted')
  <2>1. emitted' = emitted + Len(out)
    BY <1>5
  <2>2. phase' = "round" /\ emitted' < Budget => Len(out) = m
    BY <1>2, <1>3, <1>6, <1>8, <1>10, <2>1
  <2>3. m \in Nat /\ emitted \in Nat /\ P = emitted /\ Len(done') = P + m /\ Len(out) \in Nat
    BY <1>2, <1>3, <1>8, <1>10, <1>11
  <2> QED BY <2>1, <2>2, <2>3
<1>18. SeqTypes'
  BY <1>3, <1>5, <1>6, <1>11, <1>12, <1>13, <1>14, <1>17 DEF SeqTypes
<1>19. phase' = "round" => RoundInv'
  BY <1>5, <1>11, <1>12, <1>13, <1>14, <1>15, <1>16, <1>17 DEF RoundInv
<1>20. depth' \in DepthMin .. DepthMax /\ phase' # "post"
  BY <1>1, <1>5, <1>6
<1> QED BY <1>18, <1>19, <1>20 DEF SpecInv

-----------------------------------------------------------------------------
(* Requests, and the theorem *)

(* Before the first round of a request. *)
AtStart ==
  \E p :
    /\ raw = <<p>> /\ done = <<>> /\ mask = <<None>> /\ pending = p
    /\ buf = NoState /\ perm = 0 /\ rows = [i \in 1 .. Budget + SfxWidth |-> "w"]
    /\ emitted = 0 /\ phase = "round" /\ depth \in DepthMin .. DepthMax

LEMMA StartKeeps == AtStart => SpecInv
<1> SUFFICES ASSUME NEW p, raw = <<p>>, done = <<>>, mask = <<None>>, pending = p,
                    buf = NoState, perm = 0, rows = [i \in 1 .. Budget + SfxWidth |-> "w"],
                    emitted = 0, phase = "round", depth \in DepthMin .. DepthMax
             PROVE  SpecInv
  BY DEF AtStart
<1>1. Budget + SfxWidth \in Nat /\ WMax \in Nat /\ WMax > 0
  BY SpecAssumption
<1>2. IsSeq(raw) /\ Len(raw) = 1 /\ raw[1] = p /\ IsSeq(mask) /\ Len(mask) = 1 /\ mask[1] = None
  BY SingleIsSeq
<1>3. IsSeq(done) /\ Len(done) = 0
  BY EmptyIsSeq
<1>4. IsSeq(rows) /\ Len(rows) = Budget + SfxWidth
  <2>1. rows = [i \in 1 .. Budget + SfxWidth |-> rows[i]]
    OBVIOUS
  <2> QED BY <1>1, <2>1, FcnIsSeq
<1>5. buf[perm] = done
  BY <1>1 DEF NoState
<1>6. SeqTypes
  BY <1>1, <1>2, <1>3, <1>4 DEF SeqTypes
<1>7. Committed
  BY <1>3 DEF Committed
<1>8. pending = Pick(raw[1], mask[1])
  BY <1>2 DEF Pick
<1>9. RoundInv
  <2>1. Len(done) + 1 = 1
    BY <1>3
  <2>2. pending = Pick(raw[Len(done) + 1], mask[Len(done) + 1])
    BY <1>8, <2>1, Zenon
  <2> QED BY <1>2, <1>3, <1>5, <1>7, <2>1, <2>2, Zenon DEF RoundInv
<1> QED BY <1>6, <1>9 DEF SpecInv

LEMMA SpecStarts == SpecInit => SpecInv
<1> SUFFICES ASSUME SpecInit PROVE SpecInv
  OBVIOUS
<1>1. depth \in DepthMin .. DepthMax
  BY SpecAssumption DEF SpecInit
<1>2. AtStart
  BY <1>1, Zenon DEF SpecInit, AtStart
<1> QED BY <1>2, StartKeeps

LEMMA SpecSteps == SpecInv /\ [SpecNext]_specVars => SpecInv'
<1> SUFFICES ASSUME SpecInv, [SpecNext]_specVars PROVE SpecInv'
  OBVIOUS
<1>1. CASE SuffixRound \/ GatedRound \/ ConstrainedRound
  BY <1>1, RoundSteps
<1>2. CASE PostRound
  BY <1>2, PostStep
<1>3. CASE NextRequest
  <2>1. depth' \in DepthMin .. DepthMax
    BY <1>3 DEF NextRequest, SpecInv
  <2>2. PICK p \in Starts : Prompted(p)
    BY <1>3 DEF NextRequest
  <2>3. AtStart'
    BY <2>1, <2>2 DEF Prompted, NoState, AtStart
  <2> QED BY <2>3, StartKeeps, PTL
<1>4. CASE UNCHANGED specVars
  BY <1>4 DEF specVars, SpecInv, SeqTypes, RoundInv, PostInv, Committed, RefinishPerm
<1> QED BY <1>1, <1>2, <1>3, <1>4 DEF SpecNext

(* Between rounds every committed token is the one greedy decoding takes   *)
(* under the mask in force, role 0 and the rows hold exactly the committed *)
(* tokens: spec_round, finish_round, refinish_round and post_round with    *)
(* any drafts, widths, ladder, pool and budget.                            *)
THEOREM RoundsAreLossless == RoundsSpec => []SpecLossless
<1>1. SpecInv => SpecLossless
  BY DEF SpecInv, RoundInv, Committed, SpecLossless
<1> QED BY <1>1, SpecStarts, SpecSteps, PTL DEF RoundsSpec

-----------------------------------------------------------------------------
(* The grammar along a text *)

LEMMA SetInduction ==
  ASSUME NEW T \in SUBSET Nat, 0 \in T, \A n \in T : n + 1 \in T
  PROVE  \A n \in Nat : n \in T
<1> SUFFICES ASSUME NEW m \in Nat, m \notin T PROVE FALSE
  OBVIOUS
<1> DEFINE U == Nat \ T
<1>1. PICK n \in U : \A k \in U : n <= k
  BY LeastNatural
<1>2. n \in Nat /\ n # 0 /\ n \notin T
  BY <1>1
<1>3. n - 1 \in Nat /\ n - 1 \notin U
  BY <1>1, <1>2
<1>4. (n - 1) + 1 \in T
  BY <1>3
<1> QED BY <1>2, <1>4

Outside == [g |-> None, prev |-> "w"]

(* The functions that Walk is defined by. *)
WalkIs(f, s, n) == f = [i \in 0 .. n |-> IF i = 0 THEN Outside ELSE WalkOn(f[i - 1], s[i])]

LEMMA WalkExists ==
  ASSUME NEW s
  PROVE  \A n \in Nat : \E f : WalkIs(f, s, n)
<1> DEFINE T == {n \in Nat : \E f : WalkIs(f, s, n)}
<1>1. 0 \in T
  <2> DEFINE f == [i \in 0 .. 0 |-> Outside]
  <2>1. WalkIs(f, s, 0)
    BY DEF WalkIs
  <2> QED BY <2>1
<1>2. ASSUME NEW n \in T PROVE n + 1 \in T
  <2>1. PICK f : WalkIs(f, s, n)
    OBVIOUS
  <2> DEFINE x == WalkOn(f[n], s[n + 1])
             h == [i \in 0 .. n + 1 |-> IF i = n + 1 THEN x ELSE f[i]]
  <2>2. n \in Nat
    OBVIOUS
  <2>3. \A i \in 0 .. n : h[i] = f[i]
    BY <2>2
  <2>4. \A i \in 0 .. n : f[i] = IF i = 0 THEN Outside ELSE WalkOn(f[i - 1], s[i])
    BY <2>1 DEF WalkIs
  <2>5. ASSUME NEW i \in 0 .. n + 1
        PROVE  h[i] = IF i = 0 THEN Outside ELSE WalkOn(h[i - 1], s[i])
    <3>1. CASE i = n + 1
      <4>1. h[i] = x /\ i # 0 /\ i - 1 = n
        BY <2>2, <3>1
      <4>2. h[i - 1] = f[n]
        BY <2>2, <2>3, <4>1
      <4> QED BY <3>1, <4>1, <4>2
    <3>2. CASE i # n + 1
      <4>1. i \in 0 .. n /\ (i # 0 => i - 1 \in 0 .. n)
        BY <2>2, <3>2
      <4>2. h[i] = f[i] /\ (i # 0 => h[i - 1] = f[i - 1])
        BY <2>3, <4>1
      <4> HIDE DEF h, x
      <4> QED BY <2>4, <4>1, <4>2
    <3> QED BY <3>1, <3>2
  <2>6. h = [i \in 0 .. n + 1 |-> h[i]]
    OBVIOUS
  <2> HIDE DEF h
  <2>7. WalkIs(h, s, n + 1)
    BY <2>5, <2>6 DEF WalkIs
  <2> QED BY <2>2, <2>7
<1> HIDE DEF T
<1>3. \A n \in Nat : n \in T
  BY <1>1, <1>2, SetInduction DEF T
<1> QED BY <1>3 DEF T

LEMMA WalkUnfolds ==
  ASSUME NEW s, Len(s) \in Nat
  PROVE  \E f : /\ Walk(s) = f[Len(s)] /\ f[0] = Outside
                /\ \A i \in 1 .. Len(s) : f[i] = WalkOn(f[i - 1], s[i])
<1> DEFINE f == CHOOSE f : WalkIs(f, s, Len(s))
<1>1. WalkIs(f, s, Len(s))
  <2>1. \E g : WalkIs(g, s, Len(s))
    BY WalkExists
  <2> QED BY <2>1
<1>2. Walk(s) = f[Len(s)]
  BY DEF Walk, WalkIs, Outside
<1> HIDE DEF f
<1>3. f[0] = Outside /\ \A i \in 1 .. Len(s) : f[i] = WalkOn(f[i - 1], s[i])
  <2>1. \A i \in 0 .. Len(s) : f[i] = IF i = 0 THEN Outside ELSE WalkOn(f[i - 1], s[i])
    BY <1>1 DEF WalkIs
  <2>2. 0 \in 0 .. Len(s) /\ \A i \in 1 .. Len(s) : i \in 0 .. Len(s) /\ i # 0
    OBVIOUS
  <2> QED BY <2>1, <2>2
<1> QED BY <1>2, <1>3

LEMMA WalkStep ==
  ASSUME NEW s, IsSeq(s), NEW r, IsSeq(r), Len(r) = Len(s) + 1,
         \A i \in 1 .. Len(s) : r[i] = s[i]
  PROVE  Walk(r) = WalkOn(Walk(s), r[Len(r)])
<1>1. Len(s) \in Nat /\ Len(r) \in Nat
  BY SeqFacts
<1>2. PICK f : /\ Walk(s) = f[Len(s)] /\ f[0] = Outside
               /\ \A i \in 1 .. Len(s) : f[i] = WalkOn(f[i - 1], s[i])
  BY <1>1, WalkUnfolds
<1>3. PICK h : /\ Walk(r) = h[Len(r)] /\ h[0] = Outside
               /\ \A i \in 1 .. Len(r) : h[i] = WalkOn(h[i - 1], r[i])
  BY <1>1, WalkUnfolds
<1> DEFINE T == {i \in Nat : i <= Len(s) => f[i] = h[i]}
<1>4. 0 \in T
  BY <1>2, <1>3
<1>5. ASSUME NEW i \in T PROVE i + 1 \in T
  <2> SUFFICES ASSUME i + 1 <= Len(s) PROVE f[i + 1] = h[i + 1]
    OBVIOUS
  <2>1. /\ i + 1 \in 1 .. Len(s) /\ i + 1 \in 1 .. Len(r) /\ (i + 1) - 1 = i
        /\ f[i] = h[i]
    BY <1>1
  <2>2. f[i + 1] = WalkOn(f[i], s[i + 1]) /\ h[i + 1] = WalkOn(h[i], r[i + 1])
    BY <1>2, <1>3, <2>1
  <2> QED BY <2>1, <2>2
<1> HIDE DEF T
<1>6. Len(s) \in T
  <2>1. T \in SUBSET Nat
    BY DEF T
  <2> QED BY <1>1, <1>4, <1>5, <2>1, SetInduction
<1>7. Walk(s) = h[Len(s)]
  BY <1>1, <1>2, <1>6 DEF T
<1>8. Len(r) \in 1 .. Len(r) /\ Len(r) - 1 = Len(s)
  BY <1>1
<1>9. Walk(r) = WalkOn(h[Len(r) - 1], r[Len(r)])
  BY <1>3, <1>8
<1> QED BY <1>7, <1>8, <1>9

(* A token the grammar takes moves it on. *)
LEMMA CallGoesOn ==
  ASSUME NEW s, IsSeq(s), NEW r, IsSeq(r), Len(r) = Len(s) + 1,
         \A i \in 1 .. Len(s) : r[i] = s[i],
         GrammarAfter(s) \in {"open", "body"}, Advance(GrammarAfter(s), r[Len(r)]) # Dead
  PROVE  GrammarAfter(r) = Advance(GrammarAfter(s), r[Len(r)])
<1>1. Walk(r) = WalkOn(Walk(s), r[Len(r)])
  BY WalkStep
<1> QED BY <1>1 DEF GrammarAfter, WalkOn

(* The last piece of a marker enters the grammar. *)
LEMMA MarkerEnters ==
  ASSUME NEW s, IsSeq(s), s # <<>>, s[Len(s)] = "m",
         NEW r, IsSeq(r), Len(r) = Len(s) + 1, \A i \in 1 .. Len(s) : r[i] = s[i],
         r[Len(r)] \in Marks
  PROVE  GrammarAfter(r) = Entry(r[Len(r)])
<1>1. Len(s) \in Nat /\ Len(s) # 0
  <2>1. Len(s) \in Nat
    BY SeqFacts
  <2>2. CASE Len(s) = 0
    <3>1. s = <<>>
      BY <2>2, EmptyIsSeq, EqualSeqs
    <3> QED BY <3>1
  <2> QED BY <2>1, <2>2
<1>2. Walk(s).prev = "m"
  <2> DEFINE q == SubSeq(s, 1, Len(s) - 1)
  <2>1. Len(s) - 1 \in 0 .. Len(s)
    BY <1>1
  <2>2. IsSeq(q) /\ Len(q) = Len(s) - 1 /\ \A i \in 1 .. Len(s) - 1 : q[i] = s[i]
    BY <2>1, SubSeqFacts
  <2> HIDE DEF q
  <2>3. Len(s) = Len(q) + 1 /\ \A i \in 1 .. Len(q) : s[i] = q[i]
    BY <1>1, <2>2
  <2>4. Walk(s) = WalkOn(Walk(q), "m")
    BY <2>2, <2>3, WalkStep
  <2>5. Advance(Walk(q).g, "m") = Dead
    BY DEF Advance
  <2>6. Dead # Closed
    BY DEF Dead, Closed
  <2> QED BY <2>4, <2>5, <2>6 DEF WalkOn
<1>3. Walk(r) = WalkOn(Walk(s), r[Len(r)])
  BY WalkStep
<1>4. Advance(Walk(s).g, r[Len(r)]) = Dead
  BY DEF Marks, Advance
<1> QED BY <1>2, <1>3, <1>4 DEF GrammarAfter, WalkOn

-----------------------------------------------------------------------------
(* Feeding the constrainer *)

(* The functions that OnIds is defined by. *)
FedIs(f, x, s, n) == f = [i \in 0 .. n |-> IF i = 0 THEN x ELSE OnId(f[i - 1], s[i])]

LEMMA FedExists ==
  ASSUME NEW x, NEW s
  PROVE  \A n \in Nat : \E f : FedIs(f, x, s, n)
<1> DEFINE T == {n \in Nat : \E f : FedIs(f, x, s, n)}
<1>1. 0 \in T
  <2> DEFINE f == [i \in 0 .. 0 |-> x]
  <2>1. FedIs(f, x, s, 0)
    BY DEF FedIs
  <2> QED BY <2>1
<1>2. ASSUME NEW n \in T PROVE n + 1 \in T
  <2>1. PICK f : FedIs(f, x, s, n)
    OBVIOUS
  <2> DEFINE y == OnId(f[n], s[n + 1])
             h == [i \in 0 .. n + 1 |-> IF i = n + 1 THEN y ELSE f[i]]
  <2>2. n \in Nat
    OBVIOUS
  <2>3. \A i \in 0 .. n : h[i] = f[i]
    BY <2>2
  <2>4. \A i \in 0 .. n : f[i] = IF i = 0 THEN x ELSE OnId(f[i - 1], s[i])
    BY <2>1 DEF FedIs
  <2>5. ASSUME NEW i \in 0 .. n + 1
        PROVE  h[i] = IF i = 0 THEN x ELSE OnId(h[i - 1], s[i])
    <3>1. CASE i = n + 1
      <4>1. h[i] = y /\ i # 0 /\ i - 1 = n
        BY <2>2, <3>1
      <4>2. h[i - 1] = f[n]
        BY <2>2, <2>3, <4>1
      <4> QED BY <3>1, <4>1, <4>2
    <3>2. CASE i # n + 1
      <4>1. i \in 0 .. n /\ (i # 0 => i - 1 \in 0 .. n)
        BY <2>2, <3>2
      <4>2. h[i] = f[i] /\ (i # 0 => h[i - 1] = f[i - 1])
        BY <2>3, <4>1
      <4> HIDE DEF h, y
      <4> QED BY <2>4, <4>1, <4>2
    <3> QED BY <3>1, <3>2
  <2>6. h = [i \in 0 .. n + 1 |-> h[i]]
    OBVIOUS
  <2> HIDE DEF h
  <2>7. FedIs(h, x, s, n + 1)
    BY <2>5, <2>6 DEF FedIs
  <2> QED BY <2>2, <2>7
<1> HIDE DEF T
<1>3. \A n \in Nat : n \in T
  BY <1>1, <1>2, SetInduction DEF T
<1> QED BY <1>3 DEF T

LEMMA FeedUnfolds ==
  ASSUME NEW x, NEW s, Len(s) \in Nat
  PROVE  \E f : /\ OnIds(x, s) = f[Len(s)] /\ f[0] = x
                /\ \A i \in 1 .. Len(s) : f[i] = OnId(f[i - 1], s[i])
<1> DEFINE f == CHOOSE f : FedIs(f, x, s, Len(s))
<1>1. FedIs(f, x, s, Len(s))
  <2>1. \E g : FedIs(g, x, s, Len(s))
    BY FedExists
  <2> QED BY <2>1
<1>2. OnIds(x, s) = f[Len(s)]
  BY DEF OnIds, FedIs
<1> HIDE DEF f
<1>3. f[0] = x /\ \A i \in 1 .. Len(s) : f[i] = OnId(f[i - 1], s[i])
  <2>1. \A i \in 0 .. Len(s) : f[i] = IF i = 0 THEN x ELSE OnId(f[i - 1], s[i])
    BY <1>1 DEF FedIs
  <2>2. 0 \in 0 .. Len(s) /\ \A i \in 1 .. Len(s) : i \in 0 .. Len(s) /\ i # 0
    OBVIOUS
  <2> QED BY <2>1, <2>2
<1> QED BY <1>2, <1>3

(* An idle constrainer ignores what it is fed. *)
Idle(x) == ~x.tc.active /\ x.tc.skip = 0

LEMMA IdleStays ==
  ASSUME NEW x, NEW t, Idle(x)
  PROVE  OnId(x, t) = x
  BY DEF Idle, OnId

LEMMA FeedIdle ==
  ASSUME NEW x, Idle(x), NEW s, Len(s) \in Nat
  PROVE  OnIds(x, s) = x
<1>1. PICK f : /\ OnIds(x, s) = f[Len(s)] /\ f[0] = x
               /\ \A i \in 1 .. Len(s) : f[i] = OnId(f[i - 1], s[i])
  BY FeedUnfolds
<1> DEFINE T == {i \in Nat : i <= Len(s) => f[i] = x}
<1>2. 0 \in T
  BY <1>1
<1>3. ASSUME NEW i \in T PROVE i + 1 \in T
  <2> SUFFICES ASSUME i + 1 <= Len(s) PROVE f[i + 1] = x
    OBVIOUS
  <2>1. i + 1 \in 1 .. Len(s) /\ (i + 1) - 1 = i /\ f[i] = x
    OBVIOUS
  <2>2. f[i + 1] = OnId(f[i], s[i + 1])
    BY <1>1, <2>1
  <2> QED BY <2>1, <2>2, IdleStays
<1> HIDE DEF T
<1>4. Len(s) \in T
  <2>1. T \in SUBSET Nat
    BY DEF T
  <2> QED BY <1>2, <1>3, <2>1, SetInduction
<1> QED BY <1>1, <1>4 DEF T

(* The first token decides, if it is the only one or leaves it idle. *)
LEMMA FeedFirst ==
  ASSUME NEW x, NEW s, Len(s) \in Nat \ {0}, Len(s) = 1 \/ Idle(OnId(x, s[1]))
  PROVE  OnIds(x, s) = OnId(x, s[1])
<1> DEFINE y == OnId(x, s[1])
<1>1. PICK f : /\ OnIds(x, s) = f[Len(s)] /\ f[0] = x
               /\ \A i \in 1 .. Len(s) : f[i] = OnId(f[i - 1], s[i])
  BY FeedUnfolds
<1>2. f[1] = y
  <2>1. 1 \in 1 .. Len(s) /\ 1 - 1 = 0
    OBVIOUS
  <2> QED BY <1>1, <2>1
<1> HIDE DEF y
<1>3. CASE Len(s) = 1
  BY <1>1, <1>2, <1>3 DEF y
<1>4. CASE Idle(y)
  <2> DEFINE T == {i \in Nat : i + 1 <= Len(s) => f[i + 1] = y}
  <2>1. 0 \in T
    BY <1>2
  <2>2. ASSUME NEW i \in T PROVE i + 1 \in T
    <3> SUFFICES ASSUME (i + 1) + 1 <= Len(s) PROVE f[(i + 1) + 1] = y
      OBVIOUS
    <3>1. (i + 1) + 1 \in 1 .. Len(s) /\ ((i + 1) + 1) - 1 = i + 1 /\ f[i + 1] = y
      OBVIOUS
    <3>2. f[(i + 1) + 1] = OnId(f[i + 1], s[(i + 1) + 1])
      BY <1>1, <3>1
    <3> QED BY <1>4, <3>1, <3>2, IdleStays
  <2> HIDE DEF T
  <2>3. Len(s) - 1 \in T
    <3>1. T \in SUBSET Nat /\ Len(s) - 1 \in Nat
      BY DEF T
    <3> QED BY <2>1, <2>2, <3>1, SetInduction
  <2>4. (Len(s) - 1) + 1 = Len(s)
    OBVIOUS
  <2> QED BY <1>1, <2>3, <2>4 DEF T, y
<1> QED BY <1>3, <1>4 DEF y

(* The worlds, field by field. *)
Tc(active, dead, tg, tail, skip) ==
  [active |-> active, dead |-> dead, tg |-> tg, tail |-> tail, skip |-> skip]

(* The tokens of the round that engaged are not fed again. *)
LEMMA FeedSkipped ==
  ASSUME NEW s, Len(s) \in Nat, NEW a, NEW d, NEW g, NEW tl, NEW p, NEW z
  PROVE  OnIds(World(Tc(a, d, g, tl, Len(s)), p, z), s) = World(Tc(a, d, g, tl, 0), p, z)
<1> DEFINE At(k) == World(Tc(a, d, g, tl, k), p, z)
<1>1. ASSUME NEW k \in Nat \ {0}, NEW t PROVE OnId(At(k), t) = At(k - 1)
  BY DEF OnId, World, Tc
<1> HIDE DEF At
<1>2. PICK f : /\ OnIds(At(Len(s)), s) = f[Len(s)] /\ f[0] = At(Len(s))
               /\ \A i \in 1 .. Len(s) : f[i] = OnId(f[i - 1], s[i])
  <2> DEFINE x == At(Len(s))
  <2> HIDE DEF x
  <2>1. \E f : /\ OnIds(x, s) = f[Len(s)] /\ f[0] = x
               /\ \A i \in 1 .. Len(s) : f[i] = OnId(f[i - 1], s[i])
    BY FeedUnfolds
  <2> QED BY <2>1 DEF x
<1> DEFINE T == {i \in Nat : i <= Len(s) => f[i] = At(Len(s) - i)}
<1>3. 0 \in T
  <2>1. Len(s) - 0 = Len(s)
    OBVIOUS
  <2> QED BY <1>2, <2>1
<1>4. ASSUME NEW i \in T PROVE i + 1 \in T
  <2> SUFFICES ASSUME i + 1 <= Len(s) PROVE f[i + 1] = At(Len(s) - (i + 1))
    OBVIOUS
  <2>1. /\ i + 1 \in 1 .. Len(s) /\ (i + 1) - 1 = i /\ f[i] = At(Len(s) - i)
        /\ Len(s) - i \in Nat \ {0} /\ (Len(s) - i) - 1 = Len(s) - (i + 1)
    OBVIOUS
  <2>2. f[i + 1] = OnId(f[i], s[i + 1])
    BY <1>2, <2>1
  <2>3. OnId(At(Len(s) - i), s[i + 1]) = At((Len(s) - i) - 1)
    BY <1>1, <2>1
  <2> QED BY <2>1, <2>2, <2>3
<1> HIDE DEF T
<1>5. Len(s) \in T
  <2>1. T \in SUBSET Nat
    BY DEF T
  <2> QED BY <1>3, <1>4, <2>1, SetInduction
<1>6. f[Len(s)] = At(0)
  <2>1. Len(s) - Len(s) = 0 /\ Len(s) <= Len(s)
    OBVIOUS
  <2> QED BY <1>5, <2>1 DEF T
<1> QED BY <1>2, <1>6 DEF At

-----------------------------------------------------------------------------
(* What the constrainer does with a round *)

(* Truth values as the provers like them in a record. *)
Yes == TRUE
No == FALSE

(* The mask of h goes out, or the pool is full and the constrainer gives up. *)
LEMMA ApplyOutcomes ==
  ASSUME NEW d, NEW g, NEW tl, NEW k, NEW p, NEW z, NEW h
  PROVE  \E q : \/ Apply(World(Tc(Yes, d, g, tl, k), p, z), h)
                     = World(Tc(Yes, d, g, tl, k), q, h)
                \/ Apply(World(Tc(Yes, d, g, tl, k), p, z), h)
                     = World(Tc(No, Yes, g, tl, k), q, None)
<1> DEFINE x == World(Tc(Yes, d, g, tl, k), p, z)
<1>1. x.tc = Tc(Yes, d, g, tl, k) /\ x.pool = p
  BY DEF World
<1>2. CASE h \in p \/ Cardinality(p) < PoolCap
  <2>1. Apply(x, h) = World(Tc(Yes, d, g, tl, k), p \cup {h}, h)
    BY <1>1, <1>2, Zenon DEF Apply
  <2> QED BY <2>1, Zenon
<1>3. CASE ~(h \in p \/ Cardinality(p) < PoolCap)
  <2>1. Apply(x, h) = Drop([x EXCEPT !.tc.dead = Yes])
    BY <1>1, <1>3, Zenon DEF Apply, Yes
  <2>2. [x EXCEPT !.tc.dead = Yes] = World(Tc(Yes, Yes, g, tl, k), p, z)
    BY DEF World, Tc
  <2>3. Drop(World(Tc(Yes, Yes, g, tl, k), p, z)) = World(Tc(No, Yes, g, tl, k), p, None)
    <3> DEFINE y == World(Tc(Yes, Yes, g, tl, k), p, z)
    <3>1. y.tc = Tc(Yes, Yes, g, tl, k) /\ y.tc.active = Yes /\ y.pool = p
      BY DEF World, Tc
    <3>2. [Tc(Yes, Yes, g, tl, k) EXCEPT !.active = No] = Tc(No, Yes, g, tl, k)
      BY DEF Tc
    <3> HIDE DEF y
    <3>3. Drop(y) = World([y.tc EXCEPT !.active = No], y.pool, None)
      BY <3>1, Zenon DEF Drop, Yes, No
    <3> QED BY <3>1, <3>2, <3>3, Zenon DEF y
  <2>4. Apply(x, h) = World(Tc(No, Yes, g, tl, k), p, None)
    BY <2>1, <2>2, <2>3, Zenon
  <2> QED BY <2>4, Zenon
<1> QED BY <1>2, <1>3

(* scan_round passes over the round, or engages at the token that          *)
(* completes a marker.                                                     *)
Passed(sc, last) ==
  /\ sc.at = 0
  /\ \E d, h, u, q :
       /\ d \in {Yes, No} /\ (d = Yes \/ u = last)
       /\ sc.x = World(Tc(No, d, h, u, 0), q, None)
Engaged(sc, em, tl) ==
  /\ sc.at \in 1 .. Len(em)
  /\ em[sc.at] \in Marks /\ Entry(em[sc.at]) # Dead
  /\ (IF sc.at = 1 THEN tl ELSE em[sc.at - 1]) = "m"
  /\ \E q : sc.x = World(Tc(Yes, No, Entry(em[sc.at]), em[sc.at], sc.at), q,
                         Entry(em[sc.at]))

LEMMA ScanOutcomes ==
  ASSUME NEW em, IsSeq(em), NEW g, NEW tl, NEW p
  PROVE  LET sc == Scan(World(Tc(No, No, g, tl, 0), p, None), em)
         IN  Passed(sc, em[Len(em)]) \/ Engaged(sc, em, tl)
<1> DEFINE x == World(Tc(No, No, g, tl, 0), p, None)
           sc == Scan(x, em)
           Ends == {j \in DOMAIN em : Completes(x, em, j)}
           Fit == {j \in Ends : Entry(em[j]) # Dead}
           at == CHOOSE j \in Fit : \A i \in Fit : j <= i
           h == Entry(em[at])
           begun == [x EXCEPT !.tc.tail = em[at], !.tc.active = Yes, !.tc.tg = h]
           entered == Apply(begun, h)
           passed == [x EXCEPT !.tc.tail = em[Len(em)]]
<1>1. Len(em) \in Nat /\ DOMAIN em = 1 .. Len(em)
  BY SeqFacts
<1>2. sc = IF Fit # {}
             THEN IF entered.tc.active THEN [x |-> [entered EXCEPT !.tc.skip = at], at |-> at]
                  ELSE [x |-> entered, at |-> 0]
           ELSE IF Ends # {}
             THEN [x |-> World([passed.tc EXCEPT !.tg = Dead], x.pool, None), at |-> 0]
           ELSE [x |-> passed, at |-> 0]
  BY Zenon DEF Scan, Yes
<1>3. passed = World(Tc(No, No, g, em[Len(em)], 0), p, None)
  BY DEF World, Tc
<1>4. begun = World(Tc(Yes, No, h, em[at], 0), p, None)
  <2> HIDE DEF at, h
  <2>1. [x EXCEPT !.tc.tail = em[at]] = World(Tc(No, No, g, em[at], 0), p, None)
    BY DEF World, Tc
  <2>2. [World(Tc(No, No, g, em[at], 0), p, None) EXCEPT !.tc.active = Yes]
          = World(Tc(Yes, No, g, em[at], 0), p, None)
    BY DEF World, Tc
  <2>3. [World(Tc(Yes, No, g, em[at], 0), p, None) EXCEPT !.tc.tg = h]
          = World(Tc(Yes, No, h, em[at], 0), p, None)
    BY DEF World, Tc
  <2> HIDE DEF x
  <2> QED BY <2>1, <2>2, <2>3, Zenon
<1>5. x.tc.tail = tl /\ x.pool = p
  BY DEF World, Tc
<1>6. Fit # {} => at \in Fit
  <2> HIDE DEF x
  <2>1. Fit \in SUBSET Nat
    BY <1>1
  <2> HIDE DEF Fit
  <2> QED BY <2>1, LeastNatural
<1>7. CASE Fit # {}
  <2>1. /\ at \in 1 .. Len(em) /\ em[at] \in Marks /\ h # Dead
        /\ (IF at = 1 THEN tl ELSE em[at - 1]) = "m"
    BY <1>1, <1>5, <1>6, <1>7 DEF Completes
  <2> HIDE DEF at, h, begun
  <2>2. PICK q : \/ entered = World(Tc(Yes, No, h, em[at], 0), q, h)
                 \/ entered = World(Tc(No, Yes, h, em[at], 0), q, None)
    <3> DEFINE y == World(Tc(Yes, No, h, em[at], 0), p, None)
    <3>1. \E q : \/ Apply(y, h) = World(Tc(Yes, No, h, em[at], 0), q, h)
                 \/ Apply(y, h) = World(Tc(No, Yes, h, em[at], 0), q, None)
      BY ApplyOutcomes
    <3> HIDE DEF y
    <3>2. begun = y
      BY <1>4 DEF y
    <3> QED BY <3>1, <3>2, Zenon
  <2>3. CASE entered = World(Tc(Yes, No, h, em[at], 0), q, h)
    <3> HIDE DEF entered
    <3>1. entered.tc.active
      <4>1. entered.tc.active = Yes
        BY <2>3 DEF World, Tc
      <4> QED BY <4>1 DEF Yes
    <3>2. [entered EXCEPT !.tc.skip = at] = World(Tc(Yes, No, h, em[at], at), q, h)
      <4>1. [World(Tc(Yes, No, h, em[at], 0), q, h) EXCEPT !.tc.skip = at]
              = World(Tc(Yes, No, h, em[at], at), q, h)
        BY DEF World, Tc
      <4> QED BY <2>3, <4>1, Zenon
    <3> HIDE DEF Fit, Ends
    <3>3. sc = [x |-> [entered EXCEPT !.tc.skip = at], at |-> at]
      BY <1>2, <1>7, <3>1, Zenon
    <3> HIDE DEF sc
    <3>4. sc.at = at /\ sc.x = World(Tc(Yes, No, h, em[at], at), q, h)
      BY <3>2, <3>3
    <3>5. Engaged(sc, em, tl)
      BY <2>1, <3>4, Zenon DEF Engaged, h
    <3> QED BY <3>5 DEF sc
  <2>4. CASE entered = World(Tc(No, Yes, h, em[at], 0), q, None)
    <3> HIDE DEF entered
    <3>1. ~entered.tc.active
      <4>1. entered.tc.active = No
        BY <2>4 DEF World, Tc
      <4> QED BY <4>1 DEF No
    <3> HIDE DEF Fit, Ends
    <3>2. sc = [x |-> entered, at |-> 0]
      BY <1>2, <1>7, <3>1, Zenon
    <3> HIDE DEF sc
    <3>3. sc.at = 0 /\ sc.x = World(Tc(No, Yes, h, em[at], 0), q, None) /\ Yes \in {Yes, No}
      BY <2>4, <3>2
    <3>4. Passed(sc, em[Len(em)])
      BY <3>3, Zenon DEF Passed
    <3> QED BY <3>4 DEF sc
  <2> QED BY <2>2, <2>3, <2>4
<1>8. CASE Fit = {}
  <2>1. World([passed.tc EXCEPT !.tg = Dead], x.pool, None)
          = World(Tc(No, No, Dead, em[Len(em)], 0), p, None)
    <3>1. [Tc(No, No, g, em[Len(em)], 0) EXCEPT !.tg = Dead]
            = Tc(No, No, Dead, em[Len(em)], 0)
      BY DEF World, Tc
    <3>2. passed.tc = Tc(No, No, g, em[Len(em)], 0)
      BY <1>3 DEF World
    <3> HIDE DEF passed, x
    <3> QED BY <1>5, <3>1, <3>2, Zenon
  <2> HIDE DEF Fit, Ends, passed
  <2>2. PICK f : sc = [x |-> World(Tc(No, No, f, em[Len(em)], 0), p, None), at |-> 0]
    BY <1>2, <1>3, <1>8, <2>1, Zenon
  <2> DEFINE y == World(Tc(No, No, f, em[Len(em)], 0), p, None)
  <2> HIDE DEF sc, y
  <2>3. sc.at = 0 /\ sc.x = y
    <3>1. sc = [x |-> y, at |-> 0]
      BY <2>2 DEF y
    <3> QED BY <3>1
  <2>4. No \in {Yes, No}
    OBVIOUS
  <2>5. Passed(sc, em[Len(em)])
    BY <2>3, <2>4, Zenon DEF Passed, y
  <2> QED BY <2>5 DEF sc
<1> QED BY <1>7, <1>8

(* The mask that is staged once t is pending in a call at g. *)
Staged(g, t) == IF Advance(g, t) = Closed THEN None ELSE Advance(g, t)

LEMMA PendingOutcomes ==
  ASSUME NEW d, NEW g, NEW tl, NEW p, NEW z, NEW t, Advance(g, t) # Dead
  PROVE  \E q : \/ OnPending(World(Tc(Yes, d, g, tl, 0), p, z), t)
                     = World(Tc(Yes, d, g, tl, 0), q, Staged(g, t))
                \/ OnPending(World(Tc(Yes, d, g, tl, 0), p, z), t)
                     = World(Tc(No, Yes, g, tl, 0), q, None)
<1> DEFINE x == World(Tc(Yes, d, g, tl, 0), p, z)
<1>1. x.tc.active = Yes /\ x.tc.tg = g
  BY DEF World, Tc
<1>2. [x EXCEPT !.slot0 = None] = World(Tc(Yes, d, g, tl, 0), p, None)
  BY DEF World
<1>3. \E q : \/ Apply(x, Advance(g, t)) = World(Tc(Yes, d, g, tl, 0), q, Advance(g, t))
             \/ Apply(x, Advance(g, t)) = World(Tc(No, Yes, g, tl, 0), q, None)
  BY ApplyOutcomes
<1> HIDE DEF x
<1>4. OnPending(x, t) = IF Advance(g, t) = Closed THEN [x EXCEPT !.slot0 = None]
                        ELSE Apply(x, Advance(g, t))
  BY <1>1, Zenon DEF OnPending, Yes
<1>5. CASE Advance(g, t) = Closed
  <2>1. OnPending(x, t) = World(Tc(Yes, d, g, tl, 0), p, Staged(g, t))
    BY <1>2, <1>4, <1>5, Zenon DEF Staged
  <2> QED BY <2>1 DEF x
<1>6. CASE Advance(g, t) # Closed
  <2>1. OnPending(x, t) = Apply(x, Advance(g, t)) /\ Staged(g, t) = Advance(g, t)
    BY <1>4, <1>6, Zenon DEF Staged
  <2> QED BY <1>3, <2>1, Zenon DEF x
<1> QED BY <1>5, <1>6

(* on_id of the first token of a round in a call. *)
LEMMA FirstFed ==
  ASSUME NEW d, NEW g, NEW tl, NEW p, NEW z, NEW t, Advance(g, t) # Dead
  PROVE  OnId(World(Tc(Yes, d, g, tl, 0), p, z), t)
           = IF Advance(g, t) = Closed THEN World(Tc(No, d, Closed, "w", 0), p, None)
             ELSE World(Tc(Yes, d, Advance(g, t), tl, 0), p, z)
<1> DEFINE x == World(Tc(Yes, d, g, tl, 0), p, z)
           h == Advance(g, t)
<1>1. x.tc.active = Yes /\ x.tc.tg = g /\ x.tc.skip = 0 /\ x.pool = p
  BY DEF World, Tc
<1> HIDE DEF h
<1>2. [x EXCEPT !.tc.tg = h] = World(Tc(Yes, d, h, tl, 0), p, z)
  BY DEF World, Tc
<1>3. [x.tc EXCEPT !.active = No, !.tg = Closed, !.tail = "w"] = Tc(No, d, Closed, "w", 0)
  <2>1. x.tc = Tc(Yes, d, g, tl, 0)
    BY DEF World
  <2>2. [Tc(Yes, d, g, tl, 0) EXCEPT !.active = No] = Tc(No, d, g, tl, 0)
    BY DEF Tc
  <2>3. [Tc(No, d, g, tl, 0) EXCEPT !.tg = Closed] = Tc(No, d, Closed, tl, 0)
    BY DEF Tc
  <2>4. [Tc(No, d, Closed, tl, 0) EXCEPT !.tail = "w"] = Tc(No, d, Closed, "w", 0)
    BY DEF Tc
  <2> HIDE DEF x
  <2> QED BY <2>1, <2>2, <2>3, <2>4, Zenon
<1> HIDE DEF x
<1>4. OnId(x, t) = IF h = Closed
                     THEN World([x.tc EXCEPT !.active = No, !.tg = Closed, !.tail = "w"], x.pool, None)
                   ELSE [x EXCEPT !.tc.tg = h]
  <2>1. ~(x.tc.skip > 0)
    BY <1>1
  <2> QED BY <1>1, <2>1, Zenon DEF OnId, Yes, No, h
<1> QED BY <1>1, <1>2, <1>3, <1>4, Zenon DEF x, h

(* The argmax under a mask is a token the grammar takes. *)
LEMMA PickLegal ==
  ASSUME NEW r, NEW g \in {"open", "body"}
  PROVE  Advance(g, Pick(r, g)) # Dead
<1>1. Advance(g, "b") = "body" /\ "body" # Dead /\ g # None
  BY DEF Advance, Dead, None
<1> QED BY <1>1 DEF Pick

LEMMA AdvanceValues ==
  ASSUME NEW g, NEW t, Advance(g, t) # Dead
  PROVE  (Advance(g, t) = "body" \/ Advance(g, t) = Closed) /\ Closed # "body"
  BY DEF Advance, Closed, Dead

LEMMA EntryValues ==
  ASSUME NEW t \in Marks, Entry(t) # Dead
  PROVE  Entry(t) \in {"open", "body"}
  BY DEF Marks, Entry, Dead

(* All of a round that fits and has no end reaches the callback. *)
LEMMA DeliveredWhole ==
  ASSUME NEW em, IsSeq(em), Budget \in Nat, emitted \in Nat, emitted < Budget,
         Len(Deliverable(em)) = Len(em), Len(em) < Budget - emitted
  PROVE  Deliverable(em) = em
<1>1. Len(em) \in Nat
  BY SeqFacts
<1> DEFINE cut == IF Len(em) < Budget - emitted THEN em ELSE SubSeq(em, 1, Budget - emitted)
           Ends == {k \in 1 .. Len(cut) : cut[k] = "e"}
           first == CHOOSE k \in Ends : \A j \in Ends : k <= j
<1>2. Deliverable(em) = IF Ends = {} THEN cut ELSE SubSeq(cut, 1, first - 1)
  BY Zenon DEF Deliverable
<1>3. cut = em
  OBVIOUS
<1> HIDE DEF cut
<1>4. CASE Ends = {}
  BY <1>2, <1>3, <1>4
<1>5. CASE Ends # {}
  <2>1. Ends \in SUBSET Nat
    BY <1>1, <1>3
  <2>2. first \in Ends
    <3> HIDE DEF Ends
    <3> QED BY <1>5, <2>1, LeastNatural
  <2>3. first \in 1 .. Len(em)
    BY <1>3, <2>2
  <2> HIDE DEF first, Ends
  <2>4. first - 1 \in 0 .. Len(em) /\ first - 1 # Len(em)
    BY <1>1, <2>3
  <2>5. Len(SubSeq(em, 1, first - 1)) = first - 1
    BY <2>4, SubSeqFacts
  <2> QED BY <1>2, <1>3, <1>5, <2>4, <2>5
<1> QED BY <1>4, <1>5

-----------------------------------------------------------------------------
(* The masks: the inductive invariant *)

(* The token that is committed next. *)
Due == IF phase = "post" THEN outcome.em[1] ELSE pending

EndsInMarker(s) == s # <<>> /\ s[Len(s)] = "m"

(* No call is followed; what the constrainer remembers of a marker is the  *)
(* end of the text.                                                        *)
Off ==
  \E d, g, tl :
    /\ d \in {Yes, No} /\ tc = Tc(No, d, g, tl, 0) /\ slot0 = None
    /\ d = No /\ tl = "m" => EndsInMarker(done)

(* A call is followed, the next token is one it takes, and the mask of     *)
(* what comes after that token is staged.                                  *)
On ==
  \E d, g, tl :
    /\ d \in {Yes, No} /\ g \in {"open", "body"}
    /\ tc = Tc(Yes, d, g, tl, 0) /\ g = GrammarAfter(done)
    /\ Advance(g, Due) # Dead /\ slot0 = Staged(g, Due)

ConstrainerInv == phase # "over" /\ emitted < Budget => Off \/ On

(* A round that is read back was decided under slot 0, then under nothing. *)
ReadBack ==
  phase = "post" =>
    /\ mask[Len(done) + 2] = slot0
    /\ \A k \in 2 .. outcome.n : mask[Len(done) + 1 + k] = None
    /\ slot0 # None => outcome.n = 1

MaskInv == SpecInv /\ MaskNeverLags /\ ConstrainerInv /\ ReadBack

LEMMA PostBegins ==
  ASSUME MaskInv, PostRound
  PROVE  /\ Off \/ On
         /\ Due = outcome.em[1] /\ IsSeq(outcome.em) /\ Len(outcome.em) = outcome.n
         /\ outcome.n \in Nat /\ outcome.n >= 1
         /\ Len(done) \in Nat /\ Len(done) = emitted /\ IsSeq(done)
         /\ emitted \in Nat /\ emitted < Budget /\ Budget \in Nat
<1>1. phase = "post" /\ PostInv /\ SeqTypes
  BY DEF MaskInv, SpecInv, PostRound
<1>2. Budget \in Nat /\ SfxWidth \in Nat
  BY SpecAssumption
<1>3. emitted < Budget /\ outcome.n \in 1 .. SfxWidth /\ Len(done) = emitted
      /\ IsSeq(outcome.em) /\ Len(outcome.em) = outcome.n /\ emitted \in Nat /\ IsSeq(done)
  BY <1>1 DEF PostInv, SeqTypes
<1>4. Off \/ On
  BY <1>1, <1>3 DEF MaskInv, ConstrainerInv
<1>5. Due = outcome.em[1]
  BY <1>1 DEF Due
<1> QED BY <1>2, <1>3, <1>4, <1>5

(* What scan_round finds. *)
LEMMA ScannedCases ==
  ASSUME MaskInv, PostRound
  PROVE  \/ On /\ Scanned.at = 0 /\ Scanned.x = World(tc, pool, slot0)
         \/ slot0 = None /\ Passed(Scanned, outcome.em[outcome.n])
         \/ /\ slot0 = None
            /\ \E tl : Engaged(Scanned, outcome.em, tl) /\ (tl = "m" => EndsInMarker(done))
<1> DEFINE x == World(tc, pool, slot0)
<1>1. x.tc = tc
  BY DEF World
<1>2. CASE On
  <2>1. PICK d, g, tl : tc = Tc(Yes, d, g, tl, 0)
    BY <1>2 DEF On
  <2>2. tc.active = Yes
    BY <2>1 DEF Tc
  <2> HIDE DEF x
  <2>3. ScanRound(x, outcome.em) = [x |-> x, at |-> 0]
    BY <1>1, <2>2, Zenon DEF ScanRound, Yes
  <2>4. Scanned.at = 0 /\ Scanned.x = x
    <3>1. Scanned = [x |-> x, at |-> 0]
      BY <2>3 DEF Scanned, x
    <3> QED BY <3>1
  <2> QED BY <1>2, <2>4 DEF x
<1>3. CASE Off
  <2>1. PICK d, g, tl :
          /\ d \in {Yes, No} /\ tc = Tc(No, d, g, tl, 0) /\ slot0 = None
          /\ d = No /\ tl = "m" => EndsInMarker(done)
    BY <1>3, Zenon DEF Off
  <2>2. tc.active = No /\ tc.dead = d
    BY <2>1 DEF Tc
  <2>3. CASE d = Yes
    <3> HIDE DEF x
    <3>1. ScanRound(x, outcome.em) = [x |-> x, at |-> 0]
      BY <1>1, <2>2, <2>3, Zenon DEF ScanRound, Yes
    <3>2. Scanned = [x |-> x, at |-> 0]
      BY <3>1 DEF Scanned, x
    <3>3. Scanned.at = 0 /\ Scanned.x = x
      BY <3>2
    <3>4. x = World(Tc(No, Yes, g, tl, 0), pool, None)
      BY <2>1, <2>3 DEF x
    <3>5. Passed(Scanned, outcome.em[outcome.n])
      BY <3>3, <3>4, Zenon DEF Passed
    <3> QED BY <2>1, <3>5
  <2>4. CASE d # Yes
    <3>1. d = No
      BY <2>1, <2>4
    <3>2. x = World(Tc(No, No, g, tl, 0), pool, None)
      BY <2>1, <3>1
    <3>3. IsSeq(outcome.em) /\ Len(outcome.em) = outcome.n
      BY PostBegins
    <3> DEFINE y == World(Tc(No, No, g, tl, 0), pool, None)
               em == outcome.em
    <3>4. Passed(Scan(y, em), em[Len(em)]) \/ Engaged(Scan(y, em), em, tl)
      <4> HIDE DEF em
      <4> QED BY <3>3, ScanOutcomes DEF em
    <3> HIDE DEF x, y
    <3>5. x = y
      BY <3>2 DEF y
    <3>6. ScanRound(x, em) = Scan(x, em)
      BY <1>1, <2>2, <3>1, Zenon DEF ScanRound, No
    <3>7. Scanned = Scan(y, em)
      BY <3>5, <3>6 DEF Scanned, x
    <3>8. Passed(Scanned, em[Len(em)]) \/ Engaged(Scanned, em, tl)
      BY <3>4, <3>7
    <3> QED BY <2>1, <3>1, <3>3, <3>8
  <2> QED BY <2>3, <2>4
<1> QED BY <1>2, <1>3, PostBegins

-----------------------------------------------------------------------------
(* post_round and the grammar *)

(* The last token that is kept, after all that came before it. *)
LEMMA LastKept ==
  ASSUME SpecInv, PostRound
  PROVE  LET s == SubSeq(done', 1, Len(done') - 1) IN
         /\ IsSeq(s) /\ IsSeq(done') /\ Len(done') = Len(s) + 1 /\ Len(s) = Len(done) + (Keep - 1)
         /\ \A i \in 1 .. Len(s) : done'[i] = s[i]
         /\ done'[Len(done')] = outcome.em[Keep]
<1> DEFINE s == SubSeq(done', 1, Len(done') - 1)
<1>1. /\ Keep \in 1 .. outcome.n /\ IsSeq(done') /\ Len(done') = Len(done) + Keep
      /\ \A k \in 1 .. Keep : done'[Len(done) + k] = outcome.em[k]
  BY PostShape
<1>2. Len(done) \in Nat /\ Keep \in Nat /\ Keep >= 1
  <2>1. IsSeq(done) /\ outcome.n \in 1 .. SfxWidth /\ SfxWidth \in Nat
    BY SpecAssumption DEF SpecInv, PostRound, SeqTypes, PostInv
  <2> QED BY <1>1, <2>1, SeqFacts
<1>3. Len(done') - 1 \in 0 .. Len(done') /\ Len(done') - 1 = Len(done) + (Keep - 1)
  BY <1>1, <1>2
<1>4. IsSeq(s) /\ Len(s) = Len(done') - 1 /\ \A i \in 1 .. Len(done') - 1 : s[i] = done'[i]
  BY <1>1, <1>3, SubSeqFacts
<1> HIDE DEF s
<1>5. Len(done') = Len(s) + 1 /\ \A i \in 1 .. Len(s) : done'[i] = s[i]
  BY <1>1, <1>2, <1>4
<1>6. done'[Len(done')] = outcome.em[Keep]
  <2>1. Keep \in 1 .. Keep
    BY <1>2
  <2> QED BY <1>1, <2>1
<1> QED BY <1>1, <1>3, <1>4, <1>5, <1>6 DEF s

LEMMA EngagedGrammar ==
  ASSUME MaskInv, PostRound, NEW tl, Engaged(Scanned, outcome.em, tl),
         tl = "m" => EndsInMarker(done)
  PROVE  /\ Scanned.at > 0 /\ Keep = Scanned.at
         /\ GrammarAfter(done') = Entry(outcome.em[Keep])
<1> DEFINE s == SubSeq(done', 1, Len(done') - 1)
           em == outcome.em
<1>1. Scanned.at > 0 /\ Keep = Scanned.at
  <2>1. Len(outcome.em) \in Nat
    BY PostBegins
  <2>2. Scanned.at \in 1 .. Len(outcome.em)
    BY DEF Engaged
  <2>3. Scanned.at > 0
    BY <2>1, <2>2
  <2> QED BY <2>3 DEF Keep
<1>2. /\ IsSeq(s) /\ IsSeq(done') /\ Len(done') = Len(s) + 1 /\ Len(s) = Len(done) + (Keep - 1)
      /\ \A i \in 1 .. Len(s) : done'[i] = s[i]
      /\ done'[Len(done')] = em[Keep]
  BY LastKept DEF MaskInv
<1>3. /\ Keep \in 1 .. outcome.n
      /\ \A i \in 1 .. Len(done) : done'[i] = done[i]
      /\ \A k \in 1 .. Keep : done'[Len(done) + k] = em[k]
  BY PostShape DEF MaskInv
<1>4. Len(done) \in Nat /\ outcome.n \in Nat /\ IsSeq(done)
  BY PostBegins
<1>5. /\ em[Keep] \in Marks
      /\ (IF Keep = 1 THEN tl ELSE em[Keep - 1]) = "m"
  BY <1>1 DEF Engaged
<1> HIDE DEF s, em
<1>6. Len(s) \in Nat /\ Len(s) >= 1 /\ s[Len(s)] = "m"
  <2>1. CASE Keep = 1
    <3>1. done # <<>> /\ done[Len(done)] = "m"
      BY <1>5, <2>1 DEF EndsInMarker
    <3>2. Len(done) # 0
      <4> SUFFICES ASSUME Len(done) = 0 PROVE done = <<>>
        BY <3>1
      <4> QED BY <1>4, EmptyIsSeq, EqualSeqs
    <3>3. Len(s) = Len(done) /\ Len(done) \in 1 .. Len(done)
      BY <1>2, <1>4, <2>1, <3>2
    <3>4. s[Len(s)] = done[Len(done)]
      BY <1>2, <1>3, <3>3
    <3> QED BY <1>4, <3>1, <3>2, <3>3, <3>4
  <2>2. CASE Keep # 1
    <3>1. Keep - 1 \in 1 .. Keep /\ Len(s) \in 1 .. Len(s) /\ Len(s) \in Nat
      BY <1>2, <1>3, <1>4, <2>2
    <3>2. s[Len(s)] = em[Keep - 1]
      BY <1>2, <1>3, <3>1
    <3> QED BY <1>5, <2>2, <3>1, <3>2
  <2> QED BY <2>1, <2>2
<1>7. s # <<>>
  <2>1. Len(s) # 0
    BY <1>6
  <2> QED BY <2>1, EmptyIsSeq
<1>8. GrammarAfter(done') = Entry(done'[Len(done')])
  <2>1. done'[Len(done')] \in Marks
    BY <1>2, <1>5
  <2> QED BY <1>2, <1>6, <1>7, <2>1, MarkerEnters
<1> QED BY <1>1, <1>2, <1>8 DEF em

LEMMA CallGrammar ==
  ASSUME MaskInv, PostRound, Keep = 1, NEW g \in {"open", "body"}, g = GrammarAfter(done),
         Advance(g, outcome.em[1]) # Dead
  PROVE  GrammarAfter(done') = Advance(g, outcome.em[1])
<1>1. /\ IsSeq(done') /\ Len(done') = Len(done) + 1
      /\ \A i \in 1 .. Len(done) : done'[i] = done[i]
      /\ \A k \in 1 .. 1 : done'[Len(done) + k] = outcome.em[k]
  BY PostShape DEF MaskInv
<1>2. IsSeq(done)
  BY PostBegins
<1>3. done'[Len(done')] = outcome.em[1]
  BY <1>1
<1> QED BY <1>1, <1>2, <1>3, CallGoesOn

LEMMA SamePrefix ==
  ASSUME NEW s, IsSeq(s), NEW r, IsSeq(r), NEW n \in 0 .. Len(s), n \in 0 .. Len(r),
         \A i \in 1 .. n : s[i] = r[i]
  PROVE  SubSeq(s, 1, n) = SubSeq(r, 1, n)
<1> DEFINE a == SubSeq(s, 1, n)
           b == SubSeq(r, 1, n)
<1>1. /\ IsSeq(a) /\ Len(a) = n /\ \A i \in 1 .. n : a[i] = s[i]
      /\ IsSeq(b) /\ Len(b) = n /\ \A i \in 1 .. n : b[i] = r[i]
  BY SubSeqFacts
<1> HIDE DEF a, b
<1>2. a = b
  BY <1>1, EqualSeqs
<1> QED BY <1>2 DEF a, b

LEMMA WholePrefix ==
  ASSUME NEW s, IsSeq(s), NEW n, n = Len(s)
  PROVE  SubSeq(s, 1, n) = s
<1>1. n \in 0 .. Len(s)
  BY SeqFacts
<1> DEFINE a == SubSeq(s, 1, n)
<1>2. IsSeq(a) /\ Len(a) = n /\ \A i \in 1 .. n : a[i] = s[i]
  BY <1>1, SubSeqFacts
<1> HIDE DEF a
<1>3. a = s
  BY <1>2, EqualSeqs
<1> QED BY <1>3 DEF a

(* The masks of what is committed are those of the calls, and so is the    *)
(* mask the pending token was decided under.                               *)
LEMMA PostMasks ==
  ASSUME MaskInv, PostRound
  PROVE  MaskNeverLags'
<1> DEFINE P == Len(done)
           n == outcome.n
<1>1. /\ P \in Nat /\ n \in Nat /\ n >= 1 /\ IsSeq(done) /\ Due = outcome.em[1]
  BY PostBegins
<1>2. /\ Keep \in 1 .. n /\ (~(Scanned.at > 0) => Keep = n)
      /\ IsSeq(done') /\ Len(done') = P + Keep
      /\ \A i \in 1 .. P : done'[i] = done[i]
      /\ Len(mask') = P + Keep + 1
      /\ \A i \in 1 .. P + Keep : mask'[i] = mask[i]
      /\ mask'[P + Keep + 1] = IF Scanned.at > 0 THEN Scanned.x.slot0 ELSE mask[P + Keep + 1]
  BY PostShape DEF MaskInv
<1>3. /\ phase = "post" /\ Len(mask) = P + n + 1
      /\ mask[P + 2] = slot0 /\ \A k \in 2 .. n : mask[P + 1 + k] = None
      /\ slot0 # None => n = 1
  <2>1. phase = "post"
    BY DEF PostRound
  <2> QED BY <2>1 DEF MaskInv, SpecInv, PostInv, ReadBack
<1>4. \A i \in 1 .. P + 1 : mask[i] # None => mask[i] = GrammarAfter(SubSeq(done, 1, i - 1))
  <2>1. \A i \in 1 .. P + 1 : i \in 1 .. Len(mask) /\ i <= Len(done) + 1
    BY <1>1, <1>3
  <2> QED BY <2>1 DEF MaskInv, MaskNeverLags
<1> HIDE DEF P, n
<1>5. mask'[P + Keep + 1] # None => mask'[P + Keep + 1] = GrammarAfter(done')
  <2>1. CASE Scanned.at > 0
    <3>1. PICK tl : Engaged(Scanned, outcome.em, tl) /\ (tl = "m" => EndsInMarker(done))
      BY <2>1, ScannedCases DEF Passed
    <3>2. Keep = Scanned.at /\ GrammarAfter(done') = Entry(outcome.em[Keep])
      BY <3>1, EngagedGrammar
    <3>3. Scanned.x.slot0 = Entry(outcome.em[Keep])
      <4> DEFINE z == Entry(outcome.em[Scanned.at])
                 c == Tc(Yes, No, z, outcome.em[Scanned.at], Scanned.at)
      <4>1. PICK q : Scanned.x = World(c, q, z)
        BY <3>1 DEF Engaged
      <4> HIDE DEF c, z
      <4>2. Scanned.x.slot0 = z
        BY <4>1 DEF World
      <4> QED BY <3>2, <4>2 DEF z
    <3> QED BY <1>2, <2>1, <3>2, <3>3
  <2>2. CASE ~(Scanned.at > 0)
    <3>1. Keep = n /\ mask'[P + Keep + 1] = mask[P + n + 1]
      BY <1>2, <2>2
    <3>2. CASE n # 1
      <4>1. n \in 2 .. n /\ P + 1 + n = P + n + 1
        BY <1>1, <3>2
      <4> QED BY <1>3, <3>1, <4>1
    <3>3. CASE n = 1 /\ slot0 # None
      <4>1. On
        BY <3>3, PostBegins DEF Off
      <4>2. PICK d, g, tl :
              /\ d \in {Yes, No} /\ g \in {"open", "body"}
              /\ tc = Tc(Yes, d, g, tl, 0) /\ g = GrammarAfter(done)
              /\ Advance(g, Due) # Dead /\ slot0 = Staged(g, Due)
        BY <4>1, Zenon DEF On
      <4>3. slot0 = Advance(g, outcome.em[1])
        BY <1>1, <3>3, <4>2 DEF Staged
      <4>4. GrammarAfter(done') = Advance(g, outcome.em[1])
        BY <1>1, <3>1, <3>3, <4>2, CallGrammar
      <4>5. P + n + 1 = P + 2
        BY <1>1, <3>3
      <4> QED BY <1>3, <3>1, <4>3, <4>4, <4>5
    <3>4. CASE n = 1 /\ slot0 = None
      <4>1. P + n + 1 = P + 2
        BY <1>1, <3>4
      <4> QED BY <1>3, <3>1, <3>4, <4>1
    <3> QED BY <3>2, <3>3, <3>4
  <2> QED BY <2>1, <2>2
<1>6. ASSUME NEW i \in 1 .. P + Keep + 1, mask'[i] # None
      PROVE  mask'[i] = GrammarAfter(SubSeq(done', 1, i - 1))
  <2>1. CASE i = P + Keep + 1
    <3>1. i - 1 = Len(done')
      BY <1>1, <1>2, <2>1
    <3>2. SubSeq(done', 1, i - 1) = done'
      BY <1>2, <3>1, WholePrefix
    <3> QED BY <1>5, <1>6, <2>1, <3>2
  <2>2. CASE i <= P + 1 /\ i # P + Keep + 1
    <3>1. i \in 1 .. P + 1 /\ i \in 1 .. P + Keep /\ i - 1 \in 0 .. P /\ i - 1 \in 0 .. P + Keep
      BY <1>1, <1>2, <2>2
    <3>2. \A j \in 1 .. i - 1 : done'[j] = done[j]
      BY <1>1, <1>2, <3>1
    <3>3. SubSeq(done', 1, i - 1) = SubSeq(done, 1, i - 1)
      BY <1>1, <1>2, <3>1, <3>2, SamePrefix DEF P
    <3> QED BY <1>2, <1>4, <1>6, <3>1, <3>3
  <2>3. CASE i > P + 1 /\ i # P + Keep + 1
    <3>1. /\ i \in 1 .. P + Keep /\ n # 1 /\ (i = P + 2 \/ i - (P + 1) \in 2 .. n)
          /\ P + 1 + (i - (P + 1)) = i
      BY <1>1, <1>2, <2>3
    <3>2. mask[i] = None
      BY <1>3, <3>1
    <3> QED BY <1>2, <1>6, <3>1, <3>2
  <2> QED BY <1>1, <1>2, <2>1, <2>2, <2>3
<1> QED BY <1>2, <1>6 DEF MaskNeverLags

(* A round after which the request goes on feeds the constrainer all that  *)
(* is committed, then the pending token.                                   *)
LEMMA PostFeeds ==
  ASSUME MaskInv, PostRound, phase' = "round", emitted' < Budget
  PROVE  LET em == SubSeq(outcome.em, 1, Keep)
             y == OnPending(OnIds(Scanned.x, em), pending')
         IN  tc' = y.tc /\ slot0' = y.slot0
<1> DEFINE em == SubSeq(outcome.em, 1, Keep)
           out == Deliverable(em)
           ends == Len(out) < Keep /\ Len(out) < Budget - emitted
           y == OnPending(OnIds(Scanned.x, SubSeq(out, 1, Len(out))), pending')
<1>1. ~ends /\ tc' = y.tc /\ slot0' = y.slot0
  <2>1. PICK k \in 0 .. Len(out), stop \in {"no", "client", "throw"} :
          LET fed == OnIds(Scanned.x, SubSeq(out, 1, k))
              over == ends \/ stop # "no"
              x == IF stop = "throw" THEN fed
                   ELSE IF over THEN Drop(fed) ELSE OnPending(fed, pending')
          IN /\ IF stop = "no" THEN k = Len(out) ELSE k >= 1
             /\ tc' = x.tc /\ pool' = x.pool /\ slot0' = x.slot0
             /\ phase' = IF over THEN "over" ELSE "round"
    BY Zenon DEF PostRound, Scanned, Keep
  <2> HIDE DEF out, ends
  <2>2. ~ends /\ stop = "no"
    BY <2>1
  <2>3. k = Len(out) /\ stop # "throw"
    BY <2>1, <2>2
  <2> QED BY <2>1, <2>2, <2>3, Zenon
<1>2. /\ emitted \in Nat /\ emitted < Budget /\ Budget \in Nat
      /\ IsSeq(outcome.em) /\ Len(outcome.em) = outcome.n /\ outcome.n \in Nat
  BY PostBegins
<1>3. Keep \in 1 .. outcome.n /\ Len(out) \in 0 .. Keep
  BY PostShape DEF MaskInv
<1>4. IsSeq(em) /\ Len(em) = Keep
  <2>1. Keep \in 0 .. Len(outcome.em)
    BY <1>2, <1>3
  <2> QED BY <1>2, <2>1, SubSeqFacts
<1>5. emitted' = emitted + Len(out)
  BY Zenon DEF PostRound, Scanned, Keep
<1> HIDE DEF em
<1>6. Len(out) = Len(em) /\ Len(em) < Budget - emitted
  BY <1>1, <1>2, <1>3, <1>4, <1>5
<1>7. out = em
  BY <1>2, <1>4, <1>6, DeliveredWhole
<1>8. SubSeq(out, 1, Len(out)) = em
  BY <1>4, <1>7, WholePrefix
<1> QED BY <1>1, <1>8 DEF em

LEMMA StaysOff ==
  ASSUME NEW d \in {Yes, No}, NEW g, NEW tl, NEW q, NEW t,
         d = No /\ tl = "m" => EndsInMarker(done'),
         LET y == OnPending(World(Tc(No, d, g, tl, 0), q, None), t)
         IN  tc' = y.tc /\ slot0' = y.slot0
  PROVE  Off'
<1> DEFINE x == World(Tc(No, d, g, tl, 0), q, None)
<1>1. x.tc.active = No /\ x.tc = Tc(No, d, g, tl, 0) /\ x.slot0 = None
  BY DEF World, Tc
<1> HIDE DEF x
<1>2. OnPending(x, t) = x
  BY <1>1, Zenon DEF OnPending, No
<1>3. tc' = Tc(No, d, g, tl, 0) /\ slot0' = None
  BY <1>1, <1>2 DEF x
<1> QED BY <1>3, Zenon DEF Off, EndsInMarker

LEMMA StaysOn ==
  ASSUME NEW d \in {Yes, No}, NEW g \in {"open", "body"}, NEW tl, NEW q, NEW z,
         phase' = "round", g = GrammarAfter(done'), Advance(g, pending') # Dead,
         LET y == OnPending(World(Tc(Yes, d, g, tl, 0), q, z), pending')
         IN  tc' = y.tc /\ slot0' = y.slot0
  PROVE  Off' \/ On'
<1> DEFINE y == OnPending(World(Tc(Yes, d, g, tl, 0), q, z), pending')
<1>1. PICK r : \/ y = World(Tc(Yes, d, g, tl, 0), r, Staged(g, pending'))
               \/ y = World(Tc(No, Yes, g, tl, 0), r, None)
  BY PendingOutcomes
<1>2. tc' = y.tc /\ slot0' = y.slot0
  OBVIOUS
<1> HIDE DEF y
<1>3. Due' = pending'
  BY DEF Due
<1>4. CASE y = World(Tc(Yes, d, g, tl, 0), r, Staged(g, pending'))
  <2>1. tc' = Tc(Yes, d, g, tl, 0) /\ slot0' = Staged(g, pending')
    BY <1>2, <1>4 DEF World
  <2>2. On'
    BY <1>3, <2>1, Zenon DEF On
  <2> QED BY <2>2
<1>5. CASE y = World(Tc(No, Yes, g, tl, 0), r, None)
  <2>1. tc' = Tc(No, Yes, g, tl, 0) /\ slot0' = None /\ Yes \in {Yes, No} /\ Yes # No
    BY <1>2, <1>5 DEF World, Yes, No
  <2>2. Off'
    BY <2>1, Zenon DEF Off
  <2> QED BY <2>2
<1> QED BY <1>1, <1>4, <1>5

LEMMA PostConstrainer ==
  ASSUME MaskInv, PostRound, phase' = "round", emitted' < Budget
  PROVE  Off' \/ On'
<1> DEFINE em == SubSeq(outcome.em, 1, Keep)
           P == Len(done)
           n == outcome.n
<1>1. /\ P \in Nat /\ n \in Nat /\ n >= 1 /\ IsSeq(done) /\ Due = outcome.em[1]
      /\ IsSeq(outcome.em) /\ Len(outcome.em) = n
  BY PostBegins
<1>2. /\ Keep \in 1 .. n /\ (~(Scanned.at > 0) => Keep = n)
      /\ IsSeq(done') /\ Len(done') = P + Keep
      /\ \A k \in 1 .. Keep : done'[P + k] = outcome.em[k]
  BY PostShape DEF MaskInv
<1>3. IsSeq(em) /\ Len(em) = Keep /\ em[1] = outcome.em[1]
  <2>1. Keep \in 0 .. Len(outcome.em) /\ 1 \in 1 .. Keep
    BY <1>1, <1>2
  <2> QED BY <1>1, <2>1, SubSeqFacts
<1>4. LET y == OnPending(OnIds(Scanned.x, em), pending')
      IN  tc' = y.tc /\ slot0' = y.slot0
  BY PostFeeds
<1>5. pending' = IF Scanned.at > 0 THEN Pick(raw[P + Keep + 1], Scanned.x.slot0) ELSE pending
  BY Zenon DEF PostRound, Scanned, Keep
<1> HIDE DEF em, P, n
<1>6. CASE On /\ Scanned.at = 0 /\ Scanned.x = World(tc, pool, slot0)
  <2>1. PICK d, g, tl :
          /\ d \in {Yes, No} /\ g \in {"open", "body"}
          /\ tc = Tc(Yes, d, g, tl, 0) /\ g = GrammarAfter(done)
          /\ Advance(g, Due) # Dead /\ slot0 = Staged(g, Due)
    BY <1>6, Zenon DEF On
  <2>2. Keep = n /\ pending' = pending
    BY <1>2, <1>5, <1>6
  <2> DEFINE h == Advance(g, em[1])
             x == World(Tc(Yes, d, g, tl, 0), pool, slot0)
  <2>3. h # Dead /\ slot0 = IF h = Closed THEN None ELSE h
    BY <1>1, <1>3, <2>1 DEF Staged
  <2>4. Scanned.x = x
    BY <1>6, <2>1
  <2>5. OnId(x, em[1]) = IF h = Closed THEN World(Tc(No, d, Closed, "w", 0), pool, None)
                         ELSE World(Tc(Yes, d, h, tl, 0), pool, slot0)
    BY <2>3, FirstFed
  <2>6. Len(em) \in Nat \ {0}
    BY <1>1, <1>2, <1>3
  <2> HIDE DEF x, h
  <2>7. CASE h = Closed
    <3> DEFINE z == World(Tc(No, d, Closed, "w", 0), pool, None)
    <3>1. Idle(z)
      <4>1. z.tc.active = No /\ z.tc.skip = 0
        BY DEF World, Tc
      <4> HIDE DEF z
      <4> QED BY <4>1, Zenon DEF Idle, No
    <3>2. OnId(x, em[1]) = z
      BY <2>5, <2>7
    <3> HIDE DEF z
    <3>3. OnIds(x, em) = z
      BY <2>6, <3>1, <3>2, FeedFirst
    <3>4. LET y == OnPending(World(Tc(No, d, Closed, "w", 0), pool, None), pending')
          IN  tc' = y.tc /\ slot0' = y.slot0
      BY <1>4, <2>4, <3>3 DEF z
    <3>5. Off'
      BY <2>1, <3>4, StaysOff
    <3> QED BY <3>5
  <2>8. CASE h # Closed
    <3>1. h = "body" /\ slot0 = h /\ h # None
      BY <2>3, <2>8, AdvanceValues DEF h, None
    <3>2. n = 1 /\ mask[P + 2] = h /\ pending = Pick(raw[P + 2], mask[P + 2])
      <4>1. phase = "post" /\ PostInv
        BY DEF PostRound, MaskInv, SpecInv
      <4>2. n = 1 /\ mask[P + 2] = h
        BY <3>1, <4>1 DEF MaskInv, ReadBack, P, n
      <4>3. P + n + 1 = P + 2
        BY <1>1, <4>2
      <4>4. pending = Pick(raw[P + n + 1], mask[P + n + 1])
        BY <4>1 DEF PostInv, P, n
      <4> QED BY <4>2, <4>3, <4>4
    <3>3. h \in {"open", "body"} /\ Advance(h, pending') # Dead
      BY <2>2, <3>1, <3>2, PickLegal
    <3>4. GrammarAfter(done') = h
      BY <1>1, <1>3, <2>1, <2>2, <2>3, <3>2, CallGrammar DEF h
    <3>5. OnIds(x, em) = World(Tc(Yes, d, h, tl, 0), pool, slot0)
      BY <1>3, <2>2, <2>5, <2>6, <2>8, <3>2, FeedFirst
    <3>6. LET y == OnPending(World(Tc(Yes, d, h, tl, 0), pool, slot0), pending')
          IN  tc' = y.tc /\ slot0' = y.slot0
      BY <1>4, <2>4, <3>5
    <3> QED BY <2>1, <3>3, <3>4, <3>6, StaysOn
  <2> QED BY <2>7, <2>8
<1>7. CASE Passed(Scanned, outcome.em[outcome.n])
  <2>1. PICK d, g, tl, q :
          /\ d \in {Yes, No} /\ Scanned.x = World(Tc(No, d, g, tl, 0), q, None)
          /\ d = Yes \/ tl = outcome.em[n]
    BY <1>7, Zenon DEF Passed, n
  <2> DEFINE x == World(Tc(No, d, g, tl, 0), q, None)
  <2>2. Idle(x)
    <3>1. x.tc.active = No /\ x.tc.skip = 0
      BY DEF World, Tc
    <3> HIDE DEF x
    <3> QED BY <3>1, Zenon DEF Idle, No
  <2>3. OnIds(x, em) = x
    <3>1. Len(em) \in Nat
      BY <1>1, <1>2, <1>3
    <3> HIDE DEF x
    <3> QED BY <2>2, <3>1, FeedIdle
  <2>4. LET y == OnPending(World(Tc(No, d, g, tl, 0), q, None), pending')
        IN  tc' = y.tc /\ slot0' = y.slot0
    BY <1>4, <2>1, <2>3
  <2>5. d = No /\ tl = "m" => EndsInMarker(done')
    <3> SUFFICES ASSUME d = No, tl = "m" PROVE EndsInMarker(done')
      OBVIOUS
    <3>1. outcome.em[n] = "m"
      BY <2>1 DEF Yes, No
    <3>2. Keep = n /\ n \in 1 .. n
      BY <1>1, <1>2, <1>7 DEF Passed
    <3>3. done'[Len(done')] = "m" /\ Len(done') # 0
      BY <1>1, <1>2, <3>1, <3>2
    <3>4. done' # <<>>
      BY <3>3, EmptyIsSeq
    <3> QED BY <3>3, <3>4 DEF EndsInMarker
  <2>6. Off'
    BY <2>1, <2>4, <2>5, StaysOff
  <2> QED BY <2>6
<1>8. CASE \E tl : Engaged(Scanned, outcome.em, tl) /\ (tl = "m" => EndsInMarker(done))
  <2>1. PICK tl : Engaged(Scanned, outcome.em, tl) /\ (tl = "m" => EndsInMarker(done))
    BY <1>8
  <2> DEFINE t == outcome.em[Keep]
             g == Entry(t)
  <2>2. Scanned.at > 0 /\ Keep = Scanned.at /\ GrammarAfter(done') = g
    BY <2>1, EngagedGrammar
  <2>3. t \in Marks /\ g # Dead
    BY <2>1, <2>2 DEF Engaged
  <2>4. PICK q : Scanned.x = World(Tc(Yes, No, g, t, Len(em)), q, g)
    BY <1>3, <2>1, <2>2, Zenon DEF Engaged
  <2>5. g \in {"open", "body"}
    BY <2>3, EntryValues
  <2> HIDE DEF g, t
  <2>6. OnIds(Scanned.x, em) = World(Tc(Yes, No, g, t, 0), q, g)
    <3>1. Len(em) \in Nat
      BY <1>1, <1>2, <1>3
    <3>2. OnIds(World(Tc(Yes, No, g, t, Len(em)), q, g), em) = World(Tc(Yes, No, g, t, 0), q, g)
      BY <3>1, FeedSkipped
    <3> QED BY <2>4, <3>2
  <2>7. Scanned.x.slot0 = g
    BY <2>4 DEF World
  <2>8. Advance(g, pending') # Dead
    BY <1>5, <2>2, <2>5, <2>7, PickLegal
  <2>9. LET y == OnPending(World(Tc(Yes, No, g, t, 0), q, g), pending')
        IN  tc' = y.tc /\ slot0' = y.slot0
    BY <1>4, <2>6
  <2>10. No \in {Yes, No}
    OBVIOUS
  <2> QED BY <2>2, <2>5, <2>8, <2>9, <2>10, StaysOn
<1> QED BY <1>6, <1>7, <1>8, ScannedCases

LEMMA MaskRounds ==
  ASSUME MaskInv, SuffixRound \/ GatedRound \/ ConstrainedRound
  PROVE  MaskInv'
<1>1. SpecInv' /\ phase = "round" /\ phase' = "post" /\ emitted < Budget /\ Verified
  BY RoundSteps DEF MaskInv
<1>2. /\ UNCHANGED <<done, emitted, tc, slot0>>
      /\ outcome'.em[1] = pending /\ (slot0 # None => outcome'.n = 1)
      /\ \A i \in 1 .. Len(done) + 1 : mask'[i] = mask[i]
      /\ \A k \in 1 .. outcome'.n : mask'[Len(done) + 1 + k] = IF k = 1 THEN slot0 ELSE None
  BY <1>1 DEF Verified
<1>3. Len(done) \in Nat /\ Len(mask) = Len(done) + 1 /\ outcome'.n \in Nat /\ outcome'.n >= 1
  <2>1. SeqTypes /\ RoundInv /\ PostInv'
    BY <1>1 DEF MaskInv, SpecInv
  <2>2. IsSeq(done) /\ Len(mask) = Len(done) + 1 /\ outcome'.n \in 1 .. SfxWidth
    BY <2>1 DEF SeqTypes, RoundInv, PostInv
  <2> QED BY <2>2, SeqFacts, SpecAssumption
<1>4. MaskNeverLags'
  <2> SUFFICES ASSUME NEW i \in 1 .. Len(mask'), mask'[i] # None, i <= Len(done) + 1
               PROVE  mask'[i] = GrammarAfter(SubSeq(done, 1, i - 1))
    BY <1>2 DEF MaskNeverLags
  <2>1. Len(mask') \in Nat
    BY <1>1, SeqFacts DEF SpecInv, SeqTypes
  <2>2. i \in 1 .. Len(done) + 1 /\ i \in 1 .. Len(mask)
    BY <1>3, <2>1
  <2>3. mask[i] # None => mask[i] = GrammarAfter(SubSeq(done, 1, i - 1))
    BY <2>2 DEF MaskInv, MaskNeverLags
  <2> QED BY <1>2, <2>2, <2>3
<1>5. Off \/ On
  BY <1>1 DEF MaskInv, ConstrainerInv
<1>6. Due = pending /\ Due' = pending
  BY <1>1, <1>2 DEF Due
<1>7. ConstrainerInv'
  <2>1. CASE Off
    <3>1. Off'
      BY <1>2, <2>1 DEF Off, EndsInMarker
    <3> QED BY <3>1 DEF ConstrainerInv
  <2>2. CASE On
    <3>1. PICK d, g, tl :
            /\ d \in {Yes, No} /\ g \in {"open", "body"}
            /\ tc = Tc(Yes, d, g, tl, 0) /\ g = GrammarAfter(done)
            /\ Advance(g, Due) # Dead /\ slot0 = Staged(g, Due)
      BY <2>2, Zenon DEF On
    <3>2. /\ tc' = Tc(Yes, d, g, tl, 0) /\ g = GrammarAfter(done')
          /\ Advance(g, Due') # Dead /\ slot0' = Staged(g, Due')
      BY <1>2, <1>6, <3>1
    <3>3. On'
      BY <3>1, <3>2, Zenon DEF On
    <3> QED BY <3>3 DEF ConstrainerInv
  <2> QED BY <1>5, <2>1, <2>2
<1>8. ReadBack'
  <2>1. 1 \in 1 .. outcome'.n /\ Len(done) + 1 + 1 = Len(done) + 2
        /\ \A k \in 2 .. outcome'.n : k \in 1 .. outcome'.n /\ k # 1
    BY <1>3
  <2>2. mask'[Len(done) + 2] = slot0
    BY <1>2, <2>1
  <2>3. \A k \in 2 .. outcome'.n : mask'[Len(done) + 1 + k] = None
    BY <1>2, <2>1
  <2> QED BY <1>2, <2>2, <2>3 DEF ReadBack
<1> QED BY <1>1, <1>4, <1>7, <1>8 DEF MaskInv

(* Before the first round of a request nothing is staged. *)
AtStartFree == AtStart /\ tc = Fresh /\ slot0 = None

LEMMA StartMasks == AtStartFree => MaskInv
<1> SUFFICES ASSUME AtStartFree PROVE MaskInv
  OBVIOUS
<1>1. SpecInv
  BY StartKeeps DEF AtStartFree
<1>2. PICK p : mask = <<None>> /\ done = <<>> /\ phase = "round"
  BY DEF AtStartFree, AtStart
<1>3. MaskNeverLags
  <2>1. Len(mask) = 1 /\ mask[1] = None
    BY <1>2
  <2>2. \A i \in 1 .. Len(mask) : mask[i] = None
    BY <2>1
  <2> QED BY <2>2 DEF MaskNeverLags
<1>4. Off
  <2>1. tc = Tc(No, No, None, "w", 0) /\ slot0 = None
    BY Zenon DEF AtStartFree, Fresh, Tc, No
  <2>2. No \in {Yes, No} /\ "w" # "m"
    OBVIOUS
  <2> QED BY <2>1, <2>2 DEF Off
<1> QED BY <1>1, <1>2, <1>3, <1>4 DEF MaskInv, ConstrainerInv, ReadBack

LEMMA MaskSteps == MaskInv /\ [SpecNext]_specVars => MaskInv'
<1> SUFFICES ASSUME MaskInv, [SpecNext]_specVars PROVE MaskInv'
  OBVIOUS
<1>1. CASE SuffixRound \/ GatedRound \/ ConstrainedRound
  BY <1>1, MaskRounds
<1>2. CASE PostRound
  <2>1. SpecInv'
    BY <1>2, PostStep DEF MaskInv
  <2>2. MaskNeverLags'
    BY <1>2, PostMasks
  <2>3. phase' # "post"
    BY <1>2 DEF PostRound
  <2>4. ConstrainerInv'
    <3> SUFFICES ASSUME phase' # "over", emitted' < Budget PROVE Off' \/ On'
      BY DEF ConstrainerInv
    <3>1. phase' = "round"
      BY <2>1, <2>3 DEF SpecInv, SeqTypes
    <3> QED BY <1>2, <3>1, PostConstrainer
  <2> QED BY <2>1, <2>2, <2>3, <2>4 DEF MaskInv, ReadBack
<1>3. CASE NextRequest
  <2>1. depth' \in DepthMin .. DepthMax /\ slot0' = None
    BY <1>3 DEF NextRequest, MaskInv, SpecInv, ClearStale
  <2>2. PICK p \in Starts : Prompted(p)
    BY <1>3 DEF NextRequest
  <2>3. AtStart'
    BY <2>1, <2>2 DEF Prompted, NoState, AtStart
  <2>4. tc' = Fresh
    BY <2>2 DEF Prompted
  <2>5. AtStartFree'
    BY <2>1, <2>3, <2>4 DEF AtStartFree, Fresh, None
  <2> QED BY <2>5, StartMasks, PTL
<1>4. CASE UNCHANGED specVars
  <2>1. SpecInv'
    BY <1>4, SpecSteps DEF MaskInv
  <2>2. MaskNeverLags' /\ ReadBack'
    BY <1>4 DEF specVars, MaskInv, MaskNeverLags, ReadBack
  <2>3. ConstrainerInv'
    BY <1>4 DEF specVars, MaskInv, ConstrainerInv, Off, On, Due, EndsInMarker
  <2> QED BY <2>1, <2>2, <2>3 DEF MaskInv
<1> QED BY <1>1, <1>2, <1>3, <1>4 DEF SpecNext

(* Whatever was decided under a mask was decided under the mask of the     *)
(* call as the tokens before it leave it: scan_round, on_id and on_pending *)
(* of toolconstrain.h under the one-round lag of slot 0, with any pool,    *)
(* truncated rounds, and requests that a throw unwound (generate_prefill). *)
THEOREM MasksNeverLag == RoundsSpec => []MaskNeverLags
<1>1. SpecInit => MaskInv
  <2> SUFFICES ASSUME SpecInit PROVE MaskInv
    OBVIOUS
  <2>1. depth \in DepthMin .. DepthMax
    BY SpecAssumption DEF SpecInit
  <2>2. AtStart
    BY <2>1, Zenon DEF SpecInit, AtStart
  <2>3. AtStartFree
    BY <2>2 DEF SpecInit, AtStartFree
  <2> QED BY <2>3, StartMasks
<1>2. MaskInv => MaskNeverLags
  BY DEF MaskInv
<1> QED BY <1>1, <1>2, MaskSteps, PTL DEF RoundsSpec
=============================================================================
