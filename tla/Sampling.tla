------------------------------- MODULE Sampling -------------------------------
(***************************************************************************)
(* Sampling of the next token and the rejection walk of sampled            *)
(* speculation: sampling.h, and sample_next and mtp_sample_round of        *)
(* metal_engine.cpp, which choose between the whole row of logits and the  *)
(* candidates that the GPU's top-k kernel compacts.                        *)
(*                                                                         *)
(* A logit is a level; NegInf is a masked one.  The weight of a token,     *)
(* exp of its distance to the largest logit, is Weight[distance], and 0    *)
(* where exp underflows.  top_p is in hundredths.  A uniform draw from     *)
(* [0, total) is a number of half units, the odd ones of which have the    *)
(* same mass each and the even ones lie on a boundary between two tokens.  *)
(***************************************************************************)
EXTENDS Integers, Sequences, FiniteSets, FiniteSetsExt, SequencesExt

CONSTANTS
  Vocab,      \* token ids
  Levels,     \* finite logits
  Weight,     \* Weight[d], falling; Weight[0] > 0
  Coarse,     \* Coarse[l], what the kernel's 16-bit key keeps of a level
  TopKs,      \* top_k
  TopPs,      \* top_p
  Capacity,   \* TOPK_CAPACITY
  MaxLanes    \* bound: live

ASSUME SamplingAssumption ==
  /\ Vocab \subseteq Nat /\ Levels \subseteq Nat
  /\ TopPs \subseteq 1 .. 100 /\ TopKs \subseteq Nat
  /\ \A k \in Levels, l \in Levels : k <= l => Coarse[k] <= Coarse[l]
  /\ \A d \in DOMAIN Weight : d > 0 => Weight[d] <= Weight[d - 1]

VARIABLES
  ask,      \* [hot, k, p]: temperature > 0, top_k, top_p
  live,     \* lanes of this walk; 1 is a plain sample
  at,       \* lane reached
  row,      \* its logits
  draft,    \* its draft, or NoToken
  path,     \* "gpu" or "cpu": where the distributions come from
  result    \* [n, exclude, pending], or NoResult

sampleVars == <<ask, live, at, row, draft, path, result>>

NoToken == -1
NegInf == -1       \* below every level
NoResult == [n |-> 0, exclude |-> NoToken, pending |-> NoToken]
Rows == [Vocab -> Levels \cup {NegInf}]

-----------------------------------------------------------------------------
(* before: larger logits first, equal ones by index. *)
Ahead(r, a, b) == r[a] > r[b] \/ (r[a] = r[b] /\ a < b)
Ordered(r, S) == SetToSortSeq(S, LAMBDA a, b : Ahead(r, a, b))
ArgMax(r, S) == CHOOSE t \in S : \A u \in S \ {t} : Ahead(r, t, u)

Kept(r, S, a) ==
  LET o == Ordered(r, S) IN SubSeq(o, 1, IF a.k # 0 /\ a.k < Len(o) THEN a.k ELSE Len(o))

WeightOf(r, top, t) ==
  IF r[top] = NegInf \/ r[t] = NegInf THEN 0 ELSE Weight[r[top] - r[t]]

(* The sum of the first n weights. *)
Cumulative(w, n) == MapThenSumSet(LAMBDA i : w[i], 1 .. n)

(* How many tokens the nucleus keeps: the fewest that reach the cutoff,    *)
(* and every one that ties with the last of them.                          *)
Retained(r, o, w, p) ==
  LET total == Cumulative(w, Len(w))
      Enough == {n \in 1 .. Len(w) : n = Len(w) \/ Cumulative(w, n) * 100 >= total * p}
  IN Max({n \in 1 .. Len(w) : r[o[n]] = r[o[Min(Enough)]]})

(* build_served_distribution, build_served_from_candidates, and the        *)
(* nucleus of sample_logits_cpu and sample_candidates_cpu: the tokens in   *)
(* order with their weights, from the logits of the tokens in S.           *)
Served(r, S, a) ==
  LET o == Kept(r, S, a)
      w == [i \in 1 .. Len(o) |-> WeightOf(r, o[1], o[i])]
      n == IF a.p < 100 THEN Retained(r, o, w, a.p) ELSE Len(o)
  IN IF ~a.hot \/ a.k = 1 \/ Cumulative(w, Len(w)) = 0
       THEN [tokens |-> <<ArgMax(r, S)>>, weights |-> <<1>>]
       ELSE [tokens |-> SubSeq(o, 1, n), weights |-> SubSeq(w, 1, n)]

Mass(d) == Cumulative(d.weights, Len(d.weights))

(* served_probability, as a share of Mass *)
Share(d, t) == MapThenSumSet(LAMBDA i : d.weights[i], {i \in 1 .. Len(d.tokens) : d.tokens[i] = t})

(* sample_served: one draw over the tokens that are not excluded; the tail *)
(* takes what rounding leaves over.                                        *)
Excluding(d, x) ==
  LET left == SelectSeq([i \in 1 .. Len(d.tokens) |-> i], LAMBDA i : d.tokens[i] # x)
  IN [tokens |-> [i \in 1 .. Len(left) |-> d.tokens[left[i]]],
      weights |-> [i \in 1 .. Len(left) |-> d.weights[left[i]]]]

PickBy(d, draw) ==
  LET Hits == {i \in 1 .. Len(d.tokens) : draw <= 2 * Cumulative(d.weights, i)}
  IN d.tokens[IF Hits = {} THEN Len(d.tokens) ELSE Min(Hits)]

Draws(d) == 0 .. 2 * Mass(d) - 1
Empty(d) == Mass(d) = 0

-----------------------------------------------------------------------------
(* The top-k kernel: every token whose key reaches the largest key that    *)
(* at least k tokens reach.                                                *)
KeyOf(l) == IF l = NegInf THEN -1 ELSE Coarse[l]

OverSet(r, k) ==
  LET Reach(x) == {t \in Vocab : KeyOf(r[t]) >= x}
      Keys == {KeyOf(r[t]) : t \in Vocab}
      Enough == {x \in Keys : Cardinality(Reach(x)) >= k}
  IN IF Enough = {} THEN Vocab ELSE Reach(Max(Enough))

(* The candidates serve when top_k is in range and the kernel's count is,  *)
(* for every lane: else all of them are read back whole.                   *)
GpuMay(a) == a.hot /\ a.k >= 1
CountFits(r, a) ==
  a.k <= Cardinality(OverSet(r, a.k)) /\ Cardinality(OverSet(r, a.k)) <= Capacity

Support == IF path = "gpu" THEN OverSet(row, ask.k) ELSE Vocab
Here == Served(row, Support, ask)

-----------------------------------------------------------------------------
Asks == [hot : BOOLEAN, k : TopKs, p : TopPs]

SampleBegins(a, lanes, where) ==
  /\ ask = a /\ live = lanes /\ path = where
  /\ at = 0 /\ row = [t \in Vocab |-> NegInf] /\ draft = NoToken /\ result = NoResult

SampleInit ==
  \E a \in Asks :
    \E lanes \in (IF a.hot THEN 1 .. MaxLanes ELSE {1}) :
      \E where \in (IF GpuMay(a) THEN {"gpu", "cpu"} ELSE {"cpu"}) : SampleBegins(a, lanes, where)

(* The verify pass has left a row for every lane, and each lane but the    *)
(* last a draft to judge.                                                  *)
NextLane ==
  /\ at' = at + 1
  /\ row' \in {r \in Rows : path = "gpu" => CountFits(r, ask)}
  /\ draft' \in (IF at' < live THEN Vocab ELSE {NoToken})
  /\ UNCHANGED <<ask, live, path, result>>

BeginWalk == at = 0 /\ NextLane

(* u < p: the draft is taken. *)
AcceptDraft ==
  /\ at > 0 /\ draft # NoToken /\ result = NoResult
  /\ \E u \in 0 .. Mass(Here) - 1 : u < Share(Here, draft)
  /\ NextLane

(* Otherwise the walk stops at this lane and samples what is left.         *)
(* An empty rest is an exception.                                          *)
RejectDraft ==
  /\ at > 0 /\ draft # NoToken /\ result = NoResult
  /\ \E u \in 0 .. Mass(Here) - 1 : u >= Share(Here, draft)
  /\ IF Empty(Excluding(Here, draft))
       THEN result' = [n |-> at, exclude |-> draft, pending |-> NoToken]
       ELSE \E x \in Draws(Excluding(Here, draft)) :
              result' = [n |-> at, exclude |-> draft,
                         pending |-> PickBy(Excluding(Here, draft), x)]
  /\ UNCHANGED <<ask, live, at, row, draft, path>>

(* All taken: the last lane gives a token for free; also sample_next. *)
SampleFree ==
  /\ at = live /\ result = NoResult
  /\ \E x \in Draws(Here) :
       result' = [n |-> at, exclude |-> NoToken, pending |-> PickBy(Here, x)]
  /\ UNCHANGED <<ask, live, at, row, draft, path>>

SampleNext == BeginWalk \/ AcceptDraft \/ RejectDraft \/ SampleFree

SampleSpec == SampleInit /\ [][SampleNext]_sampleVars

-----------------------------------------------------------------------------
(* Properties *)

(* The candidates of the GPU give the distribution of the whole row, also  *)
(* when logits tie across the boundary of top_k: the same tokens in the    *)
(* same order with the same weights, hence the same token for every draw   *)
(* (sample_candidates_cpu beside sample_logits_cpu).                       *)
PathsAgree ==
  at > 0 => Here = Served(row, Vocab, ask)

(* What comes out of a lane has the distribution that is served, whatever  *)
(* the draft: summed over every draw, a draft that is taken and the rest   *)
(* sampled after one that is not come to each token's own share            *)
(* (spec_rejection_accept).                                                *)
WalkKeepsDistribution ==
  at > 0 /\ draft # NoToken =>
    LET d == Here
        rest == Excluding(d, draft)
        took == Share(d, draft)
        R == IF Empty(rest) THEN 1 ELSE Mass(rest)
        Hits(t) == IF Empty(rest) THEN 0
                   ELSE Cardinality({i \in 0 .. Mass(rest) - 1 : PickBy(rest, 2 * i + 1) = t})
    IN \A t \in Vocab :
         (IF t = draft THEN took * R ELSE 0) + (Mass(d) - took) * Hits(t) = Share(d, t) * R

(* A walk never throws for an empty rest, never gives back the draft it    *)
(* rejected, and gives only tokens that are served (sample_served).        *)
NeverTheRejected ==
  result # NoResult =>
    /\ result.pending # NoToken /\ result.pending # result.exclude
    /\ Share(Here, result.pending) > 0

DrawsExact == PathsAgree /\ WalkKeepsDistribution /\ NeverTheRejected
==============================================================================
