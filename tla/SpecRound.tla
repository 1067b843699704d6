----------------------------- MODULE SpecRound -----------------------------
(***************************************************************************)
(* Speculative greedy decoding on one CUDA engine, with constrained tool   *)
(* calls: spec_round, commit_outcome, refinish_round and post_round of     *)
(* engine.cuh, finish_round of spec3.cu, the echo drafter of               *)
(* suffixdraft.h, the depth ladder of depthctl.h and the constrainer of    *)
(* toolconstrain.h.                                                        *)
(*                                                                         *)
(* The model is an oracle: raw[i] is the token the unmasked argmax prefers *)
(* after the i - 1 tokens decided before it, chosen when it is first       *)
(* needed.  A verify lane whose input is not that path says whatever the   *)
(* next draft says, so that accepting it by mistake shows.  A recurrent    *)
(* state is the tokens it has read.  The opt-in split path of tool calls   *)
(* (Q27_TOOL_SPLIT) is left out.                                           *)
(*                                                                         *)
(* Tokens: "w" text, "m" the first and "k" the last piece of the           *)
(* <tool_call> marker, "j" and "z" last pieces that also carry a legal and *)
(* an illegal byte of the call, "b" a byte of the call, "c" the closer,    *)
(* "e" the end of the text.                                                *)
(***************************************************************************)
EXTENDS Integers, Sequences, FiniteSets

CONSTANTS
  After,          \* After[t]: the tokens the model may prefer after t
  WMax,           \* W_MAX, the number of role buffers
  DepthMin, DepthMax, \* k_min and k_max of the ladder; gate_maxd = DepthMax
  SfxWidth,       \* sfx_width()
  NG,             \* n-gram of the echo index
  SfxL,           \* sfx_L, the shortest match that fires
  PoolCap,        \* MASK_POOL_CAP
  Budget,         \* n_max
  MaxAnswers     \* bound: requests in a row

ASSUME SpecAssumption ==
  /\ {DepthMin, DepthMax, WMax, SfxWidth, NG, SfxL, PoolCap, Budget} \subseteq Nat
  /\ 1 <= DepthMin /\ DepthMin <= DepthMax
  /\ DepthMax < SfxWidth /\ SfxWidth <= WMax /\ 1 <= NG /\ NG <= SfxL

VARIABLES
  raw,       \* the oracle so far
  done,      \* tokens committed
  mask,      \* mask[i]: the grammar state token i was decided under, or None
  pending,   \* d_token, decided and not yet committed
  buf,       \* buf[ph]: the tokens the state in physical buffer ph has read
  perm,      \* role r lives in buffer (r + perm) % W_MAX
  rows,      \* rows[i]: the token row i of the attention cache belongs to
  slot0,     \* the grammar state of the mask staged in slot 0, or None
  sfxT,      \* stream of the echo drafter
  sfxValid,  \* sfx_valid
  depth,     \* dctl.cur
  outcome,   \* the round read back: [em, n, cap, sfx], or NoRound
  tc,        \* the constrainer: [active, dead, tg, tail, skip]
  pool,      \* grammar states with a mask in the device pool
  emitted,   \* tokens handed to the callback
  phase,     \* "round", "post" or "over"
  requests   \* requests so far

specVars == <<raw, done, mask, pending, buf, perm, rows, slot0, sfxT, sfxValid,
              depth, outcome, tc, pool, emitted, phase, requests>>

None == "none"
Dead == "dead"
Closed == "closed"
NoRound == [em |-> <<>>, n |-> 0, cap |-> -1, sfx |-> FALSE]
Fresh == [active |-> FALSE, dead |-> FALSE, tg |-> None, tail |-> "w", skip |-> 0]

Starts == {"w", "m"}     \* the first token of an answer

-----------------------------------------------------------------------------
(* The grammar of a call, and the argmax under its mask *)

(* advance: "open" wants a byte of the call, "body" also takes the closer. *)
Advance(g, t) ==
  CASE g \in {"open", "body"} /\ t = "b" -> "body"
    [] g = "body" /\ t = "c" -> Closed
    [] OTHER -> Dead

Marks == {"k", "j", "z"}            \* tokens in which a marker can complete
Entry(t) == CASE t = "k" -> "open" [] t = "j" -> "body" [] t = "z" -> Dead

(* argmax_masked *)
Pick(r, g) == IF g = None \/ Advance(g, r) # Dead THEN r ELSE "b"

-----------------------------------------------------------------------------
(* Drafting *)

(* propose_with: the longest earlier match of the stream and the pending   *)
(* token, the latest among equals, and the tokens that followed it.        *)
ProposeWith(k) ==
  LET s == Append(sfxT, pending)
      N == Len(s)
      MatchLen(p) ==
        LET Ok == {m \in 0 .. p : \A j \in 0 .. m - 1 : s[p - j] = s[N - j]}
        IN CHOOSE m \in Ok : \A o \in Ok : o <= m
      Ends == {p \in NG .. N - 1 : MatchLen(p) >= NG}
      Best == CHOOSE p \in Ends :
                \A q \in Ends : \/ MatchLen(q) < MatchLen(p)
                                \/ MatchLen(q) = MatchLen(p) /\ q <= p
      out[i \in 1 .. k] == IF Best + i <= N THEN s[Best + i] ELSE out[Best + i - N]
  IN IF Ends = {} THEN [len |-> 0, out |-> <<>>]
     ELSE [len |-> MatchLen(Best), out |-> [i \in 1 .. k |-> out[i]]]

SuffixFires == sfxValid /\ slot0 = None /\ ProposeWith(SfxWidth - 1).len >= SfxL

(* DepthCtl::update, its averages left open: a promotion needs a round     *)
(* that filled the ceiling, a demotion one that did not.                   *)
DepthUpdate(md, hit) ==
  {md} \cup (IF hit /\ md < DepthMax THEN {md + 1} ELSE {})
       \cup (IF ~hit /\ md > DepthMin THEN {md - 1} ELSE {})

-----------------------------------------------------------------------------
(* One verify of the pending token and the drafts d, width W *)

(* What lane t decides when it reads the path, and the lanes that do. *)
Decided(o, t) == Pick(o[t + 1], IF t = 0 THEN slot0 ELSE None)
OnPath(d, o, t) == \A u \in 1 .. t : d[u] = Decided(o, u - 1)

Verdict(d, o, t) ==
  IF OnPath(d, o, t) THEN Decided(o, t)
  ELSE IF t < Len(d) THEN d[t + 1] ELSE "w"

(* finish_round: the pending token, and the drafts up to the first the     *)
(* verdict before it disagrees with; under a constraint, no draft.         *)
AcceptCap == slot0 # None
Accepted(d, o) ==
  IF AcceptCap THEN 1
  ELSE 1 + Cardinality({k \in 1 .. Len(d) : \A u \in 1 .. k : d[u] = Verdict(d, o, u - 1)})

(* gdn_mix: lane t goes on from the state of lane t - 1 into role t. *)
Mixed(input) ==
  LET W == Len(input)
      home == buf[perm]
      At(t) == (t + perm) % WMax
  IN [ph \in 0 .. WMax - 1 |->
        IF \E t \in 0 .. W - 1 : At(t) = ph
          THEN home \o SubSeq(input, 1, 1 + CHOOSE t \in 0 .. W - 1 : At(t) = ph)
          ELSE buf[ph]]

(* attn_mix: lane t stores its row at P + 1 + t. *)
Stored(input) ==
  LET P == Len(done) IN
  [i \in 1 .. Len(rows) |->
     IF P < i /\ i <= P + Len(input) THEN input[i - P] ELSE rows[i]]

(* The roles turn so that the state of the last committed lane is role 0. *)
Rotate(n) == (perm + (n - 1)) % WMax

(* The oracle's preferences along the lanes of a round of width W. *)
Oracle(W) ==
  {o \in [1 .. W -> DOMAIN After] :
     \A w \in 1 .. W : o[w] \in After[IF w = 1 THEN pending ELSE o[w - 1]]}

VerifyRound(d, o, kind) ==
  LET n == Accepted(d, o)
      input == <<pending>> \o d
  IN /\ buf' = Mixed(input) /\ rows' = Stored(input)
     /\ perm' = Rotate(n)
     /\ outcome' = [em |-> SubSeq(input, 1, n), n |-> n, cap |-> kind.cap, sfx |-> kind.sfx]
     /\ pending' = Verdict(d, o, n - 1)
     /\ mask' = mask \o [k \in 1 .. n |-> IF k = 1 THEN slot0 ELSE None]
     /\ raw' = raw \o SubSeq(o, 1, n)
     /\ sfxValid' = TRUE /\ phase' = "post"
     /\ UNCHANGED <<done, slot0, sfxT, tc, pool, emitted, requests>>

(* Drafts that are right for k lanes and text from there on. *)
Drafts(w, o) == {[i \in 1 .. w |-> IF i <= k THEN o[i] ELSE "w"] : k \in 0 .. w}

Allowed == phase = "round" /\ emitted < Budget

(* The echo drafter has a match: its continuation is verified whole. *)
SuffixRound ==
  /\ Allowed /\ SuffixFires
  /\ \E o \in Oracle(SfxWidth) :
       /\ VerifyRound(ProposeWith(SfxWidth - 1).out, o, [cap |-> -1, sfx |-> TRUE])
       /\ depth' \in IF outcome'.n >= depth + 1 THEN DepthUpdate(depth, TRUE) ELSE {depth}

(* Drafts until the first weak margin, at most to the ceiling. *)
GatedRound ==
  /\ Allowed /\ ~SuffixFires /\ slot0 = None
  /\ \E cap \in 0 .. depth :
       LET W == IF cap + 1 < 2 THEN 2 ELSE cap + 1 IN
       \E o \in Oracle(W) : \E d \in Drafts(W - 1, o) :
         /\ VerifyRound(d, o, [cap |-> cap, sfx |-> FALSE])
         /\ depth' \in DepthUpdate(depth, outcome'.n >= depth + 1)

(* A constrained round takes the monolithic graph; nothing is accepted     *)
(* beyond the pending token, so its drafts do not matter.                  *)
ConstrainedRound ==
  /\ Allowed /\ slot0 # None
  /\ \E o \in Oracle(2) : VerifyRound(<<"w">>, o, [cap |-> -1, sfx |-> FALSE])
  /\ UNCHANGED depth

-----------------------------------------------------------------------------
(* The constrainer; c is its state, p the pool and s the staged mask *)

World(c, p, s) == [tc |-> c, pool |-> p, slot0 |-> s]

Drop(x) == IF x.tc.active THEN World([x.tc EXCEPT !.active = FALSE], x.pool, None) ELSE x

(* apply: the mask of g is in the pool, goes there, or the pool is full. *)
Apply(x, g) ==
  IF g \in x.pool \/ Cardinality(x.pool) < PoolCap
    THEN World(x.tc, x.pool \cup {g}, g)
    ELSE Drop([x EXCEPT !.tc.dead = TRUE])

(* A marker completes in token j of em. *)
Completes(x, em, j) ==
  em[j] \in Marks /\ (IF j = 1 THEN x.tc.tail ELSE em[j - 1]) = "m"

(* scan_round over em: the world after it, and where it engaged (0: never).*)
(* A marker whose remainder the grammar rejects is passed over.            *)
Scan(x, em) ==
  LET Ends == {j \in DOMAIN em : Completes(x, em, j)}
      Fit == {j \in Ends : Entry(em[j]) # Dead}
      at == CHOOSE j \in Fit : \A i \in Fit : j <= i
      g == Entry(em[at])
      entered == Apply([x EXCEPT !.tc.tail = em[at], !.tc.active = TRUE, !.tc.tg = g], g)
      passed == [x EXCEPT !.tc.tail = em[Len(em)]]
  IN IF Fit # {}
       THEN IF entered.tc.active THEN [x |-> [entered EXCEPT !.tc.skip = at], at |-> at]
            ELSE [x |-> entered, at |-> 0]
     ELSE IF Ends # {} THEN [x |-> World([passed.tc EXCEPT !.tg = Dead], x.pool, None), at |-> 0]
     ELSE [x |-> passed, at |-> 0]

ScanRound(x, em) ==
  IF x.tc.active \/ x.tc.dead THEN [x |-> x, at |-> 0] ELSE Scan(x, em)

(* on_id: the grammar follows a token that is emitted. *)
OnId(x, t) ==
  LET g == Advance(x.tc.tg, t) IN
  IF x.tc.skip > 0 THEN [x EXCEPT !.tc.skip = @ - 1]
  ELSE IF ~x.tc.active THEN x
  ELSE IF g = Dead THEN Drop([x EXCEPT !.tc.tg = Dead])
  ELSE IF g = Closed
    THEN World([x.tc EXCEPT !.active = FALSE, !.tg = Closed, !.tail = "w"], x.pool, None)
  ELSE [x EXCEPT !.tc.tg = g]

OnIds(x, em) ==
  LET fed[i \in 0 .. Len(em)] == IF i = 0 THEN x ELSE OnId(fed[i - 1], em[i])
  IN fed[Len(em)]

(* on_pending: slot 0 decides the token after the pending one. *)
OnPending(x, t) ==
  LET g == Advance(x.tc.tg, t) IN
  IF ~x.tc.active \/ g = Dead THEN x
  ELSE IF g = Closed THEN [x EXCEPT !.slot0 = None]
  ELSE Apply(x, g)

-----------------------------------------------------------------------------
(* post_round *)

(* Mutant: the roles stay where the round left them. *)
RefinishStays(m, n) == perm

(* refinish_round turns the roles back to the lane that is kept. *)
RefinishPerm(m, n) == (perm + (m - n) + WMax) % WMax

(* The tokens that reach the callback: the budget, then the end token. *)
Deliverable(em) ==
  LET room == Budget - emitted
      cut == IF Len(em) < room THEN em ELSE SubSeq(em, 1, room)
      Ends == {k \in 1 .. Len(cut) : cut[k] = "e"}
  IN IF Ends = {} THEN cut
     ELSE SubSeq(cut, 1, (CHOOSE k \in Ends : \A j \in Ends : k <= j) - 1)

PostRound ==
  LET em0 == outcome.em
      scan == ScanRound(World(tc, pool, slot0), em0)
      m == IF scan.at > 0 THEN scan.at ELSE outcome.n
      em == SubSeq(em0, 1, m)
      out == Deliverable(em)
      ends == Len(out) < m /\ Len(out) < Budget - emitted
  IN /\ phase = "post"
     /\ perm' = IF scan.at > 0 THEN RefinishPerm(m, outcome.n) ELSE perm
     /\ pending' = IF scan.at > 0 THEN Pick(raw[Len(done) + m + 1], scan.x.slot0) ELSE pending
     /\ mask' = IF scan.at > 0
                  THEN Append(SubSeq(mask, 1, Len(done) + m), scan.x.slot0) ELSE mask
     /\ done' = done \o em /\ sfxT' = sfxT \o em
     /\ emitted' = emitted + Len(out)
     /\ outcome' = NoRound
     /\ \E k \in 0 .. Len(out), stop \in {"no", "client", "throw"} :
          LET fed == OnIds(scan.x, SubSeq(out, 1, k))
              over == ends \/ stop # "no"
              x == IF stop = "throw" THEN fed      \* nobody runs tc.end()
                   ELSE IF over THEN Drop(fed) ELSE OnPending(fed, pending')
          IN /\ IF stop = "no" THEN k = Len(out) ELSE k >= 1
             /\ tc' = x.tc /\ pool' = x.pool /\ slot0' = x.slot0
             /\ phase' = IF over THEN "over" ELSE "round"
     /\ raw' = SubSeq(raw, 1, Len(done) + m + 1)
     /\ UNCHANGED <<buf, rows, sfxValid, depth, requests>>

-----------------------------------------------------------------------------
(* Requests *)

NoState == [ph \in 0 .. WMax - 1 |-> <<>>]
Prompted(p) ==
  /\ raw' = <<p>> /\ done' = <<>> /\ mask' = <<None>> /\ pending' = p
  /\ buf' = NoState /\ perm' = 0
  /\ rows' = [i \in 1 .. Budget + SfxWidth |-> "w"]
  /\ sfxT' = <<>> /\ sfxValid' = FALSE
  /\ outcome' = NoRound /\ tc' = Fresh /\ emitted' = 0 /\ phase' = "round"

(* Mutant: a constraint the last request left behind stays. *)
LeaveStale == slot0

(* generate_prefill clears a mask that an unwound request left staged. *)
ClearStale == None

NextRequest ==
  /\ \/ phase = "over"
     \/ phase = "round" /\ emitted >= Budget
  /\ requests < MaxAnswers /\ requests' = requests + 1
  /\ slot0' = ClearStale
  /\ \E p \in Starts : Prompted(p)
  /\ UNCHANGED <<pool, depth>>

SpecInit ==
  \E p \in Starts :
    /\ raw = <<p>> /\ done = <<>> /\ mask = <<None>> /\ pending = p
    /\ buf = NoState /\ perm = 0
    /\ rows = [i \in 1 .. Budget + SfxWidth |-> "w"]
    /\ slot0 = None /\ sfxT = <<>> /\ sfxValid = FALSE /\ depth = DepthMin
    /\ outcome = NoRound /\ tc = Fresh /\ pool = {} /\ emitted = 0
    /\ phase = "round" /\ requests = 1

SpecNext == SuffixRound \/ GatedRound \/ ConstrainedRound \/ PostRound \/ NextRequest

RoundsSpec == SpecInit /\ [][SpecNext]_specVars

-----------------------------------------------------------------------------
(* Properties *)

(* Speculation changes nothing: between rounds every committed token is    *)
(* the one greedy decoding takes under the mask in force, role 0 and the   *)
(* rows hold exactly the committed tokens, whatever was drafted, accepted, *)
(* truncated at a marker or decided again.                                 *)
SpecLossless ==
  phase = "round" =>
    /\ buf[perm] = done
    /\ \A i \in 1 .. Len(done) : rows[i] = done[i] /\ done[i] = Pick(raw[i], mask[i])
    /\ Len(mask) = Len(done) + 1
    /\ pending = Pick(raw[Len(done) + 1], mask[Len(done) + 1])

(* The grammar along a text, by the text alone: a call goes on, or a       *)
(* marker completes.                                                       *)
WalkOn(was, t) ==
  LET next == IF was.g \in {"open", "body"} THEN Advance(was.g, t) ELSE Dead
      entered == IF t \in Marks /\ was.prev = "m" THEN Entry(t) ELSE Dead
  IN [g |-> IF next # Dead THEN next ELSE entered,
      prev |-> IF next = Closed THEN "w" ELSE t]

Walk(s) ==
  LET at[i \in 0 .. Len(s)] ==
        IF i = 0 THEN [g |-> None, prev |-> "w"] ELSE WalkOn(at[i - 1], s[i])
  IN at[Len(s)]

GrammarAfter(s) == Walk(s).g

(* A mask is never behind or ahead: whatever was decided under one was     *)
(* decided under the mask of the call as the tokens before it leave it,    *)
(* through truncated rounds, a full pool and requests that unwound.        *)
MaskNeverLags ==
  \A i \in 1 .. Len(mask) :
    mask[i] # None /\ i <= Len(done) + 1 =>
      mask[i] = GrammarAfter(SubSeq(done, 1, i - 1))

(* toolconstrain.h: when a marker completes, "the first decision after the *)
(* marker -- and therefore every tool-name byte -- is made under the       *)
(* grammar mask" -- but for a full pool, which is sticky and announced.    *)
EveryCallMasked ==
  phase = "round" /\ ~tc.dead =>
    \A i \in 1 .. Len(done) + 1 :
      GrammarAfter(SubSeq(done, 1, i - 1)) \in {"open", "body"} =>
        mask[i] # None

=============================================================================
