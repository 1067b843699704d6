----------------------------- MODULE FusedRound -----------------------------
(***************************************************************************)
(* What the conductor thread hands to the GPU in one fused round, and what *)
(* the GPU may do with it: draft_widths, trim_widths, fused_round,         *)
(* fused_verify_round and graph_round of conductor.h.                      *)
(*                                                                         *)
(* A stream runs its operations in order, and streams run side by side.  A *)
(* record counts, when it runs, towards its event; a wait holds its stream *)
(* until the event has counted the records issued before the wait was.     *)
(* The host issues everything up to its next synchronisation in one step:  *)
(* it learns nothing from the device in between.  Device memory is kept as *)
(* how far the work of which round has come, so that an operation that     *)
(* runs too early leaves junk behind, and junk stays junk.                 *)
(***************************************************************************)
EXTENDS Integers, Sequences, FiniteSets, SequencesExt

CONSTANTS
  Members,     \* Members: the engines of a round, in the order of the batch
  Layers,      \* N_LAYER
  Ceiling,     \* md_used, the drafting ceiling
  WideSfx,     \* sfx_width()
  UnionCap,    \* cap of trim_widths
  Roles,       \* W_MAX
  GraphCap,    \* gc_cap_
  MaxFused     \* bound: rounds

ASSUME FusedAssumption ==
  /\ {Layers, Ceiling, WideSfx, UnionCap, Roles, GraphCap, MaxFused} \subseteq Nat \ {0}
  /\ 2 <= WideSfx /\ Ceiling < WideSfx

VARIABLES
  queue,      \* operations issued and not yet run, per stream
  recorded,   \* records issued, per event
  fired,      \* records run, per event
  chain,      \* per engine: <<round, draft rows>> or <<round, Sfx>>
  margin,     \* per engine, on the host: the drafts whose margin is in
  lane,       \* per engine: <<round, layers done>> of the verify
  outc,       \* per engine, on the host: the outcome read back
  permDev, permPin, permHost, \* the rotation: on the device, pinned, on the host
  maskDev, maskHost,          \* the constraint: on the device, and as wanted
  host,       \* where the conductor thread is
  plan,       \* this round: kind and weak[m], want, granted, cap, launched
  graphs,     \* gcache_: keys, the least recently used first
  graphsOn,   \* graphs_on_
  round       \* rounds begun

fusedVars == <<queue, recorded, fired, chain, margin, lane, outc, permDev, permPin, permHost,
               maskDev, maskHost, host, plan, graphs, graphsOn, round>>
devVars == <<chain, margin, lane, outc, permDev, maskDev>>

Lanes == Range(Members)
Conductors == <<"c", 0>>
Own(m) == <<"own", m>>
Side(m) == <<"side", m>>
Streams == {Conductors} \cup {Own(m) : m \in Lanes} \cup {Side(m) : m \in Lanes}
Drafted(m) == <<"draft", m>>
Mix(m) == <<"mix", m>>
Fork == <<"fork", 0>>
Events == {Fork} \cup {Drafted(m) : m \in Lanes} \cup {Mix(m) : m \in Lanes}
Sfx == -1      \* in place of a count: staged by the echo drafter
Boot == -2     \* the first token is sampled
Junk == <<0, -3>>

-----------------------------------------------------------------------------
(* Issuing: a program is a sequence of <<stream, operation>> *)

Op(s, o) == <<s, o>>
Record(s, e) == <<s, [op |-> "record", e |-> e]>>
Wait(s, e) == <<s, [op |-> "wait", e |-> e]>>

(* cudaStreamWaitEvent takes the records issued at the time of the call. *)
Issued(d, i) ==
  LET s == i[1]  o == i[2] IN
  CASE o.op = "record" -> [q |-> [d.q EXCEPT ![s] = Append(@, o)],
                           rec |-> [d.rec EXCEPT ![o.e] = @ + 1]]
    [] o.op = "wait"   -> [d EXCEPT !.q[s] = Append(@, [op |-> "wait", e |-> o.e, n |-> d.rec[o.e]])]
    [] OTHER           -> [d EXCEPT !.q[s] = Append(@, o)]

Issue(prog) ==
  LET d == FoldLeft(Issued, [q |-> queue, rec |-> recorded], prog)
  IN queue' = d.q /\ recorded' = d.rec

EachOf(ms, P(_)) == FlattenSeq([i \in 1 .. Len(ms) |-> P(ms[i])])
Synced(s) == queue[s] = <<>>

-----------------------------------------------------------------------------
(* draft_widths *)

Gated == SelectSeq(Members, LAMBDA m : plan.kind[m] # "sfx")

(* suffix_propose, draft_sample_bootstrap: on the member's own stream. *)
Preamble(m, kind) ==
  CASE kind = "sfx"     -> <<Op(Own(m), [op |-> "sfx", m |-> m])>>
    [] kind = "sampled" -> <<Op(Own(m), [op |-> "boot", m |-> m])>>
    [] OTHER            -> <<>>

(* Mutant: the fused steps are not fenced behind the members' own work. *)
NoFence(act) == <<>>

(* The order fence: cstm comes after whatever a member's own stream holds. *)
Fence(act) ==
  IF Len(act) < 2 THEN <<>>
  ELSE EachOf(act, LAMBDA m : <<Record(Own(m), Drafted(m)), Wait(Conductors, Drafted(m))>>)

DraftBegin ==
  /\ host.pc = "idle" /\ round < MaxFused /\ round' = round + 1
  /\ \E kind \in [Lanes -> {"sfx", "gated", "sampled"}], weak \in [Lanes -> 0 .. Ceiling] :
       LET act == SelectSeq(Members, LAMBDA m : kind[m] # "sfx") IN
       /\ \A m \in Lanes : kind[m] = "sfx" => weak[m] = 0
       /\ plan' = [kind |-> kind, weak |-> weak,
                   want |-> [m \in Lanes |-> IF kind[m] = "sfx" THEN WideSfx ELSE 0],
                   cap |-> [m \in Lanes |-> IF kind[m] = "sfx" THEN -1 ELSE 0],
                   launched |-> [m \in Lanes |-> 0], granted |-> [m \in Lanes |-> 0]]
       /\ host' = [pc |-> "draft", act |-> act, step |-> 0]
       /\ Issue(EachOf(Members, LAMBDA m : Preamble(m, kind[m])) \o Fence(act))
  /\ UNCHANGED <<devVars, fired, permPin, permHost, maskHost, graphs, graphsOn>>

(* Two or more: one fused step on cstm.  One: its own graph on its stream. *)
DraftStream(act) == IF Len(act) >= 2 THEN Conductors ELSE Own(act[1])
DraftStep ==
  LET act == host.act  k == host.step  s == DraftStream(act) IN
  /\ host.pc = "draft" /\ act # <<>>
  /\ Issue(<<Op(s, [op |-> "step", ms |-> Range(act), k |-> k]),
             Op(s, [op |-> "margin", ms |-> Range(act)])>>)
  /\ host' = [host EXCEPT !.pc = "margins"]
  /\ UNCHANGED <<devVars, fired, permPin, permHost, maskHost, plan, graphs, graphsOn, round>>

Floor(cap) == IF cap + 1 < 2 THEN 2 ELSE cap + 1

(* draft_floor_topup: on the member's own stream. *)
TopUp(m, launched, W) ==
  [i \in 1 .. (IF W < Ceiling THEN W ELSE Ceiling) - launched |->
     Op(Own(m), [op |-> "step", ms |-> {m}, k |-> launched + i - 1])]

(* A member leaves at its first weak margin or at the ceiling. *)
Out(m, cap) == plan.weak[m] = host.step \/ cap = Ceiling

DraftMargins ==
  LET act == host.act
      cap(m) == IF plan.weak[m] = host.step THEN plan.cap[m] ELSE plan.cap[m] + 1
      gone == SelectSeq(act, LAMBDA m : Out(m, cap(m)))
      left == SelectSeq(act, LAMBDA m : ~Out(m, cap(m)))
      W(m) == Floor(cap(m))
  IN /\ host.pc = "margins" /\ Synced(DraftStream(act))
     /\ plan' = [plan EXCEPT
          !.cap = [m \in Lanes |-> IF m \in Range(act) THEN cap(m) ELSE @[m]],
          !.launched = [m \in Lanes |-> IF m \in Range(act) THEN @[m] + 1 ELSE @[m]],
          !.want = [m \in Lanes |-> IF m \in Range(gone) THEN W(m) ELSE @[m]]]
     /\ Issue(EachOf(gone, LAMBDA m : TopUp(m, plan.launched[m] + 1, W(m))))
     /\ host' = [pc |-> "draft", act |-> left, step |-> host.step + 1]
     /\ UNCHANGED <<devVars, fired, permPin, permHost, maskHost, graphs, graphsOn, round>>

-----------------------------------------------------------------------------
(* trim_widths *)

Total(w) == FoldLeft(LAMBDA a, m : a + w[m], 0, Members)
Seat(m) == CHOOSE i \in 1 .. Len(Members) : Members[i] = m

(* The victim: the widest; a suffix before a gated one; then the later. *)
Beats(w, m, o) ==
  \/ w[m] > w[o]
  \/ w[m] = w[o] /\ plan.kind[m] = "sfx" /\ plan.kind[o] # "sfx"
  \/ w[m] = w[o] /\ (plan.kind[m] = "sfx" <=> plan.kind[o] = "sfx") /\ Seat(m) >= Seat(o)

Trim(want) ==
  LET cut[n \in 0 .. Total(want)] ==
        IF n = 0 THEN want
        ELSE LET w == cut[n - 1]
                 Can == {m \in Lanes : w[m] > 2}
             IN IF Total(w) <= UnionCap \/ Can = {} THEN w
                ELSE [w EXCEPT ![CHOOSE m \in Can : \A o \in Can : Beats(w, m, o)] = @ - 1]
  IN cut[Total(want)]

-----------------------------------------------------------------------------
(* fused_verify_round *)

Join == EachOf(Members, LAMBDA m : <<Wait(Conductors, Mix(m))>>)

MixAll(l) ==
  <<Record(Conductors, Fork)>>
  \o EachOf(Members, LAMBDA m : <<Wait(Side(m), Fork),
                                  Op(Side(m), [op |-> "mix", m |-> m, l |-> l]),
                                  Record(Side(m), Mix(m))>>)
  \o Join

VerifyBody ==
  FlattenSeq([l \in 1 .. Layers |->
    <<Op(Conductors, [op |-> "pre", l |-> l])>> \o MixAll(l)
      \o <<Op(Conductors, [op |-> "post", l |-> l])>>])
  \o EachOf(Members, LAMBDA m : <<Op(Conductors, [op |-> "tail", m |-> m])>>)

(* fused_round up to its one synchronisation *)
DraftsDone == EachOf(Members, LAMBDA m : <<Record(Own(m), Drafted(m))>>)
StagePerm == EachOf(Members, LAMBDA m : <<Op(Conductors, [op |-> "perm", m |-> m])>>)

AwaitDrafts == EachOf(Members, LAMBDA m : <<Wait(Conductors, Drafted(m))>>)
Outcomes == EachOf(Members, LAMBDA m : <<Op(Conductors, [op |-> "outcome", m |-> m])>>)

(* graph_round: GraphKey, gc_find, gc_guard_ok *)
GraphKey(granted) == [eng |-> Members, gw |-> granted, kind |-> plan.kind]
Cached(k) == \E i \in DOMAIN graphs : graphs[i] = k

(* The hit guard: the pinned rotation is this round's. *)
GuardOk(pin) == \A m \in Lanes : pin[m] = permHost[m]

Touch(k) == Append(SelectSeq(graphs, LAMBDA g : g # k), k)

(* The cache before a capture: the least recently used are gone. *)
Evicted ==
  IF Len(graphs) < GraphCap THEN graphs
  ELSE SubSeq(graphs, Len(graphs) - GraphCap + 2, Len(graphs))

Launch(k) == <<Op(Conductors, [op |-> "exec", key |-> k])>>

(* The ways the round can be put on the stream: how, and the cache after. *)
Plain == [prog |-> AwaitDrafts \o VerifyBody, cache |-> graphs, on |-> graphsOn]

Replay(k) == [prog |-> AwaitDrafts \o Launch(k), cache |-> Touch(k), on |-> TRUE]

GuardTrip(k) ==
  [prog |-> AwaitDrafts \o StagePerm \o VerifyBody,
   cache |-> SelectSeq(graphs, LAMBDA g : g # k), on |-> TRUE]

(* Instantiation may run out of memory n times before it fits. *)
Captured(k, n) ==
  [prog |-> AwaitDrafts \o Launch(k),
   cache |-> Append(SubSeq(Evicted, n + 1, Len(Evicted)), k), on |-> TRUE]

GraphsOff == [prog |-> AwaitDrafts \o StagePerm \o VerifyBody, cache |-> <<>>, on |-> FALSE]

GraphRound(granted, pin) ==
  LET k == GraphKey(granted) IN
  IF Cached(k) THEN {IF GuardOk(pin) THEN Replay(k) ELSE GuardTrip(k)}
  ELSE {Captured(k, n) : n \in 0 .. Len(Evicted)} \cup {GraphsOff}

Ways(granted, pin) == IF graphsOn THEN GraphRound(granted, pin) ELSE {Plain}

(* stage_perm_async writes the pinned value when it is called. *)
Pinned == [m \in Lanes |-> permHost[m]]

FusedVerify ==
  LET granted == Trim(plan.want) IN
  /\ host.pc = "draft" /\ host.act = <<>>
  /\ permPin' = Pinned
  /\ \E w \in Ways(granted, Pinned) :
       /\ Issue(DraftsDone \o StagePerm \o w.prog \o Outcomes)
       /\ graphs' = w.cache /\ graphsOn' = w.on
  /\ plan' = [plan EXCEPT !.granted = granted]
  /\ host' = [host EXCEPT !.pc = "sync"]
  /\ UNCHANGED <<devVars, fired, permHost, maskHost, round>>

(* After the synchronisation each member commits and does its post_round:  *)
(* some turn their roles and stage a constraint on their own stream.       *)
FusedCommit ==
  /\ host.pc = "sync" /\ Synced(Conductors)
  /\ \E turned \in SUBSET Lanes :
       /\ permHost' = [m \in Lanes |-> IF m \in turned THEN (permHost[m] + 1) % Roles
                                     ELSE permHost[m]]
       /\ maskHost' = [m \in Lanes |-> IF m \in turned THEN 1 - maskHost[m] ELSE maskHost[m]]
       /\ Issue(EachOf(SelectSeq(Members, LAMBDA m : m \in turned),
                       LAMBDA m : <<Op(Own(m), [op |-> "mask", m |-> m, v |-> 1 - maskHost[m]])>>))
  /\ host' = [pc |-> "idle", act |-> <<>>, step |-> 0]
  /\ UNCHANGED <<devVars, fired, permPin, plan, graphs, graphsOn, round>>

-----------------------------------------------------------------------------
(* The device *)

(* A step extends the chain of this round; the first one prepares it. *)
StepOn(m, k) ==
  CASE k = 0 /\ (plan.kind[m] = "sampled" => chain[m] = <<round, Boot>>) -> <<round, 1>>
    [] k > 0 /\ chain[m] = <<round, k>> -> <<round, k + 1>>
    [] OTHER -> Junk

(* The drafts a verify of this width walks are there. *)
Ready(m, w) ==
  IF plan.kind[m] = "sfx" THEN chain[m] = <<round, Sfx>>
  ELSE \E n \in w - 1 .. Ceiling : chain[m] = <<round, n>>

LaneStep(m, from, to, ok) ==
  IF ok /\ (from = 0 \/ lane[m] = <<round, from>>) THEN <<round, to>> ELSE Junk

LastStage == 3 * Layers + 1
TailOk(m) == maskDev[m] = maskHost[m]
MixOk(m) == permDev[m] = permHost[m]

OnLanes(ms, F(_)) == lane' = [m \in Lanes |-> IF m \in ms THEN F(m) ELSE lane[m]]

Effect(o) ==
  CASE o.op = "sfx"  -> chain' = [chain EXCEPT ![o.m] = <<round, Sfx>>]
                        /\ UNCHANGED <<margin, lane, outc, permDev, maskDev>>
    [] o.op = "boot" -> chain' = [chain EXCEPT ![o.m] = <<round, Boot>>]
                        /\ UNCHANGED <<margin, lane, outc, permDev, maskDev>>
    [] o.op = "step" -> chain' = [m \in Lanes |-> IF m \in o.ms THEN StepOn(m, o.k) ELSE chain[m]]
                        /\ UNCHANGED <<margin, lane, outc, permDev, maskDev>>
    [] o.op = "margin" -> margin' = [m \in Lanes |-> IF m \in o.ms THEN chain[m] ELSE margin[m]]
                          /\ UNCHANGED <<chain, lane, outc, permDev, maskDev>>
    [] o.op = "mask" -> maskDev' = [maskDev EXCEPT ![o.m] = o.v]
                        /\ UNCHANGED <<chain, margin, lane, outc, permDev>>
    [] o.op = "perm" -> permDev' = [permDev EXCEPT ![o.m] = permPin[o.m]]
                        /\ UNCHANGED <<chain, margin, lane, outc, maskDev>>
    [] o.op = "pre"  -> OnLanes(Lanes, LAMBDA m :
                          LaneStep(m, 3 * (o.l - 1), 3 * o.l - 2,
                                   o.l > 1 \/ Ready(m, plan.granted[m])))
                        /\ UNCHANGED <<chain, margin, outc, permDev, maskDev>>
    [] o.op = "mix"  -> OnLanes({o.m}, LAMBDA m : LaneStep(m, 3 * o.l - 2, 3 * o.l - 1, MixOk(m)))
                        /\ UNCHANGED <<chain, margin, outc, permDev, maskDev>>
    [] o.op = "post" -> OnLanes(Lanes, LAMBDA m : LaneStep(m, 3 * o.l - 1, 3 * o.l, TRUE))
                        /\ UNCHANGED <<chain, margin, outc, permDev, maskDev>>
    [] o.op = "tail" -> OnLanes({o.m}, LAMBDA m : LaneStep(m, 3 * Layers, LastStage, TailOk(m)))
                        /\ UNCHANGED <<chain, margin, outc, permDev, maskDev>>
    [] o.op = "exec" -> OnLanes(Lanes, LAMBDA m :
                          LaneStep(m, 0, LastStage,
                                   o.key = GraphKey(plan.granted) /\ Ready(m, plan.granted[m])
                                   /\ MixOk(m) /\ TailOk(m)))
                        /\ UNCHANGED <<chain, margin, outc, permDev, maskDev>>
    [] o.op = "outcome" -> outc' = [outc EXCEPT ![o.m] = lane[o.m]]
                           /\ UNCHANGED <<chain, margin, lane, permDev, maskDev>>

DeviceRun(s) ==
  /\ queue[s] # <<>>
  /\ LET o == Head(queue[s]) IN
     /\ queue' = [queue EXCEPT ![s] = Tail(@)]
     /\ CASE o.op = "record" -> fired' = [fired EXCEPT ![o.e] = @ + 1] /\ UNCHANGED devVars
          [] o.op = "wait"   -> fired[o.e] >= o.n /\ UNCHANGED <<fired, devVars>>
          [] OTHER           -> Effect(o) /\ UNCHANGED fired
  /\ UNCHANGED <<recorded, permPin, permHost, maskHost, host, plan, graphs, graphsOn, round>>

-----------------------------------------------------------------------------
FusedInit ==
  /\ queue = [s \in Streams |-> <<>>]
  /\ recorded = [e \in Events |-> 0] /\ fired = [e \in Events |-> 0]
  /\ chain = [m \in Lanes |-> Junk] /\ margin = [m \in Lanes |-> Junk]
  /\ lane = [m \in Lanes |-> Junk] /\ outc = [m \in Lanes |-> Junk]
  /\ permDev = [m \in Lanes |-> 0] /\ permPin = [m \in Lanes |-> 0]
  /\ permHost = [m \in Lanes |-> 0]
  /\ maskDev = [m \in Lanes |-> 0] /\ maskHost = [m \in Lanes |-> 0]
  /\ host = [pc |-> "idle", act |-> <<>>, step |-> 0]
  /\ plan = [kind |-> [m \in Lanes |-> "gated"], weak |-> [m \in Lanes |-> 0],
             want |-> [m \in Lanes |-> 0], cap |-> [m \in Lanes |-> 0],
             launched |-> [m \in Lanes |-> 0], granted |-> [m \in Lanes |-> 0]]
  /\ graphs = <<>> /\ graphsOn \in BOOLEAN /\ round = 0

FusedNext ==
  \/ DraftBegin \/ DraftStep \/ DraftMargins \/ FusedVerify \/ FusedCommit
  \/ \E s \in Streams : DeviceRun(s)

-----------------------------------------------------------------------------
(* Properties *)

(* The host never reads ahead of the device: the margins it decides by are *)
(* those of the step it launched, and the outcome it commits is that of    *)
(* this round's drafts, rotation and constraint through every layer,       *)
(* whichever streams ran first and whether the round was launched eagerly, *)
(* replayed or captured.                                                   *)
HostReadsThisRound ==
  /\ host.pc = "margins" /\ Synced(DraftStream(host.act)) =>
       \A m \in Range(host.act) : margin[m] = <<round, host.step + 1>>
  /\ host.pc = "sync" /\ Synced(Conductors) =>
       \A m \in Lanes : outc[m] = <<round, LastStage>>

(* What draft_and_gate does alone. *)
Serial(weak) ==
  LET cap == IF weak < Ceiling THEN weak ELSE Ceiling IN
  [cap |-> cap, launched |-> IF cap < Ceiling THEN cap + 1 ELSE Ceiling, want |-> Floor(cap)]

(* Interleaving the members' drafts changes none of their widths, and the  *)
(* trim brings the sum under the cap, cutting only lanes that were the     *)
(* widest, suffix lanes first, never below two and no more than it must.   *)
WidthsAsSerial ==
  host.pc = "sync" =>
    LET w == plan.want  g == plan.granted IN
    /\ \A m \in Range(Gated) :
         Serial(plan.weak[m]) = [cap |-> plan.cap[m], launched |-> plan.launched[m], want |-> w[m]]
    /\ Total(w) <= UnionCap => g = w
    /\ Total(w) > UnionCap => Total(g) = UnionCap \/ \A m \in Lanes : g[m] <= 2 /\ Total(g) >= UnionCap
    /\ \A m \in Lanes : g[m] < w[m] =>
         /\ g[m] >= 2
         /\ \A o \in Lanes : g[o] <= g[m] + 1
         /\ plan.kind[m] # "sfx" => \A o \in Lanes : plan.kind[o] = "sfx" => g[o] <= g[m]

=============================================================================
