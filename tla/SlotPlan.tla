------------------------------ MODULE SlotPlan ------------------------------
(***************************************************************************)
(* How the Metal server decides, while it boots, how large a context each  *)
(* slot gets and how many slots it serves: Runtime's constructor in        *)
(* metal_server.cpp and the KV reservation every MetalEngine takes on the  *)
(* mapping it shares with the others.                                      *)
(*                                                                         *)
(* Sizes are in one scaled unit (memory) and one scaled token (context),   *)
(* so that the block rounding of the attention partials, which makes the   *)
(* charge not quite linear in the context, stays visible.                  *)
(***************************************************************************)
EXTENDS Naturals, Sequences, FiniteSetsExt

CONSTANTS
    WorkingSets,   \* recommended_working_set_size() of the devices
    UsedSizes,     \* artifact bytes + current_allocated_size()
    Overrides,     \* --budget-mb / Q27_METAL_BUDGET_MB; 0: not given
    Windows,       \* --ctx; 0: auto
    MaxSlots,      \* --slots is 1..MaxSlots
    Entries,       \* --prefix-entries
    Giga,          \* 1 GB: the activation reserve; the overcommit is three
    KvPerTok, PartialPerBlock, GqaBlock, SnapPerTok, SnapFixed,
    BaseState, ChunkState,
    Probe1, Probe2, Floor, Cap, MinMargin, MarginShare

ASSUME PlanAssumption ==
    /\ \A n \in {Giga, KvPerTok, PartialPerBlock, GqaBlock, SnapPerTok, Probe1,
                 MinMargin, MarginShare, MaxSlots} : n \in Nat \ {0}
    /\ {SnapFixed, BaseState, ChunkState} \subseteq Nat
    /\ Probe1 < Probe2 /\ Probe2 <= Floor /\ Floor <= Cap

VARIABLES
    host,       \* the device and the command line
    stage,      \* where the constructor is
    kv_budget,  \* the admission budget, lowered by --ctx auto
    probed,     \* the charges of the probes so far
    plan,       \* [ctx, split, fell]: the window, what it was sized for
    engines,    \* the contexts of the live engines, by slot (0: a probe)
    cache_bytes,\* Shared::cache_bytes
    unlucky     \* a device allocation has failed

planVars == <<host, stage, kv_budget, probed, plan, engines, cache_bytes, unlucky>>

-----------------------------------------------------------------------------
(* What an engine charges.                                                 *)

\* Every started block of the context has its own partials, one row per
\* query token the device can attend in one dispatch.
gqa_partial_peak(c, chunked) ==
    PartialPerBlock * (1 + (c - 1) \div GqaBlock) * (IF chunked THEN 2 ELSE 1)

kv_reserved_bytes(c) == KvPerTok * c + gqa_partial_peak(c, host.chunked)

snapshot_bytes(c) == SnapPerTok * c + SnapFixed

fixed_state_bytes(chunked) == BaseState + (IF chunked THEN ChunkState ELSE 0)

PerSlot(c) ==
    kv_reserved_bytes(c) + fixed_state_bytes(host.chunked)
        + host.entries * snapshot_bytes(c)

\* The engine's own check: the caches of all engines on the mapping, the new
\* one included, against half the working set.
Admits(c) == cache_bytes + kv_reserved_bytes(c) <= host.recommended \div 2

\* A constructor that completes keeps its reservation (committed).
Built(s, c) ==
    /\ Admits(c)
    /\ cache_bytes' = cache_bytes + kv_reserved_bytes(c)
    /\ engines' = [t \in DOMAIN engines \union {s} |->
                       IF t = s THEN c ELSE engines[t]]

\* ReservationGuard: what the throwing constructor had reserved is given
\* back before the exception leaves it.
RolledBack(c) == cache_bytes

\* A constructor that throws: at its check, or at an allocation behind it.
Threw(c) ==
    /\ engines' = engines
    /\ \/ ~Admits(c) /\ UNCHANGED <<cache_bytes, unlucky>>
       \/ Admits(c) /\ unlucky' = TRUE /\ cache_bytes' = RolledBack(c)

\* ~MetalEngine returns the reservation to the mapping.
Released(s) ==
    /\ cache_bytes' = cache_bytes - kv_reserved_bytes(engines[s])
    /\ engines' = [t \in DOMAIN engines \ {s} |-> engines[t]]

-----------------------------------------------------------------------------
(* The budget.                                                             *)

PolicyBudget ==
    IF host.override # 0 THEN host.override ELSE host.recommended \div 2

Monus(a, b) == IF a > b THEN a - b ELSE 0

\* What --ctx auto may spend: the policy ceiling or the measured free
\* envelope with its overcommit, less the reserve.
AutoBudget ==
    LET envelope == Monus(host.recommended, host.used) + 3 * Giga
    IN Monus(Min({PolicyBudget, envelope}), Giga)

Boot ==
    /\ stage = "start"
    /\ stage' = IF host.window = 0 THEN "probe1" ELSE "slot0"
    /\ kv_budget' = IF host.window = 0 THEN AutoBudget ELSE PolicyBudget
    /\ plan' = [plan EXCEPT !.ctx = host.window, !.split = host.slots]
    /\ UNCHANGED <<host, probed, engines, cache_bytes, unlucky>>

-----------------------------------------------------------------------------
(* --ctx auto: two throw-away engines price the charge, the rest solves.   *)

\* A probe lives for one block of the constructor: its charge is read, and
\* its destructor runs before the next one is built.
Probe(at, c, next) ==
    /\ stage = at
    /\ \/ /\ Built(0, c)
          /\ probed' = Append(probed, PerSlot(c))
          /\ stage' = next
          /\ UNCHANGED unlucky
       \/ Threw(c) /\ stage' = "dead" /\ UNCHANGED probed
    /\ UNCHANGED <<host, kv_budget, plan>>

ProbeEnds(at, next) ==
    /\ stage = at
    /\ Released(0)
    /\ stage' = next
    /\ UNCHANGED <<host, kv_budget, probed, plan, unlucky>>

NoMargin(share) == 0
Margin(share) == Max({MinMargin, share \div MarginShare})

ShareOf(n) == kv_budget \div n

\* The context that n slots could have each: the line through the two
\* probes, evaluated at the slot's share less the safety margin.
Solved(n) ==
    LET rise == probed[2] - probed[1]
        run == Probe2 - Probe1
        intercept == probed[1] - (rise * Probe1) \div run
        usable == Monus(ShareOf(n), Margin(ShareOf(n)))
    IN (Monus(usable, intercept) * run) \div rise

\* The most slots, at most the requested number, that hold the floor each.
SplitOf == Max({1} \union {n \in 1..host.slots : Solved(n) >= Floor})

Solve ==
    /\ stage = "solve"
    /\ plan' = [ctx |-> Min({Cap, Max({Floor, Solved(SplitOf)})}),
                split |-> SplitOf,
                fell |-> Solved(SplitOf) < Floor]
    /\ stage' = "slot0"
    /\ UNCHANGED <<host, kv_budget, probed, engines, cache_bytes, unlucky>>

-----------------------------------------------------------------------------
(* The slots.                                                              *)

\* The first slot is built whatever the budget says; if it throws, the
\* server does not start.
SlotZero ==
    /\ stage = "slot0"
    /\ \/ Built(1, plan.ctx) /\ stage' = "admit" /\ UNCHANGED unlucky
       \/ Threw(plan.ctx) /\ stage' = "dead"
    /\ UNCHANGED <<host, kv_budget, probed, plan>>

SlotsUp == Cardinality(DOMAIN engines)

\* Each further slot needs the whole per-slot charge of all of them to fit;
\* one that does not, or whose engine throws, ends the loop.
AdmitSlot ==
    /\ stage = "admit" /\ SlotsUp < host.slots
    /\ \/ /\ (SlotsUp + 1) * PerSlot(plan.ctx) > kv_budget
          /\ stage' = "serving"
          /\ UNCHANGED <<engines, cache_bytes, unlucky>>
       \/ /\ (SlotsUp + 1) * PerSlot(plan.ctx) <= kv_budget
          /\ \/ Built(SlotsUp + 1, plan.ctx) /\ UNCHANGED <<stage, unlucky>>
             \/ Threw(plan.ctx) /\ stage' = "serving"
    /\ UNCHANGED <<host, kv_budget, probed, plan>>

SlotsDone ==
    /\ stage = "admit" /\ SlotsUp = host.slots
    /\ stage' = "serving"
    /\ UNCHANGED <<host, kv_budget, probed, plan, engines, cache_bytes, unlucky>>

-----------------------------------------------------------------------------
Hosts == [recommended : WorkingSets, used : UsedSizes, override : Overrides,
          window : Windows, slots : 1..MaxSlots, entries : Entries,
          chunked : BOOLEAN]

PlanBegins(h) ==
    /\ host = h /\ stage = "start" /\ kv_budget = 0 /\ probed = <<>>
    /\ plan = [ctx |-> 0, split |-> 0, fell |-> FALSE]
    /\ engines = <<>> /\ cache_bytes = 0 /\ unlucky = FALSE

PlanInit == \E h \in Hosts : PlanBegins(h)

PlanNext ==
    \/ Boot
    \/ Probe("probe1", Probe1, "probed1") \/ ProbeEnds("probed1", "probe2")
    \/ Probe("probe2", Probe2, "probed2") \/ ProbeEnds("probed2", "solve")
    \/ Solve \/ SlotZero \/ AdmitSlot \/ SlotsDone

-----------------------------------------------------------------------------
(* What holds.                                                             *)

\* The mapping's account is what the live engines hold, through probes that
\* come and go and constructors that throw half-way, and it never passes
\* half the working set: a stranded reservation would refuse a later engine
\* that fits (MetalEngine's constructor and destructor).
ReservationExact ==
    /\ cache_bytes = MapThenSumSet(LAMBDA s : kv_reserved_bytes(engines[s]),
                                   DOMAIN engines)
    /\ cache_bytes <= host.recommended \div 2

\* "Solver and admission must not disagree about what fits": a window that
\* --ctx auto solved, and did not just fall back to, is served by every slot
\* it was sized for, all of them inside the budget, unless the device itself
\* refuses an allocation. An override above half the working set is left out:
\* the engine's own check, which does not know it, then refuses first.
AutoFits ==
    (/\ host.window = 0 /\ ~plan.fell /\ ~unlucky /\ plan.ctx # 0
     /\ host.override <= host.recommended \div 2)
        => /\ stage # "dead"
           /\ stage = "serving" => /\ SlotsUp >= plan.split
                                   /\ SlotsUp * PerSlot(plan.ctx) <= kv_budget
=============================================================================
