------------------------------ MODULE MCServing ------------------------------
(***************************************************************************)
(* What serves a request below the HTTP layer, side by side for TLC: of    *)
(* the CUDA server the prefix tiers, an engine's own prefix reuse, the     *)
(* speculative rounds of one engine and the fused round of a batch; of the *)
(* Metal server the walks of its engine and their sampling.  They share no *)
(* state; one of them, chosen at the start, takes all the steps.           *)
(***************************************************************************)
EXTENDS PrefixTiers, EnginePrefix, SpecRound, FusedRound, MetalDecode, Sampling

VARIABLE part

(* Prompts that extend each other, part early, part late, and end before   *)
(* the other's stable prefix does.                                         *)
FivePrompts ==
  {[toks |-> <<2, 2, 2, 2>>, stable |-> 3],
   [toks |-> <<2, 3, 3, 3>>, stable |-> -1],
   [toks |-> <<2, 3, 2, 2, 2>>, stable |-> 2],
   [toks |-> <<2>>, stable |-> -1],
   [toks |-> <<2, 3, 3>>, stable |-> 1]}
Contexts == <<8, 6>>

(* w prose, m the marker of a call, k, j and b, c the two tokens of two    *)
(* names, z what no grammar allows after a marker, e the end.              *)
Language ==
  [w |-> {"w", "m", "e"}, m |-> {"w", "k", "j", "z"}, k |-> {"b", "c"}, j |-> {"b", "c"},
   z |-> {"m"}, b |-> {"b", "c"}, c |-> {"m", "e"}, e |-> {"w"}]

Pair == <<1, 2>>

ASSUME KeysTellApart == KeysApart

(* Weights that tie, underflow and halve, and keys that keep half of a logit. *)
Halving == <<4, 2, 1, 0>>
FallOff == [d \in 0 .. 3 |-> Halving[d + 1]]
Keys16 == [l \in 0 .. 3 |-> l \div 2]

AnyOf(S) == CHOOSE x \in S : TRUE

ServingInit ==
  /\ part \in {"tiers", "prefix", "spec", "fused", "decode", "sample"}
  /\ Init /\ PrefixInit /\ SpecInit /\ FusedInit
  /\ IF part = "decode" THEN DecodeInit ELSE DecodeBegins(AnyOf(Walks))
  /\ IF part = "sample" THEN SampleInit ELSE SampleBegins(AnyOf(Asks), 1, "cpu")

Only(p, rest) == part = p /\ UNCHANGED <<part, rest>>

CudaVars == <<vars, prefixVars, specVars, fusedVars>>
MetalVars == <<decodeVars, sampleVars>>

ServingNext ==
  \/ /\ UNCHANGED MetalVars
     /\ \/ Only("tiers", <<prefixVars, specVars, fusedVars>>) /\ Next /\ WritersApart'
        \/ Only("prefix", <<vars, specVars, fusedVars>>) /\ PrefixNext
        \/ Only("spec", <<vars, prefixVars, fusedVars>>) /\ SpecNext
        \/ Only("fused", <<vars, prefixVars, specVars>>) /\ FusedNext
  \/ /\ UNCHANGED CudaVars
     /\ \/ Only("decode", sampleVars) /\ DecodeNext
        \/ Only("sample", decodeVars) /\ SampleNext

servingVars == <<part, CudaVars, MetalVars>>

ServingSpec == ServingInit /\ [][ServingNext]_servingVars

(* Once the last request has its slot nothing is routed any more, and once *)
(* it has begun no blob is looked for.                                     *)
PrefixSeen ==
  <<kv, gdn, snapshot, ring, ckNext, job, asks,
    IF asks = MaxAsks THEN <<>> ELSE <<lastUsed, uses>>,
    IF asks = MaxAsks /\ \A e \in Eng : job[e].at # "claimed" THEN {} ELSE blobs>>

(* Between two rounds what the device computed is that of an earlier round *)
(* whichever it was, and of the events only what is outstanding counts.    *)
FusedSeen ==
  IF host.pc # "idle" THEN fusedVars
  ELSE <<queue, [e \in Events |-> recorded[e] - fired[e]], permDev, permPin, permHost,
         maskDev, maskHost, graphs, graphsOn, round>>

(* The state of the component that moves; the others are as they began. *)
Moving ==
  <<part,
    CASE part = "tiers"  -> Relevant
      [] part = "prefix" -> PrefixSeen
      [] part = "spec"   -> specVars
      [] part = "fused"  -> FusedSeen
      [] part = "decode" -> decodeVars
      [] part = "sample" -> sampleVars>>

-----------------------------------------------------------------------------
(* Properties.  Each joins what a component states on its own.             *)

(* On Metal too speculation changes nothing but the speed: every walk says *)
(* and leaves behind what the serial one does, and a sampled one draws     *)
(* every token from the distribution that is served (metal_engine.cpp,     *)
(* sampling.h).                                                            *)
WalksExact ==
  /\ part = "decode" => DecodeExact
  /\ part = "sample" => DrawsExact

(* A batch does for each member what its own round would: what the host    *)
(* reads is of this round, whichever stream ran first, and the widths are  *)
(* those of drafting alone, trimmed no more than the cap asks              *)
(* (conductor.h).                                                          *)
FusedExact == HostReadsThisRound /\ WidthsAsSerial
==============================================================================
