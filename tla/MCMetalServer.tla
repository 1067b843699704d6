---------------------------- MODULE MCMetalServer ----------------------------
(* The composed Metal server for TLC: three requests on two slots, so that *)
(* two drive their engines while the third queues, is cancelled or meets a *)
(* drain.                                                                  *)
EXTENDS MetalServer, TLC

Symmetry == Permutations(Request)

(* A request looks at its client until its prompt is in, and counts its    *)
(* quanta until it stops.                                                  *)
Asks(r) ==
  loc[r] \in {"idle", "counted", "handler", "provider", "acquire", "restore", "probe", "chunk"}
Loops(r) ==
  loc[r] \in {"restore", "probe", "chunk", "tail", "insert", "phase", "begin", "round", "deliver"}

(* Tickets matter only relative to the one being served: states that       *)
(* differ in where the counters started, or in what nobody will look at,   *)
(* are one state to TLC.                                                   *)
Relative ==
  <<slotNext - slotServing, queueWaiters, {k - slotServing : k \in cancelled},
    [r \in Request |-> IF Waiting(r) THEN ticket[r] - slotServing ELSE 0],
    qstate, busy, phase, slot, [r \in Request |-> Asks(r) /\ clientGone[r]], next - serving,
    [r \in Request |-> IF Contender(r) THEN lticket[r] - serving ELSE 0],
    lstate, loc, width, [r \in Request |-> IF Loops(r) THEN quanta[r] ELSE 0],
    draining, active, drained, drains>>

AllDone == (\A r \in Request : loc[r] = "done") /\ UNCHANGED vars

MCSpec == Init /\ [][Next \/ AllDone]_vars

MCFairSpec == MCSpec /\ Fairness
=============================================================================
