----------------------------- MODULE MCConductor -----------------------------
(* The conductor and its request threads for TLC.                          *)
EXTENDS Conductor, TLC

Symmetry == Permutations(Request) \cup Permutations(Engine)

(* Gate tickets matter only relative to the one being served. *)
Relative ==
  <<gnext - gserving, nwait,
    [t \in Request \cup {TheConductor} |->
       IF Queued(t) THEN gticket[t] - gserving ELSE 0],
    gstate, rpc, slotVars, promptVars, clientVars, queueVars, taskVars, statVars,
    sharedVars, roundVars>>

(* Short requests for one token each, or, with one of them staying away,   *)
(* long ones that yield at a chunk gap.                                    *)
Short == gaps = [r \in Request |-> 0] /\ nMax = [r \in Request |-> 1]
Away(r) == NMax > 1 /\ nMax[r] = 1 /\ \E s \in Request : nMax[s] > 1
Long ==
  /\ Cardinality({r \in Request : nMax[r] = 1}) = 1
  /\ \A r \in Request : gaps[r] = IF nMax[r] = 1 THEN 0 ELSE MaxGaps

MCInit == Init /\ (Short \/ Long)
MCNext == Next /\ \A r \in Request : Away(r) => rpc'[r] = rpc[r]

(* Idle: every request is over and the conductor waits or has stopped. *)
AllDone ==
  /\ \A r \in Request : rpc[r] = "done" \/ Away(r)
  /\ cpc \in {"wait", "stopped"}
  /\ UNCHANGED vars

MCSpec == MCInit /\ [][MCNext \/ AllDone]_vars

MCFairSpec == MCSpec /\ Fairness
=============================================================================
