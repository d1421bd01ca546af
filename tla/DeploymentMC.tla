------------------------------ MODULE DeploymentMC ------------------------------
(***************************************************************************)
(* Small agencies for TLC: which teams and agents the runs of Deployment   *)
(* start with.                                                             *)
(***************************************************************************)
EXTENDS Deployment

CONSTANTS t1, t2, t3, a1, a2, a3

\* One agent in each team.
Singles ==
    [t \in Teams |-> CASE t = t1 -> {a1} [] t = t2 -> {a2} [] OTHER -> {a3}]

\* Two teams of one agent; further teams are created by the player.
Pair == [t \in Teams |-> CASE t = t1 -> {a1} [] t = t2 -> {a2} [] OTHER -> {}]

\* A squad of two, the others in the reserve.
Squad == [t \in Teams |-> IF t = t1 THEN {a1, a2} ELSE {}]
=============================================================================
