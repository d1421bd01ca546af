------------------------------- MODULE ClosureMC -------------------------------
(***************************************************************************)
(* A small agency for TLC: two teams of one agent each.                    *)
(***************************************************************************)
EXTENDS Closure

CONSTANTS t1, t2, a1, a2

Pair == [t \in Teams |-> IF t = t1 THEN {a1} ELSE {a2}]
===============================================================================
