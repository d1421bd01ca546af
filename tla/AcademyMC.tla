------------------------------- MODULE AcademyMC -------------------------------
(***************************************************************************)
(* A small academy for TLC: one program for an agent, two drills, one of   *)
(* them for an academy that was upgraded.                                  *)
(***************************************************************************)
EXTENDS Academy, TLC

Solo == {[fee |-> 3, weeks |-> 2, tier |-> 0]}
Drills == {[fee |-> 4, weeks |-> 2, tier |-> 0], [fee |-> 2, weeks |-> 1, tier |-> 1]}
Upgrade == 0 :> 2 @@ 1 :> 3
Interchangeable == Permutations(Agents) \cup Permutations(Instructors)
===============================================================================
