------------------------------ MODULE WorkshopMC ------------------------------
(* Instances of Workshop for TLC. *)
EXTENDS Workshop

CONSTANTS lab, archive, ore, alloy

Two == {lab, archive}
Stuff == {ore, alloy}

Amount(o, a) == [m \in Stuff |-> IF m = ore THEN o ELSE a]
None == Amount(0, 0)

\* Case 1 makes alloy of ore in the laboratory (1) and refines it in the archive
\* (2); its final product needs alloy and names both orders.  Case 2 makes alloy in the
\* laboratory (3), which takes two weeks and is all its product needs.  A plain
\* order (4) of case 2 competes with the refining for the slot of the archive.
MCCaseOf == <<1, 1, 2, 2>>
MCDepartmentOf == <<lab, archive, lab, archive>>
MCRequiredWork == <<2, 1, 2, 1>>
MCPrerequisites == <<{}, {1}, {}, {}>>
MCProcessing == {1, 2, 3}
MCInputs == <<Amount(1, 0), Amount(0, 1), Amount(1, 0), None>>
MCOutputs == <<Amount(0, 1), Amount(0, 2), Amount(0, 1), None>>
MCRequested == <<{1, 2}, {3}>>
MCFinalInputs == <<Amount(0, 1), Amount(0, 1)>>
MCSlots == [d \in Two |-> 1]
MCStock == Amount(1, 0)
===============================================================================
