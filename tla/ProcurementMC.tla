----------------------------- MODULE ProcurementMC -----------------------------
(***************************************************************************)
(* A small market for TLC: kits are bought at once, plates on order.       *)
(***************************************************************************)
EXTENDS Procurement

CONSTANTS kit, plate

PriceList == [i \in Items |-> IF i = kit THEN 2 ELSE 1]
SellList == [i \in Items |-> 1]
SomeIncome == {-1, 2}
===============================================================================
