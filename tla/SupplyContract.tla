----------------------------- MODULE SupplyContract -----------------------------
(***************************************************************************)
(* What buying from suppliers on order promises: an order costs exactly    *)
(* its price when it is placed, it is never forgotten, and it ends once,   *)
(* while a week is being closed: with the delivery of all it asked for, or *)
(* given up by the supplier, who keeps the money.                          *)
(***************************************************************************)
EXTENDS Integers

CONSTANTS Items, Price, Bundles

VARIABLES
    cash,          \* the agency's money, never negative
    goods,         \* units in stock, by item
    closing,       \* a week is being closed
    placed,        \* how many orders were ever placed
    outstanding    \* the orders that were paid for and have not ended

vars == <<cash, goods, closing, placed, outstanding>>

Init ==
    /\ cash \in Nat /\ goods \in [Items -> Nat]
    /\ closing = FALSE /\ placed = 0 /\ outstanding = {}

Order(i, n) ==
    /\ ~closing
    /\ Price[i] * n <= cash
    /\ cash' = cash - Price[i] * n
    /\ placed' = placed + 1
    /\ outstanding' = outstanding \cup {[number |-> placed', item |-> i, quantity |-> n]}
    /\ UNCHANGED <<goods, closing>>

\* Goods and money that orders have nothing to do with.
Trade ==
    /\ ~closing
    /\ cash' \in Nat /\ goods' \in [Items -> Nat]
    /\ UNCHANGED <<closing, placed, outstanding>>

\* A week's close begins or ends: only money is reckoned up.
Reckon ==
    /\ closing' = ~closing
    /\ cash' \in Nat
    /\ UNCHANGED <<goods, placed, outstanding>>

Deliver(o) ==
    /\ closing
    /\ outstanding' = outstanding \ {o}
    /\ goods' = [goods EXCEPT ![o.item] = @ + o.quantity]
    /\ UNCHANGED <<cash, closing, placed>>

GiveUp(o) ==
    /\ closing
    /\ outstanding' = outstanding \ {o}
    /\ UNCHANGED <<cash, goods, closing, placed>>

Next ==
    \/ \E i \in Items, n \in Bundles : Order(i, n)
    \/ Trade
    \/ Reckon
    \/ \E o \in outstanding : Deliver(o) \/ GiveUp(o)

Spec == Init /\ [][Next]_vars
===============================================================================
