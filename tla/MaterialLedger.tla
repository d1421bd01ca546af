---------------------------- MODULE MaterialLedger ----------------------------
(***************************************************************************)
(* What the workshop promises about materials.  The inputs of a processing *)
(* order are taken from stock once; then exactly one of three things       *)
(* happens to them: they become the output of the order, they return, or   *)
(* they are lost with the case that wanted them.  A case is turned into a  *)
(* product at most once, and only from stock that is there.                *)
(***************************************************************************)
EXTENDS Integers

CONSTANTS
    Orders,         \* processing orders
    Cases,
    Materials,
    Inputs,         \* what an order consumes, of each material
    Outputs,        \* what an order produces
    FinalInputs     \* what the final product of a case consumes

VARIABLES
    stock,          \* quantity of each material
    fate,           \* what became of the inputs of each order
    built,          \* cases whose final product was put into production
    trades          \* units the player bought or used up so far

vars == <<stock, fate, built, trades>>

Fates == {"planned", "held", "credited", "refunded", "forfeited"}

\* The stock holds at least these quantities.
Covers(need) == \A m \in Materials : stock[m] >= need[m]

Plus(gain) == [m \in Materials |-> stock[m] + gain[m]]
Minus(need) == [m \in Materials |-> stock[m] - need[m]]

Init ==
    /\ stock \in [Materials -> Nat]
    /\ fate = [o \in Orders |-> "planned"]
    /\ built = {}
    /\ trades = 0

Hold(o) ==
    /\ fate[o] = "planned"
    /\ Covers(Inputs[o])
    /\ stock' = Minus(Inputs[o])
    /\ fate' = [fate EXCEPT ![o] = "held"]
    /\ UNCHANGED <<built, trades>>

Credit(o) ==
    /\ fate[o] = "held"
    /\ stock' = Plus(Outputs[o])
    /\ fate' = [fate EXCEPT ![o] = "credited"]
    /\ UNCHANGED <<built, trades>>

Refund(o) ==
    /\ fate[o] = "held"
    /\ stock' = Plus(Inputs[o])
    /\ fate' = [fate EXCEPT ![o] = "refunded"]
    /\ UNCHANGED <<built, trades>>

\* The cases of these orders were closed: their inputs are gone.
Forfeit(lost) ==
    /\ \A o \in lost : fate[o] = "held"
    /\ fate' = [o \in Orders |-> IF o \in lost THEN "forfeited" ELSE fate[o]]
    /\ UNCHANGED <<stock, built, trades>>

Build(c) ==
    /\ c \notin built
    /\ Covers(FinalInputs[c])
    /\ stock' = Minus(FinalInputs[c])
    /\ built' = built \cup {c}
    /\ UNCHANGED <<fate, trades>>

\* The player buys a unit or uses one up.
Trade(m) ==
    /\ \/ stock' = [stock EXCEPT ![m] = @ + 1]
       \/ stock[m] > 0 /\ stock' = [stock EXCEPT ![m] = @ - 1]
    /\ trades' = trades + 1
    /\ UNCHANGED <<fate, built>>

Next ==
    \/ \E o \in Orders : Hold(o) \/ Credit(o) \/ Refund(o)
    \/ \E lost \in SUBSET Orders : Forfeit(lost)
    \/ \E c \in Cases : Build(c)
    \/ \E m \in Materials : Trade(m)

Spec == Init /\ [][Next]_vars
===============================================================================
