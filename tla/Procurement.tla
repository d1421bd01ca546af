------------------------------- MODULE Procurement -------------------------------
(***************************************************************************)
(* Money and goods: the agency's funding and the second copy of it that    *)
(* agency.fundingState keeps, purchases, sales, favours, and the orders    *)
(* that suppliers deliver at the close of a later week.                    *)
(*                                                                         *)
(* Prices are by item and a bundle is one unit.  Suppliers' availability   *)
(* (which depends on market week, pressure and the very stock an order has *)
(* just added to), access rules, income, holding cost and theft are        *)
(* choices.  Market events and the history of payments are left out, and   *)
(* so is the third copy, agency.funding, which every normalization sets.   *)
(* The week's close walks the backlog, one step per order; no command      *)
(* comes between.                                                          *)
(***************************************************************************)
EXTENDS Integers, FiniteSets, Sequences

CONSTANTS
    Items,
    DelayedItems,   \* listings with delayedFulfillmentWeeks
    Price, SellPrice,
    Bundles,        \* how many bundles a command may name
    Capacity,       \* most units of an item (Number.MAX_SAFE_INTEGER)
    DelayWeeks,     \* procurementDelayedFulfillmentWeeks
    OperatingCost,  \* computeWeeklyOperatingCost
    HoldingCosts,   \* what keeping the stock may cost in a week
    Incomes,        \* what the cases of a week may earn or cost
    Thefts,         \* what rivals may take
    Expenses,       \* what other commands may cost
    Payouts,        \* rewards of incident reviews
    StartFunding, StartFavors,
    MaxFunding, MaxOrders,   \* bounds of the model
    MaxWeek         \* bound: the calendar stops here, though weeks still close

ASSUME ProcurementAssumption ==
    /\ DelayedItems \subseteq Items
    /\ Price \in [Items -> Nat] /\ SellPrice \in [Items -> Nat]
    /\ Bundles \subseteq Nat \ {0} /\ Capacity \in Nat
    /\ DelayWeeks \in Nat \ {0}
    /\ OperatingCost \in Nat /\ HoldingCosts \subseteq Nat
    /\ Incomes \subseteq Int
    /\ Thefts \subseteq Nat /\ Expenses \subseteq Nat /\ Payouts \subseteq Nat
    /\ StartFunding \in Nat /\ StartFavors \in Nat
    /\ MaxWeek \in Nat \ {0} /\ MaxFunding \in Nat /\ MaxOrders \in Nat

VARIABLES
    phase,      \* "commands", or "backlog" while a week is being closed
    cursor,     \* the next order the close visits
    week,
    funding,    \* GameState.funding
    ledger,     \* GameState.agency.fundingState.funding
    backlog,    \* fundingState.procurementBacklog, in the order of placing
    stock,      \* GameState.inventory, by item
    favors      \* factions[f].availableFavors

vars == <<phase, cursor, week, funding, ledger, backlog, stock, favors>>

Init ==
    /\ phase = "commands" /\ cursor = 1
    /\ week = 1
    /\ funding = StartFunding /\ ledger = StartFunding
    /\ backlog = <<>> /\ stock = [i \in Items |-> 0]
    /\ favors = StartFavors

AtLeastZero(n) == IF n < 0 THEN 0 ELSE n

Orders == DOMAIN backlog

\* sanitizeProcurementBacklog drops an order whose request id another has.
Listed == {k \in Orders : \A j \in Orders : j < k => backlog[j].id # backlog[k].id}

Pending == {k \in Listed : backlog[k].status = "pending"}

\* Mutant: the id is the number of the pending order, without the week.
NumberedId == <<0, Cardinality(Pending) + 1>>

\* nextProcurementRequestId: the week and the number of orders pending now.
NextRequestId == <<week, Cardinality(Pending) + 1>>

\* Mutant: the balance in agency.fundingState is read as it is.
StaleBalance == ledger

\* getCanonicalFundingState: the funding of the game replaces that of the ledger.
CanonicalBalance == funding

\* What is paid at once must be there.
Affordable(price) == price <= CanonicalBalance

\* hasInventoryCapacity: n more of an item can still be counted.
Fits(i, n) == stock[i] + n <= Capacity

-----------------------------------------------------------------------------
(* Commands.                                                               *)

\* placeDelayedMarketOrder: paid at once, delivered at the close of a week.
PlaceOrder(i, n) ==
    LET cost == Price[i] * n
    IN  /\ phase = "commands"
        /\ i \in DelayedItems
        /\ week + DelayWeeks <= MaxWeek /\ Len(backlog) < MaxOrders
        /\ Affordable(cost)
        /\ backlog' = Append(backlog, [id |-> NextRequestId, item |-> i, quantity |-> n,
                                       requested |-> week, status |-> "pending"])
        /\ ledger' = CanonicalBalance - cost
        /\ funding' = ledger'
        /\ UNCHANGED <<phase, cursor, week, stock, favors>>

\* purchaseMarketInventory changes the funding of the game only.
Buy(i, n) ==
    /\ phase = "commands"
    /\ i \notin DelayedItems
    /\ funding >= Price[i] * n /\ Fits(i, n)
    /\ funding' = funding - Price[i] * n
    /\ stock' = [stock EXCEPT ![i] = @ + n]
    /\ UNCHANGED <<phase, cursor, week, ledger, backlog, favors>>

Sell(i, n) ==
    /\ phase = "commands"
    /\ n <= stock[i] /\ funding < MaxFunding
    /\ funding' = funding + SellPrice[i] * n
    /\ stock' = [stock EXCEPT ![i] = @ - n]
    /\ UNCHANGED <<phase, cursor, week, ledger, backlog, favors>>

\* redeemFactionFavorProcurement and callCallableObligationProcurement: goods for
\* a favour, the latter only if the price cannot be paid.
UseFavor(i, n) ==
    /\ phase = "commands"
    /\ favors > 0 /\ Fits(i, n)
    /\ favors' = favors - 1
    /\ stock' = [stock EXCEPT ![i] = @ + n]
    /\ UNCHANGED <<phase, cursor, week, funding, ledger, backlog>>

\* Training, hiring, scouting and the like pay from the funding of the game.
SpendFunding(n) ==
    /\ phase = "commands"
    /\ n <= funding
    /\ funding' = funding - n
    /\ UNCHANGED <<phase, cursor, week, ledger, backlog, stock, favors>>

\* Repairs, maintenance packages and facility upgrades pay from the canonical
\* balance and write both copies.
SpendCanonical(n) ==
    /\ phase = "commands"
    /\ Affordable(n)
    /\ ledger' = CanonicalBalance - n
    /\ funding' = ledger'
    /\ UNCHANGED <<phase, cursor, week, backlog, stock, favors>>

\* The reward of a review is added to either copy as it stands.
PayOut(n) ==
    /\ phase = "commands"
    /\ funding < MaxFunding /\ ledger < MaxFunding
    /\ funding' = funding + n
    /\ ledger' = ledger + n
    /\ UNCHANGED <<phase, cursor, week, backlog, stock, favors>>

-----------------------------------------------------------------------------
(* The close of the week.                                                  *)

\* updateAgencyMetrics: the costs of the week, of the stock before deliveries,
\* are taken from both copies on the way, but only once in the end.
BeginClose ==
    \E income \in Incomes, holding \in HoldingCosts :
        LET net == AtLeastZero(funding + income - OperatingCost - holding)
        IN  /\ phase = "commands" /\ net <= MaxFunding
            /\ phase' = "backlog" /\ cursor' = 1
            /\ funding' = net /\ ledger' = net
            /\ UNCHANGED <<week, backlog, stock, favors>>

\* Mutant: an order is due in one particular week only.
DueThatWeek == {k \in Pending : week = backlog[k].requested + DelayWeeks}

Due == {k \in Pending : week >= backlog[k].requested + DelayWeeks}

HasRoom(k) == Fits(backlog[k].item, backlog[k].quantity)

\* fulfillPendingProcurementBacklogAtWeekClose comes to the order k.  The backlog
\* is in placing order (beyond nine orders a week, sorted as text within it), and
\* an order placed through the market always names its listing.
Visiting(k) == phase = "backlog" /\ k = cursor /\ k \in Orders

NextOrder == cursor' = cursor + 1 /\ UNCHANGED <<phase, week, funding, ledger, favors>>

\* The order has ended or is not due yet.
PassOver(k) ==
    /\ Visiting(k) /\ k \notin Due
    /\ NextOrder /\ UNCHANGED <<backlog, stock>>

\* The supplier has too few bundles by now; nothing is paid back.
Cancel(k) ==
    /\ Visiting(k) /\ k \in Due
    /\ backlog' = [backlog EXCEPT ![k].status = "cancelled"]
    /\ NextOrder /\ UNCHANGED stock

\* There is no room for the delivery: the order stays pending and is tried again
\* when the next week closes.
Postpone(k) ==
    /\ Visiting(k) /\ k \in Due /\ ~HasRoom(k)
    /\ NextOrder /\ UNCHANGED <<backlog, stock>>

Deliver(k) ==
    /\ Visiting(k) /\ k \in Due /\ HasRoom(k)
    /\ backlog' = [backlog EXCEPT ![k].status = "fulfilled"]
    /\ stock' = [stock EXCEPT ![backlog[k].item] = @ + backlog[k].quantity]
    /\ NextOrder

\* Rivals steal what they can of what is left, and the next week begins.
EndClose ==
    \E theft \in Thefts :
        /\ phase = "backlog" /\ cursor \notin Orders
        /\ phase' = "commands" /\ cursor' = 1
        /\ ledger' = funding - (IF theft <= funding THEN theft ELSE funding)
        /\ funding' = AtLeastZero(ledger')
        /\ week' = IF week < MaxWeek THEN week + 1 ELSE week
        /\ UNCHANGED <<backlog, stock, favors>>

Command ==
    \/ \E i \in Items, n \in Bundles : PlaceOrder(i, n) \/ Buy(i, n) \/ Sell(i, n) \/ UseFavor(i, n)
    \/ \E n \in Expenses : SpendFunding(n) \/ SpendCanonical(n)
    \/ \E n \in Payouts : PayOut(n)

Close ==
    \/ BeginClose
    \/ \E k \in 1 .. MaxOrders : PassOver(k) \/ Cancel(k) \/ Postpone(k) \/ Deliver(k)
    \/ EndClose

Next == Command \/ Close

Spec == Init /\ [][Next]_vars

\* Players go on closing weeks, and a close that began runs to its end.
FairSpec == Spec /\ WF_vars(Close)

-----------------------------------------------------------------------------

Order == [id : Nat \X Nat, item : Items, quantity : Bundles, requested : Nat,
          status : {"pending", "fulfilled", "cancelled"}]

TypeOK ==
    /\ phase \in {"commands", "backlog"} /\ cursor \in Nat
    /\ week \in 1 .. MaxWeek
    /\ funding \in Nat /\ ledger \in Int
    /\ backlog \in Seq(Order)
    /\ stock \in [Items -> Nat] /\ favors \in Nat

\* No two orders share a request id, although an id is made of the week and a
\* count that falls when orders end: an order with a used id would be paid and
\* dropped (nextProcurementRequestId, sanitizeProcurementBacklog).
DistinctRequests == \A j, k \in Orders : backlog[j].id = backlog[k].id => j = k

\* What an order asks for, as a supplier knows it.
Request(k) == [number |-> k, item |-> backlog[k].item, quantity |-> backlog[k].quantity]

\* An order costs its price when it is placed, whichever copy of the balance the
\* commands before it changed, stays on the books while there is no room for it,
\* and ends once: with all it asked for, or given up without money back.
Contract == INSTANCE SupplyContract WITH
    cash <- funding, goods <- stock, closing <- (phase = "backlog"),
    placed <- Len(backlog), outstanding <- {Request(k) : k \in Pending}

ContractKept == Contract!Spec

\* An order ends, unless closes find the shelves full for it again and again: one
\* that had to be left at the close it was due at is not skipped for good.
OrdersEnd ==
    \A k \in 1 .. MaxOrders :
        \/ []<>(k \in Orders => backlog[k].status # "pending")
        \/ []<>(Visiting(k) /\ ~HasRoom(k))
===============================================================================
