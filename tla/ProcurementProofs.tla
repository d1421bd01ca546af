-------------------------- MODULE ProcurementProofs --------------------------
(***************************************************************************)
(* Proofs about orders and money, for any items, prices, incomes, thefts   *)
(* and expenses: request ids are not used twice, and the agency's dealings *)
(* implement SupplyContract.                                               *)
(***************************************************************************)
EXTENDS Procurement, FiniteSetTheorems, SequenceTheorems, TLAPS

\* An id cannot come back: it names the week of its order, and while a week is
\* open its orders are pending and have the first numbers.  The last week of the
\* model takes no orders.
RequestsCounted ==
    \A k \in Orders :
        /\ backlog[k].requested <= week /\ backlog[k].requested < MaxWeek
        /\ backlog[k].id[1] = backlog[k].requested
        /\ phase = "commands" /\ backlog[k].requested = week =>
              /\ backlog[k].status = "pending"
              /\ backlog[k].id[2] <= Cardinality(Pending)

IInv == TypeOK /\ DistinctRequests /\ RequestsCounted

\* What suppliers owe, as SupplyContract sees it.
Outstanding == {Request(k) : k \in Pending}

-----------------------------------------------------------------------------

\* The orders on the list, and those that are pending, are finitely many.
LEMMA OrdersFinite ==
    ASSUME TypeOK
    PROVE  /\ Orders = 1..Len(backlog) /\ Len(backlog) \in Nat
           /\ IsFiniteSet(Orders) /\ IsFiniteSet(Pending)
           /\ Cardinality(Pending) \in Nat
           /\ \A k \in Orders : backlog[k] \in Order
<1>1. Orders = 1..Len(backlog) /\ Len(backlog) \in Nat
    BY DEF TypeOK, Orders
<1>2. IsFiniteSet(Orders)
    BY <1>1, FS_Interval
<1>3. Pending \in SUBSET Orders
    BY DEF Pending, Listed
<1>4. IsFiniteSet(Pending)
    BY <1>2, <1>3, FS_Subset
<1>5. \A k \in Orders : backlog[k] \in Order
    BY <1>1 DEF TypeOK
<1>. QED BY <1>1, <1>2, <1>4, <1>5, FS_CardinalityType

\* With distinct ids the list loses nothing.
LEMMA AllListed ==
    ASSUME TypeOK, DistinctRequests
    PROVE  Listed = Orders
<1>1. \A j, k \in Orders : j < k => j # k
    BY OrdersFinite
<1>. QED BY <1>1 DEF Listed, DistinctRequests

\* What does not touch the backlog keeps the ids distinct and the debts.
LEMMA OrdersUntouched ==
    ASSUME UNCHANGED backlog
    PROVE  /\ Orders' = Orders /\ Pending' = Pending /\ Outstanding' = Outstanding
           /\ DistinctRequests => DistinctRequests'
BY DEF DistinctRequests, Pending, Listed, Orders, Outstanding, Request

\* The floor under a balance.
LEMMA FloorIsNatural ==
    ASSUME NEW n \in Int
    PROVE  AtLeastZero(n) \in Nat
BY DEF AtLeastZero

\* What bundles cost or bring.
LEMMA CostIsNatural ==
    ASSUME NEW i \in Items, NEW n \in Bundles
    PROVE  /\ n \in Nat
           /\ Price[i] * n \in Nat
           /\ SellPrice[i] * n \in Nat
<1>1. \A a, b \in Nat : a * b \in Nat
    OBVIOUS
<1>2. Price[i] \in Nat /\ SellPrice[i] \in Nat /\ n \in Nat
    BY ProcurementAssumption
<1>. QED BY <1>1, <1>2

-----------------------------------------------------------------------------

\* An order in the present week gets a number nobody has.
LEMMA PlaceOrderStep ==
    ASSUME IInv, NEW i \in Items, NEW n \in Bundles, PlaceOrder(i, n)
    PROVE  /\ IInv'
           /\ Outstanding' = Outstanding \cup
                 {[number |-> Len(backlog) + 1, item |-> i, quantity |-> n]}
           /\ Len(backlog') = Len(backlog) + 1
<1>. DEFINE order == [id |-> NextRequestId, item |-> i, quantity |-> n,
                      requested |-> week, status |-> "pending"]
            last == Len(backlog) + 1
<1>1. TypeOK /\ DistinctRequests /\ RequestsCounted
    BY DEF IInv
<1>2. /\ Orders = 1..Len(backlog) /\ Len(backlog) \in Nat /\ IsFiniteSet(Pending)
      /\ Cardinality(Pending) \in Nat /\ \A k \in Orders : backlog[k] \in Order
    BY <1>1, OrdersFinite
<1>3. order \in Order
    BY <1>1, <1>2 DEF TypeOK, Order, NextRequestId
<1>4. /\ backlog' \in Seq(Order) /\ Len(backlog') = last
      /\ \A k \in Orders : backlog'[k] = backlog[k]
      /\ backlog'[last] = order
    <2>1. backlog' = Append(backlog, order)
        BY DEF PlaceOrder
    <2>2. backlog \in Seq(Order)
        BY <1>1 DEF TypeOK
    <2>. HIDE DEF order
    <2>. QED BY <1>2, <1>3, <2>1, <2>2, AppendProperties
<1>5. Orders' = Orders \cup {last} /\ last \notin Orders
    <2>1. Orders' = 1..last
        BY <1>4 DEF Orders
    <2>. QED BY <1>2, <2>1
<1>6. phase = "commands" /\ phase' = phase /\ week' = week /\ week \in Nat
      /\ week < MaxWeek
    BY <1>1, ProcurementAssumption DEF PlaceOrder, TypeOK
<1>7. \A k \in Orders : backlog[k].id # order.id
    <2>. SUFFICES ASSUME NEW k \in Orders, backlog[k].id = order.id
                  PROVE  FALSE
        OBVIOUS
    <2>1. backlog[k].id[1] = week /\ backlog[k].id[2] = Cardinality(Pending) + 1
        BY DEF NextRequestId
    <2>2. /\ backlog[k].requested = week
          /\ backlog[k].id[2] <= Cardinality(Pending)
        BY <1>1, <1>6, <2>1 DEF RequestsCounted
    <2>. QED BY <1>2, <2>1, <2>2
<1>8. DistinctRequests'
    BY <1>1, <1>4, <1>5, <1>7 DEF DistinctRequests
<1>9. TypeOK'
    <2>1. Price[i] * n \in Nat
        BY CostIsNatural
    <2>2. ledger' \in Nat /\ funding' = ledger'
        BY <1>1, <2>1 DEF PlaceOrder, Affordable, CanonicalBalance, TypeOK
    <2>. QED BY <1>1, <1>4, <2>2 DEF PlaceOrder, TypeOK
<1>10. Pending' = Pending \cup {last}
    <2>1. Listed = Orders /\ Listed' = Orders'
        <3>1. \A j, k \in Orders' : j < k => j # k
            BY <1>2, <1>5
        <3>2. Listed' = Orders'
            BY <1>8, <3>1 DEF Listed, DistinctRequests
        <3>. QED BY <1>1, <3>2, AllListed
    <2>2. order.status = "pending"
        OBVIOUS
    <2>. HIDE DEF order, last
    <2>. QED BY <1>4, <1>5, <2>1, <2>2 DEF Pending
<1>11. Cardinality(Pending') = Cardinality(Pending) + 1
    <2>1. last \notin Pending
        BY <1>5 DEF Pending, Listed
    <2>. QED BY <1>2, <1>10, <2>1, FS_AddElement
<1>12. RequestsCounted'
    <2>. SUFFICES ASSUME NEW k \in Orders'
                  PROVE  /\ backlog'[k].requested <= week
                         /\ backlog'[k].requested < MaxWeek
                         /\ backlog'[k].id[1] = backlog'[k].requested
                         /\ backlog'[k].requested = week =>
                               /\ backlog'[k].status = "pending"
                               /\ backlog'[k].id[2] <= Cardinality(Pending')
        BY <1>6 DEF RequestsCounted
    <2>1. CASE k = last
        BY <1>2, <1>4, <1>6, <1>11, <2>1 DEF NextRequestId
    <2>2. CASE k \in Orders
        <3>1. backlog[k].id[2] \in Nat
            <4>1. backlog[k] \in Order
                BY <1>2, <2>2
            <4>2. backlog[k].id \in Nat \X Nat
                BY <4>1 DEF Order
            <4>. QED BY <4>2
        <3>2. backlog'[k] = backlog[k]
            BY <1>4, <2>2
        <3>3. /\ backlog[k].requested <= week /\ backlog[k].requested < MaxWeek
              /\ backlog[k].id[1] = backlog[k].requested
              /\ backlog[k].requested = week =>
                    backlog[k].status = "pending" /\ backlog[k].id[2] <= Cardinality(Pending)
            BY <1>1, <1>6, <2>2 DEF RequestsCounted
        <3>. QED BY <1>2, <1>11, <3>1, <3>2, <3>3
    <2>. QED BY <1>5, <2>1, <2>2
<1>13. Outstanding' = Outstanding \cup {[number |-> last, item |-> i, quantity |-> n]}
    <2>1. \A k \in Pending : k \in Orders
        BY DEF Pending, Listed
    <2>2. \A k \in Pending : Request(k)' = Request(k)
        BY <1>4, <2>1 DEF Request
    <2>3. \A k : k = last =>
              Request(k)' = [number |-> last, item |-> i, quantity |-> n]
        BY <1>4 DEF Request
    <2>4. Outstanding' = {Request(k)' : k \in Pending'}
        BY DEF Outstanding
    <2>. HIDE DEF last
    <2>. QED BY <1>10, <2>2, <2>3, <2>4 DEF Outstanding
<1>. QED BY <1>4, <1>8, <1>9, <1>12, <1>13 DEF IInv

\* An order that ends keeps what identifies it, and is no longer owed.
LEMMA OrderEnds ==
    ASSUME IInv, phase = "backlog", UNCHANGED <<phase, week>>,
           NEW k \in Due, NEW s \in {"fulfilled", "cancelled"},
           backlog' = [backlog EXCEPT ![k].status = s]
    PROVE  /\ backlog' \in Seq(Order) /\ Len(backlog') = Len(backlog)
           /\ DistinctRequests' /\ RequestsCounted'
           /\ Request(k) \in Outstanding
           /\ Outstanding' = Outstanding \ {Request(k)}
<1>1. TypeOK /\ DistinctRequests /\ RequestsCounted
    BY DEF IInv
<1>2. /\ Orders = 1..Len(backlog) /\ Len(backlog) \in Nat
      /\ \A j \in Orders : backlog[j] \in Order
    BY <1>1, OrdersFinite
<1>3. k \in Pending /\ k \in Orders
    BY DEF Due, Pending, Listed
<1>4. /\ Orders' = Orders
      /\ \A j \in Orders : /\ backlog'[j] \in Order
                           /\ backlog'[j].id = backlog[j].id
                           /\ backlog'[j].item = backlog[j].item
                           /\ backlog'[j].quantity = backlog[j].quantity
                           /\ backlog'[j].requested = backlog[j].requested
                           /\ j # k => backlog'[j].status = backlog[j].status
                           /\ j = k => backlog'[j].status # "pending"
    BY <1>2, <1>3 DEF Orders, Order
<1>5. backlog' \in Seq(Order) /\ Len(backlog') = Len(backlog)
    <2>1. DOMAIN backlog' = 1..Len(backlog)
          /\ backlog' = [j \in 1..Len(backlog) |-> backlog'[j]]
        BY <1>2 DEF Orders
    <2>2. backlog' \in [1..Len(backlog) -> Order]
        BY <1>2, <1>4, <2>1
    <2>. QED BY <1>2, <2>2
<1>6. DistinctRequests'
    BY <1>1, <1>4 DEF DistinctRequests
<1>7. RequestsCounted'
    BY <1>1, <1>4 DEF RequestsCounted
<1>8. Pending' = Pending \ {k}
    <2>1. Listed = Orders
        BY <1>1, AllListed
    <2>2. Listed' = Orders'
        <3>1. \A i, j \in Orders' : i < j => i # j
            BY <1>2, <1>4
        <3>. QED BY <1>6, <3>1 DEF Listed, DistinctRequests
    <2>. QED BY <1>3, <1>4, <2>1, <2>2 DEF Pending
<1>9. \A j \in Pending : Request(j)' = Request(j)
    <2>1. \A j \in Pending : j \in Orders
        BY DEF Pending, Listed
    <2>. QED BY <1>4, <2>1 DEF Request
<1>10. \A j \in Pending : Request(j) = Request(k) => j = k
    BY DEF Request
<1>11. Outstanding' = {Request(j)' : j \in Pending'}
    BY DEF Outstanding
<1>12. Outstanding' = {Request(j) : j \in Pending \ {k}}
    BY <1>8, <1>9, <1>11
<1>13. Outstanding' = Outstanding \ {Request(k)} /\ Request(k) \in Outstanding
    BY <1>3, <1>10, <1>12 DEF Outstanding
<1>. QED BY <1>5, <1>6, <1>7, <1>13

\* The supplier gives the order up.
LEMMA CancelStep ==
    ASSUME IInv, NEW k \in Nat, Cancel(k)
    PROVE  IInv' /\ Contract!Next
<1>1. k \in Due /\ phase = "backlog"
    BY DEF Cancel, Visiting
<1>2. /\ backlog' = [backlog EXCEPT ![k].status = "cancelled"]
      /\ cursor' = cursor + 1 /\ UNCHANGED <<phase, week, funding, ledger, favors, stock>>
    BY DEF Cancel, NextOrder
<1>3. /\ backlog' \in Seq(Order) /\ Len(backlog') = Len(backlog)
      /\ DistinctRequests' /\ RequestsCounted'
      /\ Request(k) \in Outstanding
      /\ Outstanding' = Outstanding \ {Request(k)}
    BY <1>1, <1>2, OrderEnds
<1>4. TypeOK'
    BY <1>2, <1>3 DEF IInv, TypeOK
<1>5. Contract!GiveUp(Request(k))
    BY <1>1, <1>2, <1>3 DEF Contract!GiveUp, Outstanding
<1>. QED BY <1>3, <1>4, <1>5 DEF IInv, Contract!Next, Outstanding

\* All that was ordered comes into stock.
LEMMA DeliverStep ==
    ASSUME IInv, NEW k \in Nat, Deliver(k)
    PROVE  IInv' /\ Contract!Next
<1>1. k \in Due /\ phase = "backlog" /\ k \in Orders
    BY DEF Deliver, Visiting
<1>2. /\ backlog' = [backlog EXCEPT ![k].status = "fulfilled"]
      /\ stock' = [stock EXCEPT ![backlog[k].item] = @ + backlog[k].quantity]
      /\ cursor' = cursor + 1 /\ UNCHANGED <<phase, week, funding, ledger, favors>>
    BY DEF Deliver, NextOrder
<1>3. /\ backlog' \in Seq(Order) /\ Len(backlog') = Len(backlog)
      /\ DistinctRequests' /\ RequestsCounted'
      /\ Request(k) \in Outstanding
      /\ Outstanding' = Outstanding \ {Request(k)}
    BY <1>1, <1>2, OrderEnds
<1>4. backlog[k].item \in Items /\ backlog[k].quantity \in Nat
    <2>1. backlog[k] \in Order
        BY <1>1, OrdersFinite DEF IInv
    <2>. QED BY <2>1, ProcurementAssumption DEF Order
<1>5. stock' \in [Items -> Nat]
    BY <1>2, <1>4 DEF IInv, TypeOK
<1>6. TypeOK'
    BY <1>2, <1>3, <1>5 DEF IInv, TypeOK
<1>7. Contract!Deliver(Request(k))
    <2>1. Request(k).item = backlog[k].item /\ Request(k).quantity = backlog[k].quantity
        BY DEF Request
    <2>. QED BY <1>1, <1>2, <1>3, <2>1 DEF Contract!Deliver, Outstanding
<1>. QED BY <1>3, <1>6, <1>7 DEF IInv, Contract!Next, Outstanding

\* An order that is not due, or finds no room, stays as it is.
LEMMA LeaveStep ==
    ASSUME IInv, NEW k \in Nat, PassOver(k) \/ Postpone(k)
    PROVE  IInv' /\ UNCHANGED Contract!vars
<1>1. cursor' = cursor + 1
      /\ UNCHANGED <<phase, week, funding, ledger, favors, backlog, stock>>
    BY DEF PassOver, Postpone, NextOrder
<1>2. Pending' = Pending /\ DistinctRequests' /\ Orders' = Orders /\ Outstanding' = Outstanding
    BY <1>1, OrdersUntouched DEF IInv
<1>3. TypeOK' /\ RequestsCounted'
    BY <1>1, <1>2 DEF IInv, TypeOK, RequestsCounted
<1>. QED BY <1>1, <1>2, <1>3 DEF IInv, Contract!vars, Outstanding

\* The costs of the week come first.
LEMMA BeginCloseStep ==
    ASSUME IInv, BeginClose
    PROVE  IInv' /\ Contract!Next
<1>1. PICK income \in Incomes, holding \in HoldingCosts :
        /\ funding' = AtLeastZero(funding + income - OperatingCost - holding)
        /\ ledger' = funding'
        /\ phase = "commands" /\ phase' = "backlog" /\ cursor' = 1
        /\ UNCHANGED <<week, backlog, stock, favors>>
    BY DEF BeginClose
<1>2. Pending' = Pending /\ DistinctRequests' /\ Orders' = Orders /\ Outstanding' = Outstanding
    BY <1>1, OrdersUntouched DEF IInv
<1>3. funding' \in Nat
    <2>1. funding + income - OperatingCost - holding \in Int
        BY ProcurementAssumption DEF IInv, TypeOK
    <2>. QED BY <1>1, <2>1, FloorIsNatural
<1>4. TypeOK' /\ RequestsCounted'
    BY <1>1, <1>2, <1>3 DEF IInv, TypeOK, RequestsCounted
<1>5. Contract!Reckon
    BY <1>1, <1>2, <1>3 DEF Contract!Reckon, Outstanding
<1>. QED BY <1>2, <1>4, <1>5 DEF IInv, Contract!Next

\* No order is of the week that begins.
LEMMA EndCloseStep ==
    ASSUME IInv, EndClose
    PROVE  IInv' /\ Contract!Next
<1>1. PICK theft \in Thefts :
        /\ phase = "backlog" /\ phase' = "commands" /\ cursor' = 1
        /\ ledger' = funding - (IF theft <= funding THEN theft ELSE funding)
        /\ funding' = AtLeastZero(ledger')
        /\ week' = IF week < MaxWeek THEN week + 1 ELSE week
        /\ UNCHANGED <<backlog, stock, favors>>
    BY DEF EndClose
<1>2. Pending' = Pending /\ DistinctRequests' /\ Orders' = Orders /\ Outstanding' = Outstanding
    BY <1>1, OrdersUntouched DEF IInv
<1>3. ledger' \in Int /\ funding' \in Nat
    <2>1. ledger' \in Int
        BY <1>1, ProcurementAssumption DEF IInv, TypeOK
    <2>. QED BY <1>1, <2>1, FloorIsNatural
<1>4. week' \in 1..MaxWeek
    BY <1>1, ProcurementAssumption DEF IInv, TypeOK
<1>5. TypeOK'
    BY <1>1, <1>3, <1>4 DEF IInv, TypeOK
<1>6. \A k \in Orders : backlog[k].requested \in Nat
    BY OrdersFinite DEF IInv, Order
<1>7. RequestsCounted'
    BY <1>1, <1>2, <1>6, ProcurementAssumption DEF IInv, TypeOK, RequestsCounted
<1>8. Contract!Reckon
    BY <1>1, <1>2, <1>3 DEF Contract!Reckon, Outstanding
<1>. QED BY <1>2, <1>5, <1>7, <1>8 DEF IInv, Contract!Next

\* The other dealings move money and goods, and leave the orders alone.
LEMMA TradeStep ==
    ASSUME IInv, phase = "commands", UNCHANGED <<phase, cursor, week, backlog>>,
           funding' \in Nat, ledger' \in Int, stock' \in [Items -> Nat], favors' \in Nat
    PROVE  IInv' /\ Contract!Next
<1>1. Pending' = Pending /\ DistinctRequests' /\ Orders' = Orders /\ Outstanding' = Outstanding
    BY OrdersUntouched DEF IInv
<1>2. TypeOK' /\ RequestsCounted'
    BY <1>1 DEF IInv, TypeOK, RequestsCounted
<1>3. Contract!Trade
    BY <1>1 DEF Contract!Trade, Outstanding
<1>. QED BY <1>1, <1>2, <1>3 DEF IInv, Contract!Next

-----------------------------------------------------------------------------

LEMMA Initially ==
    ASSUME Init
    PROVE  IInv /\ Contract!Init
<1>1. backlog \in Seq(Order) /\ Orders = {} /\ Len(backlog) = 0
    BY DEF Init, Orders
<1>2. Pending = {} /\ Outstanding = {}
    BY <1>1 DEF Pending, Listed, Outstanding
<1>3. TypeOK
    BY <1>1, ProcurementAssumption DEF Init, TypeOK
<1>4. DistinctRequests /\ RequestsCounted
    BY <1>1 DEF DistinctRequests, RequestsCounted
<1>5. Contract!Init
    BY <1>1, <1>2, <1>3 DEF Init, Contract!Init, TypeOK, Outstanding
<1>. QED BY <1>3, <1>4, <1>5 DEF IInv

\* What a player does in an open week.
LEMMA CommandStep ==
    ASSUME IInv, Command
    PROVE  IInv' /\ Contract!Next
<1>. USE ProcurementAssumption
<1>0. TypeOK
    BY DEF IInv
<1>1. ASSUME NEW i \in Items, NEW n \in Bundles, PlaceOrder(i, n)
      PROVE  IInv' /\ Contract!Next
    <2>1. /\ IInv' /\ Len(backlog') = Len(backlog) + 1
          /\ Outstanding' = Outstanding \cup
                {[number |-> Len(backlog) + 1, item |-> i, quantity |-> n]}
        BY <1>1, PlaceOrderStep
    <2>2. Contract!Order(i, n)
        BY <1>1, <2>1 DEF PlaceOrder, Affordable, CanonicalBalance, Contract!Order, Outstanding
    <2>. QED BY <2>1, <2>2 DEF Contract!Next
<1>2. ASSUME NEW i \in Items, NEW n \in Bundles, Buy(i, n)
      PROVE  IInv' /\ Contract!Next
    <2>1. funding' \in Nat /\ stock' \in [Items -> Nat]
        BY <1>0, <1>2, CostIsNatural DEF Buy, TypeOK
    <2>. QED BY <1>0, <1>2, <2>1, TradeStep DEF Buy, TypeOK
<1>3. ASSUME NEW i \in Items, NEW n \in Bundles, Sell(i, n)
      PROVE  IInv' /\ Contract!Next
    <2>1. funding' \in Nat /\ stock' \in [Items -> Nat]
        BY <1>0, <1>3, CostIsNatural DEF Sell, TypeOK
    <2>. QED BY <1>0, <1>3, <2>1, TradeStep DEF Sell, TypeOK
<1>4. ASSUME NEW i \in Items, NEW n \in Bundles, UseFavor(i, n)
      PROVE  IInv' /\ Contract!Next
    <2>1. stock' \in [Items -> Nat]
        BY <1>0, <1>4, CostIsNatural DEF UseFavor, TypeOK
    <2>. QED BY <1>0, <1>4, <2>1, TradeStep DEF UseFavor, TypeOK
<1>5. CASE \E n \in Expenses : SpendFunding(n)
    BY <1>0, <1>5, TradeStep DEF SpendFunding, TypeOK
<1>6. CASE \E n \in Expenses : SpendCanonical(n)
    BY <1>0, <1>6, TradeStep DEF SpendCanonical, Affordable, CanonicalBalance, TypeOK
<1>7. CASE \E n \in Payouts : PayOut(n)
    BY <1>0, <1>7, TradeStep DEF PayOut, TypeOK
<1>. QED BY <1>1, <1>2, <1>3, <1>4, <1>5, <1>6, <1>7 DEF Command

\* Every step keeps the invariant and is a step, or none, of the contract.
LEMMA Inductive ==
    ASSUME IInv, [Next]_vars
    PROVE  IInv' /\ [Contract!Next]_(Contract!vars)
<1>1. CASE Command
    BY <1>1, CommandStep
<1>2. CASE BeginClose
    BY <1>2, BeginCloseStep
<1>3. ASSUME NEW k \in 1 .. MaxOrders, PassOver(k) \/ Cancel(k) \/ Postpone(k) \/ Deliver(k)
      PROVE  IInv' /\ [Contract!Next]_(Contract!vars)
    <2>1. k \in Nat
        BY ProcurementAssumption
    <2>. QED BY <1>3, <2>1, CancelStep, DeliverStep, LeaveStep
<1>4. CASE EndClose
    BY <1>4, EndCloseStep
<1>5. CASE UNCHANGED vars
    <2>1. /\ Pending' = Pending /\ DistinctRequests' /\ Orders' = Orders
          /\ Outstanding' = Outstanding
        BY <1>5, OrdersUntouched DEF IInv, vars
    <2>2. TypeOK' /\ RequestsCounted'
        BY <1>5, <2>1 DEF IInv, TypeOK, RequestsCounted, vars
    <2>3. UNCHANGED (Contract!vars)
        BY <1>5, <2>1 DEF vars, Contract!vars, Outstanding
    <2>. QED BY <2>1, <2>2, <2>3 DEF IInv
<1>. QED BY <1>1, <1>2, <1>3, <1>4, <1>5 DEF Next, Close

\* No request id is used for two orders, so that no paid order is dropped from
\* the backlog as a duplicate (nextProcurementRequestId).
THEOREM RequestsDistinct == Spec => [](TypeOK /\ DistinctRequests)
<1>1. Init => IInv
    BY Initially
<1>2. IInv /\ [Next]_vars => IInv'
    BY Inductive
<1>3. IInv => TypeOK /\ DistinctRequests
    BY DEF IInv
<1>. QED BY <1>1, <1>2, <1>3, PTL DEF Spec

\* The agency's dealings implement the contract: an order costs its price, stays
\* on the books while there is no room for it and ends once, with all it asked
\* for or given up, for any prices, quantities, incomes and expenses.
THEOREM ContractHolds == Spec => ContractKept
<1>1. Init => IInv /\ Contract!Init
    BY Initially
<1>2. IInv /\ [Next]_vars => IInv' /\ [Contract!Next]_(Contract!vars)
    BY Inductive
<1>. QED BY <1>1, <1>2, PTL DEF Spec, ContractKept, Contract!Spec
===============================================================================
