--------------------------- MODULE WorkshopProofs ---------------------------
(***************************************************************************)
(* Proofs about the workshop, for every number of orders, cases and slots: *)
(* the materials follow the abstract ledger, dependencies are honoured, a  *)
(* case never has two unfinished orders, no order is in two places, inputs *)
(* are held for the orders in the lanes, products come from credited       *)
(* outputs and a case that had inputs refunded takes no more work.         *)
(*                                                                         *)
(* IInv is enough for the ledger; WeekInv adds where every order is in the *)
(* lanes and at which step of the week's close its inputs are settled.     *)
(***************************************************************************)
EXTENDS Workshop, FiniteSetTheorems, SequenceTheorems, TLAPS

\* The types of the variables that materials depend on.
Types ==
    /\ phase \in Phases
    /\ cursor \in Nat
    /\ open \subseteq opening /\ opening \subseteq Cases
    /\ registered \subseteq Orders /\ receipts \subseteq Orders
    /\ reserved \subseteq Orders
    /\ fabricated \subseteq Cases
    /\ stock \in [Materials -> Nat]
    /\ trades \in Nat
    /\ fate \in [Orders -> {"planned", "held", "credited", "refunded", "forfeited"}]

\* Inputs are held for the reservations that a read at the start of the week
\* would show, and an order without a work order has not taken any.
HeldIsReserved ==
    /\ phase = "commands" => opening = open
    /\ \A o \in Orders :
        /\ fate[o] = "held" <=> o \in reserved /\ CaseOf[o] \in opening
        /\ o \notin registered => fate[o] = "planned"

IInv == Types /\ HeldIsReserved /\ OneOrderPerCase /\ PrerequisitesFirst

-----------------------------------------------------------------------------

\* The steps that leave materials, cases and the registry alone keep the
\* invariant, if receipts only grow.
LEMMA OtherStep ==
    ASSUME IInv,
           UNCHANGED <<open, opening, registered, reserved, fabricated, stock, trades, fate>>,
           receipts \subseteq receipts', receipts' \subseteq Orders,
           phase' \in Phases, cursor' \in Nat,
           phase' = "commands" => opening = open
    PROVE  IInv'
<1>1. Types' /\ HeldIsReserved'
  BY DEF IInv, Types, HeldIsReserved
<1>2. OneOrderPerCase' /\ PrerequisitesFirst'
  BY DEF IInv, OneOrderPerCase, PrerequisitesFirst
<1> QED BY <1>1, <1>2 DEF IInv

\* A pass with a cursor goes on to a phase of the week.
LEMMA PassGoesOn ==
    ASSUME IInv, NEW next \in Phases, NextOrder(next) \/ NextCase(next) \/ AdvanceTo(next)
    PROVE  phase' \in {phase, next} /\ cursor' \in Nat
BY DEF IInv, Types, NextOrder, NextCase, AdvanceTo

\* Taking a new order into the registry keeps one unfinished order per case and
\* the dependencies.
LEMMA EnqueueKeeps ==
    ASSUME IInv, NEW o \in Orders, Enqueueable(o), registered' = registered \cup {o},
           receipts' = receipts, o \in Processing => PrerequisitesDone(o)
    PROVE  OneOrderPerCase' /\ PrerequisitesFirst'
<1>1. \A p \in registered : CaseOf[p] = CaseOf[o] => p \in receipts
  BY DEF Enqueueable, CaseIsFree
<1>2. OneOrderPerCase'
  BY <1>1 DEF IInv, OneOrderPerCase
<1>3. PrerequisitesFirst'
  BY DEF IInv, PrerequisitesFirst, PrerequisitesDone
<1> QED BY <1>2, <1>3

\* A reservation takes the inputs of its order out of stock.
LEMMA ReserveKeeps ==
    ASSUME IInv, NEW o \in Orders,
           Reservable(o, opening), Reserve(o, opening), PrerequisitesDone(o),
           phase' \in Phases, cursor' \in Nat, phase' = "commands" => phase = "commands"
    PROVE  IInv' /\ Books!Hold(o)
<1>0. /\ fate[o] = "planned" /\ CaseOf[o] \in opening /\ o \in Processing
      /\ Inputs[o] \in [Materials -> Nat]
  BY OrderAssumption, MaterialAssumption
  DEF IInv, Types, HeldIsReserved, Reservable, Enqueueable, Live
<1>1. /\ registered' = registered \cup {o} /\ reserved' = Live(reserved, opening) \cup {o}
      /\ stock' = Minus(Inputs[o]) /\ fate' = [fate EXCEPT ![o] = "held"]
      /\ UNCHANGED <<trades, receipts, open, opening, fabricated>>
  BY DEF Reserve, Enqueue, proofs, closure
<1>2. OneOrderPerCase' /\ PrerequisitesFirst'
  BY <1>1, EnqueueKeeps DEF Reservable
<1>3. stock' \in [Materials -> Nat]
  <2>1. \A m \in Materials : stock[m] - Inputs[o][m] \in Nat
    BY <1>0 DEF Reservable, Covers, IInv, Types
  <2> QED BY <1>1, <2>1 DEF Minus
<1>4. Types'
  BY <1>1, <1>3 DEF IInv, Types, Live
<1>5. HeldIsReserved'
  BY <1>0, <1>1 DEF IInv, Types, HeldIsReserved, Live
<1>6. Books!Hold(o)
  BY <1>0, <1>1 DEF Books!Hold, Books!Covers, Books!Minus, Reservable, Covers, Minus
<1> QED BY <1>2, <1>4, <1>5, <1>6 DEF IInv

\* At one order, the pass that credits completions and the pass that releases
\* reservations settle the order if it is reserved.
LEMMA SettleKeeps ==
    ASSUME IInv, NEW o \in Orders, NEW gain \in [Materials -> Nat],
           NEW end \in {"credited", "refunded"},
           o \in Live(reserved, opening),
           stock' = Plus(gain), reserved' = Live(reserved, opening) \ {o},
           fate' = [fate EXCEPT ![o] = end],
           UNCHANGED <<open, opening, registered, receipts, fabricated, trades>>,
           phase # "commands", phase' \in Phases \ {"commands"}, cursor' \in Nat
    PROVE  IInv' /\ fate[o] = "held"
<1>0. fate[o] = "held" /\ o \in registered
  BY DEF IInv, HeldIsReserved, Live
<1>1. stock' \in [Materials -> Nat]
  BY DEF IInv, Types, Plus
<1>2. Types'
  BY <1>1 DEF IInv, Types, Live
<1>3. HeldIsReserved'
  BY <1>0 DEF IInv, Types, HeldIsReserved, Live
<1>4. OneOrderPerCase' /\ PrerequisitesFirst'
  BY DEF IInv, OneOrderPerCase, PrerequisitesFirst
<1> QED BY <1>0, <1>2, <1>3, <1>4 DEF IInv

\* A command keeps the invariant and is a step of the ledger.
LEMMA CommandKeeps ==
    ASSUME IInv, Command
    PROVE  IInv' /\ [Books!Next]_(Books!vars)
<1> USE DEF proofs, closure, materials, lanes
<1>0. ASSUME UNCHANGED <<phase, cursor, opening, open, receipts, registered, reserved,
                         fabricated, stock, trades, fate>>
      PROVE  IInv' /\ [Books!Next]_(Books!vars)
  <2>1. IInv'
    BY <1>0, OtherStep DEF IInv, Types, HeldIsReserved
  <2> QED BY <1>0, <2>1 DEF Books!vars
<1>1. ASSUME NEW o \in Orders, EnqueueOrder(o)
      PROVE  IInv' /\ [Books!Next]_(Books!vars)
  <2>0. /\ Enqueueable(o) /\ registered' = registered \cup {o} /\ o \notin Processing
        /\ UNCHANGED <<phase, cursor, opening, open, receipts, reserved, fabricated,
                       stock, trades, fate>>
    BY <1>1 DEF EnqueueOrder, Enqueue
  <2>1. OneOrderPerCase' /\ PrerequisitesFirst'
    BY <2>0, EnqueueKeeps
  <2>2. Types' /\ HeldIsReserved'
    BY <2>0 DEF IInv, Types, HeldIsReserved
  <2> QED BY <2>0, <2>1, <2>2 DEF IInv, Books!vars
<1>2. ASSUME NEW o \in Orders, ReserveOrder(o)
      PROVE  IInv' /\ [Books!Next]_(Books!vars)
  <2>0. opening = open /\ phase' = phase /\ cursor' = cursor /\ PrerequisitesDone(o)
    BY <1>2 DEF ReserveOrder, IInv, HeldIsReserved
  <2>1. Reservable(o, opening) /\ Reserve(o, opening)
    BY <1>2, <2>0 DEF ReserveOrder
  <2>2. IInv' /\ Books!Hold(o)
    BY <2>0, <2>1, ReserveKeeps DEF IInv, Types
  <2> QED BY <2>2 DEF Books!Next
<1>3. ASSUME NEW o \in Orders, Prioritize(o) PROVE IInv' /\ [Books!Next]_(Books!vars)
  BY <1>0, <1>3 DEF Prioritize
<1>4. ASSUME NEW d \in Departments, OpenWorkshop(d)
      PROVE  IInv' /\ [Books!Next]_(Books!vars)
  BY <1>0, <1>4 DEF OpenWorkshop
<1>5. ASSUME NEW c \in Cases, CancelCase(c) PROVE IInv' /\ [Books!Next]_(Books!vars)
  BY <1>0, <1>5 DEF CancelCase
<1>6. ASSUME NEW m \in Materials, BuyMaterial(m) \/ UseMaterial(m)
      PROVE  IInv' /\ [Books!Next]_(Books!vars)
  <2>0. UNCHANGED <<phase, cursor, opening, open, receipts, registered, reserved, fabricated, fate>>
    BY <1>6 DEF BuyMaterial, UseMaterial
  <2>1. stock' \in [Materials -> Nat] /\ trades' \in Nat
    BY <1>6, CountsAssumption DEF BuyMaterial, UseMaterial, IInv, Types
  <2>2. Types' /\ HeldIsReserved' /\ OneOrderPerCase' /\ PrerequisitesFirst'
    BY <2>0, <2>1 DEF IInv, Types, HeldIsReserved, OneOrderPerCase, PrerequisitesFirst
  <2>3. Books!Trade(m)
    BY <1>6 DEF BuyMaterial, UseMaterial, Books!Trade
  <2> QED BY <2>2, <2>3 DEF IInv, Books!Next
<1>7. CASE Hydrate
  <2>0. /\ opening = open /\ reserved' = Live(reserved, open)
        /\ UNCHANGED <<phase, cursor, opening, open, receipts, registered, fabricated,
                       stock, trades, fate>>
    BY <1>7 DEF Hydrate, IInv, HeldIsReserved
  <2>1. Types' /\ HeldIsReserved' /\ OneOrderPerCase' /\ PrerequisitesFirst'
    BY <2>0 DEF IInv, Types, HeldIsReserved, OneOrderPerCase, PrerequisitesFirst, Live
  <2> QED BY <2>0, <2>1 DEF IInv, Books!vars
<1> QED BY <1>1, <1>2, <1>3, <1>4, <1>5, <1>6, <1>7 DEF Command

\* At one order, crediting and releasing keep the invariant.
LEMMA SettlingPasses ==
    ASSUME IInv, NEW o \in Orders, CreditCompletion(o) \/ ReleaseReservation(o)
    PROVE  IInv' /\ [Books!Next]_(Books!vars)
<1> USE DEF proofs, closure, lanes
<1>0. /\ Outputs[o] \in [Materials -> Nat] /\ Inputs[o] \in [Materials -> Nat]
      /\ phase \in {"credit", "release"}
      /\ UNCHANGED <<opening, open, registered, receipts, fabricated, trades>>
  BY MaterialAssumption DEF CreditCompletion, ReleaseReservation
<1>1. phase' \in Phases \ {"commands"} /\ cursor' \in Nat
  <2>1. phase' \in {phase, "release", "clean"} /\ cursor' \in Nat
    BY PassGoesOn DEF CreditCompletion, ReleaseReservation, Phases
  <2> QED BY <1>0, <2>1 DEF Phases
<1>2. CASE UNCHANGED <<stock, reserved, fate>>
  BY <1>0, <1>1, <1>2, OtherStep DEF IInv, Types, Books!vars
<1>3. CASE /\ o \in Live(reserved, opening)
           /\ stock' = Plus(Outputs[o]) /\ reserved' = Live(reserved, opening) \ {o}
           /\ fate' = [fate EXCEPT ![o] = "credited"]
  <2>1. IInv' /\ fate[o] = "held"
    BY <1>0, <1>1, <1>3, SettleKeeps
  <2>2. Books!Credit(o)
    BY <1>0, <1>3, <2>1 DEF Books!Credit, Books!Plus, Plus
  <2> QED BY <2>1, <2>2 DEF Books!Next
<1>4. CASE /\ o \in Live(reserved, opening)
           /\ stock' = Plus(Inputs[o]) /\ reserved' = Live(reserved, opening) \ {o}
           /\ fate' = [fate EXCEPT ![o] = "refunded"]
  <2>1. IInv' /\ fate[o] = "held"
    BY <1>0, <1>1, <1>4, SettleKeeps
  <2>2. Books!Refund(o)
    BY <1>0, <1>4, <2>1 DEF Books!Refund, Books!Plus, Plus
  <2> QED BY <2>1, <2>2 DEF Books!Next
<1> QED BY <1>2, <1>3, <1>4 DEF CreditCompletion, ReleaseReservation, Settled

\* The last steps of the week: building the product of a case, and closing the
\* cases whose product is in production.
LEMMA ClosingPasses ==
    ASSUME IInv,
           (\E c \in Cases, funded \in BOOLEAN : Fabricate(c, funded)) \/ ResolveFinalized
    PROVE  IInv' /\ [Books!Next]_(Books!vars)
<1> USE DEF proofs, closure, lanes
<1>1. ASSUME NEW c \in Cases, NEW funded \in BOOLEAN, Fabricate(c, funded)
      PROVE  IInv' /\ [Books!Next]_(Books!vars)
  <2>0. /\ FinalInputs[c] \in [Materials -> Nat] /\ phase = "fabricate"
        /\ UNCHANGED <<opening, open, registered, receipts, reserved, trades, fate>>
    BY <1>1, MaterialAssumption DEF Fabricate
  <2>1. phase' \in Phases \ {"commands"} /\ cursor' \in Nat
    <3>1. phase' \in {phase, "resolve"} /\ cursor' \in Nat
      BY <1>1, PassGoesOn DEF Fabricate, Phases
    <3> QED BY <2>0, <3>1 DEF Phases
  <2>2. CASE UNCHANGED <<stock, fabricated>>
    BY <2>0, <2>1, <2>2, OtherStep DEF IInv, Types, Books!vars
  <2>3. CASE /\ Fabricable(c) /\ Covers(FinalInputs[c])
             /\ stock' = Minus(FinalInputs[c]) /\ fabricated' = fabricated \cup {c}
    <3>1. \A m \in Materials : stock[m] - FinalInputs[c][m] \in Nat
      BY <2>0, <2>3 DEF Covers, IInv, Types
    <3>2. Types' /\ HeldIsReserved' /\ OneOrderPerCase' /\ PrerequisitesFirst'
      BY <2>0, <2>1, <2>3, <3>1
      DEF IInv, Types, HeldIsReserved, OneOrderPerCase, PrerequisitesFirst, Minus
    <3>3. Books!Build(c)
      BY <2>0, <2>3 DEF Books!Build, Books!Covers, Books!Minus, Covers, Minus, Fabricable
    <3> QED BY <3>2, <3>3 DEF IInv, Books!Next
  <2> QED BY <1>1, <2>2, <2>3 DEF Fabricate
<1>2. CASE ResolveFinalized
  <2> DEFINE lost == Lost(open')
  <2>0. /\ open' = open \ (handedOff \cap fabricated) /\ opening' = open'
        /\ fate' = [o \in Orders |-> IF o \in lost THEN "forfeited" ELSE fate[o]]
        /\ phase' = "commands" /\ cursor' = 1
        /\ UNCHANGED <<registered, receipts, reserved, fabricated, stock, trades>>
    BY <1>2 DEF ResolveFinalized, AdvanceTo
  <2>1. lost = {o \in Orders : fate[o] = "held" /\ CaseOf[o] \notin open'}
    BY DEF Lost
  <2> HIDE DEF lost
  <2>2. Types'
    BY <2>0 DEF IInv, Types, Phases
  <2>3. HeldIsReserved'
    BY <2>0, <2>1 DEF IInv, Types, HeldIsReserved
  <2>4. OneOrderPerCase' /\ PrerequisitesFirst'
    BY <2>0 DEF IInv, OneOrderPerCase, PrerequisitesFirst
  <2>5. Books!Forfeit(lost)
    BY <2>0, <2>1 DEF Books!Forfeit
  <2>6. lost \in SUBSET Orders
    BY <2>1
  <2> QED BY <2>2, <2>3, <2>4, <2>5, <2>6 DEF IInv, Books!Next
<1> QED BY <1>1, <1>2

\* The close of the week keeps the invariant and is a step of the ledger.
LEMMA CloseKeeps ==
    ASSUME IInv, Close
    PROVE  IInv' /\ [Books!Next]_(Books!vars)
<1> USE DEF proofs, closure, materials, lanes
<1>0. ASSUME UNCHANGED <<opening, open, registered, reserved, fabricated, stock, trades, fate>>,
             receipts \subseteq receipts', receipts' \subseteq Orders,
             phase' \in Phases \ {"commands"}, cursor' \in Nat
      PROVE  IInv' /\ [Books!Next]_(Books!vars)
  BY <1>0, OtherStep DEF Books!vars
<1>1. CASE CloseWeek
  BY <1>0, <1>1 DEF CloseWeek, AdvanceTo, Phases, IInv, Types
<1>2. ASSUME NEW won \in SUBSET Cases, NEW failed \in SUBSET Cases, ResolveMissions(won, failed)
      PROVE  IInv' /\ [Books!Next]_(Books!vars)
  <2>1. /\ open' = open \ won /\ phase' = "tick" /\ cursor' = 1
        /\ UNCHANGED <<opening, registered, reserved, receipts, fabricated, stock, trades, fate>>
    BY <1>2 DEF ResolveMissions, AdvanceTo
  <2>2. Types' /\ HeldIsReserved' /\ OneOrderPerCase' /\ PrerequisitesFirst'
    BY <2>1 DEF IInv, Types, HeldIsReserved, OneOrderPerCase, PrerequisitesFirst, Phases
  <2> QED BY <2>1, <2>2 DEF IInv, Books!vars
<1>3. ASSUME NEW pace \in [Departments -> 0 .. 2], NEW withheld, ProcessTick(pace, withheld)
      PROVE  IInv' /\ [Books!Next]_(Books!vars)
  <2> DEFINE done(d) == Shift(d, pace, withheld).done
  <2>1. \A d \in Departments : done(d) \subseteq Orders
    BY DEF Shift, Finished
  <2>2. receipts' = receipts \cup UNION {done(d) : d \in Departments}
    BY <1>3 DEF ProcessTick
  <2> HIDE DEF done
  <2>3. receipts \subseteq receipts' /\ receipts' \subseteq Orders
    BY <2>1, <2>2 DEF IInv, Types
  <2> QED BY <1>0, <1>3, <2>3 DEF ProcessTick, AdvanceTo, Phases
<1>4. ASSUME NEW o \in Orders, CreditCompletion(o) \/ ReleaseReservation(o)
      PROVE  IInv' /\ [Books!Next]_(Books!vars)
  BY <1>4, SettlingPasses
<1>5. ASSUME NEW o \in Orders, ActivateSuccessor(o)
      PROVE  IInv' /\ [Books!Next]_(Books!vars)
  <2>1. phase = "succeed" /\ Reservable(o, opening) /\ Reserve(o, opening) /\ PrerequisitesDone(o)
    BY <1>5 DEF ActivateSuccessor, IsSuccessor, Candidate
  <2>2. phase' \in {"succeed", "handoff"} /\ cursor' \in Nat
    BY <1>5, <2>1, PassGoesOn DEF ActivateSuccessor, Phases
  <2>3. IInv' /\ Books!Hold(o)
    BY <2>1, <2>2, ReserveKeeps DEF Phases
  <2> QED BY <2>3 DEF Books!Next
<1>6. CASE CleanLanes
  BY <1>0, <1>6 DEF CleanLanes, AdvanceTo, Phases, IInv, Types
<1>7. ASSUME NEW c \in Cases, NoSuccessor(c) PROVE IInv' /\ [Books!Next]_(Books!vars)
  <2>1. phase' \in {"succeed", "handoff"} /\ cursor' \in Nat
    BY <1>7, PassGoesOn DEF NoSuccessor, Phases
  <2> QED BY <1>0, <1>7, <2>1 DEF NoSuccessor, Phases, IInv, Types
<1>8. CASE HandOff
  BY <1>0, <1>8 DEF HandOff, AdvanceTo, Phases, IInv, Types
<1>9. ASSUME (\E c \in Cases, funded \in BOOLEAN : Fabricate(c, funded)) \/ ResolveFinalized
      PROVE  IInv' /\ [Books!Next]_(Books!vars)
  BY <1>9, ClosingPasses
<1> QED BY <1>1, <1>2, <1>3, <1>4, <1>5, <1>6, <1>7, <1>8, <1>9 DEF Close

LEMMA Inductive ==
    ASSUME IInv, [Next]_vars
    PROVE  IInv' /\ [Books!Next]_(Books!vars)
<1>1. CASE UNCHANGED vars
  <2>1. IInv'
    BY <1>1, OtherStep
    DEF IInv, Types, HeldIsReserved, vars, lanes, proofs, closure, materials
  <2> QED BY <1>1, <2>1 DEF vars, closure, materials, Books!vars
<1> QED BY <1>1, CommandKeeps, CloseKeeps DEF Next

LEMMA Initially == Init => IInv /\ Books!Init
<1> SUFFICES ASSUME Init PROVE IInv /\ Books!Init
  OBVIOUS
<1>1. Types
  BY MaterialAssumption DEF Init, Types, Phases
<1>2. HeldIsReserved /\ OneOrderPerCase /\ PrerequisitesFirst
  BY DEF Init, HeldIsReserved, OneOrderPerCase, PrerequisitesFirst
<1>3. Books!Init
  BY MaterialAssumption DEF Init, Books!Init
<1> QED BY <1>1, <1>2, <1>3 DEF IInv

\* However weeks, cancellations, failures and reloads follow each other, the
\* materials of the workshop follow the abstract ledger.
THEOREM ImplementsLedger == Spec => KeepsBooks
BY Initially, Inductive, PTL DEF Spec, KeepsBooks, Books!Spec

\* A case never has two unfinished orders, in whatever department.
THEOREM OneOrderAtATime == Spec => []OneOrderPerCase
<1>1. IInv => OneOrderPerCase
  BY DEF IInv
<1> QED BY <1>1, Initially, Inductive, PTL DEF Spec

\* A registered order's dependencies are done.
THEOREM DependenciesFirst == Spec => []PrerequisitesFirst
<1>1. IInv => PrerequisitesFirst
  BY DEF IInv
<1> QED BY <1>1, Initially, Inductive, PTL DEF Spec

-----------------------------------------------------------------------------
(* Sequences of orders *)

\* No order stands twice in the queue.
Distinct(queue) == \A i, j \in DOMAIN queue : queue[i] = queue[j] => i = j

LEMMA QueueDomain ==
    ASSUME NEW q \in Seq(Orders)
    PROVE  /\ Len(q) \in Nat /\ DOMAIN q = 1 .. Len(q)
           /\ \A i \in DOMAIN q : q[i] \in Orders
           /\ Members(q) \subseteq Orders
<1>1. Len(q) \in Nat /\ DOMAIN q = 1 .. Len(q) /\ \A i \in DOMAIN q : q[i] \in Orders
  BY LenProperties, ElementOfSeq
<1> QED BY <1>1 DEF Members

\* Sets of orders are finite.
LEMMA OrdersFinite ==
    ASSUME NEW S, S \subseteq Orders
    PROVE  /\ IsFiniteSet(S) /\ Cardinality(S) \in Nat
           /\ \A T \in SUBSET S : IsFiniteSet(T) /\ Cardinality(T) \in Nat /\ Cardinality(T) <= Cardinality(S)
<1>1. IsFiniteSet(Orders)
  BY CountsAssumption, FS_Interval DEF Orders
<1>2. IsFiniteSet(S)
  BY <1>1, FS_Subset
<1>3. ASSUME NEW T \in SUBSET S PROVE IsFiniteSet(T) /\ Cardinality(T) <= Cardinality(S)
  BY <1>2, FS_Subset
<1> QED BY <1>2, <1>3, FS_CardinalityType

\* An order joins the end of a queue.
LEMMA Appended ==
    ASSUME NEW q \in Seq(Orders), NEW o \in Orders, Distinct(q), o \notin Members(q)
    PROVE  /\ Append(q, o) \in Seq(Orders) /\ Distinct(Append(q, o))
           /\ Members(Append(q, o)) = Members(q) \cup {o}
<1> DEFINE r == Append(q, o)
<1>1. /\ r \in Seq(Orders) /\ Len(r) = Len(q) + 1
      /\ \A i \in 1 .. Len(q) : r[i] = q[i]
      /\ r[Len(q) + 1] = o
  BY AppendProperties
<1>2. DOMAIN r = 1 .. Len(q) + 1 /\ Len(q) \in Nat /\ DOMAIN q = 1 .. Len(q)
  BY <1>1, QueueDomain
<1> HIDE DEF r
<1>3. \A i \in DOMAIN r : i \in DOMAIN q \/ i = Len(q) + 1
  BY <1>2
<1>4. Distinct(r)
  BY <1>1, <1>2, <1>3 DEF Distinct, Members
<1>5. Members(r) = Members(q) \cup {o}
  BY <1>1, <1>2, <1>3 DEF Members
<1> QED BY <1>1, <1>4, <1>5 DEF r

\* An order is moved to the front of its queue.
LEMMA MovedToFront ==
    ASSUME NEW q \in Seq(Orders), NEW k \in DOMAIN q, Distinct(q)
    PROVE  LET r == <<q[k]>> \o RemoveAt(q, k)
           IN  r \in Seq(Orders) /\ Distinct(r) /\ Members(r) = Members(q)
<1> DEFINE n == Len(q)
           front == SubSeq(q, 1, k - 1)
           back == SubSeq(q, k + 1, n)
           rest == front \o back
           r == <<q[k]>> \o rest
<1>1. n \in Nat /\ DOMAIN q = 1 .. n /\ k \in 1 .. n /\ \A i \in 1 .. n : q[i] \in Orders
  BY QueueDomain
<1>2. /\ front \in Seq(Orders) /\ Len(front) = k - 1
      /\ \A i \in 1 .. k - 1 : front[i] = q[i]
  <2>1. 1 \in Int /\ k - 1 \in Int /\ \A i \in 1 .. k - 1 : q[i] \in Orders
    BY <1>1
  <2>2. /\ front \in Seq(Orders) /\ Len(front) = (IF 1 <= k - 1 THEN k - 1 - 1 + 1 ELSE 0)
        /\ \A i \in 1 .. k - 1 - 1 + 1 : front[i] = q[1 + i - 1]
    BY <2>1, SubSeqProperties
  <2> QED BY <1>1, <2>2
<1>3. /\ back \in Seq(Orders) /\ Len(back) = n - k
      /\ \A i \in 1 .. n - k : back[i] = q[k + i]
  <2>1. k + 1 \in Int /\ n \in Int /\ \A i \in k + 1 .. n : q[i] \in Orders
    BY <1>1
  <2>2. /\ back \in Seq(Orders) /\ Len(back) = (IF k + 1 <= n THEN n - (k + 1) + 1 ELSE 0)
        /\ \A i \in 1 .. n - (k + 1) + 1 : back[i] = q[k + 1 + i - 1]
    BY <2>1, SubSeqProperties
  <2>3. Len(back) = n - k /\ n - (k + 1) + 1 = n - k
    BY <1>1, <2>2
  <2>4. \A i \in 1 .. n - k : k + 1 + i - 1 = k + i
    BY <1>1
  <2> QED BY <2>2, <2>3, <2>4
<1> HIDE DEF front, back
<1>4. /\ rest \in Seq(Orders) /\ Len(rest) = n - 1
      /\ \A i \in 1 .. n - 1 : rest[i] = IF i < k THEN q[i] ELSE q[i + 1]
  <2>1. /\ rest \in Seq(Orders) /\ Len(rest) = Len(front) + Len(back)
        /\ \A i \in 1 .. Len(front) + Len(back) : rest[i] =
              IF i <= Len(front) THEN front[i] ELSE back[i - Len(front)]
    BY <1>2, <1>3, ConcatProperties
  <2>2. Len(front) = k - 1 /\ Len(back) = n - k /\ Len(front) + Len(back) = n - 1
    BY <1>1, <1>2, <1>3
  <2>3. ASSUME NEW i \in 1 .. n - 1 PROVE rest[i] = IF i < k THEN q[i] ELSE q[i + 1]
    <3>1. CASE i < k
      <4>1. i \in 1 .. k - 1 /\ i <= Len(front)
        BY <3>1, <1>1, <2>2
      <4> QED BY <3>1, <4>1, <2>1, <2>2, <1>2
    <3>2. CASE ~(i < k)
      <4>1. i - (k - 1) \in 1 .. n - k /\ ~(i <= Len(front)) /\ k + (i - (k - 1)) = i + 1
        BY <3>2, <1>1, <2>2
      <4>2. rest[i] = back[i - (k - 1)]
        BY <4>1, <2>1, <2>2
      <4> QED BY <3>2, <4>1, <4>2, <1>3
    <3> QED BY <3>1, <3>2
  <2> QED BY <2>1, <2>2, <2>3
<1> HIDE DEF rest
<1>5. /\ r \in Seq(Orders) /\ Len(r) = n
      /\ \A i \in 1 .. n : r[i] = IF i = 1 THEN q[k] ELSE IF i <= k THEN q[i - 1] ELSE q[i]
  <2>1. <<q[k]>> \in Seq(Orders) /\ Len(<<q[k]>>) = 1 /\ <<q[k]>>[1] = q[k]
    BY <1>1
  <2>2. /\ r \in Seq(Orders) /\ Len(r) = 1 + Len(rest)
        /\ \A i \in 1 .. 1 + Len(rest) : r[i] =
              IF i <= 1 THEN <<q[k]>>[i] ELSE rest[i - 1]
    BY <1>4, <2>1, ConcatProperties
  <2>3. Len(r) = n /\ 1 + Len(rest) = n
    <3>1. Len(rest) = n - 1 /\ n \in Nat
      BY <1>1, <1>4
    <3>2. 1 + Len(rest) = n
      BY <3>1
    <3> QED BY <2>2, <3>2
  <2>4. ASSUME NEW i \in 1 .. n
        PROVE  r[i] = IF i = 1 THEN q[k] ELSE IF i <= k THEN q[i - 1] ELSE q[i]
    <3>1. CASE i = 1
      BY <3>1, <2>1, <2>2, <2>3
    <3>2. CASE i # 1
      <4>1. r[i] = rest[i - 1] /\ i - 1 \in 1 .. n - 1 /\ (i - 1 < k <=> i <= k) /\ i - 1 + 1 = i
        BY <3>2, <2>2, <2>3, <1>1
      <4> QED BY <3>2, <4>1, <1>4
    <3> QED BY <3>1, <3>2
  <2> QED BY <2>2, <2>3, <2>4
<1> HIDE DEF r
<1>6. DOMAIN r = 1 .. n
  BY <1>5, QueueDomain
\* The place in q of the order at place i.
<1> DEFINE at(i) == IF i = 1 THEN k ELSE IF i <= k THEN i - 1 ELSE i
<1>7. \A i \in 1 .. n : at(i) \in 1 .. n /\ r[i] = q[at(i)]
  BY <1>1, <1>5
<1>8. \A i, j \in 1 .. n : at(i) = at(j) => i = j
  BY <1>1
<1>9. \A j \in 1 .. n : \E i \in 1 .. n : at(i) = j
  <2> SUFFICES ASSUME NEW j \in 1 .. n PROVE \E i \in 1 .. n : at(i) = j
    OBVIOUS
  <2>1. CASE j = k
    BY <2>1, <1>1
  <2>2. CASE j < k
    <3>1. j + 1 \in 1 .. n /\ at(j + 1) = j
      BY <2>2, <1>1
    <3> QED BY <3>1
  <2>3. CASE j > k
    <3>1. at(j) = j
      BY <2>3, <1>1
    <3> QED BY <3>1
  <2> QED BY <1>1, <2>1, <2>2, <2>3
<1> HIDE DEF at
<1>10. Distinct(r)
  BY <1>1, <1>6, <1>7, <1>8 DEF Distinct
<1>11. Members(r) = Members(q)
  <2>1. Members(r) = {r[i] : i \in 1 .. n} /\ Members(q) = {q[i] : i \in 1 .. n}
    BY <1>1, <1>6 DEF Members
  <2>2. \A i \in 1 .. n : \E j \in 1 .. n : r[i] = q[j]
    BY <1>7
  <2>3. \A j \in 1 .. n : \E i \in 1 .. n : r[i] = q[j]
    BY <1>7, <1>9
  <2> QED BY <2>1, <2>2, <2>3
<1> QED BY <1>5, <1>10, <1>11 DEF r, rest, front, back, RemoveAt

\* A queue is cut into its first n orders and the others.
LEMMA Cut ==
    ASSUME NEW q \in Seq(Orders), Distinct(q), NEW n \in 0 .. Len(q)
    PROVE  LET p == SubSeq(q, 1, n)
               rest == After(q, p)
           IN  /\ p \in Seq(Orders) /\ Distinct(p)
               /\ rest \in Seq(Orders) /\ Distinct(rest)
               /\ Members(p) \cap Members(rest) = {}
               /\ Members(p) \cup Members(rest) = Members(q)
               /\ Cardinality(Members(p)) <= n
<1> DEFINE p == SubSeq(q, 1, n)
           rest == SubSeq(q, n + 1, Len(q))
           last == Len(q)
<1>1. /\ last \in Nat /\ n \in Nat /\ n <= last
      /\ DOMAIN q = 1 .. last /\ \A i \in 1 .. last : q[i] \in Orders
  BY QueueDomain
<1>2. /\ p \in Seq(Orders) /\ Len(p) = n
      /\ \A i \in 1 .. n : p[i] = q[i]
  <2>1. \A i \in 1 .. n : q[i] \in Orders
    BY <1>1
  <2>2. /\ p \in Seq(Orders) /\ Len(p) = (IF 1 <= n THEN n - 1 + 1 ELSE 0)
        /\ \A i \in 1 .. n - 1 + 1 : p[i] = q[1 + i - 1]
    BY <1>1, <2>1, SubSeqProperties
  <2>3. Len(p) = n /\ n - 1 + 1 = n /\ \A i \in 1 .. n : 1 + i - 1 = i
    BY <1>1, <2>2
  <2> QED BY <2>2, <2>3
<1>3. /\ rest \in Seq(Orders) /\ Len(rest) = last - n
      /\ \A i \in 1 .. last - n : rest[i] = q[n + i]
  <2>1. \A i \in n + 1 .. last : q[i] \in Orders
    BY <1>1
  <2>2. /\ rest \in Seq(Orders)
        /\ Len(rest) = (IF n + 1 <= last THEN last - (n + 1) + 1 ELSE 0)
        /\ \A i \in 1 .. last - (n + 1) + 1 : rest[i] = q[n + 1 + i - 1]
    BY <1>1, <2>1, SubSeqProperties
  <2>3. last - (n + 1) + 1 = last - n /\ (IF n + 1 <= last THEN last - n ELSE 0) = last - n
    <3>1. last \in Nat /\ n \in Nat /\ n <= last
      BY <1>1
    <3> HIDE DEF last
    <3>2. last - (n + 1) + 1 = last - n
      BY <3>1
    <3>3. ~(n + 1 <= last) => last - n = 0
      BY <3>1
    <3> QED BY <3>2, <3>3
  <2>4. \A i \in 1 .. last - n : n + 1 + i - 1 = n + i
    BY <1>1
  <2>5. Len(rest) = last - n
    BY <2>2, <2>3
  <2> QED BY <2>2, <2>3, <2>4, <2>5
<1>4. After(q, p) = rest
  BY <1>2 DEF After
<1> HIDE DEF p, rest
<1>5. DOMAIN p = 1 .. n /\ DOMAIN rest = 1 .. last - n
  BY <1>2, <1>3, QueueDomain
<1> HIDE DEF last
<1>6. Distinct(p) /\ Distinct(rest)
  <2>1. \A i \in 1 .. n : i \in 1 .. last
    BY <1>1
  <2>2. Distinct(p)
    BY <1>1, <1>2, <1>5, <2>1 DEF Distinct
  <2>3. \A i \in 1 .. last - n : n + i \in 1 .. last
    BY <1>1
  <2>4. \A i, j \in 1 .. last - n : n + i = n + j => i = j
    BY <1>1
  <2>5. Distinct(rest)
    <3> SUFFICES ASSUME NEW i \in 1 .. last - n, NEW j \in 1 .. last - n, rest[i] = rest[j]
                 PROVE  i = j
      BY <1>5 DEF Distinct
    <3>1. q[n + i] = q[n + j] /\ n + i \in DOMAIN q /\ n + j \in DOMAIN q
      BY <1>1, <1>3, <2>3
    <3>2. n + i = n + j
      BY <3>1 DEF Distinct
    <3> QED BY <2>4, <3>2
  <2> QED BY <2>2, <2>5
<1>7. /\ Members(p) = {q[i] : i \in 1 .. n} /\ Members(q) = {q[i] : i \in 1 .. last}
      /\ Members(rest) = {q[i] : i \in n + 1 .. last}
  <2>1. Members(p) = {q[i] : i \in 1 .. n} /\ Members(q) = {q[i] : i \in 1 .. last}
    BY <1>1, <1>2, <1>5 DEF Members
  <2>2. \A i \in 1 .. last - n : n + i \in n + 1 .. last
    BY <1>1
  <2>3. \A j \in n + 1 .. last : j - n \in 1 .. last - n /\ n + (j - n) = j
    BY <1>1
  <2>4. \A j \in n + 1 .. last : \E i \in 1 .. last - n : rest[i] = q[j]
    BY <1>3, <2>3
  <2>5. Members(rest) = {rest[i] : i \in 1 .. last - n}
    BY <1>5 DEF Members
  <2>6. \A i \in 1 .. last - n : rest[i] \in {q[j] : j \in n + 1 .. last}
    BY <1>3, <2>2
  <2>7. \A j \in n + 1 .. last : q[j] \in {rest[i] : i \in 1 .. last - n}
    BY <2>4
  <2>8. {rest[i] : i \in 1 .. last - n} = {q[j] : j \in n + 1 .. last}
    BY <2>6, <2>7
  <2> QED BY <2>1, <2>5, <2>8
<1>8. Members(p) \cap Members(rest) = {}
  <2>1. \A i \in 1 .. n, j \in n + 1 .. last : i \in 1 .. last /\ j \in 1 .. last /\ i # j
    BY <1>1
  <2> QED BY <1>1, <1>7, <2>1 DEF Distinct
<1>9. Members(p) \cup Members(rest) = Members(q)
  <2>1. \A i \in 1 .. last : i \in 1 .. n \/ i \in n + 1 .. last
    BY <1>1
  <2>2. \A i : i \in 1 .. n \/ i \in n + 1 .. last => i \in 1 .. last
    BY <1>1
  <2> QED BY <1>7, <2>1, <2>2
<1>10. Cardinality(Members(p)) <= n
  <2> DEFINE f == [i \in 1 .. n |-> p[i]]
  <2>1. f \in Surjection(1 .. n, Members(p))
    BY <1>5 DEF Surjection, Members
  <2>2. IsFiniteSet(1 .. n) /\ Cardinality(1 .. n) = n
    BY <1>1, FS_Interval
  <2> QED BY <2>1, <2>2, FS_Surjection
<1> QED BY <1>2, <1>3, <1>4, <1>6, <1>8, <1>9, <1>10 DEF p

\* Orders are taken out of a queue.
LEMMA TakenOut ==
    ASSUME NEW q \in Seq(Orders), NEW orders, Distinct(q)
    PROVE  /\ Without(q, orders) \in Seq(Orders) /\ Distinct(Without(q, orders))
           /\ Members(Without(q, orders)) = Members(q) \ orders
<1> DEFINE P == {i \in DOMAIN q : q[i] \notin orders}
           rank(i) == Cardinality(P \cap 1 .. i)
           last == Cardinality(P)
           r == Without(q, orders)
<1>1. /\ Len(q) \in Nat /\ DOMAIN q = 1 .. Len(q) /\ P \subseteq 1 .. Len(q)
      /\ \A i \in P : q[i] \in Orders
  BY QueueDomain
<1>2. /\ IsFiniteSet(P) /\ last \in Nat
      /\ \A S \in SUBSET P : IsFiniteSet(S) /\ Cardinality(S) \in Nat /\ Cardinality(S) <= last
  <2>1. IsFiniteSet(1 .. Len(q))
    BY <1>1, FS_Interval
  <2>2. IsFiniteSet(P)
    BY <1>1, <2>1, FS_Subset
  <2> QED BY <2>2, FS_Subset, FS_CardinalityType
<1>3. \A i \in P : rank(i) \in 1 .. last
  <2> SUFFICES ASSUME NEW i \in P PROVE rank(i) \in 1 .. last
    OBVIOUS
  <2>1. i \in P \cap 1 .. i /\ P \cap 1 .. i \in SUBSET P
    BY <1>1
  <2>2. rank(i) # 0
    BY <1>2, <2>1, FS_EmptySet
  <2> QED BY <1>2, <2>1, <2>2
<1>4. \A i, j \in P : i < j => rank(i) < rank(j)
  <2> SUFFICES ASSUME NEW i \in P, NEW j \in P, i < j PROVE rank(i) < rank(j)
    OBVIOUS
  <2>1. P \cap 1 .. i \subseteq P \cap 1 .. j /\ j \in P \cap 1 .. j /\ j \notin P \cap 1 .. i
    BY <1>1
  <2>2. IsFiniteSet(P \cap 1 .. j) /\ rank(i) \in Nat /\ rank(j) \in Nat
    BY <1>2
  <2>3. rank(i) <= rank(j) /\ rank(i) # rank(j)
    BY <2>1, <2>2, FS_Subset
  <2> QED BY <2>2, <2>3
<1>5. \A i, j \in P : rank(i) = rank(j) => i = j
  <2>0. \A i \in P : i \in 1 .. Len(q)
    BY <1>1
  <2>1. \A i \in P : i \in Nat /\ rank(i) \in Nat
    <3> HIDE DEF rank, P, last
    <3>1. \A i \in 1 .. Len(q) : i \in Nat
      BY <1>1
    <3>2. \A n \in 1 .. last : n \in Nat
      BY <1>2
    <3> QED BY <1>3, <2>0, <3>1, <3>2
  <2> HIDE DEF rank, P
  <2> QED BY <1>4, <2>1
<1>6. \A n \in 1 .. last : \E i \in P : rank(i) = n
  <2> DEFINE f == [i \in P |-> rank(i)]
  <2>1. f \in Injection(P, 1 .. last)
    <3> HIDE DEF rank, P, last
    <3> QED BY <1>3, <1>5 DEF Injection, IsInjective
  <2>2. IsFiniteSet(1 .. last) /\ Cardinality(1 .. last) = last
    <3>1. \A m \in Nat : Cardinality(1 .. m) = m
      BY FS_Interval
    <3> QED BY <1>2, <3>1, FS_Interval
  <2>3. f \in Surjection(P, 1 .. last)
    BY <2>1, <2>2, FS_Injection
  <2> HIDE DEF rank, P, last
  <2> QED BY <2>3 DEF Surjection
<1>7. r = [n \in 1 .. last |-> q[CHOOSE i \in P : rank(i) = n]]
  BY DEF Without
<1> DEFINE at(n) == CHOOSE i \in P : rank(i) = n
<1>8. \A n \in 1 .. last : at(n) \in P /\ rank(at(n)) = n
  <2> HIDE DEF rank, P, last
  <2> QED BY <1>6
<1>9. \A i \in P : at(rank(i)) = i
  <2> HIDE DEF rank, P, last
  <2> QED BY <1>3, <1>5, <1>8
<1>10. r = [n \in 1 .. last |-> q[at(n)]]
  BY <1>7
<1> HIDE DEF rank, P, last, at, r
<1>11. r \in Seq(Orders) /\ DOMAIN r = 1 .. last
  <2>1. \A n \in 1 .. last : q[at(n)] \in Orders
    BY <1>1, <1>8
  <2>2. r \in [1 .. last -> Orders]
    BY <1>10, <2>1
  <2> QED BY <1>2, <2>2, SeqDef
<1>12. Distinct(r)
  <2>1. ASSUME NEW a \in 1 .. last, NEW b \in 1 .. last, r[a] = r[b] PROVE a = b
    <3>1. at(a) = at(b)
      BY <1>1, <1>8, <1>10, <2>1 DEF Distinct, P
    <3> QED BY <1>8, <3>1
  <2> QED BY <1>11, <2>1 DEF Distinct
<1>13. Members(r) = {q[i] : i \in P}
  <2>1. \A n \in 1 .. last : r[n] \in {q[i] : i \in P}
    BY <1>8, <1>10
  <2>2. \A i \in P : r[rank(i)] = q[i] /\ rank(i) \in 1 .. last
    BY <1>3, <1>9, <1>10
  <2> QED BY <1>11, <2>1, <2>2 DEF Members
<1>14. {q[i] : i \in P} = Members(q) \ orders
  BY DEF P, Members
<1> QED BY <1>11, <1>12, <1>13, <1>14 DEF r

-----------------------------------------------------------------------------
(* The lanes *)

\* The active orders of a department.
Busy(d) == {o \in active : DepartmentOf[o] = d}

\* What LanesSound says of the lanes, with the orders outside of them unworked.
LanesInv ==
    /\ queued \in [Departments -> Seq(Orders)] /\ active \subseteq Orders
    /\ work \in [Orders -> Nat]
    /\ Lane \subseteq registered \ receipts /\ receipts \subseteq registered
    /\ \A d \in Departments :
        /\ \A o \in Queue(d) : DepartmentOf[o] = d /\ o \notin active
        /\ Distinct(queued[d])
        /\ Cardinality(Busy(d)) <= Slots[d]
    /\ \A o \in Orders : work[o] < RequiredWork[o]
    /\ \A o \in Orders \ Lane : work[o] = 0

\* Filling slots cuts the queue, and no more orders are busy than there are slots.
LEMMA Filled ==
    ASSUME NEW d \in Departments, NEW q \in Seq(Orders), Distinct(q),
           NEW busy \in SUBSET Orders, Cardinality(busy) <= Slots[d]
    PROVE  LET first == Fill(d, q, busy)
               rest == After(q, first)
           IN  /\ rest \in Seq(Orders) /\ Distinct(rest)
               /\ Members(first) \cap Members(rest) = {}
               /\ Members(first) \cup Members(rest) = Members(q)
               /\ Cardinality(busy \cup Members(first)) <= Slots[d]
<1> DEFINE free == Free(d, busy)
           n == IF free < Len(q) THEN IF free > 0 THEN free ELSE 0 ELSE Len(q)
           first == SubSeq(q, 1, n)
<1>1. Slots[d] \in Nat /\ Cardinality(busy) \in Nat /\ Len(q) \in Nat
  BY OrderAssumption, OrdersFinite, QueueDomain
<1>2. free = Slots[d] - Cardinality(busy) /\ free \in Nat
  BY <1>1 DEF Free
<1> HIDE DEF free
<1>3. n \in 0 .. Len(q) /\ n <= free
  BY <1>1, <1>2
<1>4. Fill(d, q, busy) = first
  BY DEF Fill, free
<1> HIDE DEF n
<1>5. /\ first \in Seq(Orders) /\ Distinct(first)
      /\ After(q, first) \in Seq(Orders) /\ Distinct(After(q, first))
      /\ Members(first) \cap Members(After(q, first)) = {}
      /\ Members(first) \cup Members(After(q, first)) = Members(q)
      /\ Cardinality(Members(first)) <= n
  BY <1>3, Cut
<1> HIDE DEF first
<1>6. Members(first) \subseteq Orders
  BY <1>5, QueueDomain
<1>7. Cardinality(busy \cup Members(first)) <= Slots[d]
  <2>1. IsFiniteSet(busy) /\ IsFiniteSet(Members(first))
    BY <1>6, OrdersFinite
  <2>2. /\ Cardinality(busy \cup Members(first)) =
              Cardinality(busy) + Cardinality(Members(first)) - Cardinality(busy \cap Members(first))
    BY <2>1, FS_Union
  <2>3. /\ Cardinality(Members(first)) \in Nat
        /\ Cardinality(busy \cap Members(first)) \in Nat
    BY <1>6, OrdersFinite
  <2>4. n \in Nat
    BY <1>1, <1>3
  <2> QED BY <1>1, <1>2, <1>3, <1>5, <2>2, <2>3, <2>4
<1> QED BY <1>4, <1>5, <1>7

\* A week of a department: its orders are in its queue, in its slots or done,
\* each in one of the three.
LEMMA Shifted ==
    ASSUME NEW d \in Departments, LanesInv, NEW pace \in [Departments -> 0 .. 2], NEW withheld
    PROVE  LET s == Shift(d, pace, withheld)
           IN  /\ s.queue \in Seq(Orders) /\ Distinct(s.queue)
               /\ Members(s.queue) \cap s.active = {}
               /\ Members(s.queue) \cap s.done = {} /\ s.active \cap s.done = {}
               /\ Members(s.queue) \cup s.active \cup s.done = Busy(d) \cup Queue(d)
               /\ Cardinality(s.active) <= Slots[d]
               /\ s.worked \subseteq s.active \cup s.done
               /\ \A o \in s.worked \ s.done : work[o] + pace[DepartmentOf[o]] < RequiredWork[o]
<1> DEFINE q == queued[d]
           busy == Busy(d)
           first == Fill(d, q, busy)
           working == busy \cup Members(first)
           done == Finished(working \ withheld, pace)
           rest == After(q, first)
           left == working \ done
           second == Fill(d, rest, left)
           s == Shift(d, pace, withheld)
<1>1. /\ q \in Seq(Orders) /\ Distinct(q) /\ busy \in SUBSET Orders
      /\ Cardinality(busy) <= Slots[d] /\ Queue(d) = Members(q) /\ busy \cap Members(q) = {}
  BY DEF LanesInv, Busy, Queue, Members
<1>2. s = IF d \in workshops /\ Slots[d] > 0 /\ pace[d] > 0
          THEN [queue |-> After(rest, second), worked |-> working \ withheld,
                active |-> left \cup Members(second), done |-> done]
          ELSE [queue |-> q, worked |-> {}, active |-> busy, done |-> {}]
  BY DEF Shift, Busy
<1>3. /\ rest \in Seq(Orders) /\ Distinct(rest)
      /\ Members(first) \cap Members(rest) = {}
      /\ Members(first) \cup Members(rest) = Members(q)
      /\ Cardinality(working) <= Slots[d]
  <2> HIDE DEF q, busy
  <2> QED BY <1>1, Filled
<1>4. working \subseteq Orders
  <2>1. Members(first) \subseteq Orders
    BY <1>1, <1>3, QueueDomain
  <2> HIDE DEF first, busy
  <2> QED BY <1>1, <2>1
<1>5. /\ done \subseteq working /\ done \subseteq Orders
      /\ \A o \in (working \ withheld) \ done : ~(work[o] + pace[DepartmentOf[o]] >= RequiredWork[o])
  BY <1>4 DEF Finished
<1> HIDE DEF q, busy, first, working, done, rest, s
<1>6. \A o \in Orders : work[o] + pace[DepartmentOf[o]] \in Int /\ RequiredWork[o] \in Int
  <2> SUFFICES ASSUME NEW o \in Orders
               PROVE  work[o] + pace[DepartmentOf[o]] \in Int /\ RequiredWork[o] \in Int
    OBVIOUS
  <2>1. DepartmentOf[o] \in Departments /\ RequiredWork[o] \in Nat
    BY OrderAssumption
  <2>2. work[o] \in Nat /\ pace[DepartmentOf[o]] \in 0 .. 2
    BY <2>1 DEF LanesInv
  <2> QED BY <2>1, <2>2
<1>7. left \in SUBSET Orders /\ Cardinality(left) <= Slots[d]
  <2>1. left \in SUBSET working /\ working \in SUBSET Orders
    BY <1>4
  <2>2. Cardinality(left) <= Cardinality(working) /\ Cardinality(left) \in Nat /\ Cardinality(working) \in Nat
    BY <2>1, OrdersFinite
  <2>3. Slots[d] \in Nat
    BY OrderAssumption
  <2> QED BY <1>3, <2>1, <2>2, <2>3
<1> HIDE DEF left
<1>8. /\ After(rest, second) \in Seq(Orders) /\ Distinct(After(rest, second))
      /\ Members(second) \cap Members(After(rest, second)) = {}
      /\ Members(second) \cup Members(After(rest, second)) = Members(rest)
      /\ Cardinality(left \cup Members(second)) <= Slots[d]
  BY <1>3, <1>7, Filled
<1> HIDE DEF second
<1>9. CASE d \in workshops /\ Slots[d] > 0 /\ pace[d] > 0
  <2>1. /\ s.queue = After(rest, second) /\ s.worked = working \ withheld
        /\ s.active = left \cup Members(second) /\ s.done = done
    BY <1>2, <1>9
  <2>2. /\ working = busy \cup Members(first) /\ left = working \ done
    BY DEF working, left
  <2>3. \A o \in (working \ withheld) \ done : work[o] + pace[DepartmentOf[o]] < RequiredWork[o]
    BY <1>4, <1>5, <1>6
  <2>4. /\ Members(s.queue) \cap s.active = {}
        /\ Members(s.queue) \cap s.done = {} /\ s.active \cap s.done = {}
    BY <1>1, <1>3, <1>5, <1>8, <2>1, <2>2
  <2>5. Members(s.queue) \cup s.active \cup s.done = busy \cup Members(q)
    BY <1>1, <1>3, <1>5, <1>8, <2>1, <2>2
  <2>6. s.worked \subseteq s.active \cup s.done
    BY <2>1, <2>2
  <2>7. s.queue \in Seq(Orders) /\ Distinct(s.queue) /\ Cardinality(s.active) <= Slots[d]
    BY <1>8, <2>1
  <2> QED BY <1>1, <2>1, <2>3, <2>4, <2>5, <2>6, <2>7 DEF s, busy
<1>10. CASE ~(d \in workshops /\ Slots[d] > 0 /\ pace[d] > 0)
  <2>1. s.queue = q /\ s.worked = {} /\ s.active = busy /\ s.done = {}
    BY <1>2, <1>10
  <2> QED BY <1>1, <2>1 DEF s, busy
<1> QED BY <1>9, <1>10

\* Lanes that are left as they are stay sound while no order in them is done.
LEMMA LanesUntouched ==
    ASSUME LanesInv, UNCHANGED <<queued, active, work>>,
           registered' = registered, receipts' = receipts
    PROVE  LanesInv' /\ Lane' = Lane
<1>1. \A d \in Departments :
        Queue(d)' = Queue(d) /\ Busy(d)' = Busy(d) /\ queued'[d] = queued[d]
  BY DEF Queue, Busy
<1>2. Lane' = Lane
  BY <1>1 DEF Lane
<1>3. \A d \in Departments :
        /\ \A o \in Queue(d)' : DepartmentOf[o] = d /\ o \notin active'
        /\ Distinct(queued'[d])
        /\ Cardinality(Busy(d)') <= Slots[d]
  BY <1>1 DEF LanesInv
<1> QED BY <1>2, <1>3 DEF LanesInv, Distinct

\* An order that is not registered joins the queue of its department.
LEMMA EnqueueLane ==
    ASSUME LanesInv, NEW o \in Orders, o \notin registered, Enqueue(o),
           receipts' = receipts
    PROVE  LanesInv' /\ Lane' = Lane \cup {o}
<1> DEFINE d == DepartmentOf[o]
<1>1. d \in Departments /\ o \notin Lane /\ o \notin active
  BY OrderAssumption DEF LanesInv, Lane
<1>2. /\ queued[d] \in Seq(Orders) /\ Distinct(queued[d]) /\ o \notin Members(queued[d])
      /\ \A e \in Departments : Queue(e) = Members(queued[e])
      /\ \A e \in Departments : Queue(e)' = Members(queued'[e])
  BY <1>1 DEF LanesInv, Lane, Queue, Members
<1>3. /\ queued' = [queued EXCEPT ![d] = Append(@, o)] /\ registered' = registered \cup {o}
      /\ UNCHANGED <<active, work>>
  BY DEF Enqueue
<1>4. /\ Append(queued[d], o) \in Seq(Orders) /\ Distinct(Append(queued[d], o))
      /\ Members(Append(queued[d], o)) = Members(queued[d]) \cup {o}
  BY <1>2, Appended
<1>5. /\ queued' \in [Departments -> Seq(Orders)]
      /\ queued'[d] = Append(queued[d], o)
      /\ \A e \in Departments \ {d} : queued'[e] = queued[e]
  BY <1>1, <1>3, <1>4 DEF LanesInv
<1>6. Queue(d)' = Queue(d) \cup {o} /\ \A e \in Departments \ {d} : Queue(e)' = Queue(e)
  BY <1>1, <1>2, <1>4, <1>5
<1>7. Lane' = Lane \cup {o}
  <2>1. Lane' = active \cup UNION {Queue(e)' : e \in Departments}
    BY <1>3 DEF Lane
  <2> HIDE DEF d
  <2> QED BY <1>1, <1>6, <2>1 DEF Lane
<1>8. \A e \in Departments : Busy(e)' = Busy(e)
  BY <1>3 DEF Busy
<1>9. \A e \in Departments :
        /\ \A p \in Queue(e)' : DepartmentOf[p] = e /\ p \notin active'
        /\ Distinct(queued'[e])
        /\ Cardinality(Busy(e)') <= Slots[e]
  <2> SUFFICES ASSUME NEW e \in Departments
               PROVE  /\ \A p \in Queue(e)' : DepartmentOf[p] = e /\ p \notin active'
                      /\ Distinct(queued'[e])
                      /\ Cardinality(Busy(e)') <= Slots[e]
    OBVIOUS
  <2>1. CASE e = d
    BY <2>1, <1>1, <1>3, <1>4, <1>5, <1>6, <1>8 DEF LanesInv
  <2>2. CASE e # d
    BY <2>2, <1>1, <1>3, <1>5, <1>6, <1>8 DEF LanesInv
  <2> QED BY <2>1, <2>2
<1>10. /\ Lane' \subseteq registered' \ receipts' /\ active' \subseteq Orders
       /\ receipts' \subseteq registered'
       /\ work' \in [Orders -> Nat]
       /\ \A p \in Orders : work'[p] < RequiredWork[p]
       /\ \A p \in Orders \ Lane' : work'[p] = 0
  BY <1>3, <1>7 DEF LanesInv
<1> QED BY <1>5, <1>7, <1>9, <1>10 DEF LanesInv, Distinct

\* An order is moved to the front of its queue.
LEMMA PrioritizeLane ==
    ASSUME LanesInv, NEW o \in Orders, Prioritize(o)
    PROVE  LanesInv' /\ Lane' = Lane
<1> DEFINE d == DepartmentOf[o]
<1>0. d \in Departments
  BY OrderAssumption
<1>1. PICK i \in DOMAIN queued[d] :
          queued[d][i] = o /\ queued' = [queued EXCEPT ![d] = <<o>> \o RemoveAt(@, i)]
  BY DEF Prioritize
<1>2. UNCHANGED <<active, work, registered, receipts>>
  BY DEF Prioritize, proofs
<1>3. queued[d] \in Seq(Orders) /\ Distinct(queued[d])
  BY <1>0 DEF LanesInv
<1>4. /\ <<o>> \o RemoveAt(queued[d], i) \in Seq(Orders)
      /\ Distinct(<<o>> \o RemoveAt(queued[d], i))
      /\ Members(<<o>> \o RemoveAt(queued[d], i)) = Members(queued[d])
  BY <1>1, <1>3, MovedToFront
<1>5. \A e \in Departments :
        /\ queued'[e] \in Seq(Orders) /\ Distinct(queued'[e])
        /\ Members(queued'[e]) = Members(queued[e])
  BY <1>0, <1>1, <1>4 DEF LanesInv
<1>6. queued' \in [Departments -> Seq(Orders)]
  BY <1>1, <1>5 DEF LanesInv
<1>7. \A e \in Departments : Queue(e)' = Queue(e) /\ Busy(e)' = Busy(e)
  BY <1>2, <1>5 DEF Queue, Members, Busy
<1>8. Lane' = Lane
  BY <1>2, <1>7 DEF Lane
<1>9. \A e \in Departments :
        /\ \A p \in Queue(e)' : DepartmentOf[p] = e /\ p \notin active'
        /\ Distinct(queued'[e])
        /\ Cardinality(Busy(e)') <= Slots[e]
  BY <1>2, <1>5, <1>7 DEF LanesInv
<1> QED BY <1>2, <1>6, <1>8, <1>9 DEF LanesInv, Distinct

\* Terminal orders leave their lane.
LEMMA CleanLane ==
    ASSUME LanesInv, CleanLanes
    PROVE  LanesInv' /\ Lane' = Lane \ Removable
<1> DEFINE out == Removable
<1>1. /\ queued' = [d \in Departments |-> Without(queued[d], out)]
      /\ active' = active \ out
      /\ work' = [o \in Orders |-> IF o \in out THEN 0 ELSE work[o]]
      /\ UNCHANGED <<registered, receipts>>
  BY DEF CleanLanes, proofs
<1> HIDE DEF out
<1>2. \A d \in Departments :
        /\ queued'[d] \in Seq(Orders) /\ Distinct(queued'[d])
        /\ Members(queued'[d]) = Members(queued[d]) \ out
  BY <1>1, TakenOut DEF LanesInv
<1>3. queued' \in [Departments -> Seq(Orders)]
  BY <1>1, <1>2
<1>4. \A d \in Departments : Queue(d)' = Queue(d) \ out
  BY <1>2 DEF Queue, Members
<1>5. Lane' = Lane \ out
  <2>1. Lane' = active' \cup UNION {Queue(d)' : d \in Departments}
    BY DEF Lane
  <2> QED BY <1>1, <1>4, <2>1 DEF Lane
<1>6. \A d \in Departments : Cardinality(Busy(d)') <= Slots[d]
  <2> SUFFICES ASSUME NEW d \in Departments PROVE Cardinality(Busy(d)') <= Slots[d]
    OBVIOUS
  <2>1. Busy(d)' \subseteq Busy(d) /\ Busy(d) \subseteq Orders
    BY <1>1 DEF Busy, LanesInv
  <2>2. /\ Cardinality(Busy(d)') \in Nat /\ Cardinality(Busy(d)') <= Cardinality(Busy(d))
        /\ Cardinality(Busy(d)) \in Nat
    BY <2>1, OrdersFinite
  <2>3. Slots[d] \in Nat /\ Cardinality(Busy(d)) <= Slots[d]
    BY OrderAssumption DEF LanesInv
  <2> QED BY <2>2, <2>3
<1>7. \A d \in Departments :
        /\ \A p \in Queue(d)' : DepartmentOf[p] = d /\ p \notin active'
        /\ Distinct(queued'[d])
        /\ Cardinality(Busy(d)') <= Slots[d]
  BY <1>1, <1>2, <1>4, <1>6 DEF LanesInv
<1>8. /\ work' \in [Orders -> Nat]
      /\ \A p \in Orders : work'[p] < RequiredWork[p]
      /\ \A p \in Orders \ Lane' : work'[p] = 0
  <2>1. \A p \in Orders : RequiredWork[p] > 0
    BY OrderAssumption
  <2> QED BY <1>1, <1>5, <2>1 DEF LanesInv
<1> QED BY <1>1, <1>3, <1>5, <1>7, <1>8 DEF LanesInv, Distinct, out

\* A week of work: the orders that are done leave the lanes for the receipts.
LEMMA TickLane ==
    ASSUME LanesInv, NEW pace \in [Departments -> 0 .. 2], NEW withheld,
           ProcessTick(pace, withheld)
    PROVE  /\ LanesInv' /\ Lane' = Lane \ receipts'
           /\ receipts \subseteq receipts' /\ receipts' \ receipts \subseteq Lane
<1> DEFINE s == [d \in Departments |-> Shift(d, pace, withheld)]
           worked == UNION {s[d].worked : d \in Departments}
           done == UNION {s[d].done : d \in Departments}
<1>1. /\ queued' = [d \in Departments |-> s[d].queue]
      /\ active' = UNION {s[d].active : d \in Departments}
      /\ work' = [o \in Orders |->
                     IF o \in done THEN 0
                     ELSE IF o \in worked THEN work[o] + pace[DepartmentOf[o]]
                     ELSE work[o]]
      /\ receipts' = receipts \cup done /\ registered' = registered
  BY DEF ProcessTick
<1>2. \A d \in Departments :
        /\ s[d].queue \in Seq(Orders) /\ Distinct(s[d].queue)
        /\ Members(s[d].queue) \cap s[d].active = {}
        /\ Members(s[d].queue) \cap s[d].done = {} /\ s[d].active \cap s[d].done = {}
        /\ Members(s[d].queue) \cup s[d].active \cup s[d].done = Busy(d) \cup Queue(d)
        /\ Cardinality(s[d].active) <= Slots[d]
        /\ s[d].worked \subseteq s[d].active \cup s[d].done
        /\ \A o \in s[d].worked \ s[d].done : work[o] + pace[DepartmentOf[o]] < RequiredWork[o]
  BY Shifted
<1> HIDE DEF s
<1>3. \A d \in Departments : \A o \in Busy(d) \cup Queue(d) : DepartmentOf[o] = d /\ o \in Lane
  BY DEF LanesInv, Busy, Lane
<1>4. \A d \in Departments :
        \A o \in Members(s[d].queue) \cup s[d].active \cup s[d].done \cup s[d].worked :
            DepartmentOf[o] = d /\ o \in Lane
  BY <1>2, <1>3
<1>5. \A o \in Lane : o \in Orders /\ DepartmentOf[o] \in Departments
                      /\ o \in Busy(DepartmentOf[o]) \cup Queue(DepartmentOf[o])
  <2>1. \A d \in Departments : Queue(d) \subseteq Orders
    BY QueueDomain DEF LanesInv, Queue, Members
  <2>2. ASSUME NEW o \in active
        PROVE  /\ o \in Orders /\ DepartmentOf[o] \in Departments /\ o \in Busy(DepartmentOf[o])
    BY OrderAssumption DEF LanesInv, Busy
  <2>3. ASSUME NEW d \in Departments, NEW o \in Queue(d)
        PROVE  /\ o \in Orders /\ DepartmentOf[o] = d
    BY <2>1 DEF LanesInv
  <2> QED BY <2>2, <2>3 DEF Lane
<1>6. \A d \in Departments : Queue(d)' = Members(s[d].queue) /\ queued'[d] = s[d].queue
  BY <1>1 DEF Queue, Members
<1>7. \A o : o \in done <=> o \in Lane /\ o \in s[DepartmentOf[o]].done
  BY <1>4, <1>5
<1>8. \A o : o \in worked <=> o \in Lane /\ o \in s[DepartmentOf[o]].worked
  BY <1>4, <1>5
<1>9. \A o : o \in active' <=> o \in Lane /\ o \in s[DepartmentOf[o]].active
  BY <1>1, <1>4, <1>5
<1> HIDE DEF done, worked
<1>10. \A d \in Departments : Busy(d)' = s[d].active
  BY <1>4, <1>9 DEF Busy
<1>11. \A o : o \in Lane' <=> o \in Lane /\ o \notin done
  <2>1. \A o : o \in Lane' <=>
           o \in active' \/ (o \in Lane /\ o \in Members(s[DepartmentOf[o]].queue))
    <3>1. \A o : o \in UNION {Queue(d)' : d \in Departments} <=>
             \E d \in Departments : o \in Members(s[d].queue)
      BY <1>6
    <3>2. \A o : (\E d \in Departments : o \in Members(s[d].queue)) <=>
             o \in Lane /\ o \in Members(s[DepartmentOf[o]].queue)
      BY <1>4, <1>5
    <3>3. Lane' = active' \cup UNION {Queue(d)' : d \in Departments}
      BY DEF Lane
    <3>4. \A o : o \in Lane' <=> o \in active' \/ o \in UNION {Queue(d)' : d \in Departments}
      BY <3>3
    <3>5. ASSUME NEW o
          PROVE  o \in Lane' <=>
                    o \in active' \/ (o \in Lane /\ o \in Members(s[DepartmentOf[o]].queue))
      <4>1. o \in Lane' <=> o \in active' \/ \E d \in Departments : o \in Members(s[d].queue)
        BY <3>1, <3>4
      <4> QED BY <4>1, <3>2
    <3> QED BY <3>5
  <2>2. \A o \in Lane :
           /\ o \in Members(s[DepartmentOf[o]].queue) \cup s[DepartmentOf[o]].active
                       \cup s[DepartmentOf[o]].done
           /\ o \in s[DepartmentOf[o]].done =>
                 o \notin Members(s[DepartmentOf[o]].queue) \cup s[DepartmentOf[o]].active
    BY <1>2, <1>5
  <2>3. \A o \in Lane :
           o \in s[DepartmentOf[o]].active => o \notin s[DepartmentOf[o]].done
    BY <1>2, <1>5
  <2> SUFFICES ASSUME NEW o \in Lane
               PROVE  o \in Lane' <=> o \notin done
    BY <2>1, <1>9
  <2>4. o \in Lane' <=> \/ o \in s[DepartmentOf[o]].active
                         \/ o \in Members(s[DepartmentOf[o]].queue)
    <3>1. o \in active' <=> o \in s[DepartmentOf[o]].active
      BY <1>9
    <3>2. o \in Lane' <=> o \in active' \/ (o \in Lane /\ o \in Members(s[DepartmentOf[o]].queue))
      BY <2>1
    <3> QED BY <3>1, <3>2
  <2>5. o \in done <=> o \in s[DepartmentOf[o]].done
    BY <1>7
  <2> QED BY <2>2, <2>3, <2>4, <2>5
<1>12. /\ Lane \cap receipts = {} /\ done \subseteq Lane /\ Lane' = Lane \ done
       /\ Lane \subseteq registered
  BY <1>7, <1>11 DEF LanesInv
<1>13. \A d \in Departments :
        /\ \A p \in Queue(d)' : DepartmentOf[p] = d /\ p \notin active'
        /\ Distinct(queued'[d])
        /\ Cardinality(Busy(d)') <= Slots[d]
  BY <1>2, <1>4, <1>6, <1>9, <1>10
<1>14. \A o \in Orders : /\ work'[o] \in Nat /\ work'[o] < RequiredWork[o]
                         /\ o \notin Lane' => work'[o] = 0
  <2> SUFFICES ASSUME NEW o \in Orders
               PROVE  /\ work'[o] \in Nat /\ work'[o] < RequiredWork[o]
                      /\ o \notin Lane' => work'[o] = 0
    OBVIOUS
  <2>1. RequiredWork[o] \in Nat \ {0} /\ work[o] \in Nat /\ pace[DepartmentOf[o]] \in Nat
    <3>1. RequiredWork[o] \in Nat \ {0} /\ DepartmentOf[o] \in Departments
      BY OrderAssumption
    <3>2. pace[DepartmentOf[o]] \in 0 .. 2
      BY <3>1
    <3> QED BY <3>1, <3>2 DEF LanesInv
  <2>2. CASE o \in done
    BY <1>1, <2>1, <2>2
  <2>3. CASE o \notin done /\ o \in worked
    <3>1. work'[o] = work[o] + pace[DepartmentOf[o]] /\ o \in Lane
      BY <1>1, <1>8, <2>3
    <3>2. o \in s[DepartmentOf[o]].worked \ s[DepartmentOf[o]].done
      BY <1>7, <1>8, <2>3
    <3>3. work[o] + pace[DepartmentOf[o]] < RequiredWork[o]
      BY <1>2, <1>5, <3>1, <3>2
    <3> QED BY <1>12, <2>1, <2>3, <3>1, <3>3
  <2>4. CASE o \notin done /\ o \notin worked
    BY <1>1, <1>12, <2>4 DEF LanesInv
  <2> QED BY <2>2, <2>3, <2>4
<1>15. queued' \in [Departments -> Seq(Orders)] /\ work' \in [Orders -> Nat]
  <2>1. queued' \in [Departments -> Seq(Orders)]
    BY <1>1, <1>2
  <2>2. DOMAIN work' = Orders /\ work' = [o \in Orders |-> work'[o]]
    BY <1>1
  <2> QED BY <1>14, <2>1, <2>2
<1>16. /\ active' \subseteq Orders /\ Lane' \subseteq registered' \ receipts'
       /\ receipts' \subseteq registered'
  <2>1. receipts' = receipts \cup done /\ registered' = registered
    BY <1>1
  <2>2. receipts \subseteq registered
    BY DEF LanesInv
  <2>3. active' \subseteq Orders
    BY <1>5, <1>9
  <2> QED BY <1>12, <2>1, <2>2, <2>3
<1>17. LanesInv'
  BY <1>13, <1>14, <1>15, <1>16 DEF LanesInv, Distinct
<1> QED BY <1>1, <1>12, <1>17

-----------------------------------------------------------------------------
(* The flow of orders through a week *)

\* The types that neither Types nor LanesInv name, and the bounds of the counters.
OtherTypes ==
    /\ cursor \in 1 .. (LastOrder + LastCase)
    /\ workshops \subseteq Departments
    /\ signalled \subseteq Orders /\ entered \subseteq Orders
    /\ handedOff \subseteq Cases
    /\ trades \in 0 .. MaxTrades

\* Inputs are held for processing orders: those in a lane, and those done this
\* week that the pass that credits has yet to reach.
ReservedIsWorked ==
    /\ reserved \subseteq Processing
    /\ \A o \in Live(reserved, open) :
          \/ o \in Lane
          \/ o \in receipts /\ phase = "credit" /\ cursor <= o

\* A processing order in a lane holds its inputs, unless they were just given
\* back and the lanes are about to be cleaned.
WorkedIsReserved ==
    \A o \in Live(Lane \cap Processing, open) :
        \/ o \in reserved
        \/ Terminal(o) /\ phase \in {"release", "clean"}

\* A processing order that is done has become its output, or is about to.
DoneIsCredited ==
    /\ \A o \in Orders : fate[o] # "planned" => o \in Processing
    /\ \A o \in Live(receipts \cap Processing, open) :
          \/ fate[o] = "credited"
          \/ phase = "credit" /\ cursor <= o /\ o \in reserved

\* The requested orders of a product are done and credited, and a case with a
\* product is open only until the week's last step.
Products ==
    /\ \A c \in fabricated : \A o \in Requested[c] : o \in receipts /\ fate[o] = "credited"
    /\ \A c \in fabricated \cap open : phase \in {"fabricate", "resolve"} /\ c \in handedOff
    /\ phase \in {"fabricate", "resolve"} =>
          \A c \in handedOff \cap open :
              \A o \in Requested[c] : o \in receipts /\ fate[o] = "credited"

FlowInv == ReservedIsWorked /\ WorkedIsReserved /\ DoneIsCredited /\ Products

WeekInv == IInv /\ OtherTypes /\ LanesInv /\ FlowInv

-----------------------------------------------------------------------------

\* What the invariant says of the orders of open cases, in one place.
LEMMA OpenOrders ==
    ASSUME IInv, LanesInv, FlowInv
    PROVE  /\ open \subseteq opening /\ Lane \cap receipts = {}
           /\ Lane \subseteq registered /\ receipts \subseteq registered /\ registered \subseteq Orders
           /\ \A o \in Orders : o \notin registered => fate[o] = "planned"
           /\ \A o \in reserved : CaseOf[o] \in opening => fate[o] = "held"
           /\ \A o \in reserved : o \in Orders /\ o \in Processing
BY DEF IInv, Types, HeldIsReserved, LanesInv, FlowInv, ReservedIsWorked

\* Commands and steps that move no order between lanes, reservations and
\* receipts, outside of the passes that settle orders.
LEMMA QuietFlow ==
    ASSUME IInv, LanesInv, FlowInv,
           Lane \subseteq Lane', Lane' \cap Processing \subseteq Lane,
           Live(reserved, open) \subseteq reserved', reserved' \subseteq reserved,
           receipts' = receipts, open' \subseteq open,
           UNCHANGED <<fate, fabricated, handedOff>>,
           phase \notin {"credit", "release", "clean", "fabricate", "resolve"},
           phase' \notin {"fabricate", "resolve"}
    PROVE  FlowInv'
<1>1. ReservedIsWorked'
  BY DEF FlowInv, ReservedIsWorked, Live
<1>2. WorkedIsReserved'
  BY DEF FlowInv, WorkedIsReserved, Live
<1>3. DoneIsCredited'
  BY DEF FlowInv, DoneIsCredited, Live
<1>4. Products'
  BY DEF FlowInv, Products
<1> QED BY <1>1, <1>2, <1>3, <1>4 DEF FlowInv

\* An order takes its inputs and joins a lane.
LEMMA ReserveFlow ==
    ASSUME IInv, LanesInv, FlowInv, NEW o \in Orders,
           Reservable(o, opening), Reserve(o, opening),
           phase \notin {"credit", "release", "clean", "fabricate", "resolve"},
           phase' \notin {"fabricate", "resolve"}
    PROVE  LanesInv' /\ FlowInv'
<1>0. /\ o \in Processing /\ o \notin registered /\ CaseOf[o] \in opening
      /\ reserved' = Live(reserved, opening) \cup {o}
      /\ fate' = [fate EXCEPT ![o] = "held"]
      /\ UNCHANGED <<receipts, signalled, open, opening, handedOff, fabricated>>
      /\ Enqueue(o)
  BY DEF Reservable, Reserve, Enqueueable, Live, proofs, closure
<1>1. LanesInv' /\ Lane' = Lane \cup {o}
  BY <1>0, EnqueueLane
<1>2. o \notin receipts /\ open \subseteq opening
  BY <1>0, OpenOrders
<1>3. \A p \in Orders : fate'[p] = IF p = o THEN "held" ELSE fate[p]
  BY <1>0 DEF IInv, Types
<1>4. ReservedIsWorked'
  BY <1>0, <1>1 DEF FlowInv, ReservedIsWorked, Live
<1>5. WorkedIsReserved'
  BY <1>0, <1>1, <1>2 DEF FlowInv, WorkedIsReserved, Live
<1>6. DoneIsCredited'
  <2>1. \A p \in Live(receipts \cap Processing, open) : p \in Orders /\ p # o
    BY <1>2 DEF IInv, Types, Live
  <2> QED BY <1>0, <1>3, <2>1 DEF FlowInv, DoneIsCredited, Live
<1>7. Products'
  <2>1. \A p \in receipts : p \in Orders /\ p # o
    BY <1>2 DEF IInv, Types
  <2> QED BY <1>0, <1>3, <2>1 DEF FlowInv, Products
<1> QED BY <1>1, <1>4, <1>5, <1>6, <1>7 DEF FlowInv

\* The week's work is done.
LEMMA TickFlow ==
    ASSUME IInv, LanesInv, FlowInv, NEW pace \in [Departments -> 0 .. 2], NEW withheld,
           ProcessTick(pace, withheld)
    PROVE  LanesInv' /\ FlowInv'
<1>0. /\ phase = "tick" /\ phase' = "credit" /\ cursor' = 1
      /\ UNCHANGED <<reserved, signalled, registered, open, opening, handedOff, fabricated, fate>>
  BY DEF ProcessTick, AdvanceTo, closure, materials
<1>1. /\ LanesInv' /\ Lane' = Lane \ receipts'
      /\ receipts \subseteq receipts' /\ receipts' \ receipts \subseteq Lane
  BY TickLane
<1>2. \A o \in reserved : o \in Orders /\ 1 <= o
  BY DEF IInv, Types, Orders
<1>3. ReservedIsWorked'
  BY <1>0, <1>1, <1>2 DEF FlowInv, ReservedIsWorked, Live
<1>4. WorkedIsReserved'
  BY <1>0, <1>1 DEF FlowInv, WorkedIsReserved, Live
<1>5. DoneIsCredited'
  BY <1>0, <1>1, <1>2 DEF FlowInv, DoneIsCredited, WorkedIsReserved, Live
<1>6. Products'
  BY <1>0, <1>1 DEF FlowInv, Products
<1> QED BY <1>1, <1>3, <1>4, <1>5, <1>6 DEF FlowInv

\* The pass that credits completions, at one order.
LEMMA CreditFlow ==
    ASSUME IInv, LanesInv, FlowInv, NEW o \in Orders, CreditCompletion(o)
    PROVE  LanesInv' /\ FlowInv'
<1>0. /\ phase = "credit" /\ cursor = o /\ NextOrder("release")
      /\ UNCHANGED <<queued, active, work, receipts, signalled, registered, open, opening,
                     handedOff, fabricated>>
  BY DEF CreditCompletion, lanes, proofs, closure
<1>1. LanesInv' /\ Lane' = Lane
  BY <1>0, LanesUntouched
<1>2. \/ phase' = "credit" /\ \A p \in Orders : o <= p /\ p # o => cursor' <= p
      \/ phase' = "release" /\ \A p \in Orders : o <= p => p = o
  <2>1. CASE cursor < LastOrder
    <3>1. phase' = "credit" /\ cursor' = o + 1
      BY <1>0, <2>1 DEF NextOrder
    <3>2. \A p \in Orders : o <= p /\ p # o => o + 1 <= p
      BY CountsAssumption DEF Orders
    <3> QED BY <3>1, <3>2
  <2>2. CASE ~(cursor < LastOrder)
    <3>1. phase' = "release"
      BY <1>0, <2>2 DEF NextOrder, AdvanceTo
    <3>2. \A p \in Orders : o <= p => p = o
      BY <1>0, <2>2, CountsAssumption DEF Orders
    <3> QED BY <3>1, <3>2
  <2> QED BY <2>1, <2>2
<1>3. \A p : /\ p \in Live(reserved, open) <=> p \in reserved /\ CaseOf[p] \in open
             /\ p \in Live(reserved, opening) <=> p \in reserved /\ CaseOf[p] \in opening
  BY DEF Live
<1>4. /\ open \subseteq opening /\ Lane \cap receipts = {}
      /\ \A p \in reserved : p \in Orders /\ p \in Processing
  BY OpenOrders
<1>5. /\ \A p \in reserved' : p \in reserved
      /\ \A p \in reserved : p \in reserved' \/ p = o \/ CaseOf[p] \notin opening
      /\ \A p \in Orders : fate'[p] = fate[p] \/ (p = o /\ fate'[p] = "credited" /\ p \in reserved)
      /\ o \in receipts /\ o \in reserved /\ CaseOf[o] \in opening =>
            o \notin reserved' /\ fate'[o] = "credited"
      /\ o \notin receipts => \A p \in Orders : p = o /\ p \in reserved => p \in reserved'
  BY <1>3 DEF CreditCompletion, Settled, IInv, Types, Live
<1>6. ReservedIsWorked'
  <2>1. \A p \in Live(reserved', open') : p \in Lane' \/ (p \in receipts' /\ phase' = "credit" /\ cursor' <= p)
    BY <1>0, <1>1, <1>2, <1>4, <1>5 DEF FlowInv, ReservedIsWorked, Live
  <2> QED BY <1>5, <2>1 DEF FlowInv, ReservedIsWorked
<1>7. WorkedIsReserved'
  BY <1>0, <1>1, <1>4, <1>5 DEF FlowInv, WorkedIsReserved, Live
<1>8. DoneIsCredited'
  <2>1. \A p \in Orders : fate'[p] # "planned" => p \in Processing
    BY <1>4, <1>5 DEF FlowInv, DoneIsCredited
  <2>2. \A p \in Live(receipts' \cap Processing, open') :
           fate'[p] = "credited" \/ (phase' = "credit" /\ cursor' <= p /\ p \in reserved')
    BY <1>0, <1>2, <1>4, <1>5 DEF FlowInv, DoneIsCredited, Live, IInv, Types
  <2> QED BY <2>1, <2>2 DEF DoneIsCredited
<1>9. Products'
  <2>1. \A p \in receipts : p \in Orders
    BY DEF IInv, Types
  <2> QED BY <1>0, <1>2, <1>5, <2>1 DEF FlowInv, Products
<1> QED BY <1>1, <1>6, <1>7, <1>8, <1>9 DEF FlowInv

\* The pass that releases reservations, at one order.
LEMMA ReleaseFlow ==
    ASSUME IInv, LanesInv, FlowInv, NEW o \in Orders, ReleaseReservation(o)
    PROVE  LanesInv' /\ FlowInv'
<1>0. /\ phase = "release" /\ NextOrder("clean")
      /\ UNCHANGED <<queued, active, work, receipts, signalled, registered, open, opening,
                     handedOff, fabricated>>
  BY DEF ReleaseReservation, lanes, proofs, closure
<1>1. LanesInv' /\ Lane' = Lane
  BY <1>0, LanesUntouched
<1>2. phase' \in {"release", "clean"}
  BY <1>0 DEF NextOrder, AdvanceTo
<1>3. /\ open \subseteq opening
      /\ \A p \in reserved : p \in Orders /\ p \in Processing
  BY OpenOrders
<1>4. /\ \A p \in reserved' : p \in reserved
      /\ \A p \in reserved : p \in reserved' \/ (p = o /\ Terminal(o)) \/ CaseOf[p] \notin opening
      /\ \A p \in Orders : fate'[p] = fate[p] \/ (p = o /\ p \in reserved /\ Terminal(o))
  BY DEF ReleaseReservation, IInv, Types, Live
<1>5. \A p : Terminal(p)' <=> Terminal(p)
  BY <1>0 DEF Terminal
<1>6. ReservedIsWorked'
  BY <1>0, <1>1, <1>4 DEF FlowInv, ReservedIsWorked, Live
<1>7. WorkedIsReserved'
  BY <1>0, <1>1, <1>2, <1>3, <1>4, <1>5 DEF FlowInv, WorkedIsReserved, Live
<1>8. Terminal(o) => o \notin receipts
  BY DEF Terminal
<1>9. DoneIsCredited'
  <2>1. \A p \in Orders : fate'[p] # "planned" => p \in Processing
    BY <1>3, <1>4 DEF FlowInv, DoneIsCredited
  <2>2. \A p \in Live(receipts' \cap Processing, open') : fate'[p] = "credited"
    BY <1>0, <1>4, <1>8 DEF FlowInv, DoneIsCredited, Live, IInv, Types
  <2> QED BY <2>1, <2>2 DEF DoneIsCredited
<1>10. Products'
  <2>1. \A p \in receipts : p \in Orders
    BY DEF IInv, Types
  <2> QED BY <1>0, <1>2, <1>4, <1>8, <2>1 DEF FlowInv, Products
<1> QED BY <1>1, <1>6, <1>7, <1>9, <1>10 DEF FlowInv

\* Terminal orders leave the lanes.
LEMMA CleanFlow ==
    ASSUME IInv, LanesInv, FlowInv, CleanLanes
    PROVE  LanesInv' /\ FlowInv'
<1>0. /\ phase = "clean" /\ phase' = "succeed"
      /\ UNCHANGED <<receipts, signalled, registered, open, opening, reserved,
                     handedOff, fabricated, fate>>
  BY DEF CleanLanes, AdvanceTo, proofs, closure, materials
<1>1. LanesInv' /\ Lane' = Lane \ Removable
  BY CleanLane
<1>2. open \subseteq opening
  BY OpenOrders
<1>3. \A p : p \in Removable <=>
         /\ p \in Processing /\ CaseOf[p] \in open /\ Terminal(p)
         /\ ~(p \in reserved /\ CaseOf[p] \in opening)
  BY DEF Removable, Live
<1> HIDE DEF Removable
<1>4. ReservedIsWorked'
  BY <1>0, <1>1, <1>2, <1>3 DEF FlowInv, ReservedIsWorked, Live
<1>5. WorkedIsReserved'
  BY <1>0, <1>1, <1>2, <1>3 DEF FlowInv, WorkedIsReserved, Live
<1>6. DoneIsCredited' /\ Products'
  BY <1>0 DEF FlowInv, DoneIsCredited, Products, Live
<1> QED BY <1>1, <1>4, <1>5, <1>6 DEF FlowInv

\* Finalization: handing off, fabricating, closing.
LEMMA FinalFlow ==
    ASSUME IInv, LanesInv, FlowInv,
           HandOff \/ (\E c \in Cases, funded \in BOOLEAN : Fabricate(c, funded)) \/ ResolveFinalized
    PROVE  LanesInv' /\ FlowInv'
<1>0. UNCHANGED <<queued, active, work, receipts, signalled, registered, reserved>>
  BY DEF HandOff, Fabricate, ResolveFinalized, lanes, proofs, materials
<1>1. LanesInv' /\ Lane' = Lane
  BY <1>0, LanesUntouched
<1>2. CASE HandOff
  <2>1. /\ phase = "handoff" /\ phase' = "fabricate"
        /\ UNCHANGED <<open, fabricated, fate>>
        /\ \A c \in handedOff' \cap open : RequestDone(c, entered' \cap receipts)
    BY <1>2 DEF HandOff, AdvanceTo, materials
  <2>2. ReservedIsWorked' /\ WorkedIsReserved' /\ DoneIsCredited'
    BY <1>0, <1>1, <2>1 DEF FlowInv, ReservedIsWorked, WorkedIsReserved, DoneIsCredited, Live
  <2>3. \A c \in handedOff' \cap open : \A o \in Requested[c] : o \in receipts /\ fate[o] = "credited"
    <3> SUFFICES ASSUME NEW c \in handedOff' \cap open, NEW o \in Requested[c]
                 PROVE  o \in receipts /\ fate[o] = "credited"
      OBVIOUS
    <3>1. o \in receipts
      BY <2>1 DEF RequestDone
    <3>2. c \in Cases /\ o \in Processing /\ o \in Orders /\ CaseOf[o] = c
      BY OrderAssumption DEF IInv, Types
    <3> QED BY <2>1, <3>1, <3>2 DEF FlowInv, DoneIsCredited, Live
  <2>4. Products'
    BY <1>0, <2>1, <2>3 DEF FlowInv, Products
  <2> QED BY <1>1, <2>2, <2>4 DEF FlowInv
<1>3. ASSUME NEW c \in Cases, NEW funded \in BOOLEAN, Fabricate(c, funded) PROVE FlowInv'
  <2>1. /\ phase = "fabricate" /\ phase' \in {"fabricate", "resolve"}
        /\ UNCHANGED <<open, handedOff, fate>>
        /\ fabricated' = fabricated \/ (fabricated' = fabricated \cup {c} /\ c \in open \cap handedOff)
    BY <1>3 DEF Fabricate, NextCase, AdvanceTo, Fabricable
  <2>2. ReservedIsWorked' /\ WorkedIsReserved' /\ DoneIsCredited'
    BY <1>0, <1>1, <2>1 DEF FlowInv, ReservedIsWorked, WorkedIsReserved, DoneIsCredited, Live
  <2>3. Products'
    BY <1>0, <2>1 DEF FlowInv, Products
  <2> QED BY <2>2, <2>3 DEF FlowInv
<1>4. CASE ResolveFinalized
  <2>1. /\ phase = "resolve" /\ phase' = "commands" /\ open' \subseteq open
        /\ open' = open \ (handedOff \cap fabricated)
        /\ UNCHANGED <<handedOff, fabricated>>
        /\ \A o \in Orders : fate'[o] = fate[o] \/ (fate[o] = "held" /\ fate'[o] = "forfeited")
    BY <1>4 DEF ResolveFinalized, AdvanceTo, Lost
  <2>2. receipts \subseteq Orders
    BY DEF IInv, Types
  <2>3. ReservedIsWorked' /\ WorkedIsReserved'
    BY <1>0, <1>1, <2>1 DEF FlowInv, ReservedIsWorked, WorkedIsReserved, Live
  <2>4. DoneIsCredited'
    BY <1>0, <2>1, <2>2 DEF FlowInv, DoneIsCredited, Live
  <2>5. Products'
    BY <1>0, <2>1, <2>2 DEF FlowInv, Products
  <2> QED BY <1>1, <2>3, <2>4, <2>5 DEF FlowInv
<1> QED BY <1>1, <1>2, <1>3, <1>4

\* A command keeps the lanes and the flow of orders.
LEMMA CommandFlow ==
    ASSUME IInv, LanesInv, FlowInv, Command
    PROVE  LanesInv' /\ FlowInv'
<1> USE DEF proofs, closure, materials
<1>0. phase = "commands"
  BY DEF Command, EnqueueOrder, ReserveOrder, Prioritize, OpenWorkshop, CancelCase,
         BuyMaterial, UseMaterial, Hydrate
<1>1. opening = open
  BY <1>0 DEF IInv, HeldIsReserved
<1>2. ASSUME UNCHANGED <<phase, queued, active, work, registered, receipts, open, fate,
                         fabricated, handedOff>>,
             reserved' = reserved \/ reserved' = Live(reserved, open)
      PROVE  LanesInv' /\ FlowInv'
  <2>1. LanesInv' /\ Lane' = Lane
    BY <1>2, LanesUntouched
  <2>2. Live(reserved, open) \subseteq reserved' /\ reserved' \subseteq reserved
    BY <1>2 DEF Live
  <2> QED BY <1>0, <1>2, <2>1, <2>2, QuietFlow
<1>3. ASSUME NEW o \in Orders, EnqueueOrder(o) PROVE LanesInv' /\ FlowInv'
  <2>1. /\ o \notin registered /\ o \notin Processing /\ Enqueue(o)
        /\ UNCHANGED <<phase, receipts, open, reserved, fate, fabricated, handedOff>>
    BY <1>3 DEF EnqueueOrder, Enqueueable
  <2>2. LanesInv' /\ Lane' = Lane \cup {o}
    BY <2>1, EnqueueLane
  <2>3. Live(reserved, open) \subseteq reserved'
    BY <2>1 DEF Live
  <2> QED BY <1>0, <2>1, <2>2, <2>3, QuietFlow
<1>4. ASSUME NEW o \in Orders, ReserveOrder(o) PROVE LanesInv' /\ FlowInv'
  <2>1. Reservable(o, opening) /\ Reserve(o, opening) /\ phase' = phase
    BY <1>1, <1>4 DEF ReserveOrder
  <2> QED BY <1>0, <2>1, ReserveFlow
<1>5. ASSUME NEW o \in Orders, Prioritize(o) PROVE LanesInv' /\ FlowInv'
  <2>1. UNCHANGED <<phase, receipts, open, reserved, fate, fabricated, handedOff>>
    BY <1>5 DEF Prioritize
  <2>2. LanesInv' /\ Lane' = Lane
    BY <1>5, PrioritizeLane
  <2>3. Live(reserved, open) \subseteq reserved'
    BY <2>1 DEF Live
  <2> QED BY <1>0, <2>1, <2>2, <2>3, QuietFlow
<1>6. ASSUME NEW d \in Departments, OpenWorkshop(d) PROVE LanesInv' /\ FlowInv'
  BY <1>2, <1>6 DEF OpenWorkshop
<1>7. ASSUME NEW c \in Cases, CancelCase(c) PROVE LanesInv' /\ FlowInv'
  BY <1>2, <1>7 DEF CancelCase, lanes
<1>8. ASSUME NEW m \in Materials, BuyMaterial(m) \/ UseMaterial(m) PROVE LanesInv' /\ FlowInv'
  BY <1>2, <1>8 DEF BuyMaterial, UseMaterial, lanes
<1>9. CASE Hydrate
  BY <1>2, <1>9 DEF Hydrate, lanes
<1> QED BY <1>3, <1>4, <1>5, <1>6, <1>7, <1>8, <1>9 DEF Command

\* So does the close of the week.
LEMMA CloseFlow ==
    ASSUME IInv, LanesInv, FlowInv, Close
    PROVE  LanesInv' /\ FlowInv'
<1>1. ASSUME UNCHANGED <<lanes, receipts, reserved, fate, fabricated, handedOff>>,
             open' \subseteq open, phase \in {"commands", "missions", "succeed"},
             phase' \in {"missions", "tick", "succeed", "handoff"}
      PROVE  LanesInv' /\ FlowInv'
  <2>1. LanesInv' /\ Lane' = Lane
    BY <1>1, LanesUntouched DEF lanes
  <2>2. Live(reserved, open) \subseteq reserved'
    BY <1>1 DEF Live
  <2> QED BY <1>1, <2>1, <2>2, QuietFlow
<1>2. CASE CloseWeek
  BY <1>1, <1>2 DEF CloseWeek, AdvanceTo, proofs, closure, materials
<1>3. ASSUME NEW won \in SUBSET Cases, NEW failed \in SUBSET Cases, ResolveMissions(won, failed)
      PROVE  LanesInv' /\ FlowInv'
  BY <1>1, <1>3 DEF ResolveMissions, AdvanceTo, materials
<1>4. ASSUME NEW pace \in [Departments -> 0 .. 2], NEW withheld, ProcessTick(pace, withheld)
      PROVE  LanesInv' /\ FlowInv'
  BY <1>4, TickFlow
<1>5. ASSUME NEW o \in Orders, CreditCompletion(o) PROVE LanesInv' /\ FlowInv'
  BY <1>5, CreditFlow
<1>6. ASSUME NEW o \in Orders, ReleaseReservation(o) PROVE LanesInv' /\ FlowInv'
  BY <1>6, ReleaseFlow
<1>7. ASSUME NEW o \in Orders, ActivateSuccessor(o) PROVE LanesInv' /\ FlowInv'
  <2>1. /\ phase = "succeed" /\ Reservable(o, opening) /\ Reserve(o, opening)
        /\ phase' \in {"succeed", "handoff"}
    BY <1>7 DEF ActivateSuccessor, NextCase, AdvanceTo
  <2> QED BY <2>1, ReserveFlow
<1>8. CASE CleanLanes
  BY <1>8, CleanFlow
<1>9. ASSUME NEW c \in Cases, NoSuccessor(c) PROVE LanesInv' /\ FlowInv'
  <2>1. phase = "succeed" /\ phase' \in {"succeed", "handoff"}
    BY <1>9 DEF NoSuccessor, NextCase, AdvanceTo
  <2> QED BY <1>1, <1>9, <2>1 DEF NoSuccessor, proofs, closure, materials
<1>10. CASE HandOff \/ (\E c \in Cases, funded \in BOOLEAN : Fabricate(c, funded)) \/ ResolveFinalized
  BY <1>10, FinalFlow
<1> QED BY <1>2, <1>3, <1>4, <1>5, <1>6, <1>7, <1>8, <1>9, <1>10 DEF Close

\* The other types and bounds.
LEMMA OtherTypesKept ==
    ASSUME IInv, OtherTypes, Next
    PROVE  OtherTypes'
<1> USE DEF lanes, proofs, closure, materials
<1>0. Orders = 1 .. LastOrder /\ Cases = 1 .. LastCase /\ LastOrder \in Nat \ {0} /\ LastCase \in Nat \ {0}
  BY CountsAssumption DEF Orders, Cases
<1>1. cursor' \in 1 .. (LastOrder + LastCase)
  <2>1. ASSUME NEW next, NextOrder(next) PROVE cursor' \in 1 .. (LastOrder + LastCase)
    BY <1>0, <2>1 DEF OtherTypes, NextOrder, AdvanceTo
  <2>2. ASSUME NEW next, NextCase(next) PROVE cursor' \in 1 .. (LastOrder + LastCase)
    BY <1>0, <2>2 DEF OtherTypes, NextCase, AdvanceTo
  <2>3. CASE cursor' = cursor \/ cursor' = 1
    BY <1>0, <2>3 DEF OtherTypes
  <2>4. CASE Command
    <3>1. cursor' = cursor
      BY <2>4 DEF Command, EnqueueOrder, ReserveOrder, Prioritize, OpenWorkshop, CancelCase,
                  BuyMaterial, UseMaterial, Hydrate
    <3> QED BY <2>3, <3>1
  <2>5. CASE Close
    BY <2>1, <2>2, <2>3, <2>5
    DEF Close, CloseWeek, ResolveMissions, ProcessTick, CreditCompletion, ReleaseReservation,
        ActivateSuccessor, CleanLanes, NoSuccessor, HandOff, Fabricate, ResolveFinalized, AdvanceTo
  <2> QED BY <2>4, <2>5 DEF Next
<1>2. /\ \A c : Signalled(c) \subseteq Orders
      /\ Live(receipts, open) \subseteq Orders
  BY DEF Signalled, IInv, Types, Live
<1>3. CASE Command
  <2>1. workshops' \subseteq Departments
    BY <1>3 DEF Command, EnqueueOrder, ReserveOrder, Reserve, Enqueue, Prioritize, OpenWorkshop,
                CancelCase, BuyMaterial, UseMaterial, Hydrate, OtherTypes
  <2>2. signalled' \subseteq Orders
    BY <1>2, <1>3 DEF Command, EnqueueOrder, ReserveOrder, Reserve, Enqueue, Prioritize, OpenWorkshop,
                CancelCase, BuyMaterial, UseMaterial, Hydrate, OtherTypes
  <2>3. entered' \subseteq Orders /\ handedOff' \subseteq Cases
    BY <1>3 DEF Command, EnqueueOrder, ReserveOrder, Reserve, Enqueue, Prioritize, OpenWorkshop,
                CancelCase, BuyMaterial, UseMaterial, Hydrate, OtherTypes
  <2>4. trades' \in 0 .. MaxTrades
    <3>1. trades' = trades \/ (trades < MaxTrades /\ trades' = trades + 1)
      BY <1>3 DEF Command, EnqueueOrder, ReserveOrder, Reserve, Enqueue, Prioritize, OpenWorkshop,
                CancelCase, BuyMaterial, UseMaterial, Hydrate
    <3> QED BY <3>1, CountsAssumption DEF OtherTypes
  <2> QED BY <1>1, <2>1, <2>2, <2>3, <2>4 DEF OtherTypes
<1>4. CASE Close
  <2>1. UNCHANGED <<workshops, trades>>
    BY <1>4 DEF Close, CloseWeek, ResolveMissions, ProcessTick, CreditCompletion, ReleaseReservation,
        ActivateSuccessor, CleanLanes, NoSuccessor, HandOff, Fabricate, ResolveFinalized,
        Reserve, Enqueue
  <2>2. \/ signalled' = signalled
        \/ \E failed \in SUBSET Cases : signalled' = signalled \cup UNION {Signalled(c) : c \in failed}
    BY <1>4 DEF Close, CloseWeek, ResolveMissions, ProcessTick, CreditCompletion, ReleaseReservation,
        ActivateSuccessor, CleanLanes, NoSuccessor, HandOff, Fabricate, ResolveFinalized,
        Reserve, Enqueue
  <2>3. \/ UNCHANGED <<entered, handedOff>>
        \/ HandOff
    BY <1>4 DEF Close, CloseWeek, ResolveMissions, ProcessTick, CreditCompletion, ReleaseReservation,
        ActivateSuccessor, CleanLanes, NoSuccessor, Fabricate, ResolveFinalized,
        Reserve, Enqueue
  <2>4. signalled' \subseteq Orders
    BY <1>2, <2>2 DEF OtherTypes
  <2>5. entered' \subseteq Orders /\ handedOff' \subseteq Cases
    BY <1>2, <2>3 DEF OtherTypes, HandOff, IInv, Types
  <2> QED BY <1>1, <2>1, <2>4, <2>5 DEF OtherTypes
<1> QED BY <1>3, <1>4 DEF Next

LEMMA WeekInductive ==
    ASSUME WeekInv, [Next]_vars
    PROVE  WeekInv'
<1>1. IInv'
  BY Inductive DEF WeekInv
<1>2. CASE UNCHANGED vars
  <2> USE <1>2 DEF vars, lanes, proofs, closure, materials
  <2>1. LanesInv' /\ Lane' = Lane
    BY LanesUntouched DEF WeekInv
  <2>2. OtherTypes'
    BY DEF WeekInv, OtherTypes
  <2>3. FlowInv'
    BY <2>1 DEF WeekInv, FlowInv, ReservedIsWorked, WorkedIsReserved, DoneIsCredited, Products,
                Live, Terminal
  <2> QED BY <1>1, <2>1, <2>2, <2>3 DEF WeekInv
<1>3. CASE Next
  BY <1>1, <1>3, CommandFlow, CloseFlow, OtherTypesKept DEF WeekInv, Next
<1> QED BY <1>2, <1>3

LEMMA WeekInitially == Init => WeekInv
<1> SUFFICES ASSUME Init PROVE WeekInv
  OBVIOUS
<1>1. IInv
  BY Initially
<1>2. OtherTypes
  BY CountsAssumption DEF Init, OtherTypes
<1>3. \A d \in Departments : /\ queued[d] = <<>> /\ Queue(d) = {} /\ Busy(d) = {}
  BY DEF Init, Queue, Busy
<1>4. Lane = {}
  BY <1>3 DEF Init, Lane
<1>5. LanesInv
  <2>1. <<>> \in Seq(Orders) /\ Distinct(<<>>)
    BY DEF Distinct
  <2>2. Cardinality({}) = 0 /\ \A d \in Departments : Slots[d] >= 0
    BY FS_EmptySet, OrderAssumption
  <2>3. \A o \in Orders : RequiredWork[o] > 0
    BY OrderAssumption
  <2>4. queued \in [Departments -> Seq(Orders)] /\ work \in [Orders -> Nat]
    BY <2>1 DEF Init
  <2>5. \A o \in Orders : work[o] = 0
    BY DEF Init
  <2> QED BY <1>3, <1>4, <2>1, <2>2, <2>3, <2>4, <2>5 DEF Init, LanesInv
<1>6. FlowInv
  BY <1>4 DEF Init, FlowInv, ReservedIsWorked, WorkedIsReserved, DoneIsCredited, Products, Live
<1> QED BY <1>1, <1>2, <1>5, <1>6 DEF WeekInv

\* The lanes and the other state of the workshop are always what a snapshot may
\* hold: nothing is in two lanes, is in a lane with a receipt, or exceeds the slots.
THEOREM LanesStaySound == Spec => []LanesSound
<1>1. WeekInv => LanesSound
  <2> SUFFICES ASSUME WeekInv PROVE LanesSound
    OBVIOUS
  <2>1. TypeOK
    BY DEF WeekInv, IInv, Types, OtherTypes, LanesInv, TypeOK
  <2>2. \A o \in Lane : o \in Orders
    BY DEF WeekInv, IInv, Types, LanesInv
  <2> QED BY <2>1, <2>2 DEF WeekInv, LanesInv, LanesSound, Distinct, Busy
<1> QED BY <1>1, WeekInitially, WeekInductive, PTL DEF Spec

\* Between weeks inputs are held for exactly the processing orders in the lanes
\* of open cases.
THEOREM ReservationsAgreeWithLanes == Spec => []ReservationsBackLanes
<1>1. WeekInv => ReservationsBackLanes
  BY DEF WeekInv, FlowInv, ReservedIsWorked, WorkedIsReserved, ReservationsBackLanes, Live
<1> QED BY <1>1, WeekInitially, WeekInductive, PTL DEF Spec

\* A case is handed to fabrication only when every requested order was done and
\* had become its output, and it is closed by the end of that week.
THEOREM ProductsFromOutputs == Spec => []FabricatedFromOutputs
<1>1. WeekInv => FabricatedFromOutputs
  BY DEF WeekInv, FlowInv, Products, FabricatedFromOutputs
<1> QED BY <1>1, WeekInitially, WeekInductive, PTL DEF Spec

\* Once an order of an open case gave its inputs back, nothing of that case is
\* enqueued any more.
THEOREM RefundedCaseTakesNoWork == Spec => TerminalClosesCase
<1> DEFINE Closed == \A o \in Orders : fate[o] = "refunded" /\ CaseOf[o] \in open =>
                         \A p \in registered' \ registered : CaseOf[p] # CaseOf[o]
<1>1. ASSUME WeekInv, Next PROVE Closed
  <2>1. CASE registered' = registered
    BY <2>1
  <2>2. ASSUME NEW p \in Orders, Enqueueable(p), registered' = registered \cup {p},
               phase \in {"commands", "succeed"}
        PROVE  Closed
    <3> SUFFICES ASSUME NEW o \in Orders, fate[o] = "refunded", CaseOf[o] \in open,
                        CaseOf[p] = CaseOf[o]
                 PROVE  FALSE
      BY <2>2
    <3>1. o \in registered
      BY <1>1 DEF WeekInv, IInv, HeldIsReserved
    <3>2. o \in receipts
      BY <2>2, <3>1 DEF Enqueueable, CaseIsFree
    <3> QED BY <1>1, <2>2, <3>2 DEF WeekInv, FlowInv, DoneIsCredited, Live
  <2>3. CASE Command
    BY <1>1, <2>1, <2>2, <2>3
    DEF Command, EnqueueOrder, ReserveOrder, Reservable, Reserve, Enqueue, Prioritize,
        OpenWorkshop, CancelCase, BuyMaterial, UseMaterial, Hydrate, lanes
  <2>4. CASE Close
    BY <1>1, <2>1, <2>2, <2>4
    DEF Close, CloseWeek, ResolveMissions, ProcessTick, CreditCompletion, ReleaseReservation,
        ActivateSuccessor, Reservable, Reserve, Enqueue, CleanLanes, NoSuccessor, HandOff,
        Fabricate, ResolveFinalized, lanes
  <2> QED BY <1>1, <2>3, <2>4 DEF Next
<1>2. WeekInv /\ [Next]_vars => [Closed]_vars
  BY <1>1
<1> QED BY <1>2, WeekInitially, WeekInductive, PTL DEF Spec, TerminalClosesCase
=============================================================================
