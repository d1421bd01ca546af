------------------------------- MODULE Workshop -------------------------------
(***************************************************************************)
(* The department workshops: work orders wait in the queue of their        *)
(* department, are worked on in its slots and leave a receipt; processing  *)
(* orders of a case take their inputs from stock, produce an output and    *)
(* unlock the next order of the case; a case whose requested orders are    *)
(* done is handed to fabrication and closed.                               *)
(*                                                                         *)
(* Commands come between weeks.  The close of a week is one synchronous    *)
(* pass, told here as the phases it goes through; the passes that walk a   *)
(* registry in the order of its ids do so with a cursor.                   *)
(***************************************************************************)
EXTENDS Integers, FiniteSets, SequencesExt

CONSTANTS
    LastOrder,      \* work orders are 1 .. LastOrder, in the order of their ids
    LastCase,       \* cases are 1 .. LastCase, in the order of their ids
    Departments,
    Materials,
    Processing,     \* orders with a processing envelope: they consume materials
    CaseOf, DepartmentOf, RequiredWork, Prerequisites, Inputs, Outputs,
    Requested,      \* orders a case's finalization request names; none: no request
    FinalInputs,    \* what the final recipe of a case consumes
    Slots,          \* slot capacity of each department's workshop
    InitialStock,
    MaxTrades       \* bound on the purchases and uses by the player

Orders == 1 .. LastOrder
Cases == 1 .. LastCase

ASSUME CountsAssumption ==
    /\ LastOrder \in Nat \ {0}
    /\ LastCase \in Nat \ {0}
    /\ MaxTrades \in Nat

ASSUME OrderAssumption ==
    /\ Processing \subseteq Orders
    /\ CaseOf \in [Orders -> Cases]
    /\ DepartmentOf \in [Orders -> Departments]
    /\ RequiredWork \in [Orders -> Nat \ {0}]
    /\ Prerequisites \in [Orders -> SUBSET Processing]
    /\ \A o \in Orders, p \in Orders : p \in Prerequisites[o] => CaseOf[p] = CaseOf[o]
    /\ Requested \in [Cases -> SUBSET Processing]
    /\ \A c \in Cases, o \in Orders : o \in Requested[c] => CaseOf[o] = c
    /\ Slots \in [Departments -> Nat]

ASSUME MaterialAssumption ==
    /\ Inputs \in [Orders -> [Materials -> Nat]]
    /\ Outputs \in [Orders -> [Materials -> Nat]]
    /\ FinalInputs \in [Cases -> [Materials -> Nat]]
    /\ InitialStock \in [Materials -> Nat]

VARIABLES
    phase,          \* "commands" between weeks, or the phase of the week's close
    cursor,         \* order or case the current pass has reached
    open,           \* cases that are open or in progress
    opening,        \* the same when the week began
    workshops,      \* departments that have a workshop
    queued,         \* the queue of each department
    active,         \* orders that occupy a slot
    work,           \* completed work of each order in a lane, else 0
    registered,     \* departmentWorkshopWorkOrders
    receipts,       \* departmentWorkshopCompletionOutcomes
    reserved,       \* caseScopedPrerequisiteProcessingReservations
    signalled,      \* caseScopedPrerequisiteProcessingTerminalSignals
    entered,        \* departmentWorkshopCompletionWorkOrderIds of all cases
    handedOff,      \* cases with a finalization handoff
    fabricated,     \* cases with a fabrication queue id
    stock,          \* inventory
    trades,         \* purchases and uses by the player so far
    fate            \* history: what became of the inputs of each order

lanes == <<workshops, queued, active, work, registered>>
proofs == <<receipts, signalled, entered>>
closure == <<open, handedOff, fabricated>>
materials == <<reserved, stock, trades, fate>>
vars == <<phase, cursor, opening, lanes, proofs, closure, materials>>

Phases == {"commands", "missions", "tick", "credit", "release", "clean",
           "succeed", "handoff", "fabricate", "resolve"}

Queue(d) == {queued[d][i] : i \in DOMAIN queued[d]}
Lane == active \cup UNION {Queue(d) : d \in Departments}

\* Reads of orders and reservations leave out those of cases that are closed.
Live(orders, cases) == {o \in orders : CaseOf[o] \in cases}

\* The stock holds at least these quantities.
Covers(need) == \A m \in Materials : stock[m] >= need[m]
Plus(gain) == [m \in Materials |-> stock[m] + gain[m]]
Minus(need) == [m \in Materials |-> stock[m] - need[m]]

\* hasCanonicalTerminalSignal: a receipt outweighs the signal.
Terminal(o) == o \in signalled /\ o \in registered /\ o \notin receipts

-----------------------------------------------------------------------------
(* A new game, or one that had no workshop orders before *)

Init ==
    /\ phase = "commands" /\ cursor = 1
    /\ open = Cases /\ opening = Cases
    /\ workshops \in SUBSET Departments
    /\ queued = [d \in Departments |-> <<>>]
    /\ active = {} /\ registered = {}
    /\ work = [o \in Orders |-> 0]
    /\ receipts = {} /\ signalled = {} /\ entered = {}
    /\ handedOff = {} /\ fabricated = {}
    /\ reserved = {} /\ stock = InitialStock /\ trades = 0
    /\ fate = [o \in Orders |-> "planned"]

-----------------------------------------------------------------------------
(* Commands *)

\* Mutant: only the lanes are asked whether the case has unfinished work.
CaseIsFreeByLanes(c) == \A o \in Lane : CaseOf[o] # c

\* Every registered order of the case has left the lanes with a receipt.
CaseIsFree(c) == \A o \in registered : CaseOf[o] = c => o \notin Lane /\ o \in receipts

\* enqueueDepartmentWorkshopWorkOrder would not refuse the order.
Enqueueable(o) ==
    /\ o \notin registered
    /\ CaseIsFree(CaseOf[o])
    /\ DepartmentOf[o] \in workshops

Enqueue(o) ==
    /\ registered' = registered \cup {o}
    /\ queued' = [queued EXCEPT ![DepartmentOf[o]] = Append(@, o)]
    /\ UNCHANGED <<workshops, active, work>>

\* An order that consumes nothing is enqueued by hand or through routing.  The
\* store command would take one with an envelope too, and nothing passes it one.
EnqueueOrder(o) ==
    /\ phase = "commands"
    /\ o \notin Processing
    /\ Enqueueable(o)
    /\ Enqueue(o)
    /\ UNCHANGED <<phase, cursor, opening, proofs, closure, materials>>

\* reserveAndEnqueueCaseScopedPrerequisiteProcessingOrder would not refuse the
\* order, prerequisites aside.
Reservable(o, cases) ==
    /\ o \in Live(Processing, cases)
    /\ ~Terminal(o)
    /\ o \notin Live(reserved, cases)
    /\ Covers(Inputs[o])
    /\ Enqueueable(o)

Reserve(o, cases) ==
    /\ Enqueue(o)
    /\ stock' = Minus(Inputs[o])
    /\ reserved' = Live(reserved, cases) \cup {o}
    /\ fate' = [fate EXCEPT ![o] = "held"]
    /\ UNCHANGED <<trades, proofs, closure, opening>>

\* Mutant: the reservation command takes a successor like any other order.
PrerequisitesUnchecked(o) == TRUE

\* hasCanonicalCompletedPrerequisites
PrerequisitesDone(o) == Prerequisites[o] \subseteq receipts

\* The reservation command, or the activation command of a successor.
ReserveOrder(o) ==
    /\ phase = "commands"
    /\ PrerequisitesDone(o)
    /\ Reservable(o, open)
    /\ Reserve(o, open)
    /\ UNCHANGED <<phase, cursor>>

\* prioritizeDepartmentWorkshopWorkOrder
Prioritize(o) ==
    /\ phase = "commands"
    /\ \E i \in DOMAIN queued[DepartmentOf[o]] :
        /\ queued[DepartmentOf[o]][i] = o
        /\ queued' = [queued EXCEPT ![DepartmentOf[o]] = <<o>> \o RemoveAt(@, i)]
    /\ UNCHANGED <<phase, cursor, opening, workshops, active, work, registered,
                   proofs, closure, materials>>

\* activateDepartmentWorkshopFromConstruction
OpenWorkshop(d) ==
    /\ phase = "commands"
    /\ d \notin workshops
    /\ Slots[d] > 0
    /\ workshops' = workshops \cup {d}
    /\ UNCHANGED <<phase, cursor, opening, queued, active, work, registered,
                   proofs, closure, materials>>

\* produceCaseLifecyclePrerequisiteProcessingTerminalSignals
Signalled(c) == {o \in reserved : CaseOf[o] = c /\ o \notin receipts}

\* cancelCase: the case stays as it is, its reserved orders are marked.
CancelCase(c) ==
    /\ phase = "commands"
    /\ c \in open
    /\ signalled' = signalled \cup Signalled(c)
    /\ UNCHANGED <<phase, cursor, opening, lanes, receipts, entered, closure, materials>>

\* purchaseMarketInventory
BuyMaterial(m) ==
    /\ phase = "commands"
    /\ trades < MaxTrades
    /\ trades' = trades + 1
    /\ stock' = [stock EXCEPT ![m] = @ + 1]
    /\ UNCHANGED <<phase, cursor, opening, lanes, proofs, closure, reserved, fate>>

\* queueFabrication on behalf of the player
UseMaterial(m) ==
    /\ phase = "commands"
    /\ trades < MaxTrades
    /\ stock[m] > 0
    /\ trades' = trades + 1
    /\ stock' = [stock EXCEPT ![m] = @ - 1]
    /\ UNCHANGED <<phase, cursor, opening, lanes, proofs, closure, reserved, fate>>

\* A game is saved and loaded again: envelopes and reservations of cases that
\* are closed are not read back.
Hydrate ==
    /\ phase = "commands"
    /\ reserved' = Live(reserved, open)
    /\ UNCHANGED <<phase, cursor, opening, lanes, proofs, closure, stock, trades, fate>>

-----------------------------------------------------------------------------
(* The close of a week *)

AdvanceTo(next) == phase' = next /\ cursor' = 1

\* The player closes the week.
CloseWeek ==
    /\ phase = "commands"
    /\ AdvanceTo("missions")
    /\ UNCHANGED <<opening, lanes, proofs, closure, materials>>

\* Missions of the week resolve some cases and fail others; a case that failed
\* stays open and its reserved orders are marked.
ResolveMissions(won, failed) ==
    /\ phase = "missions"
    /\ won \subseteq open /\ failed \subseteq open \ won
    /\ open' = open \ won
    /\ signalled' = signalled \cup UNION {Signalled(c) : c \in failed}
    /\ AdvanceTo("tick")
    /\ UNCHANGED <<opening, lanes, receipts, entered, handedOff, fabricated, materials>>

\* Mutant: one order more than there are slots is started.
FreePlus(d, busy) == Slots[d] + 1 - Cardinality(busy)

\* Mutant: the last slot of a workshop is never given away.
FreeButOne(d, busy) == Slots[d] - 1 - Cardinality(busy)

\* Slots of a workshop that are left by the busy orders.
Free(d, busy) == Slots[d] - Cardinality(busy)

\* The orders at the front of a queue that find a slot: fillOpenSlots.
Fill(d, queue, busy) ==
    LET free == Free(d, busy)
        n == IF free < Len(queue) THEN IF free > 0 THEN free ELSE 0 ELSE Len(queue)
    IN  SubSeq(queue, 1, n)

After(queue, prefix) == SubSeq(queue, Len(prefix) + 1, Len(queue))
Members(queue) == {queue[i] : i \in DOMAIN queue}

\* Orders on which a week's work at this pace is enough.
Finished(orders, pace) ==
    {o \in Orders : o \in orders /\ work[o] + pace[DepartmentOf[o]] >= RequiredWork[o]}

\* advanceDepartmentWorkshopQueue: slots are filled, the work is done, and the
\* slots of finished orders are filled again.  Withheld orders lack labor, those
\* that just found a slot included.
Shift(d, pace, withheld) ==
    LET busy == {o \in active : DepartmentOf[o] = d}
        first == Fill(d, queued[d], busy)
        working == busy \cup Members(first)
        done == Finished(working \ withheld, pace)
        rest == After(queued[d], first)
        second == Fill(d, rest, working \ done)
    IN  IF d \in workshops /\ Slots[d] > 0 /\ pace[d] > 0
        THEN [queue |-> After(rest, second), worked |-> working \ withheld,
              active |-> (working \ done) \cup Members(second), done |-> done]
        ELSE [queue |-> queued[d], worked |-> {}, active |-> busy, done |-> {}]

\* processDepartmentWorkshopTick and registerDepartmentWorkshopCompletionOutcomes
ProcessTick(pace, withheld) ==
    LET shift == [d \in Departments |-> Shift(d, pace, withheld)]
        worked == UNION {shift[d].worked : d \in Departments}
        done == UNION {shift[d].done : d \in Departments}
    IN  /\ phase = "tick"
        /\ queued' = [d \in Departments |-> shift[d].queue]
        /\ active' = UNION {shift[d].active : d \in Departments}
        /\ work' = [o \in Orders |->
                       IF o \in done THEN 0
                       ELSE IF o \in worked THEN work[o] + pace[DepartmentOf[o]]
                       ELSE work[o]]
        /\ receipts' = receipts \cup done
        /\ AdvanceTo("credit")
        /\ UNCHANGED <<opening, workshops, registered, signalled, entered, closure, materials>>

\* The pass over the orders goes on, or ends and the next phase begins.
NextOrder(next) ==
    IF cursor < LastOrder THEN cursor' = cursor + 1 /\ phase' = phase ELSE AdvanceTo(next)

\* Mutant: what was credited stays reserved.
SettledKeptReserved(o) == Live(reserved, opening)

\* The reservations that remain once this one is settled.
Settled(o) == Live(reserved, opening) \ {o}

\* reconcileCaseScopedPrerequisiteProcessingCompletions, at one order: an order
\* of a case that was open at the start of the week becomes its output.
CreditCompletion(o) ==
    /\ phase = "credit" /\ cursor = o
    /\ IF o \in Live(reserved, opening) /\ o \in receipts
       THEN /\ stock' = Plus(Outputs[o])
            /\ reserved' = Settled(o)
            /\ fate' = [fate EXCEPT ![o] = "credited"]
       ELSE UNCHANGED <<stock, reserved, fate>>
    /\ NextOrder("release")
    /\ UNCHANGED <<opening, lanes, proofs, closure, trades>>

\* reconcileCaseScopedPrerequisiteProcessingReservationReleases, at one order.
ReleaseReservation(o) ==
    /\ phase = "release" /\ cursor = o
    /\ IF o \in Live(reserved, opening) /\ Terminal(o)
       THEN /\ stock' = Plus(Inputs[o])
            /\ reserved' = Live(reserved, opening) \ {o}
            /\ fate' = [fate EXCEPT ![o] = "refunded"]
       ELSE UNCHANGED <<stock, reserved, fate>>
    /\ NextOrder("clean")
    /\ UNCHANGED <<opening, lanes, proofs, closure, trades>>

\* Terminal orders without reservation, of the cases that are open by now.
Removable ==
    {o \in Live(Processing, open) : Terminal(o) /\ o \notin Live(reserved, opening)}

\* The queue without these orders: its n-th order is the n-th of those that stay.
Without(queue, orders) ==
    LET stays == {i \in DOMAIN queue : queue[i] \notin orders}
    IN  [n \in 1 .. Cardinality(stays) |->
            queue[CHOOSE i \in stays : Cardinality(stays \cap 1 .. i) = n]]

\* reconcileDepartmentWorkshopTerminalLanes
CleanLanes ==
    /\ phase = "clean"
    /\ queued' = [d \in Departments |-> Without(queued[d], Removable)]
    /\ active' = active \ Removable
    /\ work' = [o \in Orders |-> IF o \in Removable THEN 0 ELSE work[o]]
    /\ AdvanceTo("succeed")
    /\ UNCHANGED <<opening, workshops, registered, proofs, closure, materials>>

\* The case has reached order o among its candidates to succeed.
Candidate(o) ==
    /\ o \in Live(Processing, opening)
    /\ Prerequisites[o] # {}
    /\ o \notin Live(reserved, opening) /\ o \notin receipts /\ ~Terminal(o)
    /\ PrerequisitesDone(o)

IsSuccessor(o) == Candidate(o) /\ \A p \in Orders : CaseOf[p] = CaseOf[o] /\ p < o => ~Candidate(p)

\* The pass over the cases goes on, or ends and the next phase begins.
NextCase(next) ==
    IF cursor < LastCase THEN cursor' = cursor + 1 /\ phase' = phase ELSE AdvanceTo(next)

\* reconcileCaseScopedPrerequisiteProcessingSuccessors, at one case: its first
\* candidate is activated through the reservation command.
ActivateSuccessor(o) ==
    /\ phase = "succeed" /\ cursor = CaseOf[o]
    /\ IsSuccessor(o)
    /\ Reservable(o, opening)
    /\ Reserve(o, opening)
    /\ NextCase("handoff")

NoSuccessor(c) ==
    /\ phase = "succeed" /\ cursor = c
    /\ \A o \in Orders : CaseOf[o] = c /\ IsSuccessor(o) => ~Reservable(o, opening)
    /\ NextCase("handoff")
    /\ UNCHANGED <<opening, lanes, proofs, closure, materials>>

\* Mutant: one of the requested orders is enough.
RequestPartlyDone(c, done) == Requested[c] \cap done # {}

\* Every order the finalization request names is done.
RequestDone(c, done) == Requested[c] # {} /\ Requested[c] \subseteq done

\* reconcileDepartmentWorkshopCompletionReceipts and
\* reconcileCaseScopedWorkshopFinalizationHandoffs: receipts are entered in
\* the ledgers of open cases, and handoffs are made or dropped.
HandOff ==
    LET newlyEntered == entered \cup Live(receipts, open)
    IN  /\ phase = "handoff"
        /\ entered' = newlyEntered
        /\ handedOff' = (handedOff \ open) \cup
               {c \in open : RequestDone(c, newlyEntered \cap receipts)}
        /\ AdvanceTo("fabricate")
        /\ UNCHANGED <<opening, open, fabricated, lanes, receipts, signalled, materials>>

\* Mutant: a case that was fabricated before is fabricated again.
FabricableAgain(c) == c \in handedOff

\* The case waits for its final product.
Fabricable(c) == c \in open \cap handedOff /\ c \notin fabricated

\* enqueueCaseScopedWorkshopFinalizationFabrication, at one case
Fabricate(c, funded) ==
    /\ phase = "fabricate" /\ cursor = c
    /\ IF Fabricable(c) /\ funded /\ Covers(FinalInputs[c])
       THEN stock' = Minus(FinalInputs[c]) /\ fabricated' = fabricated \cup {c}
       ELSE UNCHANGED <<stock, fabricated>>
    /\ NextCase("resolve")
    /\ UNCHANGED <<opening, open, handedOff, lanes, proofs, reserved, trades, fate>>

\* Orders whose case is closed while they hold their inputs.
Lost(cases) == {o \in Orders : fate[o] = "held" /\ CaseOf[o] \notin cases}

\* resolveCaseScopedWorkshopFinalizationCases
ResolveFinalized ==
    /\ phase = "resolve"
    /\ open' = open \ (handedOff \cap fabricated)
    /\ opening' = open'
    /\ fate' = [o \in Orders |-> IF o \in Lost(open') THEN "forfeited" ELSE fate[o]]
    /\ AdvanceTo("commands")
    /\ UNCHANGED <<handedOff, fabricated, lanes, proofs, reserved, stock, trades>>

-----------------------------------------------------------------------------

Command ==
    \/ \E o \in Orders : EnqueueOrder(o) \/ ReserveOrder(o) \/ Prioritize(o)
    \/ \E d \in Departments : OpenWorkshop(d)
    \/ \E c \in Cases : CancelCase(c)
    \/ \E m \in Materials : BuyMaterial(m) \/ UseMaterial(m)
    \/ Hydrate

Close ==
    \/ CloseWeek
    \/ \E won, failed \in SUBSET Cases : ResolveMissions(won, failed)
    \/ \E pace \in [Departments -> 0 .. 2], withheld \in SUBSET Lane :
           ProcessTick(pace, withheld)
    \/ \E o \in Orders :
           CreditCompletion(o) \/ ReleaseReservation(o) \/ ActivateSuccessor(o)
    \/ CleanLanes
    \/ \E c \in Cases : NoSuccessor(c)
    \/ HandOff
    \/ \E c \in Cases, funded \in BOOLEAN : Fabricate(c, funded)
    \/ ResolveFinalized

Next == Command \/ Close

Spec == Init /\ [][Next]_vars

\* A week in which every workshop works and no order lacks labor.
WorkingWeek == \E pace \in [Departments -> 1 .. 2] : ProcessTick(pace, {})

\* Weeks go on being closed, and again and again one of them is a working week.
\* (Every week has one tick: this is weak fairness of Close with strong fairness of
\* WorkingWeek.)
FairSpec == Spec /\ []<><<WorkingWeek>>_vars

-----------------------------------------------------------------------------
(* Properties *)

\* The types of all variables.
TypeOK ==
    /\ phase \in Phases
    /\ cursor \in 1 .. (LastOrder + LastCase)
    /\ open \subseteq Cases /\ opening \subseteq Cases
    /\ workshops \subseteq Departments
    /\ queued \in [Departments -> Seq(Orders)]
    /\ active \subseteq Orders /\ registered \subseteq Orders
    /\ work \in [Orders -> Nat]
    /\ receipts \subseteq Orders /\ signalled \subseteq Orders /\ entered \subseteq Orders
    /\ handedOff \subseteq Cases /\ fabricated \subseteq Cases
    /\ reserved \subseteq Orders
    /\ stock \in [Materials -> Nat]
    /\ trades \in 0 .. MaxTrades
    /\ fate \in [Orders -> {"planned", "held", "credited", "refunded", "forfeited"}]

\* The state is well formed, and a snapshot is never one that
\* readDepartmentWorkshopState would throw away whole: an order is in one lane at most, in the department it belongs to, with
\* work left to do and no receipt, and no workshop has more active orders than
\* slots.
LanesSound ==
    /\ TypeOK
    /\ Lane \subseteq registered \ receipts
    /\ \A d \in Departments :
        /\ \A o \in Queue(d) : DepartmentOf[o] = d /\ o \notin active
        /\ \A i, j \in DOMAIN queued[d] : queued[d][i] = queued[d][j] => i = j
        /\ Cardinality({o \in active : DepartmentOf[o] = d}) <= Slots[d]
    /\ \A o \in Lane : work[o] < RequiredWork[o]

\* A case never has two work orders that are not done: the department
\* projections count a case once.
OneOrderPerCase ==
    \A o, p \in registered \ receipts : CaseOf[o] = CaseOf[p] => o = p

\* Between weeks the reservations and the lanes of open cases agree: inputs are
\* held for exactly the processing orders that wait or are worked on.
ReservationsBackLanes ==
    phase = "commands" =>
        Live(reserved, open) = Live(Lane \cap Processing, open)

\* Nothing is worked on before the orders it depends on are done.
PrerequisitesFirst ==
    \A o \in registered \cap Processing : Prerequisites[o] \subseteq receipts

\* A case that was handed to fabrication is closed at the end of the week, and
\* every order its request names was done and had become its output.
FabricatedFromOutputs ==
    \A c \in fabricated :
        /\ phase = "commands" => c \notin open
        /\ \A o \in Requested[c] : o \in receipts /\ fate[o] = "credited"

\* Once an order of an open case gave its inputs back, nothing of that case is
\* enqueued any more: not the order itself, not a successor, not other work.
TerminalClosesCase ==
    [][\A o \in Orders : fate[o] = "refunded" /\ CaseOf[o] \in open =>
          \A p \in registered' \ registered : CaseOf[p] # CaseOf[o]]_vars

\* Between weeks no order whose inputs were given back is left in a lane: its
\* slot is free for other work.
RefundedWorkLeaves ==
    phase = "commands" => \A o \in Lane : fate[o] # "refunded"

Books == INSTANCE MaterialLedger WITH built <- fabricated

\* Materials are taken, credited, given back, forfeited and built from as the
\* ledger of MaterialLedger allows: no output is credited twice, no input is
\* given back after it became an output, and no product is built twice.
KeepsBooks == Books!Spec

\* An order that waits or is worked on is done or taken out at last.
QueuedWorkEnds == \A o \in Orders : []<>(o \notin Lane)

===============================================================================
