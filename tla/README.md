# Containment Protocol: TLA+ models and proofs

Containment Protocol is a turn-based management simulation written in TypeScript.
The player runs an agency: cases appear, teams of agents are sent to them, and
once a week `advanceWeek` plays the consequences. All of it is single-threaded
and synchronous; what makes it hard is not threads but *order*. Several hundred
handlers rewrite one large immutable `GameState`, in which the same fact is kept
two or three times (a team points at its case and the case lists its teams; a
training is a queue entry and an agent's assignment), and one week is a pipeline of
passes that hand records to each other through a mutable context.

Paths below are relative to the repository (its root holds `src/`, `docs/`, ...).

## 1. Inventory

| Component | Source | State it keeps | Operations | What makes it correct |
|---|---|---|---|---|
| Case assignment commands | `src/domain/sim/assign.ts`, `teamRelease.ts`, `agentAssignments.ts`, `validateTeam.ts` | case status, `assignedTeamIds`, `weeksRemaining`, team pointers, agents' duties | `assignTeam`, `launchMajorIncident`, `unassignTeam` | pointers and lists agree; an operation has teams, crew and a clock; a launched incident is committed |
| Team management | `sim/teamManagement.ts`, `teamSimulation.ts` | team ids, rosters, leader, name | create, move, delete, rename, lead | an agent is on one team; deployed teams are not edited |
| Normalization | `teamSimulation.ts` (`normalizeGameState`) | none of its own | last call of every command | idempotent repair; never hides half an update |
| Training | `sim/training.ts` | `trainingQueue`, agents' duties, funding | queue solo, queue drill, cancel, weekly advance | queue and duties agree; no trainee in the field; refunds do not create money |
| Weekly orchestration | `sim/advanceWeek.ts` | `WeeklyExecutionContext` (processed, finalized, outcome buckets, timing-check runs) | the passes of a week | one verdict per case and week; buckets exclusive; terminates |
| Mission resolution, betrayal, recovery | `sim/missionResolutionAgents.ts`, `sim/betrayal.ts`, `sim/recoveryPipeline.ts` | agents' status, duty, trust-consequence stack | casualties, benching, resignation, expiry, weekly recovery | a temporary loss ends; the benched stay home |
| Field-base staging | `fieldBaseStaging.ts` | rosters, duties | rotation at week open | swaps one member for one, clones nobody |
| Escalation and timing checks | `sim/escalation.ts`, `sim/timingCheckHelper.ts` | stage, deadline, run counters | countdown, escalation, raid conversion | neglected cases escalate; the stage is capped |
| Spawning, pressure, raids | `sim/spawn.ts`, `sim/pressurePipeline.ts`, `sim/raid.ts` | the case register | follow-ups, incidents | the cap on active cases, the end of a campaign |
| Major incidents | `majorIncidentOperations.ts` | `majorIncident` runtime of a case | plan, launch | required teams stay committed |
| Workshop closure | `sim/production.ts` (`resolveCaseScopedWorkshopFinalizationCases`) | none of its own | closes cases at the end of a week | the records of teams survive a case closed under them |
| Lifecycle machines | `caseLifecycleStateMachine.ts`, `caseLifecycleWeeklyOrchestration.ts`, `teamStateMachine.ts` | derived states | transition tables | agree with the records they are derived from |
| Expiring decisions | `expiringDecisionLifecycle.ts` | decisions with deadlines on several clocks | create, answer, refuse, shift, cancel, supersede, time out, load | one outcome, one default, on the right side of the deadline |
| Workshop queue | `departmentWorkshopQueue.ts`, `prerequisiteProcessingOrders.ts`, `sim/production.ts` | lanes, registered orders, receipts, reservations, handoffs | enqueue, reserve, prioritize, cancel, tick, credit, release, clean, succeed, hand off, fabricate | bounded lanes; inputs are taken once and end once; one product per case |
| Publish queue | `publishQueueExecutor.ts`, receipt persistence | records, bounded receipts, the saved game | dry and live execution, retry, merge, reload | what is announced was delivered or openly rehearsed; receipts tell the truth |
| Runtime events | `eventQueue.ts` | queue | enqueue, take | order kept, bound kept |
| Funding and procurement | `funding.ts`, `sim/market.ts`, `sim/advanceWeek.ts` | two copies of the balance, the backlog of orders, stock | buy, sell, order, pay, close the week | an order costs its price once and ends once |
| Production and equipment | `sim/production.ts`, `equipment.ts` | queues, lots, instances | fabricate, equip | stock and instances agree |
| Store, saves | `app/store/*.ts` | the store, files | setters, import, export | an imported save is a state the game can be in |

The parts talk by calling each other on the same `GameState`: a store setter calls
one command, a command ends in `normalizeGameState`, and `advanceWeek` calls the
passes one after the other. There are no messages or threads inside the simulation. Failure enters
in one place, the weekly publish batch, which calls remote services while the result
is only written with the next save; a reload may then bring back records the remote has already carried out. Behaviours that are hard to test are therefore long sequences of legal commands, the
order of the passes of a week and what one pass leaves for the next, limits per
week and per register, and liveness over many weeks. `PROJECT.json` lists each
hazard with its line.

## 2. Plan

Done, in this order:

1. **`Deployment`**: cases, teams, agents, training, and the week that runs over
   them. It is the core: every other part hangs on these records. Its properties
   are proved in `DeploymentProofs` and `AgentProofs`.
2. **`PublishQueue`** with its abstract promise **`Publication`**: the one place
   where calls leave the program and a crash can fall between two steps.
3. **`Workshop`** with its abstract **`MaterialLedger`**: a week that is a chain of
   passes over lanes, reservations and receipts.
4. **`Closure`**: `Deployment` composed with the workshops' closure of cases, proved
   about in `ClosureProofs`.
5. **`Academy`**, **`Procurement`** (with its abstract **`SupplyContract`**) and
   **`ExpiringDecision`**: money and deadlines.

What would come next: production and equipment (lots, instances and loadouts), the
runtime event queue, agent recovery with counted weeks and downtime orders, the
field base with its carry-in, and the case lifecycle label with the registry
reports that move it.

## 3. Modules

| Module | Extends or instantiates | Role |
|---|---|---|
| `Deployment` | | model and properties of the core |
| `Closure` | EXTENDS `Deployment` | the core with the end of the week's last pass |
| `PublishQueue` | `Publication` (refined) | executor, clients, receipts, saves |
| `Workshop` | `MaterialLedger` (refined) | orders, lanes, materials, closing of cases |
| `Academy` | | slots, drills, refunds, instructors |
| `Procurement` | `SupplyContract` (refined) | two copies of the balance, orders to suppliers |
| `ExpiringDecision` | | decisions on several clocks |
| `<model>MC` | EXTENDS the model | the small instances for TLC |
| `DeploymentProofs` <- `AgentProofs` | EXTENDS the one before | proofs about `Deployment`: cases, teams and the week; then agents and the cap |
| `ClosureProofs` | EXTENDS `Closure`, `DeploymentProofs` | proofs about `Closure` |
| `PublishProofs`, `WorkshopProofs`, `AcademyProofs`, `ProcurementProofs`, `ExpiringDecisionProofs` | EXTENDS the model | proofs about that model |

Definitions marked *Mutant* are plausible slips of the definition that follows them;
no specification uses them. They show that each property can fail.

### Deployment

| Variable | Code |
|---|---|
| `phase`, `cursor` | where `advanceWeek` is: the pass, and the index in `context.initialCaseIds` of the case its loop has reached; `"command"` between weeks |
| `caseCount` | the number of keys of `state.cases`; a case is the index of its key, in insertion order, which is the order every loop uses |
| `caseStatus`, `caseKind`, `assignedTeamIds`, `weeksRemaining`, `stage`, `deadlineRemaining`, `majorIncident` | the fields of `CaseInstance` |
| `teamIds`, `memberIds`, `teamCase` | `state.teams`, and of each team its roster and the case in its status (`getTeamAssignedCaseId`) |
| `agentStatus`, `assignment`, `agentCase` | `Agent.status`, `Agent.assignment.state` and its `caseId` |
| `benched` | agents with an active `benching` in their trust-consequence stack |
| `trainingQueue` | the queue, each training (solo, or the entries of one drill) as its set of trainees |
| `processed`, `finalized`, `bucket`, `deadlineRuns`, `overloaded` | `WeeklyExecutionContext` and the overload test |

Between weeks: `AssignTeam`, `LaunchMajorIncident`, `UnassignTeam`, `MoveAgent`,
`CreateTeam`, `DeleteEmptyTeam`, `QueueTraining`, `CancelTraining`; each is the
whole command with the normalization it ends in. A week: `BeginWeek` builds the
context; `PrepareAgents` expires benchings, heals damaged trust (a `recovering` agent may
be `active` again while the duty still says `recovery`) and advances recoveries;
`RotateFieldBase` / `SkipRotation`; per case `SkipResolve`, `ContinueOperation` or
`ResolveOperation`; `Friction`; per case `SkipEscalation`, `CountDown` or
`EscalateCase`; `SpawnFollowUps`; `SpawnPressureIncidents`; `CloseWeek`. After the
end of a campaign `AdvanceEndedCampaign` only normalizes.

Splitting `advanceWeek` into steps does not let commands run inside it (each
command requires `phase = "command"`). It makes what a pass reads of the passes
before it visible, and states between passes are states the code really has in
its `nextState`.

Scores, dice, fatigue, morale, equipment, provisions, funding, text and reports are
left out. Where they decide something, the model chooses among all the values the
code can produce: the result of an operation, who is hurt, benched or resigns, who
has healed, how many cases a template spawns, whether a district is under
pressure. Where they can only refuse a command, the command is simply not taken.
`shortfalls` (noted by last week's report) is free between 0 and the number of
cases. The week number and the lengths of injuries and benchings are not counted:
they may end in any week. An ordinary operation lasts `DurationWeeks`; the strategy of a major incident
chooses its own length, up to `LongestWeeks`.

### Closure

`advanceWeek` ends with a pass that resolves the cases whose final product was
enqueued (`CloseFinalizedCases`), after its last normalization. `closing` holds
between `Deployment`'s `CloseWeek` and that pass. Which cases are closed is chosen
freely here; `Workshop` says when. The pass rewrites the case and neither its teams
nor their agents: the agents stay `assigned` to a resolved case, and hence unfit
for another, until a training ends for them. The teams' pointers are cleared by
the next normalization (`RepairedAtOnce`).

### PublishQueue

One step is one record of the weekly batch, so that a crash can fall between two of
them. `status` is the records' own state, `noted` the receipts of the running batch,
`receipts` the bounded ledger, `save` the saved game; `delivered` is what the remote
services have carried out (the program cannot read it) and `rehearsed` remembers
dry runs. `BeginTick` enqueues data packs and chooses the environment of the week;
a record is passed by `SkipAbsent` or `SkipRecord`, or goes through
`ExecuteDryRun`, `ExecuteUnreachable` or `ExecuteLive`, whose answer may be an
acceptance, a refusal, "already done", or lost after the remote acted;
`MergeReceipts` ends the batch; `SaveGame` and `Reload` may come in between. A
reload brings records and ledger back, never what the remote did. The clients are
modelled from how the executor reads their answers.

Two remarks for readers of the code. A data pack is enqueued with an artifact
reference that names no pull request and a payload for the channel `pr-merge`, so a
live week always rejects it (`Resolvable` leaves it out). And a dry week marks records
`published`, so they never go live later, as
`src/docs/contribution-and-release-operations.md:64-88` describes the two modes;
`rehearsed` is why the promise says "delivered *or* openly rehearsed".

### Workshop

| Variable | Code |
|---|---|
| `open`, `opening` | cases open or in progress, now and when the week began (`nextState` and the input state of `advanceWeek`) |
| `workshops`, `queued`, `active`, `work`, `registered` | the workshop snapshots, their lanes and the registry of orders |
| `receipts`, `signalled`, `entered` | completion outcomes, terminal signals, and the case ledgers of receipts |
| `reserved`, `stock` | the reservations of processing orders and the inventory |
| `handedOff`, `fabricated` | finalization handoffs and fabrication queue ids |
| `fate` (history) | what became of the inputs of an order |

Commands: `EnqueueOrder`, `ReserveOrder`, `Prioritize`, `OpenWorkshop`, `CancelCase`,
`BuyMaterial`, `UseMaterial`, and `Hydrate` (a save loaded again). The week is
`CloseWeek`, `ResolveMissions`, `ProcessTick`, then per order `CreditCompletion`, per
order `ReleaseReservation`, `CleanLanes`, per case `ActivateSuccessor` /
`NoSuccessor`, `HandOff`, per case `Fabricate`, and `ResolveFinalized`. Which copy of
the cases a pass reads (`open` or `opening`) is as in the code, and one finding
rests on it. Pace, withheld labor, funding of a product and the outcomes of
missions are choices; the labor gate may hold back any order in its lane, also one that got its
slot in the same tick. `EnqueueOrder` takes orders without a processing envelope: the
store command would accept a hand-made one with an envelope, but nothing in the program passes it one. Pausing and resuming have no callers, `advanceWeek` never
passes safety grades; both are left out. A successor's inputs may be taken and
forfeited in the same week, as in the code. `Prioritize` and `Without` (the filter
`removeFromLane` of the cleanup) rewrite a queue by positions, so that the proofs can
speak of what moves where. A campaign that has ended only reruns the
handoffs; this path is left out.

### Academy, Procurement, ExpiringDecision

`Academy` keeps the entry of each trainee (`queue`: members, cost, length, weeks
left), the tier, the money and each instructor's trainee. `QueueTraining`,
`QueueTeamTraining`, `CancelTraining`, `AssignInstructor`, `UnassignInstructor`,
`UpgradeAcademy` and `AdvanceTrainingQueues` are the commands and the weekly pass;
`Elsewhere` is the rest of the game's money. Any agents who are not in training may
be sent: fewer guards than the code, hence more behaviours.

`Procurement` keeps the balance twice, as the game does (`funding` and `ledger`).
`Buy`, `Sell` and `SpendFunding` write one copy, `PlaceOrder` and `SpendCanonical`
start from one and write both, `PayOut` adds to each as it stands. The week's close is
split like the others: `BeginClose` takes the costs, then `cursor` visits the backlog order
by order (`PassOver`, `Cancel`, `Postpone`, `Deliver`), and `EndClose` takes the theft and
opens the next week; no command comes between. An order names an item and a number of bundles; two
orders of one item may end differently. It is given up when the supplier has too few
bundles, delivered when its quantity fits into the inventory, and otherwise left pending
for the next close (`sim/market.ts:465`). What a listing has at that moment depends on the
market week, the pressure and the stock that an earlier delivery of the same close just
raised, so it is chosen per order. `Capacity` is the largest safe integer in the code and a small
number in the run. A bundle is one unit, prices and access rules are data, and
what the keeping of the stock costs is chosen. An order without a listing, which the pass
skips, is not generated: `placeDelayedMarketOrder` always names the listing. The calendar stops at
`MaxWeek`, which takes no more orders, while weeks go on being closed.

`ExpiringDecision` has one action per operation of the module: `Create`,
`ResolveExplicitly`, `RefuseExplicitly`, `ShiftDeadline`, `Cancel`, `Supersede`,
`ResolveTimeout`, `Reload` (with the repair of old letters) and `Tick` of a clock.
Malformed records, which a load drops, are not generated.

### Abstract specifications

- `Publication`: records are announced only when the remote carried them out or
  when openly rehearsed; what was delivered stays delivered; only a restore takes an
  announcement back. `PublishQueue` implements it (`KeepsPromise`) with `announced`
  the published records and `kept` those of the save.
- `MaterialLedger`: inputs are held once and then credited, refunded or
  forfeited; a product is built once, from stock that is there. `Workshop` implements
  it (`KeepsBooks`) with `fate` as a history variable and `built` the fabricated cases.
- `SupplyContract`: an order costs its price when placed, is not forgotten, and ends
  once, while a week is closed: with all it asked for, or given up. `Procurement`
  implements it (`ContractKept`) with `cash` the game's funding, `goods` the stock by item and
  `outstanding` the pending requests; passing an order over or leaving it for want of room is a
  stutter.

## 4. Checks

Every bound is a constant of the cfg.

| Run | What it shows | Bounds, and why they are enough | States |
|---|---|---|---|
| `field` | the types of `Deployment` and the nine state invariants that relate teams, cases, agents, duties, queue and benchings; operations end | two teams, two agents, a register growing from one to two cases, operations of two weeks (incidents of one to three), stage 2 both a raid and a major incident that needs both teams, a field base on the first case: agents are moved, swapped, hurt and benched while the other team is out, and a clock counts down over several passes, goes stale, is inherited by a team that joins or replaces another and is cleared by a recall of the last. An assignment that starts the clock again fails here | 2 030 334 |
| `weeks` | the ledger of a week, one verdict per case and week, closed cases, the cap; the first neglected case escalates | one team, a register of two growing to four, cap of three, overload at one, deadlines of two weeks: below, at and above the cap, with a success taken back, a countdown and a lapsed deadline in one week, or one case that fails and one that lapses, each asking for a follow-up, and one free slot. A second limit that does not count what the first spawn created fails here | 2 677 208 |
| `starvation` | expected violation of `NeglectEscalates` | three cases with deadlines of two weeks: the third is the one that waits | |
| `recovery` | expected violation of `TemporaryLossTracked` | a squad of two on one case: a benching needs a colleague | |
| `publish` | receipts are true, publication is final, the promise is kept, ready records get published | a pull request, a data pack and a webhook; ledger of three receipts, so that eviction happens; two reloads, so that a reload can follow a reload; dry, partly served and fully served weeks | 148 194 |
| `workshop` | lanes, one order per case, reservations, dependencies, products, terminal cases, the material ledger; queued work ends | two cases, four orders of one and two weeks' work, two workshops of one slot, one unit of ore, one trade: an order waits, is worked on twice, finds no stock, is overtaken | 474 775 |
| `workshop_terminal` | expected violation of `RefundedWorkLeaves` | the same without trades | |
| `closure` | after cases are closed in the field, no team is on two cases, every case under way has a crew, and a team points at a case that does not list it only if that case is closed | two teams, two agents, two cases, no spawning: a second case is what a stale pointer could be confused with | 2 551 472 |
| `closure_teams` | expected violation of `WeekLeavesTeamsNormalized` | the same | |
| `academy` | slots, drills, instructors, no money from training | three agents on two slots (three after the upgrade), two instructors, a solo course and two drills; money up to seven. Agents and instructors are interchangeable | 1 066 |
| `procurement` | distinct requests, the contract, orders end | an item at once and one on order, in one or two units, shelves for two, four weeks, three orders: an order can end while another is placed, which is what makes an id fall back; two due orders of one item can find room for one; one that finds no room is left, found again and delivered, left again or given up | 794 370 |
| `expiring_decision` | types, one default, the right side of the deadline, decided stays decided | two decisions, two producers on two clocks, times up to two: before, at and after a deadline | 62 787 |

`MaxCases` caps the register, `MaxSpawn` one spawn pass, `MaxReloads` the returns to a
save, `MaxTrades` the player's purchases, `MaxWeek`, `MaxTime`, `MaxFunding`,
`MaxOrders` the calendar, clocks and amounts; they only cut behaviours off.
Deadlock is checked except in `expiring_decision`, whose bounded clocks end.

**Fairness.**

- `Deployment`: `WF_vars(BeginWeek)`, the player keeps closing weeks, and `[]<>(phase = "command")`,
  because `advanceWeek` is one synchronous call that runs to its end. The latter is what weak
  fairness of the passes amounts to: no command runs inside a week, every pass moves `phase` or
  `cursor` on, and a pass that could not go on would be a deadlock, which the runs check. It
  is stated so because TLC evaluates a state predicate much faster. No command is ever fair. Liveness
  is claimed only up to `gameOver`, since an ended campaign stops the passes.
- `PublishQueue`: `WF_vars(Tick)`, the weeks go on, and `SF_vars(Confirm(r))`: a call
  repeated for ever is answered at last. `ReadyGetsPublished` is further conditional on
  live weeks with the client coming again and again, which the player decides.
- `Workshop`: `[]<><<WorkingWeek>>_vars`, weeks go on being closed and there is again
  and again a week in which the workshops work. `QueuedWorkEnds` holds although the player may reorder the
  queues for ever: an order the player keeps behind is still reached.
- `Procurement`: `WF_vars(Close)`, the player keeps closing weeks and a close runs to its end. That
  there is room is not assumed: `OrdersEnd` says that an order ends or that closes find the shelves
  too full for it again and again, so one that was left once must be found again by later closes.
- `ExpiringDecision` has none: nothing in the weekly pass calls it, so nothing may be
  promised about when a timeout is processed.

**Findings.**

- *Neglected cases can wait for ever* (`starvation`). `escalateCases` writes a countdown only
  while the weekly limit on `OnDeadlineEscalation` (1) lasts. With a two-week deadline
  the first neglected case counts down in one week and lapses in the next, a lapse does
  not use the limit, so the second counts down then; the third never counts down.
  `data/copy.ts:88` describes the deadline as "Weeks before the operation auto-escalates
  if left unresolved." `FirstNeglectedEscalates` shows what does hold.
- *Injuries that never heal* (`recovery`). Recovery advances agents whose duty is `recovery`.
  Benching an agent hurt by the same mission sets the duty to `idle`; when the benching runs
  out, only a `recovering` agent is restored, so an `injured` one stays injured.
  `docs/operative-attrition-loss-replacement-audit.md:22` promises that temporary loss is
  tracked with explicit duration and recovery path.
- *Refunded work goes on* (`workshop_terminal`). The releases of a week read the cases as they
  were when it began, the cleanup of the lanes reads them as they are now. If a case was
  cancelled and its mission then succeeds, its order's inputs are given back and the
  order keeps its slot and is worked on to a receipt (`advanceWeek.ts:5254`).
- *A week that ends unnormalized* (`closure_teams`). A case the workshops close in the field forgets its
  teams, which still point at it (`sim/production.ts:427`), while
  `test/sim.pipeline.invariants.test.ts:1027` says every team-mutating mutator emits
  normalized team state. `closure` shows that the next command cannot be confused by it,
  `RepairedAtOnce` that it removes the stale pointers; `NothingToRepair` proves the test's
  claim of every other handler.

## 5. Proofs

Every theorem holds for all values of the constants that satisfy the named
assumptions of its module: any agency, register, queue, market or set of
decisions. A lemma per action (or group of actions that rewrite the same records)
shows that the inductive invariant is kept.

| Module | Theorem | Property | Inductive invariant |
|---|---|---|---|
| `DeploymentProofs` | `TypeCorrect` | `TypeOK` | itself |
| | `RostersDisjoint` | `OneTeamPerAgent` | with `TypeOK`: every edit is a `Relocated`, a rotation, or leaves rosters alone |
| | `PointersAgree`, `ClosedStayClosed` | `TeamCaseAgreement`, `ClosedCasesStayClosed` | `CaseInv` |
| | `NothingToRepair` | (`Normalized`, stated there) | `CaseInv` |
| | `LedgerAgrees`, `OneVerdict` | `WeekLedger`, `OneVerdictPerWeek` | `LedgerInv` |
| | `OperationsRecorded` | `OperationRecord` | `OperationInv` |
| | `ClocksRunDown` | (`ClockRunsDown`, stated there) | `OperationInv` |
| `AgentProofs` | `DutiesAgree`, `TraineesAtHome`, `QueueAgrees`, `BenchedAtHome` | `DeployedAgentsAgree`, `NoTrainingInTheField`, `TrainingQueueAgrees`, `BenchedStayHome` | `AgentInv` |
| | `OperationsStaffed` | `OperationStaffed` | `StaffInv` |
| | `TeamsCommitted` | `CommittedTeams` | `CommitInv` |
| | `CapHolds` | `OnlyPressureExceedsCap` | `CapInv` |
| `ClosureProofs` | `ListedPointBack`, `ClosureKeepsRecords` | `ListedTeamsPointBack`, `OperationRecord` | `CrewsInv` |
| | `RepairedAtOnce` | (an action property, stated there) | `CrewsInv` |
| `PublishProofs` | `ReceiptsTellTheTruth`, `ImplementsPublication` | `ReceiptsTrue`, `KeepsPromise` | `IInv` |
| | `PublicationFinal` | `PublicationIsFinal` | `FinalInv` |
| `WorkshopProofs` | `ImplementsLedger`, `OneOrderAtATime`, `DependenciesFirst` | `KeepsBooks`, `OneOrderPerCase`, `PrerequisitesFirst` | `IInv` |
| | `LanesStaySound`, `ReservationsAgreeWithLanes`, `ProductsFromOutputs`, `RefundedCaseTakesNoWork` | `LanesSound`, `ReservationsBackLanes`, `FabricatedFromOutputs`, `TerminalClosesCase` | `WeekInv` |
| `AcademyProofs` | `SlotsHold`, `DrillsHold`, `InstructorsHold` | `SlotsBound`, `DrillsStayTogether`, `InstructorsTeach` | `IInv` |
| | `TrainingMakesNoMoney` | `NoMoneyFromTraining` | `IInv`, with sums and quotients |
| `ProcurementProofs` | `RequestsDistinct`, `ContractHolds` | `DistinctRequests`, `ContractKept` | `IInv` |
| `ExpiringDecisionProofs` | `DecisionsTyped`, `DefaultsOnce`, `DeadlinesHold`, `DecisionsFinal` | `TypeOK`, `DefaultOnce`, `RightSideOfDeadline`, `DecidedStaysDecided` | `IInv` |

**Cases.** `TeamCaseAgreement` is not inductive. `Friction` clears the teams of the case it
reopens and leaves the team pointers alone, which is right only because that case is
resolved and so has no teams; and a spawned case starts with an empty list only because
nobody wrote to an index that did not exist. Hence

    CaseInv == TypeOK /\ TeamCaseAgreement /\ UnspawnedUntouched
               /\ ClosedEmpty /\ SuccessRecorded

where `UnspawnedUntouched` says that cases beyond the register are unspawned and without
teams, `ClosedEmpty` that a resolved case has no teams, and `SuccessRecorded` that the
week's `resolved` bucket holds finalized, resolved cases. The least element
`FirstSuccess` chooses exists by well-founded induction on the naturals.

`LedgerInv == CaseInv /\ WeekLedger /\ (phase = "command" => finalized = {})`: a command may
assign a team to any open case, so the ledger can only agree with the records because it is
empty between weeks. `OneVerdict` follows: a finalized case is open or resolved and without
teams, so no later pass can pick it.
`OperationInv == CaseInv /\ OperationRecord /\ BlankUntilSpawned`: a place of the register has
neither teams nor a clock until a case is spawned there. From it follows `ClocksRunDown`, the
safety half of `OperationsEnd`: a week is lost whenever the resolve pass reaches an operation, and
nothing gives one back; that the pass is reached again and again is what fairness adds.

**Normalization.** `NormalizeIdempotent` says that what one call of `normalizeGameState` leaves, whatever it
was given, a second one keeps. With `CaseInv` it follows that in `Deployment` no
state, between weeks or within them, has anything to repair (`NothingToRepair`).

**Closure.** `CaseInv` is lost when a case is closed under its teams. What is inductive there is the half
that the commands rely on:

    CrewsInv == TypeOK /\ PointBack /\ StaleClosed /\ OperationRecord
                /\ BlankUntilSpawned /\ UnspawnedUntouched /\ SuccessRecorded

`PointBack`: a listed team exists and points at the case that lists it. `StaleClosed`: a pointer
no list backs names a resolved case that is not among the successes of the running week. The
second half is needed because friction reopens such a success, and then
a stale pointer would name an open case. Orders
take a team only if it points nowhere or at the same case, hence never one that
another case lists (`ListedOnce`).

**Agents.** The four statements of `AgentInv` hold only together: a training that ends writes
`idle`, which is harmless only because no trainee is deployed; nobody deployed is in
training only because deployment requires a duty that the queue contradicts; the benched
stay home only because being benched makes unfit. `OperationStaffed` speaks of a case, but
teams are recalled one by one, so what is inductive is `TeamsStaffed`: *each* team
on an ordinary case has somebody assigned. The cap (`CapInv`) is kept through a week in which
successes may be taken back by counting, before friction, the unresolved cases
together with this week's successes (`UnderCap`); afterwards `OnlyPressureExceedsCap` is read
off the sets the spawn passes add.

**Publishing.** `ReceiptsTrue` holds of the ledger, of the receipts of the running batch
and of the saved ledger against the saved records, all three against the same
`delivered`: that is what survives a reload. `FinalInv` reads receipts and batch as one
ledger (`receipts \o noted`): no receipt follows a completed one of its record, and a ledger
that is not full has lost nothing, since bounding a ledger either leaves it whole
or leaves it full.

**Workshop.** `HeldIsReserved` relates the history to the code: inputs are `held` exactly
for the reservations of cases that were open when the week began, and an order that was
never registered has taken none. From it each pass maps to a step of `MaterialLedger` or
to a stutter.

The lanes and what flows through them take more:

    WeekInv == IInv /\ OtherTypes /\ LanesInv
               /\ ReservedIsWorked /\ WorkedIsReserved /\ DoneIsCredited /\ Products

`LanesInv` adds to `LanesSound` that an order outside the lanes has no work in it, since
one that is enqueued must start below its required work. The
other four say how far the passes of a week have come, since the three
records of an order (lane, reservation, receipt) disagree in the middle of one: an order that
the tick finished is still reserved until `CreditCompletion` has reached it (`cursor <= o`), a
released one is still in its lane until `CleanLanes`. Between weeks the exceptions are
void, which is `ReservationsBackLanes`. Lanes are sequences, so that the proofs rest on lemmas
about the queue as a list without repetition: what appending (`Appended`), moving to the
front (`MovedToFront`), taking the first ones into free slots (`Cut`, `Filled`, `Shifted`) and
taking orders out (`TakenOut`) keep, lose and bound.

**Academy.** The three invariants are inductive together. `TrainingMakesNoMoney` bounds the balance plus
the refunds of all courses that could be cancelled now, a sum over a finite set. What a sum is when one
element is added (`SumStep`, `SumTakesOut`) or when every entry gets one week older (`SumOfLater`) is proved by
taking a smallest set for which it fails (`Smallest`: strict inclusion is well-founded on the
subsets of a finite set) and deriving a contradiction, because an induction theorem takes the
statement as a parameter, which the provers cannot instantiate. The refund is a share rounded down: `ShareGrows` and `ShareOfAll` say that it grows with
the weeks left and never exceeds the price.

**Procurement, ExpiringDecision.** Request
ids are distinct because of `RequestsCounted`: the orders placed in the current week
are all still pending while commands are taken, so their number bounds the pending ones and a
number used this week is smaller than the next. During the close the count falls, but nothing is
placed then and the week that follows is a new one; only an order that is due ends, and none is due in its own
week. `OrderEnds` says that ending one order takes exactly its request off the books, so that each
visit of the close is a step or a stutter of the contract. In `ExpiringDecision` each record is `Sound`: undecided, decided or
expired, each with what it implies for the deadline, for `once` and for the effects sent.

**Only model-checked.** Liveness (`OperationsEnd`, `FirstNeglectedEscalates`, `ReadyGetsPublished`,
`QueuedWorkEnds`, `OrdersEnd`), since the prover reasons about neither fairness nor ENABLED. Every other property of a
passing run is also proved. The theorems say nothing about the four expected violations,
which are counterexamples TLC finds.

## 6. Not modelled

- **Runtime event queue**: a first-in first-out list beside the game state; its events
  are shown, not executed.
- **Production and equipment**: fabrication queues, lots, instances, loadouts; only the
  closure of finalized cases is modelled.
- **Recovery and downtime orders**: they change fatigue, stress and the pace of a recovery
  whose length `Deployment` leaves open.
- **Case lifecycle label**: moved by registry reports that no modelled part writes; only
  `cancelCase` is modelled, in `Workshop`. **Team lifecycle label**: derived from the team
  records by a table; it decides nothing in the modelled handlers.
- **The report's shortfall flag and a field base's carry-in** (both listed as hazards): the
  first is a free choice in `Deployment`, the second changes only scores and readiness.
- **Store, saves and transfer**: setters that call the modelled commands and the per-field
  sanitizing of a save, which has no steps; loads are modelled where a component
  reacts to them (`Reload`, `Hydrate`).
- **For good**: the React features and styles, report and hub wording, template data,
  factions, research, containment and facility registries (data tables read by
  scores) and the GitHub and webhook clients beyond the answers they report.
