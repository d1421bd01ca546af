-------------------------------- MODULE Academy --------------------------------
(***************************************************************************)
(* The academy: courses bought for one agent or for several members of a   *)
(* team, the slots they take, the money a cancelled course gives back, and *)
(* the instructors assigned to trainees.                                   *)
(*                                                                         *)
(* Health, fatigue, research, deployment and the roster of a team decide   *)
(* who may be sent; here every agent who is not in training may be, and    *)
(* any agents may be members of one team.  What Deployment says of agents  *)
(* in training is not repeated.                                            *)
(***************************************************************************)
EXTENDS Integers, FiniteSets, FiniteSetsExt

CONSTANTS
    Agents, Instructors,
    NoAgent,          \* an instructor without a trainee
    NoCourse,         \* the entry of an agent who is not in the queue
    SoloPrograms, DrillPrograms,   \* records: fee, weeks, tier
    TrainingSlots,    \* config.trainingSlots
    MaxTier,          \* MAX_ACADEMY_TIER
    UpgradeCost,      \* ACADEMY_UPGRADE_COSTS, by tier
    MaxFunding        \* bound of the model on the agency's money

Program == [fee : Nat, weeks : Nat \ {0}, tier : Nat]

Entry == [members : SUBSET Agents, cost : Nat, weeks : Nat \ {0}, remaining : Nat \ {0}]

ASSUME AcademyAssumption ==
    /\ IsFiniteSet(Agents) /\ NoAgent \notin Agents
    /\ NoCourse \notin Entry
    /\ SoloPrograms \subseteq Program /\ DrillPrograms \subseteq Program
    /\ TrainingSlots \in Nat /\ MaxTier \in Nat
    /\ UpgradeCost \in [0..MaxTier -> Nat]
    /\ MaxFunding \in Nat

VARIABLES
    funding,      \* GameState.funding
    academyTier,  \* GameState.academyTier
    queue,        \* the entry of GameState.trainingQueue of each agent
    teaches       \* staff[i].assignedAgentId of each instructor

vars == <<funding, academyTier, queue, teaches>>

Init ==
    /\ funding \in 0..MaxFunding
    /\ academyTier = 0
    /\ queue = [a \in Agents |-> NoCourse]
    /\ teaches = [i \in Instructors |-> NoAgent]

Trainees == {a \in Agents : queue[a] # NoCourse}

\* getEffectiveTrainingSlots less the agents in training.
FreeSlots == TrainingSlots + academyTier - Cardinality(Trainees)

\* getTeamTrainingScaledCost: a quarter of the fee, rounded, for each member
\* beyond the second.
ScaledCost(fee, n) == IF n <= 2 THEN fee ELSE fee + (fee * (n - 2) + 2) \div 4

\* getTrainingCancelRefund: the share of the weeks that are left.
Refund(entry) == (entry.cost * entry.remaining) \div entry.weeks

\* Every participant's entry records the members and the cost of the whole course.
Enroll(P, program, cost) ==
    /\ program.tier <= academyTier
    /\ funding >= cost
    /\ funding' = funding - cost
    /\ queue' = [a \in Agents |->
                    IF a \in P
                    THEN [members |-> P, cost |-> cost, weeks |-> program.weeks,
                          remaining |-> program.weeks]
                    ELSE queue[a]]
    /\ UNCHANGED <<academyTier, teaches>>

QueueTraining(a, program) ==
    /\ a \notin Trainees
    /\ FreeSlots > 0
    /\ Enroll({a}, program, program.fee)

\* Mutant: a drill needs one free slot, as the course of one agent does.
AnyRoom(P) == FreeSlots > 0

\* The eligible members are cut down to the free slots.
HasRoom(P) == Cardinality(P) <= FreeSlots

QueueTeamTraining(P, program) ==
    /\ P \cap Trainees = {}
    /\ Cardinality(P) >= 2
    /\ HasRoom(P)
    /\ Enroll(P, program, ScaledCost(program.fee, Cardinality(P)))

\* Mutant: only the agent named in the command leaves the course.
OnlyTheAgent(a) == {a}

\* The entries cancelTraining removes: all those of the agent's drill.
Cancelled(a) == queue[a].members

\* Mutant: every entry of the drill is refunded.
RefundEach(a) == Cardinality(queue[a].members) * Refund(queue[a])

RefundOnce(a) == Refund(queue[a])

\* Mutant: instructors keep their trainee.
KeepTeaching(C) == teaches

\* The instructors of agents who leave are free again.
Released(C) == [i \in Instructors |-> IF teaches[i] \in C THEN NoAgent ELSE teaches[i]]

CancelTraining(a) ==
    /\ a \in Trainees
    /\ funding' = funding + RefundOnce(a)
    /\ queue' = [b \in Agents |-> IF b \in Cancelled(a) THEN NoCourse ELSE queue[b]]
    /\ teaches' = Released(Cancelled(a))
    /\ UNCHANGED academyTier

AssignInstructor(i, a) ==
    /\ a \in Trainees
    /\ teaches[i] = NoAgent
    /\ \A j \in Instructors : teaches[j] # a
    /\ teaches' = [teaches EXCEPT ![i] = a]
    /\ UNCHANGED <<funding, academyTier, queue>>

UnassignInstructor(i) ==
    /\ teaches' = [teaches EXCEPT ![i] = NoAgent]
    /\ UNCHANGED <<funding, academyTier, queue>>

UpgradeAcademy ==
    /\ academyTier < MaxTier
    /\ funding >= UpgradeCost[academyTier]
    /\ funding' = funding - UpgradeCost[academyTier]
    /\ academyTier' = academyTier + 1
    /\ UNCHANGED <<queue, teaches>>

Completed == {a \in Trainees : queue[a].remaining = 1}

\* advanceTrainingQueues: a week passes for every entry, and those that are over
\* leave with their instructors.
AdvanceTrainingQueues ==
    /\ queue' = [a \in Agents |->
                    CASE a \in Completed -> NoCourse
                      [] a \in Trainees \ Completed ->
                            [queue[a] EXCEPT !.remaining = @ - 1]
                      [] OTHER -> NoCourse]
    /\ teaches' = Released(Completed)
    /\ UNCHANGED <<funding, academyTier>>

\* The rest of the game spends and earns.
Elsewhere ==
    /\ funding' \in 0..MaxFunding
    /\ UNCHANGED <<academyTier, queue, teaches>>

Next ==
    \/ \E a \in Agents, p \in SoloPrograms : QueueTraining(a, p)
    \/ \E P \in SUBSET Agents, p \in DrillPrograms : QueueTeamTraining(P, p)
    \/ \E a \in Agents : CancelTraining(a)
    \/ \E i \in Instructors, a \in Agents : AssignInstructor(i, a)
    \/ \E i \in Instructors : UnassignInstructor(i)
    \/ UpgradeAcademy
    \/ AdvanceTrainingQueues
    \/ Elsewhere

Spec == Init /\ [][Next]_vars

-----------------------------------------------------------------------------

TypeOK ==
    /\ funding \in Nat
    /\ academyTier \in 0..MaxTier
    /\ queue \in [Agents -> Entry \cup {NoCourse}]
    /\ teaches \in [Instructors -> Agents \cup {NoAgent}]

\* There are never more agents in training than the academy has slots, although
\* a drill takes several slots at once (queueTeamTraining, getEffectiveTrainingSlots).
SlotsBound == Cardinality(Trainees) <= TrainingSlots + academyTier

\* Members of a drill are in training together, with the same cost and the same
\* time left: whoever of them the player cancels, the same agents leave and the
\* same money comes back (cancelTraining reads the entry of one agent only).
DrillsStayTogether ==
    \A a \in Trainees :
        /\ a \in queue[a].members
        /\ \A b \in queue[a].members : queue[b] = queue[a]

\* An instructor assigned to an agent teaches a course that is under way, and no
\* two teach the same agent (assignInstructor, cancelTraining and
\* advanceTrainingQueues each clear one part of this).
InstructorsTeach ==
    /\ \A i \in Instructors : teaches[i] # NoAgent => teaches[i] \in Trainees
    /\ \A i, j \in Instructors : teaches[i] = teaches[j] /\ teaches[i] # NoAgent => i = j

\* What the agency has, and what it would get for cancelling every course now.
Courses == {queue[a] : a \in Trainees}
Worth == funding + MapThenSumSet(Refund, Courses)

\* Training makes no money: no sequence of courses bought, cancelled and bought
\* again leaves the agency richer ("no free cancellation exploit", training.ts:1296).
NoMoneyFromTraining == [][Elsewhere \/ Worth' <= Worth]_vars
===============================================================================
