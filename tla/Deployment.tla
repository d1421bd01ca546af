------------------------------ MODULE Deployment ------------------------------
(***************************************************************************)
(* Cases, field teams and agents of the weekly simulation, and the orders  *)
(* that bind them together.                                                *)
(*                                                                         *)
(* Between two weeks (phase "command") the player issues commands:         *)
(* src/domain/sim/assign.ts, sim/teamManagement.ts, sim/training.ts.       *)
(* advanceWeek (src/domain/sim/advanceWeek.ts) then runs its passes one    *)
(* after the other; a pass that loops over the cases takes one step per    *)
(* case, in the order of the case register (context.initialCaseIds).       *)
(*                                                                         *)
(* A case is the index of its key in the register, so a spawned case is    *)
(* the next number.  Scores, dice, rewards, fatigue and text are left out: *)
(* what they decide (an outcome, a casualty, who is eligible) is chosen    *)
(* freely among the values the code can produce.                           *)
(***************************************************************************)
EXTENDS Naturals, FiniteSets

CONSTANTS
    Teams,             \* the team ids that can ever exist
    NoTeam,            \* the reserve, where an agent without a team is
    Agents,            \* the hired agents
    MaxCases,          \* bound: cases ever spawned
    NoWeeks,           \* weeksRemaining: undefined
    InitialCases,      \* number of cases in the opening register
    InitialMembers,    \* opening roster of each team id ({} and not in
    InitialTeams,      \*   InitialTeams when the team does not exist yet)
    FieldBaseCases,    \* contract cases that carry a fieldBase packet
    DurationWeeks,     \* case.durationWeeks
    LongestWeeks,      \* bound: durationWeeks of a major incident's runtime
    DeadlineWeeks,     \* case.deadlineWeeks (= deadlineResetWeeks)
    OpeningStage,      \* stage of the opening and of the follow-up cases
    PressureStage,     \* least stage of an incident spawned by pressure
    TopStage,          \* the cap on case.stage (5 in the code)
    StageDelta,        \* stageDelta of onPartial, onFail and onUnresolved
    RaidStage,         \* convertToRaidAtStage
    OperationalStage,  \* a raid at this stage is a major incident operation
    RaidTeams,         \* raid.maxTeams of an ordinary raid
    MajorTeams,        \* requiredTeams of a major incident
    OverloadThreshold, \* COORDINATION_OVERLOAD_THRESHOLD
    MaxActiveCases,    \* config.maxActiveCases
    MaxSpawn,          \* bound: cases one spawn pass can create
    DeadlineChecks     \* maxPerWeek.OnDeadlineEscalation (1 in the code)

Cases   == 1 .. MaxCases
NoCase  == 0

ASSUME ConstantsAssumption ==
    /\ MaxCases \in Nat /\ MaxActiveCases \in Nat
    /\ InitialCases \in Cases /\ InitialCases <= MaxActiveCases
    /\ NoWeeks \notin Nat
    /\ NoTeam \notin Teams
    /\ InitialTeams \subseteq Teams
    /\ InitialMembers \in [Teams -> SUBSET Agents]
    /\ \A t \in Teams : t \notin InitialTeams => InitialMembers[t] = {}
    /\ \A t, u \in Teams : t # u => InitialMembers[t] \cap InitialMembers[u] = {}
    /\ FieldBaseCases \subseteq Cases
    /\ DurationWeeks \in Nat \ {0} /\ DeadlineWeeks \in Nat \ {0}
    /\ LongestWeeks \in Nat /\ DurationWeeks <= LongestWeeks
    /\ TopStage \in Nat /\ OpeningStage \in 0 .. TopStage
    /\ PressureStage \in 0 .. TopStage
    /\ StageDelta \in Nat /\ RaidStage \in Nat /\ OperationalStage \in Nat
    /\ RaidTeams \in Nat \ {0} /\ MajorTeams \in Nat \ {0, 1}
    /\ OverloadThreshold \in Nat
    /\ MaxSpawn \in Nat /\ DeadlineChecks \in Nat

ASSUME RosterAssumption == IsFiniteSet(Teams) /\ IsFiniteSet(Agents)

VARIABLES
    phase,              \* "command", or the pass of advanceWeek under way
    cursor,             \* the next case that pass visits
    caseCount,          \* cases in the register
    gameOver,           \* the campaign has ended
    \* case records
    caseStatus, caseKind, assignedTeamIds, weeksRemaining, stage,
    deadlineRemaining,
    majorIncident,      \* cases that carry a majorIncident runtime
    \* team records
    teamIds,            \* existing teams
    memberIds, teamCase,
    \* agent records
    agentStatus, assignment, agentCase,
    benched,            \* agents with an active benching consequence
    trainingQueue,      \* queued trainings, each as its set of trainees
    \* WeeklyExecutionContext
    processed, finalized, bucket, deadlineRuns, overloaded

caseVars  == <<caseCount, caseStatus, caseKind, assignedTeamIds, weeksRemaining,
               stage, deadlineRemaining, majorIncident>>
teamVars  == <<teamIds, memberIds, teamCase>>
agentVars == <<agentStatus, assignment, agentCase, benched, trainingQueue>>
weekVars  == <<processed, finalized, bucket, deadlineRuns, overloaded>>
vars      == <<phase, cursor, gameOver, caseVars, teamVars, agentVars, weekVars>>

Phases   == {"command", "prepare", "rotate", "resolve", "friction", "escalate",
             "spawn", "pressure", "queues"}
Statuses == {"unspawned", "open", "in_progress", "resolved"}
Health   == {"active", "injured", "recovering", "resigned", "dead"}
Duties   == {"idle", "assigned", "training", "recovery"}
Buckets  == {"resolved", "partial", "failed", "unresolved"}
Results  == {"success", "partial", "fail"}

NoBuckets == [b \in Buckets |-> {}]

-----------------------------------------------------------------------------
(* Readings of the state the handlers share.                               *)

Live          == 1 .. caseCount
Unresolved    == {c \in Live : caseStatus[c] # "resolved"}
Existing(c)   == assignedTeamIds[c] \cap teamIds
Crew(T)       == UNION {memberIds[t] : t \in T}
HomeTeams(a)  == {t \in teamIds : a \in memberIds[t]}
\* Mutant: deployed teams may be edited too.
EditableAnywhere(t) == t \in teamIds

Editable(t)   == teamCase[t] \notin Live
\* Mutant: the team's other case is not looked at.
AvailableAnyway(t, c) == t \in teamIds

Available(t, c) == teamCase[t] \in {NoCase, c}
Gone(a)       == agentStatus[a] \in {"dead", "resigned"}
Lesser(m, n)  == IF m < n THEN m ELSE n
\* Mutant: the stage cap is forgotten.
RaisedUncapped(s) == s + StageDelta

Raised(s)     == Lesser(s + StageDelta, TopStage)

\* Fatigue, morale, wounds and role coverage can only refuse more: the player
\* then does not get the assignment, which is the step not being taken.
Fit(a) == agentStatus[a] = "active" /\ assignment[a] = "idle"

\* Mutant: nobody on the teams has to be fit.
ValidUnfit(T) == \A a \in Crew(T) : assignment[a] # "training"

\* Mutant: trainees are not looked at.
ValidTrainees(T) == \E a \in Crew(T) : Fit(a)

Valid(T) == /\ \E a \in Crew(T) : Fit(a)
            /\ \A a \in Crew(T) : assignment[a] # "training"

\* Purpose "resolution", used to evaluate a plan for a case under way.
ValidInField(T) == /\ \E a \in Crew(T) : /\ agentStatus[a] = "active"
                                         /\ assignment[a] \in {"idle", "assigned"}
                   /\ \A a \in Crew(T) : assignment[a] # "training"

Operational(c) == \/ c \in majorIncident
                  \/ caseKind[c] = "raid" /\ stage[c] >= OperationalStage

\* Mutant: a launched major incident can be recalled.
CommittedNever(c) == c \notin Live

\* A launched major incident keeps its teams until it resolves.
Committed(c) == c \in majorIncident /\ caseStatus[c] = "in_progress"

MaxTeams(c) == IF c \in majorIncident THEN MajorTeams
               ELSE IF caseKind[c] = "raid" THEN RaidTeams ELSE 1

-----------------------------------------------------------------------------
(* normalizeGameState: team ids that no longer exist leave the cases, and a *)
(* team whose case does not list it loses its pointer.                     *)

NormalAssignments(listed, ids) == [c \in Cases |-> listed[c] \cap ids]

NormalPointers(pointer, listed) ==
    [t \in Teams |-> IF pointer[t] \in Cases /\ t \in listed[pointer[t]]
                     THEN pointer[t] ELSE NoCase]

\* The last call of every command: the records it leaves behind.
Normalize(listed, pointer, ids) ==
    /\ assignedTeamIds' = NormalAssignments(listed, ids)
    /\ teamCase' = NormalPointers(pointer, NormalAssignments(listed, ids))

\* Members of the teams T who are assigned to c go back to idle.
ReleaseAgents(T, c) ==
    LET freed == {a \in Crew(T) : assignment[a] = "assigned" /\ agentCase[a] = c}
    IN  [duty  |-> [a \in Agents |-> IF a \in freed THEN "idle" ELSE assignment[a]],
         place |-> [a \in Agents |-> IF a \in freed THEN NoCase ELSE agentCase[a]]]

\* Mutant: unfit members are deployed with their team.
AssignEveryone(held, T, c) ==
    LET sent == {a \in Crew(T) : held.duty[a] # "training"}
    IN  /\ assignment' = [a \in Agents |-> IF a \in sent THEN "assigned" ELSE held.duty[a]]
        /\ agentCase'  = [a \in Agents |-> IF a \in sent THEN c ELSE held.place[a]]

\* Active members of the teams T who are not in training are assigned to c.
AssignAgents(held, T, c) ==
    LET sent == {a \in Crew(T) : agentStatus[a] = "active" /\ held.duty[a] # "training"}
    IN  /\ assignment' = [a \in Agents |-> IF a \in sent THEN "assigned" ELSE held.duty[a]]
        /\ agentCase'  = [a \in Agents |-> IF a \in sent THEN c ELSE held.place[a]]

PointTo(T, c, released) ==
    [t \in Teams |-> IF t \in T THEN c
                     ELSE IF t \in released THEN NoCase ELSE teamCase[t]]

-----------------------------------------------------------------------------
(* The opening save: undeployed teams, fit agents, open cases.             *)

Init ==
    /\ phase = "command" /\ cursor = 1 /\ gameOver = FALSE
    /\ caseCount = InitialCases
    /\ caseStatus = [c \in Cases |-> IF c <= InitialCases THEN "open" ELSE "unspawned"]
    /\ caseKind \in [Cases -> {"case", "raid"}]
    /\ \A c \in Cases : c > InitialCases => caseKind[c] = "case"
    /\ assignedTeamIds = [c \in Cases |-> {}]
    /\ weeksRemaining = [c \in Cases |-> NoWeeks]
    /\ stage = [c \in Cases |-> OpeningStage]
    /\ deadlineRemaining = [c \in Cases |-> DeadlineWeeks]
    /\ majorIncident = {}
    /\ teamIds = InitialTeams
    /\ memberIds = InitialMembers
    /\ teamCase = [t \in Teams |-> NoCase]
    /\ agentStatus = [a \in Agents |-> "active"]
    /\ assignment = [a \in Agents |-> "idle"]
    /\ agentCase = [a \in Agents |-> NoCase]
    /\ benched = {} /\ trainingQueue = {}
    /\ processed = {} /\ finalized = {} /\ bucket = NoBuckets
    /\ deadlineRuns = 0 /\ overloaded = FALSE

-----------------------------------------------------------------------------
(* The player's commands.                                                  *)

\* Mutant: every assignment starts the clock again.
ClockRestarted(c) == DurationWeeks

\* weeksRemaining ?? durationWeeks: a team that joins or takes over an operation
\* inherits its clock.
ClockOf(c) == IF weeksRemaining[c] = NoWeeks THEN DurationWeeks ELSE weeksRemaining[c]

\* assignTeam: a standard case takes one team and drops the one it had, a
\* raid collects teams up to its limit.
AssignTeam(c, t) ==
    LET raid       == caseKind[c] = "raid"
        listed     == Existing(c)
        candidates == IF raid THEN listed \cup {t} ELSE {t}
        replaced   == IF raid THEN {} ELSE listed \ {t}
        changed    == t \notin listed \/ teamCase[t] # c
    IN  /\ phase = "command"
        /\ c \in Live /\ t \in teamIds
        /\ caseStatus[c] # "resolved"
        /\ Valid({t})
        /\ ~Operational(c)
        /\ Available(t, c)
        /\ raid => (Cardinality(listed) < MaxTeams(c) \/ t \in listed)
        /\ Valid(candidates)
        /\ AssignAgents(ReleaseAgents(replaced, c), IF changed THEN {t} ELSE {}, c)
        /\ Normalize([assignedTeamIds EXCEPT ![c] = candidates],
                     PointTo({t}, c, replaced), teamIds)
        /\ caseStatus' = [caseStatus EXCEPT ![c] = "in_progress"]
        /\ weeksRemaining' = [weeksRemaining EXCEPT ![c] = ClockOf(c)]
        /\ UNCHANGED <<phase, cursor, gameOver, caseCount, caseKind, stage, deadlineRemaining,
                       majorIncident, teamIds, memberIds, agentStatus, benched, trainingQueue,
                       weekVars>>

\* launchMajorIncident: exactly the required number of teams, none committed
\* to another case; teams already on the case may be kept or replaced.  The
\* clock starts at the length of the runtime, which stage, week and provisions
\* make longer or shorter than the case's own.
LaunchMajorIncident(c, T) ==
    LET listed   == Existing(c)
        replaced == listed \ T
        valid    == IF caseStatus[c] = "in_progress" THEN ValidInField(T) ELSE Valid(T)
    IN  /\ phase = "command"
        /\ c \in Live /\ T \subseteq teamIds
        /\ caseStatus[c] # "resolved"
        /\ Operational(c)
        /\ Cardinality(T) = MajorTeams
        /\ valid
        /\ \A t \in T : Available(t, c)
        /\ AssignAgents(ReleaseAgents(replaced, c), T \ listed, c)
        /\ Normalize([assignedTeamIds EXCEPT ![c] = T], PointTo(T, c, replaced), teamIds)
        /\ caseStatus' = [caseStatus EXCEPT ![c] = "in_progress"]
        /\ \E weeks \in 1 .. LongestWeeks :
              weeksRemaining' = [weeksRemaining EXCEPT ![c] = weeks]
        /\ majorIncident' = majorIncident \cup {c}
        /\ UNCHANGED <<phase, cursor, gameOver, caseCount, caseKind, stage, deadlineRemaining,
                       teamIds, memberIds, agentStatus, benched, trainingQueue, weekVars>>

\* unassignTeam: T is one listed team, or all of them when no team is named.
UnassignTeam(c, T) ==
    LET remaining == Existing(c) \ T
        freed     == ReleaseAgents(T, c)
    IN  /\ phase = "command"
        /\ c \in Live
        /\ ~Committed(c)
        /\ T # {} /\ T \subseteq assignedTeamIds[c]
        /\ T = assignedTeamIds[c] \/ Cardinality(T) = 1
        /\ assignment' = freed.duty /\ agentCase' = freed.place
        /\ Normalize([assignedTeamIds EXCEPT ![c] = remaining],
                     PointTo({}, c, T), teamIds)
        /\ caseStatus' = [caseStatus EXCEPT
                            ![c] = IF remaining = {} THEN "open" ELSE "in_progress"]
        /\ weeksRemaining' = [weeksRemaining EXCEPT
                                ![c] = IF remaining = {} THEN NoWeeks ELSE @]
        /\ UNCHANGED <<phase, cursor, gameOver, caseCount, caseKind, stage, deadlineRemaining,
                       majorIncident, teamIds, memberIds, agentStatus, benched, trainingQueue,
                       weekVars>>

\* Mutant: a trainee may change teams.
MovableTrainee(a, target) ==
    /\ \A t \in HomeTeams(a) : Editable(t)
    /\ target # NoTeam => target \in teamIds \ HomeTeams(a) /\ Editable(target) /\ ~Gone(a)

\* getTeamMoveEligibility: neither the agent's team nor the target is deployed.
Movable(a, target) ==
    /\ \A t \in HomeTeams(a) : Editable(t)
    /\ assignment[a] # "training"
    /\ target # NoTeam => /\ target \in teamIds \ HomeTeams(a)
                          /\ Editable(target)
                          /\ ~Gone(a)

\* Mutant: the agent stays on the old team as well.
RelocatedTwice(a, target) ==
    [t \in Teams |-> memberIds[t] \cup (IF t = target THEN {a} ELSE {})]

\* The rosters once a has left the team it was on for the target.
Relocated(a, target) ==
    [t \in Teams |-> (memberIds[t] \ {a}) \cup (IF t = target THEN {a} ELSE {})]

\* moveAgentBetweenTeams; the target NoTeam sends the agent to the reserve.
MoveAgent(a, target) ==
    /\ phase = "command"
    /\ Movable(a, target)
    /\ memberIds' = Relocated(a, target)
    /\ Normalize(assignedTeamIds, teamCase, teamIds)
    /\ UNCHANGED <<phase, cursor, gameOver, caseCount, caseStatus, caseKind, weeksRemaining, stage,
                   deadlineRemaining, majorIncident, teamIds, agentVars, weekVars>>

\* createTeam: a free id, seeded with one agent taken from the team it had.
CreateTeam(t, a) ==
    /\ phase = "command"
    /\ t \in Teams \ teamIds
    /\ ~Gone(a)
    /\ Movable(a, NoTeam)
    /\ teamIds' = teamIds \cup {t}
    /\ memberIds' = Relocated(a, t)
    /\ Normalize(assignedTeamIds, [teamCase EXCEPT ![t] = NoCase], teamIds')
    /\ UNCHANGED <<phase, cursor, gameOver, caseCount, caseStatus, caseKind, weeksRemaining, stage,
                   deadlineRemaining, majorIncident, agentVars, weekVars>>

DeleteEmptyTeam(t) ==
    /\ phase = "command"
    /\ t \in teamIds
    /\ Editable(t)
    /\ memberIds[t] = {}
    /\ teamIds' = teamIds \ {t}
    /\ Normalize(assignedTeamIds, [teamCase EXCEPT ![t] = NoCase], teamIds')
    /\ UNCHANGED <<phase, cursor, gameOver, caseCount, caseStatus, caseKind, weeksRemaining, stage,
                   deadlineRemaining, majorIncident, memberIds, agentVars, weekVars>>

\* queueTraining for one trainee, queueTeamTraining for a drill: some of the
\* eligible members of one team.  Slots and funding can only refuse more.
QueueTraining(A) ==
    /\ phase = "command"
    /\ \/ Cardinality(A) = 1
       \/ Cardinality(A) > 1 /\ \E t \in teamIds : A \subseteq memberIds[t]
    /\ \A a \in A : /\ agentStatus[a] = "active"
                    /\ assignment[a] # "training" /\ a \notin UNION trainingQueue
                    /\ \A t \in HomeTeams(a) : teamCase[t] = NoCase
    /\ trainingQueue' = trainingQueue \cup {A}
    /\ assignment' = [a \in Agents |-> IF a \in A THEN "training" ELSE assignment[a]]
    /\ agentCase' = [a \in Agents |-> IF a \in A THEN NoCase ELSE agentCase[a]]
    /\ Normalize(assignedTeamIds, teamCase, teamIds)
    /\ UNCHANGED <<phase, cursor, gameOver, caseCount, caseStatus, caseKind, weeksRemaining, stage,
                   deadlineRemaining, majorIncident, teamIds, memberIds, agentStatus,
                   benched, weekVars>>

\* The trainings of Q leave the queue with all their trainees.
EndTraining(Q) ==
    /\ trainingQueue' = trainingQueue \ Q
    /\ assignment' = [a \in Agents |-> IF a \in UNION Q THEN "idle" ELSE assignment[a]]
    /\ Normalize(assignedTeamIds, teamCase, teamIds)
    /\ UNCHANGED <<caseCount, caseStatus, caseKind, weeksRemaining, stage,
                   deadlineRemaining, majorIncident, teamIds, memberIds, agentStatus,
                   agentCase, benched>>

\* cancelTraining of any member cancels the whole drill.
CancelTraining(A) ==
    /\ phase = "command"
    /\ A \in trainingQueue
    /\ EndTraining({A})
    /\ UNCHANGED <<phase, cursor, gameOver, weekVars>>

-----------------------------------------------------------------------------
(* advanceWeek, pass by pass.                                              *)

\* Mutant: the timing checks are not reset.
FreshWeekTimingKept == /\ processed' = {} /\ finalized' = {} /\ bucket' = NoBuckets
                       /\ deadlineRuns' = deadlineRuns

FreshWeek == /\ processed' = {} /\ finalized' = {} /\ bucket' = NoBuckets
             /\ deadlineRuns' = 0

\* createWeeklyExecutionContext and the coordination test: operations under
\* way plus the support shortfalls last week's report noted.
BeginWeek ==
    /\ phase = "command" /\ ~gameOver
    /\ phase' = "prepare" /\ cursor' = 1
    /\ FreshWeek
    /\ \E shortfalls \in 0 .. caseCount :
          overloaded' = (Cardinality({c \in Live : caseStatus[c] = "in_progress"})
                         + shortfalls > OverloadThreshold)
    /\ UNCHANGED <<gameOver, caseVars, teamVars, agentVars>>

\* advanceWeek once the campaign has ended: it normalizes what it was given.
AdvanceEndedCampaign ==
    /\ phase = "command" /\ gameOver
    /\ Normalize(assignedTeamIds, teamCase, teamIds)
    /\ UNCHANGED <<phase, cursor, gameOver, caseCount, caseStatus, caseKind, weeksRemaining,
                   stage, deadlineRemaining, majorIncident, teamIds, memberIds, agentVars,
                   weekVars>>

\* recoverTrustDamagePassively, expireBetrayalConsequences, then
\* advanceRecoveryAgentsForWeek.  Expired are the agents whose last benching goes;
\* restored are those, and others without a benching whose trust damage fades,
\* which makes whoever is recovering active, the duty aside; healed are those
\* whose injury has run out.
PrepareAgents ==
    /\ phase = "prepare"
    /\ phase' = "rotate"
    /\ \E expired \in SUBSET benched, others \in SUBSET (Agents \ benched) :
       LET restored == expired \cup others
           status == [a \in Agents |->
                        IF a \in restored /\ agentStatus[a] = "recovering"
                        THEN "active" ELSE agentStatus[a]]
           resting == {a \in Agents : assignment[a] = "recovery"}
       IN  \E healed \in SUBSET {a \in resting : status[a] = "recovering"} :
             /\ agentStatus' = [a \in Agents |->
                                  IF a \in healed THEN "active"
                                  ELSE IF a \in resting /\ status[a] = "injured"
                                  THEN "recovering" ELSE status[a]]
             /\ assignment' = [a \in Agents |->
                                 IF a \in healed THEN "idle" ELSE assignment[a]]
             /\ benched' = benched \ expired
    /\ UNCHANGED <<cursor, gameOver, caseVars, teamVars, agentCase, trainingQueue, weekVars>>

\* The pass moves on to the next case, or to the next pass after the last.
Advance(next) ==
    IF cursor >= caseCount THEN phase' = next /\ cursor' = 1
                           ELSE phase' = phase /\ cursor' = cursor + 1

Visiting(pass) == phase = pass /\ cursor \in Live

\* applyFieldBaseStagingRotationAtWeekOpen, one case: out is tired or hurt and
\* leaves, in comes from the reserve or from a team that is not deployed.
RotateFieldBase(t, out, in) ==
    LET c == cursor
        onCase == assignment[out] = "assigned" /\ agentCase[out] = c
    IN  /\ Visiting("rotate")
        /\ c \in FieldBaseCases
        /\ caseStatus[c] = "in_progress" /\ assignedTeamIds[c] = {t} /\ t \in teamIds
        /\ out \in memberIds[t] /\ in # out
        /\ ~Gone(out) /\ assignment[out] \notin {"training", "recovery"}
        /\ agentStatus[in] = "active" /\ assignment[in] \notin {"training", "recovery"}
        /\ \A u \in HomeTeams(in) : u # t /\ teamCase[u] = NoCase
        /\ memberIds' = [u \in Teams |-> IF u = t THEN (memberIds[t] \ {out}) \cup {in}
                                         ELSE IF u \in HomeTeams(in) THEN memberIds[u] \ {in}
                                         ELSE memberIds[u]]
        /\ assignment' = [assignment EXCEPT ![out] = IF onCase THEN "idle" ELSE @,
                                            ![in] = "assigned"]
        /\ agentCase' = [agentCase EXCEPT ![out] = IF onCase THEN NoCase ELSE @,
                                          ![in] = c]
        /\ Normalize(assignedTeamIds, teamCase, teamIds)
        /\ Advance("resolve")
        /\ UNCHANGED <<gameOver, caseCount, caseStatus, caseKind, weeksRemaining, stage,
                       deadlineRemaining, majorIncident, teamIds, agentStatus, benched,
                       trainingQueue, weekVars>>

\* Nobody is tired enough, nobody can replace them, or no staging point.
SkipRotation ==
    /\ Visiting("rotate")
    /\ Advance("resolve")
    /\ UNCHANGED <<gameOver, caseVars, teamVars, agentVars, weekVars>>

WeeksLeft(c) ==
    IF weeksRemaining[c] = NoWeeks THEN DurationWeeks - 1
    ELSE IF weeksRemaining[c] = 0 THEN 0 ELSE weeksRemaining[c] - 1

UnderWay(c) == caseStatus[c] = "in_progress" /\ Existing(c) # {}

\* resolveAssignments passes over a case nobody works on.
SkipResolve ==
    /\ Visiting("resolve")
    /\ ~UnderWay(cursor)
    /\ assignedTeamIds' = [assignedTeamIds EXCEPT
                             ![cursor] = IF caseStatus[cursor] = "in_progress"
                                         THEN Existing(cursor) ELSE @]
    /\ Advance("friction")
    /\ UNCHANGED <<gameOver, caseCount, caseStatus, caseKind, weeksRemaining, stage,
                   deadlineRemaining, majorIncident, teamVars, agentVars, weekVars>>

\* An operation with weeks to go spends one.
ContinueOperation ==
    LET c == cursor
    IN  /\ Visiting("resolve")
        /\ UnderWay(c) /\ WeeksLeft(c) > 0
        /\ processed' = processed \cup {c}
        /\ assignedTeamIds' = [assignedTeamIds EXCEPT ![c] = Existing(c)]
        /\ weeksRemaining' = [weeksRemaining EXCEPT ![c] = WeeksLeft(c)]
        /\ Advance("friction")
        /\ UNCHANGED <<gameOver, caseCount, caseStatus, caseKind, stage, deadlineRemaining,
                       majorIncident, teamVars, agentVars, finalized, bucket,
                       deadlineRuns, overloaded>>

\* recordCaseOutcome over the buckets b and the finalized ids f.
Recorded(b, f, c, kind) ==
    IF c \in f THEN b ELSE [b EXCEPT ![kind] = @ \cup {c}]

\* Mutant: the success stays in its bucket.
DowngradedTwice(b, f, c) == Recorded(b, f \ {c}, c, "partial")

\* A recorded success taken back and recorded as partial.
Downgraded(b, f, c) ==
    Recorded([b EXCEPT !["resolved"] = @ \ {c}], f \ {c}, c, "partial")

\* applyMissionResolutionAgentMutations on the whole crew, then
\* applyBetrayalConsequences.  Only a failure hurts, and only an active agent;
\* a breach needs two colleagues, and a resignation comes with a benching.
MissionAgents(crew, result) ==
    \E hurt, killed, newlyBenched, quitting \in SUBSET crew :
    LET status == [a \in Agents |-> IF a \in killed THEN "dead"
                                    ELSE IF a \in hurt THEN "injured"
                                    ELSE agentStatus[a]]
    IN  /\ hurt \cap killed = {}
        /\ result # "fail" => hurt \cup killed \cup newlyBenched \cup quitting = {}
        /\ \A a \in hurt \cup killed : agentStatus[a] = "active"
        /\ \A a \in newlyBenched \cup quitting : status[a] \notin {"dead", "resigned"}
        /\ newlyBenched \cup quitting # {} => Cardinality(crew) > 1
        /\ newlyBenched \cap benched = {} /\ quitting \subseteq benched \cup newlyBenched
        /\ agentStatus' = [a \in Agents |->
                             IF a \in quitting THEN "resigned"
                             ELSE IF a \in newlyBenched /\ status[a] = "active"
                             THEN "recovering" ELSE status[a]]
        /\ assignment' = [a \in Agents |->
                            IF a \in hurt \ newlyBenched THEN "recovery"
                            ELSE IF a \in crew THEN "idle" ELSE assignment[a]]
        /\ agentCase' = [a \in Agents |-> IF a \in crew THEN NoCase ELSE agentCase[a]]
        /\ benched' = benched \cup newlyBenched

\* The last week of an operation: the teams come home, the crew is mutated and
\* the case is settled by its result.  A success whose follow-through breaks
\* down is recorded as resolved and then downgraded in the same iteration.
ResolveOperation(result, degraded) ==
    LET c == cursor
        kind == IF result = "success" THEN "resolved"
                ELSE IF result = "partial" THEN "partial" ELSE "failed"
        first == Recorded(bucket, finalized, c, kind)
        closed == result = "success" /\ ~degraded
    IN  /\ Visiting("resolve")
        /\ UnderWay(c) /\ WeeksLeft(c) = 0
        /\ degraded => result = "success"
        /\ processed' = processed \cup {c}
        /\ teamCase' = [t \in Teams |-> IF t \in Existing(c) THEN NoCase ELSE teamCase[t]]
        /\ MissionAgents(Crew(Existing(c)), result)
        /\ assignedTeamIds' = [assignedTeamIds EXCEPT ![c] = {}]
        /\ caseStatus' = [caseStatus EXCEPT ![c] = IF closed THEN "resolved" ELSE "open"]
        /\ weeksRemaining' = [weeksRemaining EXCEPT ![c] = IF closed THEN 0 ELSE NoWeeks]
        /\ stage' = [stage EXCEPT ![c] = IF closed THEN @ ELSE Raised(@)]
        /\ bucket' = IF degraded
                     THEN Downgraded(first, finalized \cup {c}, c)
                     ELSE first
        /\ finalized' = finalized \cup {c}
        /\ Advance("friction")
        /\ UNCHANGED <<gameOver, caseCount, caseKind, deadlineRemaining, majorIncident, teamIds,
                       memberIds, trainingQueue, deadlineRuns, overloaded>>

\* Mutant: a success of any week is taken back.
FirstSuccessEver == CHOOSE d \in Live : caseStatus[d] = "resolved"

FirstSuccess ==
    CHOOSE d \in bucket["resolved"] : \A e \in bucket["resolved"] : d <= e

\* downgradeResolvedCaseToPartial for the first success of the week, when the
\* agency is overloaded.
Friction ==
    /\ phase = "friction"
    /\ phase' = "escalate" /\ cursor' = 1
    /\ IF overloaded /\ bucket["resolved"] # {}
       THEN LET c == FirstSuccess
            IN  /\ caseStatus' = [caseStatus EXCEPT ![c] = "open"]
                /\ assignedTeamIds' = [assignedTeamIds EXCEPT ![c] = {}]
                /\ weeksRemaining' = [weeksRemaining EXCEPT ![c] = NoWeeks]
                /\ stage' = [stage EXCEPT ![c] = Raised(@)]
                /\ bucket' = Downgraded(bucket, finalized, c)
       ELSE UNCHANGED <<caseStatus, assignedTeamIds, weeksRemaining, stage, bucket>>
    /\ UNCHANGED <<gameOver, caseCount, caseKind, deadlineRemaining, majorIncident, teamVars,
                   agentVars, processed, finalized, deadlineRuns, overloaded>>

-----------------------------------------------------------------------------
(* escalateCases.                                                          *)

\* Mutant: cases that were handled this week are not skipped.
UnattendedAgain(c) == caseStatus[c] = "open" /\ Existing(c) = {}

Unattended(c) == /\ c \notin finalized \cup processed
                 /\ caseStatus[c] = "open"
                 /\ Existing(c) = {}

\* decrementOpenDeadline, twice when the district is under local pressure.
Countdown(c, pressed) ==
    LET weeks == IF pressed THEN 2 ELSE 1
    IN  IF deadlineRemaining[c] > weeks THEN deadlineRemaining[c] - weeks ELSE 0

SkipEscalation ==
    /\ Visiting("escalate")
    /\ ~Unattended(cursor)
    /\ assignedTeamIds' = [assignedTeamIds EXCEPT
                             ![cursor] = IF cursor \in finalized \cup processed THEN @
                                         ELSE Existing(cursor)]
    /\ Advance("spawn")
    /\ UNCHANGED <<gameOver, caseCount, caseStatus, caseKind, weeksRemaining, stage,
                   deadlineRemaining, majorIncident, teamVars, agentVars, weekVars>>

TimingAllows == deadlineRuns < DeadlineChecks

\* The countdown is written only while shouldRunTimingCheck allows it.
CountDown(pressed) ==
    LET c == cursor
        left == Countdown(c, pressed)
        allowed == TimingAllows
    IN  /\ Visiting("escalate")
        /\ Unattended(c) /\ left > 0
        /\ processed' = processed \cup {c}
        /\ deadlineRemaining' = [deadlineRemaining EXCEPT ![c] = IF allowed THEN left ELSE @]
        /\ deadlineRuns' = IF allowed THEN deadlineRuns + 1 ELSE deadlineRuns
        /\ Advance("spawn")
        /\ UNCHANGED <<gameOver, caseCount, caseStatus, caseKind, assignedTeamIds, weeksRemaining,
                       stage, majorIncident, teamVars, agentVars, finalized, bucket,
                       overloaded>>

\* createDeadlineEscalationTransition: the deadline lapsed.
EscalateCase(pressed) ==
    LET c == cursor
    IN  /\ Visiting("escalate")
        /\ Unattended(c) /\ Countdown(c, pressed) = 0
        /\ processed' = processed \cup {c}
        /\ stage' = [stage EXCEPT ![c] = Raised(@)]
        /\ caseKind' = [caseKind EXCEPT ![c] = IF stage'[c] >= RaidStage THEN "raid" ELSE @]
        /\ deadlineRemaining' = [deadlineRemaining EXCEPT ![c] = DeadlineWeeks]
        /\ bucket' = Recorded(bucket, finalized, c, "unresolved")
        /\ finalized' = finalized \cup {c}
        /\ Advance("spawn")
        /\ UNCHANGED <<gameOver, caseCount, caseStatus, assignedTeamIds, weeksRemaining,
                       majorIncident, teamVars, agentVars, deadlineRuns, overloaded>>

-----------------------------------------------------------------------------
(* Spawning and the queues, then the week is over.                         *)

\* n new cases join the end of the register, those of R as raids.
Spawn(n, R, s) ==
    LET new == caseCount + 1 .. caseCount + n
    IN  /\ caseCount + n <= MaxCases
        /\ R \subseteq new
        /\ caseCount' = caseCount + n
        /\ caseStatus' = [c \in Cases |-> IF c \in new THEN "open" ELSE caseStatus[c]]
        /\ caseKind' = [c \in Cases |-> IF c \in R THEN "raid" ELSE caseKind[c]]
        /\ stage' = [c \in Cases |-> IF c \in new THEN s ELSE stage[c]]

Slots(active) == IF active < MaxActiveCases THEN MaxActiveCases - active ELSE 0

\* Mutant: the second limit does not count what the first spawn created.
SlotsUncounted(active, created) == Slots(active)

\* limitSpawnResultToAvailableSlots counts the cases as they are by then.
SlotsAfter(active, created) == Slots(active + created)

\* spawnFollowUps: failures first, then lapsed deadlines, each limited to the
\* slots that are free when it runs.
SpawnFollowUps ==
    /\ phase = "spawn"
    /\ phase' = "pressure" /\ cursor' = 1
    /\ \E fromFailed, fromLapsed \in 0 .. MaxSpawn :
       LET active == Cardinality(Unresolved)
           first == Lesser(fromFailed, Slots(active))
           second == Lesser(fromLapsed, SlotsAfter(active, first))
       IN  /\ bucket["failed"] = {} => fromFailed = 0
           /\ bucket["unresolved"] = {} => fromLapsed = 0
           /\ \E R \in SUBSET Cases : Spawn(first + second, R, OpeningStage)
    /\ UNCHANGED <<gameOver, assignedTeamIds, weeksRemaining, deadlineRemaining, majorIncident,
                   teamVars, agentVars, weekVars>>

\* executePressurePipeline and applyRaids: raids, without regard to the slots.
SpawnPressureIncidents ==
    /\ phase = "pressure"
    /\ phase' = "queues" /\ cursor' = 1
    /\ \E n \in 0 .. MaxSpawn, s \in {OpeningStage, PressureStage} :
          Spawn(n, caseCount + 1 .. caseCount + n, s)
    /\ UNCHANGED <<gameOver, assignedTeamIds, weeksRemaining, deadlineRemaining, majorIncident,
                   teamVars, agentVars, weekVars>>

Ended == Unresolved = {} \/ Cardinality(Unresolved) > MaxActiveCases

\* advanceTrainingQueues, then the verdict of updateAgencyMetrics: the campaign
\* ends when nothing is left to do or too much is.  The context is dropped.
CloseWeek ==
    /\ phase = "queues"
    /\ \E Q \in SUBSET trainingQueue : EndTraining(Q)
    /\ gameOver' = Ended
    /\ phase' = "command" /\ cursor' = 1
    /\ FreshWeek /\ overloaded' = FALSE

-----------------------------------------------------------------------------
Command ==
    \/ \E c \in Cases, t \in Teams : AssignTeam(c, t)
    \/ \E c \in Cases, T \in SUBSET Teams : LaunchMajorIncident(c, T)
    \/ \E c \in Cases, T \in SUBSET Teams : UnassignTeam(c, T)
    \/ \E a \in Agents, t \in Teams \cup {NoTeam} : MoveAgent(a, t)
    \/ \E t \in Teams, a \in Agents : CreateTeam(t, a)
    \/ \E t \in Teams : DeleteEmptyTeam(t)
    \/ \E A \in SUBSET Agents : QueueTraining(A)
    \/ \E A \in trainingQueue : CancelTraining(A)

Week ==
    \/ PrepareAgents
    \/ \E t \in Teams, out, in \in Agents : RotateFieldBase(t, out, in)
    \/ SkipRotation
    \/ SkipResolve
    \/ ContinueOperation
    \/ \E result \in Results, degraded \in BOOLEAN : ResolveOperation(result, degraded)
    \/ Friction
    \/ SkipEscalation
    \/ \E pressed \in BOOLEAN : CountDown(pressed)
    \/ \E pressed \in BOOLEAN : EscalateCase(pressed)
    \/ SpawnFollowUps
    \/ SpawnPressureIncidents
    \/ CloseWeek

Next == Command \/ BeginWeek \/ AdvanceEndedCampaign \/ Week

Spec == Init /\ [][Next]_vars

\* advanceWeek is one synchronous call, so a week that began runs to its end (no
\* pass can block or go back, so this is weak fairness of Week), and the player
\* keeps closing weeks.  Nothing obliges them to command.
FairSpec == Spec /\ WF_vars(BeginWeek) /\ []<>(phase = "command")

-----------------------------------------------------------------------------
(* Properties.                                                             *)

CaseTypes ==
    /\ caseCount \in Cases
    /\ caseStatus \in [Cases -> Statuses]
    /\ caseKind \in [Cases -> {"case", "raid"}]
    /\ assignedTeamIds \in [Cases -> SUBSET Teams]
    /\ weeksRemaining \in [Cases -> 0 .. LongestWeeks \cup {NoWeeks}]
    /\ stage \in [Cases -> 0 .. TopStage]
    /\ deadlineRemaining \in [Cases -> 0 .. DeadlineWeeks]
    /\ majorIncident \subseteq Cases

TeamTypes ==
    /\ teamIds \subseteq Teams
    /\ memberIds \in [Teams -> SUBSET Agents]
    /\ teamCase \in [Teams -> Cases \cup {NoCase}]

AgentTypes ==
    /\ agentStatus \in [Agents -> Health]
    /\ assignment \in [Agents -> Duties]
    /\ agentCase \in [Agents -> Cases \cup {NoCase}]
    /\ benched \subseteq Agents
    /\ trainingQueue \subseteq SUBSET Agents

WeekTypes ==
    /\ phase \in Phases /\ cursor \in Nat
    /\ gameOver \in BOOLEAN /\ overloaded \in BOOLEAN
    /\ processed \subseteq Cases /\ finalized \subseteq Cases
    /\ bucket \in [Buckets -> SUBSET Cases]
    /\ deadlineRuns \in Nat

\* Every variable keeps the shape its record has in the code: the stage stays
\* at most TopStage and a countdown never passes its range or goes below zero.
TypeOK == CaseTypes /\ TeamTypes /\ AgentTypes /\ WeekTypes

\* An agent is on at most one team, and only existing teams have members: no
\* order of moves, new teams, deletions and field rotations clones anybody.
OneTeamPerAgent ==
    /\ \A t, u \in Teams : t # u => memberIds[t] \cap memberIds[u] = {}
    /\ \A t \in Teams \ teamIds : memberIds[t] = {}

\* The team's pointer to its case and the case's list of teams agree after
\* every command and every step of the week, so no team works two cases.
\* normalizeGameState repairs only one half of it (a pointer nobody lists).
TeamCaseAgreement ==
    /\ \A c \in Cases, t \in Teams : t \in assignedTeamIds[c] <=> teamCase[t] = c
    /\ \A c \in Cases : assignedTeamIds[c] \subseteq teamIds

\* An agent marked assigned is fit, and is on a team that works the case the
\* assignment names; nobody else points at a case.
DeployedAgentsAgree ==
    \A a \in Agents :
        /\ assignment[a] = "assigned" =>
              /\ agentStatus[a] = "active"
              /\ \E t \in teamIds : /\ a \in memberIds[t]
                                    /\ agentCase[a] # NoCase
                                    /\ t \in assignedTeamIds[agentCase[a]]
        /\ assignment[a] # "assigned" => agentCase[a] = NoCase

\* A case is under way exactly when it has teams and a remaining duration; a
\* case nobody works carries no stale clock that the next team would inherit.
OperationRecord ==
    \A c \in Live :
        /\ caseStatus[c] = "in_progress" <=> assignedTeamIds[c] # {}
        /\ caseStatus[c] = "in_progress" => weeksRemaining[c] \in 1 .. LongestWeeks
        /\ caseStatus[c] = "open" => weeksRemaining[c] = NoWeeks

\* A launched major incident keeps exactly the teams it requires until it
\* resolves, and no case holds more teams than its kind allows.
CommittedTeams ==
    \A c \in Live :
        /\ c \in majorIncident /\ caseStatus[c] = "in_progress"
              => Cardinality(assignedTeamIds[c]) = MajorTeams
        /\ Cardinality(assignedTeamIds[c]) <= MaxTeams(c)
        /\ Operational(c) /\ caseStatus[c] = "in_progress" => c \in majorIncident

\* An ordinary operation under way always has somebody assigned to it, whatever
\* injuries, rotations, replaced teams and cancelled trainings went before.
OperationStaffed ==
    \A c \in Live \ majorIncident :
        caseStatus[c] = "in_progress" =>
            \E a \in Crew(assignedTeamIds[c]) : assignment[a] = "assigned" /\ agentCase[a] = c

\* Nobody trains on a team that is deployed, though training is entered per
\* agent and deployment per team.
NoTrainingInTheField ==
    \A t \in teamIds, a \in Agents :
        a \in memberIds[t] /\ assignment[a] = "training" => teamCase[t] = NoCase

\* The training queue and the agents' assignments say the same: no handler that
\* writes one of them leaves the other behind, nobody trains twice, and a drill
\* stays together on one team until it is over.
TrainingQueueAgrees ==
    /\ UNION trainingQueue = {a \in Agents : assignment[a] = "training"}
    /\ \A A, B \in trainingQueue : A # B => A \cap B = {}
    /\ \A A \in trainingQueue :
          Cardinality(A) > 1 => \E t \in teamIds : A \subseteq memberIds[t]

\* An agent benched for a betrayal is idle and unfit until the benching runs
\* out, even while the team it belongs to goes back to the field.
BenchedStayHome ==
    \A a \in benched : assignment[a] = "idle" /\ agentStatus[a] # "active"

\* The buckets of the week are disjoint, hold the finalized cases and say what
\* the case records say, also after a success was taken back.
WeekLedger ==
    /\ \A b, d \in Buckets : b # d => bucket[b] \cap bucket[d] = {}
    /\ finalized = UNION {bucket[b] : b \in Buckets}
    /\ \A c \in bucket["resolved"] : caseStatus[c] = "resolved"
    /\ \A c \in finalized \ bucket["resolved"] :
          caseStatus[c] = "open" /\ assignedTeamIds[c] = {}

\* A resolved case is never reopened, except by the coordination friction of
\* the very week that resolved it.
ClosedCasesStayClosed ==
    [][\A c \in Live : caseStatus[c] = "resolved" /\ caseStatus'[c] # "resolved" =>
          phase = "friction" /\ c \in finalized]_vars

\* A case gets one verdict a week: once it is finalized no later pass raises
\* its stage, moves its deadline or turns it into a raid.  Only the friction
\* pass may still take a success back.
OneVerdictPerWeek ==
    [][\A c \in finalized :
          stage'[c] # stage[c] \/ deadlineRemaining'[c] # deadlineRemaining[c]
          \/ caseKind'[c] # caseKind[c] => phase = "friction" /\ c \in bucket["resolved"]]_vars

\* Only incidents of pressure and raids bring the register past the cap: not the
\* two follow-up spawns together, each limited on its own, not a success taken
\* back after other cases were counted, and no command.
OnlyPressureExceedsCap ==
    [][Cardinality(Unresolved) <= MaxActiveCases
       /\ Cardinality(Unresolved') > MaxActiveCases => phase = "pressure"]_vars

\* An ordinary operation does not stay in the field for ever: it is resolved,
\* fails, is recalled or becomes a major incident, unless the campaign ends first.
OperationsEnd ==
    \A c \in Cases :
        []<>(caseStatus[c] = "in_progress" => c \in majorIncident \/ gameOver)

\* The first case of the register, left alone for ever, escalates again and
\* again: its countdown is always among those the week's limit lets through.
FirstNeglectedEscalates ==
    <>[](caseStatus[1] = "open") => []<>(1 \in bucket["unresolved"] \/ gameOver)

\* data/copy.ts:88 says of case.deadline "Weeks before the operation
\* auto-escalates if left unresolved.": every case left alone for ever
\* escalates again and again, wherever it is in the register.
NeglectEscalates ==
    \A c \in Cases :
        <>[](c \in Live /\ caseStatus[c] = "open") => []<>(c \in bucket["unresolved"] \/ gameOver)

\* docs/operative-attrition-loss-replacement-audit.md:22 says "Temporary loss is
\* tracked with explicit duration and recovery path.": between weeks an agent
\* who is injured or recovering is in recovery or on a benching that runs out.
TemporaryLossTracked ==
    phase = "command" =>
        \A a \in Agents : agentStatus[a] \in {"injured", "recovering"} =>
            assignment[a] = "recovery" \/ a \in benched
=============================================================================
