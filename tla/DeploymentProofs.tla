--------------------------- MODULE DeploymentProofs ---------------------------
(***************************************************************************)
(* Proofs about Deployment, for every agency, register and calibration:    *)
(* the shape of the records, the rosters, the teams of cases, the ledger   *)
(* of a week and the record of an operation.                               *)
(***************************************************************************)
EXTENDS Deployment, FiniteSetTheorems, WellFoundedInduction, TLAPS

\* What normalizeGameState leaves has the shape of the records.
LEMMA NormalizeTypes ==
    ASSUME NEW L \in [Cases -> SUBSET Teams], NEW P, NEW I, Normalize(L, P, I)
    PROVE  /\ assignedTeamIds' \in [Cases -> SUBSET Teams]
           /\ teamCase' \in [Teams -> Cases \cup {NoCase}]
BY DEF Normalize, NormalAssignments, NormalPointers

\* Raising a stage respects the cap.
LEMMA RaisedInRange ==
    ASSUME NEW s \in 0 .. TopStage
    PROVE  Raised(s) \in 0 .. TopStage
BY ConstantsAssumption DEF Raised, Lesser

\* A pass visits cases of the register and leaves a cursor for the next one.
LEMMA Visited ==
    ASSUME TypeOK, NEW pass, Visiting(pass)
    PROVE  cursor \in Cases
<1>1. caseCount \in Nat /\ caseCount <= MaxCases /\ MaxCases \in Nat
  BY ConstantsAssumption DEF TypeOK, CaseTypes, Cases
<1>2. cursor \in 1 .. caseCount
  BY DEF Visiting, Live
<1> QED
  BY <1>1, <1>2 DEF Cases

\* Moving on leaves a pass and a cursor.
LEMMA AdvanceTypes ==
    ASSUME TypeOK, NEW pass \in Phases, Advance(pass)
    PROVE  phase' \in Phases /\ cursor' \in Nat
BY DEF TypeOK, CaseTypes, WeekTypes, Advance, Cases

\* Recording and downgrading keep the buckets sets of cases.
LEMMA RecordedTypes ==
    ASSUME NEW b \in [Buckets -> SUBSET Cases], NEW f, NEW c \in Cases,
           NEW kind \in Buckets
    PROVE  Recorded(b, f, c, kind) \in [Buckets -> SUBSET Cases]
BY DEF Recorded

\* Taking back a recorded success keeps the buckets sets of cases.
LEMMA DowngradedTypes ==
    ASSUME NEW b \in [Buckets -> SUBSET Cases], NEW f, NEW c \in Cases
    PROVE  Downgraded(b, f, c) \in [Buckets -> SUBSET Cases]
<1>1. [b EXCEPT !["resolved"] = @ \ {c}] \in [Buckets -> SUBSET Cases]
  OBVIOUS
<1>2. "partial" \in Buckets
  BY DEF Buckets
<1> QED
  BY <1>1, <1>2, RecordedTypes DEF Downgraded

\* The first success of the week is a success of the week.
LEMMA FirstSuccessRecorded ==
    ASSUME TypeOK, bucket["resolved"] # {}
    PROVE  FirstSuccess \in bucket["resolved"]
<1> DEFINE R == OpToRel(<, Nat)
           T == bucket["resolved"]
<1>1. T \subseteq Nat
  BY DEF TypeOK, WeekTypes, Buckets, Cases
<1>2. IsWellFoundedOn(R, Nat)
  BY NatLessThanWellFounded
<1>3. PICK d \in T : \A e \in T : ~ (<<e, d>> \in R)
  <2> HIDE DEF R
  <2> QED
    BY <1>1, <1>2, WFMin
<1>4. \A e \in T : ~ (e < d)
  BY <1>1, <1>3 DEF OpToRel
<1>5. \A e \in T : d <= e
  BY <1>1, <1>4
<1> QED
  BY <1>5 DEF FirstSuccess

\* The opening save has the shape of the records.
LEMMA InitTypes == Init => TypeOK
<1> SUFFICES ASSUME Init PROVE TypeOK
  OBVIOUS
<1> USE ConstantsAssumption DEF Init, Cases, NoCase
<1>1. CaseTypes
  BY DEF CaseTypes, Statuses
<1>2. TeamTypes
  BY DEF TeamTypes
<1>3. AgentTypes
  BY DEF AgentTypes, Health, Duties
<1>4. WeekTypes
  BY DEF WeekTypes, Phases, Buckets, NoBuckets
<1> QED
  BY <1>1, <1>2, <1>3, <1>4 DEF TypeOK

\* Commands keep the shapes; first assigning a team.
LEMMA AssignTeamTypes ==
    ASSUME TypeOK, NEW c \in Cases, NEW t \in Teams, AssignTeam(c, t)
    PROVE  TypeOK'
<1> USE ConstantsAssumption DEF TypeOK
<1> DEFINE candidates == IF caseKind[c] = "raid" THEN Existing(c) \cup {t} ELSE {t}
           replaced   == IF caseKind[c] = "raid" THEN {} ELSE Existing(c) \ {t}
           listing    == [assignedTeamIds EXCEPT ![c] = candidates]
<1>1. /\ assignedTeamIds' \in [Cases -> SUBSET Teams]
      /\ teamCase' \in [Teams -> Cases \cup {NoCase}]
  <2>1. listing \in [Cases -> SUBSET Teams]
    BY DEF CaseTypes, TeamTypes, Existing
  <2>2. Normalize(listing, PointTo({t}, c, replaced), teamIds)
    BY DEF AssignTeam
  <2> QED
    BY <2>1, <2>2, NormalizeTypes
<1>2. CaseTypes'
  <2>1. ClockOf(c) \in 0 .. LongestWeeks \cup {NoWeeks}
    BY DEF ClockOf, CaseTypes
  <2> QED
    BY <1>1, <2>1 DEF AssignTeam, CaseTypes, Statuses, Cases
<1>3. TeamTypes'
  BY <1>1 DEF AssignTeam, TeamTypes
<1>4. AgentTypes'
  BY DEF AssignTeam, AgentTypes, Health, Duties, AssignAgents, ReleaseAgents
<1>5. WeekTypes'
  BY DEF AssignTeam, WeekTypes, weekVars
<1> QED
  BY <1>2, <1>3, <1>4, <1>5

\* Launching a major incident keeps the shapes.
LEMMA LaunchTypes ==
    ASSUME TypeOK, NEW c \in Cases, NEW T \in SUBSET Teams, LaunchMajorIncident(c, T)
    PROVE  TypeOK'
<1> USE ConstantsAssumption DEF TypeOK
<1>1. /\ assignedTeamIds' \in [Cases -> SUBSET Teams]
      /\ teamCase' \in [Teams -> Cases \cup {NoCase}]
  <2>1. [assignedTeamIds EXCEPT ![c] = T] \in [Cases -> SUBSET Teams]
    BY DEF CaseTypes
  <2>2. Normalize([assignedTeamIds EXCEPT ![c] = T],
                  PointTo(T, c, Existing(c) \ T), teamIds)
    BY DEF LaunchMajorIncident
  <2> QED
    BY <2>1, <2>2, NormalizeTypes
<1>2. CaseTypes'
  BY <1>1 DEF LaunchMajorIncident, CaseTypes, Statuses, Cases
<1>3. TeamTypes'
  BY <1>1 DEF LaunchMajorIncident, TeamTypes
<1>4. AgentTypes'
  BY DEF LaunchMajorIncident, AgentTypes, Health, Duties, AssignAgents, ReleaseAgents
<1>5. WeekTypes'
  BY DEF LaunchMajorIncident, WeekTypes, weekVars
<1> QED
  BY <1>2, <1>3, <1>4, <1>5

\* Recalling teams keeps the shapes.
LEMMA UnassignTypes ==
    ASSUME TypeOK, NEW c \in Cases, NEW T \in SUBSET Teams, UnassignTeam(c, T)
    PROVE  TypeOK'
<1> USE ConstantsAssumption DEF TypeOK
<1>1. CaseTypes'
  BY NormalizeTypes DEF UnassignTeam, CaseTypes, Statuses, Cases, TeamTypes, Existing
<1>2. TeamTypes'
  BY NormalizeTypes DEF UnassignTeam, TeamTypes, CaseTypes, Existing
<1>3. AgentTypes'
  BY DEF UnassignTeam, AgentTypes, Health, Duties, ReleaseAgents
<1>4. WeekTypes'
  BY DEF UnassignTeam, WeekTypes, Phases, Buckets, NoBuckets, Cases, weekVars
<1> QED
  BY <1>1, <1>2, <1>3, <1>4

\* Moving an agent keeps the shapes.
LEMMA MoveTypes ==
    ASSUME TypeOK, NEW a \in Agents, NEW t \in Teams \cup {NoTeam}, MoveAgent(a, t)
    PROVE  TypeOK'
<1> USE ConstantsAssumption DEF TypeOK
<1>1. CaseTypes'
  BY NormalizeTypes DEF MoveAgent, CaseTypes, Statuses, Cases
<1>2. TeamTypes'
  BY NormalizeTypes DEF MoveAgent, TeamTypes, CaseTypes, Relocated
<1>3. AgentTypes'
  BY DEF MoveAgent, AgentTypes, Health, Duties, agentVars
<1>4. WeekTypes'
  BY DEF MoveAgent, WeekTypes, Phases, Buckets, NoBuckets, Cases, weekVars
<1> QED
  BY <1>1, <1>2, <1>3, <1>4

\* A new team keeps the shapes.
LEMMA CreateTypes ==
    ASSUME TypeOK, NEW t \in Teams, NEW a \in Agents, CreateTeam(t, a)
    PROVE  TypeOK'
<1> USE ConstantsAssumption DEF TypeOK
<1>1. CaseTypes'
  BY NormalizeTypes DEF CreateTeam, CaseTypes, Statuses, Cases
<1>2. TeamTypes'
  BY NormalizeTypes DEF CreateTeam, TeamTypes, CaseTypes, Relocated
<1>3. AgentTypes'
  BY DEF CreateTeam, AgentTypes, Health, Duties, agentVars
<1>4. WeekTypes'
  BY DEF CreateTeam, WeekTypes, Phases, Buckets, NoBuckets, Cases, weekVars
<1> QED
  BY <1>1, <1>2, <1>3, <1>4

\* Deleting a team keeps the shapes.
LEMMA DeleteTypes ==
    ASSUME TypeOK, NEW t \in Teams, DeleteEmptyTeam(t)
    PROVE  TypeOK'
<1> USE ConstantsAssumption DEF TypeOK
<1>1. CaseTypes'
  BY NormalizeTypes DEF DeleteEmptyTeam, CaseTypes, Statuses, Cases
<1>2. TeamTypes'
  BY NormalizeTypes DEF DeleteEmptyTeam, TeamTypes, CaseTypes
<1>3. AgentTypes'
  BY DEF DeleteEmptyTeam, AgentTypes, Health, Duties, agentVars
<1>4. WeekTypes'
  BY DEF DeleteEmptyTeam, WeekTypes, Phases, Buckets, NoBuckets, Cases, weekVars
<1> QED
  BY <1>1, <1>2, <1>3, <1>4

\* Entering training keeps the shapes.
LEMMA QueueTypes ==
    ASSUME TypeOK, NEW A \in SUBSET Agents, QueueTraining(A)
    PROVE  TypeOK'
<1> USE ConstantsAssumption DEF TypeOK
<1>1. CaseTypes'
  BY NormalizeTypes DEF QueueTraining, CaseTypes, Statuses, Cases
<1>2. TeamTypes'
  BY NormalizeTypes DEF QueueTraining, TeamTypes, CaseTypes
<1>3. AgentTypes'
  BY DEF QueueTraining, AgentTypes, Health, Duties
<1>4. WeekTypes'
  BY DEF QueueTraining, WeekTypes, Phases, Buckets, NoBuckets, Cases, weekVars
<1> QED
  BY <1>1, <1>2, <1>3, <1>4

\* Leaving training keeps the shapes.
LEMMA CancelTypes ==
    ASSUME TypeOK, NEW A \in trainingQueue, CancelTraining(A)
    PROVE  TypeOK'
<1> USE ConstantsAssumption DEF TypeOK
<1>1. CaseTypes'
  BY NormalizeTypes DEF CancelTraining, EndTraining, CaseTypes, Statuses, Cases
<1>2. TeamTypes'
  BY NormalizeTypes DEF CancelTraining, EndTraining, TeamTypes, CaseTypes
<1>3. AgentTypes'
  BY DEF CancelTraining, EndTraining, AgentTypes, Health, Duties
<1>4. WeekTypes'
  BY DEF CancelTraining, EndTraining, WeekTypes, Phases, Buckets, NoBuckets, Cases, weekVars
<1> QED
  BY <1>1, <1>2, <1>3, <1>4

\* The passes of the week keep the shapes; first its opening.
LEMMA BeginTypes ==
    ASSUME TypeOK, BeginWeek
    PROVE  TypeOK'
<1> USE ConstantsAssumption DEF TypeOK
<1>1. CaseTypes'
  BY DEF BeginWeek, CaseTypes, Statuses, Cases, caseVars
<1>2. TeamTypes'
  BY DEF BeginWeek, TeamTypes, CaseTypes, teamVars
<1>3. AgentTypes'
  BY DEF BeginWeek, AgentTypes, Health, Duties, agentVars
<1>4. WeekTypes'
  BY DEF BeginWeek, WeekTypes, Phases, Buckets, NoBuckets, Cases, FreshWeek
<1> QED
  BY <1>1, <1>2, <1>3, <1>4

\* advanceWeek after the end of the campaign keeps the shapes.
LEMMA EndedTypes ==
    ASSUME TypeOK, AdvanceEndedCampaign
    PROVE  TypeOK'
<1> USE ConstantsAssumption DEF TypeOK
<1>1. CaseTypes'
  BY NormalizeTypes DEF AdvanceEndedCampaign, CaseTypes, Statuses, Cases
<1>2. TeamTypes'
  BY NormalizeTypes DEF AdvanceEndedCampaign, TeamTypes, CaseTypes
<1>3. AgentTypes'
  BY DEF AdvanceEndedCampaign, AgentTypes, Health, Duties, agentVars
<1>4. WeekTypes'
  BY DEF AdvanceEndedCampaign, WeekTypes, Phases, Buckets, NoBuckets, Cases, weekVars
<1> QED
  BY <1>1, <1>2, <1>3, <1>4

\* Expired benchings and healed injuries keep the shapes.
LEMMA PrepareTypes ==
    ASSUME TypeOK, PrepareAgents
    PROVE  TypeOK'
<1> USE ConstantsAssumption DEF TypeOK
<1>1. CaseTypes'
  BY DEF PrepareAgents, CaseTypes, Statuses, Cases, caseVars
<1>2. TeamTypes'
  BY DEF PrepareAgents, TeamTypes, CaseTypes, teamVars
<1>3. AgentTypes'
  BY DEF PrepareAgents, AgentTypes, Health, Duties
<1>4. WeekTypes'
  BY DEF PrepareAgents, WeekTypes, Phases, Buckets, NoBuckets, Cases, weekVars
<1> QED
  BY <1>1, <1>2, <1>3, <1>4

\* A field base rotation keeps the shapes.
LEMMA RotateTypes ==
    ASSUME TypeOK, NEW t \in Teams, NEW out \in Agents, NEW in \in Agents, RotateFieldBase(t, out, in)
    PROVE  TypeOK'
<1> USE ConstantsAssumption DEF TypeOK
<1>1. CaseTypes'
  BY NormalizeTypes DEF RotateFieldBase, Visiting, Live, CaseTypes, Statuses, Cases
<1>2. TeamTypes'
  BY NormalizeTypes DEF RotateFieldBase, Visiting, Live, TeamTypes, CaseTypes
<1>3. AgentTypes'
  BY DEF RotateFieldBase, Visiting, Live, AgentTypes, Health, Duties, CaseTypes, Cases
<1>4. WeekTypes'
  BY DEF RotateFieldBase, Visiting, Live, WeekTypes, Phases, Buckets, NoBuckets, Cases, weekVars, Advance
<1> QED
  BY <1>1, <1>2, <1>3, <1>4

\* A case without rotation keeps the shapes.
LEMMA SkipRotationTypes ==
    ASSUME TypeOK, SkipRotation
    PROVE  TypeOK'
<1> USE ConstantsAssumption DEF TypeOK
<1>1. CaseTypes'
  BY DEF SkipRotation, CaseTypes, Statuses, Cases, caseVars
<1>2. TeamTypes'
  BY DEF SkipRotation, TeamTypes, CaseTypes, teamVars
<1>3. AgentTypes'
  BY DEF SkipRotation, AgentTypes, Health, Duties, agentVars
<1>4. WeekTypes'
  BY DEF SkipRotation, WeekTypes, Phases, Buckets, NoBuckets, Cases, weekVars, Advance
<1> QED
  BY <1>1, <1>2, <1>3, <1>4

\* A case nobody works keeps the shapes.
LEMMA SkipResolveTypes ==
    ASSUME TypeOK, SkipResolve
    PROVE  TypeOK'
<1> USE ConstantsAssumption DEF TypeOK
<1>1. CaseTypes'
  BY DEF SkipResolve, CaseTypes, Statuses, Cases, Existing, TeamTypes
<1>2. TeamTypes'
  BY DEF SkipResolve, TeamTypes, CaseTypes, teamVars
<1>3. AgentTypes'
  BY DEF SkipResolve, AgentTypes, Health, Duties, agentVars
<1>4. WeekTypes'
  BY DEF SkipResolve, WeekTypes, Phases, Buckets, NoBuckets, Cases, weekVars, Advance
<1> QED
  BY <1>1, <1>2, <1>3, <1>4

\* A week spent in the field keeps the shapes.
LEMMA ContinueTypes ==
    ASSUME TypeOK, ContinueOperation
    PROVE  TypeOK'
<1> USE ConstantsAssumption DEF TypeOK
<1>1. CaseTypes'
  BY DEF ContinueOperation, Visiting, Live, CaseTypes, Statuses, Cases, Existing, WeeksLeft, TeamTypes
<1>2. TeamTypes'
  BY DEF ContinueOperation, Visiting, Live, TeamTypes, CaseTypes, teamVars
<1>3. AgentTypes'
  BY DEF ContinueOperation, Visiting, Live, AgentTypes, Health, Duties, agentVars
<1>4. WeekTypes'
  <2>1. cursor \in Cases /\ phase' \in Phases /\ cursor' \in Nat
    BY Visited, AdvanceTypes DEF ContinueOperation, Phases
  <2> QED
    BY <2>1 DEF ContinueOperation, WeekTypes
<1> QED
  BY <1>1, <1>2, <1>3, <1>4

\* Settling an operation keeps the shapes, its stage under the cap.
LEMMA ResolveTypes ==
    ASSUME TypeOK, NEW result \in Results, NEW degraded \in BOOLEAN,
           ResolveOperation(result, degraded)
    PROVE  TypeOK'
<1> DEFINE c == cursor
           kind == IF result = "success" THEN "resolved"
                   ELSE IF result = "partial" THEN "partial" ELSE "failed"
<1>1. c \in Cases
  BY Visited DEF ResolveOperation
<1>2. CaseTypes'
  <2>1. Raised(stage[c]) \in 0 .. TopStage
    BY <1>1, RaisedInRange DEF TypeOK, CaseTypes
  <2>2. stage' \in [Cases -> 0 .. TopStage]
    BY <1>1, <2>1 DEF ResolveOperation, TypeOK, CaseTypes
  <2>3. weeksRemaining' \in [Cases -> 0 .. LongestWeeks \cup {NoWeeks}]
    BY <1>1, ConstantsAssumption DEF ResolveOperation, TypeOK, CaseTypes
  <2> QED
    BY <1>1, <2>2, <2>3 DEF ResolveOperation, TypeOK, CaseTypes, Statuses
<1>3. TeamTypes'
  BY DEF ResolveOperation, TypeOK, TeamTypes
<1>4. AgentTypes'
  <2>1. Crew(Existing(c)) \subseteq Agents
    BY DEF Crew, Existing, TypeOK, TeamTypes
  <2>2. MissionAgents(Crew(Existing(c)), result)
    BY DEF ResolveOperation
  <2>3. trainingQueue' = trainingQueue
    BY DEF ResolveOperation
  <2> QED
    BY <2>1, <2>2, <2>3 DEF MissionAgents, TypeOK, AgentTypes, Health, Duties
<1>5. WeekTypes'
  <2>1. kind \in Buckets
    BY DEF Buckets
  <2>2. Recorded(bucket, finalized, c, kind) \in [Buckets -> SUBSET Cases]
    BY <1>1, <2>1, RecordedTypes DEF TypeOK, WeekTypes
  <2>3. bucket' \in [Buckets -> SUBSET Cases]
    BY <1>1, <2>2, DowngradedTypes DEF ResolveOperation
  <2>4. phase' \in Phases /\ cursor' \in Nat
    BY AdvanceTypes DEF ResolveOperation, Phases
  <2> QED
    BY <1>1, <2>3, <2>4 DEF ResolveOperation, TypeOK, WeekTypes
<1> QED
  BY <1>2, <1>3, <1>4, <1>5 DEF TypeOK

\* Taking a success back keeps the shapes.
LEMMA FrictionTypes ==
    ASSUME TypeOK, Friction
    PROVE  TypeOK'
<1>1. CASE overloaded /\ bucket["resolved"] # {}
  <2> DEFINE c == FirstSuccess
  <2>1. c \in Cases
    BY <1>1, FirstSuccessRecorded DEF TypeOK, WeekTypes, Buckets
  <2>2. Raised(stage[c]) \in 0 .. TopStage
    BY <2>1, RaisedInRange DEF TypeOK, CaseTypes
  <2>3. Downgraded(bucket, finalized, c) \in [Buckets -> SUBSET Cases]
    BY <2>1, DowngradedTypes DEF TypeOK, WeekTypes
  <2>4. CaseTypes'
    BY <1>1, <2>1, <2>2 DEF Friction, TypeOK, CaseTypes, Statuses
  <2>5. WeekTypes'
    BY <1>1, <2>3 DEF Friction, TypeOK, WeekTypes, Phases
  <2> QED
    BY <2>4, <2>5 DEF Friction, TypeOK, TeamTypes, AgentTypes, teamVars, agentVars
<1>2. CASE ~(overloaded /\ bucket["resolved"] # {})
  BY <1>2 DEF Friction, TypeOK, CaseTypes, TeamTypes, AgentTypes, WeekTypes, Phases,
              teamVars, agentVars
<1> QED
  BY <1>1, <1>2

\* An attended case keeps the shapes.
LEMMA SkipEscalationTypes ==
    ASSUME TypeOK, SkipEscalation
    PROVE  TypeOK'
<1> USE ConstantsAssumption DEF TypeOK
<1>1. CaseTypes'
  BY DEF SkipEscalation, CaseTypes, Statuses, Cases, Existing, TeamTypes
<1>2. TeamTypes'
  BY DEF SkipEscalation, TeamTypes, CaseTypes, teamVars
<1>3. AgentTypes'
  BY DEF SkipEscalation, AgentTypes, Health, Duties, agentVars
<1>4. WeekTypes'
  BY DEF SkipEscalation, WeekTypes, Phases, Buckets, NoBuckets, Cases, weekVars, Advance
<1> QED
  BY <1>1, <1>2, <1>3, <1>4

\* Counting down a deadline keeps the shapes.
LEMMA CountDownTypes ==
    ASSUME TypeOK, NEW pressed \in BOOLEAN, CountDown(pressed)
    PROVE  TypeOK'
<1> USE ConstantsAssumption DEF TypeOK
<1>1. CaseTypes'
  BY DEF CountDown, Visiting, Live, CaseTypes, Statuses, Cases, Countdown
<1>2. TeamTypes'
  BY DEF CountDown, Visiting, Live, TeamTypes, CaseTypes, teamVars
<1>3. AgentTypes'
  BY DEF CountDown, Visiting, Live, AgentTypes, Health, Duties, agentVars
<1>4. WeekTypes'
  BY DEF CountDown, Visiting, Live, WeekTypes, Phases, Buckets, NoBuckets, Cases, CaseTypes, Advance
<1> QED
  BY <1>1, <1>2, <1>3, <1>4

\* A lapsed deadline keeps the shapes, its stage under the cap.
LEMMA EscalateTypes ==
    ASSUME TypeOK, NEW pressed \in BOOLEAN, EscalateCase(pressed)
    PROVE  TypeOK'
<1> DEFINE c == cursor
<1>1. c \in Cases
  BY Visited DEF EscalateCase
<1>2. CaseTypes'
  <2>1. Raised(stage[c]) \in 0 .. TopStage
    BY <1>1, RaisedInRange DEF TypeOK, CaseTypes
  <2>2. stage' \in [Cases -> 0 .. TopStage]
    BY <1>1, <2>1 DEF EscalateCase, TypeOK, CaseTypes
  <2>3. caseKind' \in [Cases -> {"case", "raid"}]
    BY <1>1 DEF EscalateCase, TypeOK, CaseTypes
  <2>4. deadlineRemaining' \in [Cases -> 0 .. DeadlineWeeks]
    BY <1>1, ConstantsAssumption DEF EscalateCase, TypeOK, CaseTypes
  <2> QED
    BY <2>2, <2>3, <2>4 DEF EscalateCase, TypeOK, CaseTypes
<1>3. TeamTypes' /\ AgentTypes'
  BY DEF EscalateCase, TypeOK, TeamTypes, AgentTypes, teamVars, agentVars
<1>4. WeekTypes'
  <2>1. bucket' \in [Buckets -> SUBSET Cases]
    BY <1>1, RecordedTypes DEF EscalateCase, TypeOK, WeekTypes, Buckets
  <2>2. phase' \in Phases /\ cursor' \in Nat
    BY AdvanceTypes DEF EscalateCase, Phases
  <2> QED
    BY <1>1, <2>1, <2>2 DEF EscalateCase, TypeOK, WeekTypes
<1> QED
  BY <1>2, <1>3, <1>4 DEF TypeOK

\* Spawned cases have the shape of a case record.
LEMMA SpawnTypes ==
    ASSUME TypeOK, NEW n \in Nat, NEW R, NEW s \in 0 .. TopStage, Spawn(n, R, s)
    PROVE  /\ caseCount' \in Cases
           /\ caseStatus' \in [Cases -> Statuses]
           /\ caseKind' \in [Cases -> {"case", "raid"}]
           /\ stage' \in [Cases -> 0 .. TopStage]
<1>1. caseCount' \in Cases
  BY ConstantsAssumption DEF Spawn, TypeOK, CaseTypes, Cases
<1>2. caseStatus' \in [Cases -> Statuses]
  BY DEF Spawn, TypeOK, CaseTypes, Statuses
<1>3. caseKind' \in [Cases -> {"case", "raid"}]
  BY DEF Spawn, TypeOK, CaseTypes
<1>4. stage' \in [Cases -> 0 .. TopStage]
  BY DEF Spawn, TypeOK, CaseTypes
<1> QED
  BY <1>1, <1>2, <1>3, <1>4

\* The two follow-up spawns amount to one.
LEMMA FollowUpSpawn ==
    ASSUME TypeOK, SpawnFollowUps
    PROVE  \E n \in Nat, R \in SUBSET Cases : Spawn(n, R, OpeningStage)
<1>1. IsFiniteSet(Unresolved)
  BY ConstantsAssumption, FS_Interval, FS_Subset DEF TypeOK, CaseTypes, Cases, Unresolved, Live
<1>2. Cardinality(Unresolved) \in Nat
  BY <1>1, FS_CardinalityType
<1>3. \A k, m \in Nat : Lesser(k, m) \in Nat /\ Slots(m) \in Nat
  BY ConstantsAssumption DEF Lesser, Slots
<1> DEFINE active == Cardinality(Unresolved)
           first(f) == Lesser(f, Slots(active))
           second(f, l) == Lesser(l, Slots(active + first(f)))
<1>4. PICK f \in 0 .. MaxSpawn, l \in 0 .. MaxSpawn, R \in SUBSET Cases :
          Spawn(first(f) + second(f, l), R, OpeningStage)
  BY DEF SpawnFollowUps, SlotsAfter
<1>5. f \in Nat /\ l \in Nat
  BY ConstantsAssumption
<1>6. first(f) \in Nat
  BY <1>2, <1>3, <1>5
<1>7. second(f, l) \in Nat
  <2> HIDE DEF first
  <2>1. active + first(f) \in Nat
    BY <1>2, <1>6
  <2> QED
    BY <2>1, <1>3, <1>5
<1>8. first(f) + second(f, l) \in Nat
  <2> HIDE DEF first, second
  <2> QED
    BY <1>6, <1>7
<1> QED
  <2> HIDE DEF first, second
  <2> QED
    BY <1>4, <1>8

\* Follow-up cases keep the shapes.
LEMMA FollowUpTypes ==
    ASSUME TypeOK, SpawnFollowUps
    PROVE  TypeOK'
<1>1. CaseTypes'
  <2>1. PICK n \in Nat, R \in SUBSET Cases : Spawn(n, R, OpeningStage)
    BY FollowUpSpawn
  <2>2. OpeningStage \in 0 .. TopStage
    BY ConstantsAssumption
  <2> QED
    BY <2>1, <2>2, SpawnTypes DEF SpawnFollowUps, TypeOK, CaseTypes
<1>2. TeamTypes' /\ AgentTypes'
  BY DEF SpawnFollowUps, TypeOK, TeamTypes, AgentTypes, teamVars, agentVars
<1>3. WeekTypes'
  BY DEF SpawnFollowUps, TypeOK, WeekTypes, Phases, weekVars
<1> QED
  BY <1>1, <1>2, <1>3 DEF TypeOK

\* Pressure incidents and raids keep the shapes.
LEMMA PressureTypes ==
    ASSUME TypeOK, SpawnPressureIncidents
    PROVE  TypeOK'
<1>1. CaseTypes'
  <2>1. PICK n \in 0 .. MaxSpawn, s \in {OpeningStage, PressureStage} :
            Spawn(n, caseCount + 1 .. caseCount + n, s)
    BY DEF SpawnPressureIncidents
  <2>2. n \in Nat /\ s \in 0 .. TopStage
    BY <2>1, ConstantsAssumption
  <2> QED
    BY <2>1, <2>2, SpawnTypes DEF SpawnPressureIncidents, TypeOK, CaseTypes
<1>2. TeamTypes' /\ AgentTypes'
  BY DEF SpawnPressureIncidents, TypeOK, TeamTypes, AgentTypes, teamVars, agentVars
<1>3. WeekTypes'
  BY DEF SpawnPressureIncidents, TypeOK, WeekTypes, Phases, weekVars
<1> QED
  BY <1>1, <1>2, <1>3 DEF TypeOK

\* The close of the week keeps the shapes.
LEMMA CloseTypes ==
    ASSUME TypeOK, CloseWeek
    PROVE  TypeOK'
<1> USE ConstantsAssumption DEF TypeOK
<1>0. PICK Q \in SUBSET trainingQueue : EndTraining(Q)
  BY DEF CloseWeek
<1>1. CaseTypes'
  BY <1>0, NormalizeTypes DEF EndTraining, CaseTypes
<1>2. TeamTypes'
  BY <1>0, NormalizeTypes DEF EndTraining, TeamTypes, CaseTypes
<1>3. AgentTypes'
  BY <1>0 DEF CloseWeek, EndTraining, AgentTypes, Health, Duties
<1>4. WeekTypes'
  BY DEF CloseWeek, EndTraining, WeekTypes, Phases, Buckets, NoBuckets, Cases, FreshWeek, Ended
<1> QED
  BY <1>1, <1>2, <1>3, <1>4

\* Every step of the agency keeps the shapes.
LEMMA TypeStep == TypeOK /\ [Next]_vars => TypeOK'
<1> SUFFICES ASSUME TypeOK, [Next]_vars PROVE TypeOK'
  OBVIOUS
<1>1. CASE Command
  BY <1>1, AssignTeamTypes, LaunchTypes, UnassignTypes, MoveTypes, CreateTypes,
     DeleteTypes, QueueTypes, CancelTypes DEF Command
<1>2. CASE BeginWeek
  BY <1>2, BeginTypes
<1>3. CASE AdvanceEndedCampaign
  BY <1>3, EndedTypes
<1>4. CASE Week
  BY <1>4, PrepareTypes, RotateTypes, SkipRotationTypes, SkipResolveTypes,
     ContinueTypes, ResolveTypes, FrictionTypes, SkipEscalationTypes, CountDownTypes,
     EscalateTypes, FollowUpTypes, PressureTypes, CloseTypes DEF Week
<1>5. CASE UNCHANGED vars
  BY <1>5 DEF vars, caseVars, teamVars, agentVars, weekVars, TypeOK, CaseTypes,
              TeamTypes, AgentTypes, WeekTypes
<1> QED
  BY <1>1, <1>2, <1>3, <1>4, <1>5 DEF Next

\* Whatever the agency and the calibration, the records keep their shapes: in
\* particular no stage passes the cap and no clock leaves its range.
THEOREM TypeCorrect == Spec => []TypeOK
<1>1. Init => TypeOK
  BY InitTypes
<1>2. TypeOK /\ [Next]_vars => TypeOK'
  BY TypeStep
<1> QED
  BY <1>1, <1>2, PTL DEF Spec

-----------------------------------------------------------------------------
(* Rosters: no order of commands and field rotations clones an agent.      *)

\* Relocating an agent leaves it on the target alone.
LEMMA RelocatedOnce ==
    ASSUME TypeOK, OneTeamPerAgent, NEW a \in Agents, NEW target,
           memberIds' = Relocated(a, target)
    PROVE  \A t, u \in Teams : t # u => memberIds'[t] \cap memberIds'[u] = {}
BY DEF OneTeamPerAgent, Relocated

\* Rosters stay disjoint and empty for teams that do not exist.
LEMMA RosterStep == TypeOK /\ OneTeamPerAgent /\ [Next]_vars => OneTeamPerAgent'
<1> SUFFICES ASSUME TypeOK, OneTeamPerAgent, [Next]_vars PROVE OneTeamPerAgent'
  OBVIOUS
<1>1. ASSUME UNCHANGED <<memberIds, teamIds>> PROVE OneTeamPerAgent'
  BY <1>1 DEF OneTeamPerAgent
<1>2. ASSUME NEW a \in Agents, NEW t \in Teams \cup {NoTeam}, MoveAgent(a, t)
      PROVE  OneTeamPerAgent'
  <2>1. memberIds' = Relocated(a, t) /\ teamIds' = teamIds
    BY <1>2 DEF MoveAgent
  <2>2. t \in Teams => t \in teamIds
    BY <1>2, ConstantsAssumption DEF MoveAgent, Movable
  <2>3. \A u \in Teams \ teamIds' : memberIds'[u] = {}
    BY <2>1, <2>2 DEF Relocated, OneTeamPerAgent
  <2> QED
    BY <2>1, <2>3, RelocatedOnce DEF OneTeamPerAgent
<1>3. ASSUME NEW t \in Teams, NEW a \in Agents, CreateTeam(t, a)
      PROVE  OneTeamPerAgent'
  <2>1. memberIds' = Relocated(a, t) /\ teamIds' = teamIds \cup {t}
    BY <1>3 DEF CreateTeam
  <2>2. \A u \in Teams \ teamIds' : memberIds'[u] = {}
    BY <2>1 DEF Relocated, OneTeamPerAgent
  <2> QED
    BY <2>1, <2>2, RelocatedOnce DEF OneTeamPerAgent
<1>4. ASSUME NEW t \in Teams, DeleteEmptyTeam(t) PROVE OneTeamPerAgent'
  BY <1>4 DEF DeleteEmptyTeam, OneTeamPerAgent
<1>5. ASSUME NEW t \in Teams, NEW out \in Agents, NEW in \in Agents,
             RotateFieldBase(t, out, in)
      PROVE  OneTeamPerAgent'
  <2>1. /\ teamIds' = teamIds /\ t \in teamIds
        /\ memberIds' = [u \in Teams |-> IF u = t THEN (memberIds[t] \ {out}) \cup {in}
                                         ELSE IF u \in HomeTeams(in) THEN memberIds[u] \ {in}
                                         ELSE memberIds[u]]
    BY <1>5 DEF RotateFieldBase
  <2>2. \A u \in Teams : u # t => in \notin memberIds'[u]
    BY <2>1 DEF HomeTeams, OneTeamPerAgent
  <2>3. /\ \A u \in Teams : u # t => memberIds'[u] \subseteq memberIds[u]
        /\ memberIds'[t] \subseteq memberIds[t] \cup {in}
    BY <2>1 DEF TypeOK, TeamTypes
  <2>4. \A u \in Teams \ teamIds : memberIds'[u] = {}
    BY <2>1, <2>3 DEF OneTeamPerAgent
  <2>5. \A u, v \in Teams : u # v => memberIds'[u] \cap memberIds'[v] = {}
    BY <2>2, <2>3 DEF OneTeamPerAgent
  <2> QED
    BY <2>1, <2>4, <2>5 DEF OneTeamPerAgent
<1>6. CASE Command
  <2>1. \A c \in Cases, t \in Teams : AssignTeam(c, t) => UNCHANGED <<memberIds, teamIds>>
    BY DEF AssignTeam
  <2>2. \A c \in Cases, T \in SUBSET Teams :
           LaunchMajorIncident(c, T) \/ UnassignTeam(c, T) => UNCHANGED <<memberIds, teamIds>>
    BY DEF LaunchMajorIncident, UnassignTeam
  <2>3. \A A :
           QueueTraining(A) \/ CancelTraining(A) => UNCHANGED <<memberIds, teamIds>>
    BY DEF QueueTraining, CancelTraining, EndTraining
  <2> QED
    BY <1>1, <1>2, <1>3, <1>4, <1>6, <2>1, <2>2, <2>3 DEF Command
<1>7. CASE Week
  <2>1. ASSUME Week, \A t \in Teams, out, in \in Agents : ~ RotateFieldBase(t, out, in)
        PROVE  UNCHANGED <<memberIds, teamIds>>
    BY <2>1 DEF Week, PrepareAgents, SkipRotation, SkipResolve, ContinueOperation,
                ResolveOperation, Friction, SkipEscalation, CountDown, EscalateCase,
                SpawnFollowUps, SpawnPressureIncidents, CloseWeek, EndTraining, teamVars
  <2> QED
    BY <1>1, <1>5, <1>7, <2>1
<1>8. CASE BeginWeek \/ AdvanceEndedCampaign \/ UNCHANGED vars
  BY <1>1, <1>8 DEF BeginWeek, AdvanceEndedCampaign, vars, teamVars
<1> QED
  BY <1>6, <1>7, <1>8 DEF Next

\* An agent is on at most one team, in every agency: moves, new teams,
\* deletions and the rotation of field bases never duplicate a member.
THEOREM RostersDisjoint == Spec => []OneTeamPerAgent
<1>1. Init => OneTeamPerAgent
  BY ConstantsAssumption DEF Init, OneTeamPerAgent
<1>2. TypeOK /\ OneTeamPerAgent /\ [Next]_vars => OneTeamPerAgent'
  BY RosterStep
<1> QED
  BY <1>1, <1>2, TypeCorrect, PTL DEF Spec

-----------------------------------------------------------------------------
(* Teams and cases.  TeamCaseAgreement is not inductive: the friction pass   *)
(* clears the teams of a case without looking at their pointers, which is    *)
(* right only because the case it picks is resolved and has none.            *)

UnspawnedUntouched == \A c \in Cases \ Live : caseStatus[c] = "unspawned"
ClosedEmpty == \A c \in Cases : caseStatus[c] = "resolved" => assignedTeamIds[c] = {}
SuccessRecorded == \A c \in bucket["resolved"] : caseStatus[c] = "resolved" /\ c \in finalized

CaseInv == /\ TypeOK
           /\ TeamCaseAgreement
           /\ UnspawnedUntouched /\ ClosedEmpty /\ SuccessRecorded

\* When the list of every case is covered by the pointers of the teams that
\* exist, normalizeGameState makes the two agree.
LEMMA NormalizeAgreement ==
    ASSUME NEW L \in [Cases -> SUBSET Teams], NEW P, NEW I, Normalize(L, P, I),
           \A c \in Cases, t \in Teams : t \in L[c] \cap I => P[t] = c
    PROVE  /\ \A c \in Cases, t \in Teams : t \in assignedTeamIds'[c] <=> teamCase'[t] = c
           /\ \A c \in Cases : assignedTeamIds'[c] = L[c] \cap I
<1>1. \A c \in Cases : assignedTeamIds'[c] = L[c] \cap I
  BY DEF Normalize, NormalAssignments
<1>2. \A t \in Teams : teamCase'[t] =
          IF P[t] \in Cases /\ t \in L[P[t]] \cap I THEN P[t] ELSE NoCase
  BY DEF Normalize, NormalPointers, NormalAssignments
<1>3. NoCase \notin Cases
  BY ConstantsAssumption DEF NoCase, Cases
<1> QED
  BY <1>1, <1>2, <1>3

\* The normalization changes nothing when the records agree already.
LEMMA NormalizeKeeps ==
    ASSUME CaseInv, NEW I, Normalize(assignedTeamIds, teamCase, I), teamIds' = I,
           teamIds \subseteq I
    PROVE  TeamCaseAgreement' /\ assignedTeamIds' = assignedTeamIds
<1>1. /\ assignedTeamIds \in [Cases -> SUBSET Teams]
      /\ assignedTeamIds' = [c \in Cases |-> assignedTeamIds[c] \cap I]
  BY DEF CaseInv, TypeOK, CaseTypes, Normalize, NormalAssignments
<1>2. \A c \in Cases, t \in Teams : t \in assignedTeamIds[c] \cap I => teamCase[t] = c
  BY DEF CaseInv, TeamCaseAgreement
<1>3. \A c \in Cases : assignedTeamIds[c] \cap I = assignedTeamIds[c]
  BY DEF CaseInv, TeamCaseAgreement
<1>4. \A c \in Cases, t \in Teams : t \in assignedTeamIds'[c] <=> teamCase'[t] = c
  BY <1>1, <1>2, NormalizeAgreement
<1> QED
  BY <1>1, <1>3, <1>4 DEF CaseInv, TeamCaseAgreement

\* A step that leaves the teams, the cases and the week's successes alone.
LEMMA CaseInvKept ==
    ASSUME CaseInv, TypeOK', TeamCaseAgreement', assignedTeamIds' = assignedTeamIds,
           UNCHANGED <<caseCount, caseStatus>>,
           \/ UNCHANGED <<bucket, finalized>>
           \/ bucket'["resolved"] = {}
           \/ bucket'["resolved"] = bucket["resolved"] /\ finalized \subseteq finalized'
    PROVE  CaseInv'
BY DEF CaseInv, UnspawnedUntouched, ClosedEmpty, SuccessRecorded, Live

\* The three orders that change the teams of a case.  Assigning takes only a
\* team that is free or on the case already.
LEMMA AssignTeamCaseInv ==
    ASSUME CaseInv, NEW c \in Cases, NEW t \in Teams, AssignTeam(c, t)
    PROVE  CaseInv'
<1> DEFINE raid       == caseKind[c] = "raid"
           candidates == IF raid THEN Existing(c) \cup {t} ELSE {t}
           replaced   == IF raid THEN {} ELSE Existing(c) \ {t}
           L          == [assignedTeamIds EXCEPT ![c] = candidates]
           P          == PointTo({t}, c, replaced)
<1>1. TypeOK'
  BY AssignTeamTypes DEF CaseInv
<1>2. L \in [Cases -> SUBSET Teams] /\ Normalize(L, P, teamIds) /\ teamIds' = teamIds
  BY DEF AssignTeam, CaseInv, TypeOK, CaseTypes, TeamTypes, Existing
<1>3. \A d \in Cases, u \in Teams : u \in L[d] \cap teamIds => P[u] = d
  <2> SUFFICES ASSUME NEW d \in Cases, NEW u \in Teams, u \in L[d] PROVE P[u] = d
    OBVIOUS
  <2>1. \A e \in Cases, v \in Teams : v \in assignedTeamIds[e] => teamCase[v] = e
    BY DEF CaseInv, TeamCaseAgreement
  <2>2. teamCase[t] \in {NoCase, c} /\ NoCase \notin Cases
    BY ConstantsAssumption DEF AssignTeam, Available, NoCase, Cases
  <2>3. P[u] = IF u = t THEN c ELSE IF u \in replaced THEN NoCase ELSE teamCase[u]
    BY DEF PointTo
  <2>4. CASE d = c
    <3>1. u \in candidates
      BY <2>4 DEF CaseInv, TypeOK, CaseTypes
    <3> QED
      BY <2>1, <2>3, <2>4, <3>1 DEF Existing
  <2>5. CASE d # c
    <3>1. u \in assignedTeamIds[d]
      BY <2>5 DEF CaseInv, TypeOK, CaseTypes
    <3> QED
      BY <2>1, <2>2, <2>3, <2>5, <3>1 DEF Existing
  <2> QED
    BY <2>4, <2>5
<1>4. /\ \A d \in Cases, u \in Teams : u \in assignedTeamIds'[d] <=> teamCase'[u] = d
      /\ \A d \in Cases : assignedTeamIds'[d] = L[d] \cap teamIds
  <2> HIDE DEF L, P
  <2> QED
    BY <1>2, <1>3, NormalizeAgreement
<1>5. TeamCaseAgreement'
  BY <1>2, <1>4 DEF TeamCaseAgreement
<1>6. \A d \in Cases : d # c => assignedTeamIds'[d] \subseteq assignedTeamIds[d]
  BY <1>4 DEF CaseInv, TypeOK, CaseTypes
<1>7. /\ caseStatus' = [caseStatus EXCEPT ![c] = "in_progress"]
      /\ c \in Live /\ caseStatus[c] # "resolved"
      /\ UNCHANGED <<caseCount, bucket, finalized>>
  BY DEF AssignTeam, weekVars
<1>8. UnspawnedUntouched' /\ ClosedEmpty' /\ SuccessRecorded'
  BY <1>6, <1>7 DEF CaseInv, TypeOK, CaseTypes, WeekTypes, Buckets,
                    UnspawnedUntouched, ClosedEmpty, SuccessRecorded, Live
<1> QED
  BY <1>1, <1>5, <1>8 DEF CaseInv

\* Launching takes only teams that are free or on the case already.
LEMMA LaunchCaseInv ==
    ASSUME CaseInv, NEW c \in Cases, NEW T \in SUBSET Teams, LaunchMajorIncident(c, T)
    PROVE  CaseInv'
<1> DEFINE L == [assignedTeamIds EXCEPT ![c] = T]
           P == PointTo(T, c, Existing(c) \ T)
<1>1. TypeOK'
  BY LaunchTypes DEF CaseInv
<1>2. L \in [Cases -> SUBSET Teams] /\ Normalize(L, P, teamIds) /\ teamIds' = teamIds
  BY DEF LaunchMajorIncident, CaseInv, TypeOK, CaseTypes
<1>3. \A d \in Cases, u \in Teams : u \in L[d] \cap teamIds => P[u] = d
  <2> SUFFICES ASSUME NEW d \in Cases, NEW u \in Teams, u \in L[d] PROVE P[u] = d
    OBVIOUS
  <2>1. \A e \in Cases, v \in Teams : v \in assignedTeamIds[e] => teamCase[v] = e
    BY DEF CaseInv, TeamCaseAgreement
  <2>2. /\ \A v \in T : teamCase[v] \in {NoCase, c}
        /\ NoCase \notin Cases
    BY ConstantsAssumption DEF LaunchMajorIncident, Available, NoCase, Cases
  <2>3. P[u] = IF u \in T THEN c ELSE IF u \in Existing(c) \ T THEN NoCase ELSE teamCase[u]
    BY DEF PointTo
  <2>4. L[d] = IF d = c THEN T ELSE assignedTeamIds[d]
    BY DEF CaseInv, TypeOK, CaseTypes
  <2> QED
    BY <2>1, <2>2, <2>3, <2>4 DEF Existing
<1>4. /\ \A d \in Cases, u \in Teams : u \in assignedTeamIds'[d] <=> teamCase'[u] = d
      /\ \A d \in Cases : assignedTeamIds'[d] = L[d] \cap teamIds
  <2> HIDE DEF L, P
  <2> QED
    BY <1>2, <1>3, NormalizeAgreement
<1>5. TeamCaseAgreement'
  BY <1>2, <1>4 DEF TeamCaseAgreement
<1>6. \A d \in Cases : d # c => assignedTeamIds'[d] \subseteq assignedTeamIds[d]
  BY <1>4 DEF CaseInv, TypeOK, CaseTypes
<1>7. /\ caseStatus' = [caseStatus EXCEPT ![c] = "in_progress"]
      /\ c \in Live /\ caseStatus[c] # "resolved"
      /\ UNCHANGED <<caseCount, bucket, finalized>>
  BY DEF LaunchMajorIncident, weekVars
<1>8. UnspawnedUntouched' /\ ClosedEmpty' /\ SuccessRecorded'
  BY <1>6, <1>7 DEF CaseInv, TypeOK, CaseTypes, WeekTypes, Buckets,
                    UnspawnedUntouched, ClosedEmpty, SuccessRecorded, Live
<1> QED
  BY <1>1, <1>5, <1>8 DEF CaseInv

\* Recalling takes exactly the teams off the list that lose their pointer.
LEMMA UnassignCaseInv ==
    ASSUME CaseInv, NEW c \in Cases, NEW T \in SUBSET Teams, UnassignTeam(c, T)
    PROVE  CaseInv'
<1> DEFINE L == [assignedTeamIds EXCEPT ![c] = Existing(c) \ T]
           P == PointTo({}, c, T)
<1>1. TypeOK'
  BY UnassignTypes DEF CaseInv
<1>2. L \in [Cases -> SUBSET Teams] /\ Normalize(L, P, teamIds) /\ teamIds' = teamIds
  BY DEF UnassignTeam, CaseInv, TypeOK, CaseTypes, Existing
<1>3. \A d \in Cases, u \in Teams : u \in L[d] \cap teamIds => P[u] = d
  <2> SUFFICES ASSUME NEW d \in Cases, NEW u \in Teams, u \in L[d] PROVE P[u] = d
    OBVIOUS
  <2>1. \A e \in Cases, v \in Teams : v \in assignedTeamIds[e] => teamCase[v] = e
    BY DEF CaseInv, TeamCaseAgreement
  <2>2. T \subseteq assignedTeamIds[c]
    BY DEF UnassignTeam
  <2>3. P[u] = IF u \in T THEN NoCase ELSE teamCase[u]
    BY DEF PointTo
  <2>4. L[d] = IF d = c THEN Existing(c) \ T ELSE assignedTeamIds[d]
    BY DEF CaseInv, TypeOK, CaseTypes
  <2> QED
    BY <2>1, <2>2, <2>3, <2>4 DEF Existing
<1>4. /\ \A d \in Cases, u \in Teams : u \in assignedTeamIds'[d] <=> teamCase'[u] = d
      /\ \A d \in Cases : assignedTeamIds'[d] = L[d] \cap teamIds
  <2> HIDE DEF L, P
  <2> QED
    BY <1>2, <1>3, NormalizeAgreement
<1>5. TeamCaseAgreement'
  BY <1>2, <1>4 DEF TeamCaseAgreement
<1>6. \A d \in Cases : assignedTeamIds'[d] \subseteq assignedTeamIds[d]
  BY <1>4 DEF CaseInv, TypeOK, CaseTypes, Existing
<1>7. /\ caseStatus' = [caseStatus EXCEPT ![c] =
                            IF Existing(c) \ T = {} THEN "open" ELSE "in_progress"]
      /\ c \in Live /\ assignedTeamIds[c] # {}
      /\ UNCHANGED <<caseCount, bucket, finalized>>
  BY DEF UnassignTeam, weekVars
<1>8. UnspawnedUntouched' /\ ClosedEmpty' /\ SuccessRecorded'
  BY <1>6, <1>7 DEF CaseInv, TypeOK, CaseTypes, WeekTypes, Buckets,
                    UnspawnedUntouched, ClosedEmpty, SuccessRecorded, Live
<1> QED
  BY <1>1, <1>5, <1>8 DEF CaseInv

\* Team ids come and go only while no case lists them: a new id is listed by none.
LEMMA CreateCaseInv ==
    ASSUME CaseInv, NEW t \in Teams, NEW a \in Agents, CreateTeam(t, a)
    PROVE  CaseInv'
<1> DEFINE P == [teamCase EXCEPT ![t] = NoCase]
           I == teamIds \cup {t}
<1>1. TypeOK'
  BY CreateTypes DEF CaseInv
<1>2. /\ assignedTeamIds \in [Cases -> SUBSET Teams]
      /\ Normalize(assignedTeamIds, P, I)
      /\ teamIds' = I /\ t \notin teamIds
  BY DEF CreateTeam, CaseInv, TypeOK, CaseTypes
<1>3. \A d \in Cases : t \notin assignedTeamIds[d]
  BY <1>2 DEF CaseInv, TeamCaseAgreement
<1>4. \A d \in Cases, u \in Teams : u \in assignedTeamIds[d] \cap I => P[u] = d
  BY <1>3 DEF CaseInv, TeamCaseAgreement, TypeOK, TeamTypes
<1>5. /\ \A d \in Cases, u \in Teams : u \in assignedTeamIds'[d] <=> teamCase'[u] = d
      /\ \A d \in Cases : assignedTeamIds'[d] = assignedTeamIds[d] \cap I
  <2> HIDE DEF P, I
  <2> QED
    BY <1>2, <1>4, NormalizeAgreement
<1>6. TeamCaseAgreement'
  BY <1>2, <1>5 DEF TeamCaseAgreement
<1>7. UNCHANGED <<caseStatus, caseCount, bucket, finalized>>
  BY DEF CreateTeam, weekVars
<1> QED
  BY <1>1, <1>5, <1>6, <1>7 DEF CaseInv, UnspawnedUntouched, ClosedEmpty, SuccessRecorded, Live

\* A deleted team leaves the list and loses its pointer at once.
LEMMA DeleteCaseInv ==
    ASSUME CaseInv, NEW t \in Teams, DeleteEmptyTeam(t)
    PROVE  CaseInv'
<1> DEFINE P == [teamCase EXCEPT ![t] = NoCase]
           I == teamIds \ {t}
<1>1. TypeOK'
  BY DeleteTypes DEF CaseInv
<1>2. /\ assignedTeamIds \in [Cases -> SUBSET Teams]
      /\ Normalize(assignedTeamIds, P, I)
      /\ teamIds' = I
  BY DEF DeleteEmptyTeam, CaseInv, TypeOK, CaseTypes
<1>3. \A d \in Cases, u \in Teams : u \in assignedTeamIds[d] \cap I => P[u] = d
  BY DEF CaseInv, TeamCaseAgreement, TypeOK, TeamTypes
<1>4. /\ \A d \in Cases, u \in Teams : u \in assignedTeamIds'[d] <=> teamCase'[u] = d
      /\ \A d \in Cases : assignedTeamIds'[d] = assignedTeamIds[d] \cap I
  <2> HIDE DEF P, I
  <2> QED
    BY <1>2, <1>3, NormalizeAgreement
<1>5. TeamCaseAgreement'
  BY <1>2, <1>4 DEF TeamCaseAgreement
<1>6. UNCHANGED <<caseStatus, caseCount, bucket, finalized>>
  BY DEF DeleteEmptyTeam, weekVars
<1> QED
  BY <1>1, <1>4, <1>5, <1>6 DEF CaseInv, UnspawnedUntouched, ClosedEmpty, SuccessRecorded, Live

\* Handlers that only run the normalization on the cases they were given.
LEMMA NormalizingCaseInv ==
    ASSUME CaseInv, TypeOK', Normalize(assignedTeamIds, teamCase, teamIds),
           UNCHANGED <<teamIds, caseCount, caseStatus>>,
           \/ UNCHANGED <<bucket, finalized>>
           \/ bucket'["resolved"] = {}
    PROVE  CaseInv'
BY NormalizeKeeps, CaseInvKept

\* The filter for deleted teams finds none.
LEMMA NothingDangling ==
    ASSUME CaseInv, NEW c \in Cases
    PROVE  Existing(c) = assignedTeamIds[c]
BY DEF CaseInv, TeamCaseAgreement, Existing

\* Handlers that leave the teams of every case as they were.
LEMMA QuietCaseInv ==
    ASSUME CaseInv, TypeOK', UNCHANGED <<assignedTeamIds, teamCase, teamIds>>,
           UNCHANGED <<caseCount, caseStatus>>,
           \/ UNCHANGED <<bucket, finalized>>
           \/ bucket'["resolved"] = {}
           \/ bucket'["resolved"] = bucket["resolved"] /\ finalized \subseteq finalized'
    PROVE  CaseInv'
<1>1. TeamCaseAgreement'
  BY DEF CaseInv, TeamCaseAgreement
<1> QED
  BY <1>1, CaseInvKept

\* The case that is settled has its teams brought home with their pointers.
LEMMA ResolveCaseInv ==
    ASSUME CaseInv, NEW result \in Results, NEW degraded \in BOOLEAN,
           ResolveOperation(result, degraded)
    PROVE  CaseInv'
<1> DEFINE c == cursor
           kind == IF result = "success" THEN "resolved"
                   ELSE IF result = "partial" THEN "partial" ELSE "failed"
           first == Recorded(bucket, finalized, c, kind)
<1>1. TypeOK'
  BY ResolveTypes DEF CaseInv
<1>2. /\ c \in Cases /\ c \in Live
      /\ caseStatus[c] = "in_progress" /\ Existing(c) = assignedTeamIds[c]
  BY Visited, NothingDangling DEF ResolveOperation, Visiting, UnderWay, CaseInv
<1>3. TeamCaseAgreement'
  <2>1. /\ teamIds' = teamIds
        /\ teamCase' = [t \in Teams |-> IF t \in assignedTeamIds[c] THEN NoCase
                                        ELSE teamCase[t]]
        /\ assignedTeamIds' = [assignedTeamIds EXCEPT ![c] = {}]
    BY <1>2 DEF ResolveOperation
  <2>2. NoCase \notin Cases
    BY ConstantsAssumption DEF NoCase, Cases
  <2> QED
    BY <1>2, <2>1, <2>2 DEF TeamCaseAgreement, CaseInv, TypeOK, CaseTypes
<1>4. /\ assignedTeamIds' = [assignedTeamIds EXCEPT ![c] = {}]
      /\ caseStatus' = [caseStatus EXCEPT ![c] =
                            IF result = "success" /\ ~degraded THEN "resolved" ELSE "open"]
      /\ caseCount' = caseCount /\ finalized' = finalized \cup {c}
  BY DEF ResolveOperation
<1>5. UnspawnedUntouched' /\ ClosedEmpty'
  BY <1>2, <1>4 DEF CaseInv, TypeOK, CaseTypes, UnspawnedUntouched, ClosedEmpty, Live
<1>6. SuccessRecorded'
  <2>1. c \notin bucket["resolved"]
    BY <1>2 DEF CaseInv, SuccessRecorded
  <2>2. first \in [Buckets -> SUBSET Cases]
    BY <1>2, RecordedTypes DEF CaseInv, TypeOK, WeekTypes, Buckets
  <2>3. first["resolved"] \subseteq
            bucket["resolved"] \cup (IF result = "success" THEN {c} ELSE {})
    BY DEF Recorded, CaseInv, TypeOK, WeekTypes, Buckets
  <2>4. CASE degraded
    <3>1. bucket'["resolved"] \subseteq first["resolved"] \ {c}
      BY <2>2, <2>4 DEF ResolveOperation, Downgraded, Recorded, Buckets
    <3>2. bucket'["resolved"] \subseteq bucket["resolved"]
      BY <2>3, <3>1
    <3> QED
      BY <1>4, <2>1, <3>2 DEF SuccessRecorded, CaseInv, TypeOK, CaseTypes, WeekTypes, Buckets
  <2>5. CASE ~degraded
    <3>1. bucket' = first
      BY <2>5 DEF ResolveOperation
    <3> QED
      BY <1>2, <1>4, <2>1, <2>3, <2>5, <3>1
         DEF SuccessRecorded, CaseInv, TypeOK, CaseTypes, WeekTypes, Buckets
  <2> QED
    BY <2>4, <2>5
<1> QED
  BY <1>1, <1>3, <1>5, <1>6 DEF CaseInv

\* The friction pass reopens a case that has no teams left to mislead.
LEMMA FrictionCaseInv ==
    ASSUME CaseInv, Friction
    PROVE  CaseInv'
<1>1. TypeOK'
  BY FrictionTypes DEF CaseInv
<1>2. CASE overloaded /\ bucket["resolved"] # {}
  <2> DEFINE c == FirstSuccess
  <2>1. c \in bucket["resolved"] /\ c \in Cases
    BY <1>2, FirstSuccessRecorded DEF CaseInv, TypeOK, WeekTypes, Buckets
  <2>2. caseStatus[c] = "resolved" /\ assignedTeamIds[c] = {}
    BY <2>1 DEF CaseInv, SuccessRecorded, ClosedEmpty
  <2>3. /\ assignedTeamIds' = [assignedTeamIds EXCEPT ![c] = {}]
        /\ caseStatus' = [caseStatus EXCEPT ![c] = "open"]
        /\ bucket' = Downgraded(bucket, finalized, c)
        /\ UNCHANGED <<teamCase, teamIds, caseCount, finalized>>
    BY <1>2 DEF Friction, teamVars
  <2>4. assignedTeamIds' = assignedTeamIds
    BY <2>1, <2>2, <2>3 DEF CaseInv, TypeOK, CaseTypes
  <2>5. TeamCaseAgreement'
    BY <2>3, <2>4 DEF TeamCaseAgreement, CaseInv
  <2>6. bucket'["resolved"] = bucket["resolved"] \ {c}
    BY <2>1, <2>3 DEF Downgraded, Recorded, CaseInv, TypeOK, WeekTypes, Buckets
  <2>7. UnspawnedUntouched' /\ ClosedEmpty' /\ SuccessRecorded'
    BY <2>1, <2>2, <2>3, <2>4, <2>6
       DEF CaseInv, TypeOK, CaseTypes, WeekTypes, Buckets,
           UnspawnedUntouched, ClosedEmpty, SuccessRecorded, Live
  <2> QED
    BY <1>1, <2>5, <2>7 DEF CaseInv
<1>3. CASE ~ (overloaded /\ bucket["resolved"] # {})
  BY <1>1, <1>3, QuietCaseInv DEF Friction, teamVars
<1> QED
  BY <1>2, <1>3

\* Spawning touches only places of the register that were free.
LEMMA SpawnCaseInv ==
    ASSUME CaseInv, TypeOK', NEW n \in Nat, NEW R, NEW s, Spawn(n, R, s),
           UNCHANGED <<assignedTeamIds, teamVars, weekVars>>
    PROVE  CaseInv'
<1>1. TeamCaseAgreement'
  BY DEF CaseInv, TeamCaseAgreement, teamVars
<1>2. /\ caseCount \in Nat /\ caseCount' = caseCount + n
      /\ caseStatus' = [c \in Cases |-> IF c \in caseCount + 1 .. caseCount + n
                                        THEN "open" ELSE caseStatus[c]]
  BY DEF Spawn, CaseInv, TypeOK, CaseTypes, Cases
<1>3. \A c \in Cases : c \in caseCount + 1 .. caseCount + n => caseStatus[c] = "unspawned"
  BY <1>2 DEF CaseInv, UnspawnedUntouched, Live, Cases
<1>4. UnspawnedUntouched'
  BY <1>2 DEF CaseInv, UnspawnedUntouched, Live, Cases
<1>5. ClosedEmpty'
  BY <1>2 DEF CaseInv, ClosedEmpty
<1>6. SuccessRecorded'
  BY <1>2, <1>3 DEF CaseInv, SuccessRecorded, TypeOK, WeekTypes, Buckets, weekVars
<1> QED
  BY <1>1, <1>4, <1>5, <1>6 DEF CaseInv

\* Every step keeps the teams, the cases and the week's successes in agreement.
LEMMA CaseStep == CaseInv /\ [Next]_vars => CaseInv'
<1> SUFFICES ASSUME CaseInv, [Next]_vars PROVE CaseInv'
  OBVIOUS
<1>1. TypeOK'
  BY TypeStep DEF CaseInv
<1>2. CASE Command
  <2>1. ASSUME NEW a \in Agents, NEW t \in Teams \cup {NoTeam}, MoveAgent(a, t)
        PROVE  CaseInv'
    BY <1>1, <2>1, NormalizingCaseInv DEF MoveAgent, weekVars
  <2>2. ASSUME NEW A, QueueTraining(A) \/ CancelTraining(A)
        PROVE  CaseInv'
    BY <1>1, <2>2, NormalizingCaseInv DEF QueueTraining, CancelTraining, EndTraining, weekVars
  <2> QED
    BY <1>2, <2>1, <2>2, AssignTeamCaseInv, LaunchCaseInv, UnassignCaseInv, CreateCaseInv,
       DeleteCaseInv DEF Command
<1>3. CASE BeginWeek
  BY <1>1, <1>3, QuietCaseInv DEF BeginWeek, FreshWeek, NoBuckets, Buckets, caseVars, teamVars
<1>4. CASE AdvanceEndedCampaign
  BY <1>1, <1>4, NormalizingCaseInv DEF AdvanceEndedCampaign, weekVars
<1>5. CASE Week
  <2>1. CASE PrepareAgents \/ SkipRotation
    BY <1>1, <2>1, QuietCaseInv DEF PrepareAgents, SkipRotation, caseVars, teamVars, weekVars
  <2>2. ASSUME NEW t \in Teams, NEW out \in Agents, NEW in \in Agents,
               RotateFieldBase(t, out, in)
        PROVE  CaseInv'
    BY <1>1, <2>2, NormalizingCaseInv DEF RotateFieldBase, weekVars
  <2>3. CASE SkipResolve \/ ContinueOperation \/ SkipEscalation
    <3>1. cursor \in Cases
      BY <2>3, Visited DEF SkipResolve, ContinueOperation, SkipEscalation, CaseInv
    <3>2. assignedTeamIds' = assignedTeamIds
      BY <2>3, <3>1, NothingDangling
         DEF SkipResolve, ContinueOperation, SkipEscalation, CaseInv, TypeOK, CaseTypes
    <3> QED
      BY <1>1, <2>3, <3>2, QuietCaseInv
         DEF SkipResolve, ContinueOperation, SkipEscalation, teamVars, weekVars
  <2>4. CASE \E pressed \in BOOLEAN : CountDown(pressed)
    BY <1>1, <2>4, QuietCaseInv DEF CountDown, teamVars
  <2>5. ASSUME NEW pressed \in BOOLEAN, EscalateCase(pressed) PROVE CaseInv'
    <3>1. bucket'["resolved"] = bucket["resolved"]
      BY <2>5 DEF EscalateCase, Recorded, CaseInv, TypeOK, WeekTypes, Buckets
    <3>2. /\ UNCHANGED <<assignedTeamIds, teamCase, teamIds, caseCount, caseStatus>>
          /\ finalized \subseteq finalized'
      BY <2>5 DEF EscalateCase, teamVars
    <3> QED
      BY <1>1, <3>1, <3>2, QuietCaseInv
  <2>6. CASE SpawnFollowUps
    <3>1. PICK n \in Nat, R \in SUBSET Cases : Spawn(n, R, OpeningStage)
      BY <2>6, FollowUpSpawn DEF CaseInv
    <3>2. UNCHANGED <<assignedTeamIds, teamVars, weekVars>>
      BY <2>6 DEF SpawnFollowUps
    <3> QED
      BY <1>1, <3>1, <3>2, SpawnCaseInv
  <2>7. CASE SpawnPressureIncidents
    <3>1. PICK n \in 0 .. MaxSpawn, s \in {OpeningStage, PressureStage} :
              Spawn(n, caseCount + 1 .. caseCount + n, s)
      BY <2>7 DEF SpawnPressureIncidents
    <3>2. UNCHANGED <<assignedTeamIds, teamVars, weekVars>> /\ n \in Nat
      BY <2>7, ConstantsAssumption DEF SpawnPressureIncidents
    <3> QED
      BY <1>1, <3>1, <3>2, SpawnCaseInv
  <2>8. CASE CloseWeek
    <3>1. /\ Normalize(assignedTeamIds, teamCase, teamIds)
          /\ UNCHANGED <<teamIds, caseCount, caseStatus>>
          /\ bucket'["resolved"] = {}
      BY <2>8 DEF CloseWeek, EndTraining, FreshWeek, NoBuckets, Buckets
    <3> QED
      BY <1>1, <3>1, NormalizingCaseInv
  <2> QED
    BY <1>5, <2>1, <2>2, <2>3, <2>4, <2>5, <2>6, <2>7, <2>8, ResolveCaseInv,
       FrictionCaseInv DEF Week
<1>6. CASE UNCHANGED vars
  BY <1>1, <1>6, QuietCaseInv DEF vars, caseVars, teamVars, weekVars
<1> QED
  BY <1>2, <1>3, <1>4, <1>5, <1>6 DEF Next

\* The strengthened invariant holds from the opening save on.
LEMMA CaseInvariant == Spec => []CaseInv
<1>1. Init => CaseInv
  <2> SUFFICES ASSUME Init PROVE CaseInv
    OBVIOUS
  <2>1. TypeOK
    BY InitTypes
  <2>2. TeamCaseAgreement
    BY ConstantsAssumption DEF Init, TeamCaseAgreement, NoCase, Cases
  <2>3. UnspawnedUntouched /\ ClosedEmpty /\ SuccessRecorded
    BY ConstantsAssumption DEF Init, UnspawnedUntouched, ClosedEmpty, SuccessRecorded,
       NoBuckets, Buckets, Live, Cases
  <2> QED
    BY <2>1, <2>2, <2>3 DEF CaseInv
<1>2. CaseInv /\ [Next]_vars => CaseInv'
  BY CaseStep
<1> QED
  BY <1>1, <1>2, PTL DEF Spec

\* In every agency the pointer of a team and the lists of the cases agree
\* after every command and every step of the week; no team works two cases.
THEOREM PointersAgree == Spec => []TeamCaseAgreement
<1>1. CaseInv => TeamCaseAgreement
  BY DEF CaseInv
<1> QED
  BY <1>1, CaseInvariant, PTL

\* The only step that reopens a resolved case is the friction pass of the week
\* that resolved it: no order of the player, no escalation and no spawn does.
THEOREM ClosedStayClosed == Spec => ClosedCasesStayClosed
<1> DEFINE Kept == \A c \in Live : caseStatus[c] = "resolved" /\ caseStatus'[c] # "resolved" =>
                       phase = "friction" /\ c \in finalized
<1>1. CaseInv /\ [Next]_vars => [Kept]_vars
  <2> SUFFICES ASSUME CaseInv, Next PROVE Kept
    OBVIOUS
  <2>1. ASSUME UNCHANGED caseStatus PROVE Kept
    BY <2>1
  <2>2. ASSUME NEW c \in Cases, caseStatus[c] # "resolved",
               NEW s, caseStatus' = [caseStatus EXCEPT ![c] = s]
        PROVE  Kept
    BY <2>2 DEF CaseInv, TypeOK, CaseTypes, Live, Cases
  <2>3. CASE Command
    <3>1. ASSUME NEW c \in Cases, NEW t \in Teams, AssignTeam(c, t) PROVE Kept
      BY <2>2, <3>1 DEF AssignTeam
    <3>2. ASSUME NEW c \in Cases, NEW T \in SUBSET Teams, LaunchMajorIncident(c, T) PROVE Kept
      BY <2>2, <3>2 DEF LaunchMajorIncident
    <3>3. ASSUME NEW c \in Cases, NEW T \in SUBSET Teams, UnassignTeam(c, T) PROVE Kept
      <4>1. caseStatus[c] # "resolved"
        BY <3>3 DEF UnassignTeam, CaseInv, ClosedEmpty
      <4> QED
        BY <2>2, <3>3, <4>1 DEF UnassignTeam
    <3>4. /\ \A a \in Agents, t \in Teams \cup {NoTeam} :
                 MoveAgent(a, t) \/ CreateTeam(t, a) => UNCHANGED caseStatus
          /\ \A t \in Teams : DeleteEmptyTeam(t) => UNCHANGED caseStatus
      BY DEF MoveAgent, CreateTeam, DeleteEmptyTeam
    <3>5. ASSUME NEW A, QueueTraining(A) \/ CancelTraining(A) PROVE Kept
      BY <2>1, <3>5 DEF QueueTraining, CancelTraining, EndTraining
    <3> QED
      BY <2>1, <2>3, <3>1, <3>2, <3>3, <3>4, <3>5 DEF Command
  <2>4. CASE BeginWeek \/ AdvanceEndedCampaign
    BY <2>1, <2>4 DEF BeginWeek, AdvanceEndedCampaign, caseVars
  <2>5. CASE Week
    <3>1. ASSUME NEW result \in Results, NEW degraded \in BOOLEAN,
                 ResolveOperation(result, degraded)
          PROVE  Kept
      <4>1. cursor \in Cases /\ caseStatus[cursor] # "resolved"
        BY <3>1, Visited DEF ResolveOperation, UnderWay, CaseInv
      <4>2. PICK s : caseStatus' = [caseStatus EXCEPT ![cursor] = s]
        BY <3>1 DEF ResolveOperation
      <4> QED
        BY <2>2, <4>1, <4>2
    <3>2. CASE Friction
      <4>1. CASE overloaded /\ bucket["resolved"] # {}
        <5>1. FirstSuccess \in finalized
          BY <4>1, FirstSuccessRecorded DEF CaseInv, SuccessRecorded
        <5>2. /\ phase = "friction"
              /\ caseStatus' = [caseStatus EXCEPT ![FirstSuccess] = "open"]
          BY <3>2, <4>1 DEF Friction
        <5>3. \A c \in Live : c # FirstSuccess => caseStatus'[c] = caseStatus[c]
          BY <5>2, ConstantsAssumption DEF CaseInv, TypeOK, CaseTypes, Live, Cases
        <5> QED
          BY <5>1, <5>2, <5>3
      <4>2. CASE ~ (overloaded /\ bucket["resolved"] # {})
        BY <2>1, <3>2, <4>2 DEF Friction
      <4> QED
        BY <4>1, <4>2
    <3>3. CASE SpawnFollowUps \/ SpawnPressureIncidents
      <4>1. PICK n, R, s : Spawn(n, R, s)
        BY <3>3 DEF SpawnFollowUps, SpawnPressureIncidents
      <4>2. caseStatus' = [c \in Cases |-> IF c \in caseCount + 1 .. caseCount + n
                                          THEN "open" ELSE caseStatus[c]]
        BY <4>1 DEF Spawn
      <4>3. \A c \in Live : c \in Cases /\ c \notin caseCount + 1 .. caseCount + n
        BY ConstantsAssumption DEF Live, Cases, CaseInv, TypeOK, CaseTypes
      <4> QED
        BY <4>2, <4>3
    <3>4. ASSUME Week, ~ Friction, ~ SpawnFollowUps, ~ SpawnPressureIncidents,
                 \A result \in Results, degraded \in BOOLEAN : ~ ResolveOperation(result, degraded)
          PROVE  UNCHANGED caseStatus
      BY <3>4 DEF Week, PrepareAgents, RotateFieldBase, SkipRotation, SkipResolve,
                  ContinueOperation, SkipEscalation, CountDown, EscalateCase, CloseWeek,
                  EndTraining, caseVars
    <3> QED
      BY <2>1, <2>5, <3>1, <3>2, <3>3, <3>4
  <2> QED
    BY <2>3, <2>4, <2>5 DEF Next
<1> QED
  BY <1>1, CaseInvariant, PTL DEF Spec, ClosedCasesStayClosed

-----------------------------------------------------------------------------
(* normalizeGameState once more: it is idempotent, and it never has to       *)
(* repair what the handlers of Deployment leave.                             *)

\* Normalizing the records again would rewrite none of them.
Normalized == /\ NormalAssignments(assignedTeamIds, teamIds) = assignedTeamIds
              /\ NormalPointers(teamCase, assignedTeamIds) = teamCase

\* What one normalization leaves, whatever it was given, the next one keeps.
LEMMA NormalizeIdempotent ==
    ASSUME NEW L \in [Cases -> SUBSET Teams], NEW P, Normalize(L, P, teamIds')
    PROVE  Normalized'
<1>1. assignedTeamIds' = [c \in Cases |-> L[c] \cap teamIds']
  BY DEF Normalize, NormalAssignments
<1>2. NormalAssignments(assignedTeamIds', teamIds') = assignedTeamIds'
  BY <1>1 DEF NormalAssignments
<1>3. teamCase' = [t \in Teams |-> IF P[t] \in Cases /\ t \in assignedTeamIds'[P[t]]
                                  THEN P[t] ELSE NoCase]
  BY DEF Normalize, NormalPointers
<1>4. NoCase \notin Cases
  BY ConstantsAssumption DEF NoCase, Cases
<1>5. NormalPointers(teamCase', assignedTeamIds') = teamCase'
  BY <1>3, <1>4 DEF NormalPointers
<1> QED
  BY <1>2, <1>5 DEF Normalized

\* In every state of every agency, between weeks and within them, normalizing
\* the game again would change nothing: no handler relies on the repair that
\* normalizeGameState makes at the end of the next one.
THEOREM NothingToRepair == Spec => []Normalized
<1>1. CaseInv => Normalized
  <2> SUFFICES ASSUME CaseInv PROVE Normalized
    OBVIOUS
  <2>1. /\ assignedTeamIds \in [Cases -> SUBSET Teams]
        /\ teamCase \in [Teams -> Cases \cup {NoCase}]
        /\ \A c \in Cases : assignedTeamIds[c] \cap teamIds = assignedTeamIds[c]
        /\ \A t \in Teams : teamCase[t] \in Cases => t \in assignedTeamIds[teamCase[t]]
    BY DEF CaseInv, TypeOK, CaseTypes, TeamTypes, TeamCaseAgreement
  <2>2. NormalAssignments(assignedTeamIds, teamIds) = assignedTeamIds
    BY <2>1 DEF NormalAssignments
  <2>3. NormalPointers(teamCase, assignedTeamIds) = teamCase
    BY <2>1 DEF NormalPointers
  <2> QED
    BY <2>2, <2>3 DEF Normalized
<1> QED
  BY <1>1, CaseInvariant, PTL

-----------------------------------------------------------------------------
(* The ledger of a week: its outcome buckets, its finalized cases, and that  *)
(* no case gets two verdicts in one week.                                    *)

\* Between weeks there is no ledger, so that no order can disturb it.
LedgerInv == /\ CaseInv
             /\ WeekLedger
             /\ phase = "command" => finalized = {}

\* A finalized case exists, and nobody works on it for the rest of the week.
LEMMA Settled ==
    ASSUME LedgerInv, NEW c \in finalized
    PROVE  /\ c \in Cases /\ c \in Live
           /\ caseStatus[c] \in {"open", "resolved"}
           /\ assignedTeamIds[c] = {}
<1>1. c \in Cases
  BY DEF LedgerInv, CaseInv, TypeOK, WeekTypes
<1>2. caseStatus[c] \in {"open", "resolved"} /\ assignedTeamIds[c] = {}
  BY <1>1 DEF LedgerInv, WeekLedger, CaseInv, ClosedEmpty, SuccessRecorded
<1>3. c \in Live
  BY <1>1, <1>2 DEF LedgerInv, CaseInv, UnspawnedUntouched
<1> QED
  BY <1>1, <1>2, <1>3

\* A step that leaves the ledger and the cases in it alone.
LEMMA LedgerKept ==
    ASSUME LedgerInv, CaseInv', UNCHANGED <<bucket, finalized>>,
           \A c \in finalized : /\ caseStatus'[c] = caseStatus[c]
                                /\ assignedTeamIds'[c] \subseteq assignedTeamIds[c],
           phase' = "command" => phase = "command"
    PROVE  LedgerInv'
<1>1. \A c \in finalized \ bucket["resolved"] :
          caseStatus'[c] = "open" /\ assignedTeamIds'[c] = {}
  BY DEF LedgerInv, WeekLedger
<1>2. \A c \in bucket["resolved"] : caseStatus'[c] = "resolved"
  BY DEF LedgerInv, WeekLedger, Buckets
<1> QED
  BY <1>1, <1>2 DEF LedgerInv, WeekLedger

\* A week without verdicts.
LEMMA LedgerCleared ==
    ASSUME CaseInv', bucket' = NoBuckets, finalized' = {}
    PROVE  LedgerInv'
BY DEF LedgerInv, WeekLedger, NoBuckets, Buckets

\* A case that has no verdict gets one, which its record confirms.
LEMMA LedgerExtended ==
    ASSUME LedgerInv, CaseInv', NEW c \in Cases, c \notin finalized,
           NEW kind \in Buckets,
           bucket' = [bucket EXCEPT ![kind] = @ \cup {c}],
           finalized' = finalized \cup {c},
           caseStatus'[c] = (IF kind = "resolved" THEN "resolved" ELSE "open"),
           assignedTeamIds'[c] = {},
           \A d \in finalized : /\ caseStatus'[d] = caseStatus[d]
                                /\ assignedTeamIds'[d] = assignedTeamIds[d],
           phase' # "command"
    PROVE  LedgerInv'
<1>1. /\ bucket \in [Buckets -> SUBSET Cases]
      /\ \A b, d \in Buckets : b # d => bucket[b] \cap bucket[d] = {}
      /\ finalized = UNION {bucket[b] : b \in Buckets}
  BY DEF LedgerInv, WeekLedger, CaseInv, TypeOK, WeekTypes
<1>2. \A b \in Buckets : c \notin bucket[b]
  BY <1>1
<1>3. \A b \in Buckets : bucket'[b] = IF b = kind THEN bucket[b] \cup {c} ELSE bucket[b]
  BY <1>1
<1>4. \A b, d \in Buckets : b # d => bucket'[b] \cap bucket'[d] = {}
  BY <1>1, <1>2, <1>3
<1>5. finalized' = UNION {bucket'[b] : b \in Buckets}
  BY <1>1, <1>3
<1>6. "resolved" \in Buckets
  BY DEF Buckets
<1>7. \A d \in bucket'["resolved"] : caseStatus'[d] = "resolved"
  BY <1>1, <1>3, <1>6 DEF LedgerInv, WeekLedger
<1>8. \A d \in finalized' \ bucket'["resolved"] :
          caseStatus'[d] = "open" /\ assignedTeamIds'[d] = {}
  BY <1>3, <1>6 DEF LedgerInv, WeekLedger
<1> QED
  BY <1>4, <1>5, <1>7, <1>8 DEF LedgerInv, WeekLedger

\* An operation that ends is not in the ledger yet; a success that breaks down
\* in the same iteration leaves only its partial verdict.
LEMMA ResolveLedger ==
    ASSUME LedgerInv, CaseInv', NEW result \in Results, NEW degraded \in BOOLEAN,
           ResolveOperation(result, degraded)
    PROVE  LedgerInv'
<1> DEFINE kind == IF result = "success" THEN "resolved"
                   ELSE IF result = "partial" THEN "partial" ELSE "failed"
           last == IF degraded THEN "partial" ELSE kind
<1>0. PICK c \in Cases : c = cursor
  BY Visited DEF ResolveOperation, LedgerInv, CaseInv
<1>1. c \in Cases /\ caseStatus[c] = "in_progress" /\ phase = "resolve"
  BY <1>0 DEF ResolveOperation, Visiting, UnderWay
<1>2. c \notin finalized
  BY <1>1, Settled
<1>3. bucket \in [Buckets -> SUBSET Cases] /\ \A b \in Buckets : c \notin bucket[b]
  BY <1>2 DEF LedgerInv, WeekLedger, CaseInv, TypeOK, WeekTypes
<1>4. last \in Buckets
  BY DEF Buckets
<1>5. bucket' = [bucket EXCEPT ![last] = @ \cup {c}]
  <2>1. CASE degraded
    <3>1. kind = "resolved"
      BY <2>1 DEF ResolveOperation
    <3>2. bucket' = Downgraded(Recorded(bucket, finalized, c, "resolved"),
                               finalized \cup {c}, c)
      BY <1>0, <2>1, <3>1 DEF ResolveOperation
    <3>3. bucket' = [[[bucket EXCEPT !["resolved"] = @ \cup {c}]
                         EXCEPT !["resolved"] = @ \ {c}] EXCEPT !["partial"] = @ \cup {c}]
      BY <1>2, <3>2 DEF Downgraded, Recorded
    <3>4. \A b \in Buckets : bucket'[b] = IF b = "partial" THEN bucket[b] \cup {c}
                                          ELSE bucket[b]
      BY <1>3, <3>3 DEF Buckets
    <3> QED
      BY <1>3, <2>1, <3>3, <3>4
  <2>2. CASE ~ degraded
    BY <1>0, <1>2, <2>2 DEF ResolveOperation, Recorded
  <2> QED
    BY <2>1, <2>2
<1>6. /\ finalized' = finalized \cup {c}
      /\ assignedTeamIds' = [assignedTeamIds EXCEPT ![c] = {}]
      /\ caseStatus' = [caseStatus EXCEPT
                          ![c] = IF result = "success" /\ ~degraded THEN "resolved" ELSE "open"]
      /\ phase' \in {"resolve", "friction"}
  BY <1>0, <1>1 DEF ResolveOperation, Advance
<1>7. caseStatus'[c] = IF last = "resolved" THEN "resolved" ELSE "open"
  BY <1>1, <1>6 DEF LedgerInv, CaseInv, TypeOK, CaseTypes, ResolveOperation, Results
<1>8. assignedTeamIds'[c] = {}
  BY <1>1, <1>6 DEF LedgerInv, CaseInv, TypeOK, CaseTypes
<1>9. \A d \in finalized : /\ caseStatus'[d] = caseStatus[d]
                           /\ assignedTeamIds'[d] = assignedTeamIds[d]
  BY <1>2, <1>6, Settled DEF LedgerInv, CaseInv, TypeOK, CaseTypes
<1> HIDE DEF last
<1> QED
  BY <1>1, <1>2, <1>4, <1>5, <1>6, <1>7, <1>8, <1>9, LedgerExtended

\* Coordination friction moves one success of the week to the partial ones.
LEMMA FrictionLedger ==
    ASSUME LedgerInv, CaseInv', Friction
    PROVE  LedgerInv'
<1>1. phase = "friction" /\ phase' = "escalate" /\ finalized' = finalized
  BY DEF Friction
<1>2. CASE overloaded /\ bucket["resolved"] # {}
  <2>1. PICK c \in Cases : c = FirstSuccess /\ c \in bucket["resolved"]
    BY <1>2, FirstSuccessRecorded DEF LedgerInv, CaseInv, TypeOK, WeekTypes, Buckets
  <2>2. /\ assignedTeamIds' = [assignedTeamIds EXCEPT ![c] = {}]
        /\ caseStatus' = [caseStatus EXCEPT ![c] = "open"]
        /\ bucket' = Downgraded(bucket, finalized, c)
    BY <1>2, <2>1 DEF Friction
  <2>3. /\ bucket \in [Buckets -> SUBSET Cases]
        /\ \A b, d \in Buckets : b # d => bucket[b] \cap bucket[d] = {}
        /\ finalized = UNION {bucket[b] : b \in Buckets}
    BY DEF LedgerInv, WeekLedger, CaseInv, TypeOK, WeekTypes
  <2>4. \A b \in Buckets : bucket'[b] = IF b = "resolved" THEN bucket[b] \ {c}
                                        ELSE IF b = "partial" THEN bucket[b] \cup {c}
                                        ELSE bucket[b]
    BY <2>2, <2>3 DEF Downgraded, Recorded, Buckets
  <2>5. \A b, d \in Buckets : b # d => bucket'[b] \cap bucket'[d] = {}
    BY <2>1, <2>3, <2>4 DEF Buckets
  <2>6. finalized' = UNION {bucket'[b] : b \in Buckets}
    BY <1>1, <2>1, <2>3, <2>4 DEF Buckets
  <2>7. \A d \in bucket'["resolved"] : caseStatus'[d] = "resolved"
    BY <2>2, <2>3, <2>4 DEF LedgerInv, WeekLedger, CaseInv, TypeOK, CaseTypes, Buckets
  <2>8. \A d \in finalized' \ bucket'["resolved"] :
            caseStatus'[d] = "open" /\ assignedTeamIds'[d] = {}
    BY <1>1, <2>2, <2>4, Settled
       DEF LedgerInv, WeekLedger, CaseInv, TypeOK, CaseTypes, Buckets
  <2> QED
    BY <1>1, <2>5, <2>6, <2>7, <2>8 DEF LedgerInv, WeekLedger
<1>3. CASE ~ (overloaded /\ bucket["resolved"] # {})
  BY <1>1, <1>3, LedgerKept DEF Friction
<1> QED
  BY <1>2, <1>3

\* Only a case without a verdict escalates, and it keeps its open record.
LEMMA EscalateLedger ==
    ASSUME LedgerInv, CaseInv', NEW pressed \in BOOLEAN, EscalateCase(pressed)
    PROVE  LedgerInv'
<1>1. PICK c \in Cases : c = cursor
  BY Visited DEF EscalateCase, LedgerInv, CaseInv
<1>2. c \notin finalized /\ caseStatus[c] = "open" /\ assignedTeamIds[c] = {}
  BY <1>1, NothingDangling DEF EscalateCase, Unattended, LedgerInv
<1>3. /\ bucket' = [bucket EXCEPT !["unresolved"] = @ \cup {c}]
      /\ finalized' = finalized \cup {c}
      /\ UNCHANGED <<caseStatus, assignedTeamIds>>
      /\ phase' # "command"
  BY <1>1, <1>2 DEF EscalateCase, Recorded, Visiting, Advance
<1>4. "unresolved" \in Buckets
  BY DEF Buckets
<1> QED
  BY <1>2, <1>3, <1>4, LedgerExtended

\* A new case has no verdict.
LEMMA SpawnLedger ==
    ASSUME LedgerInv, CaseInv', NEW n \in Nat, NEW R, NEW s, Spawn(n, R, s),
           UNCHANGED <<assignedTeamIds, weekVars>>, phase' # "command"
    PROVE  LedgerInv'
<1>1. \A c \in finalized : c \in Cases /\ c \in Live
  BY Settled
<1>2. \A c \in finalized : caseStatus'[c] = caseStatus[c]
  BY <1>1 DEF Spawn, Live, LedgerInv, CaseInv, TypeOK, CaseTypes, Cases
<1> QED
  BY <1>2, LedgerKept DEF weekVars

\* Every step keeps the ledger exclusive and true.
LEMMA LedgerStep == LedgerInv /\ [Next]_vars => LedgerInv'
<1> SUFFICES ASSUME LedgerInv, [Next]_vars PROVE LedgerInv'
  OBVIOUS
<1>1. CaseInv'
  BY CaseStep DEF LedgerInv
<1>2. CASE Command
  <2>1. phase = "command" /\ UNCHANGED <<phase, bucket, finalized>>
    BY <1>2 DEF Command, AssignTeam, LaunchMajorIncident, UnassignTeam, MoveAgent, CreateTeam,
                DeleteEmptyTeam, QueueTraining, CancelTraining, weekVars
  <2>2. finalized = {}
    BY <2>1 DEF LedgerInv
  <2> QED
    BY <1>1, <2>1, <2>2, LedgerKept
<1>3. CASE BeginWeek
  BY <1>1, <1>3, LedgerCleared DEF BeginWeek, FreshWeek
<1>4. CASE AdvanceEndedCampaign
  <2>1. phase = "command" /\ UNCHANGED <<phase, bucket, finalized>>
    BY <1>4 DEF AdvanceEndedCampaign, weekVars
  <2>2. finalized = {}
    BY <2>1 DEF LedgerInv
  <2> QED
    BY <1>1, <2>1, <2>2, LedgerKept
<1>5. CASE Week
  <2>1. CASE PrepareAgents \/ SkipRotation
    BY <1>1, <2>1, LedgerKept DEF PrepareAgents, SkipRotation, Visiting, Advance, caseVars, weekVars
  <2>2. ASSUME NEW t \in Teams, NEW out \in Agents, NEW in \in Agents,
               RotateFieldBase(t, out, in)
        PROVE  LedgerInv'
    <3>1. assignedTeamIds' = NormalAssignments(assignedTeamIds, teamIds)
      BY <2>2 DEF RotateFieldBase, Normalize
    <3>2. \A c \in finalized : assignedTeamIds'[c] \subseteq assignedTeamIds[c]
      BY <3>1, Settled DEF NormalAssignments
    <3> QED
      BY <1>1, <2>2, <3>2, LedgerKept DEF RotateFieldBase, Visiting, Advance, weekVars
  <2>3. CASE SkipResolve \/ ContinueOperation \/ SkipEscalation
    <3>1. cursor \in Cases
      BY <2>3, Visited DEF SkipResolve, ContinueOperation, SkipEscalation, LedgerInv, CaseInv
    <3>2. assignedTeamIds' = assignedTeamIds
      BY <2>3, <3>1, NothingDangling
         DEF SkipResolve, ContinueOperation, SkipEscalation, LedgerInv, CaseInv, TypeOK, CaseTypes
    <3> QED
      BY <1>1, <2>3, <3>2, LedgerKept
         DEF SkipResolve, ContinueOperation, SkipEscalation, Visiting, Advance, weekVars
  <2>4. CASE \E pressed \in BOOLEAN : CountDown(pressed)
    BY <1>1, <2>4, LedgerKept DEF CountDown, Visiting, Advance
  <2>5. CASE SpawnFollowUps
    <3>1. PICK n \in Nat, R \in SUBSET Cases : Spawn(n, R, OpeningStage)
      BY <2>5, FollowUpSpawn DEF LedgerInv, CaseInv
    <3> QED
      BY <1>1, <2>5, <3>1, SpawnLedger DEF SpawnFollowUps
  <2>6. CASE SpawnPressureIncidents
    <3>1. PICK n \in 0 .. MaxSpawn, s \in {OpeningStage, PressureStage} :
              Spawn(n, caseCount + 1 .. caseCount + n, s)
      BY <2>6 DEF SpawnPressureIncidents
    <3>2. n \in Nat
      BY ConstantsAssumption
    <3> QED
      BY <1>1, <2>6, <3>1, <3>2, SpawnLedger DEF SpawnPressureIncidents
  <2>7. CASE CloseWeek
    BY <1>1, <2>7, LedgerCleared DEF CloseWeek, FreshWeek
  <2> QED
    BY <1>1, <1>5, <2>1, <2>2, <2>3, <2>4, <2>5, <2>6, <2>7, ResolveLedger, FrictionLedger,
       EscalateLedger DEF Week
<1>6. CASE UNCHANGED vars
  BY <1>1, <1>6, LedgerKept DEF vars, caseVars, weekVars
<1> QED
  BY <1>2, <1>3, <1>4, <1>5, <1>6 DEF Next

\* The ledger agrees with the case records from the opening save on.
LEMMA LedgerInvariant == Spec => []LedgerInv
<1>1. Init /\ CaseInv => LedgerInv
  BY DEF Init, LedgerInv, WeekLedger, NoBuckets, Buckets
<1>2. LedgerInv /\ [Next]_vars => LedgerInv'
  BY LedgerStep
<1> QED
  BY <1>1, <1>2, CaseInvariant, PTL DEF Spec

\* In every state of every week the outcome buckets are disjoint, hold exactly
\* the finalized cases and say what the case records say.
THEOREM LedgerAgrees == Spec => []WeekLedger
<1>1. LedgerInv => WeekLedger
  BY DEF LedgerInv
<1> QED
  BY <1>1, LedgerInvariant, PTL

\* Once a case is finalized no later pass of the week raises its stage, moves
\* its deadline or makes it a raid; only friction may take a success back.
THEOREM OneVerdict == Spec => OneVerdictPerWeek
<1> DEFINE Single == \A c \in finalized :
               stage'[c] # stage[c] \/ deadlineRemaining'[c] # deadlineRemaining[c]
               \/ caseKind'[c] # caseKind[c] => phase = "friction" /\ c \in bucket["resolved"]
<1>1. LedgerInv /\ [Next]_vars => [Single]_vars
  <2> SUFFICES ASSUME LedgerInv, Next PROVE Single
    OBVIOUS
  <2>1. ASSUME UNCHANGED <<stage, deadlineRemaining, caseKind>> PROVE Single
    BY <2>1
  <2>2. /\ stage \in [Cases -> 0 .. TopStage]
        /\ deadlineRemaining \in [Cases -> 0 .. DeadlineWeeks]
        /\ caseKind \in [Cases -> {"case", "raid"}]
        /\ finalized \subseteq Cases
    BY DEF LedgerInv, CaseInv, TypeOK, CaseTypes, WeekTypes
  <2>3. CASE Command
    <3>1. phase = "command"
      BY <2>3 DEF Command, AssignTeam, LaunchMajorIncident, UnassignTeam, MoveAgent, CreateTeam,
                  DeleteEmptyTeam, QueueTraining, CancelTraining
    <3> QED
      BY <3>1 DEF LedgerInv
  <2>4. CASE BeginWeek \/ AdvanceEndedCampaign
    BY <2>1, <2>4 DEF BeginWeek, AdvanceEndedCampaign, caseVars
  <2>5. CASE Week
    <3>1. ASSUME NEW result \in Results, NEW degraded \in BOOLEAN,
                 ResolveOperation(result, degraded)
          PROVE  Single
      <4>1. cursor \notin finalized
        BY <3>1, Settled DEF ResolveOperation, UnderWay
      <4>2. PICK s : stage' = [stage EXCEPT ![cursor] = s]
        BY <3>1 DEF ResolveOperation
      <4>3. UNCHANGED <<deadlineRemaining, caseKind>>
        BY <3>1 DEF ResolveOperation
      <4> QED
        BY <2>2, <4>1, <4>2, <4>3
    <3>2. CASE Friction
      <4>1. CASE overloaded /\ bucket["resolved"] # {}
        <5>1. FirstSuccess \in bucket["resolved"]
          BY <4>1, FirstSuccessRecorded DEF LedgerInv, CaseInv
        <5>2. PICK s : stage' = [stage EXCEPT ![FirstSuccess] = s]
          BY <3>2, <4>1 DEF Friction
        <5>3. phase = "friction" /\ UNCHANGED <<deadlineRemaining, caseKind>>
          BY <3>2 DEF Friction
        <5> QED
          BY <2>2, <5>1, <5>2, <5>3
      <4>2. CASE ~ (overloaded /\ bucket["resolved"] # {})
        BY <2>1, <3>2, <4>2 DEF Friction
      <4> QED
        BY <4>1, <4>2
    <3>3. ASSUME NEW pressed \in BOOLEAN, CountDown(pressed) PROVE Single
      <4>1. cursor \notin finalized
        BY <3>3 DEF CountDown, Unattended
      <4>2. PICK d : deadlineRemaining' = [deadlineRemaining EXCEPT ![cursor] = d]
        BY <3>3 DEF CountDown
      <4>3. UNCHANGED <<stage, caseKind>>
        BY <3>3 DEF CountDown
      <4> QED
        BY <2>2, <4>1, <4>2, <4>3
    <3>4. ASSUME NEW pressed \in BOOLEAN, EscalateCase(pressed) PROVE Single
      <4>1. cursor \notin finalized
        BY <3>4 DEF EscalateCase, Unattended
      <4>2. PICK s, d, k : /\ stage' = [stage EXCEPT ![cursor] = s]
                           /\ deadlineRemaining' = [deadlineRemaining EXCEPT ![cursor] = d]
                           /\ caseKind' = [caseKind EXCEPT ![cursor] = k]
        BY <3>4 DEF EscalateCase
      <4> QED
        BY <2>2, <4>1, <4>2
    <3>5. CASE SpawnFollowUps \/ SpawnPressureIncidents
      <4>1. PICK n, R, s : Spawn(n, R, s)
        BY <3>5 DEF SpawnFollowUps, SpawnPressureIncidents
      <4>2. /\ caseKind' = [c \in Cases |-> IF c \in R THEN "raid" ELSE caseKind[c]]
            /\ stage' = [c \in Cases |-> IF c \in caseCount + 1 .. caseCount + n
                                          THEN s ELSE stage[c]]
            /\ R \subseteq caseCount + 1 .. caseCount + n
        BY <4>1 DEF Spawn
      <4>3. \A c \in finalized : c \in Cases /\ c \notin caseCount + 1 .. caseCount + n
        BY Settled, ConstantsAssumption
           DEF Live, Cases, LedgerInv, CaseInv, TypeOK, CaseTypes
      <4>4. UNCHANGED deadlineRemaining
        BY <3>5 DEF SpawnFollowUps, SpawnPressureIncidents
      <4> QED
        BY <4>2, <4>3, <4>4
    <3>6. ASSUME ~ Friction, ~ SpawnFollowUps, ~ SpawnPressureIncidents,
                 \A result \in Results, degraded \in BOOLEAN : ~ ResolveOperation(result, degraded),
                 \A pressed \in BOOLEAN : ~ CountDown(pressed) /\ ~ EscalateCase(pressed)
          PROVE  UNCHANGED <<stage, deadlineRemaining, caseKind>>
      BY <2>5, <3>6 DEF Week, PrepareAgents, RotateFieldBase, SkipRotation, SkipResolve,
                  ContinueOperation, SkipEscalation, CloseWeek, EndTraining, caseVars
    <3> QED
      BY <2>1, <3>1, <3>2, <3>3, <3>4, <3>5, <3>6
  <2> QED
    BY <2>3, <2>4, <2>5 DEF Next
<1> QED
  BY <1>1, LedgerInvariant, PTL DEF Spec, OneVerdictPerWeek

-----------------------------------------------------------------------------
(* The record of an operation: a case is under way exactly while it has      *)
(* teams and weeks to go.                                                    *)

\* The record of one case.
RecordOf(c) ==
    /\ caseStatus[c] = "in_progress" <=> assignedTeamIds[c] # {}
    /\ caseStatus[c] = "in_progress" => weeksRemaining[c] \in 1 .. LongestWeeks
    /\ caseStatus[c] = "open" => weeksRemaining[c] = NoWeeks

\* A place of the register is blank until a case is spawned there.
BlankUntilSpawned ==
    /\ \A c \in Live : caseStatus[c] # "unspawned"
    /\ \A c \in Cases \ Live : assignedTeamIds[c] = {} /\ weeksRemaining[c] = NoWeeks

OperationInv == CaseInv /\ OperationRecord /\ BlankUntilSpawned

\* The register is a set of cases.
LEMMA LiveCases ==
    ASSUME TypeOK
    PROVE  Live \subseteq Cases
BY ConstantsAssumption DEF TypeOK, CaseTypes, Live, Cases

\* A handler that leaves every case with the teams and the clock it had.
LEMMA RecordsKept ==
    ASSUME OperationInv, CaseInv',
           UNCHANGED <<assignedTeamIds, caseCount, caseStatus, weeksRemaining>>
    PROVE  OperationInv'
BY DEF OperationInv, OperationRecord, BlankUntilSpawned, Live

\* A handler that rewrites one case of the register, and rewrites it well.
LEMMA OneRecordChanged ==
    ASSUME OperationInv, CaseInv', NEW c \in Live, caseCount' = caseCount,
           RecordOf(c)', caseStatus'[c] # "unspawned",
           \A d \in Cases : d # c => /\ assignedTeamIds'[d] = assignedTeamIds[d]
                                     /\ caseStatus'[d] = caseStatus[d]
                                     /\ weeksRemaining'[d] = weeksRemaining[d]
    PROVE  OperationInv'
<1>1. Live' = Live /\ Live \subseteq Cases
  BY LiveCases DEF Live, OperationInv, CaseInv
<1>2. OperationRecord'
  BY <1>1 DEF OperationInv, OperationRecord, RecordOf
<1>3. BlankUntilSpawned'
  BY <1>1 DEF OperationInv, BlankUntilSpawned
<1> QED
  BY <1>2, <1>3 DEF OperationInv

\* Normalizing lists in which every team exists rewrites none of them.
LEMMA ExistingKept ==
    ASSUME NEW L \in [Cases -> SUBSET Teams], NEW P, Normalize(L, P, teamIds),
           \A c \in Cases : L[c] \subseteq teamIds
    PROVE  \A c \in Cases : assignedTeamIds'[c] = L[c]
BY DEF Normalize, NormalAssignments

\* A command that lists the teams S on the case c.
LEMMA CommandLists ==
    ASSUME CaseInv, NEW c \in Cases, NEW S \in SUBSET Teams, S \subseteq teamIds, NEW P,
           Normalize([assignedTeamIds EXCEPT ![c] = S], P, teamIds)
    PROVE  /\ assignedTeamIds'[c] = S
           /\ \A d \in Cases : d # c => assignedTeamIds'[d] = assignedTeamIds[d]
<1> DEFINE L == [assignedTeamIds EXCEPT ![c] = S]
<1>1. assignedTeamIds \in [Cases -> SUBSET Teams] /\ L \in [Cases -> SUBSET Teams]
  BY DEF CaseInv, TypeOK, CaseTypes
<1>2. \A d \in Cases : L[d] = IF d = c THEN S ELSE assignedTeamIds[d]
  BY <1>1
<1>3. \A d \in Cases : L[d] \subseteq teamIds
  BY <1>2 DEF CaseInv, TeamCaseAgreement
<1>4. \A d \in Cases : assignedTeamIds'[d] = L[d]
  <2> HIDE DEF L
  <2>1. Normalize(L, P, teamIds)
    BY DEF L
  <2> QED
    BY <1>1, <1>3, <2>1, ExistingKept
<1> QED
  BY <1>2, <1>4

\* The first team starts the clock, a later one of a raid leaves it alone.
LEMMA AssignTeamRecord ==
    ASSUME OperationInv, NEW c \in Cases, NEW t \in Teams, AssignTeam(c, t)
    PROVE  OperationInv'
<1> DEFINE S == IF caseKind[c] = "raid" THEN Existing(c) \cup {t} ELSE {t}
<1>1. CaseInv'
  BY AssignTeamCaseInv DEF OperationInv
<1>2. S \subseteq teamIds /\ S \in SUBSET Teams /\ S # {}
  BY DEF AssignTeam, Existing, OperationInv, CaseInv, TypeOK, TeamTypes
<1>3. PICK P : Normalize([assignedTeamIds EXCEPT ![c] = S], P, teamIds)
  BY DEF AssignTeam
<1>4. /\ assignedTeamIds'[c] = S
      /\ \A d \in Cases : d # c => assignedTeamIds'[d] = assignedTeamIds[d]
  <2> HIDE DEF S
  <2> QED
    BY <1>2, <1>3, CommandLists DEF OperationInv
<1>5. /\ caseStatus' = [caseStatus EXCEPT ![c] = "in_progress"]
      /\ weeksRemaining' = [weeksRemaining EXCEPT ![c] = ClockOf(c)]
      /\ c \in Live /\ caseStatus[c] # "resolved" /\ caseCount' = caseCount
  BY DEF AssignTeam
<1>6. caseStatus[c] \in {"open", "in_progress"}
  BY <1>5 DEF OperationInv, BlankUntilSpawned, CaseInv, TypeOK, CaseTypes, Statuses
<1>7. weeksRemaining'[c] \in 1 .. LongestWeeks
  BY <1>5, <1>6, ConstantsAssumption
     DEF ClockOf, OperationInv, OperationRecord, CaseInv, TypeOK, CaseTypes
<1>8. caseStatus'[c] = "in_progress"
  BY <1>5 DEF OperationInv, CaseInv, TypeOK, CaseTypes
<1>9. RecordOf(c)'
  BY <1>2, <1>4, <1>7, <1>8 DEF RecordOf
<1>10. \A d \in Cases : d # c => /\ caseStatus'[d] = caseStatus[d]
                                 /\ weeksRemaining'[d] = weeksRemaining[d]
  BY <1>5 DEF OperationInv, CaseInv, TypeOK, CaseTypes
<1> HIDE DEF S
<1> QED
  BY <1>1, <1>4, <1>5, <1>8, <1>9, <1>10, OneRecordChanged

\* A launch (re)starts the clock under the teams it requires.
LEMMA LaunchRecord ==
    ASSUME OperationInv, NEW c \in Cases, NEW T \in SUBSET Teams, LaunchMajorIncident(c, T)
    PROVE  OperationInv'
<1>1. CaseInv'
  BY LaunchCaseInv DEF OperationInv
<1>2. T \subseteq teamIds /\ T # {}
  BY FS_EmptySet, ConstantsAssumption DEF LaunchMajorIncident
<1>3. PICK P : Normalize([assignedTeamIds EXCEPT ![c] = T], P, teamIds)
  BY DEF LaunchMajorIncident
<1>4. /\ assignedTeamIds'[c] = T
      /\ \A d \in Cases : d # c => assignedTeamIds'[d] = assignedTeamIds[d]
  BY <1>2, <1>3, CommandLists DEF OperationInv
<1>5. PICK weeks \in 1 .. LongestWeeks :
      /\ caseStatus' = [caseStatus EXCEPT ![c] = "in_progress"]
      /\ weeksRemaining' = [weeksRemaining EXCEPT ![c] = weeks]
      /\ c \in Live /\ caseCount' = caseCount
  BY DEF LaunchMajorIncident
<1>6. /\ weeksRemaining'[c] \in 1 .. LongestWeeks /\ caseStatus'[c] = "in_progress"
      /\ \A d \in Cases : d # c => /\ caseStatus'[d] = caseStatus[d]
                                   /\ weeksRemaining'[d] = weeksRemaining[d]
  BY <1>5, ConstantsAssumption DEF OperationInv, CaseInv, TypeOK, CaseTypes
<1>7. RecordOf(c)'
  BY <1>2, <1>4, <1>6 DEF RecordOf
<1> QED
  BY <1>1, <1>4, <1>5, <1>6, <1>7, OneRecordChanged

\* The last team recalled takes the clock with it.
LEMMA UnassignRecord ==
    ASSUME OperationInv, NEW c \in Cases, NEW T \in SUBSET Teams, UnassignTeam(c, T)
    PROVE  OperationInv'
<1> DEFINE S == Existing(c) \ T
<1>1. CaseInv'
  BY UnassignCaseInv DEF OperationInv
<1>2. S \subseteq teamIds /\ S \in SUBSET Teams
  BY DEF Existing, OperationInv, CaseInv, TypeOK, TeamTypes
<1>3. PICK P : Normalize([assignedTeamIds EXCEPT ![c] = S], P, teamIds)
  BY DEF UnassignTeam
<1>4. /\ assignedTeamIds'[c] = S
      /\ \A d \in Cases : d # c => assignedTeamIds'[d] = assignedTeamIds[d]
  <2> HIDE DEF S
  <2> QED
    BY <1>2, <1>3, CommandLists DEF OperationInv
<1>5. /\ caseStatus' = [caseStatus EXCEPT ![c] = IF S = {} THEN "open" ELSE "in_progress"]
      /\ weeksRemaining' = [weeksRemaining EXCEPT ![c] = IF S = {} THEN NoWeeks ELSE @]
      /\ c \in Live /\ assignedTeamIds[c] # {} /\ caseCount' = caseCount
  BY DEF UnassignTeam
<1>6. weeksRemaining[c] \in 1 .. LongestWeeks
  BY <1>5 DEF OperationInv, OperationRecord
<1>7. /\ caseStatus'[c] = IF S = {} THEN "open" ELSE "in_progress"
      /\ weeksRemaining'[c] = IF S = {} THEN NoWeeks ELSE weeksRemaining[c]
      /\ \A d \in Cases : d # c => /\ caseStatus'[d] = caseStatus[d]
                                   /\ weeksRemaining'[d] = weeksRemaining[d]
  <2> HIDE DEF S
  <2> QED
    BY <1>5 DEF OperationInv, CaseInv, TypeOK, CaseTypes
<1> HIDE DEF S
<1>8. RecordOf(c)' /\ caseStatus'[c] # "unspawned"
  BY <1>4, <1>6, <1>7 DEF RecordOf
<1> QED
  BY <1>1, <1>4, <1>5, <1>7, <1>8, OneRecordChanged

\* Team ids come and go only while no case lists them.
LEMMA TeamIdsRecord ==
    ASSUME OperationInv, CaseInv', NEW t \in Teams,
           \/ \E a \in Agents : CreateTeam(t, a)
           \/ DeleteEmptyTeam(t)
    PROVE  OperationInv'
<1>1. /\ assignedTeamIds' = NormalAssignments(assignedTeamIds, teamIds')
      /\ teamIds' = teamIds \cup {t} \/ (teamIds' = teamIds \ {t} /\ teamCase[t] \notin Live)
      /\ UNCHANGED <<caseCount, caseStatus, weeksRemaining>>
  BY DEF CreateTeam, DeleteEmptyTeam, Editable, Normalize
<1>2. \A c \in Cases : assignedTeamIds[c] \subseteq teamIds
  BY DEF OperationInv, CaseInv, TeamCaseAgreement
<1>3. ASSUME teamCase[t] \notin Live, NEW c \in Cases PROVE t \notin assignedTeamIds[c]
  BY <1>3 DEF OperationInv, BlankUntilSpawned, CaseInv, TeamCaseAgreement
<1>4. \A c \in Cases : assignedTeamIds[c] \cap teamIds' = assignedTeamIds[c]
  BY <1>1, <1>2, <1>3
<1>5. assignedTeamIds \in [Cases -> SUBSET Teams]
  BY DEF OperationInv, CaseInv, TypeOK, CaseTypes
<1>6. assignedTeamIds' = assignedTeamIds
  BY <1>1, <1>4, <1>5 DEF NormalAssignments
<1> QED
  BY <1>1, <1>6, RecordsKept

\* A week in the field comes off the clock, which stays above zero.
LEMMA ContinueRecord ==
    ASSUME OperationInv, CaseInv', ContinueOperation
    PROVE  OperationInv'
<1>1. PICK c \in Live : c = cursor
  BY DEF ContinueOperation, Visiting
<1>2. c \in Cases /\ caseStatus[c] = "in_progress" /\ Existing(c) = assignedTeamIds[c]
  BY <1>1, LiveCases, NothingDangling DEF ContinueOperation, UnderWay, OperationInv, CaseInv
<1>3. /\ assignedTeamIds' = [assignedTeamIds EXCEPT ![c] = Existing(c)]
      /\ weeksRemaining' = [weeksRemaining EXCEPT ![c] = WeeksLeft(c)]
      /\ WeeksLeft(c) > 0
      /\ UNCHANGED <<caseCount, caseStatus>>
  BY <1>1 DEF ContinueOperation
<1>4. weeksRemaining[c] \in 1 .. LongestWeeks
  BY <1>2 DEF OperationInv, OperationRecord
<1>5. WeeksLeft(c) \in 1 .. LongestWeeks
  BY <1>3, <1>4, ConstantsAssumption DEF WeeksLeft
<1>6. /\ assignedTeamIds' = assignedTeamIds
      /\ weeksRemaining'[c] = WeeksLeft(c)
      /\ \A d \in Cases : d # c => weeksRemaining'[d] = weeksRemaining[d]
  BY <1>2, <1>3 DEF OperationInv, CaseInv, TypeOK, CaseTypes
<1>7. RecordOf(c)'
  BY <1>2, <1>3, <1>5, <1>6 DEF RecordOf, OperationInv, OperationRecord
<1> QED
  BY <1>2, <1>3, <1>6, <1>7, OneRecordChanged

\* A settled case has neither teams nor weeks to go, whatever its result.
LEMMA ResolveRecord ==
    ASSUME OperationInv, CaseInv', NEW result \in Results, NEW degraded \in BOOLEAN,
           ResolveOperation(result, degraded)
    PROVE  OperationInv'
<1>1. PICK c \in Live : c = cursor
  BY DEF ResolveOperation, Visiting
<1>2. c \in Cases
  BY LiveCases DEF OperationInv, CaseInv
<1>3. PICK closed \in BOOLEAN :
          /\ assignedTeamIds' = [assignedTeamIds EXCEPT ![c] = {}]
          /\ caseStatus' = [caseStatus EXCEPT ![c] = IF closed THEN "resolved" ELSE "open"]
          /\ weeksRemaining' = [weeksRemaining EXCEPT ![c] = IF closed THEN 0 ELSE NoWeeks]
          /\ caseCount' = caseCount
  <2>1. (result = "success" /\ ~ degraded) \in BOOLEAN
    OBVIOUS
  <2> QED
    BY <1>1, <2>1 DEF ResolveOperation
<1>4. /\ assignedTeamIds'[c] = {}
      /\ caseStatus'[c] = IF closed THEN "resolved" ELSE "open"
      /\ weeksRemaining'[c] = IF closed THEN 0 ELSE NoWeeks
      /\ \A d \in Cases : d # c => /\ assignedTeamIds'[d] = assignedTeamIds[d]
                                   /\ caseStatus'[d] = caseStatus[d]
                                   /\ weeksRemaining'[d] = weeksRemaining[d]
  BY <1>2, <1>3 DEF OperationInv, CaseInv, TypeOK, CaseTypes
<1>5. RecordOf(c)' /\ caseStatus'[c] # "unspawned"
  BY <1>4 DEF RecordOf
<1> QED
  BY <1>3, <1>4, <1>5, OneRecordChanged

\* A success taken back leaves an open case without a clock.
LEMMA FrictionRecord ==
    ASSUME OperationInv, CaseInv', Friction
    PROVE  OperationInv'
<1>1. CASE overloaded /\ bucket["resolved"] # {}
  <2>1. FirstSuccess \in Cases /\ caseStatus[FirstSuccess] = "resolved"
    BY <1>1, FirstSuccessRecorded
       DEF OperationInv, CaseInv, SuccessRecorded, TypeOK, WeekTypes, Buckets
  <2>2. PICK c \in Live : c = FirstSuccess
    BY <2>1 DEF OperationInv, CaseInv, UnspawnedUntouched
  <2>3. /\ assignedTeamIds' = [assignedTeamIds EXCEPT ![c] = {}]
        /\ caseStatus' = [caseStatus EXCEPT ![c] = "open"]
        /\ weeksRemaining' = [weeksRemaining EXCEPT ![c] = NoWeeks]
        /\ caseCount' = caseCount
    BY <1>1, <2>2 DEF Friction
  <2>4. /\ assignedTeamIds'[c] = {} /\ caseStatus'[c] = "open" /\ weeksRemaining'[c] = NoWeeks
        /\ \A d \in Cases : d # c => /\ assignedTeamIds'[d] = assignedTeamIds[d]
                                     /\ caseStatus'[d] = caseStatus[d]
                                     /\ weeksRemaining'[d] = weeksRemaining[d]
    BY <2>1, <2>2, <2>3 DEF OperationInv, CaseInv, TypeOK, CaseTypes
  <2>5. RecordOf(c)' /\ caseStatus'[c] # "unspawned"
    BY <2>4 DEF RecordOf
  <2> QED
    BY <2>3, <2>4, <2>5, OneRecordChanged
<1>2. CASE ~ (overloaded /\ bucket["resolved"] # {})
  BY <1>2, RecordsKept DEF Friction
<1> QED
  BY <1>1, <1>2

\* New cases are open, and blank as their places were.
LEMMA SpawnRecord ==
    ASSUME OperationInv, CaseInv', NEW n \in Nat, NEW R, NEW s, Spawn(n, R, s),
           UNCHANGED <<assignedTeamIds, weeksRemaining>>
    PROVE  OperationInv'
<1>1. /\ caseCount \in Nat /\ caseCount' = caseCount + n /\ caseCount' <= MaxCases
      /\ MaxCases \in Nat
      /\ \A c \in Cases : caseStatus'[c] = IF c \in caseCount + 1 .. caseCount + n
                                           THEN "open" ELSE caseStatus[c]
  BY ConstantsAssumption DEF Spawn, OperationInv, CaseInv, TypeOK, CaseTypes, Cases
<1>2. \A c \in Live' : c \in Live \/ (c \in caseCount + 1 .. caseCount + n /\ c \in Cases \ Live)
  BY <1>1 DEF Live, Cases
<1>3. \A c \in Live : c \in Cases /\ c \notin caseCount + 1 .. caseCount + n
  BY <1>1 DEF Live, Cases
<1>4. ASSUME NEW c \in Live' PROVE RecordOf(c)' /\ caseStatus'[c] # "unspawned"
  <2>1. CASE c \in Live
    BY <1>1, <1>3, <2>1 DEF RecordOf, OperationInv, OperationRecord, BlankUntilSpawned
  <2>2. CASE c \in caseCount + 1 .. caseCount + n /\ c \in Cases \ Live
    BY <1>1, <2>2 DEF RecordOf, OperationInv, BlankUntilSpawned
  <2> QED
    BY <1>2, <2>1, <2>2
<1>5. Cases \ Live' \subseteq Cases \ Live
  BY <1>1 DEF Live, Cases
<1> QED
  BY <1>4, <1>5 DEF OperationInv, OperationRecord, BlankUntilSpawned, RecordOf

\* Every step leaves the operations with teams and clocks that agree.
LEMMA OperationStep == OperationInv /\ [Next]_vars => OperationInv'
<1> SUFFICES ASSUME OperationInv, [Next]_vars PROVE OperationInv'
  OBVIOUS
<1>1. CaseInv'
  BY CaseStep DEF OperationInv
<1>2. ASSUME Normalize(assignedTeamIds, teamCase, teamIds),
             UNCHANGED <<teamIds, caseCount, caseStatus, weeksRemaining>>
      PROVE  OperationInv'
  BY <1>1, <1>2, NormalizeKeeps, RecordsKept DEF OperationInv
<1>3. CASE Command
  <2>1. ASSUME NEW a \in Agents, NEW t \in Teams \cup {NoTeam}, MoveAgent(a, t)
        PROVE  OperationInv'
    BY <1>2, <2>1 DEF MoveAgent
  <2>2. ASSUME NEW A, QueueTraining(A) \/ CancelTraining(A)
        PROVE  OperationInv'
    BY <1>2, <2>2 DEF QueueTraining, CancelTraining, EndTraining
  <2> QED
    BY <1>1, <1>3, <2>1, <2>2, AssignTeamRecord, LaunchRecord, UnassignRecord, TeamIdsRecord
       DEF Command
<1>4. CASE BeginWeek \/ AdvanceEndedCampaign
  BY <1>1, <1>2, <1>4, RecordsKept DEF BeginWeek, AdvanceEndedCampaign, caseVars
<1>5. CASE Week
  <2>1. CASE PrepareAgents \/ SkipRotation
    BY <1>1, <2>1, RecordsKept DEF PrepareAgents, SkipRotation, caseVars
  <2>2. ASSUME NEW t \in Teams, NEW out \in Agents, NEW in \in Agents,
               RotateFieldBase(t, out, in)
        PROVE  OperationInv'
    BY <1>2, <2>2 DEF RotateFieldBase
  <2>3. CASE SkipResolve \/ SkipEscalation
    <3>1. cursor \in Cases
      BY <2>3, Visited DEF SkipResolve, SkipEscalation, OperationInv, CaseInv
    <3>2. assignedTeamIds' = assignedTeamIds
      BY <2>3, <3>1, NothingDangling
         DEF SkipResolve, SkipEscalation, OperationInv, CaseInv, TypeOK, CaseTypes
    <3> QED
      BY <1>1, <2>3, <3>2, RecordsKept DEF SkipResolve, SkipEscalation
  <2>4. CASE \E pressed \in BOOLEAN : CountDown(pressed) \/ EscalateCase(pressed)
    BY <1>1, <2>4, RecordsKept DEF CountDown, EscalateCase
  <2>5. CASE SpawnFollowUps
    <3>1. PICK n \in Nat, R \in SUBSET Cases : Spawn(n, R, OpeningStage)
      BY <2>5, FollowUpSpawn DEF OperationInv, CaseInv
    <3> QED
      BY <1>1, <2>5, <3>1, SpawnRecord DEF SpawnFollowUps
  <2>6. CASE SpawnPressureIncidents
    <3>1. PICK n \in 0 .. MaxSpawn, s \in {OpeningStage, PressureStage} :
              Spawn(n, caseCount + 1 .. caseCount + n, s)
      BY <2>6 DEF SpawnPressureIncidents
    <3>2. n \in Nat
      BY ConstantsAssumption
    <3> QED
      BY <1>1, <2>6, <3>1, <3>2, SpawnRecord DEF SpawnPressureIncidents
  <2>7. CASE CloseWeek
    BY <1>2, <2>7 DEF CloseWeek, EndTraining
  <2> QED
    BY <1>1, <1>5, <2>1, <2>2, <2>3, <2>4, <2>5, <2>6, <2>7, ContinueRecord, ResolveRecord,
       FrictionRecord DEF Week
<1>6. CASE UNCHANGED vars
  BY <1>1, <1>6, RecordsKept DEF vars, caseVars
<1> QED
  BY <1>3, <1>4, <1>5, <1>6 DEF Next

\* The strengthened invariant holds from the opening save on.
LEMMA OperationInvariant == Spec => []OperationInv
<1>1. Init /\ CaseInv => OperationInv
  BY ConstantsAssumption
     DEF Init, OperationInv, OperationRecord, BlankUntilSpawned, Live, Cases
<1>2. OperationInv /\ [Next]_vars => OperationInv'
  BY OperationStep
<1> QED
  BY <1>1, <1>2, CaseInvariant, PTL DEF Spec

\* A case is under way exactly while it has teams and weeks to go, in every
\* agency; no order of commands and weeks leaves a stale clock to inherit.
THEOREM OperationsRecorded == Spec => []OperationRecord
<1>1. OperationInv => OperationRecord
  BY DEF OperationInv
<1> QED
  BY <1>1, OperationInvariant, PTL

\* The clock of an ordinary operation that stays in the field.
ClockRunsDown ==
    [][\A c \in Live \ majorIncident' :
          caseStatus[c] = "in_progress" /\ caseStatus'[c] = "in_progress" =>
              weeksRemaining'[c] = IF phase = "resolve" /\ cursor = c
                                   THEN weeksRemaining[c] - 1 ELSE weeksRemaining[c]]_vars

\* An ordinary operation loses exactly one week whenever the resolve pass
\* reaches it, and no command (another team, a recall, a swap of members) and
\* no other pass ever gives it a week back or takes one: what OperationsEnd
\* needs of the clock.
THEOREM ClocksRunDown == Spec => ClockRunsDown
<1> DEFINE Runs(c) == caseStatus[c] = "in_progress" /\ caseStatus'[c] = "in_progress" =>
                weeksRemaining'[c] = IF phase = "resolve" /\ cursor = c
                                     THEN weeksRemaining[c] - 1 ELSE weeksRemaining[c]
           Kept == \A c \in Live \ majorIncident' : Runs(c)
<1>1. OperationInv /\ [Next]_vars => [Kept]_vars
  <2> SUFFICES ASSUME OperationInv, Next, NEW c \in Live, c \notin majorIncident',
                      caseStatus[c] = "in_progress", caseStatus'[c] = "in_progress"
               PROVE  weeksRemaining'[c] = IF phase = "resolve" /\ cursor = c
                                           THEN weeksRemaining[c] - 1 ELSE weeksRemaining[c]
    OBVIOUS
  <2>1. /\ c \in Cases /\ weeksRemaining[c] \in 1 .. LongestWeeks
        /\ Existing(c) = assignedTeamIds[c] /\ assignedTeamIds[c] # {}
        /\ NoWeeks \notin Nat /\ DurationWeeks \in Nat
        /\ weeksRemaining \in [Cases -> 0 .. LongestWeeks \cup {NoWeeks}]
        /\ caseStatus \in [Cases -> Statuses]
    BY LiveCases, NothingDangling, ConstantsAssumption
       DEF OperationInv, OperationRecord, CaseInv, TypeOK, CaseTypes
  <2>2. weeksRemaining[c] # NoWeeks /\ weeksRemaining[c] # 0
    BY <2>1
  <2>3. CASE phase = "resolve" /\ cursor = c
    <3>1. UnderWay(c)
      BY <2>1 DEF UnderWay
    <3>2. ContinueOperation \/ \E result \in Results, degraded \in BOOLEAN :
                                   ResolveOperation(result, degraded)
      BY <2>3, <3>1 DEF Next, Command, Week, BeginWeek, AdvanceEndedCampaign, AssignTeam,
         LaunchMajorIncident, UnassignTeam, MoveAgent, CreateTeam, DeleteEmptyTeam,
         QueueTraining, CancelTraining, PrepareAgents, RotateFieldBase, SkipRotation,
         SkipResolve, Friction, SkipEscalation, CountDown, EscalateCase, SpawnFollowUps,
         SpawnPressureIncidents, CloseWeek, Visiting
    <3>3. CASE ContinueOperation
      <4>1. weeksRemaining'[c] = WeeksLeft(c)
        BY <2>1, <2>3, <3>3 DEF ContinueOperation
      <4> QED
        BY <2>2, <2>3, <4>1 DEF WeeksLeft
    <3>4. ASSUME NEW result \in Results, NEW degraded \in BOOLEAN,
                 ResolveOperation(result, degraded)
          PROVE  FALSE
      BY <2>1, <2>3, <3>4 DEF ResolveOperation
    <3> QED
      BY <3>2, <3>3, <3>4
  <2>4. CASE ~ (phase = "resolve" /\ cursor = c)
    <3> SUFFICES weeksRemaining'[c] = weeksRemaining[c]
      BY <2>4
    <3>1. CASE UNCHANGED weeksRemaining
      BY <3>1
    <3>2. ASSUME NEW d \in Cases, NEW t \in Teams, AssignTeam(d, t)
          PROVE  weeksRemaining'[c] = weeksRemaining[c]
      BY <2>1, <2>2, <3>2 DEF AssignTeam, ClockOf
    <3>3. ASSUME NEW d \in Cases, NEW T \in SUBSET Teams, LaunchMajorIncident(d, T)
          PROVE  weeksRemaining'[c] = weeksRemaining[c]
      BY <2>1, <3>3 DEF LaunchMajorIncident
    <3>4. ASSUME NEW d \in Cases, NEW T \in SUBSET Teams, UnassignTeam(d, T)
          PROVE  weeksRemaining'[c] = weeksRemaining[c]
      BY <2>1, <3>4 DEF UnassignTeam
    <3>5. CASE ContinueOperation
      BY <2>1, <2>4, <3>5 DEF ContinueOperation, Visiting
    <3>6. ASSUME NEW result \in Results, NEW degraded \in BOOLEAN,
                 ResolveOperation(result, degraded)
          PROVE  weeksRemaining'[c] = weeksRemaining[c]
      BY <2>1, <2>4, <3>6 DEF ResolveOperation, Visiting
    <3>7. CASE Friction
      BY <2>1, <3>7 DEF Friction
    <3>8. CASE /\ ~ ContinueOperation /\ ~ Friction /\ Week
               /\ \A result \in Results, degraded \in BOOLEAN :
                      ~ ResolveOperation(result, degraded)
      BY <3>1, <3>8 DEF Week, PrepareAgents, RotateFieldBase, SkipRotation, SkipResolve,
         SkipEscalation, CountDown, EscalateCase, SpawnFollowUps, SpawnPressureIncidents,
         CloseWeek, EndTraining, caseVars
    <3>9. CASE BeginWeek \/ AdvanceEndedCampaign
      BY <3>1, <3>9 DEF BeginWeek, AdvanceEndedCampaign, caseVars
    <3>10. CASE Command
      BY <3>1, <3>2, <3>3, <3>4, <3>10 DEF Command, MoveAgent, CreateTeam, DeleteEmptyTeam,
         QueueTraining, CancelTraining, EndTraining
    <3> QED
      BY <3>5, <3>6, <3>7, <3>8, <3>9, <3>10 DEF Next
  <2> QED
    BY <2>3, <2>4
<1> QED
  BY <1>1, OperationInvariant, PTL DEF Spec, ClockRunsDown

=============================================================================
