------------------------------ MODULE AgentProofs ------------------------------
(***************************************************************************)
(* Agents, teams and operations: duties, trainings and benchings agree     *)
(* with the field, operations keep the crews and the teams they need, and  *)
(* the cap on cases holds against everything but pressure.                 *)
(***************************************************************************)
EXTENDS DeploymentProofs

FieldInv == OperationInv /\ OneTeamPerAgent

\* The four statements about agents hold only together: a training that ends
\* writes "idle", which would strand a deployed agent if trainees could be in
\* the field, and a member who is benched would be sent if not unfit.
AgentInv == /\ FieldInv
            /\ DeployedAgentsAgree /\ NoTrainingInTheField
            /\ TrainingQueueAgrees /\ BenchedStayHome

\* The records of cases and rosters do not depend on the duties of agents.
LEMMA FieldStep == FieldInv /\ [Next]_vars => FieldInv'
BY OperationStep, RosterStep DEF FieldInv, OperationInv, CaseInv

\* The lists of the cases decide the pointers of the teams.
LEMMA PointersKept ==
    ASSUME CaseInv, CaseInv', assignedTeamIds' = assignedTeamIds
    PROVE  teamCase' = teamCase
<1>1. teamCase \in [Teams -> Cases \cup {NoCase}] /\ teamCase' \in [Teams -> Cases \cup {NoCase}]
  BY DEF CaseInv, TypeOK, TeamTypes
<1>2. ASSUME NEW t \in Teams PROVE teamCase'[t] = teamCase[t]
  BY <1>1, <1>2 DEF CaseInv, TeamCaseAgreement
<1> QED
  BY <1>1, <1>2

\* A handler that leaves teams and agents as they were.
LEMMA AgentsKept ==
    ASSUME AgentInv, FieldInv', assignedTeamIds' = assignedTeamIds,
           UNCHANGED <<memberIds, teamIds, agentVars>>
    PROVE  AgentInv'
<1>1. teamCase' = teamCase
  BY PointersKept DEF AgentInv, FieldInv, OperationInv
<1> QED
  BY <1>1 DEF AgentInv, DeployedAgentsAgree, NoTrainingInTheField, TrainingQueueAgrees,
              BenchedStayHome, agentVars

-----------------------------------------------------------------------------
(* Teams sent to a case and recalled from it.                              *)

\* Who is sent by an order that recalls the teams R from c and sends T there.
IsSent(a, T) == a \in Crew(T) /\ agentStatus[a] = "active" /\ assignment[a] # "training"
IsFreed(a, R, c) == a \in Crew(R) /\ assignment[a] = "assigned" /\ agentCase[a] = c

\* What the order writes, agent by agent.
LEMMA SentAndFreed ==
    ASSUME TypeOK, NEW R, NEW T, NEW c, AssignAgents(ReleaseAgents(R, c), T, c),
           NEW a \in Agents
    PROVE  /\ assignment'[a] = IF IsSent(a, T) THEN "assigned"
                               ELSE IF IsFreed(a, R, c) THEN "idle" ELSE assignment[a]
           /\ agentCase'[a] = IF IsSent(a, T) THEN c
                              ELSE IF IsFreed(a, R, c) THEN NoCase ELSE agentCase[a]
<1> DEFINE held == ReleaseAgents(R, c)
           sent == {b \in Crew(T) : agentStatus[b] = "active" /\ held.duty[b] # "training"}
<1>1. /\ held.duty[a] = IF IsFreed(a, R, c) THEN "idle" ELSE assignment[a]
      /\ held.place[a] = IF IsFreed(a, R, c) THEN NoCase ELSE agentCase[a]
  BY DEF ReleaseAgents, IsFreed
<1>2. a \in sent <=> IsSent(a, T)
  BY <1>1 DEF IsSent, IsFreed
<1>3. /\ assignment'[a] = IF a \in sent THEN "assigned" ELSE held.duty[a]
      /\ agentCase'[a] = IF a \in sent THEN c ELSE held.place[a]
  BY DEF AssignAgents
<1> QED
  BY <1>1, <1>2, <1>3

\* The case c ends up with the teams S: those of T are sent, those of R recalled.
LEMMA OrderAgents ==
    ASSUME AgentInv, FieldInv', NEW c \in Cases, NEW S \in SUBSET teamIds, NEW R, NEW T,
           T \subseteq S, R \cap S = {}, assignedTeamIds[c] \subseteq S \cup R,
           AssignAgents(ReleaseAgents(R, c), T, c),
           assignedTeamIds'[c] = S,
           \A d \in Cases : d # c => assignedTeamIds'[d] = assignedTeamIds[d],
           \A a \in Crew(S) : assignment[a] # "training",
           UNCHANGED <<teamIds, memberIds, agentStatus, benched, trainingQueue>>
    PROVE  AgentInv'
<1>1. TypeOK /\ TypeOK' /\ TeamCaseAgreement /\ TeamCaseAgreement'
  BY DEF AgentInv, FieldInv, OperationInv, CaseInv
<1>2. ASSUME NEW a \in Agents
      PROVE  /\ assignment'[a] = IF IsSent(a, T) THEN "assigned"
                                 ELSE IF IsFreed(a, R, c) THEN "idle" ELSE assignment[a]
             /\ agentCase'[a] = IF IsSent(a, T) THEN c
                                ELSE IF IsFreed(a, R, c) THEN NoCase ELSE agentCase[a]
  BY <1>1, <1>2, SentAndFreed
<1>3. NoCase \notin Cases
  BY ConstantsAssumption DEF NoCase, Cases
<1>4. DeployedAgentsAgree'
  <2> SUFFICES ASSUME NEW a \in Agents
               PROVE  /\ assignment'[a] = "assigned" =>
                            /\ agentStatus[a] = "active"
                            /\ \E t \in teamIds : /\ a \in memberIds[t]
                                                  /\ agentCase'[a] # NoCase
                                                  /\ t \in assignedTeamIds'[agentCase'[a]]
                      /\ assignment'[a] # "assigned" => agentCase'[a] = NoCase
    BY DEF DeployedAgentsAgree
  <2>1. CASE IsSent(a, T)
    <3>1. PICK t \in T : a \in memberIds[t]
      BY <2>1 DEF IsSent, Crew
    <3> QED
      BY <1>2, <1>3, <2>1, <3>1 DEF IsSent
  <2>2. CASE ~IsSent(a, T) /\ IsFreed(a, R, c)
    BY <1>2, <2>2
  <2>3. CASE ~IsSent(a, T) /\ ~IsFreed(a, R, c) /\ assignment[a] = "assigned"
    <3>1. PICK t \in teamIds : /\ a \in memberIds[t]
                               /\ agentCase[a] # NoCase
                               /\ t \in assignedTeamIds[agentCase[a]]
      BY <2>3 DEF AgentInv, DeployedAgentsAgree
    <3>2. agentCase[a] \in Cases
      BY <1>1, <3>1 DEF TypeOK, AgentTypes
    <3>3. agentCase[a] = c => t \notin R
      BY <2>3, <3>1 DEF IsFreed, Crew
    <3>4. t \in assignedTeamIds'[agentCase[a]]
      BY <3>1, <3>2, <3>3
    <3>5. agentStatus[a] = "active"
      BY <2>3 DEF AgentInv, DeployedAgentsAgree
    <3> QED
      BY <1>2, <2>3, <3>1, <3>4, <3>5
  <2>4. CASE ~IsSent(a, T) /\ ~IsFreed(a, R, c) /\ assignment[a] # "assigned"
    BY <1>2, <2>4 DEF AgentInv, DeployedAgentsAgree
  <2> QED
    BY <2>1, <2>2, <2>3, <2>4
<1>5. \A a \in Agents : assignment'[a] = "training" <=> assignment[a] = "training"
  BY <1>2 DEF IsSent, IsFreed
<1>6. NoTrainingInTheField'
  <2> SUFFICES ASSUME NEW t \in teamIds, NEW a \in Agents, a \in memberIds[t],
                      assignment[a] = "training", teamCase'[t] # NoCase
               PROVE  FALSE
    BY <1>5 DEF NoTrainingInTheField
  <2>1. t \in Teams /\ teamCase'[t] \in Cases
    BY <1>1 DEF TypeOK, TeamTypes
  <2>2. t \in assignedTeamIds'[teamCase'[t]]
    BY <1>1, <2>1 DEF TeamCaseAgreement
  <2>3. teamCase'[t] # c
    BY <2>2 DEF Crew
  <2>4. teamCase[t] = teamCase'[t]
    BY <1>1, <2>1, <2>2, <2>3 DEF TeamCaseAgreement
  <2> QED
    BY <2>4 DEF AgentInv, NoTrainingInTheField
<1>7. TrainingQueueAgrees'
  BY <1>5 DEF AgentInv, TrainingQueueAgrees
<1>8. BenchedStayHome'
  BY <1>1, <1>2 DEF AgentInv, BenchedStayHome, IsSent, IsFreed, TypeOK, AgentTypes
<1> QED
  BY <1>4, <1>6, <1>7, <1>8 DEF AgentInv

\* assignTeam: the team it sends has nobody in training.
LEMMA AssignTeamAgents ==
    ASSUME AgentInv, FieldInv', NEW c \in Cases, NEW t \in Teams, AssignTeam(c, t)
    PROVE  AgentInv'
<1> DEFINE S == IF caseKind[c] = "raid" THEN Existing(c) \cup {t} ELSE {t}
           R == IF caseKind[c] = "raid" THEN {} ELSE Existing(c) \ {t}
           T == IF t \notin Existing(c) \/ teamCase[t] # c THEN {t} ELSE {}
<1>1. S \in SUBSET teamIds /\ S \in SUBSET Teams
  BY DEF AssignTeam, Existing, AgentInv, FieldInv, OperationInv, CaseInv, TypeOK, TeamTypes
<1>2. PICK P : Normalize([assignedTeamIds EXCEPT ![c] = S], P, teamIds)
  BY DEF AssignTeam
<1>3. /\ assignedTeamIds'[c] = S
      /\ \A d \in Cases : d # c => assignedTeamIds'[d] = assignedTeamIds[d]
  <2> HIDE DEF S
  <2> QED
    BY <1>1, <1>2, CommandLists DEF AgentInv, FieldInv, OperationInv
<1>4. /\ T \subseteq S /\ R \cap S = {} /\ Existing(c) \subseteq S \cup R
      /\ Existing(c) = assignedTeamIds[c]
  BY NothingDangling DEF AgentInv, FieldInv, OperationInv
<1>5. /\ AssignAgents(ReleaseAgents(R, c), T, c)
      /\ \A a \in Crew(S) : assignment[a] # "training"
      /\ UNCHANGED <<teamIds, memberIds, agentStatus, benched, trainingQueue>>
  BY DEF AssignTeam, Valid
<1> HIDE DEF S, R, T
<1> QED
  BY <1>1, <1>3, <1>4, <1>5, OrderAgents

\* launchMajorIncident: neither a first launch nor a relaunch takes trainees.
LEMMA LaunchAgents ==
    ASSUME AgentInv, FieldInv', NEW c \in Cases, NEW T \in SUBSET Teams,
           LaunchMajorIncident(c, T)
    PROVE  AgentInv'
<1> DEFINE R == Existing(c) \ T
           N == T \ Existing(c)
<1>1. T \in SUBSET teamIds
  BY DEF LaunchMajorIncident
<1>2. PICK P : Normalize([assignedTeamIds EXCEPT ![c] = T], P, teamIds)
  BY DEF LaunchMajorIncident
<1>3. /\ assignedTeamIds'[c] = T
      /\ \A d \in Cases : d # c => assignedTeamIds'[d] = assignedTeamIds[d]
  BY <1>1, <1>2, CommandLists DEF AgentInv, FieldInv, OperationInv
<1>4. /\ N \subseteq T /\ R \cap T = {} /\ Existing(c) \subseteq T \cup R
      /\ Existing(c) = assignedTeamIds[c]
  BY NothingDangling DEF AgentInv, FieldInv, OperationInv
<1>5. /\ AssignAgents(ReleaseAgents(R, c), N, c)
      /\ \A a \in Crew(T) : assignment[a] # "training"
      /\ UNCHANGED <<teamIds, memberIds, agentStatus, benched, trainingQueue>>
  BY DEF LaunchMajorIncident, Valid, ValidInField
<1> HIDE DEF R, N
<1> QED
  BY <1>1, <1>3, <1>4, <1>5, OrderAgents

\* unassignTeam is an order that sends nobody.
LEMMA UnassignAgents ==
    ASSUME AgentInv, FieldInv', NEW c \in Cases, NEW T \in SUBSET Teams, UnassignTeam(c, T)
    PROVE  AgentInv'
<1> DEFINE S == Existing(c) \ T
<1>1. S \in SUBSET teamIds /\ S \in SUBSET Teams
  BY DEF Existing, AgentInv, FieldInv, OperationInv, CaseInv, TypeOK, TeamTypes
<1>2. PICK P : Normalize([assignedTeamIds EXCEPT ![c] = S], P, teamIds)
  BY DEF UnassignTeam
<1>3. /\ assignedTeamIds'[c] = S
      /\ \A d \in Cases : d # c => assignedTeamIds'[d] = assignedTeamIds[d]
  <2> HIDE DEF S
  <2> QED
    BY <1>1, <1>2, CommandLists DEF AgentInv, FieldInv, OperationInv
<1>4. {} \subseteq S /\ T \cap S = {} /\ Existing(c) \subseteq S \cup T
      /\ Existing(c) = assignedTeamIds[c]
  BY NothingDangling DEF AgentInv, FieldInv, OperationInv
<1>5. AssignAgents(ReleaseAgents(T, c), {}, c)
  BY DEF UnassignTeam, AssignAgents, ReleaseAgents, Crew
<1>6. UNCHANGED <<teamIds, memberIds, agentStatus, benched, trainingQueue>>
  BY DEF UnassignTeam
<1>7. ASSUME NEW a \in Crew(S) PROVE assignment[a] # "training"
  <2>1. PICK t \in S : a \in memberIds[t]
    BY <1>7 DEF Crew
  <2>2. t \in teamIds /\ t \in Teams /\ teamCase[t] = c /\ c # NoCase
    BY <1>1, <2>1, ConstantsAssumption
       DEF Existing, AgentInv, FieldInv, OperationInv, CaseInv, TeamCaseAgreement, NoCase, Cases
  <2>3. a \in Agents
    BY <2>1, <2>2 DEF AgentInv, FieldInv, OperationInv, CaseInv, TypeOK, TeamTypes
  <2> QED
    BY <2>1, <2>2, <2>3 DEF AgentInv, NoTrainingInTheField
<1> HIDE DEF S
<1> QED
  BY <1>1, <1>3, <1>4, <1>5, <1>6, <1>7, OrderAgents

-----------------------------------------------------------------------------
(* Rosters and trainings.                                                  *)

\* An agent on a team that may be edited is not in the field.
LEMMA EditableAtHome ==
    ASSUME AgentInv, NEW a \in Agents, \A t \in HomeTeams(a) : Editable(t)
    PROVE  assignment[a] # "assigned" /\ agentCase[a] = NoCase
<1>1. SUFFICES ASSUME assignment[a] = "assigned" PROVE FALSE
  BY DEF AgentInv, DeployedAgentsAgree
<1>2. PICK t \in teamIds : /\ a \in memberIds[t]
                           /\ agentCase[a] # NoCase
                           /\ t \in assignedTeamIds[agentCase[a]]
  BY <1>1 DEF AgentInv, DeployedAgentsAgree
<1>3. agentCase[a] \in Cases /\ t \in Teams
  BY <1>2 DEF AgentInv, FieldInv, OperationInv, CaseInv, TypeOK, AgentTypes, TeamTypes
<1>4. agentCase[a] \in Live
  BY <1>2, <1>3 DEF AgentInv, FieldInv, OperationInv, BlankUntilSpawned
<1>5. teamCase[t] = agentCase[a]
  BY <1>2, <1>3 DEF AgentInv, FieldInv, OperationInv, CaseInv, TeamCaseAgreement
<1> QED
  BY <1>2, <1>4, <1>5 DEF HomeTeams, Editable

\* A trainee is on no team that is edited; nobody else's duty looks at rosters.
LEMMA RelocationAgents ==
    ASSUME AgentInv, FieldInv', NEW a \in Agents, NEW target,
           \A t \in HomeTeams(a) : Editable(t), assignment[a] # "training",
           memberIds' = Relocated(a, target), teamIds \subseteq teamIds',
           assignedTeamIds' = assignedTeamIds, UNCHANGED agentVars
    PROVE  AgentInv'
<1>1. teamCase' = teamCase
  BY PointersKept DEF AgentInv, FieldInv, OperationInv
<1>2. assignment[a] # "assigned" /\ agentCase[a] = NoCase
  BY EditableAtHome
<1>3. teamIds \subseteq Teams /\ teamIds' \subseteq Teams
  BY DEF AgentInv, FieldInv, OperationInv, CaseInv, TypeOK, TeamTypes
<1>4. \A t \in Teams, b \in Agents : b # a => (b \in memberIds'[t] <=> b \in memberIds[t])
  BY DEF Relocated
<1>5. DeployedAgentsAgree'
  BY <1>2, <1>3, <1>4 DEF AgentInv, DeployedAgentsAgree, agentVars
<1>6. \A t \in Teams \ teamIds : memberIds[t] = {}
  BY DEF AgentInv, FieldInv, OneTeamPerAgent
<1>7. NoTrainingInTheField'
  BY <1>1, <1>3, <1>4, <1>6 DEF AgentInv, NoTrainingInTheField, agentVars
<1>8. TrainingQueueAgrees'
  <2> SUFFICES ASSUME NEW A \in trainingQueue, Cardinality(A) > 1
               PROVE  \E t \in teamIds' : A \subseteq memberIds'[t]
    BY DEF AgentInv, TrainingQueueAgrees, agentVars
  <2>1. PICK t \in teamIds : A \subseteq memberIds[t]
    BY DEF AgentInv, TrainingQueueAgrees
  <2>2. a \notin A /\ A \subseteq Agents
    BY DEF AgentInv, TrainingQueueAgrees
  <2> QED
    BY <1>3, <1>4, <2>1, <2>2
<1>9. BenchedStayHome'
  BY DEF AgentInv, BenchedStayHome, agentVars
<1> QED
  BY <1>5, <1>7, <1>8, <1>9 DEF AgentInv

\* Moving an agent, and the team an agent is taken to.
LEMMA MovedAgents ==
    ASSUME AgentInv, FieldInv', NEW a \in Agents,
           \/ \E t \in Teams \cup {NoTeam} : MoveAgent(a, t)
           \/ \E t \in Teams : CreateTeam(t, a)
    PROVE  AgentInv'
<1>1. CASE \E t \in Teams \cup {NoTeam} : MoveAgent(a, t)
  <2>1. PICK t \in Teams \cup {NoTeam} : MoveAgent(a, t)
    BY <1>1
  <2>2. assignedTeamIds' = assignedTeamIds
    BY <2>1, NormalizeKeeps DEF MoveAgent, AgentInv, FieldInv, OperationInv
  <2> QED
    BY <2>1, <2>2, RelocationAgents DEF MoveAgent, Movable
<1>2. CASE \E t \in Teams : CreateTeam(t, a)
  <2>1. PICK t \in Teams : CreateTeam(t, a)
    BY <1>2
  <2>2. /\ assignedTeamIds' = [c \in Cases |-> assignedTeamIds[c] \cap teamIds']
        /\ teamIds' = teamIds \cup {t}
    BY <2>1 DEF CreateTeam, Normalize, NormalAssignments
  <2>3. \A c \in Cases : assignedTeamIds[c] \subseteq teamIds
    BY DEF AgentInv, FieldInv, OperationInv, CaseInv, TeamCaseAgreement
  <2>4. assignedTeamIds' = assignedTeamIds
    BY <2>2, <2>3 DEF AgentInv, FieldInv, OperationInv, CaseInv, TypeOK, CaseTypes
  <2> QED
    BY <2>1, <2>2, <2>4, RelocationAgents DEF CreateTeam, Movable
<1> QED
  BY <1>1, <1>2

\* A team that is deleted has nobody whose duty could depend on it.
LEMMA DeletedAgents ==
    ASSUME AgentInv, FieldInv', NEW t \in Teams, DeleteEmptyTeam(t)
    PROVE  AgentInv'
<1>1. /\ teamIds' = teamIds \ {t} /\ memberIds[t] = {}
      /\ assignedTeamIds' = [c \in Cases |-> assignedTeamIds[c] \cap teamIds']
      /\ teamCase[t] \notin Live
      /\ UNCHANGED <<memberIds, agentVars>>
  BY DEF DeleteEmptyTeam, Normalize, NormalAssignments, Editable
<1>2. ASSUME NEW c \in Cases PROVE assignedTeamIds[c] \subseteq teamIds'
  <2>1. assignedTeamIds[c] \subseteq teamIds /\ (t \in assignedTeamIds[c] => teamCase[t] = c)
    BY DEF AgentInv, FieldInv, OperationInv, CaseInv, TeamCaseAgreement
  <2>2. c \notin Live => assignedTeamIds[c] = {}
    BY DEF AgentInv, FieldInv, OperationInv, BlankUntilSpawned
  <2> QED
    BY <1>1, <2>1, <2>2
<1>3. assignedTeamIds' = assignedTeamIds
  BY <1>1, <1>2 DEF AgentInv, FieldInv, OperationInv, CaseInv, TypeOK, CaseTypes
<1>4. teamCase' = teamCase
  BY <1>3, PointersKept DEF AgentInv, FieldInv, OperationInv
<1>5. DeployedAgentsAgree' /\ NoTrainingInTheField' /\ BenchedStayHome'
  BY <1>1, <1>3, <1>4
     DEF AgentInv, DeployedAgentsAgree, NoTrainingInTheField, BenchedStayHome, agentVars
<1>6. TrainingQueueAgrees'
  <2> SUFFICES ASSUME NEW A \in trainingQueue, Cardinality(A) > 1
               PROVE  \E u \in teamIds' : A \subseteq memberIds[u]
    BY <1>1 DEF AgentInv, TrainingQueueAgrees, agentVars
  <2>1. PICK u \in teamIds : A \subseteq memberIds[u]
    BY DEF AgentInv, TrainingQueueAgrees
  <2>2. A # {}
    BY FS_EmptySet
  <2> QED
    BY <1>1, <2>1, <2>2
<1> QED
  BY <1>5, <1>6 DEF AgentInv

\* A training starts with agents none of whose teams is in the field.
LEMMA QueuedAgents ==
    ASSUME AgentInv, FieldInv', NEW A \in SUBSET Agents, QueueTraining(A)
    PROVE  AgentInv'
<1>1. assignedTeamIds' = assignedTeamIds /\ teamCase' = teamCase
  BY NormalizeKeeps, PointersKept DEF QueueTraining, AgentInv, FieldInv, OperationInv
<1>2. /\ \A a \in A : /\ agentStatus[a] = "active"
                      /\ assignment[a] # "training" /\ a \notin UNION trainingQueue
                      /\ \A t \in HomeTeams(a) : teamCase[t] = NoCase
      /\ trainingQueue' = trainingQueue \cup {A}
      /\ \A a \in Agents :
            /\ assignment'[a] = IF a \in A THEN "training" ELSE assignment[a]
            /\ agentCase'[a] = IF a \in A THEN NoCase ELSE agentCase[a]
      /\ UNCHANGED <<teamIds, memberIds, agentStatus, benched>>
  BY DEF QueueTraining
<1>3. DeployedAgentsAgree' /\ BenchedStayHome'
  BY <1>1, <1>2, benched \subseteq Agents
     DEF AgentInv, DeployedAgentsAgree, BenchedStayHome, FieldInv, OperationInv, CaseInv,
         TypeOK, AgentTypes
<1>4. NoTrainingInTheField'
  BY <1>1, <1>2 DEF AgentInv, NoTrainingInTheField, HomeTeams
<1>5. TrainingQueueAgrees'
  <2>1. UNION trainingQueue' = {a \in Agents : assignment'[a] = "training"}
    BY <1>2 DEF AgentInv, TrainingQueueAgrees
  <2>2. \A B, C \in trainingQueue' : B # C => B \cap C = {}
    BY <1>2 DEF AgentInv, TrainingQueueAgrees
  <2>3. Cardinality(A) > 1 => \E t \in teamIds : A \subseteq memberIds[t]
    BY DEF QueueTraining
  <2>4. \A B \in trainingQueue' :
            Cardinality(B) > 1 => \E t \in teamIds' : B \subseteq memberIds'[t]
    BY <1>2, <2>3 DEF AgentInv, TrainingQueueAgrees
  <2> QED
    BY <2>1, <2>2, <2>4 DEF TrainingQueueAgrees
<1> QED
  BY <1>3, <1>4, <1>5 DEF AgentInv

\* The trainees of a training that ends were at home.
LEMMA EndedAgents ==
    ASSUME AgentInv, FieldInv', NEW Q \in SUBSET trainingQueue, EndTraining(Q)
    PROVE  AgentInv'
<1>1. assignedTeamIds' = assignedTeamIds /\ teamCase' = teamCase
  BY NormalizeKeeps, PointersKept DEF EndTraining, AgentInv, FieldInv, OperationInv
<1>2. /\ trainingQueue' = trainingQueue \ Q
      /\ \A a \in Agents : assignment'[a] = IF a \in UNION Q THEN "idle" ELSE assignment[a]
      /\ UNCHANGED <<teamIds, memberIds, agentStatus, agentCase, benched>>
  BY DEF EndTraining
<1>3. \A a \in UNION Q : assignment[a] = "training"
  BY DEF AgentInv, TrainingQueueAgrees
<1>4. DeployedAgentsAgree' /\ NoTrainingInTheField'
  BY <1>1, <1>2, <1>3 DEF AgentInv, DeployedAgentsAgree, NoTrainingInTheField
<1>5. BenchedStayHome'
  BY <1>2 DEF AgentInv, BenchedStayHome, FieldInv, OperationInv, CaseInv, TypeOK, AgentTypes
<1>6. TrainingQueueAgrees'
  <2>1. \A B, C \in trainingQueue : B # C => B \cap C = {}
    BY DEF AgentInv, TrainingQueueAgrees
  <2>2. UNION (trainingQueue \ Q) = (UNION trainingQueue) \ (UNION Q)
    <3>1. ASSUME NEW B \in trainingQueue \ Q, NEW a \in B PROVE a \notin UNION Q
      BY <2>1, <3>1
    <3>2. ASSUME NEW B \in trainingQueue, NEW a \in B, a \notin UNION Q
          PROVE  a \in UNION (trainingQueue \ Q)
      <4>1. B \in trainingQueue \ Q
        BY <3>2
      <4> QED
        BY <4>1, Zenon
    <3> QED
      BY <3>1, <3>2
  <2>3. UNION trainingQueue' = {a \in Agents : assignment'[a] = "training"}
    BY <1>2, <2>2 DEF AgentInv, TrainingQueueAgrees
  <2> QED
    BY <1>2, <2>1, <2>3 DEF AgentInv, TrainingQueueAgrees
<1> QED
  BY <1>4, <1>5, <1>6 DEF AgentInv

-----------------------------------------------------------------------------
(* Agents in a week.                                                       *)

\* Benchings run out and injuries heal; neither sends anybody to the field.
LEMMA PreparedAgents ==
    ASSUME AgentInv, FieldInv', PrepareAgents
    PROVE  AgentInv'
<1> DEFINE Rested(X) == [a \in Agents |-> IF a \in X /\ agentStatus[a] = "recovering"
                                          THEN "active" ELSE agentStatus[a]]
           Resting == {a \in Agents : assignment[a] = "recovery"}
<1>0. PICK expired \in SUBSET benched, others \in SUBSET (Agents \ benched) :
          \E healed \in SUBSET {a \in Resting : Rested(expired \cup others)[a] = "recovering"} :
          /\ agentStatus' = [a \in Agents |->
                               IF a \in healed THEN "active"
                               ELSE IF a \in Resting /\ Rested(expired \cup others)[a] = "injured"
                               THEN "recovering" ELSE Rested(expired \cup others)[a]]
          /\ assignment' = [a \in Agents |-> IF a \in healed THEN "idle" ELSE assignment[a]]
          /\ benched' = benched \ expired
  BY Zenon DEF PrepareAgents
<1>1. PICK healed \in SUBSET {a \in Resting : Rested(expired \cup others)[a] = "recovering"} :
          /\ agentStatus' = [a \in Agents |->
                               IF a \in healed THEN "active"
                               ELSE IF a \in Resting /\ Rested(expired \cup others)[a] = "injured"
                               THEN "recovering" ELSE Rested(expired \cup others)[a]]
          /\ assignment' = [a \in Agents |-> IF a \in healed THEN "idle" ELSE assignment[a]]
          /\ benched' = benched \ expired
  BY <1>0
<1>2. UNCHANGED <<assignedTeamIds, teamCase, teamIds, memberIds, agentCase, trainingQueue>>
  BY DEF PrepareAgents, caseVars, teamVars
<1>3. DeployedAgentsAgree'
  BY <1>1, <1>2 DEF AgentInv, DeployedAgentsAgree
<1>4. \A a \in Agents : assignment'[a] = "training" <=> assignment[a] = "training"
  BY <1>1
<1>5. NoTrainingInTheField' /\ TrainingQueueAgrees'
  BY <1>2, <1>4 DEF AgentInv, NoTrainingInTheField, TrainingQueueAgrees
<1>6. BenchedStayHome'
  BY <1>1 DEF AgentInv, BenchedStayHome, FieldInv, OperationInv, CaseInv, TypeOK, AgentTypes
<1> QED
  BY <1>3, <1>5, <1>6 DEF AgentInv

\* A rotation sends one agent for another, and neither is in training.
LEMMA RotatedAgents ==
    ASSUME AgentInv, FieldInv', NEW t \in Teams, NEW out \in Agents, NEW in \in Agents,
           RotateFieldBase(t, out, in)
    PROVE  AgentInv'
<1> DEFINE c == cursor
           onCase == assignment[out] = "assigned" /\ agentCase[out] = c
<1>1. /\ c \in Live /\ assignedTeamIds[c] = {t} /\ t \in teamIds
      /\ out \in memberIds[t] /\ in # out
      /\ assignment[out] # "training"
      /\ agentStatus[in] = "active" /\ assignment[in] # "training"
      /\ \A u \in HomeTeams(in) : u # t /\ teamCase[u] = NoCase
      /\ Normalize(assignedTeamIds, teamCase, teamIds)
      /\ UNCHANGED <<teamIds, agentStatus, benched, trainingQueue>>
  BY DEF RotateFieldBase, Visiting
<1>2. assignedTeamIds' = assignedTeamIds /\ teamCase' = teamCase
  BY <1>1, NormalizeKeeps, PointersKept DEF AgentInv, FieldInv, OperationInv
<1>3. \A a \in Agents :
          /\ assignment'[a] = IF a = in THEN "assigned"
                              ELSE IF a = out /\ onCase THEN "idle" ELSE assignment[a]
          /\ agentCase'[a] = IF a = in THEN c
                             ELSE IF a = out /\ onCase THEN NoCase ELSE agentCase[a]
  BY <1>1 DEF RotateFieldBase, AgentInv, FieldInv, OperationInv, CaseInv, TypeOK, AgentTypes
<1>4. /\ in \in memberIds'[t]
      /\ \A u \in Teams, a \in Agents :
            a # in /\ a # out => (a \in memberIds'[u] <=> a \in memberIds[u])
  BY <1>1 DEF RotateFieldBase
<1>5. c \in Cases /\ NoCase \notin Cases /\ teamIds \subseteq Teams /\ teamCase[t] = c
  BY <1>1, LiveCases, ConstantsAssumption
     DEF NoCase, Cases, AgentInv, FieldInv, OperationInv, CaseInv, TypeOK, TeamTypes,
         TeamCaseAgreement
<1>6. assignment[out] = "assigned" => onCase
  <2> SUFFICES ASSUME assignment[out] = "assigned" PROVE agentCase[out] = c
    OBVIOUS
  <2>1. PICK u \in teamIds : /\ out \in memberIds[u]
                             /\ agentCase[out] # NoCase
                             /\ u \in assignedTeamIds[agentCase[out]]
    BY DEF AgentInv, DeployedAgentsAgree
  <2>2. u = t
    BY <1>1, <1>5, <2>1 DEF AgentInv, FieldInv, OneTeamPerAgent
  <2>3. agentCase[out] \in Cases
    BY <2>1 DEF AgentInv, FieldInv, OperationInv, CaseInv, TypeOK, AgentTypes
  <2> QED
    BY <1>5, <2>1, <2>2, <2>3
       DEF AgentInv, FieldInv, OperationInv, CaseInv, TeamCaseAgreement
<1>7. DeployedAgentsAgree'
  <2> SUFFICES ASSUME NEW a \in Agents
               PROVE  /\ assignment'[a] = "assigned" =>
                            /\ agentStatus[a] = "active"
                            /\ \E u \in teamIds : /\ a \in memberIds'[u]
                                                  /\ agentCase'[a] # NoCase
                                                  /\ u \in assignedTeamIds[agentCase'[a]]
                      /\ assignment'[a] # "assigned" => agentCase'[a] = NoCase
    BY <1>1, <1>2 DEF DeployedAgentsAgree
  <2>1. CASE a = in
    BY <1>1, <1>3, <1>4, <1>5, <2>1
  <2>2. CASE a = out
    BY <1>1, <1>3, <1>6, <2>2 DEF AgentInv, DeployedAgentsAgree
  <2>3. CASE a # in /\ a # out
    BY <1>3, <1>4, <1>5, <2>3 DEF AgentInv, DeployedAgentsAgree
  <2> QED
    BY <2>1, <2>2, <2>3
<1>8. \A a \in Agents : /\ assignment'[a] = "training" <=> assignment[a] = "training"
                        /\ assignment[a] = "training" => a # in /\ a # out
  BY <1>1, <1>3
<1>9. NoTrainingInTheField'
  BY <1>1, <1>2, <1>4, <1>5, <1>8 DEF AgentInv, NoTrainingInTheField
<1>10. TrainingQueueAgrees'
  <2>1. \A A \in trainingQueue : A \subseteq Agents /\ in \notin A /\ out \notin A
    BY <1>8 DEF AgentInv, TrainingQueueAgrees
  <2>2. \A A \in trainingQueue, u \in teamIds : A \subseteq memberIds[u] => A \subseteq memberIds'[u]
    BY <1>4, <1>5, <2>1
  <2>3. UNION trainingQueue = {a \in Agents : assignment'[a] = "training"}
    BY <1>8 DEF AgentInv, TrainingQueueAgrees
  <2> QED
    BY <1>1, <2>2, <2>3 DEF AgentInv, TrainingQueueAgrees
<1>11. BenchedStayHome'
  BY <1>1, <1>3 DEF AgentInv, BenchedStayHome, FieldInv, OperationInv, CaseInv, TypeOK, AgentTypes
<1> QED
  BY <1>7, <1>9, <1>10, <1>11 DEF AgentInv

\* The crew that comes home has no trainee, and its benched members stay unfit.
LEMMA ResolvedAgents ==
    ASSUME AgentInv, FieldInv', NEW result \in Results, NEW degraded \in BOOLEAN,
           ResolveOperation(result, degraded)
    PROVE  AgentInv'
<1> DEFINE c == cursor
           crew == Crew(assignedTeamIds[c])
<1>1. c \in Live /\ c \in Cases /\ Existing(c) = assignedTeamIds[c]
  BY LiveCases, NothingDangling
     DEF ResolveOperation, Visiting, AgentInv, FieldInv, OperationInv, CaseInv
<1>2. /\ MissionAgents(crew, result)
      /\ teamCase' = [t \in Teams |-> IF t \in assignedTeamIds[c] THEN NoCase ELSE teamCase[t]]
      /\ assignedTeamIds' = [assignedTeamIds EXCEPT ![c] = {}]
      /\ UNCHANGED <<teamIds, memberIds, trainingQueue>>
  BY <1>1 DEF ResolveOperation
<1>3. PICK hurt, killed, newlyBenched, quitting \in SUBSET crew :
          LET status == [a \in Agents |-> IF a \in killed THEN "dead"
                                          ELSE IF a \in hurt THEN "injured"
                                          ELSE agentStatus[a]]
          IN  /\ hurt \cap killed = {}
              /\ result # "fail" => hurt \cup killed \cup newlyBenched \cup quitting = {}
              /\ \A a \in hurt \cup killed : agentStatus[a] = "active"
              /\ \A a \in newlyBenched \cup quitting : status[a] \notin {"dead", "resigned"}
              /\ newlyBenched \cup quitting # {} => Cardinality(crew) > 1
              /\ newlyBenched \cap benched = {} /\ quitting \subseteq benched \cup newlyBenched
              /\ agentStatus' = [a \in Agents |->
                                   IF a \in quitting THEN "resigned"
                                   ELSE IF a \in newlyBenched /\ status[a] = "active"
                                   THEN "recovering" ELSE status[a]]
              /\ assignment' = [a \in Agents |->
                                  IF a \in hurt \ newlyBenched THEN "recovery"
                                  ELSE IF a \in crew THEN "idle" ELSE assignment[a]]
              /\ agentCase' = [a \in Agents |-> IF a \in crew THEN NoCase ELSE agentCase[a]]
              /\ benched' = benched \cup newlyBenched
  <2> HIDE DEF crew
  <2>1. MissionAgents(crew, result)
    BY <1>2
  <2> QED
    BY <2>1, Zenon DEF MissionAgents
<1>4. \A d \in Cases : d # c => assignedTeamIds'[d] = assignedTeamIds[d]
  BY <1>1, <1>2 DEF AgentInv, FieldInv, OperationInv, CaseInv, TypeOK, CaseTypes
<1>5. DeployedAgentsAgree'
  <2> SUFFICES ASSUME NEW a \in Agents
               PROVE  /\ assignment'[a] = "assigned" =>
                            /\ agentStatus'[a] = "active"
                            /\ \E t \in teamIds : /\ a \in memberIds[t]
                                                  /\ agentCase'[a] # NoCase
                                                  /\ t \in assignedTeamIds'[agentCase'[a]]
                      /\ assignment'[a] # "assigned" => agentCase'[a] = NoCase
    BY <1>2 DEF DeployedAgentsAgree
  <2>1. CASE a \in crew
    BY <1>3, <2>1
  <2>2. CASE a \notin crew /\ assignment[a] = "assigned"
    <3>1. PICK t \in teamIds : /\ a \in memberIds[t]
                               /\ agentCase[a] # NoCase
                               /\ t \in assignedTeamIds[agentCase[a]]
      BY <2>2 DEF AgentInv, DeployedAgentsAgree
    <3>2. agentCase[a] \in Cases /\ agentCase[a] # c
      BY <2>2, <3>1 DEF AgentInv, FieldInv, OperationInv, CaseInv, TypeOK, AgentTypes, Crew
    <3>3. agentStatus'[a] = agentStatus[a] /\ agentCase'[a] = agentCase[a]
      BY <1>3, <2>2
    <3>4. agentStatus[a] = "active"
      BY <2>2 DEF AgentInv, DeployedAgentsAgree
    <3> QED
      BY <1>3, <1>4, <2>2, <3>1, <3>2, <3>3, <3>4
  <2>3. CASE a \notin crew /\ assignment[a] # "assigned"
    BY <1>3, <2>3 DEF AgentInv, DeployedAgentsAgree
  <2> QED
    BY <2>1, <2>2, <2>3
<1>6. ASSUME NEW a \in crew PROVE assignment[a] # "training"
  <2>1. PICK t \in assignedTeamIds[c] : a \in memberIds[t]
    BY <1>6 DEF Crew
  <2>2. t \in teamIds /\ t \in Teams /\ teamCase[t] = c /\ c # NoCase
    BY <1>1, <2>1, ConstantsAssumption
       DEF AgentInv, FieldInv, OperationInv, CaseInv, TypeOK, TeamTypes, TeamCaseAgreement,
           NoCase, Cases
  <2>3. a \in Agents
    BY <2>1, <2>2 DEF AgentInv, FieldInv, OperationInv, CaseInv, TypeOK, TeamTypes
  <2> QED
    BY <2>1, <2>2, <2>3 DEF AgentInv, NoTrainingInTheField
<1>7. \A a \in Agents : assignment'[a] = "training" <=> assignment[a] = "training"
  BY <1>3, <1>6
<1>8. NoTrainingInTheField'
  BY <1>2, <1>7 DEF AgentInv, NoTrainingInTheField, FieldInv, OperationInv, CaseInv, TypeOK, TeamTypes
<1>9. TrainingQueueAgrees'
  BY <1>2, <1>7 DEF AgentInv, TrainingQueueAgrees
<1>10. BenchedStayHome'
  <2> SUFFICES ASSUME NEW a \in benched' PROVE assignment'[a] = "idle" /\ agentStatus'[a] # "active"
    BY DEF BenchedStayHome
  <2>1. a \in Agents
    BY DEF AgentInv, FieldInv, OperationInv, CaseInv, TypeOK, AgentTypes
  <2>2. CASE a \in newlyBenched
    BY <1>3, <2>1, <2>2
  <2>3. CASE a \in benched /\ a \notin newlyBenched
    <3>1. assignment[a] = "idle" /\ agentStatus[a] # "active" /\ a \notin hurt \cup killed
      BY <1>3, <2>3 DEF AgentInv, BenchedStayHome
    <3> QED
      BY <1>3, <2>1, <2>3, <3>1
  <2> QED
    BY <1>3, <2>2, <2>3
<1> QED
  BY <1>5, <1>8, <1>9, <1>10 DEF AgentInv

\* No step sets the agents against the teams.
LEMMA AgentStep == AgentInv /\ [Next]_vars => AgentInv'
<1> SUFFICES ASSUME AgentInv, [Next]_vars PROVE AgentInv'
  OBVIOUS
<1>1. FieldInv'
  BY FieldStep DEF AgentInv
<1>2. CASE Command
  <2>1. ASSUME NEW A \in trainingQueue, CancelTraining(A) PROVE AgentInv'
    <3>1. EndTraining({A}) /\ {A} \in SUBSET trainingQueue
      BY <2>1 DEF CancelTraining
    <3> QED
      BY <1>1, <3>1, EndedAgents
  <2> QED
    BY <1>1, <1>2, <2>1, AssignTeamAgents, LaunchAgents, UnassignAgents, MovedAgents,
       DeletedAgents, QueuedAgents DEF Command
<1>3. CASE BeginWeek
  BY <1>1, <1>3, AgentsKept DEF BeginWeek, caseVars, teamVars
<1>4. CASE AdvanceEndedCampaign
  <2>1. assignedTeamIds' = assignedTeamIds
    BY <1>4, NormalizeKeeps DEF AdvanceEndedCampaign, AgentInv, FieldInv, OperationInv
  <2> QED
    BY <1>1, <1>4, <2>1, AgentsKept DEF AdvanceEndedCampaign
<1>5. CASE Week
  <2>1. CASE SkipRotation
    BY <1>1, <2>1, AgentsKept DEF SkipRotation, caseVars, teamVars
  <2>2. CASE SkipResolve \/ ContinueOperation \/ SkipEscalation
    <3>1. cursor \in Cases
      BY <2>2, Visited
         DEF SkipResolve, ContinueOperation, SkipEscalation, AgentInv, FieldInv, OperationInv, CaseInv
    <3>2. assignedTeamIds' = assignedTeamIds
      BY <2>2, <3>1, NothingDangling
         DEF SkipResolve, ContinueOperation, SkipEscalation, AgentInv, FieldInv, OperationInv,
             CaseInv, TypeOK, CaseTypes
    <3> QED
      BY <1>1, <2>2, <3>2, AgentsKept DEF SkipResolve, ContinueOperation, SkipEscalation, teamVars
  <2>3. CASE Friction
    <3>1. CASE overloaded /\ bucket["resolved"] # {}
      <4>1. FirstSuccess \in Cases /\ assignedTeamIds[FirstSuccess] = {}
        BY <3>1, FirstSuccessRecorded
           DEF AgentInv, FieldInv, OperationInv, CaseInv, SuccessRecorded, ClosedEmpty, TypeOK,
               WeekTypes, Buckets
      <4>2. assignedTeamIds' = [assignedTeamIds EXCEPT ![FirstSuccess] = {}]
        BY <2>3, <3>1 DEF Friction
      <4>3. assignedTeamIds' = assignedTeamIds
        BY <4>1, <4>2 DEF AgentInv, FieldInv, OperationInv, CaseInv, TypeOK, CaseTypes
      <4> QED
        BY <1>1, <2>3, <4>3, AgentsKept DEF Friction, teamVars
    <3>2. CASE ~(overloaded /\ bucket["resolved"] # {})
      BY <1>1, <2>3, <3>2, AgentsKept DEF Friction, teamVars
    <3> QED
      BY <3>1, <3>2
  <2>4. CASE \/ \E pressed \in BOOLEAN : CountDown(pressed) \/ EscalateCase(pressed)
             \/ SpawnFollowUps \/ SpawnPressureIncidents
    BY <1>1, <2>4, AgentsKept
       DEF CountDown, EscalateCase, SpawnFollowUps, SpawnPressureIncidents, teamVars
  <2>5. CASE CloseWeek
    BY <1>1, <2>5, EndedAgents DEF CloseWeek
  <2> QED
    BY <1>1, <1>5, <2>1, <2>2, <2>3, <2>4, <2>5, PreparedAgents, RotatedAgents, ResolvedAgents
       DEF Week
<1>6. CASE UNCHANGED vars
  BY <1>1, <1>6, AgentsKept DEF vars, caseVars, teamVars
<1> QED
  BY <1>2, <1>3, <1>4, <1>5, <1>6 DEF Next

LEMMA AgentInvariant == Spec => []AgentInv
<1>1. Init /\ CaseInv => AgentInv
  <2> SUFFICES ASSUME Init, CaseInv PROVE AgentInv
    OBVIOUS
  <2>1. FieldInv
    BY ConstantsAssumption
       DEF Init, FieldInv, OneTeamPerAgent, OperationInv, OperationRecord, BlankUntilSpawned,
           Live, Cases
  <2>2. DeployedAgentsAgree /\ NoTrainingInTheField /\ BenchedStayHome
    BY DEF Init, DeployedAgentsAgree, NoTrainingInTheField, BenchedStayHome
  <2>3. TrainingQueueAgrees
    BY DEF Init, TrainingQueueAgrees
  <2> QED
    BY <2>1, <2>2, <2>3 DEF AgentInv
<1>2. AgentInv /\ [Next]_vars => AgentInv'
  BY AgentStep
<1> QED
  BY <1>1, <1>2, CaseInvariant, PTL DEF Spec

\* No order of commands, rotations, casualties and trainings leaves an agent
\* assigned to a case that no team of theirs works, or assigned and unfit.
THEOREM DutiesAgree == Spec => []DeployedAgentsAgree
<1>1. AgentInv => DeployedAgentsAgree
  BY DEF AgentInv
<1> QED
  BY <1>1, AgentInvariant, PTL

\* Training is entered per agent and deployment per team, and yet nobody is in
\* training on a team that is in the field.
THEOREM TraineesAtHome == Spec => []NoTrainingInTheField
<1>1. AgentInv => NoTrainingInTheField
  BY DEF AgentInv
<1> QED
  BY <1>1, AgentInvariant, PTL

\* The queue of trainings and the assignments of the agents say the same after
\* every handler, and a drill stays together on one team.
THEOREM QueueAgrees == Spec => []TrainingQueueAgrees
<1>1. AgentInv => TrainingQueueAgrees
  BY DEF AgentInv
<1> QED
  BY <1>1, AgentInvariant, PTL

\* An agent benched for a betrayal stays idle and unfit until the benching runs
\* out, whatever becomes of the team.
THEOREM BenchedAtHome == Spec => []BenchedStayHome
<1>1. AgentInv => BenchedStayHome
  BY DEF AgentInv
<1> QED
  BY <1>1, AgentInvariant, PTL

-----------------------------------------------------------------------------
(* Crews.  That some agent works a case is not inductive: a raid recalls its *)
(* teams one by one, so every team on the case has to have somebody sent.    *)

TeamsStaffed ==
    \A c \in Cases \ majorIncident : \A t \in assignedTeamIds[c] :
        \E a \in memberIds[t] : assignment[a] = "assigned" /\ agentCase[a] = c

StaffInv == AgentInv /\ TeamsStaffed

\* Whoever is on a team that works a case is an agent of an existing team.
LEMMA CrewMembers ==
    ASSUME AgentInv, NEW c \in Cases, NEW t \in assignedTeamIds[c]
    PROVE  /\ t \in teamIds /\ t \in Teams /\ memberIds[t] \subseteq Agents
           /\ teamCase[t] = c /\ c # NoCase
BY ConstantsAssumption
   DEF AgentInv, FieldInv, OperationInv, CaseInv, TypeOK, TeamTypes, TeamCaseAgreement, NoCase, Cases

\* A handler that takes nobody from the field.
LEMMA StaffKept ==
    ASSUME StaffInv, AgentInv', assignedTeamIds' = assignedTeamIds,
           majorIncident \subseteq majorIncident',
           \A t \in Teams, a \in Agents :
               a \in memberIds[t] /\ assignment[a] = "assigned"
                   => /\ a \in memberIds'[t]
                      /\ assignment'[a] = "assigned" /\ agentCase'[a] = agentCase[a]
    PROVE  StaffInv'
BY CrewMembers DEF StaffInv, TeamsStaffed

\* An order staffs the teams it sends and leaves the other crews where they are.
LEMMA OrderStaff ==
    ASSUME StaffInv, AgentInv', NEW c \in Cases, NEW S \in SUBSET Teams,
           NEW R \in SUBSET Teams, NEW T,
           T \subseteq S, R \cap S = {}, S \ T \subseteq assignedTeamIds[c],
           \A t \in T : teamCase[t] \in {NoCase, c},
           c \in majorIncident' \/ \A t \in T : \E a \in memberIds[t] : IsSent(a, T),
           AssignAgents(ReleaseAgents(R, c), T, c),
           assignedTeamIds'[c] = S,
           \A d \in Cases : d # c => assignedTeamIds'[d] = assignedTeamIds[d],
           majorIncident \subseteq majorIncident', memberIds' = memberIds
    PROVE  StaffInv'
<1>1. ASSUME NEW a \in Agents
      PROVE  /\ assignment'[a] = IF IsSent(a, T) THEN "assigned"
                                 ELSE IF IsFreed(a, R, c) THEN "idle" ELSE assignment[a]
             /\ agentCase'[a] = IF IsSent(a, T) THEN c
                                ELSE IF IsFreed(a, R, c) THEN NoCase ELSE agentCase[a]
  BY <1>1, SentAndFreed DEF StaffInv, AgentInv, FieldInv, OperationInv, CaseInv
<1>2. \A t, u \in Teams : t # u => memberIds[t] \cap memberIds[u] = {}
  BY DEF StaffInv, AgentInv, FieldInv, OneTeamPerAgent
<1>3. ASSUME NEW d \in Cases, d \notin majorIncident', NEW t \in assignedTeamIds'[d]
      PROVE  \E a \in memberIds[t] : assignment'[a] = "assigned" /\ agentCase'[a] = d
  <2>1. CASE d = c /\ t \in T
    <3>1. PICK a \in memberIds[t] : IsSent(a, T)
      BY <1>3, <2>1
    <3>2. a \in Agents
      BY <2>1, <3>1 DEF StaffInv, AgentInv, FieldInv, OperationInv, CaseInv, TypeOK, TeamTypes
    <3> QED
      BY <1>1, <2>1, <3>1, <3>2
  <2>2. CASE d = c /\ t \notin T
    <3>1. t \in assignedTeamIds[c] /\ t \notin R /\ t \in Teams
      BY <1>3, <2>2
    <3>2. PICK a \in memberIds[t] : assignment[a] = "assigned" /\ agentCase[a] = c
      BY <1>3, <2>2, <3>1 DEF StaffInv, TeamsStaffed
    <3>3. a \in Agents /\ ~IsFreed(a, R, c)
      BY <1>2, <3>1, <3>2, CrewMembers DEF IsFreed, Crew, StaffInv
    <3> QED
      BY <1>1, <2>2, <3>2, <3>3
  <2>3. CASE d # c
    <3>1. t \in assignedTeamIds[d]
      BY <1>3, <2>3
    <3>2. PICK a \in memberIds[t] : assignment[a] = "assigned" /\ agentCase[a] = d
      BY <1>3, <3>1 DEF StaffInv, TeamsStaffed
    <3>3. t \in Teams /\ a \in Agents /\ teamCase[t] = d /\ d # NoCase
      BY <3>1, <3>2, CrewMembers DEF StaffInv
    <3>4. ~IsSent(a, T) /\ ~IsFreed(a, R, c)
      BY <1>2, <2>3, <3>2, <3>3 DEF IsSent, IsFreed, Crew
    <3> QED
      BY <1>1, <3>2, <3>3, <3>4
  <2> QED
    BY <2>1, <2>2, <2>3
<1> QED
  BY <1>3 DEF StaffInv, TeamsStaffed

\* A team that is sent has a fit member, and that member goes.
LEMMA AssignTeamStaff ==
    ASSUME StaffInv, AgentInv', NEW c \in Cases, NEW t \in Teams, AssignTeam(c, t)
    PROVE  StaffInv'
<1> DEFINE S == IF caseKind[c] = "raid" THEN Existing(c) \cup {t} ELSE {t}
           R == IF caseKind[c] = "raid" THEN {} ELSE Existing(c) \ {t}
           T == IF t \notin Existing(c) \/ teamCase[t] # c THEN {t} ELSE {}
<1>1. S \in SUBSET teamIds /\ S \in SUBSET Teams /\ R \in SUBSET Teams
  BY DEF AssignTeam, Existing, StaffInv, AgentInv, FieldInv, OperationInv, CaseInv, TypeOK,
         TeamTypes
<1>2. PICK P : Normalize([assignedTeamIds EXCEPT ![c] = S], P, teamIds)
  BY DEF AssignTeam
<1>3. /\ assignedTeamIds'[c] = S
      /\ \A d \in Cases : d # c => assignedTeamIds'[d] = assignedTeamIds[d]
  <2> HIDE DEF S
  <2> QED
    BY <1>1, <1>2, CommandLists DEF StaffInv, AgentInv, FieldInv, OperationInv
<1>4. /\ T \subseteq {t} /\ T \subseteq S /\ R \cap S = {}
      /\ S \ T \subseteq assignedTeamIds[c]
  BY DEF Existing
<1>5. /\ AssignAgents(ReleaseAgents(R, c), T, c)
      /\ Available(t, c) /\ Valid({t})
      /\ UNCHANGED <<majorIncident, memberIds>>
  BY DEF AssignTeam
<1>6. ASSUME NEW u \in T PROVE \E a \in memberIds[u] : IsSent(a, T)
  <2>1. u = t /\ T = {t}
    BY <1>4
  <2>2. PICK a \in Crew({t}) : Fit(a)
    BY <1>5 DEF Valid
  <2> QED
    BY <2>1, <2>2 DEF Crew, Fit, IsSent
<1>7. \A u \in T : teamCase[u] \in {NoCase, c}
  BY <1>4, <1>5 DEF Available
<1> HIDE DEF S, R, T
<1> QED
  BY <1>1, <1>3, <1>4, <1>5, <1>6, <1>7, OrderStaff

\* A launch makes the case a major incident, about whose crews nothing is said.
LEMMA LaunchStaff ==
    ASSUME StaffInv, AgentInv', NEW c \in Cases, NEW T \in SUBSET Teams,
           LaunchMajorIncident(c, T)
    PROVE  StaffInv'
<1> DEFINE R == Existing(c) \ T
           N == T \ Existing(c)
<1>1. T \in SUBSET teamIds /\ R \in SUBSET Teams
  BY DEF LaunchMajorIncident, Existing, StaffInv, AgentInv, FieldInv, OperationInv, CaseInv,
         TypeOK, TeamTypes
<1>2. PICK P : Normalize([assignedTeamIds EXCEPT ![c] = T], P, teamIds)
  BY DEF LaunchMajorIncident
<1>3. /\ assignedTeamIds'[c] = T
      /\ \A d \in Cases : d # c => assignedTeamIds'[d] = assignedTeamIds[d]
  BY <1>1, <1>2, CommandLists DEF StaffInv, AgentInv, FieldInv, OperationInv
<1>4. /\ N \subseteq T /\ R \cap T = {} /\ T \ N \subseteq assignedTeamIds[c]
      /\ c \in majorIncident' /\ majorIncident \subseteq majorIncident'
  BY DEF Existing, LaunchMajorIncident
<1>5. /\ AssignAgents(ReleaseAgents(R, c), N, c)
      /\ \A t \in N : teamCase[t] \in {NoCase, c}
      /\ memberIds' = memberIds
  BY DEF LaunchMajorIncident, Available
<1> HIDE DEF R, N
<1> QED
  BY <1>1, <1>3, <1>4, <1>5, OrderStaff

\* A recall leaves the teams that stay with their crews.
LEMMA UnassignStaff ==
    ASSUME StaffInv, AgentInv', NEW c \in Cases, NEW T \in SUBSET Teams, UnassignTeam(c, T)
    PROVE  StaffInv'
<1> DEFINE S == Existing(c) \ T
<1>1. S \in SUBSET teamIds /\ S \in SUBSET Teams
  BY DEF Existing, StaffInv, AgentInv, FieldInv, OperationInv, CaseInv, TypeOK, TeamTypes
<1>2. PICK P : Normalize([assignedTeamIds EXCEPT ![c] = S], P, teamIds)
  BY DEF UnassignTeam
<1>3. /\ assignedTeamIds'[c] = S
      /\ \A d \in Cases : d # c => assignedTeamIds'[d] = assignedTeamIds[d]
  <2> HIDE DEF S
  <2> QED
    BY <1>1, <1>2, CommandLists DEF StaffInv, AgentInv, FieldInv, OperationInv
<1>4. {} \subseteq S /\ T \cap S = {} /\ S \ {} \subseteq assignedTeamIds[c]
  BY DEF Existing
<1>5. AssignAgents(ReleaseAgents(T, c), {}, c)
  BY DEF UnassignTeam, AssignAgents, ReleaseAgents, Crew
<1>6. UNCHANGED <<majorIncident, memberIds>>
  BY DEF UnassignTeam
<1> HIDE DEF S
<1> QED
  BY <1>1, <1>3, <1>4, <1>5, <1>6, OrderStaff

\* The one who comes in for another works the case in their place.
LEMMA RotatedStaff ==
    ASSUME StaffInv, AgentInv', NEW t \in Teams, NEW out \in Agents, NEW in \in Agents,
           RotateFieldBase(t, out, in)
    PROVE  StaffInv'
<1> DEFINE c == cursor
           onCase == assignment[out] = "assigned" /\ agentCase[out] = c
<1>1. /\ c \in Live /\ c \in Cases /\ assignedTeamIds[c] = {t} /\ t \in teamIds
      /\ out \in memberIds[t] /\ in # out
      /\ \A u \in HomeTeams(in) : u # t /\ teamCase[u] = NoCase
      /\ Normalize(assignedTeamIds, teamCase, teamIds)
      /\ UNCHANGED <<teamIds, majorIncident>>
  BY LiveCases DEF RotateFieldBase, Visiting, StaffInv, AgentInv, FieldInv, OperationInv, CaseInv
<1>2. assignedTeamIds' = assignedTeamIds
  BY <1>1, NormalizeKeeps DEF StaffInv, AgentInv, FieldInv, OperationInv
<1>3. \A a \in Agents :
          /\ assignment'[a] = IF a = in THEN "assigned"
                              ELSE IF a = out /\ onCase THEN "idle" ELSE assignment[a]
          /\ agentCase'[a] = IF a = in THEN c
                             ELSE IF a = out /\ onCase THEN NoCase ELSE agentCase[a]
  BY <1>1 DEF RotateFieldBase, StaffInv, AgentInv, FieldInv, OperationInv, CaseInv, TypeOK,
              AgentTypes
<1>4. /\ in \in memberIds'[t]
      /\ \A u \in Teams, a \in Agents :
            a # in /\ a # out => (a \in memberIds'[u] <=> a \in memberIds[u])
  BY <1>1 DEF RotateFieldBase
<1>5. \A u, v \in Teams : u # v => memberIds[u] \cap memberIds[v] = {}
  BY DEF StaffInv, AgentInv, FieldInv, OneTeamPerAgent
<1>6. ASSUME NEW d \in Cases, d \notin majorIncident, NEW u \in assignedTeamIds[d]
      PROVE  \E a \in memberIds'[u] : assignment'[a] = "assigned" /\ agentCase'[a] = d
  <2>1. u \in Teams /\ u \in teamIds /\ memberIds[u] \subseteq Agents /\ teamCase[u] = d /\ d # NoCase
    BY <1>6, CrewMembers DEF StaffInv
  <2>2. teamCase[t] = c
    BY <1>1, CrewMembers DEF StaffInv
  <2>3. CASE u = t
    BY <1>3, <1>4, <2>1, <2>2, <2>3
  <2>4. CASE u # t
    <3>1. PICK a \in memberIds[u] : assignment[a] = "assigned" /\ agentCase[a] = d
      BY <1>6 DEF StaffInv, TeamsStaffed
    <3>2. a # out
      BY <1>1, <1>5, <2>1, <2>4, <3>1
    <3>3. a # in
      BY <1>1, <2>1, <3>1 DEF HomeTeams
    <3> QED
      BY <1>3, <1>4, <2>1, <3>1, <3>2, <3>3
  <2> QED
    BY <2>3, <2>4
<1> QED
  BY <1>1, <1>2, <1>6 DEF StaffInv, TeamsStaffed

\* The crew that comes home leaves its own case, and shares nobody with another.
LEMMA ResolvedStaff ==
    ASSUME StaffInv, AgentInv', NEW result \in Results, NEW degraded \in BOOLEAN,
           ResolveOperation(result, degraded)
    PROVE  StaffInv'
<1> DEFINE c == cursor
           crew == Crew(assignedTeamIds[c])
<1>1. c \in Live /\ c \in Cases /\ Existing(c) = assignedTeamIds[c]
  BY LiveCases, NothingDangling
     DEF ResolveOperation, Visiting, StaffInv, AgentInv, FieldInv, OperationInv, CaseInv
<1>2. /\ MissionAgents(crew, result)
      /\ assignedTeamIds' = [assignedTeamIds EXCEPT ![c] = {}]
      /\ UNCHANGED <<memberIds, majorIncident>>
  BY <1>1 DEF ResolveOperation
<1>3. \A a \in Agents \ crew : assignment'[a] = assignment[a] /\ agentCase'[a] = agentCase[a]
  <2> HIDE DEF crew
  <2> QED
    BY <1>2 DEF MissionAgents
<1>4. \A d \in Cases : assignedTeamIds'[d] = IF d = c THEN {} ELSE assignedTeamIds[d]
  BY <1>1, <1>2 DEF StaffInv, AgentInv, FieldInv, OperationInv, CaseInv, TypeOK, CaseTypes
<1>5. ASSUME NEW d \in Cases, d \notin majorIncident, NEW u \in assignedTeamIds'[d]
      PROVE  \E a \in memberIds[u] : assignment'[a] = "assigned" /\ agentCase'[a] = d
  <2>1. d # c /\ u \in assignedTeamIds[d]
    BY <1>4, <1>5
  <2>2. u \in Teams /\ memberIds[u] \subseteq Agents /\ teamCase[u] = d
    BY <2>1, CrewMembers DEF StaffInv
  <2>3. PICK a \in memberIds[u] : assignment[a] = "assigned" /\ agentCase[a] = d
    BY <1>5, <2>1 DEF StaffInv, TeamsStaffed
  <2>4. a \notin crew
    <3> SUFFICES ASSUME NEW v \in assignedTeamIds[c], a \in memberIds[v] PROVE FALSE
      BY DEF Crew
    <3>1. v \in Teams /\ teamCase[v] = c
      BY <1>1, CrewMembers DEF StaffInv
    <3> QED
      BY <2>1, <2>2, <2>3, <3>1 DEF StaffInv, AgentInv, FieldInv, OneTeamPerAgent
  <2> QED
    BY <1>3, <2>2, <2>3, <2>4
<1> QED
  BY <1>2, <1>5 DEF StaffInv, TeamsStaffed

\* Trainings that end concern nobody in the field.
LEMMA StaffAfterTraining ==
    ASSUME StaffInv, AgentInv', NEW Q \in SUBSET trainingQueue, EndTraining(Q)
    PROVE  StaffInv'
<1>1. assignedTeamIds' = assignedTeamIds
  BY NormalizeKeeps DEF EndTraining, StaffInv, AgentInv, FieldInv, OperationInv
<1>2. \A a \in UNION Q : assignment[a] = "training"
  BY DEF StaffInv, AgentInv, TrainingQueueAgrees
<1>3. \A t \in Teams : memberIds[t] \subseteq Agents
  BY DEF StaffInv, AgentInv, FieldInv, OperationInv, CaseInv, TypeOK, TeamTypes
<1> QED
  BY <1>1, <1>2, <1>3, StaffKept DEF EndTraining

\* Nobody who works a case is moved, trained or benched away from it.
LEMMA CommandStaff ==
    ASSUME StaffInv, AgentInv', Command
    PROVE  StaffInv'
<1>1. ASSUME NEW a \in Agents, NEW t \in Teams \cup {NoTeam}, MoveAgent(a, t)
      PROVE  StaffInv'
  <2>1. assignedTeamIds' = assignedTeamIds
    BY <1>1, NormalizeKeeps DEF MoveAgent, StaffInv, AgentInv, FieldInv, OperationInv
  <2>2. assignment[a] # "assigned"
    BY <1>1, EditableAtHome DEF MoveAgent, Movable, StaffInv
  <2> QED
    BY <1>1, <2>1, <2>2, StaffKept DEF MoveAgent, Relocated, agentVars
<1>2. ASSUME NEW t \in Teams, NEW a \in Agents, CreateTeam(t, a)
      PROVE  StaffInv'
  <2>1. /\ assignedTeamIds' = [c \in Cases |-> assignedTeamIds[c] \cap teamIds']
        /\ teamIds' = teamIds \cup {t}
    BY <1>2 DEF CreateTeam, Normalize, NormalAssignments
  <2>2. assignedTeamIds' = assignedTeamIds
    BY <2>1 DEF StaffInv, AgentInv, FieldInv, OperationInv, CaseInv, TeamCaseAgreement, TypeOK,
                CaseTypes
  <2>3. assignment[a] # "assigned"
    BY <1>2, EditableAtHome DEF CreateTeam, Movable, StaffInv
  <2> QED
    BY <1>2, <2>2, <2>3, StaffKept DEF CreateTeam, Relocated, agentVars
<1>3. ASSUME NEW t \in Teams, DeleteEmptyTeam(t)
      PROVE  StaffInv'
  <2>1. /\ assignedTeamIds' = [c \in Cases |-> assignedTeamIds[c] \cap teamIds']
        /\ teamIds' = teamIds \ {t} /\ teamCase[t] \notin Live
    BY <1>3 DEF DeleteEmptyTeam, Normalize, NormalAssignments, Editable
  <2>2. \A c \in Cases : assignedTeamIds[c] \subseteq teamIds'
    BY <2>1 DEF StaffInv, AgentInv, FieldInv, OperationInv, CaseInv, TeamCaseAgreement,
                BlankUntilSpawned
  <2>3. assignedTeamIds' = assignedTeamIds
    BY <2>1, <2>2 DEF StaffInv, AgentInv, FieldInv, OperationInv, CaseInv, TypeOK, CaseTypes
  <2> QED
    BY <1>3, <2>3, StaffKept DEF DeleteEmptyTeam, agentVars
<1>4. ASSUME NEW A \in SUBSET Agents, QueueTraining(A)
      PROVE  StaffInv'
  <2>1. assignedTeamIds' = assignedTeamIds
    BY <1>4, NormalizeKeeps DEF QueueTraining, StaffInv, AgentInv, FieldInv, OperationInv
  <2>2. ASSUME NEW a \in A PROVE assignment[a] # "assigned"
    <3> SUFFICES ASSUME assignment[a] = "assigned" PROVE FALSE
      OBVIOUS
    <3>1. PICK t \in teamIds : /\ a \in memberIds[t]
                               /\ agentCase[a] # NoCase
                               /\ t \in assignedTeamIds[agentCase[a]]
      BY DEF StaffInv, AgentInv, DeployedAgentsAgree
    <3>2. agentCase[a] \in Cases
      BY <3>1 DEF StaffInv, AgentInv, FieldInv, OperationInv, CaseInv, TypeOK, AgentTypes
    <3>3. teamCase[t] # NoCase
      BY <3>1, <3>2, CrewMembers DEF StaffInv
    <3> QED
      BY <1>4, <3>1, <3>3 DEF QueueTraining, HomeTeams
  <2>3. \A t \in Teams : memberIds[t] \subseteq Agents
    BY DEF StaffInv, AgentInv, FieldInv, OperationInv, CaseInv, TypeOK, TeamTypes
  <2> QED
    BY <1>4, <2>1, <2>2, <2>3, StaffKept DEF QueueTraining
<1>5. ASSUME NEW A \in trainingQueue, CancelTraining(A)
      PROVE  StaffInv'
  <2>1. EndTraining({A})
    BY <1>5 DEF CancelTraining
  <2> QED
    BY <2>1, StaffAfterTraining
<1> QED
  BY <1>1, <1>2, <1>3, <1>4, <1>5, AssignTeamStaff, LaunchStaff, UnassignStaff DEF Command

\* No step takes the last agent of a team from the field.
LEMMA StaffStep == StaffInv /\ [Next]_vars => StaffInv'
<1> SUFFICES ASSUME StaffInv, [Next]_vars PROVE StaffInv'
  OBVIOUS
<1>1. AgentInv'
  BY AgentStep DEF StaffInv
<1>2. \A t \in Teams : memberIds[t] \subseteq Agents
  BY DEF StaffInv, AgentInv, FieldInv, OperationInv, CaseInv, TypeOK, TeamTypes
<1>3. ASSUME UNCHANGED <<assignedTeamIds, majorIncident, memberIds, assignment, agentCase>>
      PROVE  StaffInv'
  BY <1>1, <1>3, StaffKept
<1>4. CASE BeginWeek
  BY <1>3, <1>4 DEF BeginWeek, caseVars, teamVars, agentVars
<1>5. CASE AdvanceEndedCampaign
  <2>1. assignedTeamIds' = assignedTeamIds
    BY <1>5, NormalizeKeeps DEF AdvanceEndedCampaign, StaffInv, AgentInv, FieldInv, OperationInv
  <2> QED
    BY <1>3, <1>5, <2>1 DEF AdvanceEndedCampaign, agentVars
<1>6. CASE Week
  <2>1. CASE PrepareAgents
    <3>1. \A a \in Agents : assignment[a] = "assigned" => assignment'[a] = "assigned"
      BY <2>1 DEF PrepareAgents
    <3> QED
      BY <1>1, <1>2, <2>1, <3>1, StaffKept DEF PrepareAgents, caseVars, teamVars
  <2>2. CASE SkipRotation
    BY <1>3, <2>2 DEF SkipRotation, caseVars, teamVars, agentVars
  <2>3. CASE SkipResolve \/ ContinueOperation \/ SkipEscalation
    <3>1. cursor \in Cases
      BY <2>3, Visited
         DEF SkipResolve, ContinueOperation, SkipEscalation, StaffInv, AgentInv, FieldInv,
             OperationInv, CaseInv
    <3>2. assignedTeamIds' = assignedTeamIds
      BY <2>3, <3>1, NothingDangling
         DEF SkipResolve, ContinueOperation, SkipEscalation, StaffInv, AgentInv, FieldInv,
             OperationInv, CaseInv, TypeOK, CaseTypes
    <3> QED
      BY <1>3, <2>3, <3>2 DEF SkipResolve, ContinueOperation, SkipEscalation, teamVars, agentVars
  <2>4. CASE Friction
    <3>1. CASE overloaded /\ bucket["resolved"] # {}
      <4>1. FirstSuccess \in Cases /\ assignedTeamIds[FirstSuccess] = {}
        BY <3>1, FirstSuccessRecorded
           DEF StaffInv, AgentInv, FieldInv, OperationInv, CaseInv, SuccessRecorded, ClosedEmpty,
               TypeOK, WeekTypes, Buckets
      <4>2. assignedTeamIds' = [assignedTeamIds EXCEPT ![FirstSuccess] = {}]
        BY <2>4, <3>1 DEF Friction
      <4>3. assignedTeamIds' = assignedTeamIds
        BY <4>1, <4>2
           DEF StaffInv, AgentInv, FieldInv, OperationInv, CaseInv, TypeOK, CaseTypes
      <4> QED
        BY <1>3, <2>4, <4>3 DEF Friction, teamVars, agentVars
    <3>2. CASE ~(overloaded /\ bucket["resolved"] # {})
      BY <1>3, <2>4, <3>2 DEF Friction, teamVars, agentVars
    <3> QED
      BY <3>1, <3>2
  <2>5. CASE \/ \E pressed \in BOOLEAN : CountDown(pressed) \/ EscalateCase(pressed)
             \/ SpawnFollowUps \/ SpawnPressureIncidents
    BY <1>3, <2>5
       DEF CountDown, EscalateCase, SpawnFollowUps, SpawnPressureIncidents, teamVars, agentVars
  <2>6. CASE CloseWeek
    BY <1>1, <2>6, StaffAfterTraining DEF CloseWeek
  <2> QED
    BY <1>1, <1>6, <2>1, <2>2, <2>3, <2>4, <2>5, <2>6, RotatedStaff, ResolvedStaff DEF Week
<1>7. CASE UNCHANGED vars
  BY <1>3, <1>7 DEF vars, caseVars, teamVars, agentVars
<1> QED
  BY <1>1, <1>4, <1>5, <1>6, <1>7, CommandStaff DEF Next

\* An ordinary operation that is under way always has somebody assigned to it.
THEOREM OperationsStaffed == Spec => []OperationStaffed
<1>1. Init /\ AgentInv => StaffInv
  BY DEF Init, StaffInv, TeamsStaffed
<1>2. StaffInv /\ [Next]_vars => StaffInv'
  BY StaffStep
<1>3. StaffInv => OperationStaffed
  <2> SUFFICES ASSUME StaffInv, NEW c \in Live, c \notin majorIncident,
                      caseStatus[c] = "in_progress"
               PROVE  \E a \in Crew(assignedTeamIds[c]) :
                          assignment[a] = "assigned" /\ agentCase[a] = c
    BY DEF OperationStaffed
  <2>1. c \in Cases
    BY LiveCases DEF StaffInv, AgentInv, FieldInv, OperationInv, CaseInv
  <2>2. PICK t \in assignedTeamIds[c] : TRUE
    BY DEF StaffInv, AgentInv, FieldInv, OperationInv, OperationRecord
  <2>3. PICK a \in memberIds[t] : assignment[a] = "assigned" /\ agentCase[a] = c
    BY <2>1, <2>2 DEF StaffInv, TeamsStaffed
  <2> QED
    BY <2>2, <2>3 DEF Crew
<1> QED
  BY <1>1, <1>2, <1>3, AgentInvariant, PTL DEF Spec

-----------------------------------------------------------------------------
(* Committed teams.                                                        *)

\* How many teams one case may hold, and when it holds them all.
CommittedOf(c) ==
    /\ c \in majorIncident /\ caseStatus[c] = "in_progress"
          => Cardinality(assignedTeamIds[c]) = MajorTeams
    /\ Cardinality(assignedTeamIds[c]) <= MaxTeams(c)
    /\ Operational(c) /\ caseStatus[c] = "in_progress" => c \in majorIncident

CommitInv == OperationInv /\ CommittedTeams

\* A case without teams keeps within every limit.
LEMMA NothingCommitted ==
    ASSUME NEW c, assignedTeamIds[c] = {}, caseStatus[c] # "in_progress"
    PROVE  CommittedOf(c)
<1>1. Cardinality(assignedTeamIds[c]) = 0
  BY FS_EmptySet
<1>2. 0 <= MaxTeams(c)
  BY ConstantsAssumption DEF MaxTeams
<1> QED
  BY <1>1, <1>2 DEF CommittedOf

\* A handler that leaves what a commitment rests on.
LEMMA CommitmentsKept ==
    ASSUME CommitInv, OperationInv',
           UNCHANGED <<assignedTeamIds, caseCount, caseStatus, caseKind, stage, majorIncident>>
    PROVE  CommitInv'
BY DEF CommitInv, CommittedTeams, Live, MaxTeams, Operational

\* A handler that rewrites one case of the register, and rewrites it well.
LEMMA OneCommitmentChanged ==
    ASSUME CommitInv, OperationInv', NEW c \in Live, caseCount' = caseCount,
           CommittedOf(c)',
           \A d \in Live : d # c => /\ assignedTeamIds'[d] = assignedTeamIds[d]
                                    /\ caseStatus'[d] = caseStatus[d]
                                    /\ caseKind'[d] = caseKind[d]
                                    /\ stage'[d] = stage[d]
                                    /\ d \in majorIncident' <=> d \in majorIncident
    PROVE  CommitInv'
<1>1. Live' = Live
  BY DEF Live
<1>2. ASSUME NEW d \in Live, d # c PROVE CommittedOf(d)'
  BY <1>2 DEF CommitInv, CommittedTeams, CommittedOf, MaxTeams, Operational
<1> QED
  BY <1>1, <1>2 DEF CommitInv, CommittedTeams, CommittedOf

\* A case that lost its teams has nothing to keep to.
LEMMA EmptiedCommitment ==
    ASSUME CommitInv, OperationInv', NEW c \in Live, caseCount' = caseCount,
           assignedTeamIds'[c] = {}, caseStatus'[c] # "in_progress",
           majorIncident' = majorIncident,
           \A d \in Live : d # c => /\ assignedTeamIds'[d] = assignedTeamIds[d]
                                    /\ caseStatus'[d] = caseStatus[d]
                                    /\ caseKind'[d] = caseKind[d]
                                    /\ stage'[d] = stage[d]
    PROVE  CommitInv'
<1>1. Cardinality(assignedTeamIds'[c]) = 0
  BY FS_EmptySet
<1>2. 0 <= MaxTeams(c)'
  BY ConstantsAssumption DEF MaxTeams
<1>3. CommittedOf(c)'
  BY <1>1, <1>2 DEF CommittedOf
<1> QED
  BY <1>3, OneCommitmentChanged

\* The teams a case lists can be counted.
LEMMA CountableTeams ==
    ASSUME TypeOK, NEW c \in Cases
    PROVE  IsFiniteSet(assignedTeamIds[c]) /\ Cardinality(assignedTeamIds[c]) \in Nat
<1>1. assignedTeamIds[c] \subseteq Teams
  BY DEF TypeOK, CaseTypes
<1>2. IsFiniteSet(assignedTeamIds[c])
  BY <1>1, RosterAssumption, FS_Subset
<1> QED
  BY <1>2, FS_CardinalityType

\* A raid takes a team only while it has room, another case just the one.
LEMMA AssignTeamCommitment ==
    ASSUME CommitInv, OperationInv', NEW c \in Cases, NEW t \in Teams, AssignTeam(c, t)
    PROVE  CommitInv'
<1> DEFINE S == IF caseKind[c] = "raid" THEN Existing(c) \cup {t} ELSE {t}
<1>1. S \in SUBSET teamIds /\ S \in SUBSET Teams
  BY DEF AssignTeam, Existing, CommitInv, OperationInv, CaseInv, TypeOK, TeamTypes
<1>2. PICK P : Normalize([assignedTeamIds EXCEPT ![c] = S], P, teamIds)
  BY DEF AssignTeam
<1>3. /\ assignedTeamIds'[c] = S
      /\ \A d \in Cases : d # c => assignedTeamIds'[d] = assignedTeamIds[d]
  <2> HIDE DEF S
  <2> QED
    BY <1>1, <1>2, CommandLists DEF CommitInv, OperationInv
<1>4. /\ c \in Live /\ Live \subseteq Cases
      /\ ~Operational(c)
      /\ caseKind[c] = "raid" => Cardinality(Existing(c)) < MaxTeams(c) \/ t \in Existing(c)
      /\ caseStatus' = [caseStatus EXCEPT ![c] = "in_progress"]
      /\ UNCHANGED <<caseCount, caseKind, stage, majorIncident>>
  BY LiveCases DEF AssignTeam, CommitInv, OperationInv, CaseInv
<1>5. /\ Existing(c) = assignedTeamIds[c]
      /\ IsFiniteSet(assignedTeamIds[c]) /\ Cardinality(assignedTeamIds[c]) \in Nat
      /\ Cardinality(assignedTeamIds[c]) <= MaxTeams(c)
  BY <1>4, NothingDangling, CountableTeams DEF CommitInv, CommittedTeams, OperationInv, CaseInv
<1>6. c \notin majorIncident /\ ~Operational(c)' /\ MaxTeams(c)' = MaxTeams(c)
  BY <1>4 DEF Operational, MaxTeams
<1>7. Cardinality(S) <= MaxTeams(c)
  <2>1. CASE caseKind[c] # "raid"
    <3>1. S = {t} /\ MaxTeams(c) = 1
      BY <1>6, <2>1 DEF MaxTeams
    <3> QED
      BY <3>1, FS_Singleton
  <2>2. CASE caseKind[c] = "raid" /\ t \in Existing(c)
    <3>1. S = assignedTeamIds[c]
      BY <1>5, <2>2
    <3> QED
      BY <1>5, <3>1
  <2>3. CASE caseKind[c] = "raid" /\ t \notin Existing(c)
    <3>1. S = assignedTeamIds[c] \cup {t} /\ t \notin assignedTeamIds[c]
      BY <1>5, <2>3
    <3>2. Cardinality(S) = Cardinality(assignedTeamIds[c]) + 1
      BY <1>5, <3>1, FS_AddElement
    <3>3. MaxTeams(c) \in Nat
      BY ConstantsAssumption DEF MaxTeams
    <3> QED
      BY <1>4, <1>5, <2>3, <3>2, <3>3
  <2> QED
    BY <2>1, <2>2, <2>3
<1>8. CommittedOf(c)'
  BY <1>3, <1>4, <1>6, <1>7 DEF CommittedOf
<1>9. \A d \in Live : d # c => caseStatus'[d] = caseStatus[d]
  BY <1>4
<1> HIDE DEF S
<1> QED
  BY <1>3, <1>4, <1>8, <1>9, OneCommitmentChanged

\* A launch takes exactly the teams the incident requires.
LEMMA LaunchCommitment ==
    ASSUME CommitInv, OperationInv', NEW c \in Cases, NEW T \in SUBSET Teams,
           LaunchMajorIncident(c, T)
    PROVE  CommitInv'
<1>1. T \subseteq teamIds /\ Cardinality(T) = MajorTeams
  BY DEF LaunchMajorIncident
<1>2. PICK P : Normalize([assignedTeamIds EXCEPT ![c] = T], P, teamIds)
  BY DEF LaunchMajorIncident
<1>3. /\ assignedTeamIds'[c] = T
      /\ \A d \in Cases : d # c => assignedTeamIds'[d] = assignedTeamIds[d]
  BY <1>1, <1>2, CommandLists DEF CommitInv, OperationInv
<1>4. /\ c \in Live /\ Live \subseteq Cases
      /\ caseStatus' = [caseStatus EXCEPT ![c] = "in_progress"]
      /\ majorIncident' = majorIncident \cup {c}
      /\ UNCHANGED <<caseCount, caseKind, stage>>
  BY LiveCases DEF LaunchMajorIncident, CommitInv, OperationInv, CaseInv
<1>5. CommittedOf(c)'
  BY <1>1, <1>3, <1>4, ConstantsAssumption DEF CommittedOf, MaxTeams
<1>6. \A d \in Live : d # c => caseStatus'[d] = caseStatus[d]
  BY <1>4
<1> QED
  BY <1>3, <1>4, <1>5, <1>6, OneCommitmentChanged

\* Teams are recalled only from a case that is not committed, and while it is
\* under way such a case is not operational.
LEMMA UnassignCommitment ==
    ASSUME CommitInv, OperationInv', NEW c \in Cases, NEW T \in SUBSET Teams,
           UnassignTeam(c, T)
    PROVE  CommitInv'
<1> DEFINE S == Existing(c) \ T
<1>1. S \in SUBSET teamIds /\ S \in SUBSET Teams /\ S \subseteq assignedTeamIds[c]
  BY DEF Existing, CommitInv, OperationInv, CaseInv, TypeOK, TeamTypes
<1>2. PICK P : Normalize([assignedTeamIds EXCEPT ![c] = S], P, teamIds)
  BY DEF UnassignTeam
<1>3. /\ assignedTeamIds'[c] = S
      /\ \A d \in Cases : d # c => assignedTeamIds'[d] = assignedTeamIds[d]
  <2> HIDE DEF S
  <2> QED
    BY <1>1, <1>2, CommandLists DEF CommitInv, OperationInv
<1>4. /\ c \in Live /\ Live \subseteq Cases
      /\ ~Committed(c) /\ assignedTeamIds[c] # {}
      /\ UNCHANGED <<caseCount, caseKind, stage, majorIncident>>
      /\ \A d \in Live : d # c => caseStatus'[d] = caseStatus[d]
  BY LiveCases DEF UnassignTeam, CommitInv, OperationInv, CaseInv
<1>5. c \notin majorIncident /\ ~Operational(c)
  BY <1>4 DEF Committed, CommitInv, CommittedTeams, OperationInv, OperationRecord
<1>6. Cardinality(S) <= Cardinality(assignedTeamIds[c])
  BY <1>1, FS_Subset, CountableTeams DEF CommitInv, OperationInv, CaseInv
<1>7. Cardinality(S) \in Nat
  BY <1>1, FS_Subset, FS_CardinalityType, CountableTeams DEF CommitInv, OperationInv, CaseInv
<1>8. Cardinality(assignedTeamIds[c]) \in Nat /\ Cardinality(assignedTeamIds[c]) <= MaxTeams(c)
  BY <1>4, CountableTeams DEF CommitInv, CommittedTeams, OperationInv, CaseInv
<1>9. ~Operational(c)' /\ MaxTeams(c)' = MaxTeams(c) /\ MaxTeams(c) \in Nat
  BY <1>4, <1>5, ConstantsAssumption DEF Operational, MaxTeams
<1> HIDE DEF S
<1>10. CommittedOf(c)'
  BY <1>3, <1>4, <1>5, <1>6, <1>7, <1>8, <1>9 DEF CommittedOf
<1> QED
  BY <1>3, <1>4, <1>10, OneCommitmentChanged

\* A new case is open and has no teams, raid or not.
LEMMA SpawnCommitments ==
    ASSUME CommitInv, OperationInv', NEW n \in Nat, NEW R, NEW s, Spawn(n, R, s),
           UNCHANGED <<assignedTeamIds, majorIncident>>
    PROVE  CommitInv'
<1>1. /\ caseCount \in Nat /\ caseCount' = caseCount + n /\ caseCount' <= MaxCases
      /\ MaxCases \in Nat
      /\ R \subseteq caseCount + 1 .. caseCount + n
      /\ \A c \in Cases :
            /\ caseStatus'[c] = IF c \in caseCount + 1 .. caseCount + n THEN "open"
                                ELSE caseStatus[c]
            /\ caseKind'[c] = IF c \in R THEN "raid" ELSE caseKind[c]
            /\ stage'[c] = IF c \in caseCount + 1 .. caseCount + n THEN s ELSE stage[c]
  BY ConstantsAssumption DEF Spawn, CommitInv, OperationInv, CaseInv, TypeOK, CaseTypes, Cases
<1>2. \A c \in Live' : c \in Live \/ (c \in caseCount + 1 .. caseCount + n /\ c \in Cases \ Live)
  BY <1>1 DEF Live, Cases
<1>3. \A c \in Live : c \in Cases /\ c \notin caseCount + 1 .. caseCount + n
  BY <1>1 DEF Live, Cases
<1>4. ASSUME NEW c \in Live' PROVE CommittedOf(c)'
  <2>1. CASE c \in Live
    <3>1. CommittedOf(c)
      BY <2>1 DEF CommitInv, CommittedTeams, CommittedOf
    <3>2. /\ caseStatus'[c] = caseStatus[c] /\ caseKind'[c] = caseKind[c]
          /\ stage'[c] = stage[c]
      BY <1>1, <1>3, <2>1
    <3> QED
      BY <3>1, <3>2 DEF CommittedOf, MaxTeams, Operational
  <2>2. CASE c \in caseCount + 1 .. caseCount + n /\ c \in Cases \ Live
    <3>1. assignedTeamIds'[c] = {} /\ caseStatus'[c] = "open"
      BY <1>1, <2>2 DEF CommitInv, OperationInv, BlankUntilSpawned
    <3>2. Cardinality(assignedTeamIds'[c]) = 0
      BY <3>1, FS_EmptySet
    <3>3. 0 <= MaxTeams(c)'
      BY ConstantsAssumption DEF MaxTeams
    <3> QED
      BY <3>1, <3>2, <3>3 DEF CommittedOf
  <2> QED
    BY <1>2, <2>1, <2>2
<1> QED
  BY <1>4 DEF CommitInv, CommittedTeams, CommittedOf

\* No step takes a team from a committed case or gives a case one too many.
LEMMA CommitStep == CommitInv /\ [Next]_vars => CommitInv'
<1> SUFFICES ASSUME CommitInv, [Next]_vars PROVE CommitInv'
  OBVIOUS
<1>1. OperationInv'
  BY OperationStep DEF CommitInv
<1>2. ASSUME Normalize(assignedTeamIds, teamCase, teamIds),
             UNCHANGED <<teamIds, caseCount, caseStatus, caseKind, stage, majorIncident>>
      PROVE  CommitInv'
  BY <1>1, <1>2, NormalizeKeeps, CommitmentsKept DEF CommitInv, OperationInv
<1>3. CASE Command
  <2>1. ASSUME NEW a \in Agents, NEW t \in Teams \cup {NoTeam}, MoveAgent(a, t)
        PROVE  CommitInv'
    BY <1>2, <2>1 DEF MoveAgent
  <2>2. ASSUME NEW A, QueueTraining(A) \/ CancelTraining(A)
        PROVE  CommitInv'
    BY <1>2, <2>2 DEF QueueTraining, CancelTraining, EndTraining
  <2>3. ASSUME NEW t \in Teams, NEW a \in Agents, CreateTeam(t, a)
        PROVE  CommitInv'
    <3>1. /\ assignedTeamIds' = [c \in Cases |-> assignedTeamIds[c] \cap teamIds']
          /\ teamIds' = teamIds \cup {t}
      BY <2>3 DEF CreateTeam, Normalize, NormalAssignments
    <3>2. assignedTeamIds' = assignedTeamIds
      BY <3>1 DEF CommitInv, OperationInv, CaseInv, TeamCaseAgreement, TypeOK, CaseTypes
    <3> QED
      BY <1>1, <2>3, <3>2, CommitmentsKept DEF CreateTeam
  <2>4. ASSUME NEW t \in Teams, DeleteEmptyTeam(t)
        PROVE  CommitInv'
    <3>1. /\ assignedTeamIds' = [c \in Cases |-> assignedTeamIds[c] \cap teamIds']
          /\ teamIds' = teamIds \ {t} /\ teamCase[t] \notin Live
      BY <2>4 DEF DeleteEmptyTeam, Normalize, NormalAssignments, Editable
    <3>2. \A c \in Cases : assignedTeamIds[c] \subseteq teamIds'
      BY <3>1 DEF CommitInv, OperationInv, CaseInv, TeamCaseAgreement, BlankUntilSpawned
    <3>3. assignedTeamIds' = assignedTeamIds
      BY <3>1, <3>2 DEF CommitInv, OperationInv, CaseInv, TypeOK, CaseTypes
    <3> QED
      BY <1>1, <2>4, <3>3, CommitmentsKept DEF DeleteEmptyTeam
  <2> QED
    BY <1>1, <1>3, <2>1, <2>2, <2>3, <2>4, AssignTeamCommitment, LaunchCommitment,
       UnassignCommitment DEF Command
<1>4. CASE BeginWeek \/ AdvanceEndedCampaign
  BY <1>1, <1>2, <1>4, CommitmentsKept DEF BeginWeek, AdvanceEndedCampaign, caseVars
<1>5. CASE Week
  <2>0. Live \subseteq Cases
    BY LiveCases DEF CommitInv, OperationInv, CaseInv
  <2>1. CASE PrepareAgents \/ SkipRotation
    BY <1>1, <2>1, CommitmentsKept DEF PrepareAgents, SkipRotation, caseVars
  <2>2. ASSUME NEW t \in Teams, NEW out \in Agents, NEW in \in Agents,
               RotateFieldBase(t, out, in)
        PROVE  CommitInv'
    BY <1>2, <2>2 DEF RotateFieldBase
  <2>3. CASE SkipResolve \/ ContinueOperation \/ SkipEscalation
    <3>1. cursor \in Cases
      BY <2>3, Visited
         DEF SkipResolve, ContinueOperation, SkipEscalation, CommitInv, OperationInv, CaseInv
    <3>2. assignedTeamIds' = assignedTeamIds
      BY <2>3, <3>1, NothingDangling
         DEF SkipResolve, ContinueOperation, SkipEscalation, CommitInv, OperationInv, CaseInv,
             TypeOK, CaseTypes
    <3> QED
      BY <1>1, <2>3, <3>2, CommitmentsKept DEF SkipResolve, ContinueOperation, SkipEscalation
  <2>4. ASSUME NEW result \in Results, NEW degraded \in BOOLEAN,
               ResolveOperation(result, degraded)
        PROVE  CommitInv'
    <3>1. PICK c \in Live : c = cursor
      BY <2>4 DEF ResolveOperation, Visiting
    <3>2. PICK closed \in BOOLEAN :
              /\ assignedTeamIds' = [assignedTeamIds EXCEPT ![c] = {}]
              /\ caseStatus' = [caseStatus EXCEPT ![c] = IF closed THEN "resolved" ELSE "open"]
              /\ stage' = [stage EXCEPT ![c] = IF closed THEN @ ELSE Raised(@)]
              /\ UNCHANGED <<caseCount, caseKind, majorIncident>>
      <4>1. (result = "success" /\ ~ degraded) \in BOOLEAN
        OBVIOUS
      <4> QED
        BY <2>4, <3>1, <4>1 DEF ResolveOperation
    <3>3. /\ assignedTeamIds'[c] = {} /\ caseStatus'[c] # "in_progress"
          /\ \A d \in Live : d # c => /\ assignedTeamIds'[d] = assignedTeamIds[d]
                                      /\ caseStatus'[d] = caseStatus[d]
                                      /\ caseKind'[d] = caseKind[d]
                                      /\ stage'[d] = stage[d]
      BY <2>0, <3>1, <3>2 DEF CommitInv, OperationInv, CaseInv, TypeOK, CaseTypes
    <3> QED
      BY <1>1, <3>2, <3>3, EmptiedCommitment
  <2>5. CASE Friction
    <3>1. CASE overloaded /\ bucket["resolved"] # {}
      <4>1. FirstSuccess \in Cases /\ caseStatus[FirstSuccess] = "resolved"
        BY <3>1, FirstSuccessRecorded
           DEF CommitInv, OperationInv, CaseInv, SuccessRecorded, TypeOK, WeekTypes, Buckets
      <4>2. PICK c \in Live : c = FirstSuccess
        BY <4>1 DEF CommitInv, OperationInv, CaseInv, UnspawnedUntouched
      <4>3. /\ assignedTeamIds' = [assignedTeamIds EXCEPT ![c] = {}]
            /\ caseStatus' = [caseStatus EXCEPT ![c] = "open"]
            /\ stage' = [stage EXCEPT ![c] = Raised(@)]
            /\ UNCHANGED <<caseCount, caseKind, majorIncident>>
        BY <2>5, <3>1, <4>2 DEF Friction
      <4>4. /\ assignedTeamIds'[c] = {} /\ caseStatus'[c] = "open"
            /\ \A d \in Live : d # c => /\ assignedTeamIds'[d] = assignedTeamIds[d]
                                        /\ caseStatus'[d] = caseStatus[d]
                                        /\ caseKind'[d] = caseKind[d]
                                        /\ stage'[d] = stage[d]
        BY <2>0, <4>2, <4>3 DEF CommitInv, OperationInv, CaseInv, TypeOK, CaseTypes
      <4> QED
        BY <1>1, <4>3, <4>4, EmptiedCommitment
    <3>2. CASE ~(overloaded /\ bucket["resolved"] # {})
      BY <1>1, <2>5, <3>2, CommitmentsKept DEF Friction
    <3> QED
      BY <3>1, <3>2
  <2>6. CASE \E pressed \in BOOLEAN : CountDown(pressed)
    BY <1>1, <2>6, CommitmentsKept DEF CountDown
  <2>7. ASSUME NEW pressed \in BOOLEAN, EscalateCase(pressed)
        PROVE  CommitInv'
    <3>1. PICK c \in Live : c = cursor
      BY <2>7 DEF EscalateCase, Visiting
    <3>2. caseStatus[c] = "open" /\ assignedTeamIds[c] = {}
      BY <2>0, <2>7, <3>1, NothingDangling
         DEF EscalateCase, Unattended, CommitInv, OperationInv, CaseInv
    <3>3. PICK s, k : /\ stage' = [stage EXCEPT ![c] = s]
                      /\ caseKind' = [caseKind EXCEPT ![c] = k]
      BY <2>7, <3>1 DEF EscalateCase
    <3>4. UNCHANGED <<caseCount, caseStatus, assignedTeamIds, majorIncident>>
      BY <2>7 DEF EscalateCase
    <3>5. \A d \in Live : d # c => caseKind'[d] = caseKind[d] /\ stage'[d] = stage[d]
      BY <2>0, <3>3 DEF CommitInv, OperationInv, CaseInv, TypeOK, CaseTypes
    <3> QED
      BY <1>1, <3>2, <3>4, <3>5, EmptiedCommitment
  <2>8. CASE SpawnFollowUps
    <3>1. PICK n \in Nat, R \in SUBSET Cases : Spawn(n, R, OpeningStage)
      BY <2>8, FollowUpSpawn DEF CommitInv, OperationInv, CaseInv
    <3> QED
      BY <1>1, <2>8, <3>1, SpawnCommitments DEF SpawnFollowUps
  <2>9. CASE SpawnPressureIncidents
    <3>1. PICK n \in 0 .. MaxSpawn, s \in {OpeningStage, PressureStage} :
              Spawn(n, caseCount + 1 .. caseCount + n, s)
      BY <2>9 DEF SpawnPressureIncidents
    <3>2. n \in Nat
      BY ConstantsAssumption
    <3> QED
      BY <1>1, <2>9, <3>1, <3>2, SpawnCommitments DEF SpawnPressureIncidents
  <2>10. CASE CloseWeek
    BY <1>2, <2>10 DEF CloseWeek, EndTraining
  <2> QED
    BY <1>5, <2>1, <2>2, <2>3, <2>4, <2>5, <2>6, <2>7, <2>8, <2>9, <2>10 DEF Week
<1>6. CASE UNCHANGED vars
  BY <1>1, <1>6, CommitmentsKept DEF vars, caseVars
<1> QED
  BY <1>3, <1>4, <1>5, <1>6 DEF Next

\* A launched major incident keeps exactly the teams it requires until it
\* resolves, and no case ever holds more teams than its kind allows.
THEOREM TeamsCommitted == Spec => []CommittedTeams
<1>1. Init /\ OperationInv => CommitInv
  <2> SUFFICES ASSUME Init, OperationInv, NEW c \in Live PROVE CommittedOf(c)
    BY DEF CommitInv, CommittedTeams, CommittedOf
  <2>1. c \in Cases /\ caseStatus[c] # "in_progress" /\ assignedTeamIds[c] = {}
    BY LiveCases DEF Init, OperationInv, CaseInv
  <2> QED
    BY <2>1, NothingCommitted
<1>2. CommitInv /\ [Next]_vars => CommitInv'
  BY CommitStep
<1>3. CommitInv => CommittedTeams
  BY DEF CommitInv
<1> QED
  BY <1>1, <1>2, <1>3, OperationInvariant, PTL DEF Spec

-----------------------------------------------------------------------------
(* The cap on cases.  A success taken back counts again, so until the        *)
(* friction pass is over the successes of the week count as well: together   *)
(* they were under the cap when the week began, or it would not have begun.  *)

Held == Unresolved \cup bucket["resolved"]

BeforeFriction == \/ phase = "command" /\ ~gameOver
                  \/ phase \in {"prepare", "rotate", "resolve", "friction"}

UnderCap == BeforeFriction => Cardinality(Held) <= MaxActiveCases

CapInv == CaseInv /\ UnderCap

\* Cases can be counted.
LEMMA CountableCases ==
    ASSUME NEW S, S \subseteq Cases
    PROVE  /\ IsFiniteSet(S) /\ Cardinality(S) \in Nat
           /\ \A D \in SUBSET S : IsFiniteSet(D) /\ Cardinality(D) \in Nat
                                  /\ Cardinality(D) <= Cardinality(S)
<1>1. IsFiniteSet(Cases)
  BY ConstantsAssumption, FS_Interval DEF Cases
<1>2. IsFiniteSet(S)
  BY <1>1, FS_Subset
<1>3. ASSUME NEW D \in SUBSET S
      PROVE  IsFiniteSet(D) /\ Cardinality(D) <= Cardinality(S)
  BY <1>2, FS_Subset
<1> QED
  BY <1>2, <1>3, FS_CardinalityType

LEMMA HeldCases ==
    ASSUME TypeOK
    PROVE  Held \subseteq Cases /\ Unresolved \subseteq Cases
BY LiveCases DEF Held, Unresolved, TypeOK, WeekTypes, Buckets

\* A command never makes an unresolved case of a resolved one.
LEMMA CommandGainsNone ==
    ASSUME CaseInv, Command
    PROVE  Unresolved' \subseteq Unresolved
<1>1. ASSUME UNCHANGED <<caseCount, caseStatus>> PROVE Unresolved' \subseteq Unresolved
  BY <1>1 DEF Unresolved, Live
<1>2. ASSUME NEW c \in Cases, caseCount' = caseCount, caseStatus[c] # "resolved",
             NEW s, caseStatus' = [caseStatus EXCEPT ![c] = s]
      PROVE  Unresolved' \subseteq Unresolved
  BY <1>2 DEF Unresolved, Live, CaseInv, TypeOK, CaseTypes
<1>3. ASSUME NEW c \in Cases, NEW t \in Teams, AssignTeam(c, t)
      PROVE  Unresolved' \subseteq Unresolved
  BY <1>2, <1>3 DEF AssignTeam
<1>4. ASSUME NEW c \in Cases, NEW T \in SUBSET Teams, LaunchMajorIncident(c, T)
      PROVE  Unresolved' \subseteq Unresolved
  BY <1>2, <1>4 DEF LaunchMajorIncident
<1>5. ASSUME NEW c \in Cases, NEW T \in SUBSET Teams, UnassignTeam(c, T)
      PROVE  Unresolved' \subseteq Unresolved
  <2>1. caseStatus[c] # "resolved"
    BY <1>5 DEF UnassignTeam, CaseInv, ClosedEmpty
  <2>2. PICK s : caseStatus' = [caseStatus EXCEPT ![c] = s]
    BY <1>5 DEF UnassignTeam
  <2> QED
    BY <1>2, <1>5, <2>1, <2>2 DEF UnassignTeam
<1> QED
  BY <1>1, <1>3, <1>4, <1>5
     DEF Command, MoveAgent, CreateTeam, DeleteEmptyTeam, QueueTraining, CancelTraining, EndTraining

\* The operations that come home are unresolved until they are settled.
LEMMA ResolveGainsNone ==
    ASSUME CaseInv, NEW result \in Results, NEW degraded \in BOOLEAN,
           ResolveOperation(result, degraded)
    PROVE  Unresolved' \subseteq Unresolved /\ Held' \subseteq Held
<1>1. PICK c \in Live : c = cursor
  BY DEF ResolveOperation, Visiting
<1>2. c \in Cases /\ caseStatus[c] = "in_progress" /\ c \in Unresolved
  BY <1>1, LiveCases DEF ResolveOperation, UnderWay, Unresolved, CaseInv
<1>3. PICK s : caseStatus' = [caseStatus EXCEPT ![c] = s]
  BY <1>1 DEF ResolveOperation
<1>4. Unresolved' \subseteq Unresolved
  BY <1>2, <1>3 DEF ResolveOperation, Unresolved, Live, CaseInv, TypeOK, CaseTypes
<1>5. ASSUME NEW b \in [Buckets -> SUBSET Cases], NEW f, NEW k \in Buckets
      PROVE  Recorded(b, f, c, k)["resolved"] \subseteq b["resolved"] \cup {c}
  BY <1>5 DEF Recorded, Buckets
<1>6. ASSUME NEW b \in [Buckets -> SUBSET Cases], NEW f
      PROVE  Downgraded(b, f, c)["resolved"] \subseteq b["resolved"] \cup {c}
  <2>1. [b EXCEPT !["resolved"] = @ \ {c}] \in [Buckets -> SUBSET Cases]
    OBVIOUS
  <2>2. [b EXCEPT !["resolved"] = @ \ {c}]["resolved"] \subseteq b["resolved"]
    BY DEF Buckets
  <2>3. "partial" \in Buckets
    BY DEF Buckets
  <2> QED
    BY <1>5, <2>1, <2>2, <2>3 DEF Downgraded
<1>7. bucket \in [Buckets -> SUBSET Cases]
  BY DEF CaseInv, TypeOK, WeekTypes
<1>8. PICK k \in Buckets :
          bucket' = IF degraded THEN Downgraded(Recorded(bucket, finalized, c, k),
                                                finalized \cup {c}, c)
                    ELSE Recorded(bucket, finalized, c, k)
  <2>1. (IF result = "success" THEN "resolved" ELSE IF result = "partial" THEN "partial"
         ELSE "failed") \in Buckets
    BY DEF Buckets
  <2> QED
    BY <1>1, <2>1 DEF ResolveOperation
<1>9. Recorded(bucket, finalized, c, k) \in [Buckets -> SUBSET Cases]
  BY <1>2, <1>7, RecordedTypes
<1>10. bucket'["resolved"] \subseteq bucket["resolved"] \cup {c}
  BY <1>5, <1>6, <1>7, <1>8, <1>9
<1> QED
  BY <1>2, <1>4, <1>10 DEF Held

\* Nothing counts more than before, and the week is not begun by this step.
LEMMA CapShrinks ==
    ASSUME CapInv, CaseInv', Held' \subseteq Held, BeforeFriction' => BeforeFriction
    PROVE  CapInv'
<1>1. Cardinality(Held)' \in Nat /\ Cardinality(Held)' <= Cardinality(Held)
      /\ Cardinality(Held) \in Nat
  BY HeldCases, CountableCases DEF CapInv, CaseInv
<1> QED
  BY <1>1, ConstantsAssumption DEF CapInv, UnderCap

\* Until the friction pass is over, no step of a week that began counts more.
LEMMA CapStep == CapInv /\ [Next]_vars => CapInv'
<1> SUFFICES ASSUME CapInv, [Next]_vars PROVE CapInv'
  OBVIOUS
<1>1. CaseInv'
  BY CaseStep DEF CapInv
<1>2. ASSUME UNCHANGED <<caseCount, caseStatus, bucket>> PROVE Held' = Held
  BY <1>2 DEF Held, Unresolved, Live
<1>3. ASSUME ~BeforeFriction' PROVE CapInv'
  BY <1>1, <1>3 DEF CapInv, UnderCap
<1>4. CASE Command
  <2>1. UNCHANGED <<phase, gameOver, bucket>>
    BY <1>4 DEF Command, AssignTeam, LaunchMajorIncident, UnassignTeam, MoveAgent, CreateTeam,
                DeleteEmptyTeam, QueueTraining, CancelTraining, weekVars
  <2> QED
    BY <1>1, <1>4, <2>1, CommandGainsNone, CapShrinks DEF CapInv, Held, BeforeFriction
<1>5. CASE BeginWeek
  <2>1. Held' \subseteq Held
    BY <1>5 DEF BeginWeek, FreshWeek, NoBuckets, Buckets, Held, Unresolved, Live, caseVars
  <2> QED
    BY <1>1, <1>5, <2>1, CapShrinks DEF BeginWeek, BeforeFriction
<1>6. CASE AdvanceEndedCampaign
  BY <1>3, <1>6 DEF AdvanceEndedCampaign, BeforeFriction
<1>7. CASE Week
  <2>1. CASE PrepareAgents \/ SkipRotation
    BY <1>1, <1>2, <2>1, CapShrinks
       DEF PrepareAgents, SkipRotation, Visiting, Advance, BeforeFriction, caseVars, weekVars
  <2>2. ASSUME NEW t \in Teams, NEW out \in Agents, NEW in \in Agents,
               RotateFieldBase(t, out, in)
        PROVE  CapInv'
    BY <1>1, <1>2, <2>2, CapShrinks
       DEF RotateFieldBase, Visiting, Advance, BeforeFriction, weekVars
  <2>3. CASE SkipResolve \/ ContinueOperation
    BY <1>1, <1>2, <2>3, CapShrinks
       DEF SkipResolve, ContinueOperation, Visiting, Advance, BeforeFriction, weekVars
  <2>4. ASSUME NEW result \in Results, NEW degraded \in BOOLEAN,
               ResolveOperation(result, degraded)
        PROVE  CapInv'
    <3>1. BeforeFriction
      BY <2>4 DEF ResolveOperation, Visiting, BeforeFriction
    <3> QED
      BY <1>1, <2>4, <3>1, ResolveGainsNone, CapShrinks DEF CapInv
  <2>5. CASE \/ Friction \/ SkipEscalation
             \/ \E pressed \in BOOLEAN : CountDown(pressed) \/ EscalateCase(pressed)
             \/ SpawnFollowUps \/ SpawnPressureIncidents
    BY <1>3, <2>5
       DEF Friction, SkipEscalation, CountDown, EscalateCase, SpawnFollowUps,
           SpawnPressureIncidents, Visiting, Advance, BeforeFriction
  <2>6. CASE CloseWeek
    <3>1. Held' = Unresolved
      BY <2>6 DEF CloseWeek, EndTraining, FreshWeek, NoBuckets, Buckets, Held, Unresolved, Live
    <3>2. gameOver' = Ended
      BY <2>6 DEF CloseWeek
    <3>3. Cardinality(Unresolved) \in Nat
      BY HeldCases, CountableCases DEF CapInv, CaseInv
    <3>4. BeforeFriction' => ~gameOver'
      BY <2>6 DEF CloseWeek, BeforeFriction
    <3>5. ~Ended => Cardinality(Unresolved) <= MaxActiveCases
      BY <3>3, ConstantsAssumption DEF Ended
    <3>6. BeforeFriction' => Cardinality(Held') <= MaxActiveCases
      BY <3>1, <3>2, <3>4, <3>5
    <3> QED
      BY <1>1, <3>6 DEF CapInv, UnderCap
  <2> QED
    BY <1>7, <2>1, <2>2, <2>3, <2>4, <2>5, <2>6 DEF Week
<1>8. CASE UNCHANGED vars
  BY <1>1, <1>2, <1>8, CapShrinks DEF vars, caseVars, weekVars, BeforeFriction
<1> QED
  BY <1>4, <1>5, <1>6, <1>7, <1>8 DEF Next

LEMMA CapInvariant == Spec => []CapInv
<1>1. Init /\ CaseInv => CapInv
  <2> SUFFICES ASSUME Init, CaseInv PROVE Cardinality(Held) <= MaxActiveCases
    BY DEF CapInv, UnderCap
  <2>1. Held \subseteq 1 .. InitialCases
    BY DEF Init, Held, Unresolved, Live, NoBuckets, Buckets
  <2>2. InitialCases \in Nat /\ InitialCases <= MaxActiveCases /\ MaxActiveCases \in Nat
    BY ConstantsAssumption DEF Cases
  <2>3. IsFiniteSet(1 .. InitialCases) /\ Cardinality(1 .. InitialCases) <= InitialCases
    BY <2>2, FS_Interval
  <2>4. /\ Cardinality(Held) <= Cardinality(1 .. InitialCases)
        /\ Cardinality(Held) \in Nat /\ Cardinality(1 .. InitialCases) \in Nat
    BY <2>1, <2>3, FS_Subset, FS_CardinalityType
  <2> QED
    BY <2>2, <2>3, <2>4
<1>2. CapInv /\ [Next]_vars => CapInv'
  BY CapStep
<1> QED
  BY <1>1, <1>2, CaseInvariant, PTL DEF Spec

\* The n places that follow the k-th.
LEMMA IntervalAbove ==
    ASSUME NEW k \in Nat, NEW n \in Nat
    PROVE  IsFiniteSet(k + 1 .. k + n) /\ Cardinality(k + 1 .. k + n) = n
<1>1. k + 1 \in Int /\ k + n \in Int
  OBVIOUS
<1>2. /\ IsFiniteSet(k + 1 .. k + n)
      /\ Cardinality(k + 1 .. k + n)
            = IF k + 1 > k + n THEN 0 ELSE (k + n) - (k + 1) + 1
  BY <1>1, FS_Interval
<1> QED
  BY <1>2

\* The two kinds of follow-ups together fill no more than the free slots.
LEMMA FollowUpsFit ==
    ASSUME TypeOK, SpawnFollowUps, Cardinality(Unresolved) <= MaxActiveCases
    PROVE  Cardinality(Unresolved') <= MaxActiveCases
<1> DEFINE active == Cardinality(Unresolved)
           first(f) == Lesser(f, Slots(active))
           second(f, l) == Lesser(l, Slots(active + first(f)))
<1>1. IsFiniteSet(Unresolved) /\ active \in Nat /\ MaxActiveCases \in Nat
  BY HeldCases, CountableCases, ConstantsAssumption
<1>2. PICK f \in 0 .. MaxSpawn, l \in 0 .. MaxSpawn, R \in SUBSET Cases :
          Spawn(first(f) + second(f, l), R, OpeningStage)
  BY DEF SpawnFollowUps, SlotsAfter
<1>3. f \in Nat /\ l \in Nat
  BY ConstantsAssumption
<1>4. \A k, m \in Nat : m <= MaxActiveCases => /\ Lesser(k, Slots(m)) \in Nat
                                               /\ m + Lesser(k, Slots(m)) <= MaxActiveCases
  BY <1>1 DEF Lesser, Slots
<1> HIDE DEF active
<1>5. active <= MaxActiveCases
  BY DEF active
<1>6. first(f) \in Nat /\ active + first(f) <= MaxActiveCases
  BY <1>1, <1>3, <1>4, <1>5
<1> HIDE DEF first
<1>7. second(f, l) \in Nat /\ active + first(f) + second(f, l) <= MaxActiveCases
  <2>1. active + first(f) \in Nat
    BY <1>1, <1>6
  <2> QED
    BY <1>3, <1>4, <1>6, <2>1
<1> HIDE DEF second
<1>8. PICK n \in Nat : /\ n = first(f) + second(f, l)
                       /\ Spawn(n, R, OpeningStage)
  BY <1>2, <1>6, <1>7
<1> DEFINE new == caseCount + 1 .. caseCount + n
<1>9. caseCount \in Nat
  BY DEF TypeOK, CaseTypes, Cases
<1>10. /\ Unresolved' \subseteq Unresolved \cup new
       /\ IsFiniteSet(new) /\ Cardinality(new) = n
  <2>1. caseCount + n <= MaxCases /\ caseCount' = caseCount + n /\ MaxCases \in Nat
    BY <1>8, ConstantsAssumption DEF Spawn
  <2>2. Live' \subseteq Live \cup new /\ Live' \subseteq Cases
    BY <1>9, <2>1 DEF Live, Cases
  <2>3. \A c \in Cases \ new : caseStatus'[c] = caseStatus[c]
    BY <1>8 DEF Spawn
  <2>4. Unresolved' \subseteq Unresolved \cup new
    BY <2>2, <2>3 DEF Unresolved
  <2>5. IsFiniteSet(new) /\ Cardinality(new) = n
    BY <1>9, IntervalAbove
  <2> QED
    BY <2>4, <2>5
<1> HIDE DEF new
<1>11. /\ IsFiniteSet(Unresolved \cup new)
       /\ Cardinality(Unresolved \cup new)
             = Cardinality(Unresolved) + Cardinality(new) - Cardinality(Unresolved \cap new)
  BY <1>1, <1>10, FS_Union
<1>12. Cardinality(Unresolved \cap new) \in Nat
  BY <1>1, FS_Intersection, FS_CardinalityType
<1>13. Cardinality(Unresolved') <= Cardinality(Unresolved \cup new)
       /\ Cardinality(Unresolved') \in Nat
  BY <1>10, <1>11, FS_Subset, FS_CardinalityType
<1> QED
  BY <1>1, <1>6, <1>7, <1>8, <1>10, <1>11, <1>12, <1>13 DEF active

\* Only incidents of pressure bring the register past the cap: no command, no
\* success taken back and no order of the two follow-up spawns does.
THEOREM CapHolds == Spec => OnlyPressureExceedsCap
<1> DEFINE Fits == Cardinality(Unresolved) <= MaxActiveCases
                   /\ Cardinality(Unresolved') > MaxActiveCases => phase = "pressure"
<1>0. ASSUME CapInv' PROVE Cardinality(Unresolved') \in Nat
  <2>1. caseCount' \in Cases /\ MaxCases \in Nat
    BY <1>0, ConstantsAssumption DEF CapInv, CaseInv, TypeOK, CaseTypes
  <2>2. Live' \subseteq Cases
    BY <2>1 DEF Live, Cases
  <2>3. Unresolved' \subseteq Cases
    BY <2>2 DEF Unresolved
  <2> QED
    BY <2>3, CountableCases
<1>1. CapInv /\ CapInv' /\ [Next]_vars => [Fits]_vars
  <2> SUFFICES ASSUME CapInv, CapInv', Next, Cardinality(Unresolved) <= MaxActiveCases,
                      phase # "pressure"
               PROVE  Cardinality(Unresolved') <= MaxActiveCases
    BY <1>0, ConstantsAssumption
  <2>1. ASSUME Unresolved' \subseteq Unresolved
        PROVE  Cardinality(Unresolved') <= MaxActiveCases
    <3>1. /\ Cardinality(Unresolved') <= Cardinality(Unresolved)
          /\ Cardinality(Unresolved') \in Nat /\ Cardinality(Unresolved) \in Nat
      BY <2>1, HeldCases, CountableCases DEF CapInv, CaseInv
    <3> QED
      BY <3>1, ConstantsAssumption
  <2>2. ASSUME UNCHANGED <<caseCount, caseStatus>>
        PROVE  Cardinality(Unresolved') <= MaxActiveCases
    BY <2>1, <2>2 DEF Unresolved, Live
  <2>3. CASE Command
    BY <2>1, <2>3, CommandGainsNone DEF CapInv
  <2>4. CASE BeginWeek \/ AdvanceEndedCampaign
    BY <2>2, <2>4 DEF BeginWeek, AdvanceEndedCampaign, caseVars
  <2>5. CASE Week
    <3>1. ASSUME NEW result \in Results, NEW degraded \in BOOLEAN,
                 ResolveOperation(result, degraded)
          PROVE  Cardinality(Unresolved') <= MaxActiveCases
      BY <2>1, <3>1, ResolveGainsNone DEF CapInv
    <3>2. CASE Friction
      <4>1. CASE overloaded /\ bucket["resolved"] # {}
        <5>1. FirstSuccess \in bucket["resolved"] /\ FirstSuccess \in Cases
          BY <4>1, FirstSuccessRecorded DEF CapInv, CaseInv, TypeOK, WeekTypes, Buckets
        <5>2. /\ caseStatus' = [caseStatus EXCEPT ![FirstSuccess] = "open"]
              /\ caseCount' = caseCount
          BY <3>2, <4>1 DEF Friction
        <5>3. Unresolved' \subseteq Held
          BY <5>1, <5>2 DEF Unresolved, Live, Held, CapInv, CaseInv, TypeOK, CaseTypes
        <5>4. Cardinality(Held) <= MaxActiveCases
          BY <3>2 DEF Friction, CapInv, UnderCap, BeforeFriction
        <5>5. /\ Cardinality(Unresolved') <= Cardinality(Held)
              /\ Cardinality(Unresolved') \in Nat /\ Cardinality(Held) \in Nat
          BY <5>3, HeldCases, CountableCases DEF CapInv, CaseInv
        <5> QED
          BY <5>4, <5>5, ConstantsAssumption
      <4>2. CASE ~(overloaded /\ bucket["resolved"] # {})
        BY <2>2, <3>2, <4>2 DEF Friction
      <4> QED
        BY <4>1, <4>2
    <3>3. CASE SpawnFollowUps
      BY <3>3, FollowUpsFit DEF CapInv, CaseInv
    <3>4. CASE SpawnPressureIncidents
      BY <3>4 DEF SpawnPressureIncidents
    <3>5. ASSUME ~Friction, ~SpawnFollowUps, ~SpawnPressureIncidents,
                 \A result \in Results, degraded \in BOOLEAN : ~ResolveOperation(result, degraded)
          PROVE  UNCHANGED <<caseCount, caseStatus>>
      BY <2>5, <3>5
         DEF Week, PrepareAgents, RotateFieldBase, SkipRotation, SkipResolve, ContinueOperation,
             SkipEscalation, CountDown, EscalateCase, CloseWeek, EndTraining, caseVars
    <3> QED
      BY <2>2, <3>1, <3>2, <3>3, <3>4, <3>5
  <2> QED
    BY <2>3, <2>4, <2>5 DEF Next
<1> QED
  BY <1>1, CapInvariant, PTL DEF Spec, OnlyPressureExceedsCap
=============================================================================
