----------------------------- MODULE ClosureProofs -----------------------------
(***************************************************************************)
(* Proofs about Closure.  TeamCaseAgreement is lost when the workshops     *)
(* close a case with teams on it: its teams keep a pointer to a case that  *)
(* does not list them.  What every week keeps is the half of it that the   *)
(* commands rely on, with the record of the operation.                     *)
(***************************************************************************)
EXTENDS Closure, DeploymentProofs

\* Every listed team exists and points at the case that lists it.
PointBack == \A c \in Cases : \A t \in assignedTeamIds[c] : t \in teamIds /\ teamCase[t] = c

\* A pointer that no list backs names a case that is closed and that no later
\* pass will reopen: the friction pass only takes back the week's successes.
StaleClosed ==
    \A t \in Teams : teamCase[t] # NoCase =>
        \/ t \in assignedTeamIds[teamCase[t]]
        \/ caseStatus[teamCase[t]] = "resolved" /\ teamCase[t] \notin bucket["resolved"]

CrewsInv == /\ TypeOK /\ PointBack /\ StaleClosed
            /\ OperationRecord /\ BlankUntilSpawned
            /\ UnspawnedUntouched /\ SuccessRecorded

\* A case lists teams only while it is under way.
LEMMA CrewUnderWay ==
    ASSUME CrewsInv, NEW c \in Cases, assignedTeamIds[c] # {}
    PROVE  c \in Live /\ caseStatus[c] = "in_progress"
BY DEF CrewsInv, OperationRecord, BlankUntilSpawned

\* The filter for deleted teams finds none.
LEMMA CrewExists ==
    ASSUME CrewsInv, NEW c \in Cases
    PROVE  Existing(c) = assignedTeamIds[c]
BY DEF CrewsInv, PointBack, Existing

\* Normalizing lists whose teams all exist and point back rewrites no list and
\* leaves no stale pointer.
LEMMA NormalizePointsBack ==
    ASSUME NEW L \in [Cases -> SUBSET Teams], NEW P, Normalize(L, P, teamIds'),
           \A c \in Cases : \A t \in L[c] : t \in teamIds' /\ P[t] = c
    PROVE  assignedTeamIds' = L /\ PointBack' /\ StaleClosed'
<1>1. assignedTeamIds' = [c \in Cases |-> L[c] \cap teamIds']
  BY DEF Normalize, NormalAssignments
<1>2. \A c \in Cases : L[c] \cap teamIds' = L[c]
  OBVIOUS
<1>3. assignedTeamIds' = L
  BY <1>1, <1>2
<1>4. \A t \in Teams : teamCase'[t] =
          IF P[t] \in Cases /\ t \in L[P[t]] \cap teamIds' THEN P[t] ELSE NoCase
  BY DEF Normalize, NormalPointers, NormalAssignments
<1> QED
  BY <1>3, <1>4 DEF PointBack, StaleClosed

\* A step that leaves the records of all cases alone.
LEMMA CrewsKept ==
    ASSUME CrewsInv, TypeOK', PointBack', StaleClosed',
           UNCHANGED <<assignedTeamIds, caseCount, caseStatus, weeksRemaining>>,
           \/ UNCHANGED <<bucket, finalized>>
           \/ bucket'["resolved"] = {}
           \/ bucket'["resolved"] = bucket["resolved"] /\ finalized \subseteq finalized'
    PROVE  CrewsInv'
BY DEF CrewsInv, OperationRecord, BlankUntilSpawned, UnspawnedUntouched, SuccessRecorded, Live

\* The same, when it leaves the teams alone too.
LEMMA QuietCrews ==
    ASSUME CrewsInv, TypeOK', UNCHANGED <<teamCase, teamIds>>,
           UNCHANGED <<assignedTeamIds, caseCount, caseStatus, weeksRemaining>>,
           \/ UNCHANGED <<bucket, finalized>>
           \/ bucket'["resolved"] = {}
           \/ bucket'["resolved"] = bucket["resolved"] /\ finalized \subseteq finalized'
    PROVE  CrewsInv'
<1>1. PointBack' /\ StaleClosed'
  BY DEF CrewsInv, PointBack, StaleClosed
<1> QED
  BY <1>1, CrewsKept

\* And when it only runs the normalization: a stale pointer may be cleared.
LEMMA NormalizedCrews ==
    ASSUME CrewsInv, TypeOK', Normalize(assignedTeamIds, teamCase, teamIds),
           UNCHANGED <<teamIds, caseCount, caseStatus, weeksRemaining>>,
           UNCHANGED <<bucket, finalized>> \/ bucket'["resolved"] = {}
    PROVE  CrewsInv'
<1>1. assignedTeamIds \in [Cases -> SUBSET Teams]
  BY DEF CrewsInv, TypeOK, CaseTypes
<1>2. assignedTeamIds' = assignedTeamIds /\ PointBack' /\ StaleClosed'
  BY <1>1, NormalizePointsBack DEF CrewsInv, PointBack
<1> QED
  BY <1>2, CrewsKept

\* A step that rewrites the record of one case, and rewrites it well.
LEMMA CrewChanged ==
    ASSUME CrewsInv, TypeOK', PointBack', StaleClosed', SuccessRecorded', NEW c \in Live,
           caseCount' = caseCount, RecordOf(c)', caseStatus'[c] # "unspawned",
           \A d \in Cases : d # c => /\ assignedTeamIds'[d] = assignedTeamIds[d]
                                     /\ caseStatus'[d] = caseStatus[d]
                                     /\ weeksRemaining'[d] = weeksRemaining[d]
    PROVE  CrewsInv'
<1>1. Live' = Live /\ Live \subseteq Cases
  BY LiveCases DEF Live, CrewsInv
<1>2. OperationRecord'
  BY <1>1 DEF CrewsInv, OperationRecord, RecordOf
<1>3. BlankUntilSpawned' /\ UnspawnedUntouched'
  BY <1>1 DEF CrewsInv, BlankUntilSpawned, UnspawnedUntouched
<1> QED
  BY <1>2, <1>3 DEF CrewsInv

\* A success of the week stands while no step but one on another case is taken.
LEMMA SuccessesKept ==
    ASSUME CrewsInv, NEW c \in Cases, caseStatus[c] # "resolved", NEW s,
           caseStatus' = [caseStatus EXCEPT ![c] = s], UNCHANGED <<bucket, finalized>>
    PROVE  SuccessRecorded'
BY DEF CrewsInv, SuccessRecorded, TypeOK, CaseTypes, WeekTypes, Buckets

-----------------------------------------------------------------------------
(* The orders that change the teams of a case.                               *)

\* Two teams of a list or a team of two lists: pointers decide.
LEMMA ListedOnce ==
    ASSUME CrewsInv, NEW c \in Cases, NEW d \in Cases, NEW t \in assignedTeamIds[d],
           Available(t, c)
    PROVE  d = c
BY ConstantsAssumption DEF CrewsInv, PointBack, Available, NoCase, Cases

\* A command that lists the teams S on the case c and points them at it, where
\* S are teams no other case lists and the teams R were listed by c.
LEMMA CrewListed ==
    ASSUME CrewsInv, NEW c \in Live, NEW S \in SUBSET teamIds, NEW A \in SUBSET S, NEW R,
           \A t \in A : Available(t, c),
           S \ A \subseteq assignedTeamIds[c] \ R, R \subseteq assignedTeamIds[c],
           Normalize([assignedTeamIds EXCEPT ![c] = S], PointTo(A, c, R), teamIds),
           teamIds' = teamIds
    PROVE  /\ PointBack' /\ StaleClosed' /\ assignedTeamIds'[c] = S
           /\ \A d \in Cases : d # c => assignedTeamIds'[d] = assignedTeamIds[d]
<1> DEFINE L == [assignedTeamIds EXCEPT ![c] = S]
           P == PointTo(A, c, R)
<1>1. /\ c \in Cases /\ teamIds \subseteq Teams
      /\ assignedTeamIds \in [Cases -> SUBSET Teams]
      /\ \A d \in Cases : \A t \in assignedTeamIds[d] : t \in teamIds /\ teamCase[t] = d
  BY LiveCases DEF CrewsInv, PointBack, TypeOK, CaseTypes, TeamTypes
<1>2. /\ L \in [Cases -> SUBSET Teams]
      /\ \A d \in Cases : L[d] = IF d = c THEN S ELSE assignedTeamIds[d]
  BY <1>1
<1>3. \A t \in Teams : P[t] = IF t \in A THEN c ELSE IF t \in R THEN NoCase ELSE teamCase[t]
  BY DEF PointTo
<1>4. \A d \in Cases : \A t \in L[d] : t \in teamIds' /\ P[t] = d
  <2> SUFFICES ASSUME NEW d \in Cases, NEW t \in L[d] PROVE t \in teamIds /\ P[t] = d
    OBVIOUS
  <2>1. CASE d = c
    BY <1>1, <1>2, <1>3, <2>1
  <2>2. CASE d # c
    <3>1. t \in assignedTeamIds[d] /\ t \in Teams
      BY <1>1, <1>2, <2>2
    <3>2. t \notin A
      BY <1>1, <2>2, <3>1, ListedOnce
    <3>3. t \notin R
      BY <1>1, <2>2, <3>1
    <3> QED
      BY <1>1, <1>3, <3>1, <3>2, <3>3
  <2> QED
    BY <2>1, <2>2
<1>5. assignedTeamIds' = L /\ PointBack' /\ StaleClosed'
  <2>1. Normalize(L, P, teamIds')
    OBVIOUS
  <2> HIDE DEF L, P
  <2> QED
    BY <1>2, <1>4, <2>1, NormalizePointsBack
<1> QED
  BY <1>2, <1>5

\* The first team starts the clock, a later one of a raid leaves it alone.
LEMMA AssignTeamCrews ==
    ASSUME CrewsInv, NEW c \in Cases, NEW t \in Teams, AssignTeam(c, t)
    PROVE  CrewsInv'
<1> DEFINE raid == caseKind[c] = "raid"
           S == IF raid THEN Existing(c) \cup {t} ELSE {t}
           R == IF raid THEN {} ELSE Existing(c) \ {t}
<1>1. TypeOK'
  BY AssignTeamTypes DEF CrewsInv
<1>2. /\ c \in Live /\ caseStatus[c] # "resolved" /\ t \in teamIds /\ Available(t, c)
      /\ Normalize([assignedTeamIds EXCEPT ![c] = S], PointTo({t}, c, R), teamIds)
      /\ caseStatus' = [caseStatus EXCEPT ![c] = "in_progress"]
      /\ weeksRemaining' = [weeksRemaining EXCEPT ![c] = ClockOf(c)]
      /\ UNCHANGED <<caseCount, teamIds, bucket, finalized>>
  BY DEF AssignTeam, weekVars
<1>3. /\ S \in SUBSET teamIds /\ {t} \in SUBSET S
      /\ S \ {t} \subseteq assignedTeamIds[c] \ R /\ R \subseteq assignedTeamIds[c]
  BY <1>2 DEF Existing
<1> HIDE DEF S, R
<1>4. /\ PointBack' /\ StaleClosed' /\ assignedTeamIds'[c] = S
      /\ \A d \in Cases : d # c => assignedTeamIds'[d] = assignedTeamIds[d]
  <2>1. \A u \in {t} : Available(u, c)
    BY <1>2
  <2> QED
    BY <1>2, <1>3, <2>1, CrewListed
<1>5. caseStatus[c] \in {"open", "in_progress"}
  BY <1>2 DEF CrewsInv, BlankUntilSpawned, TypeOK, CaseTypes, Statuses
<1>6. weeksRemaining'[c] \in 1 .. LongestWeeks
  BY <1>2, <1>5, ConstantsAssumption DEF ClockOf, CrewsInv, OperationRecord, TypeOK, CaseTypes
<1>7. /\ caseStatus'[c] = "in_progress"
      /\ \A d \in Cases : d # c => /\ caseStatus'[d] = caseStatus[d]
                                   /\ weeksRemaining'[d] = weeksRemaining[d]
  BY <1>2 DEF CrewsInv, TypeOK, CaseTypes
<1>8. RecordOf(c)' /\ caseStatus'[c] # "unspawned"
  BY <1>3, <1>4, <1>6, <1>7 DEF RecordOf
<1>9. SuccessRecorded'
  BY <1>2, SuccessesKept
<1> QED
  BY <1>1, <1>2, <1>4, <1>7, <1>8, <1>9, CrewChanged

\* A launch (re)starts the clock under teams that are free or on the case.
LEMMA LaunchCrews ==
    ASSUME CrewsInv, NEW c \in Cases, NEW T \in SUBSET Teams, LaunchMajorIncident(c, T)
    PROVE  CrewsInv'
<1>1. TypeOK'
  BY LaunchTypes DEF CrewsInv
<1>2. PICK weeks \in 1 .. LongestWeeks :
      /\ c \in Live /\ caseStatus[c] # "resolved" /\ T \subseteq teamIds /\ T # {}
      /\ \A t \in T : Available(t, c)
      /\ Normalize([assignedTeamIds EXCEPT ![c] = T], PointTo(T, c, Existing(c) \ T), teamIds)
      /\ caseStatus' = [caseStatus EXCEPT ![c] = "in_progress"]
      /\ weeksRemaining' = [weeksRemaining EXCEPT ![c] = weeks]
      /\ UNCHANGED <<caseCount, teamIds, bucket, finalized>>
  BY FS_EmptySet, ConstantsAssumption DEF LaunchMajorIncident, weekVars
<1>3. Existing(c) \ T \subseteq assignedTeamIds[c]
  BY DEF Existing
<1>4. /\ PointBack' /\ StaleClosed' /\ assignedTeamIds'[c] = T
      /\ \A d \in Cases : d # c => assignedTeamIds'[d] = assignedTeamIds[d]
  <2>1. T \in SUBSET teamIds /\ T \in SUBSET T
    BY <1>2
  <2>2. T \ T \subseteq assignedTeamIds[c] \ (Existing(c) \ T)
    OBVIOUS
  <2> QED
    BY <1>2, <1>3, <2>1, <2>2, CrewListed
<1>5. /\ weeksRemaining'[c] \in 1 .. LongestWeeks /\ caseStatus'[c] = "in_progress"
      /\ \A d \in Cases : d # c => /\ caseStatus'[d] = caseStatus[d]
                                   /\ weeksRemaining'[d] = weeksRemaining[d]
  BY <1>2, ConstantsAssumption DEF CrewsInv, TypeOK, CaseTypes
<1>6. RecordOf(c)' /\ caseStatus'[c] # "unspawned"
  BY <1>2, <1>4, <1>5 DEF RecordOf
<1>7. SuccessRecorded'
  BY <1>2, SuccessesKept
<1> QED
  BY <1>1, <1>2, <1>4, <1>5, <1>6, <1>7, CrewChanged

\* The last team recalled takes the clock with it.
LEMMA UnassignCrews ==
    ASSUME CrewsInv, NEW c \in Cases, NEW T \in SUBSET Teams, UnassignTeam(c, T)
    PROVE  CrewsInv'
<1> DEFINE S == Existing(c) \ T
           None == {}
<1>1. TypeOK'
  BY UnassignTypes DEF CrewsInv
<1>2. /\ c \in Live /\ T # {} /\ T \subseteq assignedTeamIds[c]
      /\ Normalize([assignedTeamIds EXCEPT ![c] = S], PointTo(None, c, T), teamIds)
      /\ caseStatus' = [caseStatus EXCEPT ![c] = IF S = {} THEN "open" ELSE "in_progress"]
      /\ weeksRemaining' = [weeksRemaining EXCEPT ![c] = IF S = {} THEN NoWeeks ELSE @]
      /\ UNCHANGED <<caseCount, teamIds, bucket, finalized>>
  BY DEF UnassignTeam, weekVars
<1>3. S \in SUBSET teamIds /\ None \in SUBSET S /\ S \ None \subseteq assignedTeamIds[c] \ T
  BY DEF Existing
<1>4. \A t \in None : Available(t, c)
  OBVIOUS
<1> HIDE DEF S, None
<1>5. /\ PointBack' /\ StaleClosed' /\ assignedTeamIds'[c] = S
      /\ \A d \in Cases : d # c => assignedTeamIds'[d] = assignedTeamIds[d]
  BY <1>2, <1>3, <1>4, CrewListed
<1>6. caseStatus[c] = "in_progress" /\ weeksRemaining[c] \in 1 .. LongestWeeks
  BY <1>2 DEF CrewsInv, OperationRecord
<1>7. /\ caseStatus'[c] = IF S = {} THEN "open" ELSE "in_progress"
      /\ weeksRemaining'[c] = IF S = {} THEN NoWeeks ELSE weeksRemaining[c]
      /\ \A d \in Cases : d # c => /\ caseStatus'[d] = caseStatus[d]
                                   /\ weeksRemaining'[d] = weeksRemaining[d]
  BY <1>2 DEF CrewsInv, TypeOK, CaseTypes
<1>8. RecordOf(c)' /\ caseStatus'[c] # "unspawned"
  BY <1>5, <1>6, <1>7 DEF RecordOf
<1>9. SuccessRecorded'
  BY <1>2, <1>6, SuccessesKept
<1> QED
  BY <1>1, <1>2, <1>5, <1>7, <1>8, <1>9, CrewChanged

\* Team ids come and go while no case lists them: the pointer of a listed team
\* names the case that lists it, and that case is in the register.
LEMMA TeamIdsCrews ==
    ASSUME CrewsInv, TypeOK', NEW t \in Teams,
           \/ \E a \in Agents : CreateTeam(t, a)
           \/ DeleteEmptyTeam(t)
    PROVE  CrewsInv'
<1> DEFINE P == [teamCase EXCEPT ![t] = NoCase]
<1>1. /\ Normalize(assignedTeamIds, P, teamIds')
      /\ \/ t \notin teamIds /\ teamIds' = teamIds \cup {t}
         \/ teamCase[t] \notin Live /\ teamIds' = teamIds \ {t}
      /\ UNCHANGED <<caseCount, caseStatus, weeksRemaining, bucket, finalized>>
  BY DEF CreateTeam, DeleteEmptyTeam, Editable, weekVars
<1>2. \A c \in Cases : \A u \in assignedTeamIds[c] : u \in teamIds /\ teamCase[u] = c /\ c \in Live
  BY CrewUnderWay DEF CrewsInv, PointBack
<1>3. \A c \in Cases : t \notin assignedTeamIds[c]
  BY <1>1, <1>2
<1>4. /\ assignedTeamIds \in [Cases -> SUBSET Teams]
      /\ teamCase \in [Teams -> Cases \cup {NoCase}]
  BY DEF CrewsInv, TypeOK, CaseTypes, TeamTypes
<1>5. \A c \in Cases : \A u \in assignedTeamIds[c] : u \in teamIds' /\ P[u] = c
  BY <1>1, <1>2, <1>3, <1>4
<1>6. assignedTeamIds' = assignedTeamIds /\ PointBack' /\ StaleClosed'
  <2> HIDE DEF P
  <2> QED
    BY <1>1, <1>4, <1>5, NormalizePointsBack
<1> QED
  BY <1>1, <1>6, CrewsKept

-----------------------------------------------------------------------------
(* The passes of the week, and the closure that follows them.                *)

\* A week in the field comes off the clock, which stays above zero.
LEMMA ContinueCrews ==
    ASSUME CrewsInv, TypeOK', ContinueOperation
    PROVE  CrewsInv'
<1>1. PICK c \in Live : c = cursor
  BY DEF ContinueOperation, Visiting
<1>2. c \in Cases /\ caseStatus[c] = "in_progress" /\ Existing(c) = assignedTeamIds[c]
  BY <1>1, LiveCases, CrewExists DEF ContinueOperation, UnderWay, CrewsInv
<1>3. /\ assignedTeamIds' = [assignedTeamIds EXCEPT ![c] = Existing(c)]
      /\ weeksRemaining' = [weeksRemaining EXCEPT ![c] = WeeksLeft(c)]
      /\ WeeksLeft(c) > 0
      /\ UNCHANGED <<caseCount, caseStatus, teamCase, teamIds, bucket, finalized>>
  BY <1>1 DEF ContinueOperation, teamVars
<1>4. weeksRemaining[c] \in 1 .. LongestWeeks
  BY <1>2 DEF CrewsInv, OperationRecord
<1>5. WeeksLeft(c) \in 1 .. LongestWeeks
  BY <1>3, <1>4, ConstantsAssumption DEF WeeksLeft
<1>6. /\ assignedTeamIds' = assignedTeamIds
      /\ weeksRemaining'[c] = WeeksLeft(c)
      /\ \A d \in Cases : d # c => weeksRemaining'[d] = weeksRemaining[d]
  BY <1>2, <1>3 DEF CrewsInv, TypeOK, CaseTypes
<1>7. RecordOf(c)'
  BY <1>2, <1>3, <1>5, <1>6 DEF RecordOf, CrewsInv, OperationRecord
<1>8. PointBack' /\ StaleClosed' /\ SuccessRecorded'
  BY <1>3, <1>6 DEF CrewsInv, PointBack, StaleClosed, SuccessRecorded
<1> QED
  BY <1>2, <1>3, <1>6, <1>7, <1>8, CrewChanged

\* The teams brought home are listed by no other case, so that no other case
\* loses one; a stale pointer is left as it was.
LEMMA ResolveCrews ==
    ASSUME CrewsInv, TypeOK', NEW result \in Results, NEW degraded \in BOOLEAN,
           ResolveOperation(result, degraded)
    PROVE  CrewsInv'
<1> DEFINE closed == result = "success" /\ ~ degraded
           kind == IF result = "success" THEN "resolved"
                   ELSE IF result = "partial" THEN "partial" ELSE "failed"
<1>1. PICK c \in Live : c = cursor
  BY DEF ResolveOperation, Visiting
<1>2. c \in Cases /\ caseStatus[c] = "in_progress" /\ Existing(c) = assignedTeamIds[c]
  BY <1>1, LiveCases, CrewExists DEF ResolveOperation, UnderWay, CrewsInv
<1>3. /\ teamCase' = [t \in Teams |-> IF t \in assignedTeamIds[c] THEN NoCase ELSE teamCase[t]]
      /\ assignedTeamIds' = [assignedTeamIds EXCEPT ![c] = {}]
      /\ caseStatus' = [caseStatus EXCEPT ![c] = IF closed THEN "resolved" ELSE "open"]
      /\ weeksRemaining' = [weeksRemaining EXCEPT ![c] = IF closed THEN 0 ELSE NoWeeks]
      /\ finalized' = finalized \cup {c}
      /\ UNCHANGED <<caseCount, teamIds>>
  BY <1>1, <1>2 DEF ResolveOperation
<1>4. /\ bucket' = IF degraded
                   THEN Downgraded(Recorded(bucket, finalized, c, kind), finalized \cup {c}, c)
                   ELSE Recorded(bucket, finalized, c, kind)
      /\ degraded => result = "success"
  BY <1>1 DEF ResolveOperation
<1> HIDE DEF closed
<1>5. /\ assignedTeamIds'[c] = {}
      /\ caseStatus'[c] = IF closed THEN "resolved" ELSE "open"
      /\ weeksRemaining'[c] = IF closed THEN 0 ELSE NoWeeks
      /\ \A d \in Cases : d # c => /\ assignedTeamIds'[d] = assignedTeamIds[d]
                                   /\ caseStatus'[d] = caseStatus[d]
                                   /\ weeksRemaining'[d] = weeksRemaining[d]
  BY <1>2, <1>3 DEF CrewsInv, TypeOK, CaseTypes
<1>6. RecordOf(c)' /\ caseStatus'[c] # "unspawned"
  BY <1>5 DEF RecordOf
<1>7. PointBack'
  <2>1. \A d \in Cases : \A t \in assignedTeamIds[d] :
            t \in Teams /\ t \in teamIds /\ teamCase[t] = d
    BY DEF CrewsInv, PointBack, TypeOK, CaseTypes
  <2> QED
    BY <1>2, <1>3, <1>5, <2>1 DEF PointBack
<1>8. /\ bucket \in [Buckets -> SUBSET Cases] /\ c \notin bucket["resolved"]
      /\ bucket'["resolved"] \subseteq bucket["resolved"] \cup (IF closed THEN {c} ELSE {})
  <2>1. bucket \in [Buckets -> SUBSET Cases] /\ c \notin bucket["resolved"]
    BY <1>2 DEF CrewsInv, SuccessRecorded, TypeOK, WeekTypes
  <2>2. CASE closed
    BY <1>4, <2>1, <2>2 DEF Recorded, Buckets, closed
  <2>3. CASE ~ closed /\ ~ degraded
    <3>1. kind # "resolved"
      BY <2>3 DEF closed
    <3> QED
      BY <1>4, <2>1, <2>3, <3>1 DEF Recorded, Buckets
  <2>4. CASE degraded
    <3> DEFINE first == Recorded(bucket, finalized, c, "resolved")
    <3>1. /\ first \in [Buckets -> SUBSET Cases]
          /\ first["resolved"] \subseteq bucket["resolved"] \cup {c}
      BY <1>2, <2>1, RecordedTypes DEF Recorded, Buckets
    <3>2. bucket' = Downgraded(first, finalized \cup {c}, c)
      BY <1>4, <2>4
    <3> HIDE DEF first
    <3>3. bucket'["resolved"] \subseteq first["resolved"] \ {c}
      BY <3>1, <3>2 DEF Downgraded, Recorded, Buckets
    <3> QED
      BY <2>1, <3>1, <3>3
  <2> QED
    BY <2>1, <2>2, <2>3, <2>4 DEF closed
<1>9. SuccessRecorded'
  BY <1>3, <1>5, <1>8 DEF CrewsInv, SuccessRecorded, Buckets
<1>10. StaleClosed'
  <2> SUFFICES ASSUME NEW t \in Teams, teamCase'[t] # NoCase
               PROVE  \/ t \in assignedTeamIds'[teamCase'[t]]
                      \/ /\ caseStatus'[teamCase'[t]] = "resolved"
                         /\ teamCase'[t] \notin bucket'["resolved"]
    BY DEF StaleClosed
  <2>1. teamCase'[t] = teamCase[t] /\ t \notin assignedTeamIds[c] /\ teamCase[t] \in Cases
    BY <1>3 DEF CrewsInv, TypeOK, TeamTypes
  <2>2. teamCase[t] # c
    BY <1>2, <2>1 DEF CrewsInv, StaleClosed
  <2> QED
    BY <1>5, <1>8, <2>1, <2>2 DEF CrewsInv, StaleClosed
<1> QED
  BY <1>3, <1>5, <1>6, <1>7, <1>9, <1>10, CrewChanged

\* A success taken back has no teams and no clock.
LEMMA FrictionCrews ==
    ASSUME CrewsInv, TypeOK', Friction
    PROVE  CrewsInv'
<1>1. CASE overloaded /\ bucket["resolved"] # {}
  <2>1. /\ FirstSuccess \in Cases /\ FirstSuccess \in bucket["resolved"]
        /\ caseStatus[FirstSuccess] = "resolved"
    BY <1>1, FirstSuccessRecorded DEF CrewsInv, SuccessRecorded, TypeOK, WeekTypes, Buckets
  <2>2. PICK c \in Live : c = FirstSuccess
    BY <2>1 DEF CrewsInv, UnspawnedUntouched
  <2>3. /\ assignedTeamIds' = [assignedTeamIds EXCEPT ![c] = {}]
        /\ caseStatus' = [caseStatus EXCEPT ![c] = "open"]
        /\ weeksRemaining' = [weeksRemaining EXCEPT ![c] = NoWeeks]
        /\ bucket' = Downgraded(bucket, finalized, c)
        /\ UNCHANGED <<caseCount, finalized, teamCase, teamIds>>
    BY <1>1, <2>2 DEF Friction, teamVars
  <2>4. assignedTeamIds[c] = {}
    BY <2>1, <2>2 DEF CrewsInv, OperationRecord
  <2>5. /\ assignedTeamIds' = assignedTeamIds
        /\ caseStatus'[c] = "open" /\ weeksRemaining'[c] = NoWeeks
        /\ \A d \in Cases : d # c => /\ caseStatus'[d] = caseStatus[d]
                                     /\ weeksRemaining'[d] = weeksRemaining[d]
    BY <2>1, <2>2, <2>3, <2>4 DEF CrewsInv, TypeOK, CaseTypes
  <2>6. RecordOf(c)' /\ caseStatus'[c] # "unspawned"
    BY <2>4, <2>5 DEF RecordOf
  <2>7. bucket'["resolved"] = bucket["resolved"] \ {c}
    BY <2>1, <2>2, <2>3 DEF Downgraded, Recorded, CrewsInv, TypeOK, WeekTypes, Buckets
  <2>8. SuccessRecorded' /\ PointBack'
    BY <2>3, <2>5, <2>7 DEF CrewsInv, SuccessRecorded, PointBack, TypeOK, WeekTypes, Buckets
  <2>9. StaleClosed'
    BY <2>1, <2>2, <2>3, <2>5, <2>7 DEF CrewsInv, StaleClosed, TypeOK, TeamTypes
  <2> QED
    BY <2>3, <2>5, <2>6, <2>8, <2>9, CrewChanged
<1>2. CASE ~ (overloaded /\ bucket["resolved"] # {})
  BY <1>2, QuietCrews DEF Friction, teamVars
<1> QED
  BY <1>1, <1>2

\* New cases are open, and blank as their places were.
LEMMA SpawnCrews ==
    ASSUME CrewsInv, TypeOK', NEW n \in Nat, NEW R, NEW s, Spawn(n, R, s),
           UNCHANGED <<assignedTeamIds, weeksRemaining, teamVars, weekVars>>
    PROVE  CrewsInv'
<1> DEFINE new == caseCount + 1 .. caseCount + n
<1>1. /\ caseCount \in Nat /\ caseCount' = caseCount + n /\ caseCount' <= MaxCases
      /\ MaxCases \in Nat
      /\ \A c \in Cases : caseStatus'[c] = IF c \in new THEN "open" ELSE caseStatus[c]
  BY ConstantsAssumption DEF Spawn, CrewsInv, TypeOK, CaseTypes, Cases
<1>2. \A c \in Live' : c \in Live \/ (c \in new /\ c \in Cases \ Live)
  BY <1>1 DEF Live, Cases
<1>3. \A c \in Live : c \in Cases /\ c \notin new
  BY <1>1 DEF Live, Cases
<1>4. ASSUME NEW c \in Live' PROVE RecordOf(c)' /\ caseStatus'[c] # "unspawned"
  <2>1. CASE c \in Live
    BY <1>1, <1>3, <2>1 DEF RecordOf, CrewsInv, OperationRecord, BlankUntilSpawned
  <2>2. CASE c \in new /\ c \in Cases \ Live
    BY <1>1, <2>2 DEF RecordOf, CrewsInv, BlankUntilSpawned
  <2> QED
    BY <1>2, <2>1, <2>2
<1>5. Cases \ Live' \subseteq Cases \ Live /\ new \subseteq Live'
  BY <1>1 DEF Live, Cases
<1>6. OperationRecord' /\ BlankUntilSpawned' /\ UnspawnedUntouched'
  BY <1>1, <1>4, <1>5
     DEF CrewsInv, OperationRecord, BlankUntilSpawned, UnspawnedUntouched, RecordOf
<1>7. \A c \in bucket["resolved"] : c \in Cases /\ caseStatus[c] = "resolved"
  BY DEF CrewsInv, SuccessRecorded, TypeOK, WeekTypes, Buckets
<1>8. \A c \in new : c \in Cases => caseStatus[c] = "unspawned"
  BY <1>1 DEF CrewsInv, UnspawnedUntouched, Live, Cases
<1>9. SuccessRecorded' /\ PointBack'
  BY <1>1, <1>7, <1>8 DEF CrewsInv, SuccessRecorded, PointBack, weekVars, teamVars
<1>10. StaleClosed'
  <2>1. teamCase \in [Teams -> Cases \cup {NoCase}]
    BY DEF CrewsInv, TypeOK, TeamTypes
  <2> QED
    BY <1>1, <1>8, <2>1 DEF CrewsInv, StaleClosed, weekVars, teamVars
<1> QED
  BY <1>6, <1>9, <1>10 DEF CrewsInv

\* Every step of Deployment keeps the lists backed by the pointers, also when
\* stale pointers are about.
LEMMA CrewsStep == CrewsInv /\ Next => CrewsInv'
<1> SUFFICES ASSUME CrewsInv, Next PROVE CrewsInv'
  OBVIOUS
<1>1. TypeOK'
  BY TypeStep DEF CrewsInv
<1>2. CASE Command
  <2>1. ASSUME NEW a \in Agents, NEW t \in Teams \cup {NoTeam}, MoveAgent(a, t)
        PROVE  CrewsInv'
    BY <1>1, <2>1, NormalizedCrews DEF MoveAgent, weekVars
  <2>2. ASSUME NEW A, QueueTraining(A) \/ CancelTraining(A)
        PROVE  CrewsInv'
    BY <1>1, <2>2, NormalizedCrews DEF QueueTraining, CancelTraining, EndTraining, weekVars
  <2> QED
    BY <1>1, <1>2, <2>1, <2>2, AssignTeamCrews, LaunchCrews, UnassignCrews, TeamIdsCrews
       DEF Command
<1>3. CASE BeginWeek
  BY <1>1, <1>3, QuietCrews DEF BeginWeek, FreshWeek, NoBuckets, Buckets, caseVars, teamVars
<1>4. CASE AdvanceEndedCampaign
  BY <1>1, <1>4, NormalizedCrews DEF AdvanceEndedCampaign, weekVars
<1>5. CASE Week
  <2>1. CASE PrepareAgents \/ SkipRotation
    BY <1>1, <2>1, QuietCrews DEF PrepareAgents, SkipRotation, caseVars, teamVars, weekVars
  <2>2. ASSUME NEW t \in Teams, NEW out \in Agents, NEW in \in Agents,
               RotateFieldBase(t, out, in)
        PROVE  CrewsInv'
    BY <1>1, <2>2, NormalizedCrews DEF RotateFieldBase, weekVars
  <2>3. CASE SkipResolve \/ SkipEscalation
    <3>1. cursor \in Cases
      BY <2>3, Visited DEF SkipResolve, SkipEscalation, CrewsInv
    <3>2. assignedTeamIds' = assignedTeamIds
      BY <2>3, <3>1, CrewExists DEF SkipResolve, SkipEscalation, CrewsInv, TypeOK, CaseTypes
    <3> QED
      BY <1>1, <2>3, <3>2, QuietCrews DEF SkipResolve, SkipEscalation, teamVars, weekVars
  <2>4. CASE \E pressed \in BOOLEAN : CountDown(pressed)
    BY <1>1, <2>4, QuietCrews DEF CountDown, teamVars
  <2>5. ASSUME NEW pressed \in BOOLEAN, EscalateCase(pressed) PROVE CrewsInv'
    <3>1. bucket'["resolved"] = bucket["resolved"]
      BY <2>5 DEF EscalateCase, Recorded, CrewsInv, TypeOK, WeekTypes, Buckets
    <3>2. /\ UNCHANGED <<assignedTeamIds, teamCase, teamIds, caseCount, caseStatus, weeksRemaining>>
          /\ finalized \subseteq finalized'
      BY <2>5 DEF EscalateCase, teamVars
    <3> QED
      BY <1>1, <3>1, <3>2, QuietCrews
  <2>6. CASE SpawnFollowUps
    <3>1. PICK n \in Nat, R \in SUBSET Cases : Spawn(n, R, OpeningStage)
      BY <2>6, FollowUpSpawn DEF CrewsInv
    <3> QED
      BY <1>1, <2>6, <3>1, SpawnCrews DEF SpawnFollowUps
  <2>7. CASE SpawnPressureIncidents
    <3>1. PICK n \in 0 .. MaxSpawn, s \in {OpeningStage, PressureStage} :
              Spawn(n, caseCount + 1 .. caseCount + n, s)
      BY <2>7 DEF SpawnPressureIncidents
    <3>2. n \in Nat
      BY ConstantsAssumption
    <3> QED
      BY <1>1, <2>7, <3>1, <3>2, SpawnCrews DEF SpawnPressureIncidents
  <2>8. CASE CloseWeek
    BY <1>1, <2>8, NormalizedCrews DEF CloseWeek, EndTraining, FreshWeek, NoBuckets, Buckets
  <2> QED
    BY <1>1, <1>5, <2>1, <2>2, <2>3, <2>4, <2>5, <2>6, <2>7, <2>8, ContinueCrews,
       ResolveCrews, FrictionCrews DEF Week
<1> QED
  BY <1>2, <1>3, <1>4, <1>5 DEF Next

\* The closure empties the lists of the cases it closes; the teams that still
\* point at them are listed by nobody.
LEMMA ClosureCrews ==
    ASSUME CrewsInv, NEW C \in SUBSET Cases, CloseFinalizedCases(C)
    PROVE  CrewsInv'
<1>1. /\ assignedTeamIds \in [Cases -> SUBSET Teams] /\ C \subseteq Live /\ Live \subseteq Cases
      /\ caseStatus' = [c \in Cases |-> IF c \in C THEN "resolved" ELSE caseStatus[c]]
      /\ assignedTeamIds' = [c \in Cases |-> IF c \in C THEN {} ELSE assignedTeamIds[c]]
      /\ weeksRemaining' = [c \in Cases |-> IF c \in C THEN 0 ELSE weeksRemaining[c]]
      /\ UNCHANGED <<caseCount, teamIds, teamCase, bucket, finalized>>
  BY LiveCases DEF CloseFinalizedCases, ListsAfter, Unresolved, teamVars, weekVars, CrewsInv,
                   TypeOK, CaseTypes
<1>2. TypeOK'
  <2>1. CaseTypes'
    BY <1>1, ConstantsAssumption
       DEF CloseFinalizedCases, CrewsInv, TypeOK, CaseTypes, Statuses
  <2>2. TeamTypes' /\ AgentTypes' /\ WeekTypes'
    BY DEF CloseFinalizedCases, CrewsInv, TypeOK, TeamTypes, AgentTypes, WeekTypes,
           teamVars, agentVars, weekVars
  <2> QED
    BY <2>1, <2>2 DEF TypeOK
<1>3. PointBack'
  BY <1>1 DEF CrewsInv, PointBack
<1>4. OperationRecord' /\ BlankUntilSpawned' /\ UnspawnedUntouched'
  BY <1>1 DEF CrewsInv, OperationRecord, BlankUntilSpawned, UnspawnedUntouched, Live
<1>5. SuccessRecorded'
  BY <1>1 DEF CrewsInv, SuccessRecorded, TypeOK, WeekTypes, Buckets
<1>6. StaleClosed'
  <2>1. \A c \in C : c \notin bucket["resolved"]
    BY DEF CloseFinalizedCases, Unresolved, CrewsInv, SuccessRecorded
  <2>2. teamCase \in [Teams -> Cases \cup {NoCase}]
    BY DEF CrewsInv, TypeOK, TeamTypes
  <2> QED
    BY <1>1, <2>1, <2>2 DEF CrewsInv, StaleClosed
<1> QED
  BY <1>2, <1>3, <1>4, <1>5, <1>6 DEF CrewsInv

\* The strengthened invariant holds from the opening save on.
LEMMA CrewsInvariant == ClosureSpec => []CrewsInv
<1>1. ClosureInit => CrewsInv
  <2> SUFFICES ASSUME ClosureInit PROVE CrewsInv
    OBVIOUS
  <2>1. TypeOK
    BY InitTypes DEF ClosureInit
  <2>2. PointBack /\ StaleClosed /\ OperationRecord /\ BlankUntilSpawned
    BY ConstantsAssumption
       DEF ClosureInit, Init, PointBack, StaleClosed, OperationRecord, BlankUntilSpawned,
           Live, Cases
  <2>3. UnspawnedUntouched /\ SuccessRecorded
    BY ConstantsAssumption DEF ClosureInit, Init, UnspawnedUntouched, SuccessRecorded,
       NoBuckets, Buckets, Live, Cases
  <2> QED
    BY <2>1, <2>2, <2>3 DEF CrewsInv
<1>2. CrewsInv /\ [ClosureNext]_allVars => CrewsInv'
  <2> SUFFICES ASSUME CrewsInv, [ClosureNext]_allVars PROVE CrewsInv'
    OBVIOUS
  <2>1. CASE OrdinaryStep
    BY <2>1, CrewsStep DEF OrdinaryStep
  <2>2. CASE \E C \in SUBSET Cases : CloseFinalizedCases(C)
    BY <2>2, ClosureCrews
  <2>3. CASE UNCHANGED allVars
    <3>1. TypeOK'
      BY <2>3, TypeStep DEF allVars, CrewsInv
    <3> QED
      BY <2>3, <3>1, QuietCrews DEF allVars, vars, caseVars, teamVars, weekVars
  <2> QED
    BY <2>1, <2>2, <2>3 DEF ClosureNext
<1> QED
  BY <1>1, <1>2, PTL DEF ClosureSpec

\* Whichever cases the workshops close, and whatever the player orders next, a
\* team is listed by one case at most, points back at the case that lists it,
\* every case under way has a crew, and a stale pointer names a closed case.
THEOREM ListedPointBack == ClosureSpec => []ListedTeamsPointBack
<1>1. CrewsInv => ListedTeamsPointBack
  <2>1. CrewsInv => Live \subseteq Cases
    BY LiveCases DEF CrewsInv
  <2> QED
    BY <2>1 DEF CrewsInv, PointBack, StaleClosed, OperationRecord, ListedTeamsPointBack
<1> QED
  BY <1>1, CrewsInvariant, PTL

\* The records of operations survive the closure too: an open case is without
\* a clock and one under way has weeks to go.
THEOREM ClosureKeepsRecords == ClosureSpec => []OperationRecord
<1>1. CrewsInv => OperationRecord
  BY DEF CrewsInv
<1> QED
  BY <1>1, CrewsInvariant, PTL

\* A stale pointer lasts only until the player's next command or the end of the
\* next week: the step that returns to the player has normalized the game.
THEOREM RepairedAtOnce ==
    ClosureSpec => [][OrdinaryStep /\ phase' = "command" => Normalized']_allVars
<1>1. CrewsInv /\ [ClosureNext]_allVars
          => [OrdinaryStep /\ phase' = "command" => Normalized']_allVars
  <2> SUFFICES ASSUME CrewsInv, Next, phase' = "command" PROVE Normalized'
    BY DEF OrdinaryStep
  <2>1. assignedTeamIds \in [Cases -> SUBSET Teams]
    BY DEF CrewsInv, TypeOK, CaseTypes
  <2>2. ASSUME NEW c \in Cases, NEW S \in SUBSET Teams, NEW P,
               Normalize([assignedTeamIds EXCEPT ![c] = S], P, teamIds), teamIds' = teamIds
        PROVE  Normalized'
    <3> DEFINE L == [assignedTeamIds EXCEPT ![c] = S]
    <3>1. L \in [Cases -> SUBSET Teams] /\ Normalize(L, P, teamIds')
      BY <2>1, <2>2
    <3> HIDE DEF L
    <3> QED
      BY <3>1, NormalizeIdempotent
  <2>3. ASSUME NEW P, Normalize(assignedTeamIds, P, teamIds') PROVE Normalized'
    BY <2>1, <2>3, NormalizeIdempotent
  <2>4. CASE Command
    <3>1. ASSUME NEW c \in Cases, NEW t \in Teams, AssignTeam(c, t) PROVE Normalized'
      <4> DEFINE S == IF caseKind[c] = "raid" THEN Existing(c) \cup {t} ELSE {t}
      <4>1. PICK P : Normalize([assignedTeamIds EXCEPT ![c] = S], P, teamIds)
        BY <3>1 DEF AssignTeam
      <4>2. S \in SUBSET Teams /\ teamIds' = teamIds
        BY <2>1, <3>1 DEF AssignTeam, Existing
      <4> HIDE DEF S
      <4> QED
        BY <2>2, <4>1, <4>2
    <3>2. ASSUME NEW c \in Cases, NEW T \in SUBSET Teams, LaunchMajorIncident(c, T)
          PROVE  Normalized'
      BY <2>2, <3>2 DEF LaunchMajorIncident
    <3>3. ASSUME NEW c \in Cases, NEW T \in SUBSET Teams, UnassignTeam(c, T)
          PROVE  Normalized'
      <4> DEFINE S == Existing(c) \ T
      <4>1. PICK P : Normalize([assignedTeamIds EXCEPT ![c] = S], P, teamIds)
        BY <3>3 DEF UnassignTeam
      <4>2. S \in SUBSET Teams /\ teamIds' = teamIds
        BY <2>1, <3>3 DEF UnassignTeam, Existing
      <4> HIDE DEF S
      <4> QED
        BY <2>2, <4>1, <4>2
    <3>4. ASSUME NEW t, NEW a, MoveAgent(a, t) \/ CreateTeam(t, a) PROVE Normalized'
      BY <2>3, <3>4 DEF MoveAgent, CreateTeam
    <3>5. ASSUME NEW t, DeleteEmptyTeam(t) PROVE Normalized'
      BY <2>3, <3>5 DEF DeleteEmptyTeam
    <3>6. ASSUME NEW A, QueueTraining(A) \/ CancelTraining(A) PROVE Normalized'
      BY <2>3, <3>6 DEF QueueTraining, CancelTraining, EndTraining
    <3> QED
      BY <2>4, <3>1, <3>2, <3>3, <3>4, <3>5, <3>6 DEF Command
  <2>5. CASE AdvanceEndedCampaign
    BY <2>3, <2>5 DEF AdvanceEndedCampaign
  <2>6. CASE CloseWeek
    BY <2>3, <2>6 DEF CloseWeek, EndTraining
  <2>7. CASE BeginWeek \/ (Week /\ ~ CloseWeek)
    BY <2>7 DEF BeginWeek, Week, PrepareAgents, RotateFieldBase, SkipRotation, SkipResolve,
                ContinueOperation, ResolveOperation, Friction, SkipEscalation, CountDown,
                EscalateCase, SpawnFollowUps, SpawnPressureIncidents, Visiting, Advance
  <2> QED
    BY <2>4, <2>5, <2>6, <2>7 DEF Next
<1> QED
  BY <1>1, CrewsInvariant, PTL DEF ClosureSpec
===============================================================================
