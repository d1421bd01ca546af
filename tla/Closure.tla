-------------------------------- MODULE Closure --------------------------------
(***************************************************************************)
(* The week of Deployment together with the workshops' closure of cases.   *)
(*                                                                         *)
(* advanceWeek ends with reconcileDepartmentWorkshopCaseHandoffs, after    *)
(* every pass of Deployment and after the last normalizeGameState: a case  *)
(* whose final product was enqueued is resolved, whether or not teams work *)
(* on it.  Which cases those are is the subject of Workshop; here they are *)
(* chosen freely.                                                          *)
(***************************************************************************)
EXTENDS Deployment

VARIABLE closing    \* advanceWeek has yet to close the workshops' cases

allVars == <<closing, vars>>

ClosureInit == Init /\ closing = FALSE

\* Mutant: the closed case keeps its list of teams.
ListsKept(C) == assignedTeamIds

\* A closed case lists no team any more.
ListsAfter(C) == [c \in Cases |-> IF c \in C THEN {} ELSE assignedTeamIds[c]]

\* resolveCaseScopedWorkshopFinalizationCases: the records of the cases change,
\* those of their teams and agents do not.
CloseFinalizedCases(C) ==
    /\ closing
    /\ C \subseteq Unresolved
    /\ closing' = FALSE
    /\ caseStatus' = [c \in Cases |-> IF c \in C THEN "resolved" ELSE caseStatus[c]]
    /\ assignedTeamIds' = ListsAfter(C)
    /\ weeksRemaining' = [c \in Cases |-> IF c \in C THEN 0 ELSE weeksRemaining[c]]
    /\ UNCHANGED <<phase, cursor, gameOver, caseCount, caseKind, stage, deadlineRemaining,
                   majorIncident, teamVars, agentVars, weekVars>>

\* A step of Deployment; the last pass of the week leaves the closure to come.
OrdinaryStep ==
    /\ ~closing
    /\ Next
    /\ closing' = (phase = "queues")

ClosureNext == OrdinaryStep \/ \E C \in SUBSET Cases : CloseFinalizedCases(C)

ClosureSpec == ClosureInit /\ [][ClosureNext]_allVars

-----------------------------------------------------------------------------

\* Cases that were closed with teams on them leave those teams pointing at a
\* case that no longer lists them; even so no team is ever listed by two cases,
\* a listed team points back at its case, every case under way has a crew, and
\* a team nobody lists points, if anywhere, at a case that is closed.
ListedTeamsPointBack ==
    /\ \A c \in Live :
          /\ \A t \in assignedTeamIds[c] : t \in teamIds /\ teamCase[t] = c
          /\ caseStatus[c] = "in_progress" <=> assignedTeamIds[c] # {}
    /\ \A t \in Teams : \/ teamCase[t] = NoCase
                        \/ t \in assignedTeamIds[teamCase[t]]
                        \/ caseStatus[teamCase[t]] = "resolved"

\* src/test/sim.pipeline.invariants.test.ts:1027 says "every team-mutating domain
\* mutator emits already-normalized team state", and tests advanceWeek for it:
\* when a week is over, normalizing the game again would change no team.
WeekLeavesTeamsNormalized ==
    phase = "command" /\ ~closing =>
        teamCase = NormalPointers(teamCase, NormalAssignments(assignedTeamIds, teamIds))
===============================================================================
