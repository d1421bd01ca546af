SPECIFICATION FairSpec
CONSTANTS
  t1 = t1  t2 = t2  t3 = t3  a1 = a1  a2 = a2  a3 = a3
  Teams = {t1, t2}
  NoTeam = NoTeam
  Agents = {a1, a2}
  NoWeeks = NoWeeks
  MaxCases = 2
  InitialCases = 1
  InitialMembers <- Singles
  InitialTeams = {t1, t2}
  FieldBaseCases = {1}
  DurationWeeks = 2
  LongestWeeks = 3
  DeadlineWeeks = 1
  OpeningStage = 1
  PressureStage = 1
  TopStage = 2
  StageDelta = 1
  RaidStage = 2
  OperationalStage = 2
  RaidTeams = 2
  MajorTeams = 2
  OverloadThreshold = 1
  MaxActiveCases = 2
  MaxSpawn = 1
  DeadlineChecks = 1
INVARIANTS TypeOK OneTeamPerAgent TeamCaseAgreement DeployedAgentsAgree NoTrainingInTheField TrainingQueueAgrees BenchedStayHome OperationRecord CommittedTeams OperationStaffed
PROPERTIES OperationsEnd
