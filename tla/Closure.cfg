SPECIFICATION ClosureSpec
CONSTANTS
  t1 = t1  t2 = t2  a1 = a1  a2 = a2
  Teams = {t1, t2}
  NoTeam = NoTeam
  Agents = {a1, a2}
  NoWeeks = NoWeeks
  MaxCases = 2
  InitialCases = 2
  InitialMembers <- Pair
  InitialTeams = {t1, t2}
  FieldBaseCases = {}
  DurationWeeks = 2
  LongestWeeks = 2
  DeadlineWeeks = 1
  OpeningStage = 1
  PressureStage = 1
  TopStage = 2
  StageDelta = 1
  RaidStage = 2
  OperationalStage = 3
  RaidTeams = 2
  MajorTeams = 2
  OverloadThreshold = 1
  MaxActiveCases = 2
  MaxSpawn = 0
  DeadlineChecks = 1
INVARIANTS ListedTeamsPointBack
