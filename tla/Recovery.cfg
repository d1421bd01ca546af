SPECIFICATION Spec
CONSTANTS
  t1 = t1  t2 = t2  t3 = t3  a1 = a1  a2 = a2  a3 = a3
  Teams = {t1}
  NoTeam = NoTeam
  Agents = {a1, a2}
  NoWeeks = NoWeeks
  MaxCases = 1
  InitialCases = 1
  InitialMembers <- Squad
  InitialTeams = {t1}
  FieldBaseCases = {}
  DurationWeeks = 1
  LongestWeeks = 1
  DeadlineWeeks = 1
  OpeningStage = 1
  PressureStage = 1
  TopStage = 2
  StageDelta = 1
  RaidStage = 2
  OperationalStage = 3
  RaidTeams = 2
  MajorTeams = 2
  OverloadThreshold = 9
  MaxActiveCases = 1
  MaxSpawn = 0
  DeadlineChecks = 1
INVARIANTS
  TemporaryLossTracked
