SPECIFICATION Spec
CONSTANTS
  Agents = {a1, a2, a3}
  Instructors = {i1, i2}
  NoAgent = NoAgent
  NoCourse = NoCourse
  SoloPrograms <- Solo
  DrillPrograms <- Drills
  TrainingSlots = 2
  MaxTier = 1
  UpgradeCost <- Upgrade
  MaxFunding = 7
INVARIANTS SlotsBound DrillsStayTogether InstructorsTeach
PROPERTIES NoMoneyFromTraining
SYMMETRY Interchangeable
