SPECIFICATION Spec
CONSTANTS
  letter = letter
  advice = advice
  weekly = weekly
  ticks = ticks
  yes = yes
  no = no
  NoOption = NoOption
  NoTime = NoTime
  Decisions = {d1, d2}
  Producers = {letter, advice}
  Clocks = {weekly, ticks}
  ClockOf <- ClockMap
  OptionsOf <- OptionMap
  DefaultOf <- DefaultMap
  ContractOf <- ContractMap
  LetterProducers = {letter}
  MaxTime = 2
INVARIANTS TypeOK DefaultOnce RightSideOfDeadline
PROPERTIES DecidedStaysDecided
CHECK_DEADLOCK FALSE
