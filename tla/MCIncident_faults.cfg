CONSTANTS
  Workers = {w1}
  MaxRemote = 2
  MaxField = 2
  MaxMr = 1
  MaxCycles = 3
  MaxSteps = 30
  Scenarios <- Diagnosable
  Tasks = {"run"}
  Advice = {"agree", "unsure"}
  Verdicts = {"approve", "reject", "request_more", "override"}
  Choices = {"unknown", "clean_boots"}
  Others <- OtherCases
  MaxFaults = 1
SPECIFICATION Spec
CHECK_DEADLOCK FALSE
INVARIANTS
  EffectsWithinBudget
  NoBlindRepeat
  ClosureIsProven
  EffectsAreAccountedFor
  ReportsMatchTheCase
PROPERTY
  RejectionIsFinal
