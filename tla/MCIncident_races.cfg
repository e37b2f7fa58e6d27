CONSTANTS
  Workers = {w1, w2}
  MaxRemote = 2
  MaxField = 2
  MaxMr = 2
  MaxCycles = 1
  MaxSteps = 16
  Scenarios <- RaceFixtures
  Tasks = {"run"}
  Advice = {"unsure"}
  Verdicts = {"approve", "reject", "request_more"}
  Choices = {"none"}
  Others = {}
  MaxFaults = 0
SPECIFICATION Spec
CHECK_DEADLOCK FALSE
SYMMETRY Threads
INVARIANTS
  GateNeedsHuman
PROPERTY
  EffectsAreAuthorised
