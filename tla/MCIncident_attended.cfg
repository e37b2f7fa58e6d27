CONSTANTS
  Workers = {w1}
  MaxRemote = 2
  MaxField = 3
  MaxMr = 2
  MaxCycles = 4
  MaxSteps = 40
  Scenarios <- AllFixtures
  Tasks = {"run", "step"}
  Advice = {"agree", "disagree", "unsure"}
  Verdicts = {"approve", "reject"}
  Choices = {"none"}
  Others = {}
  MaxFaults = 0
SPECIFICATION AttendedSpec
CHECK_DEADLOCK FALSE
PROPERTIES
  CaseIsResolved
  RequestsReturn
