SPECIFICATION Spec
CONSTANTS
  Services <- MCServices
  Homes = 6
  TechnologyOf <- MCTechnologyOf
  Cases <- MCCases
  ScenarioOf <- MCScenarioOf
  TicketFloor = 2
  Clients = {c1, c2}
  WatchRequests <- MCWatchRequests
  ScanRequests <- MCScanRequests
  Legacy <- MCLegacy
  None = None
SYMMETRY Symmetry
INVARIANTS
  ReadersSeeWholeWatches
  AnsweredScansAreWhole
  LifecycleOnlyAdvances
  PassedIsEarned
  ClosedIncidentIsRestored
  EveryImpairmentIsTicketed
