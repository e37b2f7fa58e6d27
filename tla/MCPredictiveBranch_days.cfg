SPECIFICATION FairSpec
CONSTANTS
  MaxRetries = 1
  HighBlastRadius = 24
  BehindDelimiter = 8
  BehindPlant = 450
  NoBase = NoBase
  UnknownBase = UnknownBase
  Horizon = 14
  Cap = 1
  MaxAttempts = 2
  HardKpis = {"ds_rx", "us_tx", "ont_rx"}
  PhysicalCauses = {"drop", "tap_or_odp", "plant"}
  DomainOf <- MCDomainOf
  Modems = {1, 2}
  TechnologyOf <- MCTechnologyOf
  Course <- MCCourse
  RelapseAfter <- MCRelapseAfter
  Never = Never
  RepeatWindow = 1
  KeepDays = 2
  Lags = {0, 1, 3}
  MaxTroubles = 2
  Torn = Torn
  None = None
INVARIANTS
  RepeatsAreNotified
  OpenTicketsAreOwned
  AgentsOnlyTighten
PROPERTIES
  FindingsAreAnswered
