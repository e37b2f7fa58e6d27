SPECIFICATION Spec
CONSTANTS
  RepeatEvery = 3
  TotalCases = 6
  Places <- MCPlaces
  Configurations <- MCConfigurations
  Answers <- MCAnswers
INVARIANTS
  RefusedForCitationsOnly
  ClosedWhileRestored
  RepeatsFormAChain
  ApprovedBeforeActing
  ProjectionAccountsForWork
