SPECIFICATION CrewSpec
CONSTANTS
  Kinds = {1, 2, 3, 4, 5, 6}
  CustomerOf <- MCCustomerOf
  ContextOf <- MCContextOf
  UrgencyAt <- MCUrgencyAt
  CrewHours = 30
  RaisedHours <- MCRaisedHours
  ArrivalHours = 22
  MaxWait = 4
INVARIANTS
  NobodyStarves
  IslandsAreHeldInTime
