SPECIFICATION Spec
CONSTANTS
  RepeatEvery = 10
  Published <- MCPublished
  Requests <- MCRequests
  Workers = {w1, w2}
  Clocks <- MCEither
  Serial = TRUE
  Places <- MCPlaces
  MayCrash = TRUE
SYMMETRY AnyWorker
INVARIANTS
  DecisionIsMirrored
  RestIsProjectable
PROPERTY
  ImplementsBoard
