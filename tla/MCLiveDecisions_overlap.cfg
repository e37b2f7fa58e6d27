SPECIFICATION Spec
CONSTANTS
  RepeatEvery = 10
  Published <- MCPublished
  Requests <- MCFewRequests
  Workers = {w1, w2, w3}
  Clocks <- MCAfter
  Serial = FALSE
  Places <- MCPlaces
  MayCrash = TRUE
SYMMETRY AnyWorker
INVARIANTS
  OneDecisionPerCase
  NoWorkWithoutApproval
