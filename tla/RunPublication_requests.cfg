SPECIFICATION FairSpec
CONSTANTS
  Runs = {r1, r2}
  Workers = {w1, w2}
  Slow = FALSE
  Gone = Gone
  None = None
CHECK_DEADLOCK FALSE
INVARIANTS
  ActiveRunIsPublished
PROPERTIES
  PublishedIsFinal
  RequestsReturn
