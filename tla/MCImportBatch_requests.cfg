SPECIFICATION Spec
CONSTANTS
  AsOf = 3
  Mode = "point_in_time"
  MaxServices = 2
  Files <- MCFiles
  SourceOf <- MCSourceOf
  Rows <- MCRows
  MaxAnalyses = 2
  MaxUploads = 3
  Workers = {w1, w2}
  Slow = FALSE
  None = None
SYMMETRY MCSymmetry
CHECK_DEADLOCK FALSE
INVARIANTS
  PromisedIsKept
  ReportsAreCurrent
  SparedIsUncontested
