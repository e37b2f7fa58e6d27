CONSTANTS
  Calls = {c1, c2, c3}
  Requests <- AllRequests
  None = None
SPECIFICATION Spec
CHECK_DEADLOCK FALSE
INVARIANTS
  OneApprovalOneEffect
PROPERTY
  ImplementsLedger
