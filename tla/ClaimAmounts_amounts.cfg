SPECIFICATION Spec
CHECK_DEADLOCK FALSE
CONSTANTS
  None = None
  Values <- MCValues
  Approved <- MCApproved
  CaseLimit = 5
  HardLimit = 3
INVARIANTS
  PaidWithinBounds
  EmptyPaymentIsOfNothing
