SPECIFICATION Spec
CONSTANTS
  c1 = c1  c2 = c2
  NoClaim = NoClaim
  Claims <- MCClaims
  Day = 2
  LastTick = 6
  MaxFaults = 1
SYMMETRY Symmetry
PROPERTY
  FailureDoesNotBlockOthers
CHECK_DEADLOCK FALSE
