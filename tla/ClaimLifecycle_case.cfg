SPECIFICATION CaseSpec
CONSTANTS
  c1 = c1  c2 = c2  c3 = c3  w1 = w1  w2 = w2
  NoClaim = NoClaim
  Claims <- MCClaims
  Caseworkers <- MCCaseworkers
  Forms <- CaseForms
  CaseLimit = 1
  HardLimit = 1
  MaxProfitCostPoas = 3
  MaxDecisionIds = 3
SYMMETRY Symmetry
INVARIANTS
  PaymentsFollowDecisions
  ActiveFinalBillsOverlapped
  LimitOverrunIsConcurrent
