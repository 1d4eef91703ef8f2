SPECIFICATION Spec
CONSTANTS
  c1 = c1  c2 = c2  c3 = c3  w1 = w1  w2 = w2
  NoClaim = NoClaim
  Claims <- TwoClaims
  Caseworkers <- MCCaseworkers
  Forms <- MixedForms
  CaseLimit = 4
  HardLimit = 2
  MaxProfitCostPoas = 1
  MaxDecisionIds = 3
SYMMETRY Symmetry
INVARIANTS
  TypeOK
  StatusFollowsDecisions
  TwicePaidHasAnEmptyPayment
  PoaCountOverrunIsConcurrent
PROPERTIES
  
  ImplementsAssessment
