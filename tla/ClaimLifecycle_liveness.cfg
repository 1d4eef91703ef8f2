SPECIFICATION FairGrantedSpec
CONSTANTS
  c1 = c1  c2 = c2  c3 = c3  w1 = w1  w2 = w2
  NoClaim = NoClaim
  Claims <- TwoClaims
  Caseworkers <- OneCaseworker
  Forms <- MixedForms
  CaseLimit = 3
  HardLimit = 2
  MaxProfitCostPoas = 1
  MaxDecisionIds = 3
PROPERTY
  EveryRequestEnds
