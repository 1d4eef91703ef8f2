SPECIFICATION GrantedSpec
CONSTANTS
  c1 = c1  c2 = c2  c3 = c3  w1 = w1  w2 = w2
  NoClaim = NoClaim
  Claims <- TwoClaims
  Caseworkers <- OneCaseworker
  Forms <- BillForms
  CaseLimit = 3
  HardLimit = 3
  MaxProfitCostPoas = 1
  MaxDecisionIds = 3
SYMMETRY Symmetry
PROPERTY
  NoClaimBesideFinalBill
