SPECIFICATION OpenSpec
CHECK_DEADLOCK FALSE
CONSTANTS
  a1 = a1  c1 = c1  c2 = c2  r1 = r1  f1 = f1
  Applications <- MCApplications
  Claims <- MCClaims
  Reports <- OneReport
  Firms <- MCFirms
  LineTypes <- MCLineTypes
  AppOf <- MCAppOf
  FirmOf <- MCFirmOf
  TypesOf <- MCTypesOf
  FinalBills <- MCFinalBills
  Amount <- MCAmount
  CostLimit = 2
  DayLength = 2
  LastDay = 1
  MaxRangeDays = 1
INVARIANTS
  TypeOK
  BrokenStreamsHaveTheirCause
  InconsistentReportsOverlapped
  ReportsHoldTheirPast
  SettledIsNotOutstanding
