SPECIFICATION FairSpec
CHECK_DEADLOCK FALSE
CONSTANTS
  r1 = r1  r2 = r2  u1 = u1  u2 = u2
  Nobody = Nobody
  Requests <- TwoRequests
  Tokens <- MCTokens
  AllowedScopes <- MCAllowedScopes
  RolePermissions <- RolePermissionsMap
  Endpoint <- EndpointTable
  OperationsOf <- MCOperationsOf
  PoolSize = 1
  Threads = 1
INVARIANTS
  TypeOK
  DataNeedsAuthority
  AttemptsAreAudited
  AnswersTellWhatIsStored
PROPERTY
  EveryRequestAnswered
