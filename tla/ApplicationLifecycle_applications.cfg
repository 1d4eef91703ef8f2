SPECIFICATION Spec
CONSTANTS
  a1 = a1  a2 = a2  d1 = d1  d2 = d2  d3 = d3  u1 = u1  u2 = u2
  r1 = r1  r2 = r2  bad = bad  b1 = b1  b2 = b2
  NoOne = NoOne
  Applications <- MCApplications
  Requests <- MCRequests
  Updates <- MCUpdates
  Forms <- MCForms
  References <- MCReferences
  BannedReferences <- MCBanned
  Details <- MCDetails
  Bodies <- MCBodies
  MaxFaults = 1
CONSTRAINT FewRequests
SYMMETRY Symmetry
INVARIANTS
  TypeOK
  ReferencesUnique
  PendingDuplicatesShown
  LastEmailTellsDecision
  DecisionStandsUnlessOverlapped
  ToldInVainHasItsFault
  MergedBodiesOverlapped
