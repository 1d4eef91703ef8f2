SPECIFICATION Spec
CONSTANTS
  e1 = e1  e2 = e2  l1 = l1  c1 = c1  c2 = c2  a1 = a1  x1 = x1  x2 = x2  r1 = r1
  Nobody = Nobody
  Evidence <- MCEvidence
  Letters <- MCLetters
  Claims <- MCClaims
  Applications <- MCApplications
  Deletions <- MCDeletions
  Downloads <- MCDownloads
  MaxFaults = 1
SYMMETRY Symmetry
INVARIANTS
  TypeOK
  OrphanFilesHaveTheirFault
  LostFilesHaveTheirCause
  DeletionsAnsweredTruly
  EvidenceFollowsClaims
  BrokenDownloadsHaveTheirCause
PROPERTY ImplementsCustody
