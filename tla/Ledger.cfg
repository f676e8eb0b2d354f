\* Two companies of two tenants, three closes that overlap or touch, two versions
\* of the evidence, and work inside and across the locks.
CONSTANTS
  o1 = o1
  o2 = o2
  m1 = m1
  m2 = m2
  h1 = h1
  h2 = h2
  r1 = r1
  r2 = r2
  None = None
  Orgs <- MCOrgs
  Companies <- MCCompanies
  Closes <- MCCloses
  Works <- MCWorks
  Hashes <- MCHashes
  Reasons <- MCReasons
SYMMETRY MCSymmetry
SPECIFICATION Spec
INVARIANTS
  TypeOK
  NoOverlappingLocks
  LockDocumentsAgree
  LockHistoryIsOnRecord
  TenantOwnsItsDocuments
PROPERTIES
  LockedWorkIsFrozen
  LockHistoryMovesForward
  ImplementsPeriodLocking
