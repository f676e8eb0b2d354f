\* One request at a time, any of which may die half-way; one close, evidence that passes
\* and evidence that does not; real-data modes and LAB.
CONSTANTS
  org = org
  m1 = m1
  q1 = q1
  full = full
  gap = gap
  s1 = s1
  s2 = s2
  good = good
  better = better
  bad = bad
  r1 = r1
  r2 = r2
  why1 = why1
  why2 = why2
  a = a
  b = b
  x = x
  None = None
  Modes <- MCAllModes
  Org = org
  Closes <- MCOneClose
  Requests <- MCOneRequest
  Ops <- AllOps
  Registries <- MCRegistries
  Artifacts <- MCArtifacts
  CompleteSources <- MCComplete
  Scopes <- MCScopes
  Entries <- MCEntriesTwoWays
  PassingBalances <- MCPassing
  Reasons <- MCReasonOne
  MaxCrashes = 1
SPECIFICATION Spec
INVARIANTS
  ApprovedEvidencePasses
  LockedEvidenceIsApproved
  ReopenedCloseIsFinal
  StoresAgreeAtRest
PROPERTIES
  LockedEvidenceIsFrozen
