\* Two requests interleave: approval and reconciliation of one close.
CONSTANTS
  org = org
  m1 = m1
  q1 = q1
  full = full
  gap = gap
  s1 = s1
  s2 = s2
  good = good
  better = better
  bad = bad
  r1 = r1
  r2 = r2
  why1 = why1
  why2 = why2
  a = a
  b = b
  x = x
  None = None
  Modes <- MCRealModes
  Org = org
  Closes <- MCOneClose
  Requests <- MCTwoRequests
  Ops <- CloseOps
  Registries <- MCRegistries
  Artifacts <- MCArtifactsFull
  CompleteSources <- MCComplete
  Scopes <- MCScopeOne
  Entries <- MCEntries
  PassingBalances <- MCPassing
  Reasons <- MCReasonOne
  MaxCrashes = 0
SPECIFICATION Spec
INVARIANTS
  ApprovedEvidencePasses
