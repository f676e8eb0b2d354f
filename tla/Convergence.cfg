\* Requests die between the two stores and their users ask again; two closes overlap,
\* a third is blocked by its core controls; real-data modes and LAB.
CONSTANTS
  org = org
  m1 = m1
  q1 = q1
  full = full
  gap = gap
  s1 = s1
  s2 = s2
  good = good
  better = better
  bad = bad
  r1 = r1
  r2 = r2
  why1 = why1
  why2 = why2
  a = a
  b = b
  x = x
  None = None
  Modes <- MCAllModes
  Org = org
  Closes <- MCClosesBlocked
  Requests <- MCOneRequest
  Ops <- CloseOps
  Registries <- MCRegistries
  Artifacts <- MCArtifactsFull
  CompleteSources <- MCComplete
  Scopes <- MCScopeOne
  Entries <- MCEntriesGood
  PassingBalances <- MCPassing
  Reasons <- MCReasonOne
  MaxCrashes = 1
SPECIFICATION FairSpec
INVARIANTS
  MirroredLocksDoNotOverlap

  
