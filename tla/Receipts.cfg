CONSTANTS
  u1 = u1
  u2 = u2
  f1 = f1
  d1 = d1
  d2 = d2
  p1 = p1
  p2 = p2
  t1 = t1
  t2 = t2
  k1 = k1
  k2 = k2
  r1 = r1
  r2 = r2
  None = None
  Users <- MCUsers
  Files <- MCFiles
  Docs <- MCDocs
  Packs <- MCPacks
  Txs <- MCTxOne
  Cats <- MCCatOne
  BuiltInRule <- MCBuiltInOne
  Requests <- MCOneRequest
  Ops <- MCAllOps
  Modes <- MCModes
  DocumentDays = 1
  OpenDays = 1
  SignedDays = 2
  MaxTime = 2
  MaxCrashes = 0
  MaxRevision = 3
SYMMETRY MCSymmetry
SPECIFICATION Spec
INVARIANTS
  FilesAreKeptTogether
  VersionsAreDistinct

  
