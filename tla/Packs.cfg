CONSTANTS
  u1 = u1
  u2 = u2
  f1 = f1
  d1 = d1
  d2 = d2
  p1 = p1
  p2 = p2
  t1 = t1
  t2 = t2
  k1 = k1
  k2 = k2
  r1 = r1
  r2 = r2
  None = None
  Users <- MCUsers
  Files <- MCFiles
  Docs <- MCNoDocs
  Packs <- MCPacks
  Txs <- MCTxs
  Cats <- MCCatOne
  BuiltInRule <- MCBuiltInAll
  Requests <- MCTwoRequests
  Ops <- MCEditOps
  Modes <- MCManual
  DocumentDays = 1
  OpenDays = 2
  SignedDays = 1
  MaxTime = 1
  MaxCrashes = 1
  MaxRevision = 2
SYMMETRY MCSymmetry
SPECIFICATION Spec

  
PROPERTIES
  EditsLoseNothing
  RetentionNeverShortens
