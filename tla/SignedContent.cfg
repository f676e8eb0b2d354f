CONSTANTS
  u1 = u1
  u2 = u2
  f1 = f1
  d1 = d1
  d2 = d2
  p1 = p1
  p2 = p2
  t1 = t1
  t2 = t2
  k1 = k1
  k2 = k2
  r1 = r1
  r2 = r2
  None = None
  Users <- MCUsers
  Files <- MCFiles
  Docs <- MCNoDocs
  Packs <- MCPacks
  Txs <- MCTxs
  Cats <- MCCats
  BuiltInRule <- MCBuiltInAll
  Requests <- MCOneRequest
  Ops <- MCSignOps
  Modes <- MCManual
  DocumentDays = 1
  OpenDays = 1
  SignedDays = 2
  MaxTime = 0
  MaxCrashes = 0
  MaxRevision = 3
SPECIFICATION Spec
INVARIANTS
  SignedContentIsFixed
CHECK_DEADLOCK FALSE
