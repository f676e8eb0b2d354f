\* One request at a time, any of which may die half-way; two periods that share a day.
CONSTANTS
  x1 = x1
  x2 = x2
  r1 = r1
  r2 = r2
  None = None
  Org = "org"
  Company = "m1"
  Periods <- MCPeriodsShared
  Inputs <- MCInputs
  Requests <- MCOneRequest
  MaxReopens = 1
  MaxCrashes = 1
  Interleaved = FALSE
SPECIFICATION Spec
INVARIANTS
  
  LineageIsAChain
PROPERTIES
  RetriesKeepTheClose
  LockedPeriodBlocksCycles
