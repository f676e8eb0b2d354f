SPECIFICATION Spec
CONSTANTS
    None = None
    Workers <- MCWorkers
    Pays <- UnitPays
    MaxPeriods <- MCPeriods
INVARIANTS
  CppStopsAtTheMaximum
