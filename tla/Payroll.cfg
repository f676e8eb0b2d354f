SPECIFICATION Spec
CONSTANTS
    None = None
    Workers <- MCWorkers
    Pays <- UnitPays
    MaxPeriods <- MCPeriods
INVARIANTS
  JournalsBalance
  SplitDoesNotMatter
  
  FrequencyDoesNotMatter
  EnginesPassTheirSelfTests
