CONSTANTS
  Issues <- One
  Deps <- OneWaitsNot
  Needs <- OneWaitsNot
  Kind <- OneBuild
  Rank <- OneRank
  SideTasks <- NoSideTasks
  Limit = 1
  Operators = {o1, o2}
  Used <- Working
  Faults <- Anything
  Tasks <- Executing
  Manual <- Executing
  MaxCommits = 1
  MaxFailures = 3
  Threshold = 1
  MaxCycles = 0
SYMMETRY OperatorSymmetry
SPECIFICATION DeliverySpec
INVARIANTS
  LedgersNeverInvent
PROPERTIES
  ImplementsWorkflow
CHECK_DEADLOCK FALSE
