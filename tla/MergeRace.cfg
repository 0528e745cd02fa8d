CONSTANTS
  Issues <- One
  Deps <- OneWaitsNot
  Needs <- OneWaitsNot
  Kind <- OneBuild
  Rank <- OneRank
  SideTasks <- NoSideTasks
  Limit = 1
  Operators = {o1, o2}
  Used <- Closing
  Faults <- Everything
  Tasks <- Shipping
  Manual <- Shipping
  MaxCommits = 3
  MaxFailures = 0
  Threshold = 1
  MaxCycles = 0
SYMMETRY OperatorSymmetry
SPECIFICATION DeliverySpec
PROPERTIES
  MergesWhatWasReviewed
  CleanupAfterIntegration
  ImplementsWorkflow
CHECK_DEADLOCK FALSE
