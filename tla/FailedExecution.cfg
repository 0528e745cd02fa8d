CONSTANTS
  Issues <- One
  Deps <- OneWaitsNot
  Needs <- OneWaitsNot
  Kind <- OneReview
  Rank <- OneRank
  SideTasks <- NoSideTasks
  Limit = 1
  Operators = {o1}
  Used <- Working
  Faults <- Recoverable
  Tasks <- AllTasks
  Manual <- AllTasks
  MaxCommits = 2
  MaxFailures = 1
  Threshold = 1
  MaxCycles = 2
SPECIFICATION DeliverySpec
INVARIANTS
  DoneMeansSucceeded
CHECK_DEADLOCK FALSE
