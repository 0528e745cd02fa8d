CONSTANTS
  Issues <- One
  Deps <- OneWaitsNot
  Needs <- OneWaitsNot
  Kind <- OneBuild
  Rank <- OneRank
  SideTasks <- NoSideTasks
  Limit = 1
  Operators = {o1}
  Used <- Working
  Faults <- Recoverable
  Tasks <- AllTasks
  Manual <- Reviewing
  MaxCommits = 2
  MaxFailures = 1
  Threshold = 3
  MaxCycles = 2
SPECIFICATION FairDeliverySpec
INVARIANTS
  DoneWorkPasses
  NoBlindRetry
PROPERTIES
  Delivered
CHECK_DEADLOCK FALSE
