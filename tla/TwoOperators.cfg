\* Two operators on one issue: every command, every failure.
CONSTANTS
  Issues <- One
  Deps <- OneWaitsNot
  Needs <- OneWaitsNot
  Kind <- OneKind
  Rank <- OneRank
  SideTasks <- NoSideTasks
  Limit = 1
  Operators = {o1, o2}
  Used <- Everything
  Faults <- UnreliableReads
SYMMETRY OperatorSymmetry
SPECIFICATION Spec
INVARIANTS
  TypeOK
  CompletedMeansMerged
  MergedMeansShipped
PROPERTY
  FinishedStaysFinished
CHECK_DEADLOCK FALSE
