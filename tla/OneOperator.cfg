\* One operator, every command but the explicit claim and the clear recovery.
CONSTANTS
  Issues <- Pair
  Deps <- SecondWaits
  Needs <- SecondWaits
  Kind <- PairKind
  Rank <- PairRank
  SideTasks <- NoSideTasks
  Limit = 2
  Operators = {o1}
  Used <- PlannedWork
  Faults <- Unreliable
SPECIFICATION Spec
INVARIANTS
  OneState
  GateWhileActive
  DoneMeansEvidence
  MergedMeansShipped
PROPERTIES
  CompletedIsFinal
  ImplementsLifecycle
CHECK_DEADLOCK FALSE
