\* Two operators on a seeded roadmap: only the manifest knows that the second task
\* needs the first.
CONSTANTS
  Issues <- Pair
  Deps <- NoneWaits
  Needs <- SecondWaits
  Kind <- PairKind
  Rank <- PairRank
  SideTasks <- SecondByTheWay
  Limit = 2
  Operators = {o1, o2}
  Used <- Seeded
  Faults <- UnreliableReads
SYMMETRY OperatorSymmetry
SPECIFICATION Spec
INVARIANTS
  RoadmapOrder
  RoadmapGoesOn
PROPERTIES
  ReadyMeansClaimable
CHECK_DEADLOCK FALSE
