\* Two operators on two issues made by hand, the second depending on the first, that
\* were also put into a manifest: they are claimed and finished while it is cleared.
CONSTANTS
  Issues <- Pair
  Deps <- SecondWaits
  Needs <- NoneWaits
  Kind <- PairKind
  Rank <- PairRank
  SideTasks <- NoSideTasks
  Limit = 2
  Operators = {o1, o2}
  Used <- Retiring
  Faults <- LostClose
SYMMETRY OperatorSymmetry
CONSTRAINT MergedIsEnough
SPECIFICATION Spec
INVARIANTS
  DependenciesFirst
  RetiredMeansClosed
CHECK_DEADLOCK FALSE
