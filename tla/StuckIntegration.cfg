\* The close after the label edit may fail too.
CONSTANTS
  Issues <- One
  Deps <- OneWaitsNot
  Needs <- OneWaitsNot
  Kind <- OneKind
  Rank <- OneRank
  SideTasks <- NoSideTasks
  Limit = 1
  Operators = {o1}
  Used <- Forward
  Faults <- LostClose
SPECIFICATION FairSpec
PROPERTY IntegrationResumes
CHECK_DEADLOCK FALSE
