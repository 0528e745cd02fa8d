\* An issue is created and its number is not seen.
CONSTANTS
  Tasks <- Two
  DependsOn <- TwoDependsOn
  Numbers = {n1,n2,n3}
  NoIssue = none
  Planners = {p1}
  Faults <- Unseen
SPECIFICATION Spec
INVARIANT NoDuplicates
CHECK_DEADLOCK FALSE
