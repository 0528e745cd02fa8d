\* Two planners on one manifest, whatever fails.
CONSTANTS
  Tasks <- Two
  DependsOn <- TwoDependsOn
  Numbers = {n1,n2,n3,n4}
  NoIssue = none
  Planners = {p1,p2}
  Faults <- Anything
SPECIFICATION Spec
SYMMETRY Symmetry
INVARIANTS
  TypeOK
  MappedToOwnIssue
  AppliedMeansMapped
CHECK_DEADLOCK FALSE
