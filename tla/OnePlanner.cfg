\* One planner, interrupted and failing, seeding again and again.
CONSTANTS
  Tasks <- Chain
  DependsOn <- ChainDependsOn
  Numbers = {n1,n2,n3,n4}
  NoIssue = none
  Planners = {p1}
  Faults <- Honest
SPECIFICATION FairSpec
INVARIANTS
  NoDuplicates
  BodiesTellTheTruth
PROPERTIES
  MappingKept
  SeedingCompletes
CHECK_DEADLOCK FALSE
