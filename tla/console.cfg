SPECIFICATION FairSpec
CONSTANTS
  p1 = p1
  p2 = p2
  Nothing = Nothing
  Projects <- MCTwoProjects
  FirstProject = p1
  MaxRevision = 2
  MaxOutages = 1
  MaxLosses = 1
  MaxKeys = 3
INVARIANTS NothingToldIsForgotten
PROPERTIES CatchesUp DropEnds
CHECK_DEADLOCK FALSE
