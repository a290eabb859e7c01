SPECIFICATION Spec
CONSTANTS
  Projects <- MCTwoProjects
  Shots <- MCTwoShots
  ProjectOf <- MCTwoProjectOf
  MaxJobs = 2
  AuditionTakes = 2
  MaxCrashes = 1
  MaxFaults = 0
  QueuePauses = FALSE
  Pausable <- MCTwoProjects
  ConfigDrift = TRUE
INVARIANTS TypeOK QueueMatchesShots NoLostTake StageMatchesWork
PROPERTIES InterruptSparesOthers BatchesReachTarget StartsInOrder RefinesTakeLedger
CHECK_DEADLOCK FALSE
