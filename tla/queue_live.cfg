SPECIFICATION FairSpec
CONSTANTS
  Projects <- MCOneProject
  Shots <- MCTwoShots
  ProjectOf <- MCOneProjectOf
  MaxJobs = 2
  AuditionTakes = 2
  MaxCrashes = 0
  MaxFaults = 0
  QueuePauses = TRUE
  Pausable <- MCOneProject
  ConfigDrift = FALSE
PROPERTIES QueueDrains BatchEnds SubmittedJobsEnd
CHECK_DEADLOCK FALSE
