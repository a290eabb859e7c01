SPECIFICATION FairSpec
CONSTANTS
  Projects <- MCOneProject
  Shots <- MCOneShot
  ProjectOf <- MCOneProjectOf
  MaxJobs = 1
  AuditionTakes = 1
  MaxCrashes = 1
  MaxFaults = 0
  QueuePauses = FALSE
  Pausable = {}
  ConfigDrift = FALSE
PROPERTY SubmittedJobsEnd
CHECK_DEADLOCK FALSE
