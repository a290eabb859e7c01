SPECIFICATION Spec
CONSTANTS
  Projects <- MCTwoProjects
  Shots <- MCTwoShots
  ProjectOf <- MCTwoProjectOf
  MaxJobs = 2
  AuditionTakes = 1
  MaxCrashes = 1
  MaxFaults = 1
  QueuePauses = FALSE
  Pausable <- MCOneProject
  ConfigDrift = TRUE
INVARIANTS AtMostOneSubmission BusyOwesAnEvent OnePromptWanted
PROPERTIES UnknownStaysBlocked TerminalStays
CHECK_DEADLOCK FALSE
