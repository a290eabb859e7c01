SPECIFICATION FairSpec
CONSTANTS
  j1 = j1
  j2 = j2
  NoJob = NoJob
  Jobs <- MCTwoJobs
  Adapter <- MCAdapter
  ComfyUI <- MCComfyUI
  Requests <- MCAsks
  Unverified <- MCVerified
  MaxErrors = 2
  MaxRestarts = 1
  MaxCrashes = 1
PROPERTIES RefinesBackendPort WatchedEnds
CHECK_DEADLOCK FALSE
