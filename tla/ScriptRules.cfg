CONSTANTS
  p1 = p1
  Pids <- OnePid
  ProcStates <- MCProcs
  Files <- MCFiles
  Accepted <- MCAccepted
  Rules <- MCCompiled
  InitialFile <- Hot
  Names <- MCNames
  Horizon = 2
  Elapsed <- MCElapsed
  EventCap = 1
  MaxWrites = 3
  MaxSteps = 4
SPECIFICATION HistFairSpec
INVARIANTS
  
  FiresIffHeldAtEveryCheck

  
CHECK_DEADLOCK FALSE
