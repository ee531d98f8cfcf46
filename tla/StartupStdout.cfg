SPECIFICATION MCSpec
CONSTANTS
  Clis <- MCClis
  Files <- MCFiles
  Variables <- MCVariables
  Env <- MCEnv
  MaxFailures = 0
  Programs <- MCPrograms
  RingSize = 1
  RawCapacity = 1
  MaxPid = 3
  MaxClock = 3
  Sockets <- MCSockets
INVARIANTS
  StdoutIsJsonRpc
