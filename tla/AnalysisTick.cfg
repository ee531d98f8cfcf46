SPECIFICATION MCSpec
CONSTANTS
  LastPid = 2
  WorldStates <- MCWorlds
  Batches <- MCBatches
  Machines <- MCMachines
  Gaps = {130}
  TopN = 1
  Capacity = 3
  LastTime = 260
  MaxInbox = 2
  Pids <- MCPids
  Bands <- MCBands
  Rules <- SustainedRules
  Elapsed <- MCElapsed
  MaxTicks = 4
INVARIANTS
  FiresIffSustained
  RegressionAgrees
  DropOnlyAfterReset
  CorrelationAccounts
