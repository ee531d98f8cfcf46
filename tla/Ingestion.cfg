CONSTANTS
  EventCapacity = 1
  EngineCapacity = 1
  ActionCapacity = 1
  MaxSnapshots = 3
  MaxActions = 1
SPECIFICATION FairSpec
INVARIANTS
  NoSnapshotLost
  NoRuleActionLost
PROPERTIES
  WorldCatchesUp
  ShutdownCompletes
CHECK_DEADLOCK FALSE
