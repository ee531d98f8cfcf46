SPECIFICATION SharedSpec
CONSTANTS
  Pages = {p1, p2}
  Client = client
  Worlds <- MCWorlds
  NoWorld <- MCNoWorld
  Findings <- MCFindings
  Capacity = 3
  MaxDiagnostics = 2
  MaxNow = 2
  MaxProcesses = 2
  TopCount = 1
  HighMem = 2
  PidWidth = 4
INVARIANT HistoryMissesNothing
 
PROPERTY UpdateIsOneMoment
 
