CONSTANTS
  p1 = p1
  p2 = p2
  f1 = f1
  f2 = f2
  Pids <- MCPids
  Bands <- MCBands
  Rules <- MCRules
  Elapsed <- OnTime
  ChannelCapacity = 1
  MaxDiagnostics = 2
  ScriptBase = 100
  MaxId = 4
  MaxScripts = 1
  Findings <- MCFindings
  MinSeverity <- MCMinSeverity
  DedupWindow = 2
  Minute = 3
  MaxPerMinute = 2
  MaxTasks = 4
  MaxTime = 3
SPECIFICATION MCSpec
INVARIANTS
  OnePerTargetAndCategory
  ActiveIsWhatMatched
  ShownIsCurrent
  RateLimited
  Deduplicated
PROPERTIES
  EvictionSparesTheWorse
