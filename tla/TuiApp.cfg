CONSTANTS
  d1 = d1
  d2 = d2
  p1 = p1
  p2 = p2
  none = none
  Diags <- MCDiags
  Executable <- MCExecutable
  HistoryCapacity = 1
  VisibleRows = 2
  MaxEntries = 3
  Pids <- MCPids
  Processes <- MCPids
  NoPid = none
  SortKey <- MCSortKey
  Rate <- MCRate
  Matching <- MCMatching
  RuleCount = 2
  Keys <- MCKeys
  Texts <- MCTexts
  TabSets <- MCTabSets
  Data <- Usage
  Labels = {}
  Scale = 4
  Scores <- MCScores
  WindowSize = 2
  TopN = 1
  ChannelSize = 1
  Cap = 1
  MaxTicks = 3
  Worlds <- MCWorlds
  Places <- MCPlaces
  Origin <- MCOrigin
  Predicted <- MCPredicted
  Lasts = 2
  Grain <- MCGrain
  NearLimit = 1
  FarLimit = 2
  Phases = {1, 4}
  Widths = {1, 3}
  MaxClock = 2
SPECIFICATION AppSpec
INVARIANTS
  PredictionsAreRecent
  HistoryTrimmedSafely
PROPERTIES
  KeyActsOnFrame
  TextStaysText
  InspectsWhatIsDrawn
  FrameShowsTheWorld
