CONSTANTS
  p1 = p1
  p2 = p2
  d1 = d1
  d2 = d2
  x1 = x1
  Pids <- MCPids
  Data <- MCData
  Labels <- MCLabels
  Nodes <- MCNodes
  Watched <- MCWatched
  Memory <- MCMemory
  Seconds <- MCSeconds
  GameStates <- MCGameStates
  Sessions <- MCSessions
  Deeds <- MCDeeds
  MaxXp = 102
  MaxPending = 2
  MaxElapsed = 140
SPECIFICATION MCSpec
INVARIANTS
  GameAddsUp
PROPERTIES
  IndexIsStable
  ImplementsProcessWorld
