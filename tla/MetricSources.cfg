SPECIFICATION Spec
CONSTANTS
  Config <- MCConfig
  ScanPorts <- MCPorts
  ServiceStates <- MCServices
  Responses <- MCResponses
  ChannelSize = 1
  MaxRounds = 1

  
PROPERTIES
  TargetListGrows
  BatchesReachTheStore
