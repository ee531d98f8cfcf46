CONSTANTS
  a1 = a1
  a2 = a2
  a3 = a3
  e1 = e1
  p1 = p1
  Ids <- MCIds
SPECIFICATION MCFairSpec
INVARIANTS
  ApprovalsConserved
PROPERTIES
  ApprovedIsExecuted
  ImplementsFairApproval
  StreamsServeAndEnd
CHECK_DEADLOCK FALSE
