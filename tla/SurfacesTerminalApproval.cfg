CONSTANTS
  Ids = {a1, d1}
  Diags = {d1}
  Executable = {d1}
  HistoryCapacity = 1
  VisibleRows = 1
  MaxEntries = 1
SPECIFICATION FairSpec
PROPERTIES
  TerminalApprovalExecuted
