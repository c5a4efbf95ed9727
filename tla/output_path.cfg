SPECIFICATION Spec
CONSTANTS
  Paths <- MCPaths
  CapLen = 4
  Locked <- MCLocked
  Others <- MCOthers
  MaxRuns = 2
  Sizes = {2, 3}
  Calls <- MCCalls
  Width = 3
  MaxCalls = 1
CHECK_DEADLOCK FALSE
INVARIANT DirectoryCreated
