SPECIFICATION Spec
CONSTANTS
  p1 = p1
  u1 = u1
  k1 = k1
  None = None
  Empty = Empty
  Bad = Bad
  Paths <- MCPaths
  EditRows <- MCEditRows
  Urls <- MCUrls
  Keys <- MCKeys
  Locales = 2
  Vars <- MCVars
  MaxEdits = 2
  MaxLaunches = 2
  MaxFaults = 1
INVARIANTS SetIsUsed
PROPERTIES NobodyElses
CHECK_DEADLOCK FALSE
