SPECIFICATION Spec
CONSTANTS
  beside = beside
  data = data
  c1 = c1
  c2 = c2
  None = None
  Part = Part
  Paths <- MCPaths
  Candidate = beside
  Fallback = data
  Commands <- MCCommands
  MaxMoves = 1
INVARIANTS SavedIsWhole OpensTheSaved
