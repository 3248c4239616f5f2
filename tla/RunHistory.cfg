SPECIFICATION Spec
CONSTANTS
  p1 = p1
  p2 = p2
  Projects = {p1, p2}
  None = None
  Kept = 1
  MAX_RUNS = 2
  VALUES = 2
  MaxRuns = 3
  MaxCalls = 1
  MaxSwaps = 1
  MaxRemovals = 1
  MaxPicks = 1
PROPERTIES
  RunInProgressKept
  LoadsOwnRuns
  UnstoredKept
  CallsEnd
CHECK_DEADLOCK FALSE
