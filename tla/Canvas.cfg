SPECIFICATION CanvasSpec
CONSTANTS
  None = None
  HISTORY_LIMIT = 2
  Values = {1}
  StudyIds = {s1}
  PortIds = {"d1", "d2"}
  FirstNew = 4
  MaxEdits = 2
  MaxPicked = 2
  MaxLooks = 3
  MaxSteps = 4
  Starts <- StartsValue
PROPERTIES
  DeletesWhatIsShown
CHECK_DEADLOCK FALSE
