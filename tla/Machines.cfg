SPECIFICATION MachinesSpec
CONSTANTS
  None = None
  HISTORY_LIMIT = 2
  Values = {1}
  StudyIds = {s1}
  PortIds = {"d1", "d2"}
  FirstNew = 4
  MaxEdits = 3
  MaxPicked = 2
  MaxLooks = 2
  MaxSteps = 4
  Starts <- StartsValue
  MaxModels = 3
  MaxAsked = 3
  MaxUndos = 1
  MaxNumber = 3
  PastedTexts <- PastedValue
  MaxChanges = 2
  MaxMoves = 2
  Null = Null
  Levels = {0, 1}
  MaxLength = 8
  MaxLimit = 5
  OldProjects = TRUE
  MaxLaunches = 2
  MaxVersions = 2
  Scripts = {b1, b2}
  ParamSets = {1, 2}
  AtBuild = 1
  MaxScriptSteps = 3
INVARIANTS
  WellFormed
  DraftHoldsWork
  EngineKept
  PeaksDrawn
PROPERTIES
  CopiesStandAlone
  ShownStays
  StudiesKept
  ChecksFollow
  GridKeepsRest
  NothingLostUnasked
  OldProjectsWhole
  OutputsAreOfTheStep
  ScriptsEnd
CHECK_DEADLOCK FALSE
