SPECIFICATION Spec
CONSTANTS
  Writers = {w1, w2}
  Data <- MCData
  revision_of <- MCRevision
  None = None
  AnyVersion = AnyVersion
  Torn = Torn
  KEEP_BACKUPS = 2
  MaxSaves = 3
  WritesInSave = TRUE
  ClockForward = TRUE
PROPERTIES
  NoSilentOverwrite
CHECK_DEADLOCK FALSE
