SPECIFICATION Spec
CONSTANTS
  Ids = {p, q}
  OnDisk = {p}
  None = None
  MaxVersions = 3
  MaxCopies = 2
  MaxReads = 1
  MaxSaves = 2
PROPERTIES
  OverwritesWhenAsked
CHECK_DEADLOCK FALSE
