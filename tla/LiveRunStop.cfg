SPECIFICATION Spec
CONSTANTS
  STEPS = 2
  output_every = 3
  None = None
  MaxEdits = 2
  MaxStops = 1
INVARIANTS
  StopIsHeard
CHECK_DEADLOCK FALSE
