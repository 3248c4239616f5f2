SPECIFICATION Spec
CONSTANTS
  Projects = {p, q}
  RunIds = {a, b, c}
  Starts = {1, 2}
  Sizes = {1, 2}
  BUDGET_BYTES = 3
  TOTAL_BUDGET_BYTES = 4
  None = None
  MaxPuts = 3
INVARIANTS
  TypeOK
  IndexTrue
PROPERTIES
  SaveAnswersTruly
  BudgetsKept
SYMMETRY Symmetry
