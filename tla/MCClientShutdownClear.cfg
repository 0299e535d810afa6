SPECIFICATION Spec
CONSTANTS
  Worker = Worker
  Apps = {a, b}
  Jobs = {j}
  Clears = {c}
  Terms = {x, y}
  Timed = {t}
  Owned = {t}
  None = None
SYMMETRY Symmetry
CHECK_DEADLOCK FALSE
INVARIANT RaceWithClearIsOK
