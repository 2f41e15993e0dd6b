CONSTANTS
  Process = {a, b}
  Watcher = {a}
  Pointer = {p1, p2}
  Ages = {0, 1}
  MaxTime = 1
  None = None
SYMMETRY Symmetry
SPECIFICATION Spec
CHECK_DEADLOCK FALSE
INVARIANTS NoneMissed NothingOutOfSight
