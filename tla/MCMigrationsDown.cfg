SPECIFICATION Spec
CONSTANTS
  Calls = {c1, c2, c3}
  Last = 2
SYMMETRY Symmetry

PROPERTIES DownUndoesLatest
CHECK_DEADLOCK FALSE
