SPECIFICATION Spec
CONSTANTS
  Calls = {c1, c2, c3, c4}
  Last = 3
SYMMETRY Symmetry
INVARIANTS DriftTakesACut
PROPERTIES UpBringsEverything
CHECK_DEADLOCK FALSE
