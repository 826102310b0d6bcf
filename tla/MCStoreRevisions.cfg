SPECIFICATION Spec
CONSTANTS
  Keys = {k1}
  Contents = {a, b}
  Runs = {r1, r2, r3}
  Operators = {o1}
  NoKey = NoKey
  NoContent = NoContent
SYMMETRY Symmetry
PROPERTIES RevisionsAreAccepted
CHECK_DEADLOCK FALSE
