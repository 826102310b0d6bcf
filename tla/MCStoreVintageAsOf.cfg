SPECIFICATION Spec
CONSTANTS
  Keys = {k1}
  Contents = {a, b}
  Runs = {r1, r2, r3}
  Operators = {o1}
  NoKey = NoKey
  NoContent = NoContent
SYMMETRY Symmetry
INVARIANTS VintageAsOfNowIsPublished
CHECK_DEADLOCK FALSE
