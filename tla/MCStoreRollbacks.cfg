SPECIFICATION MCFairSpec
CONSTANTS
  Keys = {k1, k2}
  Contents = {a, b}
  Runs = {r1, r2, r3}
  Operators = {o1}
  NoKey = NoKey
  NoContent = NoContent
INVARIANTS InductiveInvariant
PROPERTIES RollbackAllOrNothing CallsEnd
CHECK_DEADLOCK FALSE
