SPECIFICATION Spec
CONSTANTS
  Keys = {k1}
  Contents = {a, b}
  Runs = {r1, r2, r3, r4}
  Operators = {o1, o2}
  NoKey = NoKey
  NoContent = NoContent
SYMMETRY Symmetry
INVARIANTS RunsDeadlockOnlyAfterRollback OnePublishedRow ChainWellFormed PublishedIsLatestStanding
PROPERTIES AppendOnly RejectedKeysFreeze ViolationsExplained ImplementsVintageStore
CHECK_DEADLOCK FALSE
