SPECIFICATION Spec
CONSTANTS
  Calls = {c1, c2, c3}
  Hashes = {1, 2}
  LineLength <- Lengths
  Hole = Hole
SYMMETRY Symmetry
INVARIANTS RowsHaveWholeFiles EndedCallsAreListed
PROPERTIES LonePublisherListsAll
CHECK_DEADLOCK FALSE
