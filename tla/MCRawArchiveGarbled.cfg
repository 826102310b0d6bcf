SPECIFICATION Spec
CONSTANTS
  Calls = {c1, c2}
  Hashes = {1, 2}
  LineLength <- Lengths
  Hole = Hole
SYMMETRY Symmetry
INVARIANTS NoGarbledLine
CHECK_DEADLOCK FALSE
