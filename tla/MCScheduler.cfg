SPECIFICATION FairSpec
CONSTANTS
  ine = ine
  empty = empty
  x = x
  y = y
  Sources = {ine, empty}
  SeriesOf <- MCSeriesOf
  ByHand = {ine}
  NoSource = NoSource
  Interval = 2
  BackoffUnit = 1
  Window = 2
  MaxTime = 5
INVARIANTS InductiveInvariant
PROPERTIES NoMissedIncident NoFalseIncident DueSourcesRun
CHECK_DEADLOCK FALSE
