SPECIFICATION FairSpec
CONSTANTS
  ine = ine
  empty = empty
  x = x
  y = y
  Sources = {ine, empty}
  SeriesOf <- MCSeriesOf
  ByHand = {}
  NoSource = NoSource
  Interval = 2
  BackoffUnit = 1
  Window = 2
  MaxTime = 5
PROPERTIES TwoFailuresRaiseNoIncident
CHECK_DEADLOCK FALSE
