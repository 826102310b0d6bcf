SPECIFICATION Spec
CONSTANTS
  Calls = {c1, c2, c3}
  Missing = Missing
  Configs <- MCConfigs
  Bases <- MCBases
SYMMETRY Symmetry
INVARIANTS TypeOK MappingsChain RepeatsTakeAnOverlap BreaksReachTheirSeries
PROPERTIES ProjectsItsConfig MapsItsConfig FailuresExplained
CHECK_DEADLOCK FALSE
