SPECIFICATION FairSpec
CONSTANTS
  Setups <- MCSetups
  Bodies <- MCBodies
  MaxRuns = 2
  MaxRedeploys = 2
  MaxAttempts = 2
  MaxWalk = 12
  NoBody = NoBody
  NoValue = NoValue
  Blank = Blank
  Text = Text
INVARIANTS AttemptsTellTheFetch PublishedIsTheSourcesWord HolesExplained JumpsExplained
PROPERTIES RevisionsAreRecent CallsEnd
CHECK_DEADLOCK FALSE
