SPECIFICATION Spec
CONSTANTS
  Setups <- MCSetups
  Bodies <- MCBodies
  MaxRuns = 2
  MaxRedeploys = 0
  MaxAttempts = 2
  MaxWalk = 12
  NoBody = NoBody
  NoValue = NoValue
  Blank = Blank
  Text = Text
CHECK_DEADLOCK FALSE
INVARIANTS NoUnexplainedJump
