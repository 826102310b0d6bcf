SPECIFICATION FairSpec
CONSTANTS
  first = first
  revised = revised
  third = third
  withdrawn = withdrawn
  garbage = garbage
  a = a
  b = b
  Calls = {c1, c2}
  Payloads <- MCPayloads
  Decode <- MCDecode
  Periods <- MCPeriods
  Values = {a, b}
  NoValue = NoValue
  NoPayload = NoPayload
  DocumentedGaps = {}
  MaxBackward = 2
INVARIANTS InductiveInvariant Traceable ArchivedThenLoggedThenRun NewFileOnce OutcomeTellsPublication
PROPERTIES DeepRevisionsOnlyWhenOvertaken RunsAreDecided
CHECK_DEADLOCK FALSE
