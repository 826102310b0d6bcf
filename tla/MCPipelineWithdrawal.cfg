SPECIFICATION Spec
CONSTANTS
  first = first
  revised = revised
  third = third
  withdrawn = withdrawn
  garbage = garbage
  a = a
  b = b
  Calls = {c1, c2}
  Payloads = {first, withdrawn}
  Decode <- MCWithdrawal
  Periods <- MCPeriods
  Values = {a, b}
  NoValue = NoValue
  NoPayload = NoPayload
  DocumentedGaps = {}
  MaxBackward = 3
PROPERTIES WithdrawalsAreRecorded
CHECK_DEADLOCK FALSE
