SPECIFICATION Spec
CONSTANTS
  l1 = l1
  Labels = {l1}
  Statements <- DeadBreakStatements
  Headers <- DeadBreakHeaders
  Quirks <- AllQuirks
  MaxStmts = 3
INVARIANT Precise
CHECK_DEADLOCK FALSE
