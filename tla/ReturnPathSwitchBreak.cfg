SPECIFICATION Spec
CONSTANTS
  l1 = l1
  Labels = {l1}
  Statements <- SwitchStatements
  Headers <- NoHeaders
  Quirks <- AllQuirks
  MaxStmts = 4
INVARIANT Sound
CHECK_DEADLOCK FALSE
