SPECIFICATION Spec
CONSTANTS
  l1 = l1
  Labels = {l1}
  Statements <- PreciseStatements
  Headers <- PreciseHeaders
  Quirks <- NoQuirks
  MaxStmts = 4
INVARIANT Precise
CHECK_DEADLOCK FALSE
