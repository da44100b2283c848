SPECIFICATION Spec
CONSTANTS
  l1 = l1
  Labels = {l1}
  Statements <- CountedStatements
  Headers <- CountedHeaders
  Quirks <- NoQuirks
  MaxStmts = 2
INVARIANT Sound
CHECK_DEADLOCK FALSE
