SPECIFICATION FairSpec
CONSTANTS
  l1 = l1
  Labels = {l1}
  Statements <- SoundStatements
  Headers <- SoundHeaders
  Quirks <- SoundQuirks
  MaxStmts = 3
INVARIANTS
  TypeOK
  Sound
PROPERTY Decides
CHECK_DEADLOCK FALSE
