SPECIFICATION Spec
CONSTANTS
  x = x
  y = y
  a = a
  b = b
  s = s
  junk = junk
  none = none
  Vars = {x, y}
  Numbers = {a, b}
  Strings = {s}
  ListType <- NumberLists
  Garbage = junk
  Nothing = none
  MinCapacity = 1
  Laundered = FALSE
  MaxLiteral = 1
  MaxHeap = 3
  MaxLen = 2
  MaxNest = 2
INVARIANTS
  TypeOK
  Initialised
  SnapshotPrivate
  WellTyped
PROPERTIES
  Implements
  ItemByItem
SYMMETRY Symmetry
CHECK_DEADLOCK FALSE
