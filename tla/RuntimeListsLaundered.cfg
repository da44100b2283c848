SPECIFICATION Spec
CONSTANTS
  x = x
  y = y
  a = a
  b = b
  s = s
  junk = junk
  none = none
  Vars = {x, y}
  Numbers = {a}
  Strings = {s}
  ListType <- NumberLists
  Garbage = junk
  Nothing = none
  MinCapacity = 2
  Laundered = TRUE
  MaxLiteral = 3
  MaxHeap = 3
  MaxLen = 4
  MaxNest = 2
INVARIANT Homogeneous
CHECK_DEADLOCK FALSE
