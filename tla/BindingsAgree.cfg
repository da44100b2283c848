SPECIFICATION Spec
CONSTANTS
  x = x
  y = y
  errno = errno
  Names = {x, y, errno}
  Imported = {errno}
  Quirks = {}
  MaxDepth = 4
INVARIANTS
  TypeOK
  Denotes
  Separate
  DeclaredOnce
