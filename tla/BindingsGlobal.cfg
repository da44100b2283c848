SPECIFICATION Spec
CONSTANTS
  x = x
  y = y
  errno = errno
  Names = {x, y, errno}
  Imported = {errno}
  Quirks = {"setGlobal"}
  MaxDepth = 4
INVARIANT
  Denotes
