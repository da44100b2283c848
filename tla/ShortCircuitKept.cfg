SPECIFICATION SSpec
CONSTANTS
  LongBits = 3
  IntBits = 2
  Cells = {"x"}
  Numerals = {0}
  Joins = {"And", "Or"}
  MaxTerms = 3
INVARIANTS
  KeepsShortCircuit
CHECK_DEADLOCK FALSE
