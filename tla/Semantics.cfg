SPECIFICATION Spec
CONSTANTS
  LongBits = 4
  IntBits = 3
  Kits <- MCKits
  Cells = {"x", "y"}
  Numerals = {0, 2}
  Joins = {"And", "Or", "Div", "Lt"}
  MaxTerms = 5
  Shelves <- MCShelves
  MaxDeclarations = 4
  Vocabularies <- MCVocabularies
  Invocations = {1, 2}
  Sources = {"one", "two"}
  Outputs = {"p", "q"}
  Requests <- MCRequests
INVARIANTS
  FoldIsC
  BoxedIsRaw
  
  DefinedBeforeUse
  RefusedForCause
  JumpsLand
  CursorsAreOwn
  SuccessIsOwn
  RefusedWritesNothing
CHECK_DEADLOCK FALSE
