SPECIFICATION Spec
CONSTANTS
  Alphabets <- MCAlphabets
  Books <- MCBooks
INVARIANTS LayoutFree CommentsDropped TreesConform RoundTrip Precedence Blocks
CHECK_DEADLOCK FALSE
