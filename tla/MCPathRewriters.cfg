SPECIFICATION RewriteSpec
CONSTANTS
  Paths <- MCPaths
  MinLength = 2
INVARIANTS
  NumbersAreRead
  JoinedReadsItsText
  KatakanaAreJoined
PROPERTIES
  RewritingEnds
CHECK_DEADLOCK FALSE
