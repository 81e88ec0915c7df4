SPECIFICATION Spec
CONSTANTS
  MaxNodes = 3
  MaxEdges = 4
INVARIANTS
  TypeOK
  ChainIsTopological
  FailsOnlyWithoutChain
  CountsAreExact
CHECK_DEADLOCK FALSE
