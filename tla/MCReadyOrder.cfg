SPECIFICATION Spec
CONSTANTS
  MaxNodes = 4
  MaxEdges = 2
PROPERTIES
  PopsSmallestId
CHECK_DEADLOCK FALSE
