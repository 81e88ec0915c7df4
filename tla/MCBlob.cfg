SPECIFICATION Spec
CONSTANTS
  HeaderSize = 3
  NodeSize = 4
  NodeAlign = 4
  EdgeSize = 3
  EdgeAlign = 2
  MaxU32 = 18
  MaxUsize = 60
  MaxCount = 3
  MaxDamages = 2
INVARIANTS
  TypeOK
  ReadsInBounds
  RoundTrip
CHECK_DEADLOCK FALSE
