SPECIFICATION Spec
CONSTANTS
  HeaderSize = 3
  NodeSize = 4
  NodeAlign = 4
  EdgeSize = 3
  EdgeAlign = 2
  MaxU32 = 25
  MaxUsize = 100
  MaxNodes = 4
  MaxDepends = 2
  MaxPartNodes = 3
  MaxPartEdges = 4
INVARIANTS
  TypeOK
  PushIsAllOrNothing
  BuiltGraphsHaveAnOrder
  FreezeIsExact
