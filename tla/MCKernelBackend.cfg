SPECIFICATION Spec
CONSTANTS
  MaxDim = 8
  UsizeMax = 65535
  MaxSubmit = 8
  AttrInlineSize = 128
  U32Max = 255
  Tile = 2
  NoDesc = NoDesc
  Requests <- MCRequests
  Descs <- MCDescs
INVARIANTS
  TypeOK
  MovesTheRightElements
  ComputesFromTheRightElements
  SelectsTheExtremes
  StoresInBounds
  LoadsInBounds
  TargetsAgree
  FailedCallWritesNothing
  InputsSurvive
  RequestsFitTheKernel
CHECK_DEADLOCK FALSE
