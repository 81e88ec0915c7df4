SPECIFICATION Spec
CONSTANTS
  Threads = {t1, t2}
  OrtThreads = {}
  NoThread = NoThread
  MaxCalls = 2
INVARIANTS
  BuiltOnce
CHECK_DEADLOCK FALSE
