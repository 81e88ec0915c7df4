SPECIFICATION FairSpec
CONSTANTS
  Threads = {t1, t2}
  OrtThreads = {t1, t2}
  NoThread = NoThread
  MaxCalls = 4
INVARIANTS
  TypeOK
  BuiltOnce
  OwnVerdict
PROPERTIES
  NoWaiterRobbed
  EveryCallReturns
CHECK_DEADLOCK FALSE
