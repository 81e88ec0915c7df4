SPECIFICATION Spec
CONSTANTS
  Capacity = 2
  ChannelCapacity = 1
  Submitters = {s1, s2, s3}
  Graphs = {g1, g2, g3}
  NodeCount = 1
  Worker = worker
  NoGraph = NoGraph
SYMMETRY Symmetry
INVARIANTS
  TypeOK
  NobodyTurnedAway
  NoLostWakeup
PROPERTIES
  SchedulerKept
CHECK_DEADLOCK FALSE
