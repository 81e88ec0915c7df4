SPECIFICATION FairSpec
CONSTANTS
  Capacity = 1
  ChannelCapacity = 1
  Submitters = {s1, s2}
  Graphs = {g1, g2}
  NodeCount = 2
  Worker = worker
  NoGraph = NoGraph
INVARIANTS
  AliasLifetime
PROPERTIES
  ImplementsGraphService
  EveryGraphEnds
CHECK_DEADLOCK FALSE
