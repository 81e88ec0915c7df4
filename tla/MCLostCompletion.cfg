SPECIFICATION FairSpec
CONSTANTS
  Capacity = 1
  ChannelCapacity = 1
  Submitters = {s1, s2}
  Graphs = {g1, g2}
  NodeCount = 1
  Worker = worker
  NoGraph = NoGraph
PROPERTIES
  EveryGraphAnswered
CHECK_DEADLOCK FALSE
