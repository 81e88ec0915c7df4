SPECIFICATION FairSpec
CONSTANTS
  Capacity = 2
  Producers = {p1, p2}
  Consumers = {c1, c2}
  Tasks = {t1, t2, t3}
  NoTask = NoTask
INVARIANTS
  TypeOK
  SlotExclusive
  ReadsWhatWasPushed
  ExactlyOnePlace
PROPERTIES
  AnswersAreTrue
  ImplementsReadyQueue
  EveryPushReturned
