\* Two names and two processes on one topic under fair scheduling.
CONSTANTS
  c1 = c1  c2 = c2  p1 = p1  p2 = p2
  Clients = {c1, c2}
  Pids = {p1, p2}
  Keys <- MCKeys
  PrefixSet <- MCPrefixes
  Nil = Nil
  U32 = 4
  MaxMessages = 3
  PipeMin = 1
  PipeCap = 1
SPECIFICATION FairSpec
INVARIANTS
  TreeMirrorsSubscribers
  StreamExact
  SleepMeansDelivered
  TopicInv
PROPERTIES
  ImplementsPubSub
  EventuallyDelivered
  ShutdownReturns
\* Once the topic is shut down and its readers are gone nothing is left to do.
CHECK_DEADLOCK FALSE
