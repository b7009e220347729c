\* Two processes compete for one name on two topics while a producer publishes.
CONSTANTS
  c1 = c1  t1 = t1  t2 = t2  s1 = s1  s2 = s2  s3 = s3  w1 = w1  a1 = a1
  Names = {c1}
  Topics = {t1, t2}
  InitialTopics = {t1, t2}
  SubPids = {s1, s2}
  RawPids = {s1}
  ProdPids = {w1}
  AdminPids = {}
  Nil = Nil
  U32 = 3
  MaxPublish = 2
  InboxCap = 2
  PipeCap = 1
  Mishaps = {"crash", "timeout", "output", "interrupt"}
SPECIFICATION Spec
SYMMETRY Symmetry
INVARIANTS
  LiveSessionIndexed
  ConsumersStayAttached
  BlockedOnlyByDeparted
  ResponseThenDeliveries
  CommittedWasPrinted
\* The main thread may block for good and the processes come to an end.
CHECK_DEADLOCK FALSE
