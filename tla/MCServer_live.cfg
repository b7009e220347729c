\* Requests are answered and messages printed when no client crashes or gives up.
CONSTANTS
  c1 = c1  t1 = t1  t2 = t2  s1 = s1  s2 = s2  s3 = s3  w1 = w1  a1 = a1
  Names = {c1}
  Topics = {t1}
  InitialTopics = {}
  SubPids = {s1, s2}
  RawPids = {s1}
  ProdPids = {w1}
  AdminPids = {a1}
  Nil = Nil
  U32 = 2
  MaxPublish = 1
  InboxCap = 1
  PipeCap = 2
  Mishaps = {"output", "interrupt"}
SPECIFICATION FairSpec
PROPERTIES
  RequestsAnswered
  PublishedIsPrinted
\* The processes come to an end.
CHECK_DEADLOCK FALSE
