\* Two signals anywhere in the handling of two requests.
CONSTANTS
  t1 = t1  t2 = t2  p1 = p1  p2 = p2
  Topics = {t1, t2}
  InitialTopics = {t1}
  Procs = {p1, p2}
  Nil = Nil
  MaxRequests = 2
  MaxSignals = 2
SPECIFICATION FairSpec
INVARIANTS
  TypeOK
  AllJoined
  SubscribersAreTold
PROPERTIES
  QuietSignalExits
  SignalWaitsForNoWorker
\* The process ends, or hangs in its signal handler.
CHECK_DEADLOCK FALSE
