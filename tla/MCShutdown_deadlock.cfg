\* A signal that finds the main thread in a critical section.
CONSTANTS
  t1 = t1  t2 = t2  p1 = p1  p2 = p2
  Topics = {t1, t2}
  InitialTopics = {t1}
  Procs = {p1}
  Nil = Nil
  MaxRequests = 1
  MaxSignals = 1
SPECIFICATION FairSpec
PROPERTIES
  SignalExits
\* The process ends, or hangs in its signal handler.
CHECK_DEADLOCK FALSE
