\* Two clients write requests of any kind; the reads cut frames everywhere.
CONSTANTS
  Byte = 16
  MAX_PAYLOAD_SIZE = 4
  p1 = p1  p2 = p2  p3 = p3
  Procs = {p1, p2}
  Requests <- AllRequests
  Nil = Nil
  PIPE_BUF = 40
  PipeSize = 40
  ReadSize = 7
  MaxRequests = 2
SPECIFICATION Spec
INVARIANTS
  StreamFramed
PROPERTIES
  ImplementsQueue
  AllHandled
\* The clients send a bounded number of requests.
CHECK_DEADLOCK FALSE
