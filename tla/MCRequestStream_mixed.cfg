\* A SUBSCRIBE longer than PIPE_BUF beside another client's request.
CONSTANTS
  Byte = 16
  MAX_PAYLOAD_SIZE = 4
  p1 = p1  p2 = p2
  Procs = {p1, p2}
  Requests <- LongRequests
  Nil = Nil
  PIPE_BUF = 28
  PipeSize = 40
  ReadSize = 12
  MaxRequests = 2
SPECIFICATION Spec
INVARIANTS
  HandledWereSent
CHECK_DEADLOCK FALSE
