\* Three commands against a server that comes and goes.
CONSTANTS
  c1 = c1  c2 = c2  c3 = c3
  Clients = {c1, c2, c3}
  Ops <- MCOps
  Nil = Nil
  Capacity = 1
  MaxRecords = 2
SPECIFICATION Spec
INVARIANTS
  ExitCodeTells
  NothingLeftBehind
PROPERTIES
  CommandReturns
  
\* Commands end, and so does the server.
CHECK_DEADLOCK FALSE
