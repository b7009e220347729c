\* Every short input in text and raw form, printed in text and raw form
\* through a pipe that holds one long message or two short ones.
CONSTANTS
  Byte = 16
  MAX_PAYLOAD_SIZE = 2
  COLON = 1
  NEWLINE = 2
  TextInputs <- MCText
  RawInputs <- MCRaw
  Topic <- MCTopic
  PipeSize = 24
SPECIFICATION Spec
INVARIANTS
  InputPublished
  OutputIsLog
  LimitsAgree
PROPERTIES
  AllPrinted
\* The input ends.
CHECK_DEADLOCK FALSE
