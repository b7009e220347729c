\* Every short command line and every list of options.
CONSTANTS
  ArgVectors <- MCArgVectors
  NameChars <- MCNameChars
  Digit <- MCDigit
  MaxName = 2
  UINT32_MAX = 31
SPECIFICATION Spec
INVARIANTS
  SubscribeReadsLine
\* A line is parsed once.
CHECK_DEADLOCK FALSE
