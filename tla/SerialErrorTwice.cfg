SPECIFICATION Safety
CONSTANTS
  a = a
  b = b
  c = c
  NoFrame = NoFrame
  Requests <- MCRequests
  Content <- MCDistinct
  MaxOpen = 2
  MaxChunk = 1
  Faults <- NoFaults
\* The system stops when every request is settled or the process has ended.
CHECK_DEADLOCK FALSE
INVARIANTS
  ErrorSetAtMostOnce
