SPECIFICATION Spec
CONSTANTS
  a = a
  b = b
  c = c
  NoFrame = NoFrame
  Requests <- MCRequests
  Content <- MCDistinct
  MaxOpen = 1
  MaxChunk = 2
  Faults <- LateOrSplit
\* The system stops when every request is settled or the process has ended.
CHECK_DEADLOCK FALSE
INVARIANTS
  NoCrash
  
PROPERTIES
  QueueSpec
  
