SPECIFICATION Safety
CONSTANTS
  a = a
  b = b
  c = c
  NoFrame = NoFrame
  Requests <- MCRequests
  Content <- MCSame
  MaxOpen = 3
  MaxChunk = 1
  Faults <- Noise
\* The system stops when every request is settled or the process has ended.
CHECK_DEADLOCK FALSE
SYMMETRY Symmetry
INVARIANTS
  TypeOK
  NeverStalls
  

  
  
