SPECIFICATION Spec
CONSTANTS
  W = 16
  Payloads <- MCPayloads
  Garble <- MCGarble
  MaxFaults = 1
  Faults <- AllFaults
\* The system stops when all frames are sent and read.
CHECK_DEADLOCK FALSE
INVARIANTS
  TypeOK
  LengthCounts
  AcceptedIsSound
PROPERTIES
  CrcDetects
  
