SPECIFICATION Safety
CONSTANTS
  W = 16
  Payloads <- MCPayloads
  Garble <- MCGarble
  MaxFaults = 1
  Faults <- BadByteOnly
\* The system stops when all frames are sent and read.
CHECK_DEADLOCK FALSE
PROPERTIES
  HoldsBackTwo
