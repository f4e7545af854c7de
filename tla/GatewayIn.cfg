SPECIFICATION Spec
CONSTANTS
  W = 12
  Lines <- MCLines
  Garble <- MCGarble
  MaxFaults = 1
  Faults <- AllFaults
\* The system stops when all lines are sent.
CHECK_DEADLOCK FALSE
INVARIANTS
  TypeOK
  DriverCovers
  OnlyWanted
PROPERTIES
  Released
  AllSent
