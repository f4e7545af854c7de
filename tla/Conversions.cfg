SPECIFICATION Spec
CONSTANTS
  Bytes <- MCBytes
  MaxLength = 4
\* A message of the greatest length is the end.
CHECK_DEADLOCK FALSE
INVARIANTS
  LineIsSafe
  CrcIsSafe
  
  ReadingsAgree
