SPECIFICATION Spec
CONSTANTS
  StartStates <- MCStartStates
INVARIANTS
  TypeOK
  SetUpDone
PROPERTIES
  HandlerEnds
  DesiredReached
