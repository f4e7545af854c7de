SPECIFICATION Spec
CONSTANTS
  StartStates <- MCStartStates
PROPERTIES
  SwitchedOff
