SPECIFICATION EgoSpec
CONSTANTS
  Once = 5
  Delayed <- MCDelayed
\* A request that is never answered is the end.
CHECK_DEADLOCK FALSE
PROPERTIES
  AnswerBelongs
  KeepsAsking
