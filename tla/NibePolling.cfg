SPECIFICATION Spec
CONSTANTS
  t = t
  x = x
  y = y
  u = u
  i = i
  k = k
  None = None
  MaxPolls = 2
  Values = {0, 1}
  SetPoints = {0}
  InitialDevices <- MCInitialDevices
  IdMap <- MCIdMap
  LogSet <- MCLogSet
  NonLogSet <- MCNonLogSet
  DegreeMinutes = t
  Volatile <- MCVolatile
  Jobs <- MCJobs
  JobRegister <- MCJobRegister
  Writes <- MCWrites
  JobValue <- MCJobValue
INVARIANTS
  TypeOK
  OneRequestAtATime
  NoChangeLost
PROPERTIES
  QueueSpec
  Refreshed
  
  NotOlderThanTheCall
