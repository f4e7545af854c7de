SPECIFICATION Spec
CONSTANTS
  Numbers <- MCNumbers
  NaN = NaN
  Null = Null
  MaxSlots = 3
  Scenarios <- MCScenarios
  MonitorRecords <- MCMonitorRecords
  MaxRecords = 3
INVARIANTS
  
  FileIsRight
  OutcomeRight
PROPERTY
  ActionsEnd
