SPECIFICATION Pipeline
CONSTANTS
  CommandLines <- AllLines
  Bad = Bad
  Machines <- AllMachines
  Moments <- OneMoment
  Stamps <- TwoStamps
  MaxSets = 2
CHECK_DEADLOCK FALSE
INVARIANTS
  PipelineTypeOK
  RegistersWanted
  RowsShowSets
  RowsComplete
  AcceptsWhole
PROPERTIES
  Finishes
