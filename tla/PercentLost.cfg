SPECIFICATION Pipeline
CONSTANTS
  CommandLines <- PercentBetween
  Bad = Bad
  Machines <- AllMachines
  Moments <- OneMoment
  Stamps <- TwoStamps
  MaxSets = 2
CHECK_DEADLOCK FALSE
INVARIANTS
  PercentAdded
