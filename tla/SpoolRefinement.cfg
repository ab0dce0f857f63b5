SPECIFICATION Spec
CONSTANTS
  MaxEvents = 5
  SegmentCells = 3
  MaxCells = 7
  MaxIoErrors = 1
  MaxReadErrors = 1
  MaxTorn = 1
  MaxRestarts = 1
  MaxPowerLoss = 1
INVARIANTS NothingLost ResumesInsideLog FitsTheBound
PROPERTIES DrainOnlyForward ImplementsQueue
