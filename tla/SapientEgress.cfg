SPECIFICATION LiveSpec
CONSTANTS
  BufferMax = 2
  DedupeMax = 4
  MaxEvents = 4
  Unlocated = {2}
  MaxAgain = 1
  MaxStatus = 1
  MaxTasks = 1
  MaxFaults = 2
CHECK_DEADLOCK FALSE
INVARIANTS RegistersFirst SapientAccounted FusionSeesInOrder
PROPERTIES LinkReturns
