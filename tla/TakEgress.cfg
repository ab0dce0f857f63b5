SPECIFICATION LiveSpec
CONSTANTS
  BufferMax = 2
  MaxPayloads = 4
  InboxMax = 2
  WireMax = 1
  MaxFaults = 2
CHECK_DEADLOCK FALSE
INVARIANTS Accounted TakSeesInOrder
PROPERTIES DrainsAndStops
