SPECIFICATION Spec
CONSTANTS
  Sources = {a, b}
  Sinks = {p, q}
  MaxKeys = 2
  MaxSerial = 1
  MaxRecords = 3
  MaxTampers = 3
  MaxFailures = 1
SYMMETRY Symmetry
CHECK_DEADLOCK FALSE
INVARIANTS RecordsAuditClean  
