SPECIFICATION LiveSpec
CONSTANTS
  Attributes = {"speed"}
  Metadata = {"uid"}
  Genuine = {"e1", "e2", "e3"}
  Forged = {"f1"}
  EventOf <- MCEventOf
  Configs <- MCClashing
  Attempts = 2
  Window = 2
  InboxMax = 2
  MaxMessages = 2
CHECK_DEADLOCK FALSE
INVARIANTS MappingCannotOmit
