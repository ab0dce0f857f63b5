SPECIFICATION LiveSpec
CONSTANTS
  Attributes = {"speed"}
  Metadata = {"uid"}
  Genuine = {"e1", "e2", "e3"}
  Forged = {"f1"}
  EventOf <- MCEventOf
  Configs <- MCConfigs
  Attempts = 2
  Window = 2
  InboxMax = 1
  MaxMessages = 4
CHECK_DEADLOCK FALSE
INVARIANTS EgressAccounted OnlyGovernedLeaves WindowHolds ContentDelivered
PROPERTIES AttemptsEnd
