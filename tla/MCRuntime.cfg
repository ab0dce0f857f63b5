SPECIFICATION LiveSpec
CONSTANTS
  Events <- MCEvents
  MaxBuffer = 2
  MaxLog = 2
  Budgets <- AnyWeather
INVARIANTS SpooledSurvives AckedIsStored StoredOnce ReplayInOrder
PROPERTIES BacklogDrains IngestNeverFreezes
CHECK_DEADLOCK FALSE
