CONSTANTS
  Readings <- MCReadings
  PACK_OVERVOLTAGE_THRESHOLD_MV = 134400
  PACK_UNDERVOLTAGE_THRESHOLD_MV = 83200
  DEBOUNCE_LIMIT = 2
  COUNT_RANGE = 8
SPECIFICATION FairSpec
INVARIANTS ClosedInOrder AtMostOneLate
PROPERTIES Debounced  RunOnlyPrecharged
CHECK_DEADLOCK FALSE
