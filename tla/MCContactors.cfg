CONSTANTS
  Clients = {TaskInit, TaskPrecharge}
  NUM_CONTACTORS = 1
  TIMER_QUEUE_LENGTH = 2
SPECIFICATION FairSpec
INVARIANTS FalseAlarmWindow PinStateAgree
PROPERTY MismatchReported
CHECK_DEADLOCK FALSE
