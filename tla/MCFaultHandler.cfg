CONSTANTS
  TimerTask = Timer
  Tasks = {Timer, TaskA}
  OtherTimer = Watchdog
  NUM_FAULTS = 3
  MAX_FAULT_BITS = 2
  TIMER_QUEUE_LENGTH = 1
SPECIFICATION FairSpec
INVARIANTS RootCause NoLostWakeup FaultRegister
PROPERTY ImplementsLatch
CHECK_DEADLOCK FALSE
