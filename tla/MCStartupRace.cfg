CONSTANTS
  SensorMonitors = {Volt}
  TIMER_TASK_PRIORITY = 4
  TIMER_QUEUE_LENGTH = 2
  NUM_CONTACTORS = 2
  NUM_FAULTS = 32
  MAX_FAULT_BITS = 24
  OtherTimer = Watchdog
  MonitorFaults = {2}
  InterruptFault = 31
  MayStick = {}
  MaxFaults = 1
SPECIFICATION Spec
INVARIANT SafeStateHolds
CHECK_DEADLOCK FALSE
