CONSTANTS
  SensorMonitors = {Volt}
  TIMER_TASK_PRIORITY = 4
  TIMER_QUEUE_LENGTH = 1
  NUM_CONTACTORS = 2
  NUM_FAULTS = 32
  MAX_FAULT_BITS = 24
  OtherTimer = Watchdog
  MonitorFaults = {}
  InterruptFault = 31
  MayStick = {0}
  MaxFaults = 0
SPECIFICATION FairSpec
PROPERTIES  HealthyStart
CHECK_DEADLOCK FALSE
