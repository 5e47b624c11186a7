CONSTANTS
  Currents <- MCCurrents
  OVERCURRENT_CHARGE_THRESHOLD_mA <- MCCharge
  OVERCURRENT_DISCHARGE_THRESHOLD_mA = 68000
  CHARGING_THRESHOLD_MA <- MCCharging
  ADC_QUEUE_LENGTH = 2
  MAX_FAILURES = 4
  BpsIds = {VT0_VOLTAGE, VT0_TEMPERATURE}
  CarIds = {DRIVER_INPUT}
  RX_QUEUE_SIZE = 1
  CAN_RX_FORWARD_QUEUE_SIZE = 2
  MAX_FRAMES = 4
  Monitors = {TEMP, VOLT}
  IWDG_COUNTDOWN_TICKS = 79
  IWDG_WINDOW_TICKS = 27
  WINDOW_TIMER_PERIOD = 27
  TICKS_PER_MS = 4
  I2C_ERROR_THRESHOLD = 5
  MAX_TROUBLE = 12
  FAN_MIN_RPM = 100
  FAN_MAX_RPM = 4950
  FAN_CONTROLLER_RPM = 1500
  Faults <- MCFaults
  ModFaults = {51}
  TICK_BITS = 5
  AGE_BITS = 3
  TapValues <- MCTapValues
  DATA_BITS = 3
  NUM_TEMPERATURE_SENSORS = 2
  FRAME_ID_MAX = 7
  MAX_LOST = 1
  MAX_SILENT = 1
SPECIFICATION BoardSpec
CHECK_DEADLOCK FALSE
INVARIANTS TypesOK ChargingBitFollowsCurrent NewestIsKept  LightsAreAsAsked PairsBelongTogether
PROPERTIES  AmperesSilenceIsReported DelayIsFailures ImplementsLossyChannel RefreshMeansAlive ReadingIsFresh AgeIsRight
