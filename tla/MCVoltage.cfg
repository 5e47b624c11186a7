CONSTANTS
  NUM_TAPS = 2
  MODULES_PER_SEGMENT = 2
  Voltages = {2500, 3700, 4180, 4300}
  CELL_OVERVOLTAGE_THRESHOLD_MV = 4200
  CELL_UNDERVOLTAGE_THRESHOLD_MV = 2600
  CELL_CHARGING_VOLTAGE_THRESHOLD_MV = 4150
SPECIFICATION Spec
INVARIANTS GoodIsMeasured RangeIsShown ModuleIsGuilty FaultStaysVisible
PROPERTIES SilentTapReported
