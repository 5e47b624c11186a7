CONSTANTS
  NUM_TEMPERATURE_SENSORS = 2
  Temperatures = {40000, 60000, 75000}
  OVERTEMP_THRESHOLD_CHARGING_MC = 55000
  OVERTEMP_THRESHOLD_DISCHARGING_MC = 70000
  CELL_CHARGING_TEMP_THRESHOLD_MC = 50000
  OTEMP_FAULT_THRESHOLD = 3
  HISTOGRAM_RANGE = 6
SPECIFICATION Spec
PROPERTY OneReadingIsFiltered
