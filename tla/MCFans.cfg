CONSTANTS
  FAN_MIN_RPM = 100
  FAN_MAX_RPM = 4950
  FAN_CONTROLLER_RPM = 1500
SPECIFICATION Spec
CHECK_DEADLOCK FALSE
PROPERTY FansStayAtMax
