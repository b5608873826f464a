SPECIFICATION ReregistrationSpec
CONSTANTS
  FD = {3}
  Timer = {t1}
  ReregistrationTimer = t1
  MaxCallback = 1
  MaxForeign = 0
  MaxRegister = 3
PROPERTIES
  NotRegisteredWhileDeleted
CHECK_DEADLOCK FALSE
