SPECIFICATION AuthorizationSpec
CONSTANTS
  Tabs = {t1}
  MaxIssued = 2
  MaxLosses = 1
  MaxRestarts = 0
PROPERTIES
  OnlySleepSignsOut
CHECK_DEADLOCK FALSE
