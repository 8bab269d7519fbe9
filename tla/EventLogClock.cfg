SPECIFICATION Spec
CONSTANTS
  Readers = {r1}
  Torn = Torn
  MaxLines = 3
  MaxCrashes = 1
INVARIANT
  ClockIsPosition
CHECK_DEADLOCK FALSE
