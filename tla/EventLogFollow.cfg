SPECIFICATION Spec
CONSTANTS
  Readers = {r1}
  Torn = Torn
  MaxLines = 3
  MaxCrashes = 0
INVARIANT
  SleepsOnlyWhenCaughtUp
CHECK_DEADLOCK FALSE
