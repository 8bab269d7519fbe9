SPECIFICATION AccountsSpec
CONSTANTS
  Emails = {e1}
  None = None
  MaxEvents = 3
  MaxTokens = 1
  MaxParallel = 2
  MaxRestarts = 1
INVARIANT ProjectionNeverFails
CHECK_DEADLOCK FALSE
