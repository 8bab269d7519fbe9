SPECIFICATION FairSpec
CONSTANTS
  Readers = {r1}
  Torn = Torn
  MaxLines = 4
  MaxCrashes = 3
INVARIANTS
  TypeOK
  AcknowledgedIsDurable
  ReaderNeverSkips
  LoadedClocksAreDense
  WokenReaderSleepsOnlyWhenCaughtUp
PROPERTY
  WokenReaderCatchesUp
CHECK_DEADLOCK FALSE
