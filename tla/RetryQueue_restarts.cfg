SPECIFICATION Spec
CONSTANTS
  Ids <- TwoIds
  Processor = proc
  Flushers = {f1}
  MaxSizes = {0, 1, 2}
  RetryBase = 1
  RetryMax = 2
  DurationMax = 3
  Saturates = TRUE
  Persist = TRUE
  WriteFaults = FALSE
  MaxAttempts = 2
  MaxStops = 2
  NoEntry = NoEntry
INVARIANTS SavedAlertsSurvive
PROPERTIES LeavesWhenSettled NoResend RetriesBackOff CleanShutdownLosesNothing
