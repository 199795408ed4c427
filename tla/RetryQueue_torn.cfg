SPECIFICATION Spec
CONSTANTS
  Ids <- TwoIds
  Processor = proc
  Flushers = {f1}
  MaxSizes = {2}
  RetryBase = 1
  RetryMax = 2
  DurationMax = 3
  Saturates = TRUE
  Persist = TRUE
  WriteFaults = TRUE
  MaxAttempts = 2
  MaxStops = 1
  NoEntry = NoEntry
INVARIANTS SavedAlertsSurvive
