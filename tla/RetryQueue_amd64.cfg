SPECIFICATION Spec
CONSTANTS
  Ids <- TwoIds
  Processor = proc
  Flushers = {f1}
  MaxSizes = {2}
  RetryBase = 1
  RetryMax = 2
  DurationMax = 3
  Saturates = FALSE
  Persist = TRUE
  WriteFaults = FALSE
  MaxAttempts = 2
  MaxStops = 0
  NoEntry = NoEntry
PROPERTIES RetriesBackOff
