SPECIFICATION FairSpec
CONSTANTS
  Ids <- TwoIds
  Processor = proc
  Flushers = {f1}
  MaxSizes = {0, 1}
  RetryBase = 1
  RetryMax = 2
  DurationMax = 3
  Saturates = FALSE
  Persist = TRUE
  WriteFaults = TRUE
  MaxAttempts = 2
  MaxStops = 1
  NoEntry = NoEntry
INVARIANTS Conservation DepthBound
PROPERTIES EventuallySettled
