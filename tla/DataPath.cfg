SPECIFICATION PathSpec

CONSTANTS
  k1 = k1  k2 = k2  t1 = t1  t2 = t2  h1 = h1  h2 = h2  s1 = s1

  \* history: two files, a limit of none or one line
  Paths = {p1, p2}
  Limits = {0, 1}
  RotateEvery = 2
  MaxAppends = 3
  MaxFaults = 1
  Malformed = Malformed
  DefaultLimit = 2
  MaxHistoryLimit = 3
  RecentEntriesLimit = 2
  RecentErrorsLimit = 1
  NotOK = {1}
  WithError = {2}

  \* event stream
  Publishers = {g1, g2}
  Browsers = {b1, b2}
  RingSize = 2
  BufferSize = 1
  MaxClients = 1
  MaxEvents = 3

  \* webhook requests
  Requests = {r1, r2}
  ApiKeys = {k1, k2}
  Configs <- MCConfigs
  Bodies <- MCBodies
  MaxParallel = 2
  MaxReloads = 1
  Nothing = Nothing

  \* health checker
  FailLimit = 3
  MaxTrouble = 4
  MaxFails = 4

INVARIANTS
  CountExact OvershootBounded NewestLinesKept
  NoSendOnClosed StreamIsFresh
  AnswerTruthful  RoutedByOneConfig
  ReportMatchesProbes
PROPERTIES
  LimitApplied NobodyBlocks EveryWebhookAnswered ServiceRestored

CHECK_DEADLOCK FALSE
