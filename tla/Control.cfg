SPECIFICATION ControlSpec

CONSTANTS
  u1 = u1  p1 = p1  p2 = p2  t1 = t1  t2 = t2  t3 = t3  h1 = h1  h2 = h2

  \* stored configuration
  Normalize <- MCNormalize
  LegacyTarget = 9
  HostValues = {"", "h1", "h2", "h3", "h9", "hd"}
  NoHost = ""
  Envs <- MCEnvs
  Editors = {q1, q2}
  Edits <- MCEdits
  AccountNames = {"u"}
  NoConfig = NoConfig
  Mask = 99
  FirstMinted = 50
  MaxEdits = 3
  MaxOverlapping = 2
  MaxCrashes = 1

  \* accounts
  Users = {u1}
  Primary = Primary
  Passwords = {p1, p2}
  PrimaryPass = p1
  Dialogs = {d1, d2, d3}
  Tokens = {k1}
  Legacy <- MCLegacy
  Operations <- MCOperations
  SessionTTL = 0
  MaxClock = 1

  \* limiter: a bucket holds little more than one token
  Addresses = {c1, c2}
  One = 7
  Rate = 2
  Burst = 8
  TTL = 4
  Interval = 2
  Second = 2
  MaxTime = 7

  \* target hosts
  Targets = {t1, t2, t3}
  HostNames = {h1, h2}
  HostOf <- MCHostOf
  AutoCreates = {TRUE, FALSE}
  Policies = {"skip", "warn"}
  MaxPasses = 2
  MaxMeddling = 1

INVARIANTS
  AckedIsStored  PruneOnlyIfAsked 
  ServedWasEntitled AccountsAsAdministered
  AdmittedBounded
  PreparationExplained

SYMMETRY ControlSymmetry
CHECK_DEADLOCK FALSE
