SPECIFICATION Spec
CONSTANTS
  w1 = w1
  w2 = w2
  w3 = w3
  tc = tc
  del = del
  bulk = bulk
  set = set
  rs = rs
  pr = pr
  s1 = s1
  s2 = s2
  Services = {s1}
  Jobs = {w1, w2}
  Kind <- MCKind
  Svc <- OneService
  Status <- FirstFires
  After <- InTurn
  MaxMutate = 2
  MaxStatus = 2
  MaxQueue = 2
  ConflictPolicy = "skip"
  Icinga2Force = FALSE
  RetryEnabled = TRUE
  Unreliable = TRUE
  Deadlines = FALSE
  OperatorDeletes = FALSE
  Freezes = FALSE
  Ours = {}
  Foreign = {}
INVARIANTS NewestWins
