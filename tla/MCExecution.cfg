SPECIFICATION LateFairSpec
CONSTANTS
  a1 = a1
  w1 = w1
  w2 = w2
  demoWorker = demoWorker
  Attempts = {a1}
  Workers = {w1, w2}
  WorkerId <- SharedId
  NoWorker = NoWorker
  LeaseTime = 1
  BackoffBase = 1
  BackoffCap = 2
  ObsLimit = 1
  MaxVersion = 20
  MaxChanges = 2
  MaxCrashes = 1
  MaxLate = 1
  MaxModes = 1
  Modes = {"refusal", "timeout_before", "timeout_after"}
INVARIANTS TypeOK VerdictIsTrue LeaseExclusive
PROPERTIES TerminalForever  NoBlindResend ImplementsExternalEffect 
CHECK_DEADLOCK FALSE
