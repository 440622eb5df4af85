SPECIFICATION DevFairSpec
CONSTANTS
  t1 = t1
  w1 = w1
  w2 = w2
  base = base
  red = red
  green = green
  leak = leak
  Jobs = {1, 2}
  Workers = {w1, w2}
  NoWorker = NoWorker
  LeaseTime = 1
  MaxAttempts = 2
  RetryCap = 1
  DeferTime = 1
  Tasks = {t1}
  Blocked = {t1}
  Requests <- Operators
  Code = {base, red, green, leak}
  Base = base
  Passing = {green, leak}
  Allowed = {base, red, green}
  Scanned = {base, red, green}
  MaxFix = 2
  MaxTrouble = 2
INVARIANTS PublishedIsVerified FixesBounded
PROPERTIES WriterIsCurrent JobsEnd
CHECK_DEADLOCK FALSE
