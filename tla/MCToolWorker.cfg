SPECIFICATION ToolSpec
CONSTANTS
  a1 = a1
  w1 = w1
  w2 = w2
  demoWorker = demoWorker
  Attempts = {a1}
  Workers = {w1, w2}
  Processors = {w2}
  WorkerId <- SharedId
  NoWorker = NoWorker
  LeaseTime = 1
  BackoffBase = 1
  BackoffCap = 2
  ObsLimit = 1
  MaxVersion = 7
  MaxChanges = 2
  MaxCrashes = 1
  MaxModes = 1
  Modes = {"success", "timeout_before", "lookup_unavailable"}
  RetryBase = 1
  RetryCap = 1
  MaxAttempts = 2
  MaxToken = 3
  MaxLate = 2
  MaxCalls = 3
INVARIANT CompletedIsDecided
CHECK_DEADLOCK FALSE
