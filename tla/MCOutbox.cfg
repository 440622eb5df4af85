SPECIFICATION FairSpec
CONSTANTS
  e1 = e1
  e2 = e2
  e3 = e3
  w1 = w1
  w2 = w2
  demoWorker = demoWorker
  Events = {e1, e2, e3}
  Aggregate <- TwoAggregates
  Named = {e3}
  Workers = {w1, w2}
  WorkerId <- SharedId
  NoWorker = NoWorker
  LeaseTime = 1
  RetryBase = 1
  RetryCap = 2
  MaxAttempts = 2
  MaxToken = 7
  MaxLate = 2
  MaxPartial = 1
  MaxCrashes = 1
INVARIANTS TypeOK OneHolder InOrder
PROPERTIES FinishedForever EventsFinish
CHECK_DEADLOCK FALSE
