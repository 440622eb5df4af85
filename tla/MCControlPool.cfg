SPECIFICATION FairSpec
CONSTANTS
  l1 = l1
  e1 = e1
  r1 = r1
  Ids = {1}
  Priority <- OperatorFirst
  Lanes = {"local", "ext"}
  ForLane <- AnyLane
  Slots <- OneEach
  Floor = 0
  CodexEnabled = TRUE
  MaxAttempts = 2
  RepeatLimit = 2
  AfterRemedy = 2
  TimeBudget = 3
  MaxRetries = 1
  Nobody = Nobody
  Milestones = {1}
  Dictated = {1}
  Workers = {l1, e1}
  LaneOf <- Homes
  Reviewers = {r1}
  CommandLine = {e1}
  Failures = {"paused"}
  GateNotes = {"gate"}
  Sound = sound
  Unsound = unsound
  Operations = {"retry", "rereview", "approve", "park", "request"}
  MaxOps = 1
  MaxTrouble = 1
  RestartOverWork = FALSE
  EnqueueAlone = TRUE
  
PROPERTIES SetAside 
CHECK_DEADLOCK FALSE
