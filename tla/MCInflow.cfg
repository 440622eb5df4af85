SPECIFICATION FairSpec
CONSTANTS
  e1 = e1
  e2 = e2
  Unset = Unset
  Events = {e1, e2}
  Pages <- TwoPages
  Spoilable = {e2}
  First = "v1"
  Contents = {"as read", "otherwise"}
  Original = "as read"
  Pollers = {"p", "q"}
  Adapters = {"v1", "v2"}
  MaxManifests = 2
INVARIANTS NothingSkipped PayloadHasReceipt
PROPERTY EveryEventArrives
CHECK_DEADLOCK FALSE
