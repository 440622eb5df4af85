SPECIFICATION Spec
CONSTANTS
  t1 = t1
  t2 = t2
  r1 = r1
  r2 = r2
  p1 = p1
  Unset = Unset
  Contracts = {"dispatch", "tracking", "split", "return", "listing", "catalog"}
  Targets = {t1, t2}
  ReviewIds = {r1, r2}
  Papers = {p1}
  MaxAge = 2
  WaitLimit = 1
SYMMETRY Alike
INVARIANT MatchedIsDone
PROPERTY DispatchedOnRecentFacts
CHECK_DEADLOCK FALSE
