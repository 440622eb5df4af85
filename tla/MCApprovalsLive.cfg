SPECIFICATION FairSpec
CONSTANTS
  m = m
  u1 = u1
  u2 = u2
  s1 = s1
  s2 = s2
  k1 = k1
  k2 = k2
  p1 = p1
  p2 = p2
  t1 = t1
  t2 = t2
  n1 = n1
  r1 = r1
  r2 = r2
  Users = {m}
  Master = m
  Sessions = {s1}
  SeatLimit = 3
  SessionTime = 1
  MaxRevision = 1
  Keys = {k1, k2}
  NoKey = NoKey
  Payloads = {p1, p2}
  Policies = {1}
  ToolKeys = {}
  Nonces = {n1}
  Requests = {r1}
  Internal = {s1}
  NoUser = NoUser
  ApprovalTime = 1
  NonceTime = 1
  BatchSize = 1
INVARIANTS StatesAgree
PROPERTY PendingEnds
CHECK_DEADLOCK FALSE
