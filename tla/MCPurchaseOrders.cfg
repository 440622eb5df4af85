SPECIFICATION Spec
CONSTANTS
  l1 = l1
  l2 = l2
  c1 = c1
  c2 = c2
  p1 = p1
  t1 = t1
  Lines = {l1, l2}
  Suppliers = {1, 2}
  QuoteTables <- Tables
  NoSupplier = NoSupplier
  Callers = {c1, c2}
  People = {p1}
  NoPerson = NoPerson
  Tracks = {t1}
  NoTrack = NoTrack
  ApprovalTime = 1
  MaxPoVersion = 4
  MaxChanges = 2
SYMMETRY Symmetry
INVARIANTS RoutedOnce PoMatchesApproval CancelledBuysNothing
PROPERTY SubmittedOnCurrentApproval
CHECK_DEADLOCK FALSE
