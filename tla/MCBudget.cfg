SPECIFICATION BudgetSpec
CONSTANTS
  t1 = t1
  t2 = t2
  k1 = k1
  k2 = k2
  c1 = c1
  c2 = c2
  Tenants = {t1, t2}
  RunKeys = {k1, k2}
  Costs = {1}
  LimitSets <- Plans
  Callers = {c1, c2}
  Warning = 2
  HardCap = 3
  Days = 2
  MonthLength = 2
  MaxPolicies = 1
SYMMETRY Symmetry
INVARIANT CapHolds
PROPERTY GrowthYields
CHECK_DEADLOCK FALSE
