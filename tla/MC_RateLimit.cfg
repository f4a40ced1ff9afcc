SPECIFICATION Spec
CONSTANTS
  Thread = {t1, t2, t3}
  a = a
  b = b
  proxy = proxy
  Addr = {a, b, proxy}
  Trusted = {proxy}
  Name = {"shorten", "redirect", "admin"}
  Defaults <- MC_Defaults
  Requests <- MC_Requests
  Second = 2
  MaxTime = 3
SYMMETRY AnyOrder
CHECK_DEADLOCK FALSE
INVARIANTS
  NeverOverBudget
  MetricsAddUp
PROPERTIES
  RetryAfterIsEnough
