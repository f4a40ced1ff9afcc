SPECIFICATION Spec
CONSTANTS
  Thread = {t1, t2, t3}
  Warehouse = {w1, w2}
  Product = {p1}
  Sku = {s1}
  Key = {k1}
  w1 = w1
  w2 = w2
  p1 = p1
  s1 = s1
  k1 = k1
  Requests <- MC_Requests
  Catalogs <- MC_Catalogs
  MaxInt = 4
  MaxCrashes = 1
SYMMETRY AnyOrder
CHECK_DEADLOCK FALSE
INVARIANTS
  HistoryExplainsStock
  AlertsFollowStock
  RetriesApplyOnce
  AnswersAreDurable
