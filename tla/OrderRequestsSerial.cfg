SPECIFICATION Spec
CONSTANTS
  Workers = {w1}
  Suppliers = {s1, s2}
  Nobody = Nobody
  Absent = Absent
  MaxWindows = 4
  Deadlines = {1, 2, 3, 4}
  NoDeadline = 0
  RoundsBeforeFlag = 1
  Purchases <- AllPurchases
  Overlap = FALSE
PROPERTY
  ImplementsLifecycle
CHECK_DEADLOCK FALSE
