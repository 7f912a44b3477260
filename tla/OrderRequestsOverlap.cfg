SPECIFICATION Spec
CONSTANTS
  Workers = {w1, w2}
  Suppliers = {s1, s2}
  Nobody = Nobody
  Absent = Absent
  MaxWindows = 2
  Deadlines = {1, 2}
  NoDeadline = 0
  RoundsBeforeFlag = 1
  Purchases <- LongPurchases
  Overlap = TRUE
SYMMETRY Symmetry
ACTION_CONSTRAINT SavedRequestsFinish
VIEW AllButAlerts
INVARIANTS
  LoopSurvivesOverlap
PROPERTIES
  AssignedForGood
  LapseAnnouncedOnce
CHECK_DEADLOCK FALSE
