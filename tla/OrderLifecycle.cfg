SPECIFICATION MCFairSpec
CONSTANTS
  OrderIds = {o1}
  Suppliers = {s1, s2}
  Nobody = Nobody
  Absent = Absent
  NoDeadline = NoDeadline
  Deadlines = {"running", "lapsed"}
  RoundsBeforeFlag = 3
INVARIANTS
  OrdersConsistent
  NoOrderParked
  InvoicesAreEarned
  ClockStoppedUnlessReassigned
  AlertsTrackOrders
PROPERTIES
  ClosedIsTerminal
  LapsedWindowIsActedOn
  EmailOutcomeRecorded
CHECK_DEADLOCK FALSE
