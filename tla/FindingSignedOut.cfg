SPECIFICATION Spec
CONSTANTS
  Ids = {a1, a2}
  Emails = {e1, e2}
  Phones = {p1}
  Callers = {c1, c2}
  None = None
  MaxRequests = 3
  MaxCrashes = 0
INVARIANT EveryOtherDeviceSignedOut
CHECK_DEADLOCK FALSE
