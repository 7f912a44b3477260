SPECIFICATION Spec
CONSTANTS
  Ids = {a1, a2, a3}
  Emails = {e1, e2, e3}
  Phones = {p1}
  Callers = {c1, c2}
  None = None
  MaxRequests = 4
  MaxCrashes = 1
SYMMETRY MCSymmetry
INVARIANTS
  OneAccountPerEmail
  RewardsMatchInvitees
  OneTokenPerSignIn
  AdminPasswordsAreMarked
PROPERTIES
  PhoneIsHandedOver
CHECK_DEADLOCK FALSE
