SPECIFICATION Spec
SYMMETRY Symmetry
CONSTANTS
  Requests = {r1, r2}
  NoRow = NoRow
  TTL = 1
  Faults = TRUE
  MaxTime = 2
  MaxVersion = 2
  MaxBills = 2
INVARIANTS
  ServedByThisBuild
PROPERTIES
  PaidOnceWhenKept
  RowStaysWhole
  FailuresToldApart
  BoughtIdentityServed
