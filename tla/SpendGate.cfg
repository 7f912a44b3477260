SPECIFICATION FairGateSpec
CONSTANTS
  Callers = {c1, c2, c3}
  Keys = {k1, k2}
  Nobody = Nobody
  Limit = 2
  LastDay = 2
INVARIANTS
  OneCallPerKey
  RowWithinLimit
  CountedButForMidnight
PROPERTY
  EveryCallerAnswered
CHECK_DEADLOCK FALSE
