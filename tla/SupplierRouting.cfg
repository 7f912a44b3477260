SPECIFICATION Spec
CONSTANTS
  SupplierIds = {s1, s2, s3}
  OrderTypes = {monthly, yearly}
  OrderIds = {o1}
  Admins = {a1}
  Customers = {c1}
  Handlers = {h1}
  Nobody = Nobody
  Absent = Absent
  Removed = Removed
SYMMETRY Symmetry
INVARIANTS
  OneHolderPerType
  OnlyNamedRacesOrphan
CHECK_DEADLOCK FALSE
