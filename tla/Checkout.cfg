SPECIFICATION Spec
SYMMETRY Symmetry
CONSTANTS
  ServiceFee = 4000
  V62Fee = 4000
  Null = Null
  Undefined = Undefined
  Requests = {r1, r2, r3}
  Payments = {p1}
  Customers = {ann, bob}
  Suppliers = {s1}
  Nobody = Nobody
  NoPayment = NoPayment
  NoForm = NoForm
  RateTables <- MCRateTables
  Baskets <- MCBaskets
  Forms <- MCForms
  Mandates <- MCMandates
  MaxCheckouts = 2
INVARIANTS
  OneOrderPerNumber
  PaidForWhatItCosts
  PrintableForms
  UnassignedAlertsTrack
