SPECIFICATION Spec
SYMMETRY Symmetry
CONSTANTS
  Callers = {c1, c2, c3}
  Payments = {p1}
  Customers = {ann, bob}
  Regs = {reg1, reg2}
  Prices = {1, 2}
  Received = received
  Statuses = {received, dispatched}
  MaxHistory = 3
INVARIANTS
  OnePaymentOneSale
  SoldAsPaid
PROPERTIES
  NoChangeIsLost
  RetryGetsTheSale
