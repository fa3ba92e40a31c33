SPECIFICATION Spec
CONSTANTS
  None = None
  PaymentCallers = {c1, c2}
  Kinds = {"buyer-checkout", "withdrawal"}
  Rails = {card}
  DirectRails = {balance}
  Total = 2
  MaxLegs = 2
  MaxPaymentFailures = 1
  d1 = d1
  d2 = d2
  v1 = v1
  v2 = v2
  NoDraft = NoDraft
  Drafts = {d1, d2}
  Lines <- SharedVariant
  Quantity = 1
  Callers = {c1, c2}
  MaxFailures = 1
SYMMETRY Symmetry
CHECK_DEADLOCK FALSE
INVARIANTS
  PaymentSound
  SaleSound
PROPERTIES
  PaymentOneWay
  LineOneWay
