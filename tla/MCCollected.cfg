SPECIFICATION PaymentFairSpec
CONSTANTS
  None = None
  PaymentCallers = {c1}
  Kinds = {"buyer-checkout"}
  Rails = {card}
  DirectRails = {balance}
  Total = 2
  MaxLegs = 1
  MaxPaymentFailures = 1
CHECK_DEADLOCK FALSE
PROPERTIES
  CollectedIsCredited
