SPECIFICATION FairSpec
CONSTANTS
  None = None
  Callers = {c1, c2}
  Sweeper = sweeper
  Handlers = {"confirm", "cancel", "escalate", "retry"}
  Corrections = {}
  Parcels = {r1, r2, r3}
  MaxFailures = 1
  RefundCallers = {c1}
  RefundSweeper = sweeper
  RefundHandlers = {"receive", "cancel", "create", "withdraw", "attach", "accept", "advance-return", "escalate", "resolve", "advance", "payout", "retry"}
  Photos = {f1}
  MaxEvidence = 1
  MaxCases = 2
  OtherHeld = 0
  SellerFirst = TRUE
  MaxRefundFailures = 1
CHECK_DEADLOCK FALSE
PROPERTIES
  ConfirmedGetsBooked
  PayoutArrives
  
