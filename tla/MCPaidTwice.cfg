SPECIFICATION RefundSpec
CONSTANTS
  RefundCallers = {c1, c2}
  RefundSweeper = sweeper
  RefundHandlers = {"receive", "cancel", "create", "withdraw", "attach", "accept", "advance-return", "escalate", "resolve", "advance", "payout", "retry"}
  Photos = {}
  MaxEvidence = 0
  MaxCases = 1
  OtherHeld = 1
  SellerFirst = TRUE
  MaxRefundFailures = 0
SYMMETRY Symmetry
CHECK_DEADLOCK FALSE
INVARIANTS
  NotPaidTwice
