SPECIFICATION Spec
CONSTANTS
  None = None
  Callers = {c1, c2}
  Sweeper = sweeper
  Handlers = {"confirm", "decline", "cancel", "receive", "escalate", "retry", "checkpoint", "advance"}
  Corrections = {"returned"}
  Parcels = {r1, r2}
  MaxFailures = 1
  RefundCallers = {c1, c2}
  RefundSweeper = sweeper
  RefundHandlers = {"receive", "cancel", "create", "withdraw", "attach", "accept", "advance-return", "escalate", "resolve", "advance", "payout", "retry"}
  Photos = {}
  MaxEvidence = 0
  MaxCases = 2
  OtherHeld = 1
  SellerFirst = TRUE
  MaxRefundFailures = 1
SYMMETRY Symmetry
CHECK_DEADLOCK FALSE
INVARIANTS
  OrderSound
  CaseSound
PROPERTIES
  OrderOneWay
  ClosedCaseIsFinal
