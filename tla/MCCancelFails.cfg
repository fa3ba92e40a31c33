SPECIFICATION FulfilmentFairSpec
CONSTANTS
  None = None
  Callers = {c1}
  Sweeper = sweeper
  Handlers = {"confirm", "cancel", "decline"}
  Corrections = {}
  Parcels = {r1, r2}
  MaxFailures = 1
CHECK_DEADLOCK FALSE
PROPERTIES
  CancelledIsRefunded
