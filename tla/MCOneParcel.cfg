SPECIFICATION FulfilmentSpec
CONSTANTS
  None = None
  Callers = {c1, c2}
  Sweeper = sweeper
  Handlers = {"confirm", "retry"}
  Corrections = {}
  Parcels = {r1, r2}
  MaxFailures = 0
CHECK_DEADLOCK FALSE
INVARIANTS
  OneParcel
