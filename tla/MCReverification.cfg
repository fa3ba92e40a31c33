SPECIFICATION IdentitySpec
CONSTANTS
  Documents = {d1, d2}
  IdentityCallers = {c1, c2}
  NoDocument = NoDocument
CHECK_DEADLOCK FALSE
PROPERTIES
  TurnedAwayOnlyWhileLive
