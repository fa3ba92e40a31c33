SPECIFICATION Spec
CONSTANTS
  Parts = {"runs", "negotiation", "notifications", "hub", "index"}
  MaxLostCalls = 2
  MaxRunCases = 1
  Offers = {o1}
  Hagglers = {c1}
  Terms <- SomeTerms
  UnitPrice = 2
  MaxCounters = 2
  MaxHaggleFailures = 1
  MaxEntries = 2
  BatchSize = 1
  MaxLosses = 1
  MaxRestarts = 1
  Buyer = Buyer
  Seller = Seller
  MaxToggles = 1
  Sockets = {k1, k2}
  SendBuffer = 1
  MaxPerAccount = 1
  MaxSubscriptions = 2
  MaxBroadcasts = 2
  IndexWords = {a, b}
  Embedders = {p1, p2}
  MaxRivalClaims = 1
  MaxWrites = 1
  MaxModelErrors = 1
  NoMark = NoMark
  NoVector = NoVector
CHECK_DEADLOCK FALSE
PROPERTIES
  EventsAreWorked
  NegotiationEnds
  RevocationEndsStreams
  IndexCatchesUp
  
