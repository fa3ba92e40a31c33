SPECIFICATION Spec
CONSTANTS
  Parts = {"sessions", "accounts", "identity", "contacts", "http", "uploads", "banks", "taxes", "listing",
           "categories", "interests", "tickets", "ratings", "chat", "negotiation", "hub",
           "feed", "filter", "cart"}
  Sids = {s1}
  Tokens = {x1, x2}
  SessionCallers = {c1, c2}
  MaxEpoch = 2
  NoKey = NoKey
  Emails = {e1}
  Providers = {x1, x2}
  Secrets = {s1}
  AccountCallers = {c1, c2}
  MaxVersion = 3
  NoEmail = NoEmail
  NoSecret = NoSecret
  Documents = {x1, x2}
  IdentityCallers = {c1, c2}
  NoDocument = NoDocument
  Contacts = {x1, x2}
  Phones = {p1}
  Roles = {delivery}
  ContactCallers = {c1, c2}
  MaxContactWrites = 3
  NoPhone = NoPhone
  NoContact = NoContact
  Slots = {s1}
  Uploaders = {x1, x2}
  Confirmers = {c1, c2}
  ImageLimit = 1
  VideoLimit = 2
  ReapBatch = 1
  NoSlot = NoSlot
  Banks = {x1, x2}
  Filers = {x1, x2}
  TaxCodes = {x}
  PayeeCallers = {c1, c2}
  Withdrawals = {w1}
  MaxFilings = 2
  NoBank = NoBank
  NoCode = NoCode
  Fields = {name}
  Wordings = {0, 1}
  SellerVariants = {v1}
  ListingCallers = {c1, c2}
  MaxVersionOf = 4
  MaxUnits = 1
  NoEdit = NoEdit
  Categories = {x1, x2, k3}
  Admins = {c1, c2}
  MaxMoves = 3
  Root = Root
  Unborn = Unborn
  Gone = Gone
  Goods = {x1, x2}
  Refreshes = {c1, c2}
  MaxTaste = 4
  MaxFoldFailures = 1
  Never = Never
  TicketKinds = {"refund-dispute", "order-issue"}
  OrderBuyer = B
  OrderSeller = S
  Moderators = {m1}
  DeskCallers = {c1, c2}
  MaxTickets = 2
  MaxDeskCalls = 3
  MaxLost = 1
  Sales = {o1}
  Voters = {v1}
  RatingCallers = {c1, c2}
  Ratings = {1, 5}
  MaxEdits = 3
  Requester = Requester
  Friend = Friend
  Moderator = Moderator
  Desk = Desk
  System = System
  ChatCallers = {c1, c2}
  MaxMessages = 2
  MaxRewrites = 2
  Offers = {o1}
  Hagglers = {c1, c2}
  Terms <- SomeTerms
  UnitPrice = 2
  MaxCounters = 1
  MaxHaggleFailures = 1
  Sockets = {x1, x2, k3}
  SendBuffer = 1
  MaxPerAccount = 2
  MaxSubscriptions = 2
  MaxBroadcasts = 2
  FeedCards = {"f1", "f2", "f3"}
  FeedTabs = {t1}
  FeedEmbedded = {"f1", "f2"}
  OwnCards = {"f3"}
  FeedTopLists <- TopLists
  FeedTastes <- SomeTastes
  FeedGlances <- Views
  FeedCategory <- Shelved
  FeedSeeds = {1}
  ShelfMin = 1
  ShelfLimit = 2
  FeedBatch = 3
  MaxCachedDraws = 1
  MaxFeedChanges = 1
  MaxParameters = 3
  NoCard = NoCard
  CartVariants = {v1, v2}
  CartCallers = {c1, c2}
  Quantities = {1, 2}
  MaxCartRows = 3
  MaxQuantity = 3
SYMMETRY Symmetry
CHECK_DEADLOCK FALSE
INVARIANTS
  ContactsHold
  RequestsHold
  UploadsHold
  PayeesHold
  ListingHolds
  CategoriesHold
  InterestsHold
  RatingsHold
  HubHolds
  FeedHolds
PROPERTIES
  SessionsHold
  AccountsHold
  IdentityHolds
  TicketsHold
  ThreadsHold
  NegotiationHolds
  CartHolds
