SPECIFICATION FairSpec
CONSTANTS
  None = None
  Wallets = {1, 2}
  Workers = {k1, k2}
  Trades <- OneWay
  HeldOnly <- TheOtherWay
  Corrections <- OneCorrection
  Kinds = {"hold", "release", "refund"}
  Keys <- MCKeys
  Requests <- MCRequests
  LegsOf <- MCLegsOf
INVARIANTS
  TypeOK
  JournalReplays
  NeverOverdrawn
  WholeAndOnce
  NoDeadlock
PROPERTIES
  MoveIsAtomic
  MoveEnds
