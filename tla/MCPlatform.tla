----------------------------- MODULE MCPlatform -----------------------------
(* The components around the sale on small instances: who may sign in and act, *)
(* what is offered, what is said about it.  They share no rows that matter to  *)
(* the properties, so `part` picks the one that runs and the variables of the  *)
(* others rest.                                                                *)
EXTENDS SessionStore, AccountCredentials, IdentityCheck, ContactBook, HttpGateway, Uploads,
        Payees, ListingDesk, CategoryTree, InterestSlots, TicketDesk, RatingBook, ChatThreads,
        Negotiation, RealtimeHub, HomeFeed, Cart

CONSTANT Parts

VARIABLE part

\* Two proposals under the asking price of 2 a unit and one exactly at it.
SomeTerms == {[quantity |-> 1, total |-> 1], [quantity |-> 2, total |-> 3], [quantity |-> 1, total |-> 2]}

\* Three listings, one the viewer's own, in two categories under one root; two tastes
\* named by the same category first, and another the first of them may become; a top
\* list, of which the shelves above may leave nothing.
TopLists == {<<"f1", "f2">>}
SomeTastes == {<<>>, <<[near |-> {"f1", "f2"}, names |-> <<"a", "b">>],
                       [near |-> {"f2"}, names |-> <<"a", "b">>]>>,
                     <<[near |-> {"f1"}, names |-> <<"b">>]>>}
Shelved == [c \in FeedCards |-> IF c = "f1" THEN {"a", "root"} ELSE {"root"}]
Views == {<<"f3", "f1">>}

platformVars == <<part, sessionVars, accountVars, identityVars, contactVars, httpVars, uploadVars,
                  payeeVars, listingVars, treeVars, interestVars, deskVars, ratingVars,
                  chatVars, negotiationVars, hubVars, feedReadVars, cartVars>>

\* What the variables of a part that does not run hold.
Off == "off"

Init ==
  /\ part \in Parts
  /\ IF part = "sessions" THEN SessionInit
          ELSE session = Off /\ refresh = Off /\ epoch = Off /\ drawn = Off /\ kept = Off
               /\ call = Off
  /\ IF part = "accounts" THEN AccountInit
          ELSE account = Off /\ secret = Off /\ minted = Off /\ throttled = Off /\ signedIn = Off
               /\ work = Off
  /\ IF part = "identity" THEN IdentityInit
          ELSE document = Off /\ checking = Off /\ answered = Off
  /\ IF part = "contacts" THEN ContactInit
          ELSE contact = Off /\ phoneCode = Off /\ codeHeld = Off /\ editing = Off /\ writes = Off
  /\ IF part = "http" THEN HttpInit
          ELSE httpRequest = Off /\ httpSession = Off /\ httpRole = Off
  /\ IF part = "uploads" THEN UploadInit
          ELSE resource = Off /\ age = Off /\ object = Off /\ putting = Off /\ confirming = Off
               /\ links = Off /\ reaping = Off /\ reading = Off /\ read = Off
  /\ IF part \in {"banks", "taxes"} THEN PayeeInit
          ELSE bank = Off /\ cashOut = Off /\ tax = Off /\ payeeCall = Off /\ verdicts = Off
  /\ IF part = "listing" THEN ListingInit
          ELSE listing = Off /\ variants = Off /\ desk = Off /\ screen = Off /\ reviewed = Off
  /\ IF part = "categories" THEN TreeInit
          ELSE parent = Off /\ holding = Off /\ request = Off /\ moves = Off
  /\ IF part = "interests" THEN InterestInit
          ELSE favorite = Off /\ signal = Off /\ embedded = Off /\ landing = Off /\ slots = Off
               /\ recomputing = Off /\ now = Off /\ used = Off
  /\ IF part = "tickets" THEN DeskInit
          ELSE refundCase = Off /\ cameBack = Off /\ tickets = Off /\ deskCall = Off
               /\ escalated = Off /\ lapsed = Off /\ resolved = Off /\ rulings = Off /\ lost = Off
               /\ begun = Off
  /\ IF part = "ratings" THEN RatingInit
          ELSE sale = Off /\ feedback = Off /\ windowOver = Off /\ reviews = Off /\ replies = Off
               /\ votes = Off /\ reputation = Off /\ cachedRating = Off /\ ratingOp = Off
               /\ edits = Off
  /\ IF part = "chat" THEN ChatInit
          ELSE chatThreads = Off /\ msgs = Off /\ marks = Off /\ chatOp = Off /\ told = Off /\ rewrites = Off
  /\ IF part = "negotiation" THEN NegotiationInit
          ELSE offer = Off /\ revised = Off /\ line = Off /\ units = Off /\ leftOver = Off /\ sessions = Off
               /\ run = Off /\ expiring = Off /\ req = Off /\ haggleFailures = Off
  /\ IF part = "hub" THEN HubInit
          ELSE wsSession = Off /\ sock = Off /\ hubSub = Off /\ natsSubs = Off /\ cancels = Off
               /\ made = Off /\ sent = Off
  /\ IF part \in {"feed", "filter"} THEN FeedInit
          ELSE onSale = Off /\ setAside = Off /\ glanced = Off /\ tastes = Off /\ tastesHad = Off /\ feedCache = Off
               /\ feedTab = Off /\ feedChanges = Off /\ asked = Off
  /\ IF part = "cart" THEN CartInit
          ELSE cart = Off /\ cartIds = Off /\ offered = Off /\ shopping = Off

\* The variables of every part but the one that runs rest.
OthersRest ==
  /\ IF part = "sessions" THEN TRUE ELSE UNCHANGED sessionVars
  /\ IF part = "accounts" THEN TRUE ELSE UNCHANGED accountVars
  /\ IF part = "identity" THEN TRUE ELSE UNCHANGED identityVars
  /\ IF part = "contacts" THEN TRUE ELSE UNCHANGED contactVars
  /\ IF part = "http" THEN TRUE ELSE UNCHANGED httpVars
  /\ IF part = "uploads" THEN TRUE ELSE UNCHANGED uploadVars
  /\ IF part \in {"banks", "taxes"} THEN TRUE ELSE UNCHANGED payeeVars
  /\ IF part = "listing" THEN TRUE ELSE UNCHANGED listingVars
  /\ IF part = "categories" THEN TRUE ELSE UNCHANGED treeVars
  /\ IF part = "interests" THEN TRUE ELSE UNCHANGED interestVars
  /\ IF part = "tickets" THEN TRUE ELSE UNCHANGED deskVars
  /\ IF part = "ratings" THEN TRUE ELSE UNCHANGED ratingVars
  /\ IF part = "chat" THEN TRUE ELSE UNCHANGED chatVars
  /\ IF part = "negotiation" THEN TRUE ELSE UNCHANGED negotiationVars
  /\ IF part = "hub" THEN TRUE ELSE UNCHANGED hubVars
  /\ IF part \in {"feed", "filter"} THEN TRUE ELSE UNCHANGED feedReadVars
  /\ IF part = "cart" THEN TRUE ELSE UNCHANGED cartVars

Next ==
  \/ part = "sessions" /\ UNCHANGED part /\ OthersRest /\ SessionNext
  \/ part = "accounts" /\ UNCHANGED part /\ OthersRest /\ AccountNext
  \/ part = "identity" /\ UNCHANGED part /\ OthersRest /\ IdentityNext
  \/ part = "contacts" /\ UNCHANGED part /\ OthersRest /\ ContactNext
  \/ part = "http" /\ UNCHANGED part /\ OthersRest /\ HttpNext
  \/ part = "uploads" /\ UNCHANGED part /\ OthersRest /\ UploadNext
  \/ part = "banks" /\ UNCHANGED part /\ OthersRest /\ BankNext
  \/ part = "taxes" /\ UNCHANGED part /\ OthersRest /\ TaxNext
  \/ part = "listing" /\ UNCHANGED part /\ OthersRest /\ ListingNext
  \/ part = "categories" /\ UNCHANGED part /\ OthersRest /\ TreeNext
  \/ part = "interests" /\ UNCHANGED part /\ OthersRest /\ InterestNext
  \/ part = "tickets" /\ UNCHANGED part /\ OthersRest /\ DeskNext
  \/ part = "ratings" /\ UNCHANGED part /\ OthersRest /\ RatingNext
  \/ part = "chat" /\ UNCHANGED part /\ OthersRest /\ ChatNext
  \/ part = "negotiation" /\ UNCHANGED part /\ OthersRest /\ NegotiationNext
  \/ part = "hub" /\ UNCHANGED part /\ OthersRest /\ HubNext
  \/ part = "feed" /\ UNCHANGED part /\ OthersRest /\ FeedNext
  \/ part = "filter" /\ UNCHANGED part /\ OthersRest /\ FilterNext
  \/ part = "cart" /\ UNCHANGED part /\ OthersRest /\ CartNext

Spec == Init /\ [][Next]_platformVars

\* Concurrent requests are interchangeable in every part, and so are the rows,
\* sockets and accounts named alike.
Symmetry == Permutations(AccountCallers) \cup Permutations(Banks)

-----------------------------------------------------------------------------
(* One property for each part, with the shapes of its rows and copies.        *)

\* A refresh in flight cannot revive a session the account's epoch has left
\* behind (session.go, Rotate against RevokeAll).
SessionsHold ==
  /\ [](part = "sessions" => SessionTypeOK)
  /\ [][part = "sessions" => RefreshCannotResurrect]_platformVars

\* An account can always be named and signed in to, and a request writes only what
\* it is about although it writes the whole row (account.go, unlink, suspend,
\* password and e-mail changes over one optimistic version).
AccountsHold ==
  /\ [](part = "accounts" => AccountTypeOK /\ AlwaysAWayIn)
  /\ [][part = "accounts" => WritesOnlyItsPart]_platformVars

\* One verified document an account, and a verdict on a document stands whoever read
\* it while it was pending (identity.go, the unique index and the status guard).
IdentityHolds ==
  /\ [](part = "identity" => IdentityTypeOK /\ OneVerifiedIdentity)
  /\ [][part = "identity" => VerdictStands]_platformVars

\* Whatever stale copies claim a default role in turn, one contact holds it and the
\* claim is refused only if another took the role since it looked (contact.go,
\* clearDefaults in a READ COMMITTED transaction, over the partial unique indexes).
ContactsHold == part = "contacts" => ContactTypeOK /\ DefaultMoves

\* A live session is recognised on every route that needs its caller, and a service
\* is asked by whom the request presented (router.go's mux, the middleware and each
\* handler's own choice of caller).
RequestsHold == part = "http" => HttpTypeOK /\ SignedInIsRecognised /\ ServedAsPresented

\* A visible upload has its bytes where its link points, and one confirmed in time
\* is not reaped (resource.go, Confirm against the reaper).
UploadsHold == part = "uploads" => UploadTypeOK /\ UploadsSound

\* One default payee and one holder of a tax code, and every filing is decided at
\* most once (payee.go and tax_info.go, their indexes and the pending guard).
PayeesHold == part \in {"banks", "taxes"} => PayeeTypeOK /\ PayeesSound /\ FilingDecidedOnce

\* What buyers see is what a moderator approved, and no edit takes reserved or sold
\* units away (listing.go, the version and quantity guards).
ListingHolds == part = "listing" => ListingTypeOK /\ OnlyReviewedIsLive /\ ListingUnitsBacked

\* Moves checked in two transactions never close a loop (category.go, the tree lock).
CategoriesHold == part = "categories" => TreeTypeOK /\ NoCategoryLoop

\* A saved or viewed listing is in the slots or the sweep will find the account,
\* however recomputes overlap, unless a row of it was on its way to its commit as they
\* were folded (interest.go, the date of a recompute and those of its sources).
InterestsHold == part = "interests" => InterestTypeOK /\ NothingAddedIsMissed

\* A dispute is closed by the verdict on the money alone, and a ticket's verdict
\* stands (service_ticket.go, RecordRefundVerdict and SaveTicket's guard).
TicketsHold ==
  /\ [](part = "tickets" => DeskTypeOK /\ DisputeClosedByVerdict)
  /\ [][part = "tickets" => TicketVerdictStands]_platformVars

\* The reputation and the tallies are the rows they sum up, and a rating stays blind
\* while it may still be answered (feedback.go, review.go, reputation.go).
RatingsHold ==
  part = "ratings" => RatingTypeOK /\ ReputationAddsUp /\ TalliesMatchRows /\ BlindUntilAnswered

\* A requester never reads which moderator answered, no quote crosses threads, and
\* what was read stays read (chat's hideSupport, replyTarget and SaveConversation).
ThreadsHold ==
  /\ [](part = "chat" => ChatTypeOK /\ ThreadsKeepTheirSecrets)
  /\ [][part = "chat" => ReadStaysRead]_platformVars

\* One checkout for a negotiation, its terms frozen once agreed (service_offer.go,
\* ClaimOfferCheckout and SaveOffer's guards).
NegotiationHolds ==
  /\ [](part = "negotiation" => NegotiationTypeOK /\ OneCheckoutPerNegotiation)
  /\ [][part = "negotiation" => AgreedTermsFrozen]_platformVars

\* Sockets and subscription agree through every race of Join, Leave and dispatch
\* (hub.go).
HubHolds == part = "hub" => HubTypeOK /\ SocketsAndSubscriptionAgree

\* A home page repeats nothing whatever the shared cache holds, and a browse is
\* answered as it was asked (service_shelf.go, service_feed.go).
FeedHolds == part \in {"feed", "filter"} => FeedReadTypeOK /\ PageRepeatsNothing /\ AnsweredAsAsked

\* Adds that overlap add up, and a stale quantity neither revives a row nor lands on
\* another (service_cart.go, cart.go's statements by key and by id).
CartHolds == [](part = "cart" => CartTypeOK) /\ [][part = "cart" => CartRowsKeepTheirOwn]_platformVars

=============================================================================
