---------------------------- MODULE Negotiation ----------------------------
(***************************************************************************)
(* Offers on one variant between its seller and one buyer: proposing,      *)
(* countering, accepting, withdrawing, the deadline, and the checkout an   *)
(* accepted price becomes (order/service_offer.go, domain/offer.go,        *)
(* adapter/postgres/draft.go, service_lifecycle.go and workflow.go).       *)
(*                                                                         *)
(* A handler reads the row, decides on its copy and writes the whole copy  *)
(* back under a guard on the stored status.  Chat cards, pushes and events *)
(* follow the write, are best-effort and leave the row alone.              *)
(***************************************************************************)
EXTENDS Integers, FiniteSets

CONSTANTS
  Offers,       \* the offer rows of this instance
  Hagglers,      \* concurrent requests
  Terms,        \* what may be proposed: records of a quantity and a total
  UnitPrice,    \* what the variant is listed at
  MaxCounters,  \* how often the terms of one offer are revised
  MaxHaggleFailures   \* how many calls fail or handlers die

ASSUME NegotiationAssumption ==
  /\ Offers # {} /\ Terms # {} /\ Terms \subseteq [quantity : Nat \ {0}, total : Nat \ {0}]
  /\ UnitPrice \in Nat /\ MaxCounters \in Nat /\ MaxHaggleFailures \in Nat

VARIABLES
  offer,      \* the rows
  revised,    \* how often each was countered
  line,       \* the item row of each offer: "none" or "written"
  units,      \* what the catalog holds reserved for the checkout of each offer
  leftOver,   \* what it holds besides, by the request whose checkout failed
  sessions,   \* how many payment sessions were opened for it
  run,        \* the durable run that follows its deadline
  expiring,   \* rows an expiry has read and not written back
  req,        \* the running requests
  haggleFailures

negotiationVars == <<offer, revised, line, units, leftOver, sessions, run, expiring, req, haggleFailures>>

Parties == {"buyer", "seller"}
Actors  == Parties \cup {"stranger"}
Other(p) == IF p = "buyer" THEN "seller" ELSE "buyer"

\* The row.  lapsed says that expires_at has passed.
Offer == [status : {"none", "active", "accepted", "checked-out", "cancelled"},
          author : Parties, terms : Terms, lapsed : BOOLEAN, session : BOOLEAN]

AnyTerms == CHOOSE t \in Terms : TRUE
NoOffer == [status |-> "none", author |-> "buyer", terms |-> AnyTerms,
          lapsed |-> FALSE, session |-> FALSE]
NoReq == [op |-> "none", at |-> "idle", o |-> CHOOSE o \in Offers : TRUE, row |-> NoOffer]

\* Every variable holds a value of its kind.
NegotiationTypeOK ==
  /\ offer \in [Offers -> Offer]
  /\ revised \in [Offers -> 0 .. MaxCounters]
  /\ line \in [Offers -> {"none", "written"}]
  /\ units \in [Offers -> Nat] /\ leftOver \in [Offers -> [Hagglers -> Nat]]
  /\ sessions \in [Offers -> Nat]
  /\ run \in [Offers -> {"none", "running", "done"}]
  /\ expiring \subseteq [o : Offers, row : Offer]
  /\ req \in [Hagglers -> [op : {"none", "save", "checkout"},
                          at : {"idle", "save", "claim", "reserve", "quote", "open", "insert", "attach", "release"},
                          o : Offers, row : Offer]]
  /\ haggleFailures \in 0 .. MaxHaggleFailures

NegotiationInit ==
  /\ offer = [o \in Offers |-> NoOffer]
  /\ revised = [o \in Offers |-> 0]
  /\ line = [o \in Offers |-> "none"]
  /\ units = [o \in Offers |-> 0]
  /\ leftOver = [o \in Offers |-> [c \in Hagglers |-> 0]]
  /\ sessions = [o \in Offers |-> 0]
  /\ run = [o \in Offers |-> "none"]
  /\ expiring = {}
  /\ req = [c \in Hagglers |-> NoReq]
  /\ haggleFailures = 0

-----------------------------------------------------------------------------
(* The entity's rules *)

\* Terms sit strictly under what the listing asks; an unknown price permits all.
BelowAsking(t) == UnitPrice = 0 \/ t.quantity = 0 \/ t.total < UnitPrice * t.quantity

NewOffer(t) == [status |-> "active", author |-> "buyer", terms |-> t,
                lapsed |-> FALSE, session |-> FALSE]

InvolvesOffer(row, actor) == row.status # "none" /\ actor \in Parties

movable(row, actor) == InvolvesOffer(row, actor) /\ row.status = "active" /\ ~row.lapsed

\* The price on the table is the other side's to answer.
YourTurn(row, actor) == row.author # actor

Counter(row, actor, t) == [row EXCEPT !.author = actor, !.terms = t, !.lapsed = FALSE]

Accept(row) == [row EXCEPT !.status = "accepted", !.lapsed = FALSE]

CanCancelOffer(row, actor) == InvolvesOffer(row, actor) /\ row.status = "active"

CheckoutBy(row, actor) == row.status = "accepted" /\ actor = "buyer" /\ ~row.lapsed

CanExpire(row) == row.status \notin {"cancelled", "checked-out"}

-----------------------------------------------------------------------------
(* The guarded statements *)

\* offer_one_active_per_buyer_sku.
InsertOfferLands == \A o \in Offers : offer[o].status # "active"

\* Mutant: the UPDATE without its status guard.
SaveOfferAnyway(o, from) == TRUE

\* SaveOffer lands where the stored status is one the entity moved out of.
SaveOfferLands(o, from) == offer[o].status \in from

\* Every column but payment_session_id comes from the copy.
SaveOffer(o, row) == offer' = [offer EXCEPT ![o] = [row EXCEPT !.session = offer[o].session]]

\* Mutant: the claim trusts the copy.
ClaimAnyway(o) == TRUE

\* ClaimOfferCheckout lands on accepted terms.  Its expires_at > @now compares the
\* row with the instant the request read it at, when the price was still good.
ClaimOfferCheckoutLands(o) == offer[o].status = "accepted"

\* ReleaseOfferCheckout: the claim of a checkout that recorded no session.
ReleaseOfferCheckout(o) ==
  offer' = IF offer[o].status = "checked-out" /\ ~offer[o].session
           THEN [offer EXCEPT ![o].status = "accepted"] ELSE offer

\* unclaim(): an error is logged, and the claim stays.
Unclaim(o) == ReleaseOfferCheckout(o) \/ UNCHANGED offer

AttachOfferSessionLands(o) == offer[o].status = "checked-out" /\ ~offer[o].session

\* Mutant: agreed prices are left out of the expiry.
ExpireActiveOnly == {"active"}

expirableOffer == {"active", "accepted"}

-----------------------------------------------------------------------------
(* Requests on the terms *)

HagglerFree(c) == req[c].op = "none"
To(c, step) == req' = [req EXCEPT ![c].at = step]
End(c) == req' = [req EXCEPT ![c] = NoReq]
BeginHaggle(c, kind, step, o, row) == req' = [req EXCEPT ![c] = [op |-> kind, at |-> step, o |-> o, row |-> row]]

\* StartOffer is best-effort, absent without a runtime, and keyed by the offer.
StartOffer(o) ==
  \/ run[o] = "none" /\ run' = [run EXCEPT ![o] = "running"]
  \/ UNCHANGED run

CreateOffer(o, t) ==
  /\ offer[o].status = "none" /\ BelowAsking(t) /\ InsertOfferLands
  /\ offer' = [offer EXCEPT ![o] = NewOffer(t)]
  /\ StartOffer(o)
  /\ UNCHANGED <<revised, line, units, leftOver, sessions, expiring, req, haggleFailures>>

CounterOffer(c, actor, o, t) ==
  /\ HagglerFree(c) /\ revised[o] < MaxCounters
  /\ movable(offer[o], actor) /\ YourTurn(offer[o], actor) /\ BelowAsking(t)
  /\ BeginHaggle(c, "save", "save", o, Counter(offer[o], actor, t))
  /\ revised' = [revised EXCEPT ![o] = @ + 1]
  /\ UNCHANGED <<offer, line, units, leftOver, sessions, run, expiring, haggleFailures>>

AcceptOffer(c, actor, o) ==
  /\ HagglerFree(c) /\ movable(offer[o], actor) /\ YourTurn(offer[o], actor)
  /\ BeginHaggle(c, "save", "save", o, Accept(offer[o]))
  /\ UNCHANGED <<offer, revised, line, units, leftOver, sessions, run, expiring, haggleFailures>>

CancelOffer(c, actor, o) ==
  /\ HagglerFree(c) /\ CanCancelOffer(offer[o], actor)
  /\ BeginHaggle(c, "save", "save", o, [offer[o] EXCEPT !.status = "cancelled"])
  /\ UNCHANGED <<offer, revised, line, units, leftOver, sessions, run, expiring, haggleFailures>>

\* The write of a counter, an acceptance or a withdrawal, from active only; the
\* loser of a race is refused.  An acceptance starts the deadline's run.
SaveTerms(c) ==
  LET o == req[c].o IN
  /\ req[c].at = "save"
  /\ \/ SaveOfferLands(o, {"active"}) /\ SaveOffer(o, req[c].row)
        /\ IF req[c].row.status = "accepted" THEN StartOffer(o) ELSE UNCHANGED run
     \/ ~SaveOfferLands(o, {"active"}) /\ UNCHANGED <<offer, run>>
  /\ End(c)
  /\ UNCHANGED <<revised, line, units, leftOver, sessions, expiring, haggleFailures>>

-----------------------------------------------------------------------------
(* The checkout of agreed terms *)

CheckoutOffer(c, actor, o) ==
  /\ HagglerFree(c) /\ CheckoutBy(offer[o], actor)
  /\ BeginHaggle(c, "checkout", "claim", o, offer[o])
  /\ UNCHANGED <<offer, revised, line, units, leftOver, sessions, run, expiring, haggleFailures>>

ClaimOfferCheckout(c) ==
  LET o == req[c].o IN
  /\ req[c].at = "claim"
  /\ \/ ClaimOfferCheckoutLands(o) /\ To(c, "reserve")
        /\ offer' = [offer EXCEPT ![o].status = "checked-out"]
     \/ ~ClaimOfferCheckoutLands(o) /\ End(c) /\ UNCHANGED offer
  /\ UNCHANGED <<revised, line, units, leftOver, sessions, run, expiring, haggleFailures>>

\* Mutant: the units are never taken from the catalog.
ReserveNothing(c) ==
  /\ req[c].at = "reserve" /\ To(c, "quote")
  /\ UNCHANGED <<offer, revised, line, units, leftOver, sessions, run, expiring, haggleFailures>>

\* ReserveStock takes the units, or refuses and the claim is handed back.
ReserveUnits(c) ==
  LET o == req[c].o IN
  /\ req[c].at = "reserve"
  /\ \/ To(c, "quote") /\ UNCHANGED <<offer, haggleFailures>>
        /\ units' = [units EXCEPT ![o] = @ + req[c].row.terms.quantity]
     \/ haggleFailures < MaxHaggleFailures /\ haggleFailures' = haggleFailures + 1
        /\ Unclaim(o) /\ End(c) /\ UNCHANGED units
  /\ UNCHANGED <<revised, line, leftOver, sessions, run, expiring>>

\* release(): the claim first; its units are handed back in a call of their own.
Release(c) ==
  LET o == req[c].o
      n == req[c].row.terms.quantity
  IN  /\ haggleFailures < MaxHaggleFailures /\ haggleFailures' = haggleFailures + 1
      /\ Unclaim(o)
      /\ units' = [units EXCEPT ![o] = @ - n]
      /\ leftOver' = [leftOver EXCEPT ![o][c] = @ + n]
      /\ To(c, "release")

\* ReleaseStock after a failed checkout: an error is logged, and the units stay reserved.
ReleaseUnits(c) ==
  /\ req[c].at = "release" /\ End(c)
  /\ \/ leftOver' = [leftOver EXCEPT ![req[c].o][c] = @ - req[c].row.terms.quantity]
     \/ UNCHANGED leftOver
  /\ UNCHANGED <<offer, revised, line, units, sessions, run, expiring, haggleFailures>>

\* The line is built and the delivery priced.
QuoteShipping(c) ==
  /\ req[c].at = "quote"
  /\ \/ To(c, "open") /\ UNCHANGED <<offer, units, leftOver, haggleFailures>>
     \/ Release(c)
  /\ UNCHANGED <<revised, line, sessions, run, expiring>>

OpenCheckout(c) ==
  /\ req[c].at = "open"
  /\ \/ To(c, "insert") /\ UNCHANGED <<offer, units, leftOver, haggleFailures>>
        /\ sessions' = [sessions EXCEPT ![req[c].o] = @ + 1]
     \/ Release(c) /\ UNCHANGED sessions
  /\ UNCHANGED <<revised, line, run, expiring>>

\* item_offer_id_key holds one line per negotiation, ever.
InsertItems(c) ==
  LET o == req[c].o IN
  /\ req[c].at = "insert"
  /\ \/ line[o] = "none" /\ line' = [line EXCEPT ![o] = "written"]
        /\ To(c, "attach") /\ UNCHANGED <<offer, units, leftOver, haggleFailures>>
     \/ Release(c) /\ UNCHANGED line
  /\ UNCHANGED <<revised, sessions, run, expiring>>

AttachOfferSession(c) ==
  LET o == req[c].o IN
  /\ req[c].at = "attach"
  /\ \/ AttachOfferSessionLands(o) /\ offer' = [offer EXCEPT ![o].session = TRUE]
        /\ UNCHANGED haggleFailures
     \/ haggleFailures < MaxHaggleFailures /\ haggleFailures' = haggleFailures + 1 /\ UNCHANGED offer
  /\ End(c)
  /\ UNCHANGED <<revised, line, units, leftOver, sessions, run, expiring>>

\* The process dies in the middle of a request.
Crash(c) ==
  /\ ~HagglerFree(c) /\ haggleFailures < MaxHaggleFailures /\ haggleFailures' = haggleFailures + 1
  /\ End(c)
  /\ UNCHANGED <<offer, revised, line, units, leftOver, sessions, run, expiring>>

-----------------------------------------------------------------------------
(* The deadline *)

Lapse(o) ==
  /\ offer[o].status \in expirableOffer /\ ~offer[o].lapsed
  /\ offer' = [offer EXCEPT ![o].lapsed = TRUE]
  /\ UNCHANGED <<revised, line, units, leftOver, sessions, run, expiring, req, haggleFailures>>

\* The rows the sweep's query selects.
ExpiredOffers == {o \in Offers : offer[o].status \in expirableOffer /\ offer[o].lapsed}

Copies(os) == {[o |-> o, row |-> offer[o]] : o \in os}

\* ExpireOffers reads a batch and writes the rows back one by one.
ExpireOffers ==
  /\ expiring = {} /\ ExpiredOffers # {}
  /\ expiring' = Copies(ExpiredOffers)
  /\ UNCHANGED <<offer, revised, line, units, leftOver, sessions, run, req, haggleFailures>>

\* The durable run wakes: over, checked out, or at the deadline it expires the row.
OfferRun(o) ==
  /\ run[o] = "running" /\ run' = [run EXCEPT ![o] = "done"]
  /\ \/ (offer[o].status = "cancelled" \/ offer[o].session) /\ UNCHANGED expiring
     \/ ~offer[o].session /\ offer[o].lapsed /\ CanExpire(offer[o])
        /\ expiring' = expiring \cup Copies({o})
     \/ ~offer[o].session /\ offer[o].lapsed /\ offer[o].status = "checked-out" /\ UNCHANGED expiring
  /\ UNCHANGED <<offer, revised, line, units, leftOver, sessions, req, haggleFailures>>

\* Expire, then SaveOffer from a status nobody has taken further.
SaveExpired(e) ==
  /\ e \in expiring /\ expiring' = expiring \ {e}
  /\ IF CanExpire(e.row) /\ SaveOfferLands(e.o, expirableOffer)
     THEN SaveOffer(e.o, [e.row EXCEPT !.status = "cancelled"]) ELSE UNCHANGED offer
  /\ UNCHANGED <<revised, line, units, leftOver, sessions, run, req, haggleFailures>>

-----------------------------------------------------------------------------
NegotiationNext ==
  \/ \E o \in Offers, t \in Terms : CreateOffer(o, t)
  \/ \E c \in Hagglers, a \in Actors, o \in Offers :
       \/ \E t \in Terms : CounterOffer(c, a, o, t)
       \/ AcceptOffer(c, a, o)
       \/ CancelOffer(c, a, o)
       \/ CheckoutOffer(c, a, o)
  \/ \E c \in Hagglers :
       \/ SaveTerms(c) \/ ClaimOfferCheckout(c) \/ ReserveUnits(c) \/ QuoteShipping(c)
       \/ OpenCheckout(c) \/ InsertItems(c) \/ AttachOfferSession(c) \/ ReleaseUnits(c)
       \/ Crash(c)
  \/ \E o \in Offers : Lapse(o) \/ OfferRun(o)
  \/ ExpireOffers
  \/ \E e \in expiring : SaveExpired(e)

NegotiationSpec == NegotiationInit /\ [][NegotiationNext]_negotiationVars

\* A request that has read its offer makes its next write or call.
NegotiationGoesOn(c) ==
  \/ SaveTerms(c) \/ ClaimOfferCheckout(c) \/ ReserveUnits(c) \/ QuoteShipping(c)
  \/ OpenCheckout(c) \/ InsertItems(c) \/ AttachOfferSession(c) \/ ReleaseUnits(c)

\* Time passes, requests are served, and the sweep comes round.
NegotiationFairSpec ==
  /\ NegotiationSpec
  /\ WF_negotiationVars(\E o \in Offers : Lapse(o))
  /\ WF_negotiationVars(ExpireOffers)
  /\ WF_negotiationVars(\E e \in expiring : SaveExpired(e))
  /\ WF_negotiationVars(\E c \in Hagglers : NegotiationGoesOn(c))

-----------------------------------------------------------------------------
(* Properties *)

PastClaim(o) == {c \in Hagglers : req[c].o = o /\ req[c].at \in {"reserve", "quote", "open", "insert", "attach"}}

\* "Create order now" pressed twice opens one checkout: the claim is held by one
\* request at a time, only while the row says so, a line is never written under a
\* claim that was handed back, and one checkout's units are reserved, no more than
\* was agreed.  What the catalog holds besides is of checkouts that failed: their
\* claim goes back before their units, and an error of either is only logged.
OneCheckoutPerNegotiation ==
  \A o \in Offers :
    /\ Cardinality(PastClaim(o)) <= 1
    /\ PastClaim(o) # {} \/ line[o] = "written" \/ offer[o].session => offer[o].status = "checked-out"
    /\ units[o] <= offer[o].terms.quantity
    /\ \A c \in Hagglers : leftOver[o][c] > 0 => haggleFailures > 0

\* Agreed terms are below the asking price and frozen: no revision, withdrawal or
\* acceptance decided on an older copy changes them, the terms of a recorded
\* checkout are not even expired, and a closed negotiation stays closed.
AgreedTermsFrozen ==
  \A o \in Offers :
    /\ offer[o].status \in {"accepted", "checked-out"} /\ offer'[o].status # "cancelled" =>
         offer'[o].status # "active" /\ offer'[o].terms = offer[o].terms /\ offer'[o].author = offer[o].author
    /\ UnitPrice > 0 /\ offer[o].status = "active" /\ offer'[o].status = "accepted" =>
         offer'[o].terms.total < UnitPrice * offer'[o].terms.quantity
    /\ offer[o].session => offer'[o] = offer[o]
    /\ offer[o].status = "cancelled" => offer'[o] = offer[o]

\* No negotiation stays open for ever: an unanswered proposal and an agreed price
\* nobody checks out are closed by the sweep although runs end early.
NegotiationEnds ==
  \A o \in Offers : offer[o].status \in {"active", "accepted"} ~> offer[o].status \in {"checked-out", "cancelled"}

=============================================================================
