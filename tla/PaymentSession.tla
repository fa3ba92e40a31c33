--------------------------- MODULE PaymentSession ---------------------------
(***************************************************************************)
(* One payment session of the finance module, from the day it is opened:   *)
(* a checkout that is tendered on payment rails, or a withdrawal that      *)
(* staff resolve (finance/service_session.go, service_withdrawal.go,       *)
(* domain/session.go, domain/transaction.go, adapter/postgres/session.go). *)
(*                                                                         *)
(* A handler works on copies of the session and of one leg.  Each of its   *)
(* steps is one query, one guarded UPDATE, one call of a rail or one       *)
(* movement of the ledger.                                                 *)
(***************************************************************************)
EXTENDS Integers, FiniteSets, FiniteSetsExt

CONSTANTS
  PaymentCallers,      \* concurrent requests and webhook deliveries
  Kinds,        \* the kinds of session opened in this instance
  Rails,        \* payment options that send the payer to a page
  DirectRails,  \* payment options that decide on the spot
  Total,        \* what the session is over
  MaxLegs,      \* how many legs are opened on it
  MaxPaymentFailures,  \* how many handlers are cut short by an error or a crash
  None

ASSUME PaymentAssumption ==
  /\ Kinds \subseteq {"buyer-checkout", "withdrawal"}
  /\ Rails \cap DirectRails = {} /\ None \notin Rails \cup DirectRails
  /\ Total \in Nat \ {0} /\ MaxLegs \in Nat /\ MaxPaymentFailures \in Nat

VARIABLES
  kind,       \* which session it is
  payment,    \* the status of its row
  late,       \* its deadline has passed
  seq,        \* the last transaction number allocated
  legs,       \* the transaction rows
  page,       \* the gateway's side of each leg
  reports,    \* the outcomes the gateway keeps reporting of each leg
  credited,   \* the movement keyed session:N:topup is posted
  returned,   \* the movement keyed withdrawal:N:return is posted
  published,  \* how often SessionPaid and SessionCancelled were published
  payer,       \* the running handlers
  payFailures

paymentVars == <<kind, payment, late, seq, legs, page, reports, credited, returned, published, payer,
          payFailures>>

LegIDs == 1 .. MaxLegs
Leg    == [status : {"none", "pending", "success", "failed"},
           option : Rails \cup DirectRails \cup {None}, amount : 0 .. Total]
NoLeg  == [status |-> "none", option |-> None, amount |-> 0]

\* Mutant: a leg born in flight.
NewChargeProcessing(option, amount) ==
  [status |-> "processing", option |-> option, amount |-> amount]

NewCharge(option, amount) == [status |-> "pending", option |-> option, amount |-> amount]

SessionStatuses == {"none", "pending", "processing", "success", "cancelled", "failed"}

\* op is the handler, at its next step, s its copy of the session's status, leg
\* and l the leg it works on, status the outcome it books.
PayerIdle == [op |-> "none", at |-> "idle", s |-> "none", l |-> 0, leg |-> NoLeg, status |-> "none"]

PaymentTypeOK ==
  /\ kind \in {"none", "buyer-checkout", "withdrawal"}
  /\ payment \in SessionStatuses
  /\ late \in BOOLEAN /\ credited \in BOOLEAN /\ returned \in BOOLEAN
  /\ seq \in 0 .. MaxLegs
  /\ legs \in [LegIDs -> Leg]
  /\ page \in [LegIDs -> {"none", "created", "open", "closed"}]
  /\ reports \in [LegIDs -> SUBSET {"success", "failed"}]
  /\ published \in [paid : Nat, cancelled : Nat]
  /\ payer \in [PaymentCallers -> [op : {"none", "start", "settle", "cancel", "approve", "reject"},
                           at : {"idle", "legs", "charge", "insert", "processing", "leg", "session",
                                 "reopen", "credit", "paid", "publish", "save", "return"},
                           s : SessionStatuses, l : 0 .. MaxLegs, leg : Leg,
                           status : {"none", "success", "failed", "cancelled"}]]
  /\ payFailures \in 0 .. MaxPaymentFailures

PaymentInit ==
  /\ kind = "none" /\ payment = "none"
  /\ late = FALSE
  /\ seq = 0
  /\ legs = [l \in LegIDs |-> NoLeg]
  /\ page = [l \in LegIDs |-> "none"]
  /\ reports = [l \in LegIDs |-> {}]
  /\ credited = FALSE /\ returned = FALSE
  /\ published = [paid |-> 0, cancelled |-> 0]
  /\ payer = [p \in PaymentCallers |-> PayerIdle]
  /\ payFailures = 0

-----------------------------------------------------------------------------
(* domain.Session, domain.Transaction and their guarded writes *)

Settled(s) == s \in {"success", "cancelled", "failed"}

RailPayable == kind = "buyer-checkout"

\* Mutant: any kind of session can be tendered on a rail.
CanChargeAnyKind(s) == s = "pending" /\ ~late

\* Charge: a processing session already has a leg in flight.
CanCharge(s) == RailPayable /\ s = "pending" /\ ~late

\* ReopenForRetry, which looks at the deadline of a pending session only.
CanReopen(s) == ~Settled(s) /\ ~(s = "pending" /\ late)

ResumableSession(s) == ~Settled(s) /\ ~late

\* A leg whose page the payer can be sent back to.
ResumableLeg(l, option) ==
  legs[l].status = "pending" /\ legs[l].option = option /\ option \in Rails

\* What the legs in one of the statuses amount to.
SumOfLegs(statuses) ==
  MapThenSumSet(LAMBDA l : legs[l].amount, {l \in LegIDs : legs[l].status \in statuses})

\* Mutant: legs still open count as paid.
OutstandingTendered == Max({0, Total - SumOfLegs({"pending", "success"})})

\* tenderOf: what the settled legs leave to pay.
Outstanding == Max({0, Total - SumOfLegs({"success"})})

\* Mutant: the UPDATE without its guard.
SaveSessionAnyway(from) == payment # "none"

\* SaveSession lands only from a status the caller named.
SaveSessionLands(from) == payment \in from

\* Mutant: the UPDATE without its guard.
SaveTransactionAnyway(l) == legs[l].status # "none"

\* SaveTransaction lands only on a pending leg.
SaveTransactionLands(l) == legs[l].status = "pending"

Unsettled == {"pending", "processing"}

-----------------------------------------------------------------------------
(* Steps of a handler *)

BeginPayment(p, h) == payer[p] = PayerIdle /\ payer' = [payer EXCEPT ![p] = h]

PaymentGoto(p, step) == payer' = [payer EXCEPT ![p].at = step]

PaymentDone(p) == payer' = [payer EXCEPT ![p] = PayerIdle]

PaymentAt(p, step) == payer[p].at = step

gatewayUnchanged == UNCHANGED <<page, reports>>
moneyUnchanged   == UNCHANGED <<credited, returned, published>>
clockUnchanged   == UNCHANGED <<kind, late, seq, payFailures>>

OpenCheckout ==
  /\ "buyer-checkout" \in Kinds /\ kind = "none"
  /\ kind' = "buyer-checkout" /\ payment' = "pending"
  /\ UNCHANGED <<late, seq, legs, page, reports, credited, returned, published, payer, payFailures>>

\* The request and its debit are one transaction.
CreateWithdrawal ==
  /\ "withdrawal" \in Kinds /\ kind = "none"
  /\ kind' = "withdrawal" /\ payment' = "pending"
  /\ UNCHANGED <<late, seq, legs, page, reports, credited, returned, published, payer, payFailures>>

\* StartPayment reads the session ...
StartPayment(p) ==
  /\ kind # "none"
  /\ BeginPayment(p, [PayerIdle EXCEPT !.op = "start", !.at = "legs", !.s = payment])
  /\ UNCHANGED <<payment, legs>> /\ gatewayUnchanged /\ moneyUnchanged /\ clockUnchanged

\* ... and then its legs: a leg still waiting on this rail is resumed, and the
\* page the payer walked away from is shown again ...
resumable(p, option) ==
  /\ PaymentAt(p, "legs")
  /\ ResumableSession(payer[p].s)
  /\ \E l \in LegIDs :
       /\ ResumableLeg(l, option)
       /\ \A m \in 1 .. l - 1 : ~ResumableLeg(m, option)
       /\ page' = [page EXCEPT ![l] = IF @ = "created" THEN "open" ELSE @]
  /\ PaymentDone(p)
  /\ UNCHANGED <<payment, legs, reports>> /\ moneyUnchanged /\ clockUnchanged

\* ... or the copy of the session is charged and a leg gets its number.
startLeg(p, option, amount) ==
  /\ PaymentAt(p, "legs")
  /\ ~(ResumableSession(payer[p].s) /\ \E l \in LegIDs : ResumableLeg(l, option))
  /\ amount \in 1 .. Outstanding
  /\ CanCharge(payer[p].s)
  /\ seq < MaxLegs
  /\ seq' = seq + 1
  /\ payer' = [payer EXCEPT ![p].at = "charge", ![p].l = seq + 1,
                          ![p].leg = NewCharge(option, amount)]
  /\ UNCHANGED <<kind, late, payFailures, payment, legs>> /\ gatewayUnchanged /\ moneyUnchanged

\* Nothing to tender: the session is settled, in flight, late or covered (or the
\* bound MaxLegs is reached).
refuseStart(p, option) ==
  /\ PaymentAt(p, "legs")
  /\ ~(ResumableSession(payer[p].s) /\ \E l \in LegIDs : ResumableLeg(l, option))
  /\ ~CanCharge(payer[p].s) \/ Outstanding = 0 \/ seq = MaxLegs
  /\ PaymentDone(p)
  /\ UNCHANGED <<payment, legs>> /\ gatewayUnchanged /\ moneyUnchanged /\ clockUnchanged

\* The rail is called before the row exists.  A direct rail answers at once.
Charge(p) ==
  /\ PaymentAt(p, "charge")
  /\ IF payer[p].leg.option \in Rails
       THEN /\ page' = [page EXCEPT ![payer[p].l] = "created"]
            /\ PaymentGoto(p, "insert")
       ELSE /\ page' = [page EXCEPT ![payer[p].l] = "closed"]
            /\ \E s \in {"success", "failed"} :
                 payer' = [payer EXCEPT ![p].at = "insert", ![p].status = s]
  /\ UNCHANGED <<payment, legs, reports>> /\ moneyUnchanged /\ clockUnchanged

InsertTransaction(p) ==
  /\ PaymentAt(p, "insert")
  /\ legs' = [legs EXCEPT ![payer[p].l] = payer[p].leg]
  /\ PaymentGoto(p, "processing")
  /\ UNCHANGED payment /\ gatewayUnchanged /\ moneyUnchanged /\ clockUnchanged

\* The session goes to processing from pending only; the caller of a lost race
\* gets an error and no page.  A direct rail's answer is settled on the spot.
saveProcessing(p) ==
  /\ PaymentAt(p, "processing")
  /\ IF ~SaveSessionLands({"pending"})
       THEN PaymentDone(p) /\ UNCHANGED <<payment, page>>
       ELSE /\ payment' = "processing"
            /\ IF payer[p].status = "none"
                 THEN /\ page' = [page EXCEPT ![payer[p].l] = IF @ = "created" THEN "open" ELSE @]
                      /\ PaymentDone(p)
                 ELSE PaymentGoto(p, "leg") /\ UNCHANGED page
  /\ UNCHANGED <<legs, reports>> /\ moneyUnchanged /\ clockUnchanged

-----------------------------------------------------------------------------
(* What a notification does *)

\* A webhook is delivered: the leg is found by our own number.  A leg that is
\* not there yet is an error, and the provider tries again.
Settle(p, l, status) ==
  /\ status \in reports[l]
  /\ legs[l].status = "pending"
  /\ BeginPayment(p, [PayerIdle EXCEPT !.op = "settle", !.at = "leg", !.l = l, !.status = status])
  /\ UNCHANGED <<payment, legs>> /\ gatewayUnchanged /\ moneyUnchanged /\ clockUnchanged

SaveTransaction(p) ==
  /\ PaymentAt(p, "leg")
  /\ IF SaveTransactionLands(payer[p].l)
       THEN /\ legs' = [legs EXCEPT ![payer[p].l].status = payer[p].status]
            /\ PaymentGoto(p, "session")
       ELSE UNCHANGED legs /\ PaymentDone(p)
  /\ UNCHANGED payment /\ gatewayUnchanged /\ moneyUnchanged /\ clockUnchanged

\* The session is read: a refused leg reopens it, a covered one is paid.
findSession(p) ==
  /\ PaymentAt(p, "session")
  /\ IF payer[p].status = "failed"
       THEN IF CanReopen(payment) THEN PaymentGoto(p, "reopen") ELSE PaymentDone(p)
       ELSE IF Outstanding > 0 THEN PaymentDone(p)
       ELSE payer' = [payer EXCEPT ![p].at = "credit", ![p].s = payment]
  /\ UNCHANGED <<payment, legs>> /\ gatewayUnchanged /\ moneyUnchanged /\ clockUnchanged

ReopenForRetry(p) ==
  /\ PaymentAt(p, "reopen")
  /\ payment' = IF SaveSessionLands({"processing"}) THEN "pending" ELSE payment
  /\ PaymentDone(p)
  /\ UNCHANGED legs /\ gatewayUnchanged /\ moneyUnchanged /\ clockUnchanged

\* The collected money becomes the payer's balance, once per session.
creditRail(p) ==
  /\ PaymentAt(p, "credit")
  /\ credited' = TRUE
  /\ IF Settled(payer[p].s) THEN PaymentDone(p) ELSE PaymentGoto(p, "paid")
  /\ UNCHANGED <<payment, legs, returned, published>> /\ gatewayUnchanged /\ clockUnchanged

MarkPaid(p) ==
  /\ PaymentAt(p, "paid")
  /\ IF SaveSessionLands(Unsettled)
       THEN payment' = "success" /\ PaymentGoto(p, "publish")
       ELSE UNCHANGED payment /\ PaymentDone(p)
  /\ UNCHANGED legs /\ gatewayUnchanged /\ moneyUnchanged /\ clockUnchanged

publishPaid(p) ==
  /\ PaymentAt(p, "publish") /\ payer[p].op # "cancel"
  /\ published' = [published EXCEPT !.paid = @ + 1]
  /\ PaymentDone(p)
  /\ UNCHANGED <<payment, legs, credited, returned>> /\ gatewayUnchanged /\ clockUnchanged

publishCancelled(p) ==
  /\ PaymentAt(p, "publish") /\ payer[p].op = "cancel"
  /\ published' = [published EXCEPT !.cancelled = @ + 1]
  /\ PaymentDone(p)
  /\ UNCHANGED <<payment, legs, credited, returned>> /\ gatewayUnchanged /\ clockUnchanged

-----------------------------------------------------------------------------
(* Cancelling a checkout, resolving a withdrawal *)

\* The payer walks away from a checkout.  A withdrawal has a route of its own.
CancelSession(p) ==
  /\ RailPayable /\ ~Settled(payment)
  /\ BeginPayment(p, [PayerIdle EXCEPT !.op = "cancel", !.at = "save", !.status = "cancelled"])
  /\ UNCHANGED <<payment, legs>> /\ gatewayUnchanged /\ moneyUnchanged /\ clockUnchanged

CancelWithdrawal(p) ==
  /\ kind = "withdrawal" /\ ~Settled(payment)
  /\ BeginPayment(p, [PayerIdle EXCEPT !.op = "cancel", !.at = "save", !.status = "cancelled"])
  /\ UNCHANGED <<payment, legs>> /\ gatewayUnchanged /\ moneyUnchanged /\ clockUnchanged

AdminApproveWithdrawal(p) ==
  /\ kind = "withdrawal" /\ ~Settled(payment)
  /\ BeginPayment(p, [PayerIdle EXCEPT !.op = "approve", !.at = "save", !.status = "success"])
  /\ UNCHANGED <<payment, legs>> /\ gatewayUnchanged /\ moneyUnchanged /\ clockUnchanged

AdminRejectWithdrawal(p) ==
  /\ kind = "withdrawal" /\ ~Settled(payment)
  /\ BeginPayment(p, [PayerIdle EXCEPT !.op = "reject", !.at = "save", !.status = "failed"])
  /\ UNCHANGED <<payment, legs>> /\ gatewayUnchanged /\ moneyUnchanged /\ clockUnchanged

SaveSession(p) ==
  /\ PaymentAt(p, "save")
  /\ IF SaveSessionLands(Unsettled)
       THEN /\ payment' = payer[p].status
            /\ IF RailPayable THEN PaymentGoto(p, "publish")
               ELSE IF payer[p].op = "approve" THEN PaymentDone(p) ELSE PaymentGoto(p, "return")
       ELSE UNCHANGED payment /\ PaymentDone(p)
  /\ UNCHANGED legs /\ gatewayUnchanged /\ moneyUnchanged /\ clockUnchanged

\* The debit goes back under one key per withdrawal.
returnWithdrawal(p) ==
  /\ PaymentAt(p, "return")
  /\ returned' = TRUE
  /\ PaymentDone(p)
  /\ UNCHANGED <<payment, legs, credited, published>> /\ gatewayUnchanged /\ clockUnchanged

-----------------------------------------------------------------------------
(* The environment and the specification *)

\* The payer, on a page that was shown, pays or is declined; a declined payer
\* stays on the page and may try again.
PayerPays(l) ==
  /\ page[l] = "open"
  /\ page' = [page EXCEPT ![l] = "closed"]
  /\ reports' = [reports EXCEPT ![l] = @ \cup {"success"}]
  /\ UNCHANGED <<payment, legs, payer>> /\ moneyUnchanged /\ clockUnchanged

PayerDeclined(l) ==
  /\ page[l] = "open" /\ "failed" \notin reports[l]
  /\ reports' = [reports EXCEPT ![l] = @ \cup {"failed"}]
  /\ UNCHANGED <<payment, legs, page, payer>> /\ moneyUnchanged /\ clockUnchanged

DeadlinePasses ==
  /\ kind # "none" /\ ~late
  /\ late' = TRUE
  /\ UNCHANGED <<kind, payment, seq, legs, payer, payFailures>> /\ gatewayUnchanged /\ moneyUnchanged

\* A call returns an error or the process dies; what is written stays written.
PaymentFails(p) ==
  /\ payer[p] # PayerIdle
  /\ payFailures < MaxPaymentFailures
  /\ payFailures' = payFailures + 1
  /\ PaymentDone(p)
  /\ UNCHANGED <<kind, late, payment, seq, legs>> /\ gatewayUnchanged /\ moneyUnchanged

Continue(p) ==
  \/ \E o \in Rails \cup DirectRails :
       \/ resumable(p, o) \/ refuseStart(p, o)
       \/ \E a \in 1 .. Total : startLeg(p, o, a)
  \/ Charge(p) \/ InsertTransaction(p) \/ saveProcessing(p)
  \/ SaveTransaction(p) \/ findSession(p) \/ ReopenForRetry(p)
  \/ creditRail(p) \/ MarkPaid(p) \/ publishPaid(p) \/ publishCancelled(p)
  \/ SaveSession(p) \/ returnWithdrawal(p)

Deliver(l) == \E p \in PaymentCallers, s \in {"success", "failed"} : Settle(p, l, s)

PaymentNext ==
  \/ OpenCheckout \/ CreateWithdrawal
  \/ \E p \in PaymentCallers :
       \/ StartPayment(p) \/ CancelSession(p)
       \/ CancelWithdrawal(p) \/ AdminApproveWithdrawal(p) \/ AdminRejectWithdrawal(p)
       \/ Continue(p) \/ PaymentFails(p)
  \/ \E l \in LegIDs : Deliver(l) \/ PayerPays(l) \/ PayerDeclined(l)
  \/ DeadlinePasses

PaymentSpec == PaymentInit /\ [][PaymentNext]_paymentVars

\* Running handlers run on, and a provider repeats a notification until it is
\* answered.  Nobody is obliged to pay, to cancel or to resolve.
PaymentFairness ==
  /\ \A p \in PaymentCallers : WF_paymentVars(Continue(p))
  /\ \A l \in LegIDs : SF_paymentVars(Deliver(l))

PaymentFairSpec == PaymentSpec /\ PaymentFairness

-----------------------------------------------------------------------------
(* Properties *)

\* Nobody is given goods or a balance for money that was not collected: a paid
\* checkout is covered by its successful legs and credited, and the credit is
\* never made before they cover it (settle, tenderOf).
PaidIsCovered ==
  /\ credited => SumOfLegs({"success"}) >= Total
  /\ RailPayable /\ payment = "success" => credited

\* A session's outcome is never taken back, however late a webhook, a rail's
\* answer or a verdict arrives (SaveSession's from).
SettledSessionFinal == [][Settled(payment) => payment' = payment]_paymentVars

\* The rail's ledger is append-only: a leg that succeeded or failed never
\* changes, whatever the provider reports afterwards (SaveTransaction).
LegsFinal ==
  [][\A l \in LegIDs : legs[l].status \in {"success", "failed"} => legs'[l] = legs[l]]_paymentVars

\* The order module, which ships on the one event and frees the units on the
\* other, never hears both and neither twice: not when two legs both cover the
\* session, nor when the payer cancels while a payment lands.
AnnouncedOnce == published.paid + published.cancelled <= 1

\* The money of a withdrawal leaves or comes back, never both, and a requester
\* cannot pay it out by tendering against it (liveWithdrawal, RailPayable).
WithdrawalOneWay ==
  /\ returned => payment \in {"cancelled", "failed"}
  /\ kind = "withdrawal" => seq = 0

\* A session is paid only when it is covered, ends one way and is announced once,
\* whatever tenders, webhooks, cancellations and verdicts race over it.
PaymentSound == PaymentTypeOK /\ PaidIsCovered /\ AnnouncedOnce /\ WithdrawalOneWay

\* Neither a session's outcome nor a leg's is ever rewritten.
PaymentOneWay == SettledSessionFinal /\ LegsFinal

\* "The rail money becomes a balance before the session is called paid. Without
\* this the money is collected and recorded nowhere" and "a redelivered webhook
\* credits once" (finance/service_session.go:317-320): a covered checkout is
\* credited.
CollectedIsCredited == (RailPayable /\ SumOfLegs({"success"}) >= Total) ~> credited
=============================================================================
