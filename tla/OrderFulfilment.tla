--------------------------- MODULE OrderFulfilment ---------------------------
(***************************************************************************)
(* One paid order from the seller's answer to delivery: ConfirmOrder,      *)
(* DeclineOrder, CancelOrder, ConfirmReceipt, the confirmation escalation, *)
(* booking the parcel with the carrier, and the checkpoints that move it   *)
(* (order/service_order.go, service_lifecycle.go).                         *)
(*                                                                         *)
(* Every handler works on a copy: it reads the row, decides on the copy,   *)
(* and writes it back with a guarded UPDATE.  A process is one running     *)
(* handler; each of its steps is one read, one write or one outside call,  *)
(* so that two handlers interleave wherever the code lets them.            *)
(***************************************************************************)
EXTENDS OrderRow, Naturals, FiniteSets

CONSTANTS
  Callers,      \* concurrent API requests, webhooks and durable runs
  Sweeper,      \* the sweep's one goroutine
  Handlers,     \* the operations called in this instance
  Parcels,      \* references the carrier can hand out
  Corrections,  \* the statuses a moderator may enter by hand
  MaxFailures,  \* how many handlers are cut short by an error or a crash
  None

Procs == Callers \cup {Sweeper}

AllHandlers == {"confirm", "decline", "cancel", "receive", "escalate", "retry",
                "advance", "checkpoint"}

ASSUME FulfilmentAssumption ==
  /\ Sweeper \notin Callers
  /\ Handlers \subseteq AllHandlers
  /\ Corrections \subseteq {"picked-up", "in-transit", "delivered", "returned", "failed"}
  /\ MaxFailures \in Nat
  /\ None \notin Parcels

VARIABLES
  order,      \* the order row
  transport,  \* the outbound shipment row: its status and the carrier's reference
  parcels,    \* parcels the carrier has accepted for this order
  refunded,   \* the movement keyed order:N:refund is posted
  restocked,  \* the units are back on the shelf
  age,        \* 0 just placed, 1 past the booking grace, 2 past the confirmation window
  proc,       \* the running handlers
  failures

fulfilmentVars == <<order, transport, parcels, refunded, restocked, age, proc, failures>>

Statuses == {"pending", "picked-up", "in-transit", "delivered", "returned", "failed"}
Transport == [status : Statuses, ref : Parcels \cup {None}]

Steps == {"idle", "transport", "save", "find", "book", "create", "ref",
          "refund", "stock", "leg", "save-leg"}

NewTransport == [status |-> "pending", ref |-> None]
\* op is the handler, at its next step, o and t its copies of the two rows, from
\* the status its shipment write is guarded on, arg a status or a reference.
Idle == [op |-> "none", at |-> "idle", o |-> NewOrder, t |-> NewTransport,
         from |-> "pending", arg |-> None]

FulfilmentTypeOK ==
  /\ order \in OrderRow
  /\ transport \in Transport
  /\ parcels \subseteq Parcels
  /\ refunded \in BOOLEAN /\ restocked \in BOOLEAN
  /\ age \in 0 .. 2
  /\ proc \in [Procs -> [op : AllHandlers \cup {"none"}, at : Steps, o : OrderRow,
                         t : Transport, from : Statuses,
                         arg : Statuses \cup Parcels \cup {None}]]
  /\ failures \in 0 .. MaxFailures

FulfilmentInit ==
  /\ order = NewOrder
  /\ transport = NewTransport
  /\ parcels = {}
  /\ refunded = FALSE /\ restocked = FALSE
  /\ age = 0
  /\ proc = [p \in Procs |-> Idle]
  /\ failures = 0

-----------------------------------------------------------------------------
(* The shipment: domain.Transport and its repository writes *)

Booked(t) == t.ref # None

Shipped(t) == t.status \in {"picked-up", "in-transit", "delivered", "returned", "failed"}

LegSettled(t) == t.status \in {"delivered", "returned", "failed"}

transportOrder(s) == CASE s = "picked-up" -> 1 [] s = "in-transit" -> 2 [] OTHER -> 0

\* Transport.Advance: an outcome from anywhere, a place on the way forward only.
CanAdvance(t, status) ==
  /\ ~LegSettled(t)
  /\ \/ status \in {"delivered", "returned", "failed"}
     \/ /\ status \in {"picked-up", "in-transit"}
        /\ transportOrder(status) > transportOrder(t.status)

\* Mutants: the two writes without their guards.
SaveTransportAnyway(row, from) == row = row
BookTransportPending(row) == row.status = "pending"

\* SaveTransport lands only on the status the copy was moved out of ...
SaveTransportLands(row, from) == row.status = from

\* ... and BookTransport only on a shipment no carrier has.
BookTransportLands(row) == row.status = "pending" /\ row.ref = None

\* Mutant: a word of the provider's vocabulary is passed through.
untranslatedCheckpoints ==
  [processing |-> "in-transit", success |-> "success", failed |-> "failed"]

\* The provider's vocabulary, translated.
carrierCheckpoints ==
  [processing |-> "in-transit", success |-> "delivered", failed |-> "failed"]

-----------------------------------------------------------------------------
(* Steps of a handler *)

At(p, op, step) == proc[p].op \in op /\ proc[p].at = step

Goto(p, step) == proc' = [proc EXCEPT ![p].at = step]

Done(p) == proc' = [proc EXCEPT ![p] = Idle]

\* A handler that read the order and decided on o goes on to write it.
Decide(p, op, o) ==
  /\ op \in Handlers
  /\ proc[p] = Idle
  /\ proc' = [proc EXCEPT ![p] = [Idle EXCEPT !.op = op, !.at = "save", !.o = o]]
  /\ UNCHANGED <<order, transport, parcels, refunded, restocked, age, failures>>

ConfirmOrder(p) == CanConfirm(order) /\ Decide(p, "confirm", Confirm(order))

DeclineOrder(p) == CanDecline(order) /\ Decide(p, "decline", Decline(order))

ConfirmReceiptBy(p) == CanConfirmReceipt(order) /\ Decide(p, "receive", ConfirmReceipt(order))

\* The durable run and the sweep's pass: the window has closed on the seller.
EscalateUnconfirmedOrder(p) ==
  /\ age = 2
  /\ CanEscalateConfirmation(order)
  /\ Decide(p, "escalate", EscalateConfirmation(order))

\* CancelOrder reads the order, then the shipment, then decides.
CancelOrder(p) ==
  /\ "cancel" \in Handlers
  /\ proc[p] = Idle
  /\ proc' = [proc EXCEPT ![p] = [Idle EXCEPT !.op = "cancel", !.at = "transport", !.o = order]]
  /\ UNCHANGED <<order, transport, parcels, refunded, restocked, age, failures>>

cancelUnlessShipped(p) ==
  /\ At(p, {"cancel"}, "transport")
  /\ IF CanCancel(proc[p].o, Shipped(transport))
       THEN proc' = [proc EXCEPT ![p].at = "save", ![p].o = Cancel(proc[p].o)]
       ELSE Done(p)
  /\ UNCHANGED <<order, transport, parcels, refunded, restocked, age, failures>>

\* What follows a committed order row.
AfterSave(op) ==
  CASE op = "confirm"              -> "book"
    [] op \in {"decline", "cancel"} -> "refund"
    [] OTHER                       -> "idle"

\* Only bookShipment still looks at the copy, and only at its confirmation.
BookingCopy(h) == IF h.op = "confirm" THEN h.o ELSE NewOrder

SaveOrder(p) ==
  /\ At(p, AllHandlers, "save")
  /\ IF SaveOrderLands(order)
       THEN /\ order' = proc[p].o
            /\ IF AfterSave(proc[p].op) = "idle" THEN Done(p)
               ELSE proc' = [proc EXCEPT ![p] = [Idle EXCEPT !.op = proc[p].op, !.o = BookingCopy(proc[p]),
                                                            !.at = AfterSave(proc[p].op)]]
       ELSE UNCHANGED order /\ Done(p)
  /\ UNCHANGED <<transport, parcels, refunded, restocked, age, failures>>

\* The escrow goes back under one key per order: already posted is success.
refundEscrow(p) ==
  /\ At(p, {"decline", "cancel"}, "refund")
  /\ refunded' = TRUE
  /\ Goto(p, "stock")
  /\ UNCHANGED <<order, transport, parcels, restocked, age, failures>>

uncommitOrderStock(p) ==
  /\ At(p, {"decline", "cancel"}, "stock")
  /\ restocked' = TRUE
  /\ Done(p)
  /\ UNCHANGED <<order, transport, parcels, refunded, age, failures>>

-----------------------------------------------------------------------------
(* Booking the parcel *)

\* Mutant: the grace period compared the wrong way round.
RetryWithinGrace(p) ==
  /\ "retry" \in Handlers
  /\ proc[p] = Idle
  /\ age < 1
  /\ order.confirmed /\ ~Settled(order)
  /\ transport.status = "pending" /\ transport.ref = None
  /\ proc' = [proc EXCEPT ![p] = [Idle EXCEPT !.op = "retry", !.at = "find"]]
  /\ UNCHANGED <<order, transport, parcels, refunded, restocked, age, failures>>

\* RetryUnbookedShipments names the order from UnbookedTransports ...
RetryUnbookedShipments(p) ==
  /\ "retry" \in Handlers
  /\ proc[p] = Idle
  /\ age >= 1
  /\ order.confirmed /\ ~Settled(order)
  /\ transport.status = "pending" /\ transport.ref = None
  /\ proc' = [proc EXCEPT ![p] = [Idle EXCEPT !.op = "retry", !.at = "find"]]
  /\ UNCHANGED <<order, transport, parcels, refunded, restocked, age, failures>>

\* ... and reads it again before it books.
findOrder(p) ==
  /\ At(p, {"retry"}, "find")
  /\ proc' = [proc EXCEPT ![p].o = order, ![p].at = "book"]
  /\ UNCHANGED <<order, transport, parcels, refunded, restocked, age, failures>>

\* bookShipment: a confirmed copy of the order and a shipment nobody has.
bookShipment(p) ==
  /\ At(p, {"confirm", "retry"}, "book")
  /\ IF proc[p].o.confirmed /\ ~Booked(transport)
       THEN proc' = [proc EXCEPT ![p] = [Idle EXCEPT !.op = proc[p].op, !.at = "create"]]
       ELSE Done(p)
  /\ UNCHANGED <<order, transport, parcels, refunded, restocked, age, failures>>

createParcel(p) ==
  /\ At(p, {"confirm", "retry"}, "create")
  /\ \E ref \in Parcels \ parcels :
       /\ parcels' = parcels \cup {ref}
       /\ proc' = [proc EXCEPT ![p].at = "ref", ![p].arg = ref]
  /\ UNCHANGED <<order, transport, refunded, restocked, age, failures>>

\* A carrier that is down or refuses: logged, and left to the retry pass.
carrierRefuses(p) ==
  /\ At(p, {"confirm", "retry"}, "create")
  /\ Done(p)
  /\ UNCHANGED <<order, transport, parcels, refunded, restocked, age, failures>>

BookTransport(p) ==
  /\ At(p, {"confirm", "retry"}, "ref")
  /\ transport' = IF BookTransportLands(transport)
                    THEN [transport EXCEPT !.ref = proc[p].arg] ELSE transport
  /\ Done(p)
  /\ UNCHANGED <<order, parcels, refunded, restocked, age, failures>>

-----------------------------------------------------------------------------
(* Moving the parcel *)

\* A moderator's correction names the order's shipment.
AdvanceShipment(p, status) ==
  /\ "advance" \in Handlers
  /\ proc[p] = Idle
  /\ proc' = [proc EXCEPT ![p] = [Idle EXCEPT !.op = "advance", !.at = "leg", !.arg = status]]
  /\ UNCHANGED <<order, transport, parcels, refunded, restocked, age, failures>>

\* The carrier's webhook finds the shipment by the carrier's own reference.
RecordCarrierCheckpoint(p, ref, report) ==
  /\ "checkpoint" \in Handlers
  /\ proc[p] = Idle
  /\ ref \in parcels /\ transport.ref = ref
  /\ proc' = [proc EXCEPT ![p] = [Idle EXCEPT !.op = "checkpoint", !.at = "leg",
                                              !.arg = carrierCheckpoints[report]]]
  /\ UNCHANGED <<order, transport, parcels, refunded, restocked, age, failures>>

advanceLeg(p) ==
  /\ At(p, {"advance", "checkpoint"}, "leg")
  /\ IF CanAdvance(transport, proc[p].arg)
       THEN proc' = [proc EXCEPT ![p].at = "save-leg", ![p].from = transport.status,
                                 ![p].t = [transport EXCEPT !.status = proc[p].arg]]
       ELSE Done(p)
  /\ UNCHANGED <<order, transport, parcels, refunded, restocked, age, failures>>

\* Status and carrier data are written together, from the copy.
SaveTransport(p) ==
  /\ At(p, {"advance", "checkpoint"}, "save-leg")
  /\ transport' = IF SaveTransportLands(transport, proc[p].from) THEN proc[p].t ELSE transport
  /\ Done(p)
  /\ UNCHANGED <<order, parcels, refunded, restocked, age, failures>>

-----------------------------------------------------------------------------
(* The environment and the specification *)

\* An outside call or a query returns an error, or the process dies: the
\* handler ends where it stands and what it has written stays.
Fail(p) ==
  /\ proc[p] # Idle
  /\ failures < MaxFailures
  /\ failures' = failures + 1
  /\ Done(p)
  /\ UNCHANGED <<order, transport, parcels, refunded, restocked, age>>

Tick ==
  /\ age < 2
  /\ age' = age + 1
  /\ UNCHANGED <<order, transport, parcels, refunded, restocked, proc, failures>>

\* A handler that has begun carries on, whoever runs it.
Continue(p) ==
  \/ cancelUnlessShipped(p) \/ SaveOrder(p) \/ refundEscrow(p) \/ uncommitOrderStock(p)
  \/ findOrder(p) \/ bookShipment(p) \/ createParcel(p) \/ BookTransport(p)
  \/ advanceLeg(p) \/ SaveTransport(p)

Call(p) ==
  \/ ConfirmOrder(p) \/ DeclineOrder(p) \/ ConfirmReceiptBy(p) \/ CancelOrder(p)
  \/ EscalateUnconfirmedOrder(p)
  \/ \E s \in Corrections : AdvanceShipment(p, s)
  \/ \E ref \in Parcels, report \in DOMAIN carrierCheckpoints :
       RecordCarrierCheckpoint(p, ref, report)

FulfilmentNext ==
  \/ \E p \in Callers : Call(p)
  \/ EscalateUnconfirmedOrder(Sweeper) \/ RetryUnbookedShipments(Sweeper)
  \/ \E p \in Procs : Continue(p) \/ carrierRefuses(p) \/ Fail(p)
  \/ Tick

FulfilmentSpec == FulfilmentInit /\ [][FulfilmentNext]_fulfilmentVars

\* Running handlers run on, time passes, the sweep makes its passes, and a
\* carrier asked again and again accepts in the end.  Nobody has to call.
FulfilmentFairness ==
  /\ \A p \in Procs : WF_fulfilmentVars(Continue(p)) /\ SF_fulfilmentVars(createParcel(p))
  /\ WF_fulfilmentVars(Tick)
  /\ WF_fulfilmentVars(RetryUnbookedShipments(Sweeper))

FulfilmentFairSpec == FulfilmentSpec /\ FulfilmentFairness

-----------------------------------------------------------------------------
(* Properties *)

\* An outcome is never taken back: whatever stale copies other handlers still
\* carry, no write lands on an order that is cancelled or completed
\* (Repo.SaveOrder is guarded on the order still being open).
SettledIsFinal == [][Settled(order) => order' = order]_fulfilmentVars

\* However reports and corrections overtake each other, a parcel never moves
\* backwards and an arrival is never undone (Transport.Advance, SaveTransport).
ShipmentForwardOnly ==
  [][/\ LegSettled(transport) => transport'.status = transport.status
     /\ Shipped(transport) => Shipped(transport')
     /\ ~LegSettled(transport') => transportOrder(transport'.status) >= transportOrder(transport.status)
    ]_fulfilmentVars

\* The buyer's money and the seller's units go back only for an order whose
\* cancellation is committed and stays so, and the money first.
RefundOnlyCancelled == (refunded => order.cancelled) /\ (restocked => refunded)

\* The reference of a parcel the carrier has taken is never replaced by that
\* of a second booking (Repo.BookTransport), though a write from a copy older
\* than the booking may erase it (Repo.SaveTransport).
ReferenceNotReplaced ==
  [][Booked(transport) => transport'.ref \in {transport.ref, None}]_fulfilmentVars

\* The rows keep their shape and money and units go back together with the
\* cancellation that is on the row (Repo.SaveOrder, refundEscrow).
OrderSound == FulfilmentTypeOK /\ RefundOnlyCancelled

\* What happened to an order is never taken back: its outcome, its parcel's
\* progress and the reference of a parcel the carrier has taken.
OrderOneWay == SettledIsFinal /\ ShipmentForwardOnly /\ ReferenceNotReplaced

\* A confirmed order's parcel is booked in the end, by the confirmation itself
\* or by the retry pass, unless the order is settled, the parcel was moved by
\* hand, or the confirmation is gone.
ConfirmedGetsBooked ==
  order.confirmed ~> (\/ Booked(transport) \/ transport.status # "pending"
                      \/ Settled(order) \/ ~order.confirmed)

\* A cancelled or declined order ends with the escrow back with the buyer and
\* the units back on the shelf ("the escrow returned in full",
\* order/service_order.go:384).
CancelledIsRefunded == order.cancelled ~> (refunded /\ restocked)

\* One sale is one parcel ("a second confirmation would book a second parcel
\* for one sale", order/domain/order.go:113).
OneParcel == Cardinality(parcels) <= 1
=============================================================================
