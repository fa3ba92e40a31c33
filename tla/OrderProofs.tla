---------------------------- MODULE OrderProofs ----------------------------
(***************************************************************************)
(* Proofs about one order: until its parcel arrives, and the payout, the   *)
(* refund case and the cancellation that compete for its escrow, for any   *)
(* number of concurrent handlers, any references, cases, photos and        *)
(* failures.                                                               *)
(***************************************************************************)
EXTENDS OrderFulfilment, RefundPayout, TLAPS

-----------------------------------------------------------------------------
(* Fulfilment *)

\* How far a shipment status is on its way; the three outcomes are the end.
Stage(status) ==
  CASE status = "pending" -> 0 [] status = "picked-up" -> 1 [] status = "in-transit" -> 2
    [] OTHER -> 3

\* What a running handler is.
Running == [op : AllHandlers \cup {"none"}, at : Steps, o : OrderRow, t : Transport,
            from : Statuses, arg : Statuses \cup Parcels \cup {None}]

\* What the copies of a running handler can be: a cancellation on its way to the
\* row is on the copy, one that is committed is on the row, and a shipment copy
\* is ahead of the status its write is guarded on, which the row has reached, and
\* carries no reference but the row's.
CopyFits(h) ==
  /\ h.at = "save" /\ h.op \in {"decline", "cancel"} => h.o.cancelled
  /\ h.at \in {"refund", "stock"} => order.cancelled
  /\ h.at = "stock" => refunded
  /\ h.at = "ref" => h.arg \in Parcels
  /\ h.at = "save-leg" =>
       /\ Stage(h.from) < Stage(h.t.status)
       /\ Stage(h.from) <= Stage(transport.status)
       /\ h.from = transport.status => h.t.ref \in {transport.ref, None}

\* The inductive invariant.
FulfilmentInv == FulfilmentTypeOK /\ RefundOnlyCancelled /\ \A p \in Procs : CopyFits(proc[p])

-----------------------------------------------------------------------------
(* The rows as placed, and the steps that touch only the handler's own copies *)

\* A handler at rest carries nothing that matters.
LEMMA IdleFits == Idle \in Running /\ CopyFits(Idle)
BY DEF Idle, Running, NewOrder, OrderRow, NewTransport, Transport, Statuses, Steps, AllHandlers, CopyFits

\* A sale just placed satisfies the invariant.
LEMMA FulfilmentInitInv == FulfilmentInit => FulfilmentInv
<1> SUFFICES ASSUME FulfilmentInit PROVE FulfilmentInv
  OBVIOUS
<1>1. order \in OrderRow /\ transport \in Transport
  BY DEF FulfilmentInit, NewOrder, OrderRow, NewTransport, Transport, Statuses
<1>2. FulfilmentTypeOK
  <2>1. proc \in [Procs -> Running]
    BY IdleFits DEF FulfilmentInit
  <2>2. 0 \in 0 .. MaxFailures
    BY FulfilmentAssumption
  <2>3. parcels \subseteq Parcels /\ age \in 0 .. 2 /\ failures \in 0 .. MaxFailures
    BY <2>2 DEF FulfilmentInit
  <2>4. refunded \in BOOLEAN /\ restocked \in BOOLEAN
    BY DEF FulfilmentInit
  <2> QED  BY <1>1, <2>1, <2>3, <2>4 DEF FulfilmentTypeOK, Running
<1> QED  BY <1>2, IdleFits DEF FulfilmentInit, FulfilmentInv, RefundOnlyCancelled

\* A step of one handler that leaves the rows and effects alone keeps the
\* invariant when what the handler carries afterwards fits.
LEMMA CopyStep ==
  ASSUME FulfilmentInv, NEW p \in Procs, NEW h \in Running, CopyFits(h),
         proc' = [proc EXCEPT ![p] = h],
         UNCHANGED <<order, transport, refunded, restocked>>,
         parcels' \subseteq Parcels, age' \in 0 .. 2, failures' \in 0 .. MaxFailures
  PROVE  FulfilmentInv'
<1>1. FulfilmentTypeOK'
  BY DEF FulfilmentInv, FulfilmentTypeOK, Running
<1>2. RefundOnlyCancelled'
  BY DEF FulfilmentInv, RefundOnlyCancelled
<1>3. ASSUME NEW q \in Procs PROVE CopyFits(proc[q])'
  <2>1. proc'[q] = IF q = p THEN h ELSE proc[q]
    BY DEF FulfilmentInv, FulfilmentTypeOK
  <2> QED  BY <2>1 DEF FulfilmentInv, CopyFits
<1> QED  BY <1>1, <1>2, <1>3 DEF FulfilmentInv

\* A handler that ends.
LEMMA DoneStep ==
  ASSUME FulfilmentInv, NEW p \in Procs, Done(p),
         UNCHANGED <<order, transport, parcels, refunded, restocked, age>>,
         failures' \in 0 .. MaxFailures
  PROVE  FulfilmentInv'
BY CopyStep, IdleFits DEF Done, FulfilmentInv, FulfilmentTypeOK

\* A handler that has decided on a copy of the order.
LEMMA DecideStep ==
  ASSUME FulfilmentInv, NEW p \in Procs, NEW op \in AllHandlers, NEW o \in OrderRow,
         Decide(p, op, o), op \in {"decline", "cancel"} => o.cancelled
  PROVE  FulfilmentInv'
<1> DEFINE h == [Idle EXCEPT !.op = op, !.at = "save", !.o = o]
<1>1. h \in Running /\ CopyFits(h)
  BY IdleFits DEF Running, Steps, CopyFits, Idle
<1> QED  BY <1>1, CopyStep DEF Decide, FulfilmentInv, FulfilmentTypeOK

\* The calls of the API and the carrier.
LEMMA CallStep == ASSUME FulfilmentInv, NEW p \in Callers, Call(p) PROVE FulfilmentInv'
<1> p \in Procs
  BY DEF Procs
<1>0. /\ order \in OrderRow
      /\ Confirm(order) \in OrderRow /\ Decline(order) \in OrderRow
      /\ EscalateConfirmation(order) \in OrderRow /\ ConfirmReceipt(order) \in OrderRow
  BY DEF FulfilmentInv, FulfilmentTypeOK, OrderRow, Confirm, Decline, EscalateConfirmation, ConfirmReceipt
<1>1. CASE ConfirmOrder(p)
  BY <1>0, <1>1, DecideStep DEF ConfirmOrder, AllHandlers
<1>2. CASE DeclineOrder(p)
  <2>1. Decline(order).cancelled
    BY <1>0 DEF Decline, OrderRow
  <2> QED  BY <1>0, <1>2, <2>1, DecideStep DEF DeclineOrder, AllHandlers
<1>3. CASE ConfirmReceiptBy(p)
  BY <1>0, <1>3, DecideStep DEF ConfirmReceiptBy, AllHandlers
<1>4. CASE EscalateUnconfirmedOrder(p)
  BY <1>0, <1>4, DecideStep DEF EscalateUnconfirmedOrder, AllHandlers
<1>5. CASE CancelOrder(p)
  <2> DEFINE h == [Idle EXCEPT !.op = "cancel", !.at = "transport", !.o = order]
  <2>1. h \in Running /\ CopyFits(h)
    BY <1>0, IdleFits DEF Running, Steps, AllHandlers, CopyFits, Idle
  <2> QED  BY <1>5, <2>1, CopyStep DEF CancelOrder, FulfilmentInv, FulfilmentTypeOK
<1>6. ASSUME NEW s \in Corrections, AdvanceShipment(p, s) PROVE FulfilmentInv'
  <2> DEFINE h == [Idle EXCEPT !.op = "advance", !.at = "leg", !.arg = s]
  <2>1. h \in Running /\ CopyFits(h)
    BY IdleFits, FulfilmentAssumption DEF Running, Steps, AllHandlers, CopyFits, Idle, Statuses
  <2> QED  BY <1>6, <2>1, CopyStep DEF AdvanceShipment, FulfilmentInv, FulfilmentTypeOK
<1>7. ASSUME NEW ref \in Parcels, NEW report \in DOMAIN carrierCheckpoints,
             RecordCarrierCheckpoint(p, ref, report)
      PROVE  FulfilmentInv'
  <2> DEFINE h == [Idle EXCEPT !.op = "checkpoint", !.at = "leg", !.arg = carrierCheckpoints[report]]
  <2>1. carrierCheckpoints[report] \in Statuses
    BY DEF carrierCheckpoints, Statuses
  <2>2. h \in Running /\ CopyFits(h)
    BY <2>1, IdleFits DEF Running, Steps, AllHandlers, CopyFits, Idle
  <2> QED  BY <1>7, <2>2, CopyStep DEF RecordCarrierCheckpoint, FulfilmentInv, FulfilmentTypeOK
<1> QED  BY <1>1, <1>2, <1>3, <1>4, <1>5, <1>6, <1>7 DEF Call

-----------------------------------------------------------------------------
(* A handler that has begun *)

\* The steps of a handler that has begun.
LEMMA ContinueStep == ASSUME FulfilmentInv, NEW p \in Procs, Continue(p) PROVE FulfilmentInv'
<1> DEFINE h == proc[p]
<1>0. /\ FulfilmentTypeOK /\ RefundOnlyCancelled /\ h \in Running /\ CopyFits(h)
      /\ h.o \in OrderRow /\ h.t \in Transport /\ h.from \in Statuses
      /\ \A q \in Procs : proc[q] \in Running /\ CopyFits(proc[q])
  BY DEF FulfilmentInv, FulfilmentTypeOK, Running
<1>1. CASE cancelUnlessShipped(p)
  <2>1. CASE Done(p)
    BY <1>0, <1>1, <2>1, DoneStep DEF cancelUnlessShipped, FulfilmentTypeOK
  <2>2. CASE proc' = [proc EXCEPT ![p].at = "save", ![p].o = Cancel(proc[p].o)]
    <3> DEFINE g == [h EXCEPT !.at = "save", !.o = Cancel(h.o)]
    <3>1. Cancel(h.o) \in OrderRow /\ Cancel(h.o).cancelled
      BY <1>0 DEF Cancel, OrderRow
    <3>2. g \in Running /\ CopyFits(g)
      BY <1>0, <3>1 DEF Running, Steps, CopyFits
    <3>3. proc' = [proc EXCEPT ![p] = g]
      BY <2>2
    <3> QED  BY <1>0, <1>1, <3>2, <3>3, CopyStep DEF cancelUnlessShipped, FulfilmentTypeOK
  <2> QED  BY <1>1, <2>1, <2>2 DEF cancelUnlessShipped
<1>2. CASE SaveOrder(p)
  <2>1. CASE ~SaveOrderLands(order)
    BY <1>0, <1>2, <2>1, DoneStep DEF SaveOrder, FulfilmentTypeOK
  <2>2. CASE SaveOrderLands(order)
    <3> DEFINE g == IF AfterSave(h.op) = "idle" THEN Idle
                    ELSE [Idle EXCEPT !.op = h.op, !.o = BookingCopy(h), !.at = AfterSave(h.op)]
    <3>1. proc' = [proc EXCEPT ![p] = g] /\ order' = h.o
      BY <1>2, <2>2 DEF SaveOrder, Done
    <3>2. g \in Running
      <4>1. AfterSave(h.op) \in Steps
        BY DEF AfterSave, Steps
      <4>2. BookingCopy(h) \in OrderRow
        BY <1>0 DEF BookingCopy, NewOrder, OrderRow
      <4>3. h.op \in AllHandlers \cup {"none"}
        BY <1>0 DEF Running
      <4> QED  BY <4>1, <4>2, <4>3, IdleFits DEF Running
    <3>3. UNCHANGED <<transport, parcels, refunded, restocked, age, failures>>
      BY <1>2 DEF SaveOrder
    <3>4. FulfilmentTypeOK'
      BY <1>0, <3>1, <3>2, <3>3 DEF FulfilmentTypeOK, Running
    <3>5. ~order.cancelled /\ ~refunded /\ ~restocked
      BY <1>0, <2>2 DEF SaveOrderLands, Settled, RefundOnlyCancelled
    <3>6. RefundOnlyCancelled'
      BY <3>3, <3>5 DEF RefundOnlyCancelled
    <3>7. g.at \in {"refund", "stock"} => h.o.cancelled
      BY <1>0, <1>2 DEF SaveOrder, At, CopyFits, AfterSave, Idle
    <3>8. g.at \in {"idle", "book", "refund"}
      BY DEF Idle, AfterSave
    <3>9. ASSUME NEW q \in Procs PROVE CopyFits(proc[q])'
      <4>1. proc'[q] = IF q = p THEN g ELSE proc[q]
        BY <1>0, <3>1 DEF FulfilmentTypeOK
      <4>2. CASE q = p
        BY <3>1, <3>7, <3>8, <4>1, <4>2 DEF CopyFits
      <4>3. CASE q # p
        BY <1>0, <3>3, <3>5, <4>1, <4>3 DEF CopyFits
      <4> QED  BY <4>2, <4>3
    <3> QED  BY <3>4, <3>6, <3>9 DEF FulfilmentInv
  <2> QED  BY <2>1, <2>2
<1>3. CASE refundEscrow(p)
  <2> DEFINE g == [h EXCEPT !.at = "stock"]
  <2>1. proc' = [proc EXCEPT ![p] = g] /\ refunded' = TRUE /\ g \in Running
    BY <1>0, <1>3 DEF refundEscrow, Goto, Running, Steps
  <2>2. UNCHANGED <<order, transport, parcels, restocked, age, failures>> /\ order.cancelled
    BY <1>0, <1>3 DEF refundEscrow, At, CopyFits
  <2>3. FulfilmentTypeOK' /\ RefundOnlyCancelled'
    BY <1>0, <2>1, <2>2 DEF FulfilmentTypeOK, Running, RefundOnlyCancelled
  <2>4. ASSUME NEW q \in Procs PROVE CopyFits(proc[q])'
    <3>1. proc'[q] = IF q = p THEN g ELSE proc[q]
      BY <1>0, <2>1 DEF FulfilmentTypeOK
    <3> QED  BY <1>0, <2>1, <2>2, <3>1 DEF CopyFits
  <2> QED  BY <2>3, <2>4 DEF FulfilmentInv
<1>4. CASE uncommitOrderStock(p)
  <2>1. proc' = [proc EXCEPT ![p] = Idle] /\ restocked' = TRUE /\ refunded
    BY <1>0, <1>4 DEF uncommitOrderStock, Done, At, CopyFits
  <2>2. UNCHANGED <<order, transport, parcels, refunded, age, failures>>
    BY <1>4 DEF uncommitOrderStock
  <2>3. FulfilmentTypeOK' /\ RefundOnlyCancelled'
    BY <1>0, <2>1, <2>2, IdleFits DEF FulfilmentTypeOK, Running, RefundOnlyCancelled
  <2>4. ASSUME NEW q \in Procs PROVE CopyFits(proc[q])'
    <3>1. proc'[q] = IF q = p THEN Idle ELSE proc[q]
      BY <1>0, <2>1 DEF FulfilmentTypeOK
    <3> QED  BY <1>0, <2>2, <3>1, IdleFits DEF CopyFits
  <2> QED  BY <2>3, <2>4 DEF FulfilmentInv
<1>5. CASE findOrder(p)
  <2> DEFINE g == [h EXCEPT !.o = order, !.at = "book"]
  <2>1. proc' = [proc EXCEPT ![p] = g] /\ g \in Running /\ CopyFits(g)
    BY <1>0, <1>5 DEF findOrder, Running, Steps, CopyFits, FulfilmentTypeOK
  <2> QED  BY <1>0, <1>5, <2>1, CopyStep DEF findOrder, FulfilmentTypeOK
<1>6. CASE bookShipment(p)
  <2> DEFINE g == [Idle EXCEPT !.op = h.op, !.at = "create"]
  <2>1. g \in Running /\ CopyFits(g)
    <3>1. h.op \in AllHandlers \cup {"none"}
      BY <1>0 DEF Running
    <3>2. g \in Running
      BY <3>1, IdleFits DEF Running, Steps
    <3> QED  BY <3>2 DEF CopyFits, Idle
  <2>2. CASE proc' = [proc EXCEPT ![p] = g]
    BY <1>0, <1>6, <2>1, <2>2, CopyStep DEF bookShipment, FulfilmentTypeOK
  <2>3. CASE Done(p)
    BY <1>0, <1>6, <2>3, DoneStep DEF bookShipment, FulfilmentTypeOK
  <2> QED  BY <1>6, <2>2, <2>3 DEF bookShipment
<1>7. CASE createParcel(p)
  <2>1. PICK ref \in Parcels \ parcels : /\ parcels' = parcels \cup {ref}
                                        /\ proc' = [proc EXCEPT ![p].at = "ref", ![p].arg = ref]
    BY <1>7 DEF createParcel
  <2> DEFINE g == [h EXCEPT !.at = "ref", !.arg = ref]
  <2>2. proc' = [proc EXCEPT ![p] = g] /\ g \in Running /\ CopyFits(g)
    BY <1>0, <2>1 DEF Running, Steps, CopyFits
  <2>3. parcels' \subseteq Parcels
    BY <1>0, <2>1 DEF FulfilmentTypeOK
  <2> QED  BY <1>0, <1>7, <2>2, <2>3, CopyStep DEF createParcel, FulfilmentTypeOK
<1>8. CASE BookTransport(p)
  <2>1. CASE ~BookTransportLands(transport)
    BY <1>0, <1>8, <2>1, DoneStep DEF BookTransport, FulfilmentTypeOK
  <2>2. CASE BookTransportLands(transport)
    <3>1. /\ transport' = [transport EXCEPT !.ref = h.arg] /\ h.arg \in Parcels
          /\ proc' = [proc EXCEPT ![p] = Idle] /\ transport.ref = None
          /\ UNCHANGED <<order, parcels, refunded, restocked, age, failures>>
      BY <1>0, <1>8, <2>2 DEF BookTransport, BookTransportLands, At, CopyFits, Done
    <3>2. transport' \in Transport /\ transport'.status = transport.status
      BY <1>0, <3>1 DEF FulfilmentTypeOK, Transport
    <3>3. FulfilmentTypeOK' /\ RefundOnlyCancelled'
      BY <1>0, <3>1, <3>2, IdleFits DEF FulfilmentTypeOK, Running, RefundOnlyCancelled
    <3>4. ASSUME NEW q \in Procs PROVE CopyFits(proc[q])'
      <4>1. proc'[q] = IF q = p THEN Idle ELSE proc[q]
        BY <1>0, <3>1 DEF FulfilmentTypeOK
      <4> QED  BY <1>0, <3>1, <3>2, <4>1, IdleFits DEF CopyFits, Idle
    <3> QED  BY <3>3, <3>4 DEF FulfilmentInv
  <2> QED  BY <2>1, <2>2
<1>9. CASE advanceLeg(p)
  <2>1. CASE ~CanAdvance(transport, h.arg)
    BY <1>0, <1>9, <2>1, DoneStep DEF advanceLeg, FulfilmentTypeOK
  <2>2. CASE CanAdvance(transport, h.arg)
    <3> DEFINE g == [h EXCEPT !.at = "save-leg", !.from = transport.status,
                              !.t = [transport EXCEPT !.status = h.arg]]
    <3>1. proc' = [proc EXCEPT ![p] = g]
      BY <1>9, <2>2 DEF advanceLeg
    <3>2. h.arg \in Statuses /\ Stage(transport.status) < Stage(h.arg)
      BY <1>0, <2>2 DEF CanAdvance, LegSettled, transportOrder, Stage, Statuses, FulfilmentTypeOK, Transport
    <3>3. [transport EXCEPT !.status = h.arg] \in Transport
      BY <1>0, <3>2 DEF FulfilmentTypeOK, Transport
    <3>4. g \in Running
      BY <1>0, <3>3 DEF Running, Steps, FulfilmentTypeOK, Transport
    <3>5. Stage(transport.status) <= Stage(transport.status)
      BY DEF Stage
    <3>6. CopyFits(g)
      BY <1>0, <3>2, <3>5 DEF CopyFits, FulfilmentTypeOK, Transport, Running
    <3> QED  BY <1>0, <1>9, <3>1, <3>4, <3>6, CopyStep DEF advanceLeg, FulfilmentTypeOK
  <2> QED  BY <2>1, <2>2
<1>10. CASE SaveTransport(p)
  <2>1. CASE ~SaveTransportLands(transport, h.from)
    BY <1>0, <1>10, <2>1, DoneStep DEF SaveTransport, FulfilmentTypeOK
  <2>2. CASE SaveTransportLands(transport, h.from)
    <3>1. /\ transport' = h.t /\ Stage(transport.status) < Stage(h.t.status)
          /\ proc' = [proc EXCEPT ![p] = Idle]
          /\ UNCHANGED <<order, parcels, refunded, restocked, age, failures>>
      BY <1>0, <1>10, <2>2 DEF SaveTransport, SaveTransportLands, At, CopyFits, Done
    <3>2. FulfilmentTypeOK' /\ RefundOnlyCancelled'
      BY <1>0, <3>1, IdleFits DEF FulfilmentTypeOK, Running, RefundOnlyCancelled
    <3>3. \A s \in Statuses : Stage(s) \in Nat
      BY DEF Stage
    <3>4. ASSUME NEW q \in Procs PROVE CopyFits(proc[q])'
      <4>1. proc'[q] = IF q = p THEN Idle ELSE proc[q]
        BY <1>0, <3>1 DEF FulfilmentTypeOK
      <4>2. CASE q = p
        BY <4>1, <4>2 DEF CopyFits, Idle
      <4>3. CASE q # p
        <5>1. /\ proc[q].from \in Statuses /\ transport.status \in Statuses /\ h.t.status \in Statuses
          BY <1>0 DEF Running, FulfilmentTypeOK, Transport
        <5> QED  BY <1>0, <3>1, <3>3, <4>1, <4>3, <5>1 DEF CopyFits
      <4> QED  BY <4>2, <4>3
    <3> QED  BY <3>2, <3>4 DEF FulfilmentInv
  <2> QED  BY <2>1, <2>2
<1> QED  BY <1>1, <1>2, <1>3, <1>4, <1>5, <1>6, <1>7, <1>8, <1>9, <1>10 DEF Continue

\* Every step keeps the invariant.
LEMMA FulfilmentNextInv == FulfilmentInv /\ [FulfilmentNext]_fulfilmentVars => FulfilmentInv'
<1> SUFFICES ASSUME FulfilmentInv, [FulfilmentNext]_fulfilmentVars PROVE FulfilmentInv'
  OBVIOUS
<1>0. FulfilmentTypeOK /\ Sweeper \in Procs
  BY DEF FulfilmentInv, Procs
<1>1. ASSUME NEW p \in Callers, Call(p) PROVE FulfilmentInv'
  BY <1>1, CallStep
<1>2. CASE EscalateUnconfirmedOrder(Sweeper)
  <2>1. EscalateConfirmation(order) \in OrderRow
    BY <1>0 DEF FulfilmentTypeOK, OrderRow, EscalateConfirmation
  <2> QED  BY <1>0, <1>2, <2>1, DecideStep DEF EscalateUnconfirmedOrder, AllHandlers
<1>3. CASE RetryUnbookedShipments(Sweeper)
  <2> DEFINE h == [Idle EXCEPT !.op = "retry", !.at = "find"]
  <2>1. h \in Running /\ CopyFits(h)
    BY IdleFits DEF Running, Steps, AllHandlers, CopyFits, Idle
  <2> QED  BY <1>0, <1>3, <2>1, CopyStep DEF RetryUnbookedShipments, FulfilmentTypeOK
<1>4. ASSUME NEW p \in Procs, Continue(p) PROVE FulfilmentInv'
  BY <1>4, ContinueStep
<1>5. ASSUME NEW p \in Procs, carrierRefuses(p) PROVE FulfilmentInv'
  BY <1>0, <1>5, DoneStep DEF carrierRefuses, FulfilmentTypeOK
<1>6. ASSUME NEW p \in Procs, Fail(p) PROVE FulfilmentInv'
  <2>1. failures' \in 0 .. MaxFailures
    BY <1>0, <1>6, FulfilmentAssumption DEF Fail, FulfilmentTypeOK
  <2> QED  BY <1>6, <2>1, DoneStep DEF Fail
<1>7. CASE Tick
  <2>1. FulfilmentTypeOK'
    BY <1>0, <1>7 DEF Tick, FulfilmentTypeOK
  <2> QED  BY <1>7, <2>1 DEF Tick, FulfilmentInv, RefundOnlyCancelled, CopyFits
<1>8. CASE UNCHANGED fulfilmentVars
  BY <1>8 DEF fulfilmentVars, FulfilmentInv, FulfilmentTypeOK, RefundOnlyCancelled, CopyFits
<1> QED  BY <1>1, <1>2, <1>3, <1>4, <1>5, <1>6, <1>7, <1>8 DEF FulfilmentNext

\* The invariant holds of every behaviour.
LEMMA FulfilmentInvHolds == FulfilmentSpec => []FulfilmentInv
BY FulfilmentInitInv, FulfilmentNextInv, PTL DEF FulfilmentSpec

\* Whatever stale copies the handlers of an order carry and wherever they are cut
\* short, the buyer's money and the seller's units go back only for an order whose
\* cancellation is committed, and the money first (SaveOrder, refundEscrow,
\* uncommitOrderStock).
THEOREM OrdersStaySound == FulfilmentSpec => []OrderSound
BY FulfilmentInvHolds, PTL DEF FulfilmentInv, OrderSound

\* No write of any handler takes back an outcome of the order, moves its parcel
\* backwards or replaces the reference of a parcel the carrier has taken
\* (Repo.SaveOrder, SaveTransport, BookTransport).
THEOREM OrdersGoOneWay == FulfilmentSpec => OrderOneWay
<1> DEFINE Forward ==
      /\ Settled(order) => order' = order
      /\ /\ LegSettled(transport) => transport'.status = transport.status
         /\ Shipped(transport) => Shipped(transport')
         /\ ~LegSettled(transport') => transportOrder(transport'.status) >= transportOrder(transport.status)
      /\ Booked(transport) => transport'.ref \in {transport.ref, None}
<1>1. ASSUME FulfilmentInv, [FulfilmentNext]_fulfilmentVars PROVE [Forward]_fulfilmentVars
  <2>0. transport \in Transport /\ \A p \in Procs : proc[p] \in Running /\ CopyFits(proc[p])
    BY <1>1 DEF FulfilmentInv, FulfilmentTypeOK, Running
  <2>1. order' = order \/ (~Settled(order) /\ transport' = transport)
    BY <1>1 DEF FulfilmentNext, fulfilmentVars, Call, Continue, ConfirmOrder, DeclineOrder, ConfirmReceiptBy,
         CancelOrder, EscalateUnconfirmedOrder, AdvanceShipment, RecordCarrierCheckpoint, Decide,
         RetryUnbookedShipments, cancelUnlessShipped, SaveOrder, SaveOrderLands, refundEscrow,
         uncommitOrderStock, findOrder, bookShipment, createParcel, BookTransport, advanceLeg,
         SaveTransport, carrierRefuses, Fail, Tick
  <2>2. \/ transport' = transport
        \/ \E p \in Procs : \/ BookTransport(p) /\ transport' # transport
                            \/ SaveTransport(p) /\ transport' # transport
    BY <1>1 DEF FulfilmentNext, fulfilmentVars, Call, Continue, ConfirmOrder, DeclineOrder, ConfirmReceiptBy,
         CancelOrder, EscalateUnconfirmedOrder, AdvanceShipment, RecordCarrierCheckpoint, Decide,
         RetryUnbookedShipments, cancelUnlessShipped, SaveOrder, refundEscrow,
         uncommitOrderStock, findOrder, bookShipment, createParcel, advanceLeg,
         carrierRefuses, Fail, Tick
  <2>3. CASE transport' = transport
    <3>1. transportOrder(transport.status) >= transportOrder(transport.status)
      BY DEF transportOrder
    <3> QED  BY <2>1, <2>3, <3>1 DEF Shipped
  <2>4. ASSUME NEW p \in Procs, BookTransport(p), transport' # transport PROVE Forward
    <3>1. /\ order' = order /\ transport.ref = None /\ transport.status = "pending"
          /\ transport' = [transport EXCEPT !.ref = proc[p].arg]
      BY <2>4 DEF BookTransport, BookTransportLands
    <3>2. transport'.status = transport.status
      BY <2>0, <3>1 DEF Transport
    <3> QED  BY <3>1, <3>2 DEF LegSettled, Shipped, Booked, transportOrder
  <2>5. ASSUME NEW p \in Procs, SaveTransport(p), transport' # transport PROVE Forward
    <3>1. /\ order' = order /\ transport' = proc[p].t /\ transport.status = proc[p].from
          /\ Stage(transport.status) < Stage(transport'.status)
          /\ transport'.ref \in {transport.ref, None}
      BY <2>0, <2>5 DEF SaveTransport, SaveTransportLands, At, CopyFits
    <3>2. transport.status \in Statuses /\ transport'.status \in Statuses
      BY <2>0, <3>1 DEF Transport, Running
    <3> QED  BY <3>1, <3>2 DEF LegSettled, Shipped, Booked, transportOrder, Stage, Statuses
  <2> QED  BY <2>2, <2>3, <2>4, <2>5
<1> QED  BY <1>1, FulfilmentInvHolds, PTL
         DEF FulfilmentSpec, OrderOneWay, SettledIsFinal, ShipmentForwardOnly, ReferenceNotReplaced

-----------------------------------------------------------------------------
(* The refund case and the payout *)

\* What a running handler is.
RefundRunning == [op : AllRefundHandlers \cup {"none"}, at : RefundSteps, o : OrderRow,
                  r : Refund, from : RefundStatuses]

\* The rows and effects, without the handlers.
RefundRowsOK ==
  /\ soldOrder \in OrderRow
  /\ shipped \in BOOLEAN /\ windowOver \in BOOLEAN /\ overdue \in BOOLEAN
  /\ refund \in Refund
  /\ leg \in {"pending", "delivered", "failed"}
  /\ held \in 0 .. OtherHeld + 1
  /\ paidBack \in BOOLEAN /\ paidOut \in BOOLEAN /\ unitsBack \in BOOLEAN
  /\ refundFailures \in 0 .. MaxRefundFailures
  /\ NoLiveCaseOverPayout /\ AcceptedClosesOrder /\ PaidOutIsCompleted

\* What a running handler carries: a copy of the order was open when it was read,
\* a write to the case is guarded on a status that is not closed and grants no
\* money by itself, the outcome is written after the money, and whoever releases
\* the payout does it for an order claimed and never cancelled.
RefundFits(h) ==
  /\ h.at \in {"save", "pay", "close"} => ~h.o.completed /\ ~h.o.released
  /\ h.at \in {"save-refund", "pay", "close"} => h.from \notin Closed \cup {"none"}
  /\ h.at = "save-refund" => h.r.status # "accepted"
  /\ h.at = "leg" /\ h.from = "returning" => h.r.status # "accepted"
  /\ h.at = "close" => paidBack
  /\ h.at \in {"release", "mark"} => soldOrder.completed /\ ~soldOrder.cancelled

\* The inductive invariant.
RefundInv ==
  /\ RefundRowsOK
  /\ refunder \in [Refunders -> RefundRunning]
  /\ \A p \in Refunders : RefundFits(refunder[p])

-----------------------------------------------------------------------------

\* A handler at rest, and one that has nothing but a step left to do.
LEMMA RefunderIdleFits ==
  /\ RefunderIdle \in RefundRunning
  /\ RefundFits(RefunderIdle)
<1>1. NewOrder \in OrderRow /\ NoRefund \in Refund
  BY RefundAssumption DEF NewOrder, OrderRow, NoRefund, Refund, RefundStatuses
<1> QED  BY <1>1 DEF RefunderIdle, RefundRunning, RefundSteps, RefundStatuses, RefundFits

\* A confirmed sale with no case against it satisfies the invariant.
LEMMA RefundInitInv == RefundInit => RefundInv
<1> SUFFICES ASSUME RefundInit PROVE RefundInv
  OBVIOUS
<1>1. soldOrder \in OrderRow /\ ~soldOrder.completed /\ ~soldOrder.released
  BY DEF RefundInit, Confirm, NewOrder, OrderRow
<1>2. refund \in Refund /\ refund.status = "none"
  BY RefundAssumption DEF RefundInit, NoRefund, Refund, RefundStatuses
<1>3. leg \in {"pending", "delivered", "failed"} /\ held \in 0 .. OtherHeld + 1
      /\ refundFailures \in 0 .. MaxRefundFailures
  BY RefundAssumption DEF RefundInit
<1>4. /\ shipped \in BOOLEAN /\ windowOver \in BOOLEAN /\ overdue \in BOOLEAN
      /\ paidBack \in BOOLEAN /\ paidOut \in BOOLEAN /\ unitsBack \in BOOLEAN /\ ~paidOut
  BY DEF RefundInit
<1>5. NoLiveCaseOverPayout /\ AcceptedClosesOrder /\ PaidOutIsCompleted
  BY <1>1, <1>2, <1>4 DEF NoLiveCaseOverPayout, AcceptedClosesOrder, PaidOutIsCompleted
<1>6. refunder = [p \in Refunders |-> RefunderIdle]
  BY DEF RefundInit
<1> QED  BY <1>1, <1>2, <1>3, <1>4, <1>5, <1>6, RefunderIdleFits DEF RefundInv, RefundRowsOK

\* A step of one handler: what the others carry keeps fitting when money paid back
\* stays so and a claimed payout is not cancelled.
LEMMA RefundHandlerStep ==
  ASSUME RefundInv, NEW p \in Refunders, NEW h \in RefundRunning, RefundFits(h)',
         refunder' = [refunder EXCEPT ![p] = h], RefundRowsOK',
         paidBack => paidBack',
         soldOrder.completed /\ ~soldOrder.cancelled => soldOrder'.completed /\ ~soldOrder'.cancelled
  PROVE  RefundInv'
<1>1. ASSUME NEW q \in Refunders PROVE RefundFits(refunder[q])'
  <2>1. refunder'[q] = IF q = p THEN h ELSE refunder[q]
    BY DEF RefundInv
  <2> QED  BY <2>1 DEF RefundInv, RefundFits
<1>2. refunder' \in [Refunders -> RefundRunning]
  BY DEF RefundInv
<1> QED  BY <1>1, <1>2 DEF RefundInv

\* A handler that starts, or goes on, with the rows as they are.
LEMMA RefundCopyStep ==
  ASSUME RefundInv, NEW p \in Refunders, NEW h \in RefundRunning, RefundFits(h),
         refunder' = [refunder EXCEPT ![p] = h], rowsUnchanged
  PROVE  RefundInv'
<1>1. RefundRowsOK'
  BY DEF RefundInv, RefundRowsOK, rowsUnchanged, NoLiveCaseOverPayout, AcceptedClosesOrder, PaidOutIsCompleted
<1>2. RefundFits(h)'
  BY DEF RefundFits, rowsUnchanged
<1> QED  BY <1>1, <1>2, RefundHandlerStep DEF rowsUnchanged

\* The same, of a handler that begins.
LEMMA BeginStep ==
  ASSUME RefundInv, NEW p \in Refunders, NEW op, NEW h \in RefundRunning, BeginRefund(p, op, h),
         RefundFits(h), rowsUnchanged
  PROVE  RefundInv'
<1> DEFINE g == [h EXCEPT !.op = op]
<1>1. op \in AllRefundHandlers
  BY RefundAssumption DEF BeginRefund
<1>2. g \in RefundRunning /\ RefundFits(g)
  BY <1>1 DEF RefundRunning, RefundFits
<1> QED  BY <1>2, RefundCopyStep DEF BeginRefund

\* A copy of the case on its way to SaveRefund, from a status that is not closed.
LEMMA SavingFits ==
  ASSUME RefundInv, NEW r \in Refund, r.status # "accepted", refund.status \notin Closed \cup {"none"}
  PROVE  SavingRefund(r) \in RefundRunning /\ RefundFits(SavingRefund(r))
<1>1. refund.status \in RefundStatuses
  BY DEF RefundInv, RefundRowsOK, Refund
<1> QED  BY <1>1, RefunderIdleFits DEF SavingRefund, RefundRunning, RefundSteps, RefundFits, RefunderIdle

\* The calls of the parties, the staff and the durable run.
LEMMA RefundCallStep ==
  ASSUME RefundInv, NEW p \in Refunders, RefundCall(p)
  PROVE  RefundInv'
<1>0. /\ RefundRowsOK /\ soldOrder \in OrderRow /\ refund \in Refund
      /\ refund.status \in RefundStatuses
      /\ ~Settled(soldOrder) => ~soldOrder.completed /\ ~soldOrder.released
  BY DEF RefundInv, RefundRowsOK, Refund, Settled, PaidOutIsCompleted
<1>1. CASE ReceiveOrder(p)
  <2> DEFINE h == [RefunderIdle EXCEPT !.at = "save", !.o = ConfirmReceipt(soldOrder)]
  <2>1. /\ ConfirmReceipt(soldOrder) \in OrderRow
        /\ ~ConfirmReceipt(soldOrder).completed /\ ~ConfirmReceipt(soldOrder).released
    BY <1>0, <1>1 DEF ReceiveOrder, CanConfirmReceipt, ConfirmReceipt, OrderRow
  <2>2. h \in RefundRunning /\ RefundFits(h)
    BY <2>1, RefunderIdleFits DEF RefundRunning, RefundSteps, RefundFits, RefunderIdle
  <2> QED  BY <1>1, <2>2, BeginStep DEF ReceiveOrder
<1>2. CASE CancelSoldOrder(p)
  <2> DEFINE h == [RefunderIdle EXCEPT !.at = "save", !.o = Cancel(soldOrder)]
  <2>1. /\ Cancel(soldOrder) \in OrderRow
        /\ ~Cancel(soldOrder).completed /\ ~Cancel(soldOrder).released
    BY <1>0, <1>2 DEF CancelSoldOrder, CanCancel, Cancel, OrderRow
  <2>2. h \in RefundRunning /\ RefundFits(h)
    BY <2>1, RefunderIdleFits DEF RefundRunning, RefundSteps, RefundFits, RefunderIdle
  <2> QED  BY <1>2, <2>2, BeginStep DEF CancelSoldOrder
<1>3. ASSUME NEW e \in SUBSET Photos, CreateRefund(p, e) PROVE RefundInv'
  <2>1. /\ refund' = NewRefund(refund.id + 1, e) /\ overdue' = FALSE /\ ~Settled(soldOrder)
        /\ UNCHANGED <<soldOrder, shipped, windowOver, leg, held, paidBack, paidOut, unitsBack,
                       refunder, refundFailures>>
    BY <1>3 DEF CreateRefund, InsertRefundLands
  <2>2. refund' \in Refund /\ refund'.status = "awaiting-seller-review"
    BY <1>0, <1>3, <2>1, RefundAssumption DEF CreateRefund, NewRefund, Refund, RefundStatuses
  <2>3. NoLiveCaseOverPayout' /\ AcceptedClosesOrder' /\ PaidOutIsCompleted'
    BY <1>0, <2>1, <2>2 DEF RefundRowsOK, NoLiveCaseOverPayout, AcceptedClosesOrder, PaidOutIsCompleted
  <2>4. overdue' \in BOOLEAN
    BY <2>1
  <2>5. RefundRowsOK'
    BY <1>0, <2>1, <2>2, <2>3, <2>4 DEF RefundRowsOK
  <2> QED  BY <2>1, <2>5 DEF RefundInv, RefundFits
<1>4. ASSUME NEW x \in Photos, AddRefundAttachments(p, x) PROVE RefundInv'
  <2> DEFINE r == [refund EXCEPT !.evidence = @ \cup {x}]
  <2>1. /\ r \in Refund /\ r.status # "accepted" /\ refund.status \notin Closed \cup {"none"}
    BY <1>0, <1>4 DEF AddRefundAttachments, Active, Refund, Closed
  <2> QED  BY <1>4, <2>1, SavingFits, BeginStep DEF AddRefundAttachments
<1>5. CASE WithdrawRefund(p)
  <2> DEFINE r == MoveTo(refund, "cancelled")
  <2>1. r \in Refund /\ r.status # "accepted" /\ refund.status \notin Closed \cup {"none"}
    BY <1>0, <1>5 DEF WithdrawRefund, MoveTo, Refund, RefundStatuses, Closed
  <2> QED  BY <1>5, <2>1, SavingFits, BeginStep DEF WithdrawRefund
<1>6. CASE AcceptRefund(p)
  <2> DEFINE r == [refund EXCEPT !.status = "returning", !.hasLeg = TRUE]
  <2>1. r \in Refund /\ r.status # "accepted" /\ refund.status \notin Closed \cup {"none"}
    BY <1>0, <1>6 DEF AcceptRefund, Refund, RefundStatuses, Closed
  <2> QED  BY <1>6, <2>1, SavingFits, BeginStep DEF AcceptRefund
<1>7. CASE EscalateRefund(p)
  <2> DEFINE r == MoveTo(refund, "disputed")
  <2>1. r \in Refund /\ r.status # "accepted" /\ refund.status \notin Closed \cup {"none"}
    BY <1>0, <1>7 DEF EscalateRefund, MoveTo, Refund, RefundStatuses, Closed
  <2> QED  BY <1>7, <2>1, SavingFits, BeginStep DEF EscalateRefund
<1>8. ASSUME NEW byBuyer \in BOOLEAN, NEW s \in {"delivered", "failed"},
             AdvanceReturnShipment(p, byBuyer, s)
      PROVE  RefundInv'
  <2> DEFINE moved == IF byBuyer THEN MoveTo(refund, "disputed") ELSE MoveTo(refund, "returned")
             r == IF s = "delivered" THEN [moved EXCEPT !.returned = TRUE] ELSE refund
             h == [RefunderIdle EXCEPT !.at = "leg", !.from = refund.status, !.r = r]
  <2>1. moved \in Refund /\ moved.status \in {"disputed", "returned"}
    BY <1>0 DEF MoveTo, Refund, RefundStatuses
  <2>2. r \in Refund /\ (r.status = "accepted" => refund.status = "accepted")
    BY <1>0, <2>1 DEF Refund
  <2>3. h \in RefundRunning /\ RefundFits(h)
    BY <1>0, <2>2, RefunderIdleFits DEF RefundRunning, RefundSteps, RefundFits, RefunderIdle
  <2> QED  BY <1>8, <2>3, BeginStep DEF AdvanceReturnShipment
<1>9. ASSUME NEW buyerWins \in BOOLEAN, AdminResolveRefund(p, buyerWins) PROVE RefundInv'
  <2> DEFINE r == Resolve(refund, buyerWins)
             h == [RefunderIdle EXCEPT !.at = IF r.status = "accepted" THEN "pay" ELSE "save-refund",
                                       !.r = r, !.o = soldOrder, !.from = "disputed"]
  <2>1. r \in Refund
    BY <1>0 DEF Resolve, MoveTo, Refund, RefundStatuses
  <2>2. ~soldOrder.completed /\ ~soldOrder.released
    BY <1>0, <1>9 DEF AdminResolveRefund
  <2>3. h \in RefundRunning
    BY <1>0, <2>1, RefunderIdleFits DEF RefundRunning, RefundSteps, RefundStatuses
  <2>4. RefundFits(h)
    BY <2>2, RefunderIdleFits DEF RefundFits, RefunderIdle, Closed
  <2> QED  BY <1>9, <2>3, <2>4, BeginStep DEF AdminResolveRefund
<1>10. CASE advanceRefund(p)
  <2>1. CASE refund.status = "returned"
    <3> DEFINE h == [RefunderIdle EXCEPT !.at = "pay", !.r = MoveTo(refund, "accepted"),
                                         !.o = soldOrder, !.from = "returned"]
    <3>1. MoveTo(refund, "accepted") \in Refund /\ ~soldOrder.completed /\ ~soldOrder.released
      BY <1>0, <1>10 DEF advanceRefund, MoveTo, Refund, RefundStatuses
    <3>2. h \in RefundRunning
      BY <1>0, <3>1, RefunderIdleFits DEF RefundRunning, RefundSteps, RefundStatuses
    <3>3. RefundFits(h)
      BY <3>1, RefunderIdleFits DEF RefundFits, RefunderIdle, Closed
    <3> QED  BY <1>10, <2>1, <3>2, <3>3, BeginStep DEF advanceRefund
  <2>2. CASE refund.status # "returned"
    <3> DEFINE r == MoveTo(refund, "disputed")
    <3>1. r \in Refund /\ r.status # "accepted" /\ refund.status \notin Closed \cup {"none"}
      BY <1>0, <1>10 DEF advanceRefund, MoveTo, Refund, RefundStatuses, Closed, Timed
    <3> QED  BY <1>10, <2>2, <3>1, SavingFits, BeginStep DEF advanceRefund
  <2> QED  BY <2>1, <2>2
<1>11. CASE ClaimPayout(p)
  <2> DEFINE h == [[RefunderIdle EXCEPT !.at = "release"] EXCEPT !.op = "payout"]
  <2>1. /\ soldOrder' = [soldOrder EXCEPT !.completed = TRUE] /\ ~Settled(soldOrder) /\ ~Live(refund)
        /\ refunder' = [refunder EXCEPT ![p] = h]
        /\ UNCHANGED <<shipped, windowOver, refund, leg, overdue, held, paidBack, paidOut, unitsBack,
                       refundFailures>>
    BY <1>11 DEF ClaimPayout, ClaimPayoutLands, BeginRefund
  <2>2. soldOrder' \in OrderRow /\ soldOrder'.completed /\ ~soldOrder'.cancelled
    BY <1>0, <2>1 DEF OrderRow, Settled
  <2>3. refund.status # "accepted"
    BY <2>1 DEF Live
  <2>4. RefundRowsOK'
    BY <1>0, <2>1, <2>2, <2>3
       DEF RefundRowsOK, NoLiveCaseOverPayout, AcceptedClosesOrder, PaidOutIsCompleted, Live
  <2>5. h \in RefundRunning /\ RefundFits(h)'
    BY <2>2, RefunderIdleFits DEF RefundRunning, RefundSteps, AllRefundHandlers, RefundFits, RefunderIdle
  <2> QED  BY <2>1, <2>2, <2>4, <2>5, RefundHandlerStep
<1> QED  BY <1>1, <1>2, <1>3, <1>4, <1>5, <1>6, <1>7, <1>8, <1>9, <1>10, <1>11 DEF RefundCall

\* A handler that ends with the rows as they are, whatever the failures counted.
LEMMA RefundDoneStep ==
  ASSUME RefundInv, NEW p \in Refunders, RefundDone(p),
         UNCHANGED <<soldOrder, shipped, windowOver, refund, leg, overdue, held, paidBack, paidOut, unitsBack>>,
         refundFailures' \in 0 .. MaxRefundFailures
  PROVE  RefundInv'
<1>1. RefundRowsOK'
  BY DEF RefundInv, RefundRowsOK, NoLiveCaseOverPayout, AcceptedClosesOrder, PaidOutIsCompleted
<1>2. RefundFits(RefunderIdle)'
  BY DEF RefundFits, RefunderIdle
<1> QED  BY <1>1, <1>2, RefunderIdleFits, RefundHandlerStep DEF RefundDone

\* The writes and the movements of a handler that has begun.
LEMMA RefundContinueStep ==
  ASSUME RefundInv, NEW p \in Refunders, RefundContinue(p)
  PROVE  RefundInv'
<1>h. PICK h \in RefundRunning : h = refunder[p]
  BY DEF RefundInv
<1>0. /\ h = refunder[p] /\ RefundRowsOK /\ soldOrder \in OrderRow /\ refund \in Refund
      /\ h \in RefundRunning /\ RefundFits(h)
      /\ h.o \in OrderRow /\ h.r \in Refund /\ h.from \in RefundStatuses
      /\ refundFailures \in 0 .. MaxRefundFailures
  BY <1>h DEF RefundInv, RefundRowsOK, RefundRunning
<1>i. RefundFits(RefunderIdle)' /\ RefunderIdle \in RefundRunning
  BY RefunderIdleFits DEF RefundFits, RefunderIdle
<1>1. CASE SaveSoldOrder(p)
  <2>1. CASE ~SaveOrderLands(soldOrder)
    BY <1>0, <1>1, <2>1, RefundDoneStep DEF SaveSoldOrder
  <2>2. CASE SaveOrderLands(soldOrder)
    <3> DEFINE g == IF h.op = "cancel" THEN [RefunderIdle EXCEPT !.op = "cancel", !.at = "refund"]
                    ELSE RefunderIdle
    <3>1. /\ soldOrder' = h.o /\ refunder' = [refunder EXCEPT ![p] = g]
          /\ UNCHANGED <<shipped, windowOver, refund, leg, overdue, held, paidBack, paidOut,
                         unitsBack, refundFailures>>
      BY <1>0, <1>1, <2>2 DEF SaveSoldOrder, RefundDone
    <3>2. /\ ~h.o.completed /\ ~h.o.released /\ ~soldOrder.completed /\ ~soldOrder.cancelled
      BY <1>0, <1>1, <2>2 DEF SaveSoldOrder, SaveOrderLands, Settled, RefundFits
    <3>3. refund.status # "accepted" /\ ~paidOut
      BY <1>0, <3>2 DEF RefundRowsOK, AcceptedClosesOrder, PaidOutIsCompleted
    <3>4. NoLiveCaseOverPayout' /\ AcceptedClosesOrder' /\ PaidOutIsCompleted'
      BY <3>1, <3>2, <3>3 DEF NoLiveCaseOverPayout, AcceptedClosesOrder, PaidOutIsCompleted
    <3>5. RefundRowsOK'
      BY <1>0, <3>1, <3>4 DEF RefundRowsOK
    <3>6. g \in RefundRunning /\ RefundFits(g)'
      BY <1>i DEF RefundRunning, RefundSteps, AllRefundHandlers, RefundFits, RefunderIdle
    <3> QED  BY <3>1, <3>2, <3>5, <3>6, RefundHandlerStep
  <2> QED  BY <2>1, <2>2
<1>2. CASE SaveRefund(p)
  <2>1. CASE ~SaveRefundLands(h.r, h.from)
    BY <1>0, <1>2, <2>1, RefundDoneStep DEF SaveRefund
  <2>2. CASE SaveRefundLands(h.r, h.from)
    <3>1. /\ WriteRefund(h.r) /\ refunder' = [refunder EXCEPT ![p] = RefunderIdle]
          /\ UNCHANGED <<soldOrder, shipped, windowOver, held, paidBack, paidOut, unitsBack, refundFailures>>
      BY <1>0, <1>2, <2>2 DEF SaveRefund, RefundDone
    <3>2. h.r.status # "accepted" /\ Live(refund)
      BY <1>0, <1>2, <2>2 DEF SaveRefund, SaveRefundLands, RefundFits, Live, Closed
    <3>3. refund' = h.r /\ leg' \in {"pending", "delivered", "failed"} /\ overdue' \in BOOLEAN
      BY <1>0, <3>1 DEF WriteRefund, RefundRowsOK
    <3>4. NoLiveCaseOverPayout' /\ AcceptedClosesOrder' /\ PaidOutIsCompleted'
      BY <1>0, <3>1, <3>2, <3>3
         DEF RefundRowsOK, NoLiveCaseOverPayout, AcceptedClosesOrder, PaidOutIsCompleted
    <3>5. RefundRowsOK'
      BY <1>0, <3>1, <3>3, <3>4 DEF RefundRowsOK
    <3> QED  BY <1>i, <3>1, <3>5, RefundHandlerStep
  <2> QED  BY <2>1, <2>2
<1>3. CASE advanceReturnLeg(p)
  <2>1. CASE leg # "pending" \/ h.r.id # refund.id
    BY <1>0, <1>3, <2>1, RefundDoneStep DEF advanceReturnLeg
  <2>2. CASE ~(leg # "pending" \/ h.r.id # refund.id)
    <3>1. /\ leg' \in {"pending", "delivered", "failed"}
          /\ \/ h.at = "leg" /\ h.from = "returning" /\ RefundGoto(p, "save-refund")
             \/ RefundDone(p)
          /\ UNCHANGED <<soldOrder, shipped, windowOver, refund, overdue, held, paidBack, paidOut,
                         unitsBack, refundFailures>>
      BY <1>0, <1>3, <2>2 DEF advanceReturnLeg
    <3>2. RefundRowsOK'
      BY <1>0, <3>1 DEF RefundRowsOK, NoLiveCaseOverPayout, AcceptedClosesOrder, PaidOutIsCompleted
    <3>3. CASE RefundDone(p)
      BY <1>i, <3>1, <3>2, <3>3, RefundHandlerStep DEF RefundDone
    <3>4. CASE h.at = "leg" /\ h.from = "returning" /\ RefundGoto(p, "save-refund")
      <4> DEFINE g == [h EXCEPT !.at = "save-refund"]
      <4>1. g \in RefundRunning /\ RefundFits(g)'
        BY <1>0, <3>4 DEF RefundRunning, RefundSteps, RefundFits, Closed
      <4>2. refunder' = [refunder EXCEPT ![p] = g]
        BY <1>0, <3>4 DEF RefundGoto
      <4> QED  BY <3>1, <3>2, <4>1, <4>2, RefundHandlerStep
    <3> QED  BY <3>1, <3>3, <3>4
  <2> QED  BY <2>1, <2>2
<1>4. ASSUME postRefund, ~RefundRefused,
             UNCHANGED <<soldOrder, shipped, windowOver, refund, leg, overdue, paidOut, unitsBack, refundFailures>>
      PROVE  RefundRowsOK' /\ paidBack'
  <2>1. paidBack' \in BOOLEAN /\ paidBack'
    BY <1>0, <1>4 DEF postRefund, RefundRowsOK
  <2>2. held' = held \/ (held' = held - 1 /\ held # 0)
    BY <1>4 DEF postRefund, RefundRefused
  <2>3. held \in 0 .. OtherHeld + 1
    BY <1>0 DEF RefundRowsOK
  <2>4. held' \in 0 .. OtherHeld + 1
    BY <2>2, <2>3, RefundAssumption
  <2> QED  BY <1>0, <1>4, <2>1, <2>4
           DEF RefundRowsOK, NoLiveCaseOverPayout, AcceptedClosesOrder, PaidOutIsCompleted
<1>5. CASE settlePays(p)
  <2>1. CASE RefundRefused
    BY <1>0, <1>5, <2>1, RefundDoneStep DEF settlePays
  <2>2. CASE ~RefundRefused
    <3> DEFINE g == [h EXCEPT !.at = "close"]
    <3>1. /\ postRefund /\ refunder' = [refunder EXCEPT ![p] = g] /\ h.at = "pay"
          /\ UNCHANGED <<soldOrder, shipped, windowOver, refund, leg, overdue, paidOut, unitsBack, refundFailures>>
      BY <1>0, <1>5, <2>2 DEF settlePays, RefundGoto
    <3>2. RefundRowsOK' /\ paidBack'
      BY <1>4, <2>2, <3>1
    <3>3. g \in RefundRunning /\ RefundFits(g)'
      BY <1>0, <3>1, <3>2 DEF RefundRunning, RefundSteps, RefundFits
    <3> QED  BY <3>1, <3>2, <3>3, RefundHandlerStep
  <2> QED  BY <2>1, <2>2
<1>6. CASE SaveRefundOutcome(p)
  <2>1. CASE ~(SaveRefundLands(h.r, h.from) /\ SaveOrderLands(soldOrder))
    BY <1>0, <1>6, <2>1, RefundDoneStep DEF SaveRefundOutcome
  <2>2. CASE SaveRefundLands(h.r, h.from) /\ SaveOrderLands(soldOrder)
    <3> DEFINE g == [RefunderIdle EXCEPT !.op = h.op, !.at = "stock"]
    <3>1. /\ WriteRefund(h.r) /\ soldOrder' = Cancel(h.o) /\ refunder' = [refunder EXCEPT ![p] = g]
          /\ UNCHANGED <<shipped, windowOver, held, paidBack, paidOut, unitsBack, refundFailures>>
      BY <1>0, <1>6, <2>2 DEF SaveRefundOutcome
    <3>2. ~h.o.completed /\ ~h.o.released /\ paidBack /\ ~soldOrder.completed
      BY <1>0, <1>6, <2>2 DEF SaveRefundOutcome, RefundFits, SaveOrderLands, Settled
    <3>3. /\ soldOrder' \in OrderRow /\ soldOrder'.cancelled
          /\ ~soldOrder'.completed /\ ~soldOrder'.released
      BY <1>0, <3>1, <3>2 DEF Cancel, OrderRow
    <3>4. refund' = h.r /\ leg' \in {"pending", "delivered", "failed"} /\ overdue' \in BOOLEAN
      BY <1>0, <3>1 DEF WriteRefund, RefundRowsOK
    <3>5. ~paidOut
      BY <1>0, <3>2 DEF RefundRowsOK, PaidOutIsCompleted
    <3>6. RefundRowsOK'
      BY <1>0, <3>1, <3>2, <3>3, <3>4, <3>5
         DEF RefundRowsOK, NoLiveCaseOverPayout, AcceptedClosesOrder, PaidOutIsCompleted
    <3>7. g \in RefundRunning /\ RefundFits(g)'
      BY <1>0, <1>i DEF RefundRunning, RefundSteps, RefundFits, RefunderIdle
    <3> QED  BY <3>1, <3>2, <3>6, <3>7, RefundHandlerStep
  <2> QED  BY <2>1, <2>2
<1>7. CASE RefundEscrow(p)
  <2>1. CASE RefundRefused
    BY <1>0, <1>7, <2>1, RefundDoneStep DEF RefundEscrow
  <2>2. CASE ~RefundRefused
    <3> DEFINE g == [h EXCEPT !.at = "stock"]
    <3>1. /\ postRefund /\ refunder' = [refunder EXCEPT ![p] = g]
          /\ UNCHANGED <<soldOrder, shipped, windowOver, refund, leg, overdue, paidOut, unitsBack, refundFailures>>
      BY <1>0, <1>7, <2>2 DEF RefundEscrow, RefundGoto
    <3>2. RefundRowsOK' /\ paidBack'
      BY <1>4, <2>2, <3>1
    <3>3. g \in RefundRunning /\ RefundFits(g)'
      BY <1>0, <3>1, <3>2 DEF RefundRunning, RefundSteps, RefundFits
    <3> QED  BY <3>1, <3>2, <3>3, RefundHandlerStep
  <2> QED  BY <2>1, <2>2
<1>8. CASE UncommitOrderStock(p)
  <2>1. RefundRowsOK'
    BY <1>0, <1>8 DEF UncommitOrderStock, RefundRowsOK, NoLiveCaseOverPayout, AcceptedClosesOrder, PaidOutIsCompleted
  <2> QED  BY <1>i, <1>8, <2>1, RefundHandlerStep DEF UncommitOrderStock, RefundDone
<1>9. CASE ReleaseEscrow(p)
  <2>0. h.at = "release" /\ soldOrder.completed /\ ~soldOrder.cancelled
    BY <1>0, <1>9 DEF ReleaseEscrow, RefundFits
  <2>1. CASE held = 0
    BY <1>0, <1>9, <2>1, RefundDoneStep DEF ReleaseEscrow
  <2>2. CASE held # 0
    <3> DEFINE g == [h EXCEPT !.at = "mark"]
    <3>1. /\ refunder' = [refunder EXCEPT ![p] = g]
          /\ UNCHANGED <<soldOrder, shipped, windowOver, refund, leg, overdue, paidBack, unitsBack, refundFailures>>
      BY <1>0, <1>9, <2>2 DEF ReleaseEscrow, RefundGoto
    <3>2. paidOut' \in BOOLEAN /\ (held' = held \/ held' = held - 1)
      BY <1>0, <1>9, <2>2 DEF ReleaseEscrow, RefundRowsOK
    <3>5. held \in 0 .. OtherHeld + 1
      BY <1>0 DEF RefundRowsOK
    <3>6. held' \in 0 .. OtherHeld + 1
      BY <2>2, <3>2, <3>5, RefundAssumption
    <3>3. RefundRowsOK'
      BY <1>0, <2>0, <3>1, <3>2, <3>6
         DEF RefundRowsOK, NoLiveCaseOverPayout, AcceptedClosesOrder, PaidOutIsCompleted
    <3>4. g \in RefundRunning /\ RefundFits(g)'
      BY <1>0, <2>0, <3>1 DEF RefundRunning, RefundSteps, RefundFits
    <3> QED  BY <3>1, <3>3, <3>4, RefundHandlerStep
  <2> QED  BY <2>1, <2>2
<1>10. CASE MarkPayoutReleased(p)
  <2>1. /\ soldOrder.completed /\ ~soldOrder.cancelled
        /\ soldOrder' = [soldOrder EXCEPT !.released = TRUE]
        /\ refunder' = [refunder EXCEPT ![p] = RefunderIdle]
        /\ UNCHANGED <<shipped, windowOver, refund, leg, overdue, held, paidBack, paidOut, unitsBack,
                       refundFailures>>
    BY <1>0, <1>10 DEF MarkPayoutReleased, RefundFits, RefundDone
  <2>2. soldOrder' \in OrderRow /\ soldOrder'.completed /\ ~soldOrder'.cancelled
    BY <1>0, <2>1 DEF OrderRow
  <2>3. RefundRowsOK'
    BY <1>0, <2>1, <2>2 DEF RefundRowsOK, NoLiveCaseOverPayout, AcceptedClosesOrder, PaidOutIsCompleted
  <2> QED  BY <1>i, <2>1, <2>2, <2>3, RefundHandlerStep
<1> QED  BY <1>1, <1>2, <1>3, <1>5, <1>6, <1>7, <1>8, <1>9, <1>10 DEF RefundContinue

\* Every step keeps the invariant.
LEMMA RefundNextInv == RefundInv /\ [RefundNext]_refundVars => RefundInv'
<1> SUFFICES ASSUME RefundInv, [RefundNext]_refundVars PROVE RefundInv'
  OBVIOUS
<1>0. RefundRowsOK /\ RefundSweeper \in Refunders /\ RefundCallers \subseteq Refunders
  BY DEF RefundInv, Refunders
<1>1. ASSUME NEW p \in RefundCallers, RefundCall(p) PROVE RefundInv'
  BY <1>0, <1>1, RefundCallStep
<1>2. CASE Sweep
  <2>1. CASE advanceRefund(RefundSweeper) \/ ClaimPayout(RefundSweeper)
    BY <1>0, <2>1, RefundCallStep DEF RefundCall
  <2>2. CASE RetryClaimedPayouts(RefundSweeper)
    <3> DEFINE h == [RefunderIdle EXCEPT !.at = "release"]
    <3>1. h \in RefundRunning /\ RefundFits(h)
      BY <2>2, RefunderIdleFits DEF RetryClaimedPayouts, RefundRunning, RefundSteps, RefundFits, RefunderIdle
    <3> QED  BY <1>0, <2>2, <3>1, BeginStep DEF RetryClaimedPayouts
  <2> QED  BY <1>2, <2>1, <2>2 DEF Sweep
<1>3. ASSUME NEW p \in Refunders, RefundContinue(p) PROVE RefundInv'
  BY <1>3, RefundContinueStep
<1>4. ASSUME NEW p \in Refunders, RefundFails(p) PROVE RefundInv'
  <2>1. refundFailures' \in 0 .. MaxRefundFailures
    BY <1>0, <1>4, RefundAssumption DEF RefundFails, RefundRowsOK
  <2> QED  BY <1>4, <2>1, RefundDoneStep DEF RefundFails
<1>5. CASE PayoutWindowCloses
  <2>1. RefundRowsOK'
    BY <1>0, <1>5 DEF PayoutWindowCloses, RefundRowsOK, NoLiveCaseOverPayout, AcceptedClosesOrder, PaidOutIsCompleted
  <2> QED  BY <1>5, <2>1 DEF PayoutWindowCloses, RefundInv, RefundFits
<1>6. CASE DeadlinePasses
  <2>1. RefundRowsOK'
    BY <1>0, <1>6 DEF DeadlinePasses, RefundRowsOK, NoLiveCaseOverPayout, AcceptedClosesOrder, PaidOutIsCompleted
  <2> QED  BY <1>6, <2>1 DEF DeadlinePasses, RefundInv, RefundFits
<1>7. CASE UNCHANGED refundVars
  <2>1. RefundRowsOK'
    BY <1>0, <1>7 DEF refundVars, RefundRowsOK, NoLiveCaseOverPayout, AcceptedClosesOrder, PaidOutIsCompleted
  <2> QED  BY <1>7, <2>1 DEF refundVars, RefundInv, RefundFits
<1> QED  BY <1>1, <1>2, <1>3, <1>4, <1>5, <1>6, <1>7 DEF RefundNext

\* The invariant holds of every behaviour.
LEMMA RefundInvHolds == RefundSpec => []RefundInv
BY RefundInitInv, RefundNextInv, PTL DEF RefundSpec

\* However claims, verdicts, cancellations and retries read and write, the payout
\* and a live case exclude each other on the rows, an accepted case has paid the
\* buyer and closed the order, and the seller is paid only for an order that is
\* completed and stays so (ClaimPayout, SaveRefundOutcome, SaveOrder).
THEOREM CasesStaySound == RefundSpec => []CaseSound
<1>1. RefundInv => CaseSound
  BY DEF RefundInv, RefundRowsOK, CaseSound, RefundTypeOK, RefundRunning
<1> QED  BY <1>1, RefundInvHolds, PTL

\* A closed case is never reopened or rewritten by a copy read before it was closed
\* (Repo.SaveRefund and SaveRefundOutcome, guarded on the status that was read).
THEOREM ClosedCasesAreFinal == RefundSpec => ClosedCaseIsFinal
<1> DEFINE Final == refund.status \in Closed /\ refund'.id = refund.id => refund' = refund
<1>1. ASSUME RefundInv, [RefundNext]_refundVars PROVE [Final]_refundVars
  <2>0. /\ refund \in Refund
        /\ \A p \in Refunders : refunder[p] \in RefundRunning /\ RefundFits(refunder[p])
    BY <1>1 DEF RefundInv, RefundRowsOK
  <2>1. \/ refund' = refund
        \/ \E p \in RefundCallers, e \in SUBSET Photos : CreateRefund(p, e)
        \/ \E p \in Refunders : /\ SaveRefund(p) \/ SaveRefundOutcome(p)
                                /\ refund' # refund
    BY <1>1 DEF RefundNext, refundVars, RefundCall, Sweep, RefundContinue, rowsUnchanged, ReceiveOrder,
         CancelSoldOrder, WithdrawRefund, AddRefundAttachments, AcceptRefund, EscalateRefund,
         AdvanceReturnShipment, AdminResolveRefund, advanceRefund, ClaimPayout, RetryClaimedPayouts,
         SaveSoldOrder, advanceReturnLeg, settlePays, RefundEscrow, UncommitOrderStock, ReleaseEscrow,
         MarkPayoutReleased, RefundFails, PayoutWindowCloses, DeadlinePasses
  <2>2. ASSUME NEW p \in RefundCallers, NEW e \in SUBSET Photos, CreateRefund(p, e) PROVE Final
    <3>1. refund'.id = refund.id + 1 /\ refund.id \in Nat
      BY <2>0, <2>2, RefundAssumption DEF CreateRefund, NewRefund, Refund
    <3> QED  BY <3>1
  <2>3. ASSUME NEW p \in Refunders, SaveRefund(p) \/ SaveRefundOutcome(p), refund' # refund PROVE Final
    BY <2>0, <2>3 DEF SaveRefund, SaveRefundOutcome, SaveRefundLands, RefundFits
  <2> QED  BY <2>1, <2>2, <2>3
<1> QED  BY <1>1, RefundInvHolds, PTL DEF RefundSpec, ClosedCaseIsFinal
=============================================================================
