---------------------------- MODULE RefundPayout ----------------------------
(***************************************************************************)
(* Who gets the escrow of one confirmed order: the refund case, the payout *)
(* sweep and a cancellation competing for it (order/service_refund.go, the *)
(* second half of order/service_lifecycle.go, adapter/postgres/refund.go). *)
(*                                                                         *)
(* The escrow of an order is not a row of its own: it is part of what the  *)
(* seller's wallet holds, together with the escrow of the seller's other   *)
(* orders.  A movement of it succeeds or fails as Ledger's Move does: the  *)
(* balance is looked at before the key.                                    *)
(***************************************************************************)
EXTENDS OrderRow, Naturals, FiniteSets

CONSTANTS
  RefundCallers,      \* concurrent requests and durable runs
  RefundSweeper,      \* the sweep's one goroutine
  RefundHandlers,     \* the operations called in this instance
  Photos,       \* evidence a buyer may add
  MaxEvidence,  \* how much of it one case holds
  MaxCases,     \* how many cases the buyer opens, one after the other
  OtherHeld,    \* escrow the seller's wallet holds for other orders
  SellerFirst,  \* the seller's account sorts before the buyer's
  MaxRefundFailures   \* how many handlers are cut short by an error or a crash

Refunders == RefundCallers \cup {RefundSweeper}

AllRefundHandlers == {"receive", "cancel", "create", "withdraw", "attach", "accept",
                "advance-return", "escalate", "resolve", "advance", "payout", "retry"}

ASSUME RefundAssumption ==
  /\ RefundSweeper \notin RefundCallers
  /\ RefundHandlers \subseteq AllRefundHandlers
  /\ MaxEvidence \in Nat /\ MaxCases \in Nat /\ OtherHeld \in Nat /\ MaxRefundFailures \in Nat
  /\ SellerFirst \in BOOLEAN

VARIABLES
  soldOrder,       \* the order row
  shipped,     \* the outbound parcel has left
  windowOver,  \* the payout window after the receipt has passed
  refund,      \* the order's latest refund row
  leg,         \* the status of its return shipment
  overdue,     \* the deadline the refund carries has passed
  held,        \* what the seller's wallet holds in escrow
  paidBack,    \* the movement keyed order:N:refund is posted
  paidOut,     \* the movement keyed order:N:release is posted
  unitsBack,   \* the units are back on the shelf
  refunder,        \* the running handlers
  refundFailures

refundVars == <<soldOrder, shipped, windowOver, refund, leg, overdue, held, paidBack, paidOut,
          unitsBack, refunder, refundFailures>>

RefundStatuses == {"none", "awaiting-seller-review", "disputed", "returning", "returned",
             "accepted", "rejected", "cancelled"}
\* returned is ReturnedAt being set, hasLeg that a return shipment is attached.
Refund == [id : 0 .. MaxCases, status : RefundStatuses, returned : BOOLEAN, hasLeg : BOOLEAN,
           evidence : SUBSET Photos]
NoRefund == [id |-> 0, status |-> "none", returned |-> FALSE, hasLeg |-> FALSE,
             evidence |-> {}]

RefundSteps == {"idle", "save", "save-refund", "leg", "pay", "close",
          "refund", "stock", "release", "mark"}
\* o and r are the handler's copies, from the status its refund write is guarded on.
RefunderIdle == [op |-> "none", at |-> "idle", o |-> NewOrder, r |-> NoRefund, from |-> "none"]

RefundTypeOK ==
  /\ soldOrder \in OrderRow
  /\ shipped \in BOOLEAN /\ windowOver \in BOOLEAN /\ overdue \in BOOLEAN
  /\ refund \in Refund
  /\ leg \in {"pending", "delivered", "failed"}
  /\ held \in 0 .. OtherHeld + 1
  /\ paidBack \in BOOLEAN /\ paidOut \in BOOLEAN /\ unitsBack \in BOOLEAN
  /\ refunder \in [Refunders -> [op : AllRefundHandlers \cup {"none"}, at : RefundSteps, o : OrderRow,
                         r : Refund, from : RefundStatuses]]
  /\ refundFailures \in 0 .. MaxRefundFailures

\* The seller has accepted the sale; the parcel may or may not have left.
RefundInit ==
  /\ soldOrder = Confirm(NewOrder)
  /\ shipped \in BOOLEAN
  /\ windowOver = FALSE /\ overdue = FALSE
  /\ refund = NoRefund
  /\ leg = "pending"
  /\ held = OtherHeld + 1
  /\ paidBack = FALSE /\ paidOut = FALSE /\ unitsBack = FALSE
  /\ refunder = [p \in Refunders |-> RefunderIdle]
  /\ refundFailures = 0

-----------------------------------------------------------------------------
(* domain.Refund and its repository writes *)

Closed == {"accepted", "rejected", "cancelled"}

\* Statuses that carry a deadline.
Timed == {"awaiting-seller-review", "returned"}

\* One active case per order: refund_one_active_per_order.
Active(r) == r.status \notin Closed \cup {"none"}

\* A refund that still has a claim on the escrow (liveRefund).
Live(r) == r.status \notin {"none", "rejected", "cancelled"}

NewRefund(id, evidence) ==
  [id |-> id, status |-> "awaiting-seller-review", returned |-> FALSE, hasLeg |-> FALSE,
   evidence |-> evidence]

MoveTo(r, status) == [r EXCEPT !.status = status]

\* Resolve: before the goods came back a winning buyer is granted the return,
\* after it the money.
Resolve(r, buyerWins) ==
  IF ~buyerWins THEN MoveTo(r, "rejected")
  ELSE IF r.returned THEN MoveTo(r, "accepted")
  ELSE [r EXCEPT !.status = "returning", !.hasLeg = TRUE]

\* InsertRefund, under the order's advisory lock.
InsertRefundLands == ~Settled(soldOrder) /\ ~Active(refund)

\* Mutant: the claim without the question about refunds.
ClaimPayoutBlind == ~Settled(soldOrder) /\ soldOrder.received

\* ClaimPayout, under the same lock.
ClaimPayoutLands == ~Settled(soldOrder) /\ soldOrder.received /\ ~Live(refund)

\* Mutant: the refund's UPDATE without its guard.
SaveRefundAnyway(r, from) == refund.id = r.id

\* SaveRefund lands only on the status the copy was moved out of.
SaveRefundLands(r, from) == refund.id = r.id /\ refund.status = from

\* The write itself: a newly attached shipment starts pending, a status with a
\* deadline starts a fresh one.
WriteRefund(r) ==
  /\ refund' = r
  /\ leg' = IF r.hasLeg /\ ~refund.hasLeg THEN "pending" ELSE leg
  /\ overdue' = (overdue /\ r.status = refund.status)

-----------------------------------------------------------------------------
(* Steps of a handler *)

BeginRefund(p, op, h) ==
  /\ op \in RefundHandlers
  /\ refunder[p] = RefunderIdle
  /\ refunder' = [refunder EXCEPT ![p] = [h EXCEPT !.op = op]]

RefundGoto(p, step) == refunder' = [refunder EXCEPT ![p].at = step]

RefundDone(p) == refunder' = [refunder EXCEPT ![p] = RefunderIdle]

\* A copy of the case, decided on, on its way to SaveRefund.
SavingRefund(r) == [RefunderIdle EXCEPT !.at = "save-refund", !.r = r, !.from = refund.status]

rowsUnchanged == UNCHANGED <<soldOrder, shipped, windowOver, refund, leg, overdue, held,
                             paidBack, paidOut, unitsBack, refundFailures>>

\* The buyer says the goods arrived.
ReceiveOrder(p) ==
  /\ CanConfirmReceipt(soldOrder)
  /\ BeginRefund(p, "receive", [RefunderIdle EXCEPT !.at = "save", !.o = ConfirmReceipt(soldOrder)])
  /\ rowsUnchanged

\* CancelOrder reads the order and the shipment, and asks about no refund.
CancelSoldOrder(p) ==
  /\ CanCancel(soldOrder, shipped)
  /\ BeginRefund(p, "cancel", [RefunderIdle EXCEPT !.at = "save", !.o = Cancel(soldOrder)])
  /\ rowsUnchanged

SaveSoldOrder(p) ==
  /\ refunder[p].at = "save"
  /\ IF SaveOrderLands(soldOrder)
       THEN /\ soldOrder' = refunder[p].o
            /\ IF refunder[p].op = "cancel"
                 THEN refunder' = [refunder EXCEPT ![p] = [RefunderIdle EXCEPT !.op = "cancel", !.at = "refund"]]
                 ELSE RefundDone(p)
       ELSE UNCHANGED soldOrder /\ RefundDone(p)
  /\ UNCHANGED <<shipped, windowOver, refund, leg, overdue, held, paidBack, paidOut,
                 unitsBack, refundFailures>>

\* CreateRefund decides nothing that InsertRefund does not decide again.
CreateRefund(p, evidence) ==
  /\ "create" \in RefundHandlers
  /\ refunder[p] = RefunderIdle
  /\ Cardinality(evidence) <= MaxEvidence
  /\ refund.id < MaxCases
  /\ InsertRefundLands
  /\ refund' = NewRefund(refund.id + 1, evidence)
  /\ overdue' = FALSE
  /\ UNCHANGED <<soldOrder, shipped, windowOver, leg, held, paidBack, paidOut, unitsBack,
                 refunder, refundFailures>>

WithdrawRefund(p) ==
  /\ refund.status = "awaiting-seller-review"
  /\ BeginRefund(p, "withdraw", SavingRefund(MoveTo(refund, "cancelled")))
  /\ rowsUnchanged

AddRefundAttachments(p, photo) ==
  /\ Active(refund)
  /\ Cardinality(refund.evidence \cup {photo}) <= MaxEvidence
  /\ BeginRefund(p, "attach", SavingRefund([refund EXCEPT !.evidence = @ \cup {photo}]))
  /\ rowsUnchanged

\* The seller grants it: the return shipment is opened with the same write.
AcceptRefund(p) ==
  /\ ~Settled(soldOrder)
  /\ refund.status = "awaiting-seller-review"
  /\ BeginRefund(p, "accept", SavingRefund([refund EXCEPT !.status = "returning", !.hasLeg = TRUE]))
  /\ rowsUnchanged

\* The seller hands the case to staff, from either of their windows.
EscalateRefund(p) ==
  /\ ~Settled(soldOrder)
  /\ refund.status \in {"awaiting-seller-review", "returned"}
  /\ BeginRefund(p, "escalate", SavingRefund(MoveTo(refund, "disputed")))
  /\ rowsUnchanged

\* A party reports on the return shipment; "failed" stands for every end but
\* delivery.  The leg is written first, on its own status, the case after it.
AdvanceReturnShipment(p, byBuyer, status) ==
  /\ ~Settled(soldOrder)
  /\ refund.hasLeg
  /\ LET moved == IF byBuyer THEN MoveTo(refund, "disputed") ELSE MoveTo(refund, "returned")
     IN  BeginRefund(p, "advance-return",
               [RefunderIdle EXCEPT !.at = "leg", !.from = refund.status,
                  !.r = IF status = "delivered" THEN [moved EXCEPT !.returned = TRUE] ELSE refund])
  /\ rowsUnchanged

\* advanceLeg, then MarkReturned or ClaimReturned on the copy read before it.
\* The leg of an earlier case has always ended.
advanceReturnLeg(p) ==
  /\ refunder[p].at = "leg"
  /\ LET delivered == refunder[p].r.returned
     IN  IF leg # "pending" \/ refunder[p].r.id # refund.id THEN UNCHANGED leg /\ RefundDone(p)
         ELSE /\ leg' = IF delivered THEN "delivered" ELSE "failed"
              /\ IF delivered /\ refunder[p].from = "returning" THEN RefundGoto(p, "save-refund") ELSE RefundDone(p)
  /\ UNCHANGED <<soldOrder, shipped, windowOver, refund, overdue, held, paidBack, paidOut,
                 unitsBack, refundFailures>>

SaveRefund(p) ==
  /\ refunder[p].at = "save-refund"
  /\ IF SaveRefundLands(refunder[p].r, refunder[p].from)
       THEN WriteRefund(refunder[p].r) ELSE UNCHANGED <<refund, leg, overdue>>
  /\ RefundDone(p)
  /\ UNCHANGED <<soldOrder, shipped, windowOver, held, paidBack, paidOut, unitsBack, refundFailures>>

\* The verdict.  A grant of the money goes through settleRefund; the other two
\* are one guarded write.
AdminResolveRefund(p, buyerWins) ==
  LET r == Resolve(refund, buyerWins)
  IN  /\ refund.status = "disputed"
      /\ ~Settled(soldOrder)
      /\ BeginRefund(p, "resolve",
               [RefunderIdle EXCEPT !.at = IF r.status = "accepted" THEN "pay" ELSE "save-refund",
                            !.r = r, !.o = soldOrder, !.from = "disputed"])
      /\ rowsUnchanged

\* Mutants: a return settled like any other move, without the money; and a
\* pass that looks at the first of the two windows only.
advanceUnpaid(p) ==
  /\ refund.status \in Timed /\ overdue
  /\ ~Settled(soldOrder)
  /\ BeginRefund(p, "advance",
           SavingRefund(MoveTo(refund, IF refund.status = "returned" THEN "accepted" ELSE "disputed")))
  /\ rowsUnchanged

\* A window that ran out, found by the sweep or by the run that waited for it.
advanceRefund(p) ==
  /\ refund.status \in Timed /\ overdue
  /\ ~Settled(soldOrder)
  /\ BeginRefund(p, "advance",
           IF refund.status = "returned"
             THEN [RefunderIdle EXCEPT !.at = "pay", !.r = MoveTo(refund, "accepted"), !.o = soldOrder,
                               !.from = "returned"]
             ELSE SavingRefund(MoveTo(refund, "disputed")))
  /\ rowsUnchanged

-----------------------------------------------------------------------------
(* The money *)

\* RefundEscrow refuses when the seller's wallet holds too little, unless the
\* buyer's leg is tried first and already loses to its key.
RefundRefused == held = 0 /\ (SellerFirst \/ ~paidBack)

postRefund ==
  IF paidBack THEN UNCHANGED <<held, paidBack>>
  ELSE held' = held - 1 /\ paidBack' = TRUE

\* settleRefund moves the money first ...
settlePays(p) ==
  /\ refunder[p].at = "pay"
  /\ IF RefundRefused THEN RefundDone(p) /\ UNCHANGED <<held, paidBack>>
     ELSE postRefund /\ RefundGoto(p, "close")
  /\ UNCHANGED <<soldOrder, shipped, windowOver, refund, leg, overdue, paidOut, unitsBack, refundFailures>>

\* ... and then writes the case and the order in one transaction.
SaveRefundOutcome(p) ==
  /\ refunder[p].at = "close"
  /\ IF SaveRefundLands(refunder[p].r, refunder[p].from) /\ SaveOrderLands(soldOrder)
       THEN /\ WriteRefund(refunder[p].r)
            /\ soldOrder' = Cancel(refunder[p].o)
            /\ refunder' = [refunder EXCEPT ![p] = [RefunderIdle EXCEPT !.op = refunder[p].op, !.at = "stock"]]
       ELSE UNCHANGED <<soldOrder, refund, leg, overdue>> /\ RefundDone(p)
  /\ UNCHANGED <<shipped, windowOver, held, paidBack, paidOut, unitsBack, refundFailures>>

\* CancelOrder's refund, after its row is written.
RefundEscrow(p) ==
  /\ refunder[p].at = "refund"
  /\ IF RefundRefused THEN RefundDone(p) /\ UNCHANGED <<held, paidBack>>
     ELSE postRefund /\ RefundGoto(p, "stock")
  /\ UNCHANGED <<soldOrder, shipped, windowOver, refund, leg, overdue, paidOut, unitsBack, refundFailures>>

UncommitOrderStock(p) ==
  /\ refunder[p].at = "stock"
  /\ unitsBack' = TRUE
  /\ RefundDone(p)
  /\ UNCHANGED <<soldOrder, shipped, windowOver, refund, leg, overdue, held, paidBack, paidOut,
                 refundFailures>>

\* releasePayout, from the sweep's list or the order's own run: the claim asks
\* again whatever the list asked.
ClaimPayout(p) ==
  /\ windowOver
  /\ ClaimPayoutLands
  /\ soldOrder' = [soldOrder EXCEPT !.completed = TRUE]
  /\ BeginRefund(p, "payout", [RefunderIdle EXCEPT !.at = "release"])
  /\ UNCHANGED <<shipped, windowOver, refund, leg, overdue, held, paidBack, paidOut, unitsBack,
                 refundFailures>>

\* Mutant: the list of the orders that were paid.
RetryReleasedPayouts(p) ==
  /\ soldOrder.completed /\ soldOrder.released /\ ~soldOrder.cancelled
  /\ BeginRefund(p, "retry", [RefunderIdle EXCEPT !.at = "release"])
  /\ rowsUnchanged

\* The orders whose outcome is written and whose money never moved.
RetryClaimedPayouts(p) ==
  /\ soldOrder.completed /\ ~soldOrder.released /\ ~soldOrder.cancelled
  /\ BeginRefund(p, "retry", [RefunderIdle EXCEPT !.at = "release"])
  /\ rowsUnchanged

\* Mutant: a release under no key, from a balance nobody checks.
ReleaseUnkeyed(p) ==
  /\ refunder[p].at = "release"
  /\ held' = held - 1 /\ paidOut' = TRUE
  /\ RefundGoto(p, "mark")
  /\ UNCHANGED <<soldOrder, shipped, windowOver, refund, leg, overdue, paidBack, unitsBack, refundFailures>>

\* One leg on the seller's wallet: an empty hold is refused before the key is seen.
ReleaseEscrow(p) ==
  /\ refunder[p].at = "release"
  /\ IF held = 0 THEN RefundDone(p) /\ UNCHANGED <<held, paidOut>>
     ELSE /\ IF paidOut THEN UNCHANGED <<held, paidOut>>
             ELSE held' = held - 1 /\ paidOut' = TRUE
          /\ RefundGoto(p, "mark")
  /\ UNCHANGED <<soldOrder, shipped, windowOver, refund, leg, overdue, paidBack, unitsBack, refundFailures>>

MarkPayoutReleased(p) ==
  /\ refunder[p].at = "mark"
  /\ soldOrder' = [soldOrder EXCEPT !.released = TRUE]
  /\ RefundDone(p)
  /\ UNCHANGED <<shipped, windowOver, refund, leg, overdue, held, paidBack, paidOut, unitsBack,
                 refundFailures>>

-----------------------------------------------------------------------------
(* The environment and the specification *)

\* A call returns an error or the process dies; what is written stays written.
RefundFails(p) ==
  /\ refunder[p] # RefunderIdle
  /\ refundFailures < MaxRefundFailures
  /\ refundFailures' = refundFailures + 1
  /\ RefundDone(p)
  /\ UNCHANGED <<soldOrder, shipped, windowOver, refund, leg, overdue, held, paidBack, paidOut,
                 unitsBack>>

PayoutWindowCloses ==
  /\ soldOrder.received /\ ~windowOver
  /\ windowOver' = TRUE
  /\ UNCHANGED <<soldOrder, shipped, refund, leg, overdue, held, paidBack, paidOut, unitsBack,
                 refunder, refundFailures>>

DeadlinePasses ==
  /\ refund.status \in Timed /\ ~overdue
  /\ overdue' = TRUE
  /\ UNCHANGED <<soldOrder, shipped, windowOver, refund, leg, held, paidBack, paidOut, unitsBack,
                 refunder, refundFailures>>

RefundContinue(p) ==
  \/ SaveSoldOrder(p) \/ SaveRefund(p) \/ advanceReturnLeg(p)
  \/ settlePays(p) \/ SaveRefundOutcome(p) \/ RefundEscrow(p) \/ UncommitOrderStock(p)
  \/ ReleaseEscrow(p) \/ MarkPayoutReleased(p)

RefundCall(p) ==
  \/ ReceiveOrder(p) \/ CancelSoldOrder(p)
  \/ \E e \in SUBSET Photos : CreateRefund(p, e)
  \/ \E x \in Photos : AddRefundAttachments(p, x)
  \/ WithdrawRefund(p) \/ AcceptRefund(p) \/ EscalateRefund(p)
  \/ \E byBuyer \in BOOLEAN, s \in {"delivered", "failed"} : AdvanceReturnShipment(p, byBuyer, s)
  \/ \E buyerWins \in BOOLEAN : AdminResolveRefund(p, buyerWins)
  \/ advanceRefund(p) \/ ClaimPayout(p)

Sweep == advanceRefund(RefundSweeper) \/ ClaimPayout(RefundSweeper) \/ RetryClaimedPayouts(RefundSweeper)

RefundNext ==
  \/ \E p \in RefundCallers : RefundCall(p)
  \/ Sweep
  \/ \E p \in Refunders : RefundContinue(p) \/ RefundFails(p)
  \/ PayoutWindowCloses \/ DeadlinePasses

RefundSpec == RefundInit /\ [][RefundNext]_refundVars

\* Running handlers run on, time passes and the sweep makes its passes.
\* No party, and no moderator, is obliged to act.  A pass over the overdue cases
\* stops at the first one that errors; it is assumed to reach this one, as the
\* case's own run does, which is retried on its own.
RefundFairness ==
  /\ \A p \in Refunders : WF_refundVars(RefundContinue(p))
  /\ WF_refundVars(PayoutWindowCloses) /\ WF_refundVars(DeadlinePasses)
  /\ WF_refundVars(advanceRefund(RefundSweeper))
  /\ WF_refundVars(ClaimPayout(RefundSweeper))
  /\ WF_refundVars(RetryClaimedPayouts(RefundSweeper))

RefundFairSpec == RefundSpec /\ RefundFairness

-----------------------------------------------------------------------------
(* Properties *)

\* The payout sweep and the buyer cannot both win the order: while the seller
\* has its payout, no case with a claim on the escrow is open or granted
\* (ClaimPayout and InsertRefund decide under one advisory lock).
NoLiveCaseOverPayout == soldOrder.completed => ~Live(refund)

\* An accepted case has paid the buyer and has closed the order with itself,
\* so no sweep can read the order as due (settleRefund: the money first, then
\* both rows in one transaction).
AcceptedClosesOrder == refund.status = "accepted" => soldOrder.cancelled /\ paidBack

\* The seller is paid only for an order it was claimed for, and that claim is
\* never undone by a cancellation or a refund whose handler read the order
\* before it.
PaidOutIsCompleted == paidOut \/ soldOrder.released => soldOrder.completed /\ ~soldOrder.cancelled

\* A closed case is the record a verdict was reached on: whatever copies other
\* handlers still carry, it is never reopened or rewritten
\* (Repo.SaveRefund lands only on the status it was read in).
ClosedCaseIsFinal ==
  [][refund.status \in Closed /\ refund'.id = refund.id => refund' = refund]_refundVars

\* The payout and the refund of one order exclude each other on the rows, in
\* whichever order claims, verdicts and cancellations read and write them.
CaseSound ==
  /\ RefundTypeOK
  /\ NoLiveCaseOverPayout /\ AcceptedClosesOrder /\ PaidOutIsCompleted

\* The escrow is not forgotten: after the receipt it reaches the seller, unless
\* the order is cancelled, a case stands against it or the buyer already has it
\* (ReleaseDuePayouts, and RetryClaimedPayouts after a failure).  A buyer paid by
\* a settlement that was cut short, whose case then closes for the seller, keeps
\* the money of a payout that is refused for good.
PayoutArrives ==
  <>[](soldOrder.received => paidOut \/ paidBack \/ soldOrder.cancelled \/ Live(refund))

\* The buyer's money went back, and the settlement can neither repeat nor skip the
\* movement: the seller's wallet is empty, and its balance is looked at first.
SettlementStuck == refund.status = "returned" /\ paidBack /\ RefundRefused


\* One escrow pays one party: never the "money paid to both parties" of
\* order/service_refund.go:300.
NotPaidTwice == ~(paidBack /\ paidOut)
=============================================================================
