----------------------------- MODULE OrderRuns -----------------------------
(***************************************************************************)
(* The durable runs that follow one checkout and the order it becomes       *)
(* (order/workflow.go), the calls that start and signal them                *)
(* (order/adapter/durable, infra/durable), and the sweep that makes the     *)
(* same transitions on a plain interval.                                   *)
(*                                                                         *)
(* A run waits on promises and timers. A promise is set at most once, and   *)
(* a signal may reach it before the run asks. Starting and signalling are   *)
(* best-effort: the row is committed first, and a call the runtime does not *)
(* take is logged and forgotten (Service.timer). What a run does when a     *)
(* wait ends is a call of a service method that reads the row again, so the *)
(* row, not the run, decides; and whatever no run does is left to the       *)
(* sweep. With no runtime at all every start is lost (the `off` deployment).*)
(*                                                                         *)
(* The refund case is kept to what the order's run hears of it: raised, and *)
(* closed for or against the buyer (RefundPayout has its windows).          *)
(***************************************************************************)
EXTENDS Naturals, FiniteSets

CONSTANTS
    MaxLostCalls,  \* starts and signals the runtime does not take
    MaxRunCases       \* refund cases raised on the order

ASSUME RunAssumption == MaxLostCalls \in Nat /\ MaxRunCases \in Nat

VARIABLES
    checkout,   \* the session: whether it is paid for, and whether its window is over
    sale,       \* the order row
    case,       \* its refund case: how many were raised, and the status of the last
    signalled,       \* signals accepted and not yet delivered, <<name, value>>
    promise,    \* what each promise was resolved with
    checkoutRun, orderRun,   \* where each run is
    lostCalls   \* starts and signals lost so far

runVars == <<checkout, sale, case, signalled, promise, checkoutRun, orderRun, lostCalls>>

Promises == {"paid", "abandoned", "confirmed", "cancelled", "received", "refund-raised",
             "refund-resolved"}

Unresolved == "unresolved"

CheckoutPhases == {"none", "waiting", "cancel-lines", "settle", "ended"}

OrderPhases == {"none", "confirmation", "escalate", "late-confirmation", "receipt",
                "escrow", "verdict", "release", "ended"}

NoSale == [status |-> "none", confirmed |-> FALSE, received |-> FALSE, windowOver |-> FALSE,
           escalated |-> FALSE, by |-> "none"]

RunInit ==
    /\ checkout = [status |-> "unpaid", windowOver |-> FALSE]
    /\ sale = NoSale
    /\ case = [raised |-> 0, status |-> "none"]
    /\ signalled = {}
    /\ promise = [p \in Promises |-> Unresolved]
    /\ checkoutRun \in {"none", "waiting"}
    /\ orderRun = "none"
    /\ lostCalls = IF checkoutRun = "none" THEN 1 ELSE 0
    /\ lostCalls <= MaxLostCalls

-----------------------------------------------------------------------------
(* Calls into the runtime.                                                 *)

(* Signal and timer: taken, or lost and only logged.                       *)
Signal(name, value) ==
    \/ signalled' = signalled \union {<<name, value>>} /\ UNCHANGED lostCalls
    \/ lostCalls < MaxLostCalls /\ lostCalls' = lostCalls + 1 /\ UNCHANGED signalled

(* Two calls of one handler, each taken or lost: a signal and StartOrder.  *)
SignalAndStart(name) ==
    \E taken, started \in BOOLEAN :
        LET lost == (IF taken THEN 0 ELSE 1) + (IF started THEN 0 ELSE 1) IN
        /\ lostCalls + lost <= MaxLostCalls
        /\ lostCalls' = lostCalls + lost
        /\ signalled' = IF taken THEN signalled \union {<<name, "true">>} ELSE signalled
        /\ orderRun' = IF started /\ orderRun = "none" THEN "confirmation" ELSE orderRun

(* A promise keeps the first value it is given.                            *)
Deliver(s) ==
    /\ s \in signalled
    /\ signalled' = signalled \ {s}
    /\ promise' = [promise EXCEPT ![s[1]] = IF @ = Unresolved THEN s[2] ELSE @]
    /\ UNCHANGED <<checkout, sale, case, checkoutRun, orderRun, lostCalls>>

Resolved(p) == promise[p] # Unresolved

-----------------------------------------------------------------------------
(* What people do to the rows.                                             *)

SessionIsPaid ==
    /\ checkout.status = "unpaid"
    /\ checkout' = [checkout EXCEPT !.status = "paid"]
    /\ UNCHANGED <<sale, case, signalled, promise, checkoutRun, orderRun, lostCalls>>

CheckoutWindowEnds ==
    /\ ~checkout.windowOver
    /\ checkout' = [checkout EXCEPT !.windowOver = TRUE]
    /\ UNCHANGED <<sale, case, signalled, promise, checkoutRun, orderRun, lostCalls>>

(* SettlePaidSession: writes the order once, then tells both runs; a retry *)
(* tells them again.                                                       *)
SettlePaidSession ==
    /\ checkout.status \in {"paid", "settled"}
    /\ checkout' = [checkout EXCEPT !.status = "settled"]
    /\ sale' = IF sale.status = "none" THEN [sale EXCEPT !.status = "open"] ELSE sale
    /\ SignalAndStart("paid")

(* The event finance publishes reaches the subscriber.                     *)
SessionPaidArrives ==
    /\ checkout.status = "paid"
    /\ SettlePaidSession
    /\ UNCHANGED <<case, promise, checkoutRun>>

(* cancelLine: refused once finance says the session is covered; the run   *)
(* is told when nothing of the session is left.                            *)
CancelLines ==
    /\ IF checkout.status = "unpaid"
       THEN checkout' = [checkout EXCEPT !.status = "abandoned"] /\ Signal("abandoned", "true")
       ELSE UNCHANGED <<checkout, signalled, lostCalls>>

BuyerWalksAway ==
    /\ checkout.status = "unpaid" /\ CancelLines
    /\ UNCHANGED <<sale, case, promise, checkoutRun, orderRun>>

OrderConfirmed ==
    /\ sale.status = "open" /\ ~sale.confirmed
    /\ sale' = [sale EXCEPT !.confirmed = TRUE]
    /\ Signal("confirmed", "true")
    /\ UNCHANGED <<checkout, case, promise, checkoutRun, orderRun>>

(* CancelOrder and DeclineOrder, before the parcel leaves.                 *)
OrderCancelled ==
    /\ sale.status = "open" /\ ~sale.received
    /\ sale' = [sale EXCEPT !.status = "cancelled", !.by = "party"]
    /\ Signal("cancelled", "true")
    /\ UNCHANGED <<checkout, case, promise, checkoutRun, orderRun>>

ReceiptConfirmed ==
    /\ sale.status = "open" /\ sale.confirmed /\ ~sale.received
    /\ sale' = [sale EXCEPT !.received = TRUE]
    /\ Signal("received", "true")
    /\ UNCHANGED <<checkout, case, promise, checkoutRun, orderRun>>

PayoutWindowEnds ==
    /\ sale.received /\ ~sale.windowOver
    /\ sale' = [sale EXCEPT !.windowOver = TRUE]
    /\ UNCHANGED <<checkout, case, signalled, promise, checkoutRun, orderRun, lostCalls>>

(* CreateRefund: any order that is not settled, received or not.           *)
RefundRaised ==
    /\ sale.status = "open" /\ case.status # "live" /\ case.raised < MaxRunCases
    /\ case' = [raised |-> case.raised + 1, status |-> "live"]
    /\ Signal("refund-raised", "true")
    /\ UNCHANGED <<checkout, sale, promise, checkoutRun, orderRun>>

(* settleRefund closes the order with the case; a case closed the other    *)
(* way leaves it. Both tell the order's run the verdict, and only that.    *)
ResolveRefund(buyerPaid) ==
    /\ case.status = "live" /\ sale.status = "open"
    /\ case' = [case EXCEPT !.status = IF buyerPaid THEN "accepted" ELSE "closed"]
    /\ sale' = IF buyerPaid THEN [sale EXCEPT !.status = "cancelled", !.by = "refund"] ELSE sale
    /\ Signal("refund-resolved", IF buyerPaid THEN "true" ELSE "false")
    /\ UNCHANGED <<checkout, promise, checkoutRun, orderRun>>

-----------------------------------------------------------------------------
(* What a run or a sweep pass calls. Each reads the row again.             *)

(* EscalateUnconfirmedOrder: staff are asked once; nothing is cancelled.  A *)
(* sale that is settled, confirmed or escalated already is refused.        *)
Escalated(o) == IF o.status = "open" /\ ~o.confirmed THEN [o EXCEPT !.escalated = TRUE] ELSE o

(* ReleasePayout: received, past its window, not settled, no case live.    *)
PayoutDue == sale.status = "open" /\ sale.received /\ sale.windowOver /\ case.status # "live"

(* Checkout.Run: the money against the session's own window.               *)
CheckoutWakes ==
    /\ checkoutRun = "waiting"
    /\ \/ Resolved("paid") /\ checkoutRun' = "settle"
       \/ (Resolved("abandoned") \/ checkout.windowOver) /\ checkoutRun' = "cancel-lines"
    /\ UNCHANGED <<checkout, sale, case, signalled, promise, orderRun, lostCalls>>

CheckoutCancelsLines ==
    /\ checkoutRun = "cancel-lines"
    /\ CancelLines
    /\ checkoutRun' = "ended"
    /\ UNCHANGED <<sale, case, promise, orderRun>>

CheckoutSettles ==
    /\ checkoutRun = "settle"
    /\ SettlePaidSession
    /\ checkoutRun' = "ended"
    /\ UNCHANGED <<case, promise>>

(* Order.Run, phase zero: the seller, the cancellation or the window.      *)
AwaitConfirmation ==
    /\ orderRun \in {"confirmation", "late-confirmation"}
    /\ \/ Resolved("confirmed") /\ orderRun' = "receipt"
       \/ Resolved("cancelled") /\ orderRun' = "ended"
       \/ orderRun = "confirmation" /\ orderRun' = "escalate"
    /\ UNCHANGED <<checkout, sale, case, signalled, promise, checkoutRun, lostCalls>>

(* Refused, it is an error like any other: the step is retried for as long *)
(* as the row refuses it.                                                  *)
EscalateFromRun ==
    /\ orderRun = "escalate"
    /\ Escalated(sale) # sale
    /\ sale' = Escalated(sale)
    /\ orderRun' = "late-confirmation"
    /\ UNCHANGED <<checkout, case, signalled, promise, checkoutRun, lostCalls>>

(* Mutant: phase one waits for the receipt alone.                          *)
ReceiptOnly == Resolved("received") /\ orderRun' = "escrow"

(* Phase one: the receipt or the cancellation, and no clock.               *)
ReceiptOrCancelled ==
    \/ Resolved("received") /\ orderRun' = "escrow"
    \/ Resolved("cancelled") /\ orderRun' = "ended"

AwaitReceipt ==
    /\ orderRun = "receipt"
    /\ ReceiptOrCancelled
    /\ UNCHANGED <<checkout, sale, case, signalled, promise, checkoutRun, lostCalls>>

(* Phase two: the escrow window, which a refund interrupts; then its       *)
(* verdict.                                                                *)
AwaitEscrow ==
    /\ \/ orderRun = "escrow" /\ Resolved("refund-raised") /\ orderRun' = "verdict"
       \/ orderRun = "escrow" /\ sale.windowOver /\ orderRun' = "release"
       \/ orderRun = "verdict" /\ promise["refund-resolved"] = "true" /\ orderRun' = "ended"
       \/ orderRun = "verdict" /\ promise["refund-resolved"] = "false" /\ orderRun' = "release"
    /\ UNCHANGED <<checkout, sale, case, signalled, promise, checkoutRun, lostCalls>>

ReleasePayout ==
    /\ orderRun = "release"
    /\ sale' = IF PayoutDue THEN [sale EXCEPT !.status = "completed"] ELSE sale
    /\ orderRun' = "ended"
    /\ UNCHANGED <<checkout, case, signalled, promise, checkoutRun, lostCalls>>


(* The passes of the sweep that are about this sale.                       *)
SweepPasses == {"expired checkouts", "released payouts", "escalated unconfirmed orders"}

SweepPass(pass) ==
    /\ pass \in SweepPasses
    /\ CASE pass = "expired checkouts" ->
              /\ checkout.windowOver /\ checkout.status = "unpaid"
              /\ CancelLines /\ UNCHANGED sale
         [] pass = "released payouts" ->
              /\ PayoutDue
              /\ sale' = [sale EXCEPT !.status = "completed"]
              /\ UNCHANGED <<checkout, signalled, lostCalls>>
         [] pass = "escalated unconfirmed orders" ->
              /\ Escalated(sale) # sale
              /\ sale' = Escalated(sale)
              /\ UNCHANGED <<checkout, signalled, lostCalls>>
    /\ UNCHANGED <<case, promise, checkoutRun, orderRun>>

-----------------------------------------------------------------------------
RunStep == CheckoutWakes \/ CheckoutCancelsLines \/ CheckoutSettles \/ AwaitConfirmation
           \/ EscalateFromRun \/ AwaitReceipt \/ AwaitEscrow \/ ReleasePayout

RunNext ==
    \/ SessionIsPaid \/ CheckoutWindowEnds \/ SessionPaidArrives \/ BuyerWalksAway
    \/ OrderConfirmed \/ OrderCancelled \/ ReceiptConfirmed \/ PayoutWindowEnds \/ RefundRaised
    \/ \E buyerPaid \in BOOLEAN : ResolveRefund(buyerPaid)
    \/ \E s \in signalled : Deliver(s)
    \/ CheckoutWakes \/ CheckoutCancelsLines \/ CheckoutSettles \/ AwaitConfirmation
    \/ EscalateFromRun \/ AwaitReceipt \/ AwaitEscrow \/ ReleasePayout
    \/ \E pass \in {"expired checkouts", "released payouts", "escalated unconfirmed orders"} :
            SweepPass(pass)

(* The runtime delivers what it accepted and resumes what it journals, the *)
(* sweep comes round, clocks run out, and a case is decided: by its        *)
(* windows, but for the one way RefundPayout shows them stuck, or by       *)
(* staff. Nobody has to pay, confirm or receive.                           *)
RunFairness ==
    /\ WF_runVars(\E s \in signalled : Deliver(s))
    /\ WF_runVars(RunStep)
    /\ \A pass \in {"expired checkouts", "released payouts"} : WF_runVars(SweepPass(pass))
    /\ WF_runVars(PayoutWindowEnds)
    /\ WF_runVars(\E buyerPaid \in BOOLEAN : ResolveRefund(buyerPaid))

RunSpec == RunInit /\ [][RunNext]_runVars /\ RunFairness

-----------------------------------------------------------------------------
RunTypeOK ==
    /\ checkout \in [status : {"unpaid", "paid", "settled", "abandoned"}, windowOver : BOOLEAN]
    /\ sale \in [status : {"none", "open", "cancelled", "completed"}, confirmed : BOOLEAN,
                 received : BOOLEAN, windowOver : BOOLEAN, escalated : BOOLEAN,
                 by : {"none", "party", "refund"}]
    /\ case \in [raised : 0..MaxRunCases, status : {"none", "live", "accepted", "closed"}]
    /\ signalled \subseteq Promises \X {"true", "false"}
    /\ promise \in [Promises -> {Unresolved, "true", "false"}]
    /\ checkoutRun \in CheckoutPhases /\ orderRun \in OrderPhases
    /\ lostCalls \in 0..MaxLostCalls

(* However late a signal, whoever acts first: a payout is of an order that  *)
(* was received, past its window and not in dispute; an order closed for    *)
(* its buyer is one whose case was, and the other way round; an order has   *)
(* a settled checkout behind it; and a run is never ahead of the rows.      *)
RunsFollowRows ==
    /\ sale.status = "completed" =>
         sale.received /\ sale.windowOver /\ case.status \notin {"live", "accepted"}
    /\ sale.by = "refund" <=> case.status = "accepted"
    /\ sale.status # "none" <=> checkout.status = "settled"
    /\ orderRun # "none" => sale.status # "none"
    /\ orderRun \in {"receipt", "escrow", "verdict", "release"} => sale.confirmed
    /\ orderRun \in {"escrow", "verdict", "release"} => sale.received
    /\ orderRun = "verdict" => case.raised > 0

(* Nothing waits on a run. However many starts and signals were lost, a    *)
(* checkout nobody paid for in its window gives its lines up, and an order *)
(* that was received is settled, with the payout or the buyer's refund.    *)
SweepIsTheNet ==
    /\ (checkout.status = "unpaid" /\ checkout.windowOver) ~> (checkout.status # "unpaid")
    /\ (sale.status = "open" /\ sale.received) ~> (sale.status # "open")

(* The run whose escalation came too late: the seller confirmed, the order *)
(* was called off or the sweep escalated it first. None of these refusals  *)
(* is terminal to the runtime, and no row takes one back.                  *)
EscalationRefused == orderRun = "escalate" /\ Escalated(sale) = sale

(* The run of an order its buyer or seller called off does not stay parked *)
(* on a promise that will not come, whatever phase the cancellation found  *)
(* it in and in whatever order the signals arrive: it ends, unless it is   *)
(* retrying an escalation the row refuses.                                 *)
CancelledRunEnds ==
    (sale.by = "party" /\ promise["cancelled"] # Unresolved /\ orderRun # "none")
        ~> (orderRun = "ended" \/ EscalationRefused)

(* An order that is over has no run left waiting on a promise, when every  *)
(* call into the runtime was taken (workflow.go on phase one: "It does     *)
(* have an exit").                                                         *)
NoRunLeftParked ==
    (sale.status \in {"cancelled", "completed"} /\ lostCalls = 0 /\ orderRun # "none")
        ~> (orderRun = "ended" \/ EscalationRefused \/ lostCalls > 0)

=============================================================================
