------------------------------ MODULE MCOrders ------------------------------
(* OrderFulfilment and RefundPayout on small instances.  The two describe one *)
(* order before and after its parcel arrived; `part` picks the one that runs, *)
(* and the other's variables rest.                                            *)
EXTENDS OrderFulfilment, RefundPayout, TLC

VARIABLE part

orderPartVars == <<part, fulfilmentVars, refundVars>>

Init ==
  /\ part \in {"fulfilment", "refund"}
  /\ FulfilmentInit
  /\ RefundInit /\ (part = "refund" \/ shipped)

Next ==
  \/ part = "fulfilment" /\ FulfilmentNext /\ UNCHANGED <<part, refundVars>>
  \/ part = "refund" /\ RefundNext /\ UNCHANGED <<part, fulfilmentVars>>

Spec == Init /\ [][Next]_orderPartVars

\* Each part's own fairness, asked of it only while it is the one that runs.
FairSpec ==
  /\ Spec
  /\ \A p \in Procs : /\ WF_fulfilmentVars(part = "fulfilment" /\ Continue(p))
                      /\ SF_fulfilmentVars(part = "fulfilment" /\ createParcel(p))
  /\ WF_fulfilmentVars(part = "fulfilment" /\ Tick)
  /\ WF_fulfilmentVars(part = "fulfilment" /\ RetryUnbookedShipments(Sweeper))
  /\ \A p \in Refunders : WF_refundVars(part = "refund" /\ RefundContinue(p))
  /\ WF_refundVars(part = "refund" /\ PayoutWindowCloses)
  /\ WF_refundVars(part = "refund" /\ DeadlinePasses)
  /\ WF_refundVars(part = "refund" /\ advanceRefund(RefundSweeper))
  /\ WF_refundVars(part = "refund" /\ ClaimPayout(RefundSweeper))
  /\ WF_refundVars(part = "refund" /\ RetryClaimedPayouts(RefundSweeper))

\* The callers of both parts and the carrier's references are interchangeable.
Symmetry == Permutations(Callers) \cup Permutations(Parcels)
=============================================================================
