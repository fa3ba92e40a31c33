----------------------------- MODULE MCPurchase -----------------------------
(* PaymentSession and CheckoutSettlement on small instances: finance's side    *)
(* of one session, and the order module's side of two buyers' drafts of one    *)
(* listing.  `part` picks the one that runs, and the other's variables rest.   *)
EXTENDS PaymentSession, CheckoutSettlement, TLC

CONSTANTS d1, d2, v1, v2

VARIABLE part

purchaseVars == <<part, paymentVars, checkoutVars>>

\* Both want the first variant, one of them the second as well.
SharedVariant == {<<d1, v1>>, <<d1, v2>>, <<d2, v1>>}

Init == part \in {"payment", "checkout"} /\ PaymentInit /\ CheckoutInit

Next ==
  \/ part = "payment" /\ PaymentNext /\ UNCHANGED <<part, checkoutVars>>
  \/ part = "checkout" /\ CheckoutNext /\ UNCHANGED <<part, paymentVars>>

Spec == Init /\ [][Next]_purchaseVars

\* The callers of both parts are interchangeable.
Symmetry == Permutations(Callers)
=============================================================================
