----------------------------- MODULE MCPayment -----------------------------
(* PaymentSession on small instances. *)
EXTENDS PaymentSession
============================================================================
