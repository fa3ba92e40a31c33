--------------------------- MODULE MCRefundPayout ---------------------------
(* RefundPayout on small instances. *)
EXTENDS RefundPayout, TLC

Symmetry == Permutations(RefundCallers)
=============================================================================
