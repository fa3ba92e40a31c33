---------------------------- MODULE MCFulfilment ----------------------------
(* OrderFulfilment on small instances. *)
EXTENDS OrderFulfilment, TLC

Symmetry == Permutations(Callers) \cup Permutations(Parcels)
=============================================================================
