---------------------------- MODULE UnitPromises ----------------------------
(***************************************************************************)
(* What the stock counters promise the checkouts: a unit is promised to    *)
(* one line, in one step and only while there is one left; a promise is    *)
(* taken back or sold, and what is sold is not taken back.                 *)
(***************************************************************************)
EXTENDS Integers, FiniteSets

CONSTANTS Lines, Quantity

VARIABLES promised, sold

\* The lines of l's variant that have a unit.
Beside(l) == {k \in promised : k[2] = l[2]}

Init == promised = {} /\ sold = {}

Promise(l) ==
  /\ l \notin promised /\ Cardinality(Beside(l)) < Quantity
  /\ promised' = promised \cup {l} /\ sold' = sold

TakeBack(S) == promised' = promised \ S /\ sold' = sold

Sell(S) == sold' = sold \cup S /\ promised' = promised

Next ==
  \/ \E S \in SUBSET (promised \ sold) : TakeBack(S) \/ Sell(S)
  \/ \E l \in Lines : Promise(l)

Spec == Init /\ [][Next]_<<promised, sold>>
=============================================================================
