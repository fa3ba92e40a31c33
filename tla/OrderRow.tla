------------------------------ MODULE OrderRow ------------------------------
(***************************************************************************)
(* One row of the order table and what domain.Order allows on a copy of it *)
(* (order/domain/order.go).  A timestamp column is the fact that it is     *)
(* set.  Can... is a method's guard, the operator without it its result.   *)
(***************************************************************************)
OrderRow == [confirmed : BOOLEAN, escalated : BOOLEAN, declined : BOOLEAN,
             received : BOOLEAN, completed : BOOLEAN, released : BOOLEAN,
             cancelled : BOOLEAN]

NewOrder == [confirmed |-> FALSE, escalated |-> FALSE, declined |-> FALSE,
             received |-> FALSE, completed |-> FALSE, released |-> FALSE,
             cancelled |-> FALSE]

Settled(o) == o.cancelled \/ o.completed

CanConfirm(o) == ~Settled(o) /\ ~o.confirmed
Confirm(o)    == [o EXCEPT !.confirmed = TRUE]

\* The reason a decline must carry is taken as given.
CanDecline(o) == ~Settled(o) /\ ~o.confirmed
Decline(o)    == [o EXCEPT !.cancelled = TRUE, !.declined = TRUE]

CanEscalateConfirmation(o) == ~Settled(o) /\ ~o.confirmed /\ ~o.escalated
EscalateConfirmation(o)    == [o EXCEPT !.escalated = TRUE]

\* The evidence a receipt must carry is taken as given.
CanConfirmReceipt(o) == ~Settled(o) /\ o.confirmed /\ ~o.received
ConfirmReceipt(o)    == [o EXCEPT !.received = TRUE]

CanCancel(o, shipped) == ~Settled(o) /\ ~shipped
Cancel(o)             == [o EXCEPT !.cancelled = TRUE]

\* Mutant: the UPDATE without its guard.
SaveOrderAnyway(row) == row = row

\* Repo.SaveOrder writes every column of the caller's copy over the row, and
\* only while the row has no outcome.
SaveOrderLands(row) == ~Settled(row)
=============================================================================
