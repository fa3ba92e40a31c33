------------------------------ MODULE MCLedger ------------------------------
(* Ledger on small instances: two wallets, an order whose hold, release and  *)
(* refund compete with an adjustment, a withdrawal, a top-up and the hold  *)
(* of an order the other way.                                              *)
EXTENDS Ledger, EscrowMoves

CONSTANT Trades   \* records [id, buyer, seller, amount, fee]
CONSTANT HeldOnly \* trades that are only ever paid for
CONSTANT Corrections \* records [w, available, held] of AdminAdjustWallet
CONSTANT Kinds    \* the movements asked for on each trade

MCKeys == {<<n, s>> : n \in {<<k, i>> : k \in {"session", "hold", "release", "refund", "withdrawal", "adjustment"}, i \in 1 .. 3},
                      s \in {"", "buyer", "seller", "shipping", "topup"}}

\* An order, and one its seller places with its buyer.
OneWay == {[id |-> 1, buyer |-> 1, seller |-> 2, amount |-> 1, fee |-> 0]}
TheOtherWay == {[id |-> 2, buyer |-> 2, seller |-> 1, amount |-> 1, fee |-> 1]}
OneCorrection == {[id |-> 1, w |-> 1, available |-> 2, held |-> 0]}

MCRequests == {<<k, t>> : k \in Kinds, t \in Trades}
              \cup {<<k, t>> : k \in {"topup", "hold"}, t \in HeldOnly}
              \cup {<<"adjust", c>> : c \in Corrections}
              \cup {<<"withdraw", c>> : c \in Corrections}

MCLegsOf ==
  [r \in MCRequests |->
     LET t == r[2] IN
     CASE r[1] = "topup"   -> TopupLegs(t.buyer, t.amount + t.fee, <<"session", t.id>>)
       [] r[1] = "hold"    -> HoldLegs(t.buyer, t.seller, t.amount, t.fee, <<"hold", t.id>>)
       [] r[1] = "release" -> ReleaseLegs(t.seller, t.amount, <<"release", t.id>>)
       [] r[1] = "refund"  -> RefundLegs(t.buyer, t.seller, t.amount, t.fee, <<"refund", t.id>>)
       [] r[1] = "adjust"  -> AdjustLegs(t.w, t.available, t.held, <<"adjustment", t.id>>)
       [] r[1] = "withdraw" -> WithdrawLegs(t.w, 1, <<"withdrawal", t.id>>)]
=============================================================================
