----------------------------- MODULE EscrowMoves -----------------------------
(***************************************************************************)
(* The movements the finance service asks the ledger for, as legs:         *)
(* finance/service_wallet.go, service_session.go (creditRail) and          *)
(* service_withdrawal.go.  An idempotency key is the pair of what the      *)
(* caller passes and the suffix the service adds.                          *)
(***************************************************************************)
EXTENDS Integers

leg(w, pos, key, avail, heldDelta) ==
  [wallet |-> w, pos |-> pos, key |-> key, available |-> avail, held |-> heldDelta]

\* The third leg of a hold or a refund, present only when a fee is given.
FeeLeg(w, key, delta) ==
  IF delta = 0 THEN {} ELSE {leg(w, 3, <<key, "shipping">>, delta, 0)}

\* creditRail: the collected rail money becomes the buyer's balance.
TopupLegs(buyer, total, key) == {leg(buyer, 1, <<key, "topup">>, total, 0)}

HoldLegs(buyer, seller, amount, fee, key) ==
  { leg(buyer, 1, <<key, "buyer">>, -amount, 0),
    leg(seller, 2, <<key, "seller">>, 0, amount) }
  \cup FeeLeg(buyer, key, -fee)

ReleaseLegs(seller, amount, key) == {leg(seller, 1, <<key, "">>, amount, -amount)}

RefundLegs(buyer, seller, amount, fee, key) ==
  { leg(seller, 1, <<key, "seller">>, 0, -amount),
    leg(buyer, 2, <<key, "buyer">>, amount, 0) }
  \cup FeeLeg(buyer, key, fee)

\* AdminAdjustWallet: one leg, either balance, either sign.
AdjustLegs(w, availDelta, heldDelta, key) == {leg(w, 1, <<key, "">>, availDelta, heldDelta)}

\* CreateWithdrawal's debit; returnWithdrawal books its mirror under <<key, "return">>.
WithdrawLegs(w, amount, key) == {leg(w, 1, <<key, "">>, -amount, 0)}
=============================================================================
