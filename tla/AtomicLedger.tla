---------------------------- MODULE AtomicLedger ----------------------------
(***************************************************************************)
(* What the ledger promises its callers: a movement is one indivisible     *)
(* step.  All of its legs land at once, no balance it touches is left      *)
(* negative, and no idempotency key is ever spent twice.                   *)
(***************************************************************************)
EXTENDS Integers, Functions

CONSTANTS Wallets, Keys, Requests, LegsOf

VARIABLES balance, posted

KeysOf(r) == {l.key : l \in LegsOf[r]}

OnWallet(r, w) == {l \in LegsOf[r] : l.wallet = w}

AvailableSum(S) == SumFunction([l \in S |-> l.available])
HeldSum(S)      == SumFunction([l \in S |-> l.held])

Init ==
  /\ balance = [w \in Wallets |-> [available |-> 0, held |-> 0]]
  /\ posted  = {}

Move(r) ==
  /\ LegsOf[r] # {}
  /\ KeysOf(r) \cap posted = {}
  /\ posted' = posted \cup KeysOf(r)
  /\ balance' = [w \in Wallets |->
        [available |-> balance[w].available + AvailableSum(OnWallet(r, w)),
         held      |-> balance[w].held + HeldSum(OnWallet(r, w))]]
  /\ \A w \in Wallets : balance'[w].available >= 0 /\ balance'[w].held >= 0

Next == \E r \in Requests : Move(r)

Spec == Init /\ [][Next]_<<balance, posted>>
=============================================================================
