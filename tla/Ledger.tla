------------------------------- MODULE Ledger -------------------------------
(***************************************************************************)
(* The wallet ledger of the finance module: balances, the append-only      *)
(* movement rows, and the one write that touches a balance,                *)
(* Repo.Move (finance/adapter/postgres/wallet.go).                         *)
(*                                                                         *)
(* A Move is one database transaction over several legs.  It is modelled   *)
(* at the grain at which two of them interleave: taking a row lock,        *)
(* posting one leg under that lock, and committing or rolling back.        *)
(* A wallet is one (account, currency) pair; its number is its rank in     *)
(* the order the legs are sorted by.                                       *)
(***************************************************************************)
EXTENDS Integers, FiniteSets, FiniteSetsExt

CONSTANTS
  Wallets,    \* wallet numbers, in lock order
  Keys,       \* idempotency keys
  Requests,   \* the movements callers ask for
  LegsOf,     \* the legs of each request
  Workers,    \* concurrent database transactions
  None        \* no worker, no request

\* pos is the leg's place in the caller's slice; available and held are the
\* signed deltas of a domain.Transfer.
Leg == [wallet : Wallets, pos : Nat, key : Keys, available : Int, held : Int]

ASSUME WalletsAssumption  ==
  Wallets \subseteq Nat /\ \E n \in Wallets \cup {0} : \A w \in Wallets : w <= n
ASSUME NoneAssumption     == None \notin Workers /\ None \notin Requests
ASSUME LegsAssumption     == LegsOf \in [Requests -> SUBSET Leg]
\* The legs of a call are a slice.
ASSUME LegsFinite         == \A r \in Requests : IsFiniteSet(LegsOf[r])
\* Two legs of one call differ in place and in key, and a key is always used
\* on the same wallet ("order:7:hold:buyer" is the buyer's).
ASSUME LegsDistinct ==
  \A r \in Requests : \A l, m \in LegsOf[r] :
     (l.pos = m.pos \/ l.key = m.key) => l = m
ASSUME KeyOneWallet ==
  \A r, s \in Requests : \A l \in LegsOf[r], m \in LegsOf[s] :
     l.key = m.key => l.wallet = m.wallet

VARIABLES
  wallet,   \* committed balances
  rows,     \* committed wallet_transaction rows
  lock,     \* which transaction holds each wallet row FOR UPDATE
  tx,       \* the transaction each worker is in
  answer    \* what its last Move returned

vars == <<wallet, rows, lock, tx, answer>>

Balance == [available : Int, held : Int]
Zero    == [available |-> 0, held |-> 0]

Row == [wallet : Wallets, seq : Nat \ {0}, key : Keys, group : Requests,
        available : Int, held : Int, after : Balance]

\* A transaction that has done nothing yet, and a worker that is in none.
Opened(r, legs) ==
  [req |-> r, todo |-> legs, saved |-> [w \in Wallets |-> Zero], rows |-> {}]
Idle == Opened(None, {})

\* Transaction t once it has read, or saved, balance b in wallet w.
SetSaved(t, w, b) ==
  [req |-> t.req, todo |-> t.todo, saved |-> [t.saved EXCEPT ![w] = b], rows |-> t.rows]

Answers == {"none", "posted", "already-posted", "insufficient", "empty", "failed"}

TypeOK ==
  /\ wallet \in [Wallets -> Balance]
  /\ rows \subseteq Row
  /\ lock \in [Wallets -> Workers \cup {None}]
  /\ tx \in [Workers -> [req   : Requests \cup {None},
                         todo  : SUBSET Leg,
                         saved : [Wallets -> Balance],
                         rows  : SUBSET Row]]
  /\ answer \in [Workers -> Answers]

Init ==
  /\ wallet = [w \in Wallets |-> Zero]
  /\ rows   = {}
  /\ lock   = [w \in Wallets |-> None]
  /\ tx     = [k \in Workers |-> Idle]
  /\ answer = [k \in Workers |-> "none"]

-----------------------------------------------------------------------------
(* Helpers *)

\* Mutant: the legs in the caller's order.
BeforeUnsorted(l, m) == l.pos <= m.pos

\* The stable sort of the legs by wallet, as the choice of the next one.
Before(l, m) == l.wallet < m.wallet \/ (l.wallet = m.wallet /\ l.pos <= m.pos)

IsNext(l, todo) == l \in todo /\ \A m \in todo : Before(l, m)

Journal(w, R) == {r \in R : r.wallet = w}

SeqsOf(w, R) == {r.seq : r \in Journal(w, R)}

\* Mutant: a journal numbered from zero.
nextSeqFromZero(w, R) == IF SeqsOf(w, R) = {} THEN 0 ELSE Max(SeqsOf(w, R)) + 1

\* COALESCE(MAX(seq), 0) + 1
nextSeq(w, R) == IF SeqsOf(w, R) = {} THEN 1 ELSE Max(SeqsOf(w, R)) + 1

\* domain.Wallet.Apply: the balances a leg leaves behind.
Applied(b, l) == [available |-> b.available + l.available, held |-> b.held + l.held]

\* Mutant: only the spendable half is looked at.
ApplyErrorAvailable(b, l) ==
  IF l.available = 0 /\ l.held = 0 THEN "empty"
  ELSE IF Applied(b, l).available < 0 THEN "insufficient"
  ELSE "none"

\* ... and the error it answers instead, "none" when the leg is legal.
ApplyError(b, l) ==
  IF l.available = 0 /\ l.held = 0 THEN "empty"
  ELSE IF Applied(b, l).available < 0 \/ Applied(b, l).held < 0 THEN "insufficient"
  ELSE "none"

\* The ledger row Apply returns for it, numbered after the rows R it sees.
Movement(req, l, b, R) ==
  [wallet |-> l.wallet, seq |-> nextSeq(l.wallet, R), key |-> l.key, group |-> req,
   available |-> l.available, held |-> l.held, after |-> Applied(b, l)]

\* Mutant: no unique index.
KeyNeverTaken(key, R) == FALSE

\* The unique index on idempotency_key, over the rows this transaction sees.
KeyTaken(key, R) == \E r \in R : r.key = key

\* Mutant: a pooled connection goes back with its locks.
EndTxKeepsLocks(k, ans) ==
  /\ lock'   = lock
  /\ tx'     = [tx EXCEPT ![k] = Idle]
  /\ answer' = [answer EXCEPT ![k] = ans]

\* The end of a transaction: its locks go, the caller gets its answer.
EndTx(k, ans) ==
  /\ lock'   = [w \in Wallets |-> IF lock[w] = k THEN None ELSE lock[w]]
  /\ tx'     = [tx EXCEPT ![k] = Idle]
  /\ answer' = [answer EXCEPT ![k] = ans]

-----------------------------------------------------------------------------
(* Actions *)

\* Move is called and its transaction opens.  No legs is an early return.
Begin(k, r) ==
  /\ tx[k].req = None
  /\ LegsOf[r] # {}
  /\ tx' = [tx EXCEPT ![k] = Opened(r, LegsOf[r])]
  /\ answer' = [answer EXCEPT ![k] = "none"]
  /\ UNCHANGED <<wallet, rows, lock>>

\* Mutant: a SELECT without FOR UPDATE waits for nobody.
lockWalletNoWait(k) ==
  /\ tx[k].req # None
  /\ \E l \in tx[k].todo :
       /\ IsNext(l, tx[k].todo)
       /\ lock[l.wallet] # k
       /\ lock' = [lock EXCEPT ![l.wallet] = k]
       /\ tx' = [tx EXCEPT ![k] = SetSaved(tx[k], l.wallet, wallet[l.wallet])]
  /\ UNCHANGED <<wallet, rows, answer>>

\* lockWallet: SELECT ... FOR UPDATE waits until the row is free and then
\* reads what is committed.  A wallet nobody opened yet stands at zero.
lockWallet(k) ==
  /\ tx[k].req # None
  /\ \E l \in tx[k].todo :
       /\ IsNext(l, tx[k].todo)
       /\ lock[l.wallet] = None
       /\ lock' = [lock EXCEPT ![l.wallet] = k]
       /\ tx' = [tx EXCEPT ![k] = SetSaved(tx[k], l.wallet, wallet[l.wallet])]
  /\ UNCHANGED <<wallet, rows, answer>>

\* One turn of the loop under the lock: Apply, then insertMovement, then
\* saveBalances.  The balance is checked before the key.
PostLeg(k, l) ==
  LET t   == tx[k]
      bal == t.saved[l.wallet]
  IN  /\ ApplyError(bal, l) = "none"
      /\ ~KeyTaken(l.key, rows \cup t.rows)
      /\ tx' = [tx EXCEPT ![k] =
            [req   |-> t.req,
             todo  |-> t.todo \ {l},
             saved |-> [t.saved EXCEPT ![l.wallet] = Applied(bal, l)],
             rows  |-> t.rows \cup {Movement(t.req, l, bal, rows \cup t.rows)}]]
      /\ UNCHANGED <<wallet, rows, lock, answer>>

\* Any error of a leg aborts the whole transaction.
RefuseLeg(k, l) ==
  LET err == ApplyError(tx[k].saved[l.wallet], l)
  IN  /\ \/ err # "none" /\ EndTx(k, err)
         \/ /\ err = "none" /\ KeyTaken(l.key, rows \cup tx[k].rows)
            /\ EndTx(k, "already-posted")
      /\ UNCHANGED <<wallet, rows>>

moveLeg(k) ==
  /\ tx[k].req # None
  /\ \E l \in tx[k].todo :
       /\ IsNext(l, tx[k].todo)
       /\ lock[l.wallet] = k
       /\ PostLeg(k, l) \/ RefuseLeg(k, l)

\* Mutant: each leg in a transaction of its own.
CommitEarly(k) ==
  /\ tx[k].rows # {}
  /\ rows' = rows \cup tx[k].rows
  /\ wallet' = [w \in Wallets |-> IF lock[w] = k THEN tx[k].saved[w] ELSE wallet[w]]
  /\ EndTx(k, "posted")

\* Every leg landed: the rows and the balances become visible at once.
Commit(k) ==
  /\ tx[k].req # None
  /\ tx[k].todo = {}
  /\ rows' = rows \cup tx[k].rows
  /\ wallet' = [w \in Wallets |-> IF lock[w] = k THEN tx[k].saved[w] ELSE wallet[w]]
  /\ EndTx(k, "posted")

\* The process dies, the context is cancelled or the database fails under
\* the transaction: it is rolled back.
Rollback(k) ==
  /\ tx[k].req # None
  /\ EndTx(k, "failed")
  /\ UNCHANGED <<wallet, rows>>

Next ==
  \E k \in Workers :
     \/ \E r \in Requests : Begin(k, r)
     \/ lockWallet(k)
     \/ moveLeg(k)
     \/ Commit(k)
     \/ Rollback(k)

Spec == Init /\ [][Next]_vars

\* A transaction that is running keeps running, and the database serves
\* waiters on a row in turn.  Nobody is obliged to start or to fail.
Fairness ==
  \A k \in Workers :
     WF_vars(moveLeg(k)) /\ WF_vars(Commit(k)) /\ SF_vars(lockWallet(k))

FairSpec == Spec /\ Fairness

-----------------------------------------------------------------------------
(* Properties *)

\* Row n of wallet w's journal carries the balance row n-1 left plus its own
\* deltas, no number is missing or used twice, and the last row is balance b.
Replays(w, R, b) ==
  LET J == Journal(w, R)
  IN  /\ J = {} => b = Zero
      /\ J # {} => \E r \in J : r.after = b /\ \A q \in J : q.seq <= r.seq
      /\ \A r, q \in J : r.seq = q.seq => r = q
      /\ \A r \in J : \/ r.seq = 1 /\ r.after = Applied(Zero, r)
                      \/ \E q \in J : /\ r.seq = q.seq + 1
                                      /\ r.after = Applied(q.after, r)

\* No lost update: however Moves interleave, replaying a wallet's committed
\* movement rows in seq order gives exactly the balance the wallet shows
\* (domain.Movement: "a gap or a repeat is not a state that can be written").
JournalReplays == \A w \in Wallets : Replays(w, rows, wallet[w])

\* No wallet is ever overdrawn, neither its spendable nor its escrowed half,
\* not even inside a row of the journal.
NeverOverdrawn ==
  /\ \A w \in Wallets : wallet[w].available >= 0 /\ wallet[w].held >= 0
  /\ \A r \in rows : r.after.available >= 0 /\ r.after.held >= 0

\* One key, one row: a movement retried by another worker is not booked twice.
PostedOnce == \A r, q \in rows : r.key = q.key => r = q

\* The halves of a movement are one fact: if any leg of a call is in the
\* ledger then every leg of that call is.
AllLegsOrNone ==
  \A r \in rows : \A l \in LegsOf[r.group] :
     \E q \in rows : q.group = r.group /\ q.key = l.key

\* A movement is in the ledger once and whole, whoever retries it and wherever
\* a transaction of it stops (Move in wallet.go and the unique keys of its rows).
WholeAndOnce == PostedOnce /\ AllLegsOrNone

\* Worker k is waiting for a wallet worker j holds.
WaitsFor(k, j) ==
  /\ k # j
  /\ tx[k].req # None
  /\ \E l \in tx[k].todo : IsNext(l, tx[k].todo) /\ lock[l.wallet] = j

\* Sorting the legs keeps Postgres from ever having to break a deadlock: in
\* no set of transactions is everyone waiting for somebody of the set.
NoDeadlock ==
  \A S \in (SUBSET Workers) \ {{}} :
     \E k \in S : \A j \in S : ~WaitsFor(k, j)

\* Every Move that starts comes to an end: nobody waits for a lock for ever.
MoveEnds == \A k \in Workers : (tx[k].req # None) ~> (tx[k].req = None)

\* What the transactions in flight must look like for the above to survive
\* every step: a lock belongs to a running Move, the rows it has not committed
\* are on wallets it has locked and belong to its request, its view of a wallet
\* it locked replays the journal it will leave, every leg is either posted or
\* still to do, and a key it has posted is posted nowhere else.
InFlight(k) ==
  LET t == tx[k]
  IN  /\ t.req = None => t.rows = {}
      /\ t.req # None => t.todo \subseteq LegsOf[t.req]
      /\ \A w \in Wallets : lock[w] = k =>
           /\ t.req # None
           /\ Replays(w, rows \cup t.rows, t.saved[w])
           /\ t.saved[w].available >= 0 /\ t.saved[w].held >= 0
      /\ \A r \in t.rows :
           /\ lock[r.wallet] = k /\ r.group = t.req
           /\ r.after.available >= 0 /\ r.after.held >= 0
           /\ \A q \in rows \cup t.rows : q.key = r.key => q = r
      /\ t.req # None => \A l \in LegsOf[t.req] :
           l \in t.todo \/ \E q \in t.rows : q.key = l.key

\* A transaction has only wallets still to come that are not before the ones
\* it holds.
LocksAscend ==
  \A k \in Workers : \A w \in Wallets :
     lock[w] = k => \A l \in tx[k].todo : w <= l.wallet

\* A row is a leg of the request it is grouped under.
RowIsLeg(r) == \E l \in LegsOf[r.group] : l.key = r.key /\ l.wallet = r.wallet

LedgerInv ==
  /\ TypeOK
  /\ JournalReplays
  /\ NeverOverdrawn
  /\ PostedOnce
  /\ AllLegsOrNone
  /\ \A r \in rows : RowIsLeg(r)
  /\ \A k \in Workers : InFlight(k) /\ \A r \in tx[k].rows : RowIsLeg(r)

Atomic == INSTANCE AtomicLedger WITH balance <- wallet, posted <- {r.key : r \in rows}

\* A Move with its locks, its partial postings and its rollbacks is, to anyone
\* reading committed rows, one indivisible movement of the abstract ledger:
\* Repo.Move's "Every leg lands in one transaction".
MoveIsAtomic == Atomic!Spec
=============================================================================
