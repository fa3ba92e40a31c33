---------------------------- MODULE LedgerProofs ----------------------------
(***************************************************************************)
(* Proofs about the wallet ledger, for any number of wallets, requests and *)
(* concurrent transactions.                                                *)
(***************************************************************************)
EXTENDS Ledger, SumLemmas, FiniteSetTheorems, WellFoundedInduction, TLAPS

\* The number nextSeq hands out on a journal whose largest number is that of
\* row top (COALESCE(MAX(seq), 0) + 1).
LEMMA NextSeqValue ==
  ASSUME NEW w \in Wallets, NEW R \in SUBSET Row
  PROVE  /\ Journal(w, R) = {} => nextSeq(w, R) = 1
         /\ \A top \in Journal(w, R) :
              (\A q \in Journal(w, R) : q.seq <= top.seq) => nextSeq(w, R) = top.seq + 1
<1>1. ASSUME Journal(w, R) = {} PROVE nextSeq(w, R) = 1
  BY <1>1 DEF nextSeq, SeqsOf
<1>2. ASSUME NEW top \in Journal(w, R), \A q \in Journal(w, R) : q.seq <= top.seq
      PROVE  nextSeq(w, R) = top.seq + 1
  <2>1. top.seq \in SeqsOf(w, R)
    BY DEF SeqsOf
  <2>2. \A x \in SeqsOf(w, R) : x \in Nat /\ x <= top.seq
    BY <1>2 DEF SeqsOf, Journal, Row
  <2>3. \A x \in SeqsOf(w, R) : (\A y \in SeqsOf(w, R) : x >= y) => x = top.seq
    BY <2>1, <2>2
  <2>4. \E x \in SeqsOf(w, R) : \A y \in SeqsOf(w, R) : x >= y
    BY <2>1, <2>2
  <2>5. Max(SeqsOf(w, R)) = top.seq
    BY <2>3, <2>4 DEF Max
  <2> QED  BY <2>1, <2>5 DEF nextSeq
<1> QED  BY <1>1, <1>2

\* A journal that replays to a balance always has a next number.
LEMMA NextSeqPositive ==
  ASSUME NEW w \in Wallets, NEW R \in SUBSET Row, NEW b, Replays(w, R, b)
  PROVE  nextSeq(w, R) \in Nat \ {0}
<1>1. CASE Journal(w, R) = {}
  BY <1>1, NextSeqValue
<1>2. CASE Journal(w, R) # {}
  <2>1. PICK top \in Journal(w, R) : \A q \in Journal(w, R) : q.seq <= top.seq
    BY <1>2 DEF Replays
  <2>2. top.seq \in Nat
    BY DEF Journal, Row
  <2> QED  BY <2>1, <2>2, NextSeqValue
<1> QED  BY <1>1, <1>2

\* Appending the row that Apply computes from the current balance, under the
\* number nextSeq hands out, keeps the journal replayable.
LEMMA AppendReplays ==
  ASSUME NEW w \in Wallets, NEW R \in SUBSET Row, NEW b \in Balance,
         Replays(w, R, b),
         NEW n \in Row, n.wallet = w, n.seq = nextSeq(w, R), n.after = Applied(b, n)
  PROVE  Replays(w, R \cup {n}, n.after)
<1> DEFINE J == Journal(w, R)
           K == Journal(w, R \cup {n})
<1>1. K = J \cup {n}
  BY DEF Journal
<1>2. \A r \in J : r.seq \in Nat /\ r.seq < n.seq
  <2>1. CASE J = {}
    BY <2>1
  <2>2. CASE J # {}
    <3>1. PICK top \in J : \A q \in J : q.seq <= top.seq
      BY <2>2 DEF Replays
    <3>2. n.seq = top.seq + 1
      BY <3>1, NextSeqValue
    <3>3. \A r \in J : r.seq \in Nat
      BY DEF Journal, Row
    <3> QED  BY <3>1, <3>2, <3>3
  <2> QED  BY <2>1, <2>2
<1>3. n.seq \in Nat
  BY DEF Row
<1>4. \A q \in K : q.seq <= n.seq
  BY <1>1, <1>2, <1>3
<1>5. \A r, q \in K : r.seq = q.seq => r = q
  <2>1. \A r, q \in J : r.seq = q.seq => r = q
    BY DEF Replays
  <2> QED  BY <1>1, <1>2, <1>3, <2>1
<1>6. \A r \in J : \/ r.seq = 1 /\ r.after = Applied(Zero, r)
                   \/ \E q \in K : r.seq = q.seq + 1 /\ r.after = Applied(q.after, r)
  BY <1>1 DEF Replays
<1>7. \/ n.seq = 1 /\ n.after = Applied(Zero, n)
      \/ \E q \in K : n.seq = q.seq + 1 /\ n.after = Applied(q.after, n)
  <2>1. CASE J = {}
    <3>1. n.seq = 1
      BY <2>1, NextSeqValue
    <3>2. b = Zero
      BY <2>1 DEF Replays
    <3> QED  BY <3>1, <3>2
  <2>2. CASE J # {}
    <3>1. PICK top \in J : top.after = b /\ \A q \in J : q.seq <= top.seq
      BY <2>2 DEF Replays
    <3>2. n.seq = top.seq + 1
      BY <3>1, NextSeqValue
    <3> QED  BY <1>1, <3>1, <3>2
  <2> QED  BY <2>1, <2>2
<1>8. \A r \in K : \/ r.seq = 1 /\ r.after = Applied(Zero, r)
                   \/ \E q \in K : r.seq = q.seq + 1 /\ r.after = Applied(q.after, r)
  BY <1>1, <1>6, <1>7
<1>9. n \in K /\ K # {}
  BY <1>1
<1> QED  BY <1>4, <1>5, <1>8, <1>9 DEF Replays

\* Replaying a wallet looks at that wallet's rows only.
LEMMA ReplaysLocal ==
  ASSUME NEW w, NEW R, NEW Q, NEW b, Journal(w, R) = Journal(w, Q), Replays(w, R, b)
  PROVE  Replays(w, Q, b)
BY DEF Replays

-----------------------------------------------------------------------------

\* An empty ledger with nothing in flight satisfies the invariant.
LEMMA InitInv == Init => LedgerInv
<1> SUFFICES ASSUME Init PROVE LedgerInv
  OBVIOUS
<1> USE DEF Init
<1>1. TypeOK
  BY NoneAssumption DEF TypeOK, Idle, Opened, Balance, Zero, Answers
<1>2. JournalReplays
  BY DEF JournalReplays, Replays, Journal
<1>3. NeverOverdrawn
  BY DEF NeverOverdrawn, Zero
<1>4. PostedOnce /\ AllLegsOrNone
  BY DEF PostedOnce, AllLegsOrNone
<1>5. \A k \in Workers : InFlight(k) /\ \A r \in tx[k].rows : RowIsLeg(r)
  BY NoneAssumption DEF InFlight, Idle, Opened
<1> QED  BY <1>1, <1>2, <1>3, <1>4, <1>5 DEF LedgerInv

\* A step that leaves the committed rows, the locks and transaction j alone
\* leaves what is known of j alone.
LEMMA OtherInFlight ==
  ASSUME NEW j, InFlight(j), rows' = rows, tx'[j] = tx[j],
         \A w \in Wallets : (lock'[w] = j) <=> (lock[w] = j),
         \A r \in tx[j].rows : r.wallet \in Wallets
  PROVE  InFlight(j)'
BY DEF InFlight, Replays, Journal

\* What ending a transaction does to the type of the state.
LEMMA EndTxKeeps ==
  ASSUME NEW k \in Workers, NEW a \in Answers, LedgerInv, EndTx(k, a), rows' = rows
  PROVE  /\ lock' \in [Wallets -> Workers \cup {None}]
         /\ tx' \in [Workers -> [req   : Requests \cup {None},
                                 todo  : SUBSET Leg,
                                 saved : [Wallets -> Balance],
                                 rows  : SUBSET Row]]
         /\ answer' \in [Workers -> Answers]
         /\ \A j \in Workers : InFlight(j)' /\ \A r \in tx'[j].rows : RowIsLeg(r)
<1> USE DEF EndTx
<1>1. Idle \in [req : Requests \cup {None}, todo : SUBSET Leg,
               saved : [Wallets -> Balance], rows : SUBSET Row]
  BY DEF Idle, Opened, Balance, Zero
<1>2. lock' \in [Wallets -> Workers \cup {None}]
  BY DEF LedgerInv, TypeOK
<1>3. tx' \in [Workers -> [req   : Requests \cup {None},
                          todo  : SUBSET Leg,
                          saved : [Wallets -> Balance],
                          rows  : SUBSET Row]]
  BY <1>1 DEF LedgerInv, TypeOK
<1>4. answer' \in [Workers -> Answers]
  BY DEF LedgerInv, TypeOK
<1>5. ASSUME NEW j \in Workers
      PROVE  InFlight(j)' /\ \A r \in tx'[j].rows : RowIsLeg(r)
  <2>1. CASE j = k
    <3>1. tx'[j] = Idle
      BY <2>1 DEF LedgerInv, TypeOK
    <3>2. \A w \in Wallets : lock'[w] # j
      BY <2>1, NoneAssumption
    <3> QED  BY <3>1, <3>2 DEF InFlight, Idle, Opened
  <2>2. CASE j # k
    <3>1. tx'[j] = tx[j]
      BY <2>2 DEF LedgerInv, TypeOK
    <3>2. \A w \in Wallets : (lock'[w] = j) <=> (lock[w] = j)
      BY <2>2, NoneAssumption
    <3>3. \A r \in tx[j].rows : r.wallet \in Wallets
      BY DEF LedgerInv, TypeOK, Row
    <3>4. InFlight(j)'
      BY <3>1, <3>2, <3>3, OtherInFlight DEF LedgerInv
    <3> QED  BY <3>1, <3>4 DEF LedgerInv
  <2> QED  BY <2>1, <2>2
<1> QED  BY <1>2, <1>3, <1>4, <1>5

\* Ending a transaction without committing it keeps the invariant.
LEMMA AbortInv ==
  ASSUME NEW k \in Workers, NEW a \in Answers, LedgerInv, EndTx(k, a),
         UNCHANGED <<wallet, rows>>
  PROVE  LedgerInv'
<1>1. TypeOK'
  BY EndTxKeeps DEF LedgerInv, TypeOK
<1>2. JournalReplays' /\ NeverOverdrawn' /\ PostedOnce' /\ AllLegsOrNone'
  BY DEF LedgerInv, JournalReplays, Replays, Journal, NeverOverdrawn, PostedOnce, AllLegsOrNone
<1>3. \A r \in rows' : RowIsLeg(r)
  BY DEF LedgerInv
<1>4. \A j \in Workers : InFlight(j)' /\ \A r \in tx'[j].rows : RowIsLeg(r)
  BY EndTxKeeps
<1> QED  BY <1>1, <1>2, <1>3, <1>4 DEF LedgerInv, RowIsLeg

\* A worker that opens the wallets of its request has written and locked nothing.
LEMMA BeginInv ==
  ASSUME LedgerInv, NEW k \in Workers, NEW r \in Requests, Begin(k, r)
  PROVE  LedgerInv'
<1> USE DEF Begin
<1>1. tx'[k] = Opened(r, LegsOf[r]) /\ \A j \in Workers \ {k} : tx'[j] = tx[j]
  BY DEF LedgerInv, TypeOK
<1>2. TypeOK'
  <2>1. Opened(r, LegsOf[r]) \in [req : Requests \cup {None}, todo : SUBSET Leg,
                                saved : [Wallets -> Balance], rows : SUBSET Row]
    BY LegsAssumption DEF Opened, Balance, Zero
  <2>2. "none" \in Answers
    BY DEF Answers
  <2>3. tx' \in [Workers -> [req   : Requests \cup {None},
                            todo  : SUBSET Leg,
                            saved : [Wallets -> Balance],
                            rows  : SUBSET Row]]
    BY <2>1 DEF LedgerInv, TypeOK
  <2> QED  BY <2>2, <2>3 DEF LedgerInv, TypeOK
<1>3. JournalReplays' /\ NeverOverdrawn' /\ PostedOnce' /\ AllLegsOrNone'
  BY DEF LedgerInv, JournalReplays, Replays, Journal, NeverOverdrawn, PostedOnce, AllLegsOrNone
<1>4. ASSUME NEW j \in Workers PROVE InFlight(j)' /\ \A q \in tx'[j].rows : RowIsLeg(q)
  <2>1. CASE j = k
    <3>1. \A w \in Wallets : lock'[w] # k
      BY DEF LedgerInv, InFlight
    <3>2. r # None
      BY NoneAssumption
    <3> QED  BY <1>1, <2>1, <3>1, <3>2 DEF InFlight, Opened
  <2>2. CASE j # k
    <3>1. \A q \in tx[j].rows : q.wallet \in Wallets
      BY DEF LedgerInv, TypeOK, Row
    <3>2. InFlight(j)'
      BY <1>1, <2>2, <3>1, OtherInFlight DEF LedgerInv
    <3> QED  BY <1>1, <2>2, <3>2 DEF LedgerInv
  <2> QED  BY <2>1, <2>2
<1> QED  BY <1>2, <1>3, <1>4 DEF LedgerInv, RowIsLeg

\* Under a fresh row lock the view of a wallet is its committed balance.
LEMMA LockInv ==
  ASSUME LedgerInv, NEW k \in Workers, lockWallet(k)
  PROVE  LedgerInv'
<1> DEFINE t == tx[k]
<1>0. PICK l \in t.todo :
        /\ lock[l.wallet] = None
        /\ lock' = [lock EXCEPT ![l.wallet] = k]
        /\ tx' = [tx EXCEPT ![k] = SetSaved(t, l.wallet, wallet[l.wallet])]
  BY DEF lockWallet
<1>1. UNCHANGED <<wallet, rows, answer>> /\ t.req # None
  BY DEF lockWallet
<1>2. TypeOK /\ InFlight(k)
  BY DEF LedgerInv
<1>3. l.wallet \in Wallets
  BY <1>2 DEF TypeOK, Leg
<1>4. /\ tx'[k].req = t.req /\ tx'[k].todo = t.todo /\ tx'[k].rows = t.rows
      /\ tx'[k].saved = [t.saved EXCEPT ![l.wallet] = wallet[l.wallet]]
      /\ \A j \in Workers \ {k} : tx'[j] = tx[j]
  BY <1>0, <1>2 DEF TypeOK, SetSaved
<1>5. TypeOK'
  <2>1. SetSaved(t, l.wallet, wallet[l.wallet]) \in
           [req : Requests \cup {None}, todo : SUBSET Leg,
            saved : [Wallets -> Balance], rows : SUBSET Row]
    BY <1>2, <1>3 DEF TypeOK, SetSaved
  <2>2. tx' \in [Workers -> [req   : Requests \cup {None},
                            todo  : SUBSET Leg,
                            saved : [Wallets -> Balance],
                            rows  : SUBSET Row]]
    BY <1>0, <1>2, <2>1 DEF TypeOK
  <2>3. lock' \in [Wallets -> Workers \cup {None}]
    BY <1>0, <1>2 DEF TypeOK
  <2> QED  BY <1>1, <1>2, <2>2, <2>3 DEF TypeOK
<1>6. JournalReplays' /\ NeverOverdrawn' /\ PostedOnce' /\ AllLegsOrNone'
  BY <1>1 DEF LedgerInv, JournalReplays, Replays, Journal, NeverOverdrawn, PostedOnce, AllLegsOrNone
<1>7. ASSUME NEW j \in Workers PROVE InFlight(j)' /\ \A q \in tx'[j].rows : RowIsLeg(q)
  <2>1. CASE j = k
    <3>1. \A q \in t.rows : q.wallet # l.wallet
      BY <1>0, <1>2, NoneAssumption DEF InFlight
    <3>2. ASSUME NEW w \in Wallets, lock'[w] = k
          PROVE  /\ Replays(w, rows' \cup tx'[k].rows, tx'[k].saved[w])
                 /\ tx'[k].saved[w].available >= 0 /\ tx'[k].saved[w].held >= 0
      <4>1. CASE w = l.wallet
        <5>1. tx'[k].saved[w] = wallet[w]
          BY <1>2, <1>4, <4>1 DEF TypeOK
        <5>2. Journal(w, rows) = Journal(w, rows' \cup tx'[k].rows)
          BY <1>1, <1>4, <3>1, <4>1 DEF Journal
        <5>3. Replays(w, rows, wallet[w])
          BY DEF LedgerInv, JournalReplays
        <5>4. Replays(w, rows' \cup tx'[k].rows, wallet[w])
          BY <5>2, <5>3, ReplaysLocal
        <5> QED  BY <5>1, <5>4 DEF LedgerInv, NeverOverdrawn
      <4>2. CASE w # l.wallet
        <5>1. lock[w] = k
          BY <1>0, <1>2, <3>2, <4>2 DEF TypeOK
        <5>2. tx'[k].saved[w] = t.saved[w]
          BY <1>2, <1>4, <4>2 DEF TypeOK
        <5> QED  BY <1>1, <1>2, <1>4, <5>1, <5>2 DEF InFlight
      <4> QED  BY <4>1, <4>2
    <3>3. \A q \in tx'[k].rows : lock'[q.wallet] = k
      BY <1>0, <1>2, <1>4, <3>1 DEF InFlight, TypeOK, Row
    <3>4. InFlight(k)'
      BY <1>1, <1>2, <1>4, <3>2, <3>3 DEF InFlight
    <3> QED  BY <1>4, <2>1, <3>4 DEF LedgerInv
  <2>2. CASE j # k
    <3>1. \A q \in tx[j].rows : q.wallet \in Wallets
      BY <1>2 DEF TypeOK, Row
    <3>2. \A w \in Wallets : (lock'[w] = j) <=> (lock[w] = j)
      BY <1>0, <1>2, <2>2, NoneAssumption DEF TypeOK
    <3>3. InFlight(j)'
      BY <1>1, <1>4, <2>2, <3>1, <3>2, OtherInFlight DEF LedgerInv
    <3> QED  BY <1>4, <2>2, <3>3 DEF LedgerInv
  <2> QED  BY <2>1, <2>2
<1> QED  BY <1>1, <1>5, <1>6, <1>7 DEF LedgerInv, RowIsLeg

\* A leg refused for its amount, its balance or its key ends the whole Move.
LEMMA RefuseInv ==
  ASSUME LedgerInv, NEW k \in Workers, NEW l, RefuseLeg(k, l)
  PROVE  LedgerInv'
<1>1. PICK a \in Answers : EndTx(k, a)
  BY DEF RefuseLeg, ApplyError, Answers
<1>2. UNCHANGED <<wallet, rows>>
  BY DEF RefuseLeg
<1> QED  BY <1>1, <1>2, AbortInv

\* A transaction lost to an error or a crash leaves the committed rows alone.
LEMMA RollbackInv ==
  ASSUME LedgerInv, NEW k \in Workers, Rollback(k)
  PROVE  LedgerInv'
<1>1. "failed" \in Answers
  BY DEF Answers
<1> QED  BY <1>1, AbortInv DEF Rollback

\* A posted leg extends the journal of a wallet only this Move can write.
LEMMA PostInv ==
  ASSUME LedgerInv, NEW k \in Workers, tx[k].req # None,
         NEW l \in tx[k].todo, lock[l.wallet] = k, PostLeg(k, l)
  PROVE  LedgerInv'
<1> DEFINE t   == tx[k]
           bal == t.saved[l.wallet]
           n   == Movement(t.req, l, bal, rows \cup t.rows)
<1>1. /\ ApplyError(bal, l) = "none"
      /\ ~KeyTaken(l.key, rows \cup t.rows)
      /\ tx' = [tx EXCEPT ![k] =
            [req   |-> t.req,
             todo  |-> t.todo \ {l},
             saved |-> [t.saved EXCEPT ![l.wallet] = Applied(bal, l)],
             rows  |-> t.rows \cup {n}]]
      /\ UNCHANGED <<wallet, rows, lock, answer>>
  BY DEF PostLeg
<1>2. TypeOK /\ InFlight(k)
  BY DEF LedgerInv
<1>3. t.req \in Requests /\ l \in Leg /\ l.wallet \in Wallets /\ l \in LegsOf[t.req]
  BY <1>2 DEF TypeOK, Leg, InFlight
<1>4. bal \in Balance /\ rows \cup t.rows \in SUBSET Row
  BY <1>2, <1>3 DEF TypeOK
<1>5. Replays(l.wallet, rows \cup t.rows, bal)
  BY <1>2, <1>3 DEF InFlight
<1>6. Applied(bal, l) \in Balance /\ Applied(bal, l).available >= 0 /\ Applied(bal, l).held >= 0
  <2>1. Applied(bal, l) \in Balance
    BY <1>3, <1>4 DEF Applied, Balance, Leg
  <2> HIDE DEF bal
  <2>2. ~(Applied(bal, l).available < 0 \/ Applied(bal, l).held < 0)
    BY <1>1 DEF ApplyError
  <2> QED  BY <2>1, <2>2 DEF Balance
<1>7. /\ n.wallet = l.wallet /\ n.seq = nextSeq(l.wallet, rows \cup t.rows)
      /\ n.key = l.key /\ n.group = t.req /\ n.after = Applied(bal, l)
      /\ n.after = Applied(bal, n)
  BY DEF Movement, Applied
<1>8. n \in Row
  <2>1. nextSeq(l.wallet, rows \cup t.rows) \in Nat \ {0}
    BY <1>3, <1>4, <1>5, NextSeqPositive
  <2> QED  BY <1>3, <1>6, <2>1 DEF Movement, Row, Leg
<1> HIDE DEF n, bal
<1>9. /\ tx'[k].req = t.req /\ tx'[k].todo = t.todo \ {l} /\ tx'[k].rows = t.rows \cup {n}
      /\ tx'[k].saved = [t.saved EXCEPT ![l.wallet] = Applied(bal, l)]
      /\ \A j \in Workers \ {k} : tx'[j] = tx[j]
  BY <1>1, <1>2 DEF TypeOK
<1>10. TypeOK'
  <2>1. [req   |-> t.req,
         todo  |-> t.todo \ {l},
         saved |-> [t.saved EXCEPT ![l.wallet] = Applied(bal, l)],
         rows  |-> t.rows \cup {n}] \in
           [req : Requests \cup {None}, todo : SUBSET Leg,
            saved : [Wallets -> Balance], rows : SUBSET Row]
    BY <1>2, <1>3, <1>6, <1>8 DEF TypeOK
  <2>2. tx' \in [Workers -> [req   : Requests \cup {None},
                            todo  : SUBSET Leg,
                            saved : [Wallets -> Balance],
                            rows  : SUBSET Row]]
    BY <1>1, <1>2, <2>1 DEF TypeOK
  <2> QED  BY <1>1, <1>2, <2>2 DEF TypeOK
<1>11. JournalReplays' /\ NeverOverdrawn' /\ PostedOnce' /\ AllLegsOrNone'
  BY <1>1 DEF LedgerInv, JournalReplays, Replays, Journal, NeverOverdrawn, PostedOnce, AllLegsOrNone
<1>12. ASSUME NEW j \in Workers PROVE InFlight(j)' /\ \A q \in tx'[j].rows : RowIsLeg(q)
  <2>1. CASE j = k
    <3>1. ASSUME NEW w \in Wallets, lock'[w] = k
          PROVE  /\ Replays(w, rows' \cup tx'[k].rows, tx'[k].saved[w])
                 /\ tx'[k].saved[w].available >= 0 /\ tx'[k].saved[w].held >= 0
      <4>1. CASE w = l.wallet
        <5>1. tx'[k].saved[w] = n.after
          BY <1>2, <1>7, <1>9, <4>1 DEF TypeOK
        <5>2. Replays(w, (rows \cup t.rows) \cup {n}, n.after)
          BY <1>4, <1>5, <1>7, <1>8, <4>1, AppendReplays
        <5>3. (rows \cup t.rows) \cup {n} = rows' \cup tx'[k].rows
          BY <1>1, <1>9
        <5> QED  BY <1>6, <1>7, <5>1, <5>2, <5>3
      <4>2. CASE w # l.wallet
        <5>1. lock[w] = k
          BY <1>1, <3>1
        <5>2. tx'[k].saved[w] = t.saved[w]
          BY <1>2, <1>9, <4>2 DEF TypeOK
        <5>3. Journal(w, rows \cup t.rows) = Journal(w, rows' \cup tx'[k].rows)
          BY <1>1, <1>7, <1>9, <4>2 DEF Journal
        <5>4. Replays(w, rows \cup t.rows, t.saved[w])
          BY <1>2, <5>1 DEF InFlight
        <5>5. Replays(w, rows' \cup tx'[k].rows, t.saved[w])
          BY <5>3, <5>4, ReplaysLocal
        <5> QED  BY <1>2, <5>1, <5>2, <5>5 DEF InFlight
      <4> QED  BY <4>1, <4>2
    <3>2. ASSUME NEW q \in tx'[k].rows
          PROVE  /\ lock'[q.wallet] = k /\ q.group = tx'[k].req
                 /\ q.after.available >= 0 /\ q.after.held >= 0
      <4>1. CASE q \in t.rows
        BY <1>1, <1>2, <1>9, <4>1 DEF InFlight
      <4>2. CASE q = n
        BY <1>1, <1>6, <1>7, <1>9, <4>2
      <4> QED  BY <1>9, <4>1, <4>2
    <3>3. \A q \in tx'[k].rows : \A p \in rows' \cup tx'[k].rows : p.key = q.key => p = q
      <4>1. \A p \in rows \cup t.rows : p.key # n.key
        BY <1>1, <1>7 DEF KeyTaken
      <4>2. \A q \in t.rows : \A p \in rows \cup t.rows : p.key = q.key => p = q
        BY <1>2 DEF InFlight
      <4> QED  BY <1>1, <1>9, <4>1, <4>2
    <3>4. \A m \in LegsOf[t.req] : m \in tx'[k].todo \/ \E q \in tx'[k].rows : q.key = m.key
      BY <1>2, <1>7, <1>9 DEF InFlight
    <3>5. tx'[k].todo \subseteq LegsOf[t.req]
      BY <1>2, <1>9 DEF InFlight
    <3>6. InFlight(k)'
      BY <1>9, <3>1, <3>2, <3>3, <3>4, <3>5 DEF InFlight
    <3>7. RowIsLeg(n)
      BY <1>3, <1>7 DEF RowIsLeg
    <3> QED  BY <1>9, <2>1, <3>6, <3>7 DEF LedgerInv
  <2>2. CASE j # k
    <3>1. \A q \in tx[j].rows : q.wallet \in Wallets
      BY <1>2 DEF TypeOK, Row
    <3>2. InFlight(j)'
      BY <1>1, <1>9, <2>2, <3>1, OtherInFlight DEF LedgerInv
    <3> QED  BY <1>9, <2>2, <3>2 DEF LedgerInv
  <2> QED  BY <2>1, <2>2
<1> QED  BY <1>1, <1>10, <1>11, <1>12 DEF LedgerInv, RowIsLeg

\* Committing makes a Move's rows and balances public together, all legs of it.
LEMMA CommitInv ==
  ASSUME LedgerInv, NEW k \in Workers, Commit(k)
  PROVE  LedgerInv'
<1> DEFINE t == tx[k]
<1>1. /\ t.req # None /\ t.todo = {}
      /\ rows' = rows \cup t.rows
      /\ wallet' = [w \in Wallets |-> IF lock[w] = k THEN t.saved[w] ELSE wallet[w]]
      /\ EndTx(k, "posted")
  BY DEF Commit
<1>2. TypeOK /\ InFlight(k)
  BY DEF LedgerInv
<1>3. /\ tx'[k] = Idle
      /\ \A j \in Workers \ {k} : tx'[j] = tx[j]
      /\ \A w \in Wallets : lock'[w] # k
      /\ \A j \in Workers \ {k} : \A w \in Wallets : (lock'[w] = j) <=> (lock[w] = j)
  BY <1>1, <1>2, NoneAssumption DEF EndTx, TypeOK
<1>4. \A w \in Wallets : lock[w] # k =>
         \A Q : Journal(w, rows \cup Q) = Journal(w, rows' \cup Q)
  BY <1>1, <1>2 DEF InFlight, Journal
<1>5. TypeOK'
  <2>1. "posted" \in Answers
    BY DEF Answers
  <2>2. Idle \in [req : Requests \cup {None}, todo : SUBSET Leg,
                 saved : [Wallets -> Balance], rows : SUBSET Row]
    BY DEF Idle, Opened, Balance, Zero
  <2>3. lock' \in [Wallets -> Workers \cup {None}]
    BY <1>1, <1>2 DEF EndTx, TypeOK
  <2>4. tx' \in [Workers -> [req   : Requests \cup {None},
                            todo  : SUBSET Leg,
                            saved : [Wallets -> Balance],
                            rows  : SUBSET Row]]
    BY <1>1, <1>2, <2>2 DEF EndTx, TypeOK
  <2>5. answer' \in [Workers -> Answers]
    BY <1>1, <1>2, <2>1 DEF EndTx, TypeOK
  <2>6. rows' \subseteq Row
    BY <1>1, <1>2 DEF TypeOK
  <2>7. wallet' \in [Wallets -> Balance]
    BY <1>1, <1>2 DEF TypeOK
  <2> QED  BY <2>3, <2>4, <2>5, <2>6, <2>7 DEF TypeOK
<1>6. JournalReplays'
  <2> SUFFICES ASSUME NEW w \in Wallets PROVE Replays(w, rows', wallet'[w])
    BY DEF JournalReplays, Replays, Journal
  <2>1. CASE lock[w] = k
    BY <1>1, <1>2, <2>1 DEF InFlight
  <2>2. CASE lock[w] # k
    <3>1. wallet'[w] = wallet[w]
      BY <1>1, <2>2
    <3>2. Journal(w, rows) = Journal(w, rows')
      BY <1>1, <1>2, <2>2 DEF InFlight, Journal
    <3>3. Replays(w, rows, wallet[w])
      BY DEF LedgerInv, JournalReplays
    <3> QED  BY <3>1, <3>2, <3>3, ReplaysLocal
  <2> QED  BY <2>1, <2>2
<1>7. NeverOverdrawn'
  BY <1>1, <1>2 DEF LedgerInv, NeverOverdrawn, InFlight
<1>8. PostedOnce'
  BY <1>1, <1>2 DEF LedgerInv, PostedOnce, InFlight
<1>9. AllLegsOrNone'
  <2> SUFFICES ASSUME NEW r \in rows', NEW l \in LegsOf[r.group]
               PROVE  \E q \in rows' : q.group = r.group /\ q.key = l.key
    BY DEF AllLegsOrNone
  <2>1. CASE r \in rows
    BY <1>1, <2>1 DEF LedgerInv, AllLegsOrNone
  <2>2. CASE r \in t.rows
    <3>1. r.group = t.req
      BY <1>2, <2>2 DEF InFlight
    <3>2. PICK q \in t.rows : q.key = l.key
      BY <1>1, <1>2, <3>1 DEF InFlight
    <3>3. q.group = t.req
      BY <1>2 DEF InFlight
    <3> QED  BY <1>1, <3>1, <3>2, <3>3
  <2> QED  BY <1>1, <2>1, <2>2
<1>10. \A r \in rows' : RowIsLeg(r)
  BY <1>1 DEF LedgerInv
<1>11. ASSUME NEW j \in Workers PROVE InFlight(j)' /\ \A q \in tx'[j].rows : RowIsLeg(q)
  <2>1. CASE j = k
    BY <1>3, <2>1 DEF InFlight, Idle, Opened
  <2>2. CASE j # k
    <3>1. InFlight(j) /\ tx'[j] = tx[j] /\ \A q \in tx[j].rows : RowIsLeg(q)
      BY <1>3, <2>2 DEF LedgerInv
    <3>2. ASSUME NEW w \in Wallets, lock'[w] = j
          PROVE  Replays(w, rows' \cup tx[j].rows, tx[j].saved[w])
      <4>1. lock[w] = j /\ lock[w] # k
        BY <1>3, <2>2, <3>2
      <4>2. Replays(w, rows \cup tx[j].rows, tx[j].saved[w])
        BY <3>1, <4>1 DEF InFlight
      <4> QED  BY <1>4, <4>1, <4>2, ReplaysLocal
    <3>3. \A r \in tx[j].rows : r.wallet \in Wallets /\ lock'[r.wallet] = j
      BY <1>2, <1>3, <2>2, <3>1 DEF InFlight, TypeOK, Row
    <3>4. ASSUME NEW r \in tx[j].rows, NEW q \in t.rows, q.key = r.key
          PROVE  FALSE
      <4>1. r.group \in Requests /\ q.group \in Requests
        BY <1>2 DEF TypeOK, Row
      <4>2. PICK l \in LegsOf[r.group] : l.key = r.key /\ l.wallet = r.wallet
        BY <3>1 DEF RowIsLeg
      <4>3. PICK m \in LegsOf[q.group] : m.key = q.key /\ m.wallet = q.wallet
        BY DEF LedgerInv, RowIsLeg
      <4>4. r.wallet = q.wallet
        BY <3>4, <4>1, <4>2, <4>3, KeyOneWallet
      <4>5. lock[q.wallet] = k /\ lock[r.wallet] = j
        BY <1>2, <3>1 DEF InFlight
      <4> QED  BY <2>2, <4>4, <4>5
    <3>5. \A r \in tx[j].rows : \A q \in rows' \cup tx[j].rows : q.key = r.key => q = r
      BY <1>1, <3>1, <3>4 DEF InFlight
    <3>6. InFlight(j)'
      BY <1>3, <2>2, <3>1, <3>2, <3>3, <3>5 DEF InFlight
    <3> QED  BY <3>1, <3>6
  <2> QED  BY <2>1, <2>2
<1> QED  BY <1>5, <1>6, <1>7, <1>8, <1>9, <1>10, <1>11 DEF LedgerInv, RowIsLeg

\* Every step of every transaction preserves the invariant.
LEMMA NextInv == LedgerInv /\ [Next]_vars => LedgerInv'
<1> SUFFICES ASSUME LedgerInv, [Next]_vars PROVE LedgerInv'
  OBVIOUS
<1>1. ASSUME NEW k \in Workers, NEW r \in Requests, Begin(k, r) PROVE LedgerInv'
  BY <1>1, BeginInv
<1>2. ASSUME NEW k \in Workers, lockWallet(k) PROVE LedgerInv'
  BY <1>2, LockInv
<1>3. ASSUME NEW k \in Workers, moveLeg(k) PROVE LedgerInv'
  BY <1>3, PostInv, RefuseInv DEF moveLeg
<1>4. ASSUME NEW k \in Workers, Commit(k) PROVE LedgerInv'
  BY <1>4, CommitInv
<1>5. ASSUME NEW k \in Workers, Rollback(k) PROVE LedgerInv'
  BY <1>5, RollbackInv
<1>6. CASE UNCHANGED vars
  <2> USE <1>6 DEF vars
  <2>1. TypeOK'
    BY DEF LedgerInv, TypeOK
  <2>2. JournalReplays' /\ NeverOverdrawn' /\ PostedOnce' /\ AllLegsOrNone'
    BY DEF LedgerInv, JournalReplays, Replays, Journal, NeverOverdrawn, PostedOnce, AllLegsOrNone
  <2>3. \A k \in Workers : InFlight(k)'
    BY DEF LedgerInv, InFlight, Replays, Journal
  <2> QED  BY <2>1, <2>2, <2>3 DEF LedgerInv, RowIsLeg
<1> QED  BY <1>1, <1>2, <1>3, <1>4, <1>5, <1>6 DEF Next

\* The inductive invariant holds in every behaviour of the ledger.
LEMMA InvHolds == Spec => []LedgerInv
BY InitInv, NextInv, PTL DEF Spec

\* The state of the ledger is always well typed: balances and row numbers are
\* integers, every lock is held by a transaction or nobody.
THEOREM TypeCorrect == Spec => []TypeOK
<1>1. LedgerInv => TypeOK
  BY DEF LedgerInv
<1> QED  BY <1>1, InvHolds, PTL

\* However many Moves interleave, replaying a wallet's journal gives its balance.
THEOREM JournalIsTheBalance == Spec => []JournalReplays
<1>1. LedgerInv => JournalReplays
  BY DEF LedgerInv
<1> QED  BY <1>1, InvHolds, PTL

\* No wallet, and no row of a journal, ever shows a negative balance.
THEOREM NoOverdraft == Spec => []NeverOverdrawn
<1>1. LedgerInv => NeverOverdrawn
  BY DEF LedgerInv
<1> QED  BY <1>1, InvHolds, PTL

\* No idempotency key is booked twice, whoever retries it and when.
THEOREM KeysPostOnce == Spec => []PostedOnce
<1>1. LedgerInv => PostedOnce
  BY DEF LedgerInv
<1> QED  BY <1>1, InvHolds, PTL

\* A movement is in the ledger with all of its legs or not at all.
THEOREM MovementsAreWhole == Spec => []AllLegsOrNone
<1>1. LedgerInv => AllLegsOrNone
  BY DEF LedgerInv
<1> QED  BY <1>1, InvHolds, PTL

\* Both at once: however often a Move is retried and wherever it stops, the
\* ledger has it once and with every leg, or not at all.
THEOREM MovementsAreWholeAndOnce == Spec => []WholeAndOnce
<1>1. PostedOnce /\ AllLegsOrNone => WholeAndOnce
  BY DEF WholeAndOnce
<1> QED  BY <1>1, KeysPostOnce, MovementsAreWhole, PTL

-----------------------------------------------------------------------------
(* Deadlock freedom. *)

\* Taking the legs in wallet order keeps every lock below the legs to come.
LEMMA AscendNext == LedgerInv /\ LocksAscend /\ [Next]_vars => LocksAscend'
<1> SUFFICES ASSUME LedgerInv, LocksAscend, [Next]_vars PROVE LocksAscend'
  OBVIOUS
<1>0. TypeOK
  BY DEF LedgerInv
<1>1. ASSUME NEW k \in Workers, NEW r \in Requests, Begin(k, r) PROVE LocksAscend'
  <2>1. \A w \in Wallets : lock[w] # k
    BY <1>1 DEF LedgerInv, InFlight, Begin
  <2>2. \A j \in Workers \ {k} : tx'[j] = tx[j]
    BY <1>0, <1>1 DEF Begin, TypeOK
  <2> QED  BY <1>1, <2>1, <2>2 DEF Begin, LocksAscend
<1>2. ASSUME NEW k \in Workers, lockWallet(k) PROVE LocksAscend'
  <2>1. PICK l \in tx[k].todo :
          /\ IsNext(l, tx[k].todo)
          /\ lock' = [lock EXCEPT ![l.wallet] = k]
          /\ tx' = [tx EXCEPT ![k] = SetSaved(tx[k], l.wallet, wallet[l.wallet])]
    BY <1>2 DEF lockWallet
  <2>2. \A m \in tx[k].todo : l.wallet <= m.wallet
    <3>1. ASSUME NEW m \in tx[k].todo PROVE m.wallet \in Nat
      <4>1. m \in Leg
        BY <1>0 DEF TypeOK
      <4> QED  BY <4>1, WalletsAssumption DEF Leg
    <3> QED  BY <2>1, <3>1 DEF IsNext, Before
  <2>3. \A j \in Workers : tx'[j].todo = tx[j].todo
    BY <1>0, <2>1 DEF TypeOK, SetSaved
  <2>4. \A j \in Workers, w \in Wallets : lock'[w] = j => lock[w] = j \/ (j = k /\ w = l.wallet)
    BY <1>0, <2>1 DEF TypeOK
  <2> QED  BY <2>2, <2>3, <2>4 DEF LocksAscend
<1>3. ASSUME NEW k \in Workers, NEW a, EndTx(k, a) PROVE LocksAscend'
  <2>1. \A j \in Workers \ {k} : tx'[j] = tx[j]
    BY <1>0, <1>3 DEF EndTx, TypeOK
  <2>2. \A w \in Wallets : lock'[w] # k /\ (lock'[w] = lock[w] \/ lock'[w] = None)
    BY <1>0, <1>3, NoneAssumption DEF EndTx, TypeOK
  <2> QED  BY <2>1, <2>2, NoneAssumption DEF LocksAscend
<1>4. ASSUME NEW k \in Workers, NEW l \in tx[k].todo, PostLeg(k, l) PROVE LocksAscend'
  <2>1. \A j \in Workers : tx'[j].todo \subseteq tx[j].todo
    BY <1>0, <1>4 DEF PostLeg, TypeOK
  <2>2. lock' = lock
    BY <1>4 DEF PostLeg
  <2> QED  BY <2>1, <2>2 DEF LocksAscend
<1>5. ASSUME NEW k \in Workers, moveLeg(k) PROVE LocksAscend'
  BY <1>3, <1>4, <1>5 DEF moveLeg, RefuseLeg
<1>6. CASE UNCHANGED vars
  BY <1>6 DEF vars, LocksAscend
<1> QED  BY <1>1, <1>2, <1>3, <1>5, <1>6 DEF Next, Commit, Rollback

\* A non-empty set of wallets has a largest one.
LEMMA LargestWallet ==
  ASSUME NEW W \in SUBSET Wallets, W # {}
  PROVE  \E w \in W : \A v \in W : v <= w
<1>1. PICK n \in Nat : \A w \in Wallets : w <= n
  BY WalletsAssumption
<1> DEFINE T == {n - w : w \in W}
           R == OpToRel(<, Nat)
<1>2. T \subseteq Nat /\ T # {}
  <2>1. \A w \in W : w \in Nat /\ w <= n /\ n - w \in Nat
    BY <1>1, WalletsAssumption
  <2>2. T \subseteq Nat
    BY <2>1
  <2>3. PICK w \in W : TRUE
    OBVIOUS
  <2>4. n - w \in T
    OBVIOUS
  <2> QED  BY <2>2, <2>4
<1>3. PICK x \in T : \A y \in T : ~(<<y, x>> \in R)
  <2>1. IsWellFoundedOn(R, Nat)
    BY NatLessThanWellFounded
  <2> HIDE DEF R, T
  <2> QED  BY <1>2, <2>1, WFMin
<1>4. \A y \in T : ~(y < x)
  BY <1>2, <1>3 DEF OpToRel
<1>5. PICK w \in W : x = n - w
  OBVIOUS
<1>6. ASSUME NEW v \in W PROVE ~(n - v < n - w)
  <2>1. n - v \in T
    OBVIOUS
  <2> QED  BY <1>4, <1>5, <2>1
<1>7. \A v \in W : v \in Nat /\ v <= w
  BY <1>6, WalletsAssumption
<1> QED  BY <1>7

\* Taking wallets in one order, there is never a set of transactions each of
\* which waits for another of the set.
THEOREM DeadlockFree == Spec => []NoDeadlock
<1>1. Init => LocksAscend
  BY NoneAssumption DEF Init, LocksAscend
<1>2. LedgerInv /\ LocksAscend => NoDeadlock
  <2> SUFFICES ASSUME LedgerInv, LocksAscend,
                      NEW S \in SUBSET Workers, S # {},
                      \A k \in S : \E j \in S : WaitsFor(k, j)
               PROVE  FALSE
    BY DEF NoDeadlock
  <2> DEFINE Awaited(k, w, j) ==
               /\ k # j
               /\ \E l \in tx[k].todo : w = l.wallet /\ lock[w] = j
             W == {w \in Wallets : \E k, j \in S : Awaited(k, w, j)}
  <2>1. \A k \in S : \E w \in W, j \in S : Awaited(k, w, j)
    <3> SUFFICES ASSUME NEW k \in S PROVE \E w \in W, j \in S : Awaited(k, w, j)
      OBVIOUS
    <3>1. PICK j \in S : WaitsFor(k, j)
      OBVIOUS
    <3>2. PICK l \in tx[k].todo : lock[l.wallet] = j
      BY <3>1 DEF WaitsFor
    <3>3. l.wallet \in Wallets
      BY DEF LedgerInv, TypeOK, Leg
    <3>4. Awaited(k, l.wallet, j)
      BY <3>1, <3>2 DEF WaitsFor
    <3> HIDE DEF Awaited
    <3> QED  BY <3>3, <3>4
  <2>2. W # {}
    BY <2>1
  <2>3. PICK w \in W : \A v \in W : v <= w
    BY <2>2, LargestWallet
  <2>4. PICK k \in S, j \in S : Awaited(k, w, j)
    OBVIOUS
  <2>5. PICK v \in W, i \in S : Awaited(j, v, i)
    BY <2>1
  <2>6. w <= v
    BY <2>4, <2>5 DEF LocksAscend
  <2>7. w # v
    BY <2>4, <2>5
  <2> QED  BY <2>3, <2>6, <2>7, WalletsAssumption
<1> QED  BY <1>1, <1>2, InitInv, InvHolds, AscendNext, PTL DEF Spec

-----------------------------------------------------------------------------
\* The legs a transaction has posted on a wallet.
PostedOn(t, w) == {l \in LegsOf[t.req] : l \notin t.todo /\ l.wallet = w}

\* What transaction t of worker k has done, against the locks L, the committed rows R
\* and the committed balances W: its view of a wallet it locked is the committed
\* balance with the legs it posted there added, it has posted on no other, and no key
\* it spent is in the ledger.
Adds(k, t, L, R, W) ==
  t.req # None =>
    /\ LegsOf[t.req] # {}
    /\ \A r \in t.rows, q \in R : q.key # r.key
    /\ \A w \in Wallets :
         IF L[w] = k
         THEN /\ t.saved[w].available = W[w].available + Atomic!AvailableSum(PostedOn(t, w))
              /\ t.saved[w].held = W[w].held + Atomic!HeldSum(PostedOn(t, w))
         ELSE PostedOn(t, w) = {}

MovesAdd == \A k \in Workers : Adds(k, tx[k], lock, rows, wallet)

\* The sum the abstract ledger takes is the sum this module knows of.
LEMMA SameSum == ASSUME NEW f PROVE Atomic!SumFunction(f) = SumFunction(f)
BY Zenon DEF Atomic!SumFunction, Atomic!SumFunctionOnSet, Atomic!FoldFunctionOnSet, Atomic!MapThenFoldSet,
             SumFunction, SumFunctionOnSet, FoldFunctionOnSet, MapThenFoldSet

\* Nothing adds up to nothing, and a leg more adds its deltas.
LEMMA LegSums ==
  ASSUME NEW S \in SUBSET Leg, IsFiniteSet(S)
  PROVE  /\ S = {} => Atomic!AvailableSum(S) = 0 /\ Atomic!HeldSum(S) = 0
         /\ Atomic!AvailableSum(S) \in Int /\ Atomic!HeldSum(S) \in Int
         /\ \A l \in Leg \ S :
              /\ Atomic!AvailableSum(S \cup {l}) = Atomic!AvailableSum(S) + l.available
              /\ Atomic!HeldSum(S \cup {l}) = Atomic!HeldSum(S) + l.held
<1> DEFINE av(T) == [m \in T |-> m.available]
           hd(T) == [m \in T |-> m.held]
<1>1. \A T \in SUBSET Leg : av(T) \in [T -> Int] /\ hd(T) \in [T -> Int]
  BY DEF Leg
<1>2. ASSUME NEW T
      PROVE  Atomic!AvailableSum(T) = SumFunction(av(T)) /\ Atomic!HeldSum(T) = SumFunction(hd(T))
  BY Zenon, SameSum DEF Atomic!AvailableSum, Atomic!HeldSum
<1>3. \A T, l : l \in T => av(T)[l] = l.available /\ hd(T)[l] = l.held
  OBVIOUS
<1> HIDE DEF av, hd
<1>4. S = {} => SumFunction(av(S)) = 0 /\ SumFunction(hd(S)) = 0
  BY <1>1, SumOfNone
<1>5. SumFunction(av(S)) \in Int /\ SumFunction(hd(S)) \in Int
  BY <1>1, IntegerSum
<1>6. ASSUME NEW l \in Leg \ S
      PROVE  /\ SumFunction(av(S \cup {l})) = SumFunction(av(S)) + l.available
             /\ SumFunction(hd(S \cup {l})) = SumFunction(hd(S)) + l.held
  <2>1. PICK T \in SUBSET Leg : T = S \cup {l}
    OBVIOUS
  <2>2. l \notin S /\ \A m \in S \cup {l} : m \in T
    BY <2>1
  <2>0. ASSUME NEW f \in [S -> Int], NEW g \in [T -> Int], \A m \in S : g[m] = f[m]
        PROVE  SumFunction(g) = SumFunction(f) + g[l]
    BY <2>0, <2>1, <2>2, IntegerSumAdds
  <2>3. PICK f \in [S -> Int] : f = av(S)
    BY <1>1
  <2>4. PICK g \in [T -> Int] : g = av(T)
    BY <1>1
  <2>5. g[l] = l.available /\ \A m \in S : g[m] = f[m]
    BY <1>3, <2>2, <2>3, <2>4
  <2>6. SumFunction(g) = SumFunction(f) + g[l]
    BY <2>0, <2>5
  <2>7. PICK d \in [S -> Int] : d = hd(S)
    BY <1>1
  <2>8. PICK e \in [T -> Int] : e = hd(T)
    BY <1>1
  <2>9. e[l] = l.held /\ \A m \in S : e[m] = d[m]
    BY <1>3, <2>2, <2>7, <2>8
  <2>10. SumFunction(e) = SumFunction(d) + e[l]
    BY <2>0, <2>9
  <2> QED BY <2>1, <2>3, <2>4, <2>5, <2>6, <2>7, <2>8, <2>9, <2>10
<1> QED BY <1>2, <1>4, <1>5, <1>6

\* The legs posted are finitely many legs.
LEMMA PostedFinite ==
  ASSUME NEW t, t.req \in Requests, NEW w PROVE PostedOn(t, w) \in SUBSET Leg /\ IsFiniteSet(PostedOn(t, w))
<1>1. LegsOf[t.req] \in SUBSET Leg /\ IsFiniteSet(LegsOf[t.req])
  BY LegsAssumption, LegsFinite
<1>2. PostedOn(t, w) \in SUBSET LegsOf[t.req]
  BY DEF PostedOn
<1> QED BY <1>1, <1>2, FS_Subset

\* A transaction nobody but another worker's step touched.
LEMMA OthersAdd ==
  ASSUME NEW j \in Workers, Adds(j, tx[j], lock, rows, wallet), tx'[j] = tx[j],
         \A w \in Wallets : (lock'[w] = j <=> lock[w] = j) /\ (lock[w] = j => wallet'[w] = wallet[w]),
         \A r \in tx[j].rows, q \in rows' : q \in rows \/ q.key # r.key
  PROVE  Adds(j, tx'[j], lock', rows', wallet')
BY DEF Adds

\* A worker whose transaction ended.
LEMMA IdleAdds == ASSUME NEW k, NEW L, NEW R, NEW W PROVE Adds(k, Idle, L, R, W)
BY DEF Adds, Idle, Opened

\* A transaction ends and leaves the ledger as it is.
LEMMA EndTxAdds ==
  ASSUME LedgerInv, MovesAdd, NEW k \in Workers, NEW a, EndTx(k, a), UNCHANGED <<wallet, rows>>
  PROVE  MovesAdd'
<1>1. tx \in [Workers -> [req : Requests \cup {None}, todo : SUBSET Leg, saved : [Wallets -> Balance], rows : SUBSET Row]]
      /\ lock \in [Wallets -> Workers \cup {None}]
  BY DEF LedgerInv, TypeOK
<1>2. tx'[k] = Idle /\ \A j \in Workers : j # k => tx'[j] = tx[j]
  BY <1>1 DEF EndTx
<1>3. \A j \in Workers, w \in Wallets : j # k => (lock'[w] = j <=> lock[w] = j)
  BY <1>1, NoneAssumption DEF EndTx
<1>4. ASSUME NEW j \in Workers PROVE Adds(j, tx'[j], lock', rows', wallet')
  <2>1. CASE j = k
    BY <1>2, <2>1, IdleAdds
  <2>2. CASE j # k
    <3>1. Adds(j, tx[j], lock, rows, wallet)
      BY DEF MovesAdd
    <3> QED BY <1>2, <1>3, <2>2, <3>1, OthersAdd
  <2> QED BY <2>1, <2>2
<1> QED BY <1>4 DEF MovesAdd

\* A transaction that opens has posted nothing.
LEMMA BeginAdds ==
  ASSUME LedgerInv, MovesAdd, NEW k \in Workers, NEW r \in Requests, Begin(k, r)
  PROVE  MovesAdd'
<1>1. UNCHANGED <<wallet, rows, lock>> /\ LegsOf[r] # {} /\ tx[k].req = None
  BY DEF Begin
<1>2. tx'[k] = Opened(r, LegsOf[r]) /\ \A j \in Workers : j # k => tx'[j] = tx[j]
  BY DEF LedgerInv, TypeOK, Begin
<1>3. \A w \in Wallets : lock[w] # k
  BY <1>1 DEF LedgerInv, InFlight
<1>4. ASSUME NEW j \in Workers PROVE Adds(j, tx'[j], lock', rows', wallet')
  <2>1. CASE j = k
    <3>1. tx'[j].req = r /\ tx'[j].todo = LegsOf[r] /\ tx'[j].rows = {}
      BY <1>2, <2>1 DEF Opened
    <3>2. \A w : PostedOn(tx'[j], w) = {}
      BY <3>1 DEF PostedOn
    <3> QED BY <1>1, <1>3, <2>1, <3>1, <3>2 DEF Adds
  <2>2. CASE j # k
    <3>1. Adds(j, tx[j], lock, rows, wallet)
      BY DEF MovesAdd
    <3> QED BY <1>1, <1>2, <2>2, <3>1, OthersAdd
  <2> QED BY <2>1, <2>2
<1> QED BY <1>4 DEF MovesAdd

\* A fresh lock: nothing was posted on the wallet, and the view is what is committed.
LEMMA LockAdds ==
  ASSUME LedgerInv, MovesAdd, NEW k \in Workers, lockWallet(k)
  PROVE  MovesAdd'
<1>1. PICK l \in tx[k].todo :
        /\ lock[l.wallet] = None
        /\ lock' = [lock EXCEPT ![l.wallet] = k]
        /\ tx' = [tx EXCEPT ![k] = SetSaved(tx[k], l.wallet, wallet[l.wallet])]
  BY DEF lockWallet
<1>2. UNCHANGED <<wallet, rows>> /\ tx[k].req # None
  BY DEF lockWallet
<1>3. TypeOK
  BY DEF LedgerInv
<1>4. l.wallet \in Wallets /\ tx[k].req \in Requests
  BY <1>2, <1>3 DEF TypeOK, Leg
<1>5. /\ tx'[k].req = tx[k].req /\ tx'[k].todo = tx[k].todo /\ tx'[k].rows = tx[k].rows
      /\ tx'[k].saved = [tx[k].saved EXCEPT ![l.wallet] = wallet[l.wallet]]
      /\ \A j \in Workers : j # k => tx'[j] = tx[j]
  BY <1>1, <1>3 DEF TypeOK, SetSaved
<1>6. lock'[l.wallet] = k /\ \A w \in Wallets : w # l.wallet => lock'[w] = lock[w]
  BY <1>1, <1>3, <1>4 DEF TypeOK
<1>7. \A w : PostedOn(tx'[k], w) = PostedOn(tx[k], w)
  BY <1>5 DEF PostedOn
<1>8. Adds(k, tx[k], lock, rows, wallet)
  BY DEF MovesAdd
<1>9. Adds(k, tx'[k], lock', rows', wallet')
  <2>1. ASSUME NEW w \in Wallets, w # l.wallet
        PROVE  tx'[k].saved[w] = tx[k].saved[w] /\ lock'[w] = lock[w]
    BY <1>3, <1>5, <1>6, <2>1 DEF TypeOK
  <2>2. PostedOn(tx[k], l.wallet) = {}
    BY <1>1, <1>2, <1>4, <1>8, NoneAssumption DEF Adds
  <2>3. tx'[k].saved[l.wallet] = wallet[l.wallet]
    BY <1>3, <1>4, <1>5 DEF TypeOK
  <2>4. Atomic!AvailableSum({}) = 0 /\ Atomic!HeldSum({}) = 0
    BY LegSums, FS_EmptySet
  <2>5. wallet[l.wallet].available \in Int /\ wallet[l.wallet].held \in Int
    BY <1>3, <1>4 DEF TypeOK, Balance
  <2>6. /\ tx'[k].saved[l.wallet].available =
              wallet[l.wallet].available + Atomic!AvailableSum(PostedOn(tx'[k], l.wallet))
        /\ tx'[k].saved[l.wallet].held =
              wallet[l.wallet].held + Atomic!HeldSum(PostedOn(tx'[k], l.wallet))
    <3>1. PostedOn(tx'[k], l.wallet) = {}
      BY <1>7, <2>2
    <3>2. /\ Atomic!AvailableSum(PostedOn(tx'[k], l.wallet)) = 0
          /\ Atomic!HeldSum(PostedOn(tx'[k], l.wallet)) = 0
      BY <2>4, <3>1, Zenon
    <3> QED BY <2>3, <2>5, <3>2
  <2>7. ASSUME NEW w \in Wallets
        PROVE  IF lock'[w] = k
               THEN /\ tx'[k].saved[w].available = wallet[w].available + Atomic!AvailableSum(PostedOn(tx'[k], w))
                    /\ tx'[k].saved[w].held = wallet[w].held + Atomic!HeldSum(PostedOn(tx'[k], w))
               ELSE PostedOn(tx'[k], w) = {}
    <3>1. CASE w = l.wallet
      BY <1>6, <2>6, <3>1
    <3>2. CASE w # l.wallet
      BY <1>2, <1>7, <1>8, <2>1, <3>2 DEF Adds
    <3> QED BY <3>1, <3>2
  <2>8. LegsOf[tx'[k].req] # {} /\ \A r \in tx'[k].rows, q \in rows' : q.key # r.key
    BY <1>2, <1>5, <1>8 DEF Adds
  <2> QED BY <1>2, <2>7, <2>8 DEF Adds
<1>10. ASSUME NEW j \in Workers PROVE Adds(j, tx'[j], lock', rows', wallet')
  <2>1. CASE j = k
    BY <1>9, <2>1
  <2>2. CASE j # k
    <3>1. Adds(j, tx[j], lock, rows, wallet)
      BY DEF MovesAdd
    <3>2. \A w \in Wallets : lock'[w] = j <=> lock[w] = j
      BY <1>1, <1>6, <2>2, NoneAssumption
    <3> QED BY <1>2, <1>5, <2>2, <3>1, <3>2, OthersAdd
  <2> QED BY <2>1, <2>2
<1> QED BY <1>10 DEF MovesAdd

\* A leg posted: the view of its wallet moves by its deltas, and its key is new.
LEMMA PostAdds ==
  ASSUME LedgerInv, MovesAdd, NEW k \in Workers, tx[k].req # None,
         NEW l \in tx[k].todo, lock[l.wallet] = k, PostLeg(k, l)
  PROVE  MovesAdd'
<1> DEFINE bal == tx[k].saved[l.wallet]
           n   == Movement(tx[k].req, l, bal, rows \cup tx[k].rows)
<1>1. /\ ~KeyTaken(l.key, rows \cup tx[k].rows)
      /\ tx' = [tx EXCEPT ![k] =
            [req   |-> tx[k].req,
             todo  |-> tx[k].todo \ {l},
             saved |-> [tx[k].saved EXCEPT ![l.wallet] = Applied(bal, l)],
             rows  |-> tx[k].rows \cup {n}]]
      /\ UNCHANGED <<wallet, rows, lock>>
  BY DEF PostLeg
<1>2. TypeOK /\ InFlight(k) /\ Adds(k, tx[k], lock, rows, wallet)
  BY DEF LedgerInv, MovesAdd
<1>3. tx[k].req \in Requests /\ l \in Leg /\ l.wallet \in Wallets /\ l \in LegsOf[tx[k].req]
  BY <1>2 DEF TypeOK, Leg, InFlight
<1>4. n.key = l.key
  BY DEF Movement
<1>5. \A q \in rows : q.key # l.key
  BY <1>1 DEF KeyTaken
<1> HIDE DEF n
<1>6. /\ tx'[k].req = tx[k].req /\ tx'[k].todo = tx[k].todo \ {l}
      /\ tx'[k].rows = tx[k].rows \cup {n}
      /\ tx'[k].saved = [tx[k].saved EXCEPT ![l.wallet] = Applied(bal, l)]
      /\ \A j \in Workers : j # k => tx'[j] = tx[j]
  BY <1>1, <1>2 DEF TypeOK
<1>7. /\ tx'[k].saved[l.wallet] = Applied(bal, l)
      /\ \A w \in Wallets : w # l.wallet => tx'[k].saved[w] = tx[k].saved[w]
  BY <1>2, <1>3, <1>6 DEF TypeOK
<1>8. /\ l \notin PostedOn(tx[k], l.wallet)
      /\ PostedOn(tx'[k], l.wallet) = PostedOn(tx[k], l.wallet) \cup {l}
      /\ \A w \in Wallets : w # l.wallet => PostedOn(tx'[k], w) = PostedOn(tx[k], w)
  BY <1>3, <1>6 DEF PostedOn
<1>9. /\ tx'[k].saved[l.wallet].available =
            wallet[l.wallet].available + Atomic!AvailableSum(PostedOn(tx'[k], l.wallet))
      /\ tx'[k].saved[l.wallet].held =
            wallet[l.wallet].held + Atomic!HeldSum(PostedOn(tx'[k], l.wallet))
  <2>1. PICK S \in SUBSET Leg : S = PostedOn(tx[k], l.wallet) /\ IsFiniteSet(S)
    BY <1>3, PostedFinite
  <2>2. PICK a, h \in Int : a = Atomic!AvailableSum(S) /\ h = Atomic!HeldSum(S)
    BY <2>1, LegSums
  <2>3. /\ Atomic!AvailableSum(S \cup {l}) = a + l.available
        /\ Atomic!HeldSum(S \cup {l}) = h + l.held
    BY <1>3, <1>8, <2>1, <2>2, LegSums
  <2>4. /\ Atomic!AvailableSum(PostedOn(tx'[k], l.wallet)) = a + l.available
        /\ Atomic!HeldSum(PostedOn(tx'[k], l.wallet)) = h + l.held
    <3>1. PostedOn(tx'[k], l.wallet) = S \cup {l}
      BY <1>8, <2>1
    <3> QED BY <2>3, <3>1, Zenon
  <2>5. bal.available = wallet[l.wallet].available + a /\ bal.held = wallet[l.wallet].held + h
    <3>1. /\ bal.available = wallet[l.wallet].available + Atomic!AvailableSum(PostedOn(tx[k], l.wallet))
          /\ bal.held = wallet[l.wallet].held + Atomic!HeldSum(PostedOn(tx[k], l.wallet))
      BY <1>2, <1>3 DEF Adds
    <3>2. Atomic!AvailableSum(PostedOn(tx[k], l.wallet)) = a /\ Atomic!HeldSum(PostedOn(tx[k], l.wallet)) = h
      BY <2>1, <2>2, Zenon
    <3> QED BY <3>1, <3>2
  <2>6. /\ tx'[k].saved[l.wallet].available = bal.available + l.available
        /\ tx'[k].saved[l.wallet].held = bal.held + l.held
    BY <1>7 DEF Applied
  <2>7. /\ wallet[l.wallet].available \in Int /\ wallet[l.wallet].held \in Int
        /\ l.available \in Int /\ l.held \in Int
    BY <1>2, <1>3 DEF TypeOK, Balance, Leg
  <2> HIDE DEF bal
  <2> QED BY <2>2, <2>4, <2>5, <2>6, <2>7
<1>10. Adds(k, tx'[k], lock', rows', wallet')
  <2>1. ASSUME NEW w \in Wallets
        PROVE  IF lock'[w] = k
               THEN /\ tx'[k].saved[w].available = wallet'[w].available + Atomic!AvailableSum(PostedOn(tx'[k], w))
                    /\ tx'[k].saved[w].held = wallet'[w].held + Atomic!HeldSum(PostedOn(tx'[k], w))
               ELSE PostedOn(tx'[k], w) = {}
    <3>1. CASE w = l.wallet
      BY <1>1, <1>9, <3>1
    <3>2. CASE w # l.wallet
      BY <1>1, <1>2, <1>7, <1>8, <3>2 DEF Adds
    <3> QED BY <3>1, <3>2
  <2>2. LegsOf[tx'[k].req] # {} /\ \A r \in tx'[k].rows, q \in rows' : q.key # r.key
    BY <1>1, <1>2, <1>4, <1>5, <1>6 DEF Adds
  <2> QED BY <2>1, <2>2 DEF Adds
<1>11. ASSUME NEW j \in Workers PROVE Adds(j, tx'[j], lock', rows', wallet')
  <2>1. CASE j = k
    BY <1>10, <2>1
  <2>2. CASE j # k
    <3>1. Adds(j, tx[j], lock, rows, wallet)
      BY DEF MovesAdd
    <3> QED BY <1>1, <1>6, <2>2, <3>1, OthersAdd
  <2> QED BY <2>1, <2>2
<1> QED BY <1>11 DEF MovesAdd

\* Two workers' unposted rows have different keys: a key is used on one wallet, and
\* one of the two holds its lock.
LEMMA KeysApart ==
  ASSUME LedgerInv, NEW j \in Workers, NEW k \in Workers, j # k,
         NEW r \in tx[j].rows, NEW q \in tx[k].rows
  PROVE  q.key # r.key
<1>1. r \in Row /\ q \in Row
  BY DEF LedgerInv, TypeOK
<1>2. lock[r.wallet] = j /\ lock[q.wallet] = k
  BY DEF LedgerInv, InFlight
<1>3. RowIsLeg(r) /\ RowIsLeg(q)
  BY DEF LedgerInv
<1>4. q.key = r.key => q.wallet = r.wallet
  BY <1>1, <1>3, KeyOneWallet DEF RowIsLeg, Row
<1> QED BY <1>2, <1>4

\* A commit publishes what the transaction did and leaves the others' wallets alone.
LEMMA CommitAdds ==
  ASSUME LedgerInv, MovesAdd, NEW k \in Workers, Commit(k)
  PROVE  MovesAdd'
<1>1. /\ rows' = rows \cup tx[k].rows
      /\ wallet' = [w \in Wallets |-> IF lock[w] = k THEN tx[k].saved[w] ELSE wallet[w]]
      /\ EndTx(k, "posted")
  BY DEF Commit
<1>2. TypeOK
  BY DEF LedgerInv
<1>3. tx'[k] = Idle /\ \A j \in Workers : j # k => tx'[j] = tx[j]
  BY <1>1, <1>2 DEF EndTx, TypeOK
<1>4. \A j \in Workers, w \in Wallets : j # k => (lock'[w] = j <=> lock[w] = j)
  BY <1>1, NoneAssumption DEF EndTx
<1>5. \A j \in Workers, w \in Wallets : j # k => (lock[w] = j => wallet'[w] = wallet[w])
  BY <1>1
<1>6. ASSUME NEW j \in Workers PROVE Adds(j, tx'[j], lock', rows', wallet')
  <2>1. CASE j = k
    BY <1>3, <2>1, IdleAdds
  <2>2. CASE j # k
    <3>1. Adds(j, tx[j], lock, rows, wallet)
      BY DEF MovesAdd
    <3>2. \A r \in tx[j].rows, q \in rows' : q \in rows \/ q.key # r.key
      BY <1>1, <2>2, KeysApart
    <3> QED BY <1>3, <1>4, <1>5, <2>2, <3>1, <3>2, OthersAdd
  <2> QED BY <2>1, <2>2
<1> QED BY <1>6 DEF MovesAdd

\* Every step keeps what the transactions in flight have added.
LEMMA MovesAddKept == LedgerInv /\ MovesAdd /\ [Next]_vars => MovesAdd'
<1> SUFFICES ASSUME LedgerInv, MovesAdd, [Next]_vars PROVE MovesAdd'
  OBVIOUS
<1>1. CASE UNCHANGED vars
  BY <1>1 DEF vars, MovesAdd, Adds
<1>2. ASSUME NEW k \in Workers, NEW r \in Requests, Begin(k, r) PROVE MovesAdd'
  BY <1>2, BeginAdds
<1>3. ASSUME NEW k \in Workers, lockWallet(k) PROVE MovesAdd'
  BY <1>3, LockAdds
<1>4. ASSUME NEW k \in Workers, moveLeg(k) PROVE MovesAdd'
  <2>1. PICK l \in tx[k].todo : lock[l.wallet] = k /\ (PostLeg(k, l) \/ RefuseLeg(k, l))
    BY <1>4 DEF moveLeg
  <2>2. CASE PostLeg(k, l)
    BY <1>4, <2>1, <2>2, PostAdds DEF moveLeg
  <2>3. CASE RefuseLeg(k, l)
    <3>1. UNCHANGED <<wallet, rows>> /\ \E a : EndTx(k, a)
      BY <2>3 DEF RefuseLeg
    <3> QED BY <3>1, EndTxAdds
  <2> QED BY <2>1, <2>2, <2>3
<1>5. ASSUME NEW k \in Workers, Commit(k) PROVE MovesAdd'
  BY <1>5, CommitAdds
<1>6. ASSUME NEW k \in Workers, Rollback(k) PROVE MovesAdd'
  BY <1>6, EndTxAdds DEF Rollback
<1> QED BY <1>1, <1>2, <1>3, <1>4, <1>5, <1>6 DEF Next

\* A commit posts the keys of its request, none of which was posted.
LEMMA CommitKeys ==
  ASSUME LedgerInv, MovesAdd, NEW k \in Workers, Commit(k)
  PROVE  /\ {r.key : r \in rows'} = {r.key : r \in rows} \cup Atomic!KeysOf(tx[k].req)
         /\ Atomic!KeysOf(tx[k].req) \cap {r.key : r \in rows} = {}
<1>1. tx[k].req # None /\ tx[k].todo = {} /\ rows' = rows \cup tx[k].rows
  BY DEF Commit
<1>2. InFlight(k) /\ Adds(k, tx[k], lock, rows, wallet) /\ \A r \in tx[k].rows : RowIsLeg(r)
  BY DEF LedgerInv, MovesAdd
<1>3. \A l \in LegsOf[tx[k].req] : \E q \in tx[k].rows : q.key = l.key
  BY <1>1, <1>2 DEF InFlight
<1>4. \A r \in tx[k].rows : \E l \in LegsOf[tx[k].req] : l.key = r.key
  BY <1>2 DEF InFlight, RowIsLeg
<1>5. \A r \in tx[k].rows, q \in rows : q.key # r.key
  BY <1>1, <1>2 DEF Adds
<1>6. Atomic!KeysOf(tx[k].req) = {r.key : r \in tx[k].rows}
  BY <1>3, <1>4 DEF Atomic!KeysOf
<1> QED BY <1>1, <1>5, <1>6

\* A commit moves every wallet by the legs of its request on it.
LEMMA CommitBalances ==
  ASSUME LedgerInv, MovesAdd, NEW k \in Workers, Commit(k)
  PROVE  wallet' = [w \in Wallets |->
           [available |-> wallet[w].available + Atomic!AvailableSum(Atomic!OnWallet(tx[k].req, w)),
            held      |-> wallet[w].held + Atomic!HeldSum(Atomic!OnWallet(tx[k].req, w))]]
<1>1. /\ tx[k].req # None /\ tx[k].todo = {}
      /\ wallet' = [w \in Wallets |-> IF lock[w] = k THEN tx[k].saved[w] ELSE wallet[w]]
  BY DEF Commit
<1>2. TypeOK /\ Adds(k, tx[k], lock, rows, wallet)
  BY DEF LedgerInv, MovesAdd
<1>3. tx[k].req \in Requests
  BY <1>1, <1>2 DEF TypeOK
<1> SUFFICES ASSUME NEW w \in Wallets
             PROVE  wallet'[w] =
               [available |-> wallet[w].available + Atomic!AvailableSum(Atomic!OnWallet(tx[k].req, w)),
                held      |-> wallet[w].held + Atomic!HeldSum(Atomic!OnWallet(tx[k].req, w))]
  BY <1>1
<1>4. PostedOn(tx[k], w) = Atomic!OnWallet(tx[k].req, w)
  BY <1>1 DEF PostedOn, Atomic!OnWallet
<1>5. wallet[w] \in Balance /\ tx[k].saved[w] \in Balance
  BY <1>2 DEF TypeOK
<1>6. CASE lock[w] = k
  <2>1. /\ tx[k].saved[w].available = wallet[w].available + Atomic!AvailableSum(PostedOn(tx[k], w))
        /\ tx[k].saved[w].held = wallet[w].held + Atomic!HeldSum(PostedOn(tx[k], w))
    BY <1>1, <1>2, <1>6 DEF Adds
  <2>2. wallet'[w] = tx[k].saved[w]
    BY <1>1, <1>6
  <2> QED BY <1>4, <1>5, <2>1, <2>2 DEF Balance
<1>7. CASE lock[w] # k
  <2>1. PostedOn(tx[k], w) = {}
    BY <1>1, <1>2, <1>7 DEF Adds
  <2>2. Atomic!AvailableSum({}) = 0 /\ Atomic!HeldSum({}) = 0
    BY LegSums, FS_EmptySet
  <2>3. /\ Atomic!AvailableSum(Atomic!OnWallet(tx[k].req, w)) = 0
        /\ Atomic!HeldSum(Atomic!OnWallet(tx[k].req, w)) = 0
    BY <1>4, <2>1, <2>2, Zenon
  <2>4. wallet'[w] = wallet[w]
    BY <1>1, <1>7
  <2> QED BY <1>5, <2>3, <2>4 DEF Balance
<1> QED BY <1>6, <1>7

\* Every step of the ledger is a movement of the abstract one, or none.
LEMMA StepIsAtomic ==
  LedgerInv /\ LedgerInv' /\ MovesAdd /\ [Next]_vars
    => [Atomic!Next]_<<wallet, {r.key : r \in rows}>>
<1> SUFFICES ASSUME LedgerInv, LedgerInv', MovesAdd, [Next]_vars
             PROVE  Atomic!Next \/ UNCHANGED <<wallet, rows>>
  OBVIOUS
<1>1. CASE UNCHANGED vars
  BY <1>1 DEF vars
<1>2. ASSUME NEW k \in Workers, NEW r \in Requests, Begin(k, r) PROVE UNCHANGED <<wallet, rows>>
  BY <1>2 DEF Begin
<1>3. ASSUME NEW k \in Workers, lockWallet(k) \/ moveLeg(k) \/ Rollback(k) PROVE UNCHANGED <<wallet, rows>>
  BY <1>3 DEF lockWallet, moveLeg, PostLeg, RefuseLeg, Rollback
<1>4. ASSUME NEW k \in Workers, Commit(k) PROVE Atomic!Next
  <2>1. tx[k].req \in Requests /\ LegsOf[tx[k].req] # {}
    BY <1>4 DEF LedgerInv, TypeOK, MovesAdd, Adds, Commit
  <2>2. \A w \in Wallets : wallet'[w].available >= 0 /\ wallet'[w].held >= 0
    BY DEF LedgerInv, NeverOverdrawn
  <2>3. PICK r \in Requests : r = tx[k].req
    BY <2>1
  <2>4. Atomic!Move(r)
    BY <1>4, <2>1, <2>2, <2>3, CommitKeys, CommitBalances DEF Atomic!Move
  <2> QED BY <2>4 DEF Atomic!Next
<1> QED BY <1>1, <1>2, <1>3, <1>4 DEF Next

\* A Move with its locks, its partial postings and its rollbacks is, to anyone reading
\* committed rows, one indivisible movement of the abstract ledger (Repo.Move: "Every leg
\* lands in one transaction").
THEOREM MovesAreAtomic == Spec => MoveIsAtomic
<1>1. Init => MovesAdd /\ Atomic!Init
  <2> SUFFICES ASSUME Init PROVE MovesAdd /\ Atomic!Init
    OBVIOUS
  <2>1. MovesAdd
    BY IdleAdds DEF Init, MovesAdd
  <2>2. Atomic!Init
    BY DEF Init, Atomic!Init, Zero
  <2> QED BY <2>1, <2>2
<1>2. Spec => []LedgerInv
  BY InvHolds
<1>3. LedgerInv /\ LedgerInv' /\ MovesAdd /\ [Next]_vars => [Atomic!Next]_<<wallet, {r.key : r \in rows}>>
  BY StepIsAtomic
<1>4. LedgerInv /\ MovesAdd /\ [Next]_vars => MovesAdd'
  BY MovesAddKept
<1> QED BY <1>1, <1>2, <1>3, <1>4, PTL DEF Spec, MoveIsAtomic, Atomic!Spec
==============================================================================
