---------------------------- MODULE PurchaseProofs ----------------------------
(***************************************************************************)
(* The two sides of a purchase, for any drafts, lines, legs, rails,        *)
(* callers, quantity and number of failures.                               *)
(*                                                                         *)
(* Finance: a payment session is paid only when it is covered, ends one    *)
(* way and is announced once (PaymentSound, PaymentOneWay).  The inductive *)
(* invariant says of each running handler what its step relies on          *)
(* (PayerFits), and of two handlers that they never hold the same leg      *)
(* number before its row exists and never announce both (HandlersApart).   *)
(*                                                                         *)
(* Order: no unit is sold twice, and a draft is paid for once and becomes  *)
(* one whole order (SaleSound, LineOneWay).  The inductive invariant has   *)
(* three parts: what the rows say (SaleRows), what each running handler    *)
(* relies on (HandlerFits), with the claim on a draft and the release of a *)
(* line in one hand (Apart), and that every line somebody still owes a     *)
(* unit to has one behind it (Backed).                                     *)
(* To whoever asks which lines have a unit, the counters and the rows are  *)
(* one atomic stock (StockIsAtomic): they implement UnitPromises.          *)
(***************************************************************************)
EXTENDS PaymentSession, CheckoutSettlement, SumLemmas, SequenceTheorems, FiniteSetTheorems, TLAPS

-----------------------------------------------------------------------------
(* What the successful legs amount to *)

Successes(L) == {l \in LegIDs : L[l].status \in {"success"}}
AmountOf(L)  == [l \in Successes(L) |-> L[l].amount]
Collected(L) == Cardinality(Units(AmountOf(L), Successes(L)))

Covered == SumOfLegs({"success"}) >= Total

\* The fold that SumOfLegs is, of any legs, is the count of their units.
LEMMA LegFold ==
  ASSUME NEW L \in [LegIDs -> Leg], NEW S, S = Successes(L)
  PROVE  LET it == CHOOSE h : h = [s \in SUBSET S |->
                     IF s = {} THEN 0
                     ELSE L[CHOOSE x \in s : TRUE].amount + h[s \ {CHOOSE x \in s : TRUE}]]
         IN  it[S] = Collected(L)
<1> DEFINE f == AmountOf(L)
           Solves(h) == h = [s \in SUBSET S |->
                     IF s = {} THEN 0
                     ELSE L[CHOOSE x \in s : TRUE].amount + h[s \ {CHOOSE x \in s : TRUE}]]
           it == CHOOSE h : Solves(h)
<1>1. Total \in Nat /\ MaxLegs \in Nat
  BY PaymentAssumption
<1>2. IsFiniteSet(S) /\ S \subseteq LegIDs
  <2>1. IsFiniteSet(1 .. MaxLegs)
    BY <1>1, FS_Interval
  <2>2. S \in SUBSET LegIDs
    BY DEF Successes
  <2> QED BY <2>1, <2>2, FS_Subset DEF LegIDs
<1>3. f \in [S -> 0 .. Total]
  BY <1>2 DEF AmountOf, Successes, Leg
<1>4. \A s \in SUBSET S : s # {} => f[Pick(s)] = L[CHOOSE x \in s : TRUE].amount
  BY PickIsMember DEF Pick, AmountOf
<1>5. \A h : Solves(h) <=> IsFold(h, f, S)
  <2> TAKE h
  <2> DEFINE A == [s \in SUBSET S |-> IF s = {} THEN 0
                     ELSE L[CHOOSE x \in s : TRUE].amount + h[s \ {CHOOSE x \in s : TRUE}]]
             B == [s \in SUBSET S |-> IF s = {} THEN 0 ELSE f[Pick(s)] + h[s \ {Pick(s)}]]
  <2>1. A = B
    BY <1>4 DEF Pick
  <2>2. Solves(h) <=> h = A
    OBVIOUS
  <2>3. IsFold(h, f, S) <=> h = B
    BY DEF IsFold
  <2> HIDE DEF A, B, Solves
  <2> QED BY <2>1, <2>2, <2>3
<1>6. \E h : Solves(h)
  <2> DEFINE u == [s \in SUBSET S |-> Cardinality(Units(f, s))]
  <2> HIDE DEF f, Solves
  <2>1. IsFold(u, f, S)
    BY <1>1, <1>2, <1>3, FoldExists
  <2> HIDE DEF u
  <2>2. Solves(u)
    BY <1>5, <2>1
  <2> QED BY <2>2
<1>7. Solves(it)
  <2> HIDE DEF Solves
  <2> QED BY <1>6
<1>8. IsFold(it, f, S)
  <2> HIDE DEF it, f, Solves
  <2> QED BY <1>5, <1>7
<1> HIDE DEF it, f
<1>9. it[S] = Cardinality(Units(f, S))
  BY <1>1, <1>2, <1>3, <1>8, FoldCountsUnits
<1> QED BY <1>9 DEF it, f, Collected

\* What the legs amount to now, and after a step.
LEMMA SumNow ==
  ASSUME legs \in [LegIDs -> Leg]
  PROVE  SumOfLegs({"success"}) = Collected(legs)
<1>1. SumOfLegs({"success"})
      = MapThenSumSet(LAMBDA l : legs[l].amount, Successes(legs))
  BY DEF SumOfLegs, Successes
<1> DEFINE S == Successes(legs)
<1> HIDE DEF S
<1>2. MapThenSumSet(LAMBDA l : legs[l].amount, S)
      = LET it == CHOOSE h : h = [s \in SUBSET S |->
                     IF s = {} THEN 0
                     ELSE legs[CHOOSE x \in s : TRUE].amount + h[s \ {CHOOSE x \in s : TRUE}]]
        IN  it[S]
  BY DEF MapThenSumSet, MapThenFoldSet
<1> QED BY <1>1, <1>2, LegFold DEF S

\* The same of the legs after a step.
LEMMA SumNext ==
  ASSUME legs' \in [LegIDs -> Leg]
  PROVE  SumOfLegs({"success"})' = Collected(legs')
<1> DEFINE S == Successes(legs')
<1>1. SumOfLegs({"success"})'
      = LET it == CHOOSE h : h = [s \in SUBSET S |->
                     IF s = {} THEN 0
                     ELSE legs'[CHOOSE x \in s : TRUE].amount + h[s \ {CHOOSE x \in s : TRUE}]]
        IN  it[S]
  BY DEF SumOfLegs, Successes, MapThenSumSet, MapThenFoldSet
<1> HIDE DEF S
<1> QED BY <1>1, LegFold DEF S

\* What was collected is a number, and it only grows while the successful legs
\* stay as they are.
LEMMA CollectedGrows ==
  ASSUME NEW L \in [LegIDs -> Leg], NEW K \in [LegIDs -> Leg],
         \A l \in LegIDs : L[l].status = "success" => K[l] = L[l]
  PROVE  /\ Collected(L) \in Nat /\ Collected(K) \in Nat
         /\ Collected(L) <= Collected(K)
<1>1. Total \in Nat /\ MaxLegs \in Nat
  BY PaymentAssumption
<1>2. IsFiniteSet(LegIDs)
  BY <1>1, FS_Interval DEF LegIDs
<1>3. IsFiniteSet(Successes(L)) /\ IsFiniteSet(Successes(K))
  <2>1. Successes(L) \in SUBSET LegIDs /\ Successes(K) \in SUBSET LegIDs
    BY DEF Successes
  <2> QED BY <1>2, <2>1, FS_Subset
<1>4. Successes(L) \in SUBSET Successes(K)
  BY DEF Successes
<1>5. AmountOf(L) \in [Successes(L) -> 0 .. Total] /\ AmountOf(K) \in [Successes(K) -> 0 .. Total]
  BY DEF AmountOf, Successes, Leg
<1>6. \A l \in Successes(L) : AmountOf(L)[l] <= AmountOf(K)[l]
  <2> TAKE l \in Successes(L)
  <2>1. AmountOf(L)[l] = AmountOf(K)[l]
    BY <1>4 DEF AmountOf, Successes
  <2>2. AmountOf(L)[l] \in Nat
    BY <1>1, <1>5
  <2> QED BY <2>1, <2>2
<1>7. Collected(L) \in Nat /\ Collected(K) \in Nat
  BY <1>1, <1>3, <1>5, UnitsFinite DEF Collected
<1>8. Collected(L) <= Collected(K)
  BY <1>1, <1>3, <1>4, <1>5, <1>6, UnitsGrow DEF Collected
<1> QED BY <1>7, <1>8

\* A covered session stays covered while no successful leg is rewritten.
LEMMA CoveredStays ==
  ASSUME legs \in [LegIDs -> Leg], legs' \in [LegIDs -> Leg],
         \A l \in LegIDs : legs[l].status = "success" => legs'[l] = legs[l], Covered
  PROVE  Covered'
<1> DEFINE L == legs
           K == legs'
<1>1. /\ Collected(L) \in Nat /\ Collected(K) \in Nat
      /\ Collected(L) <= Collected(K)
  BY CollectedGrows
<1>2. Collected(L) >= Total
  BY SumNow DEF Covered
<1>3. Total \in Nat /\ Total' = Total
  BY PaymentAssumption
<1>4. SumOfLegs({"success"})' = Collected(K)
  BY SumNext
<1>5. Collected(K) >= Total
  BY <1>1, <1>2, <1>3
<1> QED BY <1>4, <1>5 DEF Covered

\* A session with nothing outstanding is covered (tenderOf).
LEMMA NothingOutstanding ==
  ASSUME legs \in [LegIDs -> Leg], ~(Outstanding > 0)
  PROVE  Covered
<1> DEFINE c == Collected(legs)
<1>1. c \in Nat /\ Total \in Nat
  BY CollectedGrows, PaymentAssumption
<1>2. Outstanding = Max({0, Total - c})
  BY SumNow DEF Outstanding
<1> HIDE DEF c
<1>3. c >= Total
  <2> SUFFICES ASSUME c < Total PROVE FALSE
    BY <1>1
  <2>1. Total - c \in Int /\ Total - c > 0
    BY <1>1
  <2>2. \E x \in {0, Total - c} : \A y \in {0, Total - c} : x >= y
    BY <2>1
  <2>3. Max({0, Total - c}) \in {0, Total - c} /\ \A y \in {0, Total - c} : Max({0, Total - c}) >= y
    BY <2>2 DEF Max
  <2> QED BY <1>1, <1>2, <2>1, <2>3
<1> QED BY <1>3, SumNow DEF Covered, c

-----------------------------------------------------------------------------
(* The inductive invariant *)

PayerRunning ==
  [op : {"none", "start", "settle", "cancel", "approve", "reject"},
   at : {"idle", "legs", "charge", "insert", "processing", "leg", "session",
         "reopen", "credit", "paid", "publish", "save", "return"},
   s : SessionStatuses, l : 0 .. MaxLegs, leg : Leg,
   status : {"none", "success", "failed", "cancelled"}]

\* A number was allocated and its row is not inserted yet.
Placing == {"charge", "insert"}

\* The rows: only allocated numbers have a leg, nothing happens to a session that
\* is not opened, an announcement follows a settled session and is the only one.
PaymentRows ==
  /\ kind \in {"none", "buyer-checkout", "withdrawal"}
  /\ payment \in SessionStatuses
  /\ late \in BOOLEAN /\ credited \in BOOLEAN /\ returned \in BOOLEAN
  /\ seq \in 0 .. MaxLegs
  /\ legs \in [LegIDs -> Leg]
  /\ page \in [LegIDs -> {"none", "created", "open", "closed"}]
  /\ reports \in [LegIDs -> SUBSET {"success", "failed"}]
  /\ published \in [paid : Nat, cancelled : Nat]
  /\ payFailures \in 0 .. MaxPaymentFailures
  /\ \A l \in LegIDs : legs[l].status # "none" => l <= seq
  /\ kind = "none" => payment = "none" /\ seq = 0
  /\ published.paid + published.cancelled <= 1
  /\ published.paid + published.cancelled > 0 => Settled(payment)
  /\ credited => Covered
  /\ kind = "buyer-checkout" /\ payment = "success" => credited
  /\ returned => payment \in {"cancelled", "failed"}
  /\ kind = "withdrawal" => seq = 0

\* What a handler relies on at its next step.
PayerFits(h) ==
  /\ h.op \in {"approve", "reject"} => kind = "withdrawal"
  /\ h.at \in Placing => /\ h.l \in 1 .. seq /\ legs[h.l].status = "none"
                         /\ h.leg.status = "pending" /\ h.status # "cancelled"
  /\ h.at \in {"processing", "leg", "session", "reopen"} => h.l \in 1 .. seq
  /\ h.at \in {"legs", "processing"} => h.status # "cancelled"
  /\ h.at = "leg" => h.status \in {"success", "failed"}
  /\ h.at \in {"credit", "paid"} => Covered
  /\ h.at = "paid" => credited
  /\ h.at = "save" => <<h.op, h.status>> \in
       {<<"cancel", "cancelled">>, <<"approve", "success">>, <<"reject", "failed">>}
  /\ h.at = "publish" => Settled(payment) /\ published.paid + published.cancelled = 0
  /\ h.at = "return" => payment \in {"cancelled", "failed"}

\* Two handlers never hold the same unused number and never announce both.
HandlersApart(g, h) ==
  /\ ~(g.at = "publish" /\ h.at = "publish")
  /\ g.at \in Placing /\ h.at \in Placing => g.l # h.l

PaymentInv ==
  /\ PaymentRows
  /\ payer \in [PaymentCallers -> PayerRunning]
  /\ \A p \in PaymentCallers : PayerFits(payer[p])
  /\ \A p, q \in PaymentCallers : p # q => HandlersApart(payer[p], payer[q])

\* The invariant says all that PaymentSound says.
LEMMA PaymentInvIsSound == PaymentInv => PaymentSound
<1> SUFFICES ASSUME PaymentInv PROVE PaymentSound
  OBVIOUS
<1>1. PaymentTypeOK
  BY DEF PaymentInv, PaymentRows, PaymentTypeOK, PayerRunning
<1>2. PaidIsCovered /\ AnnouncedOnce /\ WithdrawalOneWay
  BY DEF PaymentInv, PaymentRows, PaidIsCovered, AnnouncedOnce, WithdrawalOneWay, Covered,
         RailPayable
<1> QED BY <1>1, <1>2 DEF PaymentSound

\* An idle handler is a handler that relies on nothing.
LEMMA IdlePayer ==
  /\ PayerIdle \in PayerRunning
  /\ PayerIdle.at = "idle" /\ PayerIdle.op = "none" /\ PayerIdle.status = "none"
  /\ PayerFits(PayerIdle) /\ PayerFits(PayerIdle)'
<1>1. NoLeg \in Leg /\ 0 \in 0 .. MaxLegs
  BY PaymentAssumption DEF NoLeg, Leg
<1>2. PayerIdle \in PayerRunning
  BY <1>1 DEF PayerIdle, PayerRunning, SessionStatuses
<1>3. PayerIdle.at = "idle" /\ PayerIdle.op = "none" /\ PayerIdle.status = "none"
  BY DEF PayerIdle
<1>4. PayerFits(PayerIdle)
  BY <1>3 DEF PayerFits, Placing
<1>5. PayerFits(PayerIdle)'
  BY <1>3 DEF PayerFits, Placing, PayerIdle
<1> QED BY <1>2, <1>3, <1>4, <1>5

\* What another handler relies on is not disturbed by a step that keeps outcomes,
\* what was collected and the numbers it holds.
LEMMA HandlerFitsStays ==
  ASSUME PaymentRows, NEW g \in PayerRunning, PayerFits(g),
         kind = "withdrawal" => kind' = "withdrawal", seq' \in Nat, seq <= seq',
         Covered => Covered', credited => credited',
         Settled(payment) => payment' = payment,
         g.at = "publish" => published' = published,
         g.at \in Placing => legs'[g.l].status = legs[g.l].status
  PROVE  PayerFits(g)'
<1>1. seq \in Nat
  BY PaymentAssumption DEF PaymentRows
<1>2. (g.op \in {"approve", "reject"} => kind = "withdrawal")'
  BY DEF PayerFits
<1>3. (g.at \in Placing => /\ g.l \in 1 .. seq /\ legs[g.l].status = "none"
                           /\ g.leg.status = "pending" /\ g.status # "cancelled")'
  <2> SUFFICES ASSUME g.at \in Placing
               PROVE  /\ g.l \in 1 .. seq' /\ legs'[g.l].status = "none"
                      /\ g.leg.status = "pending" /\ g.status # "cancelled"
    BY DEF Placing
  <2>1. /\ g.l \in 1 .. seq /\ legs[g.l].status = "none"
        /\ g.leg.status = "pending" /\ g.status # "cancelled"
    BY DEF PayerFits
  <2> QED BY <1>1, <2>1
<1>4. (g.at \in {"processing", "leg", "session", "reopen"} => g.l \in 1 .. seq)'
  BY <1>1 DEF PayerFits
<1>5. (g.at = "publish" => Settled(payment) /\ published.paid + published.cancelled = 0)'
  BY DEF PayerFits
<1>6. (g.at = "return" => payment \in {"cancelled", "failed"})'
  BY DEF PayerFits, Settled
<1>7. (g.at \in {"credit", "paid"} => Covered)' /\ (g.at = "paid" => credited)'
  BY DEF PayerFits
<1>8. /\ g.at \in {"legs", "processing"} => g.status # "cancelled"
      /\ g.at = "leg" => g.status \in {"success", "failed"}
      /\ g.at = "save" => <<g.op, g.status>> \in
           {<<"cancel", "cancelled">>, <<"approve", "success">>, <<"reject", "failed">>}
  BY DEF PayerFits
<1> QED BY <1>2, <1>3, <1>4, <1>5, <1>6, <1>7, <1>8 DEF PayerFits

\* One handler moves and the others keep what they rely on.
LEMMA PayerStep ==
  ASSUME PaymentInv, PaymentRows', NEW p \in PaymentCallers, NEW h \in PayerRunning,
         payer' = [payer EXCEPT ![p] = h], PayerFits(h)',
         \A q \in PaymentCallers \ {p} : HandlersApart(h, payer[q]),
         kind = "withdrawal" => kind' = "withdrawal", seq <= seq',
         Covered => Covered', credited => credited',
         Settled(payment) => payment' = payment,
         \A q \in PaymentCallers \ {p} :
           /\ payer[q].at = "publish" => published' = published
           /\ payer[q].at \in Placing => legs'[payer[q].l].status = legs[payer[q].l].status
  PROVE  PaymentInv'
<1>1. payer' \in [PaymentCallers -> PayerRunning]
  BY DEF PaymentInv
<1>2. ASSUME NEW q \in PaymentCallers PROVE PayerFits(payer[q])'
  <2>1. CASE q = p
    <3>1. payer'[q] = h
      BY <2>1 DEF PaymentInv
    <3> QED BY <3>1 DEF PayerFits
  <2>2. CASE q # p
    <3>1. PICK g \in PayerRunning : g = payer[q]
      BY DEF PaymentInv
    <3>2. payer'[q] = g
      BY <2>2, <3>1 DEF PaymentInv
    <3>3. PayerFits(g)
      BY <3>1 DEF PaymentInv
    <3>4. seq' \in Nat
      BY PaymentAssumption DEF PaymentRows
    <3>5. /\ g.at = "publish" => published' = published
          /\ g.at \in Placing => legs'[g.l].status = legs[g.l].status
      BY <2>2, <3>1
    <3>6. PayerFits(g)'
      BY <3>3, <3>4, <3>5, HandlerFitsStays DEF PaymentInv
    <3> QED BY <3>2, <3>6 DEF PayerFits
  <2> QED BY <2>1, <2>2
<1>3. ASSUME NEW q \in PaymentCallers, NEW r \in PaymentCallers, q # r
      PROVE  HandlersApart(payer[q], payer[r])'
  <2>1. HandlersApart(payer[q], payer[r]) /\ HandlersApart(payer[r], payer[q])
    BY <1>3 DEF PaymentInv
  <2>2. /\ payer'[q] = IF q = p THEN h ELSE payer[q]
        /\ payer'[r] = IF r = p THEN h ELSE payer[r]
    BY DEF PaymentInv
  <2>3. HandlersApart(payer'[q], payer'[r])
    BY <1>3, <2>1, <2>2 DEF HandlersApart
  <2> QED BY <2>3 DEF HandlersApart, Placing
<1> QED BY <1>1, <1>2, <1>3 DEF PaymentInv

-----------------------------------------------------------------------------
(* Steps that leave the session, its legs and the money alone *)

\* The rows are as sound as they were.
LEMMA PaymentRowsRest ==
  ASSUME PaymentRows, UNCHANGED <<kind, payment, seq, legs, credited, returned, published>>,
         late' \in BOOLEAN, page' \in [LegIDs -> {"none", "created", "open", "closed"}],
         reports' \in [LegIDs -> SUBSET {"success", "failed"}],
         payFailures' \in 0 .. MaxPaymentFailures
  PROVE  PaymentRows' /\ (Covered => Covered')
<1>1. Covered => Covered'
  BY CoveredStays DEF PaymentRows
<1>2. PaymentRows'
  BY <1>1 DEF PaymentRows, Settled
<1> QED BY <1>1, <1>2

\* No handler moves.
LEMMA NoHandlerMoves ==
  ASSUME PaymentInv, UNCHANGED <<seq, legs, published, payer>>, PaymentRows',
         kind = "withdrawal" => kind' = "withdrawal", Covered => Covered',
         credited => credited', Settled(payment) => payment' = payment
  PROVE  PaymentInv'
<1>1. payer' \in [PaymentCallers -> PayerRunning]
  BY DEF PaymentInv
<1>2. ASSUME NEW q \in PaymentCallers PROVE PayerFits(payer[q])'
  <2>1. PICK g \in PayerRunning : g = payer[q]
    BY DEF PaymentInv
  <2>2. seq \in Nat /\ seq' = seq
    BY PaymentAssumption DEF PaymentInv, PaymentRows
  <2>3. PayerFits(g)'
    BY <2>1, <2>2, HandlerFitsStays DEF PaymentInv
  <2> QED BY <2>1, <2>3 DEF PayerFits
<1>3. ASSUME NEW q \in PaymentCallers, NEW r \in PaymentCallers, q # r
      PROVE  HandlersApart(payer[q], payer[r])'
  BY <1>3 DEF PaymentInv, HandlersApart, Placing
<1> QED BY <1>1, <1>2, <1>3 DEF PaymentInv

\* A handler moves to a step at which it holds no number and announces nothing.
LEMMA QuietHandler ==
  ASSUME PaymentInv, UNCHANGED <<kind, payment, seq, legs, credited, returned, published>>,
         late' \in BOOLEAN, page' \in [LegIDs -> {"none", "created", "open", "closed"}],
         reports' \in [LegIDs -> SUBSET {"success", "failed"}],
         payFailures' \in 0 .. MaxPaymentFailures,
         NEW p \in PaymentCallers, NEW h \in PayerRunning,
         payer' = [payer EXCEPT ![p] = h], PayerFits(h)',
         h.at \notin {"publish", "charge", "insert"}
  PROVE  PaymentInv'
<1>1. PaymentRows' /\ (Covered => Covered')
  BY PaymentRowsRest DEF PaymentInv
<1>2. \A q \in PaymentCallers \ {p} : HandlersApart(h, payer[q])
  BY DEF HandlersApart, Placing
<1>3. seq <= seq'
  BY PaymentAssumption DEF PaymentInv, PaymentRows
<1> QED BY <1>1, <1>2, <1>3, PayerStep

\* The types the quiet variables have.
LEMMA PaymentRowTypes ==
  ASSUME PaymentInv
  PROVE  /\ late \in BOOLEAN /\ page \in [LegIDs -> {"none", "created", "open", "closed"}]
         /\ reports \in [LegIDs -> SUBSET {"success", "failed"}]
         /\ payFailures \in 0 .. MaxPaymentFailures
BY DEF PaymentInv, PaymentRows

\* A request or a delivery begins.
LEMMA BeginStep ==
  ASSUME PaymentInv, NEW p \in PaymentCallers, NEW h \in PayerRunning, BeginPayment(p, h),
         UNCHANGED <<kind, payment, late, seq, legs, page, reports, credited, returned,
                     published, payFailures>>,
         h.at \in {"legs", "leg", "save"}, h.at = "legs" => h.status # "cancelled",
         h.op \in {"approve", "reject"} => kind = "withdrawal",
         h.at = "leg" => h.l \in 1 .. seq /\ h.status \in {"success", "failed"},
         h.at = "save" => <<h.op, h.status>> \in
           {<<"cancel", "cancelled">>, <<"approve", "success">>, <<"reject", "failed">>}
  PROVE  PaymentInv'
<1>1. PayerFits(h)'
  BY DEF PayerFits, Placing
<1>2. payer' = [payer EXCEPT ![p] = h]
  BY DEF BeginPayment
<1> QED BY <1>1, <1>2, PaymentRowTypes, QuietHandler

\* A handler that reads the session and the legs it will work on writes nothing.
LEMMA BeginsKeep ==
  ASSUME PaymentInv, NEW p \in PaymentCallers,
         \/ StartPayment(p) \/ CancelSession(p) \/ CancelWithdrawal(p)
         \/ AdminApproveWithdrawal(p) \/ AdminRejectWithdrawal(p)
         \/ \E l \in LegIDs, s \in {"success", "failed"} : Settle(p, l, s)
  PROVE  PaymentInv'
<1> USE DEF gatewayUnchanged, moneyUnchanged, clockUnchanged
<1>1. payment \in SessionStatuses
  BY DEF PaymentInv, PaymentRows
<1>2. CASE StartPayment(p)
  <2> DEFINE h == [PayerIdle EXCEPT !.op = "start", !.at = "legs", !.s = payment]
  <2>1. h \in PayerRunning /\ h.at = "legs" /\ h.op = "start" /\ h.status = "none"
    BY <1>1, IdlePayer DEF PayerRunning
  <2> HIDE DEF h
  <2> QED BY <1>2, <2>1, BeginStep DEF StartPayment, h
<1>3. CASE CancelSession(p) \/ CancelWithdrawal(p)
  <2> DEFINE h == [PayerIdle EXCEPT !.op = "cancel", !.at = "save", !.status = "cancelled"]
  <2>1. h \in PayerRunning /\ h.at = "save" /\ h.op = "cancel" /\ h.status = "cancelled"
    BY IdlePayer DEF PayerRunning
  <2> HIDE DEF h
  <2> QED BY <1>3, <2>1, BeginStep DEF CancelSession, CancelWithdrawal, h
<1>4. CASE AdminApproveWithdrawal(p)
  <2> DEFINE h == [PayerIdle EXCEPT !.op = "approve", !.at = "save", !.status = "success"]
  <2>1. h \in PayerRunning /\ h.at = "save" /\ h.op = "approve" /\ h.status = "success"
    BY IdlePayer DEF PayerRunning
  <2> HIDE DEF h
  <2> QED BY <1>4, <2>1, BeginStep DEF AdminApproveWithdrawal, h
<1>5. CASE AdminRejectWithdrawal(p)
  <2> DEFINE h == [PayerIdle EXCEPT !.op = "reject", !.at = "save", !.status = "failed"]
  <2>1. h \in PayerRunning /\ h.at = "save" /\ h.op = "reject" /\ h.status = "failed"
    BY IdlePayer DEF PayerRunning
  <2> HIDE DEF h
  <2> QED BY <1>5, <2>1, BeginStep DEF AdminRejectWithdrawal, h
<1>6. ASSUME NEW l \in LegIDs, NEW s \in {"success", "failed"}, Settle(p, l, s)
      PROVE  PaymentInv'
  <2> DEFINE h == [PayerIdle EXCEPT !.op = "settle", !.at = "leg", !.l = l, !.status = s]
  <2>1. l \in 0 .. MaxLegs
    BY PaymentAssumption DEF LegIDs
  <2>2. h \in PayerRunning
    BY <2>1, IdlePayer DEF PayerRunning
  <2>3. h.at = "leg" /\ h.op = "settle" /\ h.status = s /\ h.l = l
    BY IdlePayer DEF PayerRunning
  <2>4. l \in 1 .. seq
    <3>1. legs[l].status # "none"
      BY <1>6 DEF Settle
    <3>2. l <= seq /\ seq \in 0 .. MaxLegs
      BY <3>1 DEF PaymentInv, PaymentRows
    <3> QED BY <3>2, PaymentAssumption DEF LegIDs
  <2> HIDE DEF h
  <2> QED BY <1>6, <2>2, <2>3, <2>4, BeginStep DEF Settle, h
<1> QED BY <1>2, <1>3, <1>4, <1>5, <1>6

\* A handler ends: it answers, fails or dies.
LEMMA DoneKeeps ==
  ASSUME PaymentInv, NEW p \in PaymentCallers, PaymentDone(p),
         UNCHANGED <<kind, payment, seq, legs, credited, returned, published>>,
         late' \in BOOLEAN, page' \in [LegIDs -> {"none", "created", "open", "closed"}],
         reports' \in [LegIDs -> SUBSET {"success", "failed"}],
         payFailures' \in 0 .. MaxPaymentFailures
  PROVE  PaymentInv'
<1>1. payer' = [payer EXCEPT ![p] = PayerIdle]
  BY DEF PaymentDone
<1> QED BY <1>1, IdlePayer, QuietHandler

\* The page the payer walked away from is shown again, or nothing is tendered.
LEMMA ResumeKeeps ==
  ASSUME PaymentInv, NEW p \in PaymentCallers, NEW o, resumable(p, o) \/ refuseStart(p, o)
  PROVE  PaymentInv'
<1>1. page' \in [LegIDs -> {"none", "created", "open", "closed"}]
  <2>1. page \in [LegIDs -> {"none", "created", "open", "closed"}]
    BY PaymentRowTypes
  <2>2. CASE resumable(p, o)
    <3>1. PICK l \in LegIDs : page' = [page EXCEPT ![l] = IF @ = "created" THEN "open" ELSE @]
      BY <2>2 DEF resumable
    <3> QED BY <2>1, <3>1
  <2>3. CASE refuseStart(p, o)
    BY <2>1, <2>3 DEF refuseStart, gatewayUnchanged
  <2> QED BY <2>2, <2>3
<1>2. /\ PaymentDone(p)
      /\ UNCHANGED <<kind, payment, late, seq, legs, reports, credited, returned, published,
                     payFailures>>
  BY DEF resumable, refuseStart, gatewayUnchanged, moneyUnchanged, clockUnchanged
<1> QED BY <1>1, <1>2, PaymentRowTypes, DoneKeeps

\* A leg gets its number: nobody else holds it, and no row has it.
LEMMA StartLegKeeps ==
  ASSUME PaymentInv, NEW p \in PaymentCallers, NEW o \in Rails \cup DirectRails,
         NEW a \in 1 .. Total, startLeg(p, o, a)
  PROVE  PaymentInv'
<1> USE DEF gatewayUnchanged, moneyUnchanged
<1>1. seq \in Nat /\ MaxLegs \in Nat /\ seq < MaxLegs /\ seq' = seq + 1
      /\ payer[p].at = "legs" /\ kind = "buyer-checkout"
  BY PaymentAssumption DEF PaymentInv, PaymentRows, startLeg, PaymentAt, CanCharge, RailPayable
<1>2. NewCharge(o, a) \in Leg /\ NewCharge(o, a).status = "pending"
  BY PaymentAssumption DEF NewCharge, Leg
<1>3. PICK g \in PayerRunning : g = payer[p]
  BY DEF PaymentInv
<1>4. PICK h \in PayerRunning :
        h = [g EXCEPT !.at = "charge", !.l = seq + 1, !.leg = NewCharge(o, a)]
  <2>1. seq + 1 \in 0 .. MaxLegs
    BY <1>1
  <2>2. [g EXCEPT !.at = "charge", !.l = seq + 1, !.leg = NewCharge(o, a)] \in PayerRunning
    BY <1>2, <2>1 DEF PayerRunning
  <2> QED BY <2>2
<1>5. payer' = [payer EXCEPT ![p] = h]
  BY <1>3, <1>4 DEF startLeg, PaymentInv
<1>6. UNCHANGED <<kind, payment, late, legs, page, reports, credited, returned, published,
                  payFailures>>
  BY DEF startLeg
<1>7. legs[seq + 1].status = "none" /\ seq + 1 \in LegIDs
  <2>1. seq + 1 \in LegIDs
    BY <1>1 DEF LegIDs
  <2>2. legs[seq + 1].status # "none" => seq + 1 <= seq
    BY <2>1 DEF PaymentInv, PaymentRows
  <2> QED BY <1>1, <2>1, <2>2
<1>8. Covered => Covered'
  BY <1>6, CoveredStays DEF PaymentInv, PaymentRows
<1>9. PaymentRows'
  <2>1. seq' \in 0 .. MaxLegs
    BY <1>1
  <2>2. \A l \in LegIDs : legs[l].status # "none" => l <= seq'
    BY <1>1 DEF PaymentInv, PaymentRows, LegIDs
  <2> QED BY <1>1, <1>6, <1>8, <2>1, <2>2 DEF PaymentInv, PaymentRows, Settled
<1>10. h.at = "charge" /\ h.l = seq + 1 /\ h.leg = NewCharge(o, a) /\ h.op = g.op
       /\ h.status = g.status
  BY <1>4 DEF PayerRunning
<1>11. PayerFits(h)'
  <2>1. g.op \notin {"approve", "reject"}
    BY <1>1, <1>3 DEF PaymentInv, PayerFits
  <2>2. g.status # "cancelled"
    BY <1>1, <1>3 DEF PaymentInv, PayerFits
  <2> QED BY <1>1, <1>2, <1>6, <1>7, <1>10, <2>1, <2>2 DEF PayerFits, Placing
<1>12. ASSUME NEW q \in PaymentCallers \ {p} PROVE HandlersApart(h, payer[q])
  <2>1. payer[q].at \in Placing => payer[q].l \in 1 .. seq
    BY DEF PaymentInv, PayerFits
  <2> QED BY <1>1, <1>10, <2>1 DEF HandlersApart
<1>13. seq <= seq'
  BY <1>1
<1> QED BY <1>5, <1>6, <1>8, <1>9, <1>11, <1>12, <1>13, PayerStep

\* The rail answers: the number stays the handler's own.
LEMMA ChargeKeeps ==
  ASSUME PaymentInv, NEW p \in PaymentCallers, Charge(p)
  PROVE  PaymentInv'
<1> USE DEF moneyUnchanged, clockUnchanged
<1>1. PICK g \in PayerRunning : g = payer[p]
  BY DEF PaymentInv
<1>2. g.at = "charge" /\ PayerFits(g)
  BY <1>1 DEF PaymentInv, Charge, PaymentAt
<1>3. UNCHANGED <<kind, payment, late, seq, legs, reports, credited, returned, published,
                  payFailures>>
  BY DEF Charge
<1>4. page' \in [LegIDs -> {"none", "created", "open", "closed"}]
  BY PaymentRowTypes DEF Charge
<1>5. PICK h \in PayerRunning :
        /\ payer' = [payer EXCEPT ![p] = h] /\ h.at = "insert" /\ h.l = g.l /\ h.leg = g.leg
        /\ h.op = g.op /\ h.status # "cancelled"
  <2>1. CASE g.leg.option \in Rails
    <3> DEFINE h == [g EXCEPT !.at = "insert"]
    <3>1. h \in PayerRunning /\ h.at = "insert" /\ h.l = g.l /\ h.leg = g.leg
          /\ h.op = g.op /\ h.status = g.status
      BY DEF PayerRunning
    <3>2. payer' = [payer EXCEPT ![p] = h]
      BY <1>1, <2>1 DEF Charge, PaymentGoto
    <3>3. g.status # "cancelled"
      BY <1>2 DEF PayerFits, Placing
    <3> HIDE DEF h
    <3> QED BY <3>1, <3>2, <3>3
  <2>2. CASE g.leg.option \notin Rails
    <3>1. PICK s \in {"success", "failed"} :
            payer' = [payer EXCEPT ![p].at = "insert", ![p].status = s]
      BY <1>1, <2>2 DEF Charge
    <3> DEFINE h == [g EXCEPT !.at = "insert", !.status = s]
    <3>2. h \in PayerRunning
      BY DEF PayerRunning
    <3>3. h.at = "insert" /\ h.l = g.l /\ h.leg = g.leg /\ h.op = g.op /\ h.status = s
      BY DEF PayerRunning
    <3>4. payer' = [payer EXCEPT ![p] = h]
      BY <1>1, <3>1 DEF PaymentInv
    <3> HIDE DEF h
    <3> QED BY <3>2, <3>3, <3>4
  <2> QED BY <2>1, <2>2
<1>6. PaymentRows' /\ (Covered => Covered')
  BY <1>3, <1>4, PaymentRowTypes, PaymentRowsRest DEF PaymentInv
<1>7. PayerFits(h)'
  BY <1>2, <1>3, <1>5 DEF PayerFits, Placing
<1>8. ASSUME NEW q \in PaymentCallers \ {p} PROVE HandlersApart(h, payer[q])
  <2>1. HandlersApart(payer[p], payer[q])
    BY DEF PaymentInv
  <2> QED BY <1>1, <1>2, <1>5, <2>1 DEF HandlersApart, Placing
<1>9. seq <= seq'
  BY <1>3, PaymentAssumption DEF PaymentInv, PaymentRows
<1> QED BY <1>3, <1>5, <1>6, <1>7, <1>8, <1>9, PayerStep

\* The row appears under a number that only this handler holds.
LEMMA LegInsertKeeps ==
  ASSUME PaymentInv, NEW p \in PaymentCallers, InsertTransaction(p)
  PROVE  PaymentInv'
<1> USE DEF gatewayUnchanged, moneyUnchanged, clockUnchanged
<1>1. PICK g \in PayerRunning : g = payer[p]
  BY DEF PaymentInv
<1>2. g.at = "insert" /\ PayerFits(g)
  BY <1>1 DEF PaymentInv, InsertTransaction, PaymentAt
<1>3. /\ UNCHANGED <<kind, payment, late, seq, page, reports, credited, returned, published,
                     payFailures>>
      /\ legs' = [legs EXCEPT ![g.l] = g.leg]
  BY <1>1 DEF InsertTransaction
<1>4. PICK h \in PayerRunning :
        /\ payer' = [payer EXCEPT ![p] = h] /\ h.at = "processing" /\ h.l = g.l
        /\ h.op = g.op /\ h.status = g.status
  <2> DEFINE h == [g EXCEPT !.at = "processing"]
  <2>1. h \in PayerRunning /\ h.at = "processing" /\ h.l = g.l /\ h.op = g.op
        /\ h.status = g.status
    BY DEF PayerRunning
  <2>2. payer' = [payer EXCEPT ![p] = h]
    BY <1>1 DEF InsertTransaction, PaymentGoto
  <2> HIDE DEF h
  <2> QED BY <2>1, <2>2
<1>5. g.l \in 1 .. seq /\ legs[g.l].status = "none" /\ g.status # "cancelled"
  BY <1>2 DEF PayerFits, Placing
<1>6. seq \in 0 .. MaxLegs /\ seq \in Nat /\ MaxLegs \in Nat
  BY PaymentAssumption DEF PaymentInv, PaymentRows
<1>7. g.l \in LegIDs /\ g.leg \in Leg
  BY <1>5, <1>6 DEF LegIDs, PayerRunning
<1>8. legs \in [LegIDs -> Leg] /\ legs' \in [LegIDs -> Leg]
  BY <1>3, <1>7 DEF PaymentInv, PaymentRows
<1>9. \A l \in LegIDs : legs[l].status = "success" => legs'[l] = legs[l]
  BY <1>3, <1>5, <1>8
<1>10. Covered => Covered'
  BY <1>8, <1>9, CoveredStays
<1>11. \A l \in LegIDs : legs'[l].status # "none" => l <= seq
  BY <1>3, <1>5, <1>6, <1>8 DEF PaymentInv, PaymentRows
<1>12. PaymentRows'
  BY <1>3, <1>8, <1>10, <1>11 DEF PaymentInv, PaymentRows, Settled
<1>13. PayerFits(h)'
  BY <1>2, <1>3, <1>4, <1>5 DEF PayerFits, Placing
<1>14. \A q \in PaymentCallers \ {p} : HandlersApart(h, payer[q])
  BY <1>4 DEF HandlersApart, Placing
<1>15. ASSUME NEW q \in PaymentCallers \ {p}, payer[q].at \in Placing
       PROVE  legs'[payer[q].l].status = legs[payer[q].l].status
  <2>1. payer[q].l # g.l
    BY <1>1, <1>2, <1>15 DEF PaymentInv, HandlersApart, Placing
  <2>2. payer[q].l \in 1 .. seq
    BY <1>15 DEF PaymentInv, PayerFits
  <2>3. payer[q].l \in LegIDs
    BY <1>6, <2>2 DEF LegIDs
  <2> QED BY <1>3, <1>8, <2>1, <2>3
<1>16. seq <= seq'
  BY <1>3, <1>6
<1> QED BY <1>3, <1>4, <1>10, <1>12, <1>13, <1>14, <1>15, <1>16, PayerStep

\* A leg's outcome is booked on a pending row only.
LEMMA SaveTransactionKeeps ==
  ASSUME PaymentInv, NEW p \in PaymentCallers, SaveTransaction(p)
  PROVE  PaymentInv'
<1> USE DEF gatewayUnchanged, moneyUnchanged, clockUnchanged
<1>1. PICK g \in PayerRunning : g = payer[p]
  BY DEF PaymentInv
<1>2. g.at = "leg" /\ PayerFits(g)
  BY <1>1 DEF PaymentInv, SaveTransaction, PaymentAt
<1>3. UNCHANGED <<kind, payment, late, seq, page, reports, credited, returned, published,
                  payFailures>>
  BY DEF SaveTransaction
<1>4. CASE ~SaveTransactionLands(g.l)
  BY <1>1, <1>3, <1>4, PaymentRowTypes, DoneKeeps DEF SaveTransaction
<1>5. CASE SaveTransactionLands(g.l)
  <2>1. legs' = [legs EXCEPT ![g.l].status = g.status] /\ legs[g.l].status = "pending"
    BY <1>1, <1>5 DEF SaveTransaction, SaveTransactionLands
  <2>2. PICK h \in PayerRunning :
          /\ payer' = [payer EXCEPT ![p] = h] /\ h.at = "session" /\ h.l = g.l
          /\ h.op = g.op /\ h.status = g.status
    <3> DEFINE h == [g EXCEPT !.at = "session"]
    <3>1. h \in PayerRunning /\ h.at = "session" /\ h.l = g.l /\ h.op = g.op
          /\ h.status = g.status
      BY DEF PayerRunning
    <3>2. payer' = [payer EXCEPT ![p] = h]
      BY <1>1, <1>5 DEF SaveTransaction, PaymentGoto
    <3> HIDE DEF h
    <3> QED BY <3>1, <3>2
  <2>3. g.l \in 1 .. seq /\ g.status \in {"success", "failed"}
    BY <1>2 DEF PayerFits
  <2>4. seq \in 0 .. MaxLegs /\ seq \in Nat /\ MaxLegs \in Nat
    BY PaymentAssumption DEF PaymentInv, PaymentRows
  <2>5. g.l \in LegIDs
    BY <2>3, <2>4 DEF LegIDs
  <2>6. legs \in [LegIDs -> Leg] /\ legs' \in [LegIDs -> Leg]
    <3>1. legs \in [LegIDs -> Leg]
      BY DEF PaymentInv, PaymentRows
    <3>2. [legs[g.l] EXCEPT !.status = g.status] \in Leg
      BY <2>3, <2>5, <3>1 DEF Leg
    <3>3. legs' = [legs EXCEPT ![g.l] = [legs[g.l] EXCEPT !.status = g.status]]
      BY <2>1
    <3> QED BY <3>1, <3>2, <3>3
  <2>7. \A l \in LegIDs : legs[l].status = "success" => legs'[l] = legs[l]
    BY <2>1, <2>6
  <2>8. Covered => Covered'
    BY <2>6, <2>7, CoveredStays
  <2>9. \A l \in LegIDs : legs'[l].status # "none" => l <= seq
    BY <2>1, <2>3, <2>4, <2>6 DEF PaymentInv, PaymentRows
  <2>10. PaymentRows'
    BY <1>3, <2>6, <2>8, <2>9 DEF PaymentInv, PaymentRows, Settled
  <2>11. PayerFits(h)'
    BY <1>2, <1>3, <2>2, <2>3 DEF PayerFits, Placing
  <2>12. \A q \in PaymentCallers \ {p} : HandlersApart(h, payer[q])
    BY <2>2 DEF HandlersApart, Placing
  <2>13. ASSUME NEW q \in PaymentCallers \ {p}, payer[q].at \in Placing
         PROVE  legs'[payer[q].l].status = legs[payer[q].l].status
    <3>1. payer[q].l \in 1 .. seq /\ legs[payer[q].l].status = "none"
      BY <2>13 DEF PaymentInv, PayerFits
    <3>2. payer[q].l \in LegIDs /\ payer[q].l # g.l
      BY <2>1, <2>4, <3>1 DEF LegIDs
    <3> QED BY <2>1, <2>6, <3>2
  <2>14. seq <= seq'
    BY <1>3, <2>4
  <2> QED BY <1>3, <2>2, <2>8, <2>10, <2>11, <2>12, <2>13, <2>14, PayerStep
<1> QED BY <1>4, <1>5

\* With the legs and their numbers untouched, a covered session stays covered.
LEMMA LegsRest ==
  ASSUME PaymentInv, UNCHANGED <<legs, seq>>
  PROVE  (Covered => Covered') /\ seq <= seq' /\ seq \in Nat
BY CoveredStays, PaymentAssumption DEF PaymentInv, PaymentRows

\* A handler's copy with another next step.
LEMMA CopyAt ==
  ASSUME NEW p, payer \in [PaymentCallers -> PayerRunning], p \in PaymentCallers,
         NEW step \in {"leg", "reopen", "paid", "publish", "return"}, PaymentGoto(p, step)
  PROVE  \E h \in PayerRunning :
           /\ payer' = [payer EXCEPT ![p] = h] /\ h.at = step /\ h.l = payer[p].l
           /\ h.op = payer[p].op /\ h.status = payer[p].status
<1>1. PICK g \in PayerRunning : g = payer[p]
  OBVIOUS
<1> DEFINE h == [g EXCEPT !.at = step]
<1>2. h \in PayerRunning /\ h.at = step /\ h.l = g.l /\ h.op = g.op /\ h.status = g.status
  BY DEF PayerRunning
<1>3. payer' = [payer EXCEPT ![p] = h]
  BY <1>1 DEF PaymentGoto
<1> HIDE DEF h
<1> QED BY <1>1, <1>2, <1>3

\* The session goes to processing from pending only.
LEMMA SaveProcessingKeeps ==
  ASSUME PaymentInv, NEW p \in PaymentCallers, saveProcessing(p)
  PROVE  PaymentInv'
<1> USE DEF moneyUnchanged, clockUnchanged
<1>1. PICK g \in PayerRunning : g = payer[p]
  BY DEF PaymentInv
<1>2. g.at = "processing" /\ PayerFits(g)
  BY <1>1 DEF PaymentInv, saveProcessing, PaymentAt
<1>3. UNCHANGED <<kind, late, seq, legs, reports, credited, returned, published, payFailures>>
  BY DEF saveProcessing
<1>4. page' \in [LegIDs -> {"none", "created", "open", "closed"}]
  BY PaymentRowTypes DEF saveProcessing
<1>5. CASE ~SaveSessionLands({"pending"})
  BY <1>3, <1>4, <1>5, PaymentRowTypes, DoneKeeps DEF saveProcessing
<1>6. CASE SaveSessionLands({"pending"})
  <2>1. payment = "pending" /\ payment' = "processing"
    BY <1>6 DEF saveProcessing, SaveSessionLands
  <2>2. (Covered => Covered') /\ seq <= seq'
    BY <1>3, LegsRest
  <2>3. PaymentRows'
    BY <1>3, <1>4, <2>1, <2>2 DEF PaymentInv, PaymentRows, Settled, SessionStatuses
  <2>4. ~Settled(payment) /\ ~Settled(payment')
    BY <2>1 DEF Settled
  <2>5. PICK h \in PayerRunning :
          /\ payer' = [payer EXCEPT ![p] = h]
          /\ \/ h = PayerIdle
             \/ /\ h.at = "leg" /\ h.l = g.l /\ h.op = g.op /\ h.status = g.status
                /\ g.status # "none"
    <3>1. CASE g.status = "none"
      BY <1>1, <1>6, <3>1, IdlePayer DEF saveProcessing, PaymentDone
    <3>2. CASE g.status # "none"
      <4>1. PaymentGoto(p, "leg")
        BY <1>1, <1>6, <3>2 DEF saveProcessing
      <4> QED BY <1>1, <3>2, <4>1, CopyAt DEF PaymentInv
    <3> QED BY <3>1, <3>2
  <2>6. h.at \in {"idle", "leg"}
    BY <2>5, IdlePayer
  <2>7. PayerFits(h)'
    <3>1. CASE h = PayerIdle
      BY <3>1, IdlePayer
    <3>2. CASE h # PayerIdle
      <4>1. g.status \in {"success", "failed"}
        BY <1>2, <2>5, <3>2 DEF PayerFits, PayerRunning
      <4> QED BY <1>2, <1>3, <2>5, <3>2, <4>1 DEF PayerFits, Placing
    <3> QED BY <3>1, <3>2
  <2>8. \A q \in PaymentCallers \ {p} : HandlersApart(h, payer[q])
    BY <2>6 DEF HandlersApart, Placing
  <2> QED BY <1>3, <2>2, <2>3, <2>4, <2>5, <2>7, <2>8, PayerStep
<1> QED BY <1>5, <1>6

\* The session is read after the leg: only a covered one goes on to be credited.
LEMMA FindSessionKeeps ==
  ASSUME PaymentInv, NEW p \in PaymentCallers, findSession(p)
  PROVE  PaymentInv'
<1> USE DEF gatewayUnchanged, moneyUnchanged, clockUnchanged
<1>1. PICK g \in PayerRunning : g = payer[p]
  BY DEF PaymentInv
<1>2. g.at = "session" /\ PayerFits(g)
  BY <1>1 DEF PaymentInv, findSession, PaymentAt
<1>3. UNCHANGED <<kind, payment, late, seq, legs, page, reports, credited, returned, published,
                  payFailures>>
  BY DEF findSession
<1>4. CASE PaymentDone(p)
  BY <1>3, <1>4, PaymentRowTypes, DoneKeeps
<1>5. CASE PaymentGoto(p, "reopen")
  <2>1. PICK h \in PayerRunning :
          /\ payer' = [payer EXCEPT ![p] = h] /\ h.at = "reopen" /\ h.l = g.l
          /\ h.op = g.op /\ h.status = g.status
    BY <1>1, <1>5, CopyAt DEF PaymentInv
  <2>2. PayerFits(h)'
    BY <1>2, <1>3, <2>1 DEF PayerFits, Placing
  <2> QED BY <1>3, <2>1, <2>2, PaymentRowTypes, QuietHandler
<1>6. CASE /\ ~(Outstanding > 0)
           /\ payer' = [payer EXCEPT ![p].at = "credit", ![p].s = payment]
  <2> DEFINE h == [g EXCEPT !.at = "credit", !.s = payment]
  <2>1. payment \in SessionStatuses /\ legs \in [LegIDs -> Leg]
    BY DEF PaymentInv, PaymentRows
  <2>2. h \in PayerRunning /\ h.at = "credit" /\ h.op = g.op
    BY <2>1 DEF PayerRunning
  <2>3. payer' = [payer EXCEPT ![p] = h]
    BY <1>1, <1>6 DEF PaymentInv
  <2>4. Covered'
    BY <1>3, <1>6, <2>1, NothingOutstanding, LegsRest
  <2>5. PICK k \in PayerRunning : k = h
    BY <2>2
  <2> HIDE DEF h
  <2>6. PayerFits(k)'
    BY <1>2, <1>3, <2>2, <2>4, <2>5 DEF PayerFits, Placing
  <2>7. k.at \notin {"publish", "charge", "insert"} /\ payer' = [payer EXCEPT ![p] = k]
    BY <2>2, <2>3, <2>5
  <2> QED BY <1>3, <2>6, <2>7, PaymentRowTypes, QuietHandler
<1> QED BY <1>4, <1>5, <1>6 DEF findSession

\* A refused leg reopens a session that is still in flight.
LEMMA ReopenKeeps ==
  ASSUME PaymentInv, NEW p \in PaymentCallers, ReopenForRetry(p)
  PROVE  PaymentInv'
<1> USE DEF gatewayUnchanged, moneyUnchanged, clockUnchanged
<1>1. UNCHANGED <<kind, late, seq, legs, page, reports, credited, returned, published,
                  payFailures>>
  BY DEF ReopenForRetry
<1>2. payer' = [payer EXCEPT ![p] = PayerIdle]
  BY DEF ReopenForRetry, PaymentDone
<1>3. payment' = payment \/ (payment = "processing" /\ payment' = "pending")
  BY DEF ReopenForRetry, SaveSessionLands
<1>4. (Covered => Covered') /\ seq <= seq'
  BY <1>1, LegsRest
<1>5. PaymentRows'
  BY <1>1, <1>3, <1>4 DEF PaymentInv, PaymentRows, Settled, SessionStatuses
<1>6. Settled(payment) => payment' = payment
  BY <1>3 DEF Settled
<1>7. \A q \in PaymentCallers \ {p} : HandlersApart(PayerIdle, payer[q])
  BY IdlePayer DEF HandlersApart, Placing
<1> QED BY <1>1, <1>2, <1>4, <1>5, <1>6, <1>7, IdlePayer, PayerStep

\* The credit is made by a handler that saw the session covered.
LEMMA CreditKeeps ==
  ASSUME PaymentInv, NEW p \in PaymentCallers, creditRail(p)
  PROVE  PaymentInv'
<1> USE DEF gatewayUnchanged, clockUnchanged
<1>1. PICK g \in PayerRunning : g = payer[p]
  BY DEF PaymentInv
<1>2. g.at = "credit" /\ PayerFits(g)
  BY <1>1 DEF PaymentInv, creditRail, PaymentAt
<1>3. UNCHANGED <<kind, payment, late, seq, legs, page, reports, returned, published, payFailures>>
  BY DEF creditRail
<1>4. credited' = TRUE
  BY DEF creditRail
<1>5. Covered' /\ seq <= seq'
  BY <1>2, <1>3, LegsRest DEF PayerFits
<1>6. credited' \in BOOLEAN
  BY <1>4
<1>7. PaymentRows'
  BY <1>3, <1>4, <1>5, <1>6 DEF PaymentInv, PaymentRows, Settled
<1>8. PICK h \in PayerRunning :
        /\ payer' = [payer EXCEPT ![p] = h]
        /\ h = PayerIdle \/ (h.at = "paid" /\ h.op = g.op)
  <2>1. CASE PaymentDone(p)
    BY <2>1, IdlePayer DEF PaymentDone
  <2>2. CASE PaymentGoto(p, "paid")
    BY <1>1, <2>2, CopyAt DEF PaymentInv
  <2> QED BY <2>1, <2>2 DEF creditRail
<1>9. PayerFits(h)' /\ h.at \in {"idle", "paid"}
  <2>1. CASE h = PayerIdle
    BY <2>1, IdlePayer
  <2>2. CASE h # PayerIdle
    BY <1>2, <1>3, <1>4, <1>5, <1>8, <2>2 DEF PayerFits, Placing
  <2> QED BY <2>1, <2>2
<1>10. \A q \in PaymentCallers \ {p} : HandlersApart(h, payer[q])
  BY <1>9 DEF HandlersApart, Placing
<1>11. credited => credited'
  BY <1>4
<1> QED BY <1>3, <1>5, <1>7, <1>8, <1>9, <1>10, <1>11, PayerStep

\* Nobody announces while the session is not settled, and nothing was announced.
LEMMA NobodyAnnounces ==
  ASSUME PaymentInv, payment \in Unsettled
  PROVE  /\ published.paid + published.cancelled = 0
         /\ \A q \in PaymentCallers : payer[q].at # "publish"
<1>1. ~Settled(payment)
  BY DEF Unsettled, Settled
<1>2. \A q \in PaymentCallers : payer[q].at # "publish"
  BY <1>1 DEF PaymentInv, PayerFits
<1>3. published.paid \in Nat /\ published.cancelled \in Nat
      /\ ~(published.paid + published.cancelled > 0)
  BY <1>1 DEF PaymentInv, PaymentRows
<1> QED BY <1>2, <1>3

\* The session is paid once, by a handler that credited it.
LEMMA MarkPaidKeeps ==
  ASSUME PaymentInv, NEW p \in PaymentCallers, MarkPaid(p)
  PROVE  PaymentInv'
<1> USE DEF gatewayUnchanged, moneyUnchanged, clockUnchanged
<1>1. PICK g \in PayerRunning : g = payer[p]
  BY DEF PaymentInv
<1>2. g.at = "paid" /\ PayerFits(g)
  BY <1>1 DEF PaymentInv, MarkPaid, PaymentAt
<1>3. UNCHANGED <<kind, late, seq, legs, page, reports, credited, returned, published, payFailures>>
  BY DEF MarkPaid
<1>4. CASE ~SaveSessionLands(Unsettled)
  BY <1>3, <1>4, PaymentRowTypes, DoneKeeps DEF MarkPaid
<1>5. CASE SaveSessionLands(Unsettled)
  <2>1. payment \in Unsettled /\ payment' = "success"
    BY <1>5 DEF MarkPaid, SaveSessionLands
  <2>2. credited /\ Covered' /\ seq <= seq'
    BY <1>2, <1>3, LegsRest DEF PayerFits
  <2>3. /\ published.paid + published.cancelled = 0
        /\ \A q \in PaymentCallers : payer[q].at # "publish"
    BY <2>1, NobodyAnnounces
  <2>4. ~returned
    BY <2>1 DEF PaymentInv, PaymentRows, Unsettled
  <2>5. kind # "none"
    BY <2>1 DEF PaymentInv, PaymentRows, Unsettled
  <2>6. PaymentRows'
    BY <1>3, <2>1, <2>2, <2>4, <2>5 DEF PaymentInv, PaymentRows, Settled, SessionStatuses
  <2>7. PICK h \in PayerRunning :
          payer' = [payer EXCEPT ![p] = h] /\ h.at = "publish" /\ h.op = g.op
    <3>1. PaymentGoto(p, "publish")
      BY <1>5 DEF MarkPaid
    <3> QED BY <1>1, <3>1, CopyAt DEF PaymentInv
  <2>8. PayerFits(h)'
    BY <1>2, <1>3, <2>1, <2>3, <2>7 DEF PayerFits, Placing, Settled
  <2>9. \A q \in PaymentCallers \ {p} : HandlersApart(h, payer[q])
    BY <2>3, <2>7 DEF HandlersApart, Placing
  <2>10. ~Settled(payment)
    BY <2>1 DEF Unsettled, Settled
  <2> QED BY <1>3, <2>2, <2>6, <2>7, <2>8, <2>9, <2>10, PayerStep
<1> QED BY <1>4, <1>5

\* The announcement is the handler's own, and the first.
LEMMA SessionPublishKeeps ==
  ASSUME PaymentInv, NEW p \in PaymentCallers, publishPaid(p) \/ publishCancelled(p)
  PROVE  PaymentInv'
<1> USE DEF gatewayUnchanged, clockUnchanged
<1>1. payer[p].at = "publish" /\ PayerFits(payer[p])
  BY DEF PaymentInv, publishPaid, publishCancelled, PaymentAt
<1>2. UNCHANGED <<kind, payment, late, seq, legs, page, reports, credited, returned, payFailures>>
  BY DEF publishPaid, publishCancelled
<1>3. payer' = [payer EXCEPT ![p] = PayerIdle]
  BY DEF publishPaid, publishCancelled, PaymentDone
<1>4. Settled(payment) /\ published.paid + published.cancelled = 0
  BY <1>1 DEF PayerFits
<1>5. /\ published' \in [paid : Nat, cancelled : Nat]
      /\ published'.paid + published'.cancelled = 1
  <2>1. published \in [paid : Nat, cancelled : Nat]
    BY DEF PaymentInv, PaymentRows
  <2>2. CASE publishPaid(p)
    <3>1. published' = [published EXCEPT !.paid = published.paid + 1]
      BY <2>2 DEF publishPaid
    <3> QED BY <1>4, <2>1, <3>1
  <2>3. CASE publishCancelled(p)
    <3>1. published' = [published EXCEPT !.cancelled = published.cancelled + 1]
      BY <2>3 DEF publishCancelled
    <3> QED BY <1>4, <2>1, <3>1
  <2> QED BY <2>2, <2>3
<1>6. (Covered => Covered') /\ seq <= seq'
  BY <1>2, LegsRest
<1>7. PaymentRows'
  BY <1>2, <1>4, <1>5, <1>6 DEF PaymentInv, PaymentRows, Settled
<1>8. \A q \in PaymentCallers \ {p} : payer[q].at # "publish"
  BY <1>1 DEF PaymentInv, HandlersApart
<1>9. \A q \in PaymentCallers \ {p} : HandlersApart(PayerIdle, payer[q])
  BY IdlePayer DEF HandlersApart, Placing
<1> QED BY <1>2, <1>3, <1>6, <1>7, <1>8, <1>9, IdlePayer, PayerStep

\* A checkout is cancelled, a withdrawal resolved, while it is not settled.
LEMMA SaveSessionKeeps ==
  ASSUME PaymentInv, NEW p \in PaymentCallers, SaveSession(p)
  PROVE  PaymentInv'
<1> USE DEF gatewayUnchanged, moneyUnchanged, clockUnchanged
<1>1. PICK g \in PayerRunning : g = payer[p]
  BY DEF PaymentInv
<1>2. g.at = "save" /\ PayerFits(g)
  BY <1>1 DEF PaymentInv, SaveSession, PaymentAt
<1>3. UNCHANGED <<kind, late, seq, legs, page, reports, credited, returned, published, payFailures>>
  BY DEF SaveSession
<1>4. CASE ~SaveSessionLands(Unsettled)
  BY <1>3, <1>4, PaymentRowTypes, DoneKeeps DEF SaveSession
<1>5. CASE SaveSessionLands(Unsettled)
  <2>1. payment \in Unsettled /\ payment' = g.status
    BY <1>1, <1>5 DEF SaveSession, SaveSessionLands
  <2>2. (Covered => Covered') /\ seq <= seq'
    BY <1>3, LegsRest
  <2>3. /\ published.paid + published.cancelled = 0
        /\ \A q \in PaymentCallers : payer[q].at # "publish"
    BY <2>1, NobodyAnnounces
  <2>4. ~returned /\ kind # "none"
    BY <2>1 DEF PaymentInv, PaymentRows, Unsettled
  <2>5. /\ g.status \in {"cancelled", "success", "failed"}
        /\ g.op = "approve" <=> g.status = "success"
    BY <1>2 DEF PayerFits
  <2>6. kind = "buyer-checkout" => payment' # "success"
    BY <1>2, <2>1, <2>5 DEF PayerFits
  <2>7. PaymentRows'
    BY <1>3, <2>1, <2>2, <2>4, <2>5, <2>6 DEF PaymentInv, PaymentRows, Settled, SessionStatuses
  <2>8. PICK h \in PayerRunning :
          /\ payer' = [payer EXCEPT ![p] = h]
          /\ \/ h = PayerIdle
             \/ h.at = "publish" /\ h.op = g.op
             \/ h.at = "return" /\ h.op = g.op /\ g.op # "approve"
    <3>1. CASE PaymentDone(p)
      BY <3>1, IdlePayer DEF PaymentDone
    <3>2. CASE PaymentGoto(p, "publish")
      BY <1>1, <3>2, CopyAt DEF PaymentInv
    <3>3. CASE PaymentGoto(p, "return") /\ g.op # "approve"
      BY <1>1, <3>3, CopyAt DEF PaymentInv
    <3> QED BY <1>1, <1>5, <3>1, <3>2, <3>3 DEF SaveSession
  <2>9. PayerFits(h)' /\ h.at \notin Placing
    <3>1. CASE h = PayerIdle
      BY <3>1, IdlePayer DEF Placing
    <3>2. CASE h # PayerIdle
      BY <1>2, <1>3, <2>1, <2>3, <2>5, <2>8, <3>2 DEF PayerFits, Placing, Settled
    <3> QED BY <3>1, <3>2
  <2>10. \A q \in PaymentCallers \ {p} : HandlersApart(h, payer[q])
    BY <2>3, <2>9 DEF HandlersApart
  <2>11. ~Settled(payment)
    BY <2>1 DEF Unsettled, Settled
  <2> QED BY <1>3, <2>2, <2>7, <2>8, <2>9, <2>10, <2>11, PayerStep
<1> QED BY <1>4, <1>5

\* The debit goes back for a withdrawal that was cancelled or refused.
LEMMA ReturnKeeps ==
  ASSUME PaymentInv, NEW p \in PaymentCallers, returnWithdrawal(p)
  PROVE  PaymentInv'
<1> USE DEF gatewayUnchanged, clockUnchanged
<1>1. payer[p].at = "return" /\ PayerFits(payer[p])
  BY DEF PaymentInv, returnWithdrawal, PaymentAt
<1>2. UNCHANGED <<kind, payment, late, seq, legs, page, reports, credited, published, payFailures>>
  BY DEF returnWithdrawal
<1>3. payer' = [payer EXCEPT ![p] = PayerIdle]
  BY DEF returnWithdrawal, PaymentDone
<1>4. payment \in {"cancelled", "failed"}
  BY <1>1 DEF PayerFits
<1>5. returned' \in BOOLEAN
  BY DEF returnWithdrawal
<1>6. (Covered => Covered') /\ seq <= seq'
  BY <1>2, LegsRest
<1>7. PaymentRows'
  BY <1>2, <1>4, <1>5, <1>6 DEF PaymentInv, PaymentRows, Settled
<1>8. \A q \in PaymentCallers \ {p} : HandlersApart(PayerIdle, payer[q])
  BY IdlePayer DEF HandlersApart, Placing
<1> QED BY <1>2, <1>3, <1>6, <1>7, <1>8, IdlePayer, PayerStep

\* Opening a session, the payer, the clock and failures.
LEMMA SurroundingsKeep ==
  ASSUME PaymentInv,
         \/ OpenCheckout \/ CreateWithdrawal \/ DeadlinePasses
         \/ \E l \in LegIDs : PayerPays(l) \/ PayerDeclined(l)
         \/ UNCHANGED paymentVars
  PROVE  PaymentInv'
<1> USE DEF gatewayUnchanged, moneyUnchanged, clockUnchanged
<1>1. CASE OpenCheckout \/ CreateWithdrawal
  <2>1. /\ kind = "none" /\ kind' \in {"buyer-checkout", "withdrawal"} /\ payment' = "pending"
        /\ UNCHANGED <<late, seq, legs, page, reports, credited, returned, published, payer,
                       payFailures>>
    BY <1>1 DEF OpenCheckout, CreateWithdrawal
  <2>2. Covered => Covered'
    BY <2>1, LegsRest
  <2>3. payment = "none" /\ seq = 0
    BY <2>1 DEF PaymentInv, PaymentRows
  <2>4. PaymentRows'
    BY <2>1, <2>2, <2>3 DEF PaymentInv, PaymentRows, Settled, SessionStatuses
  <2> QED BY <2>1, <2>2, <2>3, <2>4, NoHandlerMoves DEF Settled
<1>2. ASSUME UNCHANGED <<kind, payment, seq, legs, credited, returned, published, payer>>,
             late' \in BOOLEAN, page' \in [LegIDs -> {"none", "created", "open", "closed"}],
             reports' \in [LegIDs -> SUBSET {"success", "failed"}],
             payFailures' \in 0 .. MaxPaymentFailures
      PROVE  PaymentInv'
  <2>1. PaymentRows' /\ (Covered => Covered')
    BY <1>2, PaymentRowsRest DEF PaymentInv
  <2> QED BY <1>2, <2>1, NoHandlerMoves
<1>3. CASE DeadlinePasses
  <2>1. late' \in BOOLEAN
    BY <1>3 DEF DeadlinePasses
  <2> QED BY <1>2, <1>3, <2>1, PaymentRowTypes DEF DeadlinePasses
<1>4. ASSUME NEW l \in LegIDs, PayerPays(l) \/ PayerDeclined(l) PROVE PaymentInv'
  <2>1. page' \in [LegIDs -> {"none", "created", "open", "closed"}]
    BY <1>4, PaymentRowTypes DEF PayerPays, PayerDeclined
  <2>2. reports' \in [LegIDs -> SUBSET {"success", "failed"}]
    BY <1>4, PaymentRowTypes DEF PayerPays, PayerDeclined
  <2> QED BY <1>2, <1>4, <2>1, <2>2, PaymentRowTypes DEF PayerPays, PayerDeclined
<1>5. CASE UNCHANGED paymentVars
  BY <1>2, <1>5, PaymentRowTypes DEF paymentVars
<1> QED BY <1>1, <1>3, <1>4, <1>5

\* A handler is cut short.
LEMMA FailureKeeps ==
  ASSUME PaymentInv, NEW p \in PaymentCallers, PaymentFails(p)
  PROVE  PaymentInv'
<1>1. payFailures' \in 0 .. MaxPaymentFailures
  BY PaymentAssumption, PaymentRowTypes DEF PaymentFails
<1> QED BY <1>1, PaymentRowTypes, DoneKeeps DEF PaymentFails, gatewayUnchanged, moneyUnchanged

\* Every step keeps the invariant.
LEMMA PaymentInvKept ==
  ASSUME PaymentInv, [PaymentNext]_paymentVars
  PROVE  PaymentInv'
<1>1. ASSUME NEW p \in PaymentCallers, Continue(p) PROVE PaymentInv'
  BY <1>1, ResumeKeeps, StartLegKeeps, ChargeKeeps, LegInsertKeeps, SaveProcessingKeeps,
     SaveTransactionKeeps, FindSessionKeeps, ReopenKeeps, CreditKeeps, MarkPaidKeeps, SessionPublishKeeps,
     SaveSessionKeeps, ReturnKeeps DEF Continue
<1>2. ASSUME NEW p \in PaymentCallers,
             \/ StartPayment(p) \/ CancelSession(p) \/ CancelWithdrawal(p)
             \/ AdminApproveWithdrawal(p) \/ AdminRejectWithdrawal(p)
      PROVE  PaymentInv'
  BY <1>2, BeginsKeep
<1>3. ASSUME NEW l \in LegIDs, Deliver(l) PROVE PaymentInv'
  BY <1>3, BeginsKeep DEF Deliver
<1> QED BY <1>1, <1>2, <1>3, FailureKeeps, SurroundingsKeep DEF PaymentNext

\* It holds before anything happens.
LEMMA PaymentInvFirst == PaymentInit => PaymentInv
<1> SUFFICES ASSUME PaymentInit PROVE PaymentInv
  OBVIOUS
<1>1. late \in BOOLEAN /\ credited \in BOOLEAN /\ returned \in BOOLEAN
  BY DEF PaymentInit
<1>2. NoLeg \in Leg /\ NoLeg.status = "none"
  BY PaymentAssumption DEF NoLeg, Leg
<1>3. legs \in [LegIDs -> Leg] /\ \A l \in LegIDs : legs[l].status = "none"
  BY <1>2 DEF PaymentInit
<1>4. PaymentRows
  BY <1>1, <1>3, PaymentAssumption DEF PaymentInit, PaymentRows, SessionStatuses, Settled
<1>5. \A p \in PaymentCallers : payer[p] = PayerIdle
  BY DEF PaymentInit
<1>6. payer \in [PaymentCallers -> PayerRunning]
  BY IdlePayer DEF PaymentInit
<1>7. \A p \in PaymentCallers : PayerFits(payer[p])
  BY <1>5, IdlePayer
<1>8. \A p, q \in PaymentCallers : HandlersApart(payer[p], payer[q])
  BY <1>5, IdlePayer DEF HandlersApart, Placing
<1> QED BY <1>4, <1>6, <1>7, <1>8 DEF PaymentInv

\* The inductive invariant holds of every reachable state.
THEOREM PaymentInvHolds == PaymentSpec => []PaymentInv
BY PaymentInvFirst, PaymentInvKept, PTL DEF PaymentSpec

\* A session is paid only when its successful legs cover it and the credit is
\* made, is announced once and ends one way (settle, MarkPaid, CancelSession).
THEOREM PaymentsStaySound == PaymentSpec => []PaymentSound
BY PaymentInvHolds, PaymentInvIsSound, PTL

\* Neither a session's outcome nor a leg's is rewritten by a step (SaveSession,
\* SaveTransaction).
LEMMA OutcomesStay ==
  ASSUME PaymentInv, [PaymentNext]_paymentVars
  PROVE  /\ Settled(payment) => payment' = payment
         /\ \A l \in LegIDs : legs[l].status \in {"success", "failed"} => legs'[l] = legs[l]
<1> USE DEF gatewayUnchanged, moneyUnchanged, clockUnchanged
<1>1. CASE \E p \in PaymentCallers : InsertTransaction(p)
  <2>1. PICK p \in PaymentCallers : InsertTransaction(p)
    BY <1>1
  <2>2. legs[payer[p].l].status = "none"
    BY <2>1 DEF PaymentInv, PayerFits, Placing, InsertTransaction, PaymentAt
  <2> QED BY <2>1, <2>2 DEF InsertTransaction, PaymentInv, PaymentRows
<1>2. CASE \E p \in PaymentCallers : SaveTransaction(p)
  BY <1>2 DEF SaveTransaction, SaveTransactionLands, PaymentInv, PaymentRows
<1>3. CASE \E p \in PaymentCallers : \/ saveProcessing(p) \/ ReopenForRetry(p) \/ MarkPaid(p)
                                     \/ SaveSession(p)
  BY <1>3 DEF saveProcessing, ReopenForRetry, MarkPaid, SaveSession, SaveSessionLands, Unsettled,
              Settled
<1>4. CASE OpenCheckout \/ CreateWithdrawal
  <2>1. payment = "none"
    BY <1>4 DEF OpenCheckout, CreateWithdrawal, PaymentInv, PaymentRows
  <2> QED BY <1>4, <2>1 DEF OpenCheckout, CreateWithdrawal, Settled
<1>5. CASE UNCHANGED <<payment, legs>>
  BY <1>5
<1>6. \/ UNCHANGED <<payment, legs>> \/ OpenCheckout \/ CreateWithdrawal
      \/ \E p \in PaymentCallers :
           \/ InsertTransaction(p) \/ SaveTransaction(p) \/ saveProcessing(p)
           \/ ReopenForRetry(p) \/ MarkPaid(p) \/ SaveSession(p)
  <2>1. ASSUME NEW p \in PaymentCallers, Continue(p)
        PROVE  \/ UNCHANGED <<payment, legs>>
               \/ InsertTransaction(p) \/ SaveTransaction(p) \/ saveProcessing(p)
               \/ ReopenForRetry(p) \/ MarkPaid(p) \/ SaveSession(p)
    <3>1. ASSUME NEW o, resumable(p, o) \/ refuseStart(p, o) PROVE UNCHANGED <<payment, legs>>
      BY <3>1 DEF resumable, refuseStart
    <3>2. ASSUME NEW o, NEW a, startLeg(p, o, a) PROVE UNCHANGED <<payment, legs>>
      BY <3>2 DEF startLeg
    <3>3. ASSUME \/ Charge(p) \/ findSession(p) \/ creditRail(p) \/ publishPaid(p)
                 \/ publishCancelled(p) \/ returnWithdrawal(p)
          PROVE  UNCHANGED <<payment, legs>>
      BY <3>3 DEF Charge, findSession, creditRail, publishPaid, publishCancelled, returnWithdrawal
    <3> QED BY <2>1, <3>1, <3>2, <3>3 DEF Continue
  <2>2. ASSUME NEW l \in LegIDs, Deliver(l) \/ PayerPays(l) \/ PayerDeclined(l)
        PROVE  UNCHANGED <<payment, legs>>
    BY <2>2 DEF Deliver, Settle, PayerPays, PayerDeclined
  <2>3. ASSUME NEW p \in PaymentCallers,
               \/ StartPayment(p) \/ CancelSession(p) \/ CancelWithdrawal(p)
               \/ AdminApproveWithdrawal(p) \/ AdminRejectWithdrawal(p) \/ PaymentFails(p)
        PROVE  UNCHANGED <<payment, legs>>
    BY <2>3 DEF StartPayment, CancelSession, CancelWithdrawal, AdminApproveWithdrawal,
                AdminRejectWithdrawal, PaymentFails
  <2>4. DeadlinePasses \/ UNCHANGED paymentVars => UNCHANGED <<payment, legs>>
    BY DEF DeadlinePasses, paymentVars
  <2> QED BY <2>1, <2>2, <2>3, <2>4 DEF PaymentNext
<1> QED BY <1>1, <1>2, <1>3, <1>4, <1>5, <1>6

\* A settled session and a settled leg are final, however late a webhook, a
\* rail's answer or a verdict arrives.
THEOREM PaymentsGoOneWay == PaymentSpec => PaymentOneWay
<1>1. PaymentInv /\ [PaymentNext]_paymentVars
      => [Settled(payment) => payment' = payment]_paymentVars
  BY OutcomesStay
<1>2. PaymentInv /\ [PaymentNext]_paymentVars
      => [\A l \in LegIDs : legs[l].status \in {"success", "failed"}
                              => legs'[l] = legs[l]]_paymentVars
  BY OutcomesStay
<1> QED BY <1>1, <1>2, PaymentInvHolds, PTL
        DEF PaymentSpec, PaymentOneWay, SettledSessionFinal, LegsFinal

-----------------------------------------------------------------------------
(* Drafts, their lines and the order they become *)

Running ==
  [op : {"none", "checkout", "cancel", "abandon", "expire", "settle"},
   at : {"idle", "claim", "reserve", "open", "insert", "undo", "next",
         "save", "release", "create", "link", "hold", "commit", "placed"},
   d : Drafts \cup {NoDraft}, lines : SUBSET Lines, todo : SUBSET Lines,
   line : SUBSET Lines, n : Nat]

\* The steps of a checkout that won its draft, and of a settlement.
Claimed    == {"reserve", "open", "insert", "undo"}
Settling   == {"create", "link", "hold", "commit", "placed"}
HasOrder   == {"link", "hold", "commit", "placed"}

\* The checkout of a draft has written its lines.
Inserted(d) == \E l \in LinesOf(d) : item[l].status # "none"

LiveLines(d) == {l \in LinesOf(d) : item[l].status = "live"}

\* The rows.  A linked line is live and its order is its draft's; nothing was
\* opened or written for a draft that is not closed; an order has its lines, its
\* escrow covers what is still live of them, and once announced their units are
\* sold.
SaleRows ==
  /\ draft \in [Drafts -> {"none", "open", "closed"}]
  /\ age \in [Drafts -> {"fresh", "expired", "late"}]
  /\ session \in [Drafts -> {"none", "pending", "paid", "cancelled"}]
  /\ opened \in [Drafts -> 0 .. 1]
  /\ item \in [Lines -> Item]
  /\ orders \in Seq(Drafts)
  /\ held \in Seq(Nat) /\ Len(held) = Len(orders)
  /\ committed \subseteq OrderIDs \X Lines
  /\ placed \subseteq OrderIDs
  /\ stock \in [Variants -> [reserved : Nat, sold : Nat]]
  /\ failures \in 0 .. MaxFailures
  /\ \A l \in Lines : item[l].order # 0 =>
       item[l].status = "live" /\ item[l].order \in OrderIDs /\ orders[item[l].order] = l[1]
  /\ \A d \in Drafts : draft[d] # "closed" => opened[d] = 0 /\ ~Inserted(d)
  /\ \A m, n \in OrderIDs : orders[m] = orders[n] => m = n
  /\ \A n \in OrderIDs : Inserted(orders[n])
  /\ \A n \in OrderIDs : held[n] # 0 => held[n] >= Cardinality(LiveLines(orders[n]))
  /\ \A n \in placed : held[n] # 0 /\ \A l \in LiveLines(orders[n]) : <<n, l>> \in committed

\* What a handler relies on at its next step.
HandlerFits(h) ==
  /\ h.n <= Len(orders)
  /\ h.at \in Claimed \cup {"claim"} =>
       h.op = "checkout" /\ h.d \in Drafts /\ h.lines \subseteq LinesOf(h.d) /\ h.todo \subseteq h.lines
  /\ h.at \in {"claim", "create", "link", "hold"} => h.todo = h.lines
  /\ h.at \in Claimed => draft[h.d] = "closed" /\ ~Inserted(h.d)
  /\ h.at \in {"reserve", "open"} => opened[h.d] = 0
  /\ h.at \in {"next", "save", "release"} => h.op \in {"cancel", "abandon", "expire"}
  /\ h.at \in {"save", "release"} => \E l \in Lines : h.line = {l}
  /\ h.at = "release" => \A l \in h.line : item[l].status = "cancelled"
  /\ h.at \in Settling =>
       /\ h.op = "settle" /\ h.d \in Drafts /\ Inserted(h.d)
       /\ h.lines \subseteq LinesOf(h.d) /\ h.lines # {} /\ h.todo \subseteq h.lines
       /\ LiveLines(h.d) \subseteq h.lines
  /\ h.at \in HasOrder => h.n \in OrderIDs /\ orders[h.n] = h.d
  /\ h.at \in {"commit", "placed"} =>
       held[h.n] # 0 /\ \A l \in h.lines \ h.todo : <<h.n, l>> \in committed
  /\ h.at = "placed" => h.todo = {}

\* One checkout holds a draft, and one handler releases a line.
Apart(g, h) ==
  /\ g.at \in Claimed /\ h.at \in Claimed => g.d # h.d
  /\ g.at = "release" /\ h.at = "release" => g.line \cap h.line = {}

\* The units a checkout has taken and not yet put behind a line.
TakenOf(h) ==
  CASE h.at = "reserve" -> h.lines \ h.todo
    [] h.at \in {"open", "insert"} -> h.lines
    [] h.at = "undo" -> h.todo
    [] OTHER -> {}

\* A handler owes a line's unit: it has taken it, or it is about to give it back.
Holds(h, l) == l \in TakenOf(h) \/ (h.at = "release" /\ l \in h.line)

Owed(v) == {l \in Lines : l[2] = v /\ (Live(l) \/ \E p \in Callers : Holds(proc[p], l))}

Backed ==
  \A v \in Variants :
    /\ Cardinality(Owed(v)) <= stock[v].reserved + stock[v].sold
    /\ stock[v].reserved + stock[v].sold <= Quantity

SaleInv ==
  /\ SaleRows /\ Backed
  /\ proc \in [Callers -> Running]
  /\ \A p \in Callers : HandlerFits(proc[p])
  /\ \A p, q \in Callers : p # q => Apart(proc[p], proc[q])

-----------------------------------------------------------------------------
(* The invariant says all that SaleSound says *)

\* There are finitely many lines, so any set of them can be counted.
LEMMA FiniteLines ==
  ASSUME NEW S \in SUBSET Lines
  PROVE  IsFiniteSet(S) /\ Cardinality(S) \in Nat
BY CheckoutAssumption, FS_Subset, FS_CardinalityType

\* A set of lines has no more members than a set that holds it.
LEMMA CardinalityGrows ==
  ASSUME NEW S \in SUBSET Lines, NEW T \in SUBSET S
  PROVE  Cardinality(T) <= Cardinality(S)
BY FiniteLines, FS_Subset

\* The inductive invariant says everything SaleSound does.
LEMMA SaleInvIsSound == SaleInv => SaleSound
<1> SUFFICES ASSUME SaleInv PROVE SaleSound
  OBVIOUS
<1>1. Len(orders) \in Nat /\ orders \in [1 .. Len(orders) -> Drafts] /\ held \in [1 .. Len(orders) -> Nat]
  BY LenProperties DEF SaleInv, SaleRows
<1>2. CheckoutTypeOK
  <2>1. opened \in [Drafts -> Nat]
    <3>1. opened \in [Drafts -> 0 .. 1]
      BY Zenon DEF SaleInv, SaleRows
    <3> QED BY <3>1
  <2>2. proc \in [Callers -> [op : {"none", "checkout", "cancel", "abandon", "expire", "settle"},
                         at : {"idle", "claim", "reserve", "open", "insert", "undo", "next",
                               "save", "release", "create", "link", "hold", "commit", "placed"},
                         d : Drafts \cup {NoDraft}, lines : SUBSET Lines, todo : SUBSET Lines,
                         line : SUBSET Lines, n : 0 .. Len(orders)]]
    <3>1. \A p \in Callers : proc[p] \in Running /\ proc[p].n <= Len(orders)
      BY DEF SaleInv, HandlerFits
    <3>2. \A p \in Callers : proc[p].n \in 0 .. Len(orders)
      BY <1>1, <3>1 DEF Running
    <3> QED BY <3>1, <3>2 DEF SaleInv, Running
  <2> QED BY <1>1, <2>1, <2>2 DEF SaleInv, SaleRows, CheckoutTypeOK, OrderIDs
<1>3. UnitsBacked
  <2> SUFFICES ASSUME NEW v \in Variants
               PROVE  /\ Cardinality(Claims(v)) <= stock[v].reserved + stock[v].sold
                      /\ stock[v].reserved + stock[v].sold <= Quantity
    BY DEF UnitsBacked
  <2>1. ASSUME NEW p \in Callers, NEW l \in Taken(p) PROVE Holds(proc[p], l)
    <3>1. proc[p] \in Running
      BY DEF SaleInv
    <3> QED BY <2>1, <3>1 DEF Holds, TakenOf, Taken, Running
  <2>2. Owed(v) \in SUBSET Lines /\ Claims(v) \in SUBSET Owed(v)
    BY <2>1 DEF Owed, Claims
  <2>3. /\ Cardinality(Claims(v)) <= Cardinality(Owed(v))
        /\ Cardinality(Owed(v)) \in Nat /\ Cardinality(Claims(v)) \in Nat
    BY <2>2, FiniteLines, CardinalityGrows
  <2>4. stock[v].reserved \in Nat /\ stock[v].sold \in Nat
    BY DEF SaleInv, SaleRows
  <2>5. /\ Cardinality(Owed(v)) <= stock[v].reserved + stock[v].sold
        /\ stock[v].reserved + stock[v].sold <= Quantity
    BY DEF SaleInv, Backed
  <2> QED BY <2>3, <2>4, <2>5
<1>4. SpentOnce
  BY DEF SaleInv, SaleRows, SpentOnce
<1>5. OneOrderPerSale
  BY DEF SaleInv, SaleRows, OneOrderPerSale
<1>6. \A n \in OrderIDs : {l \in Lines : item[l].order = n} \subseteq LiveLines(orders[n])
  BY DEF SaleInv, SaleRows, LiveLines, LinesOf, OrderIDs
<1>7. EscrowCoversLines
  <2> SUFFICES ASSUME NEW n \in OrderIDs, held[n] # 0
               PROVE  held[n] >= Cardinality({l \in Lines : item[l].order = n})
    BY DEF EscrowCoversLines
  <2> DEFINE S == {l \in Lines : item[l].order = n}
             T == LiveLines(orders[n])
  <2>1. T \in SUBSET Lines /\ S \in SUBSET T /\ S \in SUBSET Lines
    BY <1>6 DEF LiveLines, LinesOf
  <2>2. held[n] >= Cardinality(T) /\ held[n] \in Nat
    BY <1>1 DEF SaleInv, SaleRows, OrderIDs
  <2> HIDE DEF S, T
  <2>3. Cardinality(S) <= Cardinality(T) /\ Cardinality(S) \in Nat /\ Cardinality(T) \in Nat
    BY <2>1, FiniteLines, CardinalityGrows
  <2>4. held[n] >= Cardinality(S)
    BY <2>2, <2>3
  <2> QED BY <2>4 DEF S
<1>8. PlacedIsWhole
  BY <1>6 DEF SaleInv, SaleRows, PlacedIsWhole
<1> QED BY <1>2, <1>3, <1>4, <1>5, <1>7, <1>8 DEF SaleSound

-----------------------------------------------------------------------------
(* What a step may do to the rows others rely on *)

Steady ==
  /\ \A d \in Drafts : draft[d] = "closed" => draft'[d] = "closed"
  /\ \A l \in Lines : item[l].status # "none" => item'[l].status # "none"
  /\ \A l \in Lines : item[l].status = "cancelled" => item'[l].status = "cancelled"
  /\ \A d \in Drafts : Inserted(d) =>
       \A l \in LinesOf(d) : item'[l].status = "live" => item[l].status = "live"
  /\ Len(orders) <= Len(orders') /\ Len(orders') \in Nat
  /\ \A n \in OrderIDs : orders'[n] = orders[n] /\ (held[n] # 0 => held'[n] = held[n])
  /\ committed \subseteq committed'

\* Nothing of a draft that another checkout has claimed is touched.
Untouched(d) ==
  /\ opened'[d] = opened[d]
  /\ \A l \in LinesOf(d) : item'[l].status = item[l].status

\* What a steady step does to the sets the invariant speaks of.
LEMMA SteadySets ==
  ASSUME Steady, NEW d \in Drafts, Inserted(d)
  PROVE  Inserted(d)' /\ LiveLines(d)' \subseteq LiveLines(d)
<1>1. LinesOf(d)' = LinesOf(d) /\ LinesOf(d) \subseteq Lines
  BY DEF LinesOf
<1>2. Inserted(d)'
  BY <1>1 DEF Steady, Inserted
<1>3. LiveLines(d)' \subseteq LiveLines(d)
  BY <1>1 DEF Steady, LiveLines
<1> QED BY <1>2, <1>3

\* What one handler relies on survives a step of another that leaves the lines it works on alone.
LEMMA FitsStays ==
  ASSUME SaleRows, Steady, NEW g \in Running, HandlerFits(g),
         g.at \in Claimed => Untouched(g.d)
  PROVE  HandlerFits(g)'
<1>1. Len(orders) \in Nat /\ Len(orders') \in Nat /\ Len(orders) <= Len(orders')
  BY LenProperties DEF SaleRows, Steady
<1>2. g.n \in Nat
  BY DEF Running
<1>3. (g.n <= Len(orders))'
  <2>1. g.n <= Len(orders)
    BY DEF HandlerFits
  <2> QED BY <1>1, <1>2, <2>1
<1>4. (g.at \in Claimed \cup {"claim"} =>
         g.op = "checkout" /\ g.d \in Drafts /\ g.lines \subseteq LinesOf(g.d) /\ g.todo \subseteq g.lines)'
  BY DEF HandlerFits, Claimed, LinesOf
<1>5. (g.at \in Claimed => draft[g.d] = "closed" /\ ~Inserted(g.d))'
  <2> SUFFICES ASSUME g.at \in Claimed PROVE draft'[g.d] = "closed" /\ ~Inserted(g.d)'
    BY DEF Claimed
  <2>1. draft[g.d] = "closed" /\ ~Inserted(g.d) /\ g.d \in Drafts
    BY DEF HandlerFits
  <2> QED BY <2>1 DEF Steady, Untouched, Inserted, LinesOf
<1>6. (g.at \in {"reserve", "open"} => opened[g.d] = 0)'
  BY DEF HandlerFits, Untouched, Claimed
<1>7. (g.at \in {"next", "save", "release"} => g.op \in {"cancel", "abandon", "expire"})'
  BY DEF HandlerFits
<1>8. (g.at \in {"save", "release"} => \E l \in Lines : g.line = {l})'
  BY DEF HandlerFits
<1>9. (g.at = "release" => \A l \in g.line : item[l].status = "cancelled")'
  <2> SUFFICES ASSUME g.at = "release", NEW l \in g.line PROVE item'[l].status = "cancelled"
    OBVIOUS
  <2>1. l \in Lines
    BY DEF Running
  <2> QED BY <2>1 DEF HandlerFits, Steady
<1>10. (g.at \in Settling =>
         /\ g.op = "settle" /\ g.d \in Drafts /\ Inserted(g.d)
         /\ g.lines \subseteq LinesOf(g.d) /\ g.lines # {} /\ g.todo \subseteq g.lines
         /\ LiveLines(g.d) \subseteq g.lines)'
  <2> SUFFICES ASSUME g.at \in Settling
               PROVE  /\ g.op = "settle" /\ g.d \in Drafts /\ Inserted(g.d)'
                      /\ g.lines \subseteq LinesOf(g.d)' /\ g.lines # {} /\ g.todo \subseteq g.lines
                      /\ LiveLines(g.d)' \subseteq g.lines
    BY DEF Settling
  <2>1. /\ g.op = "settle" /\ g.d \in Drafts /\ Inserted(g.d)
        /\ g.lines \subseteq LinesOf(g.d) /\ g.lines # {} /\ g.todo \subseteq g.lines
        /\ LiveLines(g.d) \subseteq g.lines
    BY DEF HandlerFits
  <2>2. LinesOf(g.d)' = LinesOf(g.d)
    BY DEF LinesOf
  <2> QED BY <2>1, <2>2, SteadySets
<1>11. (g.at \in HasOrder => g.n \in OrderIDs /\ orders[g.n] = g.d)'
  <2> SUFFICES ASSUME g.at \in HasOrder PROVE g.n \in 1 .. Len(orders') /\ orders'[g.n] = g.d
    BY DEF HasOrder, OrderIDs
  <2>1. g.n \in OrderIDs /\ orders[g.n] = g.d
    BY DEF HandlerFits
  <2> QED BY <1>1, <2>1 DEF Steady, OrderIDs
<1>12. (g.at \in {"commit", "placed"} =>
          held[g.n] # 0 /\ \A l \in g.lines \ g.todo : <<g.n, l>> \in committed)'
  <2> SUFFICES ASSUME g.at \in {"commit", "placed"}
               PROVE  held'[g.n] # 0 /\ \A l \in g.lines \ g.todo : <<g.n, l>> \in committed'
    OBVIOUS
  <2>1. g.n \in OrderIDs /\ held[g.n] # 0 /\ \A l \in g.lines \ g.todo : <<g.n, l>> \in committed
    BY DEF HandlerFits, HasOrder
  <2> QED BY <2>1 DEF Steady
<1>13. (g.at = "placed" => g.todo = {})' /\ (g.at \in {"claim", "create", "link", "hold"} => g.todo = g.lines)'
  BY DEF HandlerFits
<1> QED BY <1>3, <1>4, <1>5, <1>6, <1>7, <1>8, <1>9, <1>10, <1>11, <1>12, <1>13 DEF HandlerFits

\* One handler moves and the others keep what they rely on.
LEMMA HandlerStep ==
  ASSUME SaleInv, SaleRows', Backed', Steady, NEW p \in Callers, NEW h \in Running,
         proc' = [proc EXCEPT ![p] = h], HandlerFits(h)',
         \A q \in Callers \ {p} : Apart(h, proc[q]),
         \A q \in Callers \ {p} : proc[q].at \in Claimed => Untouched(proc[q].d)
  PROVE  SaleInv'
<1>1. proc' \in [Callers -> Running]
  BY DEF SaleInv
<1>2. ASSUME NEW q \in Callers PROVE HandlerFits(proc[q])'
  <2>1. CASE q = p
    <3>1. proc'[q] = h
      BY <2>1 DEF SaleInv
    <3> QED BY <3>1 DEF HandlerFits
  <2>2. CASE q # p
    <3>1. PICK g \in Running : g = proc[q]
      BY DEF SaleInv
    <3>2. proc'[q] = g
      BY <2>2, <3>1 DEF SaleInv
    <3>3. HandlerFits(g) /\ (g.at \in Claimed => Untouched(g.d))
      BY <2>2, <3>1 DEF SaleInv
    <3>4. HandlerFits(g)'
      BY <3>3, FitsStays DEF SaleInv
    <3> QED BY <3>2, <3>4 DEF HandlerFits
  <2> QED BY <2>1, <2>2
<1>3. ASSUME NEW q \in Callers, NEW r \in Callers, q # r
      PROVE  Apart(proc[q], proc[r])'
  <2>1. Apart(proc[q], proc[r]) /\ Apart(proc[r], proc[q])
    BY <1>3 DEF SaleInv
  <2>2. /\ proc'[q] = IF q = p THEN h ELSE proc[q]
        /\ proc'[r] = IF r = p THEN h ELSE proc[r]
    BY DEF SaleInv
  <2>3. Apart(proc'[q], proc'[r])
    BY <1>3, <2>1, <2>2 DEF Apart
  <2> QED BY <2>3 DEF Apart, Claimed
<1> QED BY <1>1, <1>2, <1>3 DEF SaleInv

-----------------------------------------------------------------------------
(* Steps that leave items, orders and stock alone *)

\* An idle handler relies on nothing and owes nothing.
LEMMA IdleHandler ==
  /\ Idle \in Running /\ Idle.at = "idle"
  /\ \A l : ~Holds(Idle, l)
  /\ \A g : Apart(Idle, g)
  /\ orders \in Seq(Drafts) => HandlerFits(Idle)
  /\ orders' \in Seq(Drafts) => HandlerFits(Idle)'
<1>1. Idle \in Running /\ Idle.at = "idle" /\ Idle.n = 0
  BY DEF Idle, Running
<1>2. \A l : ~Holds(Idle, l)
  BY <1>1 DEF Holds, TakenOf
<1>3. \A g : Apart(Idle, g)
  BY <1>1 DEF Apart, Claimed
<1>4. orders \in Seq(Drafts) => HandlerFits(Idle)
  BY <1>1, LenProperties DEF HandlerFits, Claimed, Settling, HasOrder
<1>5. orders' \in Seq(Drafts) => HandlerFits(Idle)'
  <2> SUFFICES ASSUME orders' \in Seq(Drafts) PROVE HandlerFits(Idle)'
    OBVIOUS
  <2>1. 0 <= Len(orders')
    BY LenProperties
  <2> QED BY <1>1, <2>1 DEF HandlerFits, Claimed, Settling, HasOrder, Idle
<1> QED BY <1>1, <1>2, <1>3, <1>4, <1>5

\* The rows are as sound as they were.
LEMMA RowsRest ==
  ASSUME SaleRows, UNCHANGED <<opened, item, orders, held, committed, placed>>,
         draft' \in [Drafts -> {"none", "open", "closed"}],
         \A d \in Drafts : draft[d] = "closed" => draft'[d] = "closed",
         age' \in [Drafts -> {"fresh", "expired", "late"}],
         session' \in [Drafts -> {"none", "pending", "paid", "cancelled"}],
         stock' \in [Variants -> [reserved : Nat, sold : Nat]],
         failures' \in 0 .. MaxFailures
  PROVE  SaleRows' /\ Steady /\ \A d : Untouched(d)
<1>1. \A d : Inserted(d)' = Inserted(d) /\ LiveLines(d)' = LiveLines(d)
  BY DEF Inserted, LiveLines, LinesOf
<1>2. OrderIDs' = OrderIDs /\ Len(orders) \in Nat
  BY LenProperties DEF OrderIDs, SaleRows
<1>3. SaleRows'
  BY <1>1, <1>2 DEF SaleRows
<1>4. Steady
  BY <1>2 DEF Steady, LinesOf
<1>5. \A d : Untouched(d)
  BY DEF Untouched
<1> QED BY <1>3, <1>4, <1>5

\* The types of what changes quietly.
LEMMA RowTypes ==
  ASSUME SaleInv
  PROVE  /\ draft \in [Drafts -> {"none", "open", "closed"}]
         /\ age \in [Drafts -> {"fresh", "expired", "late"}]
         /\ session \in [Drafts -> {"none", "pending", "paid", "cancelled"}]
         /\ stock \in [Variants -> [reserved : Nat, sold : Nat]]
         /\ failures \in 0 .. MaxFailures
         /\ orders \in Seq(Drafts) /\ Len(orders) \in Nat /\ MaxFailures \in Nat
BY LenProperties, CheckoutAssumption DEF SaleInv, SaleRows

\* Fewer lines are owed a unit, and the units are those there were.
LEMMA BackedStays ==
  ASSUME Backed, stock \in [Variants -> [reserved : Nat, sold : Nat]],
         stock' \in [Variants -> [reserved : Nat, sold : Nat]],
         \A v \in Variants : stock'[v].reserved + stock'[v].sold = stock[v].reserved + stock[v].sold,
         \A v \in Variants : Owed(v)' \subseteq Owed(v)
  PROVE  Backed'
<1> SUFFICES ASSUME NEW v \in Variants
             PROVE  /\ Cardinality(Owed(v)') <= stock'[v].reserved + stock'[v].sold
                    /\ stock'[v].reserved + stock'[v].sold <= Quantity
  BY DEF Backed, Variants
<1>1. Owed(v) \in SUBSET Lines /\ Owed(v)' \in SUBSET Owed(v) /\ Owed(v)' \in SUBSET Lines
  BY DEF Owed
<1>2. /\ Cardinality(Owed(v)') <= Cardinality(Owed(v))
      /\ Cardinality(Owed(v)) \in Nat /\ Cardinality(Owed(v)') \in Nat
  BY <1>1, FiniteLines, CardinalityGrows
<1>3. /\ Cardinality(Owed(v)) <= stock[v].reserved + stock[v].sold
      /\ stock[v].reserved + stock[v].sold <= Quantity
  BY DEF Backed
<1>4. stock[v].reserved \in Nat /\ stock[v].sold \in Nat
  OBVIOUS
<1> QED BY <1>2, <1>3, <1>4

\* A handler moves: what is owed is what was owed, if it takes on nothing new.
LEMMA OwedShrinks ==
  ASSUME NEW p \in Callers, NEW h, proc \in [Callers -> Running], proc' = [proc EXCEPT ![p] = h],
         \A l \in Lines : Holds(h, l) => Live(l) \/ Holds(proc[p], l),
         \A l \in Lines : item'[l].status = "live" => Live(l) \/ Holds(proc[p], l)
  PROVE  \A v : Owed(v)' \subseteq Owed(v)
<1> SUFFICES ASSUME NEW v, NEW l \in Lines, l[2] = v,
                    item'[l].status = "live" \/ \E q \in Callers : Holds(proc'[q], l)
             PROVE  Live(l) \/ \E q \in Callers : Holds(proc[q], l)
  BY DEF Owed, Live
<1>1. CASE item'[l].status = "live"
  BY <1>1
<1>2. ASSUME NEW q \in Callers, Holds(proc'[q], l) PROVE Live(l) \/ \E r \in Callers : Holds(proc[r], l)
  <2>1. CASE q = p
    <3>1. proc'[q] = h
      BY <2>1
    <3> QED BY <1>2, <3>1
  <2>2. CASE q # p
    <3>1. proc'[q] = proc[q]
      BY <2>2
    <3> QED BY <1>2, <3>1
  <2> QED BY <2>1, <2>2
<1> QED BY <1>1, <1>2

\* A handler moves and the rows rest.
LEMMA QuietStep ==
  ASSUME SaleInv, UNCHANGED <<opened, item, orders, held, committed, placed, stock>>,
         draft' \in [Drafts -> {"none", "open", "closed"}],
         \A d \in Drafts : draft[d] = "closed" => draft'[d] = "closed",
         age' \in [Drafts -> {"fresh", "expired", "late"}],
         session' \in [Drafts -> {"none", "pending", "paid", "cancelled"}],
         failures' \in 0 .. MaxFailures,
         NEW p \in Callers, NEW h \in Running, proc' = [proc EXCEPT ![p] = h], HandlerFits(h)',
         \A q \in Callers \ {p} : Apart(h, proc[q]),
         \A l \in Lines : Holds(h, l) => Live(l) \/ Holds(proc[p], l)
  PROVE  SaleInv'
<1>1. SaleRows' /\ Steady /\ \A d : Untouched(d)
  BY RowsRest, RowTypes DEF SaleInv
<1>2. \A v : Owed(v)' \subseteq Owed(v)
  BY OwedShrinks DEF SaleInv, Live
<1>3. Backed'
  BY <1>2, BackedStays, RowTypes DEF SaleInv
<1> QED BY <1>1, <1>3, HandlerStep

\* A handler ends: it answers, fails or dies.
LEMMA DoneStep ==
  ASSUME SaleInv, UNCHANGED <<opened, item, orders, held, committed, placed, stock, draft, age, session>>,
         failures' \in 0 .. MaxFailures, NEW p \in Callers, proc' = [proc EXCEPT ![p] = Idle]
  PROVE  SaleInv'
BY QuietStep, IdleHandler, RowTypes

\* No handler moves.
LEMMA NobodyMoves ==
  ASSUME SaleInv, UNCHANGED <<opened, item, orders, held, committed, placed, stock, proc>>,
         draft' \in [Drafts -> {"none", "open", "closed"}],
         \A d \in Drafts : draft[d] = "closed" => draft'[d] = "closed",
         age' \in [Drafts -> {"fresh", "expired", "late"}],
         session' \in [Drafts -> {"none", "pending", "paid", "cancelled"}],
         failures' \in 0 .. MaxFailures
  PROVE  SaleInv'
<1>1. SaleRows' /\ Steady /\ \A d : Untouched(d)
  BY RowsRest, RowTypes DEF SaleInv
<1>2. \A v : Owed(v)' \subseteq Owed(v)
  BY DEF Owed, Live
<1>3. Backed'
  BY <1>2, BackedStays, RowTypes DEF SaleInv
<1>4. ASSUME NEW q \in Callers PROVE HandlerFits(proc[q])'
  <2>1. PICK g \in Running : g = proc[q]
    BY DEF SaleInv
  <2>2. HandlerFits(g)'
    BY <1>1, <2>1, FitsStays DEF SaleInv
  <2> QED BY <2>1, <2>2 DEF HandlerFits
<1>5. ASSUME NEW q \in Callers, NEW r \in Callers, q # r PROVE Apart(proc[q], proc[r])'
  BY <1>5 DEF SaleInv, Apart, Claimed
<1> QED BY <1>1, <1>3, <1>4, <1>5 DEF SaleInv

-----------------------------------------------------------------------------
(* The handlers begin *)

\* A handler moves to a step at which it holds no draft and owes no unit.
LEMMA LightStep ==
  ASSUME SaleInv,
         UNCHANGED <<draft, age, session, opened, item, orders, held, committed, placed, stock>>,
         failures' \in 0 .. MaxFailures,
         NEW p \in Callers, NEW h \in Running, proc' = [proc EXCEPT ![p] = h], HandlerFits(h),
         h.at \notin Claimed \cup {"release"}
  PROVE  SaleInv'
<1>1. SaleRows' /\ Steady
  BY RowsRest, RowTypes DEF SaleInv
<1>2. HandlerFits(h)'
  BY <1>1, FitsStays DEF SaleInv
<1>3. \A q \in Callers \ {p} : Apart(h, proc[q])
  BY DEF Apart
<1>4. \A l \in Lines : ~Holds(h, l)
  BY DEF Holds, TakenOf, Claimed
<1> QED BY <1>2, <1>3, <1>4, QuietStep, RowTypes

\* The fields of an idle handler.
LEMMA IdleFields ==
  /\ Idle \in Running /\ Idle.n = 0 /\ Idle.lines = {} /\ Idle.todo = {} /\ Idle.line = {}
  /\ Idle.at = "idle" /\ Idle.op = "none"
BY DEF Idle, Running

\* A checkout starts with nothing reserved and nothing written.
LEMMA CheckoutBegins ==
  ASSUME SaleInv, NEW p \in Callers, NEW d \in Drafts, NEW lines \in SUBSET LinesOf(d),
         Checkout(p, d, lines)
  PROVE  SaleInv'
<1> DEFINE h == [Idle EXCEPT !.op = "checkout", !.at = "claim", !.d = d, !.lines = lines, !.todo = lines]
<1>1. lines \in SUBSET Lines
  BY DEF LinesOf
<1>2. h \in Running
  BY <1>1, IdleFields DEF Running
<1>3. h.op = "checkout" /\ h.at = "claim" /\ h.d = d /\ h.lines = lines /\ h.todo = lines /\ h.n = 0
  BY IdleFields DEF Running
<1>4. UNCHANGED <<draft, age, session, opened, item, orders, held, committed, placed, stock, failures>>
      /\ proc' = [proc EXCEPT ![p] = h]
  BY DEF Checkout, Begin, draftUnchanged, sessionUnchanged, saleUnchanged
<1> HIDE DEF h
<1>5. HandlerFits(h)
  BY <1>3, RowTypes DEF HandlerFits, Claimed, Settling, HasOrder
<1> QED BY <1>2, <1>3, <1>4, <1>5, LightStep, RowTypes DEF Claimed

\* A buyer asks for one line to be cancelled: nothing is written yet.
LEMMA CancelItemBegins ==
  ASSUME SaleInv, NEW p \in Callers, NEW l \in Lines, CancelItem(p, l)
  PROVE  SaleInv'
<1> DEFINE h == [Idle EXCEPT !.op = "cancel", !.at = "save", !.line = {l}]
<1>1. h \in Running
  BY IdleFields DEF Running
<1>2. h.op = "cancel" /\ h.at = "save" /\ h.line = {l} /\ h.n = 0
  BY IdleFields DEF Running
<1>3. UNCHANGED <<draft, age, session, opened, item, orders, held, committed, placed, stock, failures>>
      /\ proc' = [proc EXCEPT ![p] = h]
  BY DEF CancelItem, Begin, draftUnchanged, sessionUnchanged, saleUnchanged
<1> HIDE DEF h
<1>4. HandlerFits(h)
  BY <1>2, RowTypes DEF HandlerFits, Claimed, Settling, HasOrder
<1> QED BY <1>1, <1>2, <1>3, <1>4, LightStep, RowTypes DEF Claimed

\* A list of lines to drop is read.
LEMMA DropBegins ==
  ASSUME SaleInv, NEW p \in Callers, NEW o \in {"abandon", "expire"}, NEW todo \in SUBSET Lines,
         Begin(p, [Idle EXCEPT !.op = o, !.at = "next", !.todo = todo]),
         UNCHANGED <<draft, age, session, opened, item, orders, held, committed, placed, stock, failures>>
  PROVE  SaleInv'
<1> DEFINE h == [Idle EXCEPT !.op = o, !.at = "next", !.todo = todo]
<1>1. h \in Running
  BY IdleFields DEF Running
<1>2. h.op = o /\ h.at = "next" /\ h.n = 0
  BY IdleFields DEF Running
<1>3. proc' = [proc EXCEPT ![p] = h]
  BY DEF Begin
<1> HIDE DEF h
<1>4. HandlerFits(h)
  BY <1>2, RowTypes DEF HandlerFits, Claimed, Settling, HasOrder
<1> QED BY <1>1, <1>2, <1>3, <1>4, LightStep, RowTypes DEF Claimed

\* The abandoned or expired lines are read, to be dropped one after the other.
LEMMA DropsBegin ==
  ASSUME SaleInv, NEW p \in Callers, ExpireCheckouts(p) \/ \E d \in Drafts : AbandonCheckout(p, d)
  PROVE  SaleInv'
<1> USE DEF draftUnchanged, sessionUnchanged, saleUnchanged
<1>1. CASE ExpireCheckouts(p)
  <2> DEFINE due == {l \in Lines : Cancellable(l) /\ age[l[1]] = "late"}
  <2>1. due \in SUBSET Lines
    OBVIOUS
  <2> QED BY <1>1, <2>1, DropBegins DEF ExpireCheckouts
<1>2. ASSUME NEW d \in Drafts, AbandonCheckout(p, d) PROVE SaleInv'
  <2> DEFINE open == {l \in LinesOf(d) : Cancellable(l)}
  <2>1. open \in SUBSET Lines
    BY DEF LinesOf
  <2> QED BY <1>2, <2>1, DropBegins DEF AbandonCheckout
<1> QED BY <1>1, <1>2

\* The copy a settlement reads has all the draft's live lines, and from now on
\* they only become fewer.
LEMMA SettleBegins ==
  ASSUME SaleInv, NEW p \in Callers, NEW d \in Drafts, SettlePaidSession(p, d)
  PROVE  SaleInv'
<1> DEFINE paid == {l \in LinesOf(d) : Live(l)}
<1>1. paid = LiveLines(d) /\ paid \in SUBSET Lines /\ paid # {} /\ paid \subseteq LinesOf(d)
  BY DEF SettlePaidSession, LiveLines, Live, LinesOf
<1>2. Inserted(d)
  BY <1>1 DEF Inserted, LiveLines
<1>3. UNCHANGED <<draft, age, session, opened, item, orders, held, committed, placed, stock, failures>>
  BY DEF SettlePaidSession, draftUnchanged, sessionUnchanged, saleUnchanged
<1> DEFINE b == [Idle EXCEPT !.op = "settle", !.d = d, !.lines = paid, !.todo = paid]
<1>4. \/ Begin(p, [b EXCEPT !.at = "create"])
      \/ \E n \in OrdersOf(d) : Begin(p, [b EXCEPT !.at = "link", !.n = n])
  BY DEF SettlePaidSession
<1> HIDE DEF paid
<1>5. CASE Begin(p, [b EXCEPT !.at = "create"])
  <2> DEFINE h == [b EXCEPT !.at = "create"]
  <2>1. h \in Running
    BY <1>1, IdleFields DEF Running
  <2>2. h.op = "settle" /\ h.at = "create" /\ h.d = d /\ h.lines = paid /\ h.todo = paid /\ h.n = 0
    BY IdleFields DEF Running
  <2>3. proc' = [proc EXCEPT ![p] = h]
    BY <1>5 DEF Begin
  <2> HIDE DEF h
  <2>4. HandlerFits(h)
    BY <1>1, <1>2, <2>2, RowTypes DEF HandlerFits, Claimed, Settling, HasOrder
  <2> QED BY <1>3, <2>1, <2>2, <2>3, <2>4, LightStep, RowTypes DEF Claimed
<1>6. ASSUME NEW n \in OrdersOf(d), Begin(p, [b EXCEPT !.at = "link", !.n = n]) PROVE SaleInv'
  <2> DEFINE h == [b EXCEPT !.at = "link", !.n = n]
  <2>1. n \in OrderIDs /\ orders[n] = d /\ n \in Nat /\ n <= Len(orders)
    BY RowTypes DEF OrdersOf, OrderIDs
  <2>2. h \in Running
    BY <1>1, <2>1, IdleFields DEF Running
  <2>3. h.op = "settle" /\ h.at = "link" /\ h.d = d /\ h.lines = paid /\ h.todo = paid /\ h.n = n
    BY IdleFields DEF Running
  <2>4. proc' = [proc EXCEPT ![p] = h]
    BY <1>6 DEF Begin
  <2> HIDE DEF h
  <2>5. HandlerFits(h)
    BY <1>1, <1>2, <2>1, <2>3 DEF HandlerFits, Claimed, Settling, HasOrder
  <2> QED BY <1>3, <2>2, <2>3, <2>4, <2>5, LightStep, RowTypes DEF Claimed
<1> QED BY <1>4, <1>5, <1>6

-----------------------------------------------------------------------------
(* Units *)

\* A line is owed its unit by one hand: a handler or its own live row.
LEMMA OneHand ==
  ASSUME SaleInv, NEW p \in Callers, NEW l \in Lines, Holds(proc[p], l)
  PROVE  /\ ~Live(l)
         /\ \A q \in Callers \ {p} : ~Holds(proc[q], l)
<1>1. ASSUME NEW q \in Callers, Holds(proc[q], l)
      PROVE  \/ proc[q].at \in Claimed /\ l[1] = proc[q].d /\ item[l].status = "none"
             \/ proc[q].at = "release" /\ l \in proc[q].line /\ item[l].status = "cancelled"
  <2>1. proc[q] \in Running /\ HandlerFits(proc[q])
    BY DEF SaleInv
  <2>2. CASE l \in TakenOf(proc[q])
    <3>1. proc[q].at \in Claimed
      BY <2>2 DEF TakenOf, Claimed
    <3>2. proc[q].lines \subseteq LinesOf(proc[q].d) /\ proc[q].todo \subseteq proc[q].lines
          /\ ~Inserted(proc[q].d)
      BY <2>1, <3>1 DEF HandlerFits
    <3>3. l \in LinesOf(proc[q].d)
      BY <2>2, <3>1, <3>2 DEF TakenOf, Claimed
    <3> QED BY <3>1, <3>2, <3>3 DEF Inserted, LinesOf
  <2>3. CASE proc[q].at = "release" /\ l \in proc[q].line
    BY <2>1, <2>3 DEF HandlerFits
  <2> QED BY <1>1, <2>2, <2>3 DEF Holds
<1>2. ~Live(l)
  BY <1>1 DEF Live
<1>3. ASSUME NEW q \in Callers \ {p}, Holds(proc[q], l) PROVE FALSE
  <2>1. Apart(proc[p], proc[q])
    BY DEF SaleInv
  <2> QED BY <1>1, <1>3, <2>1 DEF Apart
<1> QED BY <1>2, <1>3

\* One more unit is reserved for one more line.
LEMMA BackedMore ==
  ASSUME Backed, NEW l \in Lines, NEW v, v = l[2], v \in Variants,
         stock \in [Variants -> [reserved : Nat, sold : Nat]],
         stock' = [stock EXCEPT ![v] = [stock[v] EXCEPT !.reserved = stock[v].reserved + 1]],
         stock[v].reserved + stock[v].sold + 1 <= Quantity,
         \A w \in Variants : Owed(w)' \subseteq Owed(w) \cup {l}
  PROVE  Backed'
<1> SUFFICES ASSUME NEW w \in Variants
             PROVE  /\ Cardinality(Owed(w)') <= stock'[w].reserved + stock'[w].sold
                    /\ stock'[w].reserved + stock'[w].sold <= Quantity
  BY DEF Backed, Variants
<1>1. Owed(w) \in SUBSET Lines /\ Owed(w) \cup {l} \in SUBSET Lines /\ Owed(w)' \in SUBSET Lines
  BY DEF Owed
<1>2. IsFiniteSet(Owed(w)) /\ Cardinality(Owed(w)) \in Nat /\ Cardinality(Owed(w)') \in Nat
      /\ Cardinality(Owed(w) \cup {l}) \in Nat
  BY <1>1, FiniteLines
<1>3. /\ Cardinality(Owed(w)) <= stock[w].reserved + stock[w].sold
      /\ stock[w].reserved + stock[w].sold <= Quantity
      /\ stock[w].reserved \in Nat /\ stock[w].sold \in Nat
  BY DEF Backed
<1>4. CASE w = v
  <2>1. stock'[w].reserved = stock[w].reserved + 1 /\ stock'[w].sold = stock[w].sold
    BY <1>4
  <2>2. Owed(w)' \in SUBSET (Owed(w) \cup {l})
    OBVIOUS
  <2>3. Cardinality(Owed(w)') <= Cardinality(Owed(w) \cup {l})
    BY <1>1, <2>2, CardinalityGrows
  <2>4. Cardinality(Owed(w) \cup {l}) <= Cardinality(Owed(w)) + 1
    <3>1. Cardinality(Owed(w) \cup {l}) = IF l \in Owed(w) THEN Cardinality(Owed(w))
                                          ELSE Cardinality(Owed(w)) + 1
      BY <1>2, FS_AddElement
    <3> QED BY <1>2, <3>1
  <2>5. Cardinality(Owed(w)') <= Cardinality(Owed(w)) + 1
    BY <1>2, <2>3, <2>4
  <2> QED BY <1>2, <1>3, <1>4, <2>1, <2>5
<1>5. CASE w # v
  <2>1. stock'[w] = stock[w]
    BY <1>5
  <2>2. Owed(w)' \in SUBSET Owed(w)
    BY <1>5 DEF Owed
  <2>3. Cardinality(Owed(w)') <= Cardinality(Owed(w))
    BY <1>1, <2>2, CardinalityGrows
  <2> QED BY <1>2, <1>3, <2>1, <2>3
<1> QED BY <1>4, <1>5

\* A unit is given back for a line that is owed one no longer.
LEMMA BackedLess ==
  ASSUME Backed, NEW l \in Lines, NEW v, v = l[2], v \in Variants, NEW k \in Nat,
         stock \in [Variants -> [reserved : Nat, sold : Nat]],
         stock' = [stock EXCEPT ![v] = [stock[v] EXCEPT !.reserved = k]],
         k <= stock[v].reserved, stock[v].reserved <= k + 1,
         l \in Owed(v), \A w \in Variants : Owed(w)' \subseteq Owed(w) \ {l}
  PROVE  Backed'
<1> SUFFICES ASSUME NEW w \in Variants
             PROVE  /\ Cardinality(Owed(w)') <= stock'[w].reserved + stock'[w].sold
                    /\ stock'[w].reserved + stock'[w].sold <= Quantity
  BY DEF Backed, Variants
<1>1. Owed(w) \in SUBSET Lines /\ Owed(w) \ {l} \in SUBSET Lines /\ Owed(w)' \in SUBSET Lines
  BY DEF Owed
<1>2. IsFiniteSet(Owed(w)) /\ Cardinality(Owed(w)) \in Nat /\ Cardinality(Owed(w)') \in Nat
      /\ Cardinality(Owed(w) \ {l}) \in Nat
  BY <1>1, FiniteLines
<1>3. /\ Cardinality(Owed(w)) <= stock[w].reserved + stock[w].sold
      /\ stock[w].reserved + stock[w].sold <= Quantity
      /\ stock[w].reserved \in Nat /\ stock[w].sold \in Nat
  BY DEF Backed
<1>4. Quantity \in Nat
  BY CheckoutAssumption
<1>5. Owed(w)' \in SUBSET (Owed(w) \ {l})
  OBVIOUS
<1>6. Cardinality(Owed(w)') <= Cardinality(Owed(w) \ {l})
  BY <1>1, <1>5, CardinalityGrows
<1>7. Cardinality(Owed(w) \ {l}) = IF l \in Owed(w) THEN Cardinality(Owed(w)) - 1 ELSE Cardinality(Owed(w))
  BY <1>2, FS_RemoveElement
<1>8. CASE w = v
  <2>1. stock'[w].reserved = k /\ stock'[w].sold = stock[w].sold
    BY <1>8
  <2>2. Cardinality(Owed(w)') <= Cardinality(Owed(w)) - 1
    BY <1>2, <1>6, <1>7, <1>8
  <2> QED BY <1>2, <1>3, <1>4, <1>8, <2>1, <2>2
<1>9. CASE w # v
  <2>1. stock'[w] = stock[w]
    BY <1>9
  <2> QED BY <1>2, <1>3, <1>6, <1>7, <2>1
<1> QED BY <1>8, <1>9

-----------------------------------------------------------------------------
(* Checkout *)

\* A handler's copy with another next step.
LEMMA GotoCopy ==
  ASSUME NEW p \in Callers, proc \in [Callers -> Running],
         NEW step \in {"reserve", "insert", "release", "hold", "commit"}, Goto(p, step)
  PROVE  \E h \in Running :
           /\ proc' = [proc EXCEPT ![p] = h] /\ h.at = step
           /\ h.op = proc[p].op /\ h.d = proc[p].d /\ h.lines = proc[p].lines
           /\ h.todo = proc[p].todo /\ h.line = proc[p].line /\ h.n = proc[p].n
<1>1. PICK g \in Running : g = proc[p]
  OBVIOUS
<1> DEFINE h == [g EXCEPT !.at = step]
<1>2. /\ h \in Running /\ h.at = step
      /\ h.op = g.op /\ h.d = g.d /\ h.lines = g.lines
      /\ h.todo = g.todo /\ h.line = g.line /\ h.n = g.n
  BY DEF Running
<1>3. proc' = [proc EXCEPT ![p] = h]
  BY <1>1 DEF Goto
<1> HIDE DEF h
<1> QED BY <1>1, <1>2, <1>3

\* The copy of a checkout that gives its units back.
LEMMA UndoCopy ==
  ASSUME NEW p \in Callers, proc \in [Callers -> Running], NEW units \in SUBSET Lines, Undo(p, units)
  PROVE  \E h \in Running :
           /\ proc' = [proc EXCEPT ![p] = h]
           /\ \/ h = Idle /\ units = {}
              \/ /\ h.at = "undo" /\ h.todo = units
                 /\ h.op = proc[p].op /\ h.d = proc[p].d /\ h.lines = proc[p].lines /\ h.n = proc[p].n
<1>1. PICK g \in Running : g = proc[p]
  OBVIOUS
<1>2. CASE units = {}
  BY <1>2, IdleHandler DEF Undo
<1>3. CASE units # {}
  <2> DEFINE h == [g EXCEPT !.at = "undo", !.todo = units]
  <2>1. h \in Running
    BY DEF Running
  <2>2. h.at = "undo" /\ h.todo = units /\ h.op = g.op /\ h.d = g.d /\ h.lines = g.lines /\ h.n = g.n
    BY DEF Running
  <2>3. proc' = [proc EXCEPT ![p] = h]
    BY <1>1, <1>3 DEF Undo
  <2> HIDE DEF h
  <2> QED BY <1>1, <2>1, <2>2, <2>3
<1> QED BY <1>2, <1>3

\* The write is the claim: whoever lands it is alone on the draft.
LEMMA ClaimKeeps ==
  ASSUME SaleInv, NEW p \in Callers, claimDraft(p)
  PROVE  SaleInv'
<1>1. PICK g \in Running : g = proc[p]
  BY DEF SaleInv
<1>2. g.op = "checkout" /\ g.at = "claim" /\ HandlerFits(g)
  BY <1>1 DEF claimDraft, At, SaleInv
<1>3. /\ g.d \in Drafts /\ g.lines \subseteq LinesOf(g.d) /\ g.todo = g.lines /\ g.n <= Len(orders)
  BY <1>2 DEF HandlerFits
<1>4. UNCHANGED <<age, session, opened, item, orders, held, committed, placed, stock, failures>>
  BY DEF claimDraft, sessionUnchanged, saleUnchanged
<1>5. CASE ~SaveDraftLands(g.d)
  <2>1. draft' = draft /\ proc' = [proc EXCEPT ![p] = Idle]
    BY <1>1, <1>5 DEF claimDraft, Done
  <2> QED BY <1>4, <2>1, DoneStep, RowTypes
<1>6. CASE SaveDraftLands(g.d)
  <2>1. draft[g.d] = "open" /\ draft' = [draft EXCEPT ![g.d] = "closed"] /\ Goto(p, "reserve")
    BY <1>1, <1>6 DEF claimDraft, SaveDraftLands
  <2>2. PICK h \in Running :
           /\ proc' = [proc EXCEPT ![p] = h] /\ h.at = "reserve"
           /\ h.op = g.op /\ h.d = g.d /\ h.lines = g.lines
           /\ h.todo = g.todo /\ h.n = g.n
    BY <1>1, <2>1, GotoCopy DEF SaleInv
  <2>3. /\ draft' \in [Drafts -> {"none", "open", "closed"}] /\ draft'[g.d] = "closed"
        /\ \A d \in Drafts : draft[d] = "closed" => draft'[d] = "closed"
    BY <1>3, <2>1, RowTypes
  <2>4. opened[g.d] = 0 /\ ~Inserted(g.d)
    BY <1>3, <2>1 DEF SaleInv, SaleRows
  <2>5. ~Inserted(g.d)'
    BY <1>4, <2>4 DEF Inserted, LinesOf
  <2>6. g.lines \subseteq LinesOf(g.d)'
    BY <1>3 DEF LinesOf
  <2>7. HandlerFits(h)'
    BY <1>2, <1>3, <1>4, <2>2, <2>3, <2>4, <2>5, <2>6 DEF HandlerFits, Claimed, Settling, HasOrder
  <2>8. ASSUME NEW q \in Callers \ {p} PROVE Apart(h, proc[q])
    <3>1. proc[q].at \in Claimed => draft[proc[q].d] = "closed"
      BY DEF SaleInv, HandlerFits
    <3> QED BY <2>1, <2>2, <3>1 DEF Apart
  <2>9. \A l \in Lines : ~Holds(h, l)
    BY <1>3, <2>2 DEF Holds, TakenOf
  <2> QED BY <1>4, <2>2, <2>3, <2>7, <2>8, <2>9, QuietStep, RowTypes
<1> QED BY <1>5, <1>6

\* A checkout gives up what it has taken.
LEMMA GiveUpKeeps ==
  ASSUME SaleInv, NEW p \in Callers, proc[p].at \in Claimed, Undo(p, TakenOf(proc[p])),
         UNCHANGED <<draft, age, session, opened, item, orders, held, committed, placed, stock>>,
         failures' \in 0 .. MaxFailures
  PROVE  SaleInv'
<1>1. PICK g \in Running : g = proc[p]
  BY DEF SaleInv
<1>2. HandlerFits(g) /\ g.at \in Claimed
  BY <1>1 DEF SaleInv
<1>3. TakenOf(g) \subseteq g.lines /\ g.lines \subseteq Lines
  BY <1>2 DEF HandlerFits, TakenOf, Claimed, Running
<1>4. PICK h \in Running :
           /\ proc' = [proc EXCEPT ![p] = h]
           /\ \/ h = Idle
              \/ /\ h.at = "undo" /\ h.todo = TakenOf(g)
                 /\ h.op = g.op /\ h.d = g.d /\ h.lines = g.lines /\ h.n = g.n
  <2>1. TakenOf(g) \in SUBSET Lines
    BY <1>3
  <2> QED BY <1>1, <2>1, UndoCopy DEF SaleInv
<1>5. CASE h = Idle
  BY <1>4, <1>5, DoneStep
<1>6. CASE h # Idle
  <2>1. h.at = "undo" /\ h.todo = TakenOf(g) /\ h.op = g.op /\ h.d = g.d /\ h.lines = g.lines /\ h.n = g.n
    BY <1>4, <1>6
  <2>2. HandlerFits(h)
    BY <1>2, <1>3, <2>1 DEF HandlerFits, Claimed, Settling, HasOrder
  <2>3. SaleRows' /\ Steady /\ \A d : Untouched(d)
    BY RowsRest, RowTypes DEF SaleInv
  <2>4. HandlerFits(h)'
    BY <2>2, <2>3, FitsStays DEF SaleInv
  <2>5. ASSUME NEW q \in Callers \ {p} PROVE Apart(h, proc[q])
    <3>1. Apart(g, proc[q])
      BY <1>1 DEF SaleInv
    <3> QED BY <1>2, <2>1, <3>1 DEF Apart
  <2>6. \A l \in Lines : Holds(h, l) => Holds(g, l)
    BY <2>1 DEF Holds, TakenOf
  <2> QED BY <1>1, <1>4, <2>4, <2>5, <2>6, QuietStep, RowTypes
<1> QED BY <1>5, <1>6

\* What the model's Taken is.
LEMMA TakenIs ==
  ASSUME SaleInv, NEW p \in Callers, proc[p].op = "checkout"
  PROVE  Taken(p) = TakenOf(proc[p])
BY DEF Taken, TakenOf

\* A checkout that fails gives back exactly the units it took.
LEMMA CheckoutFailsKeeps ==
  ASSUME SaleInv, NEW p \in Callers, checkoutFails(p)
  PROVE  SaleInv'
<1>1. failures' \in 0 .. MaxFailures
  BY RowTypes DEF checkoutFails, failOnce
<1>2. proc[p].at \in Claimed /\ Undo(p, TakenOf(proc[p]))
  BY TakenIs DEF checkoutFails, Claimed
<1> QED BY <1>1, <1>2, GiveUpKeeps DEF checkoutFails, draftUnchanged, sessionUnchanged, saleUnchanged

\* A unit is reserved for the next line, or the checkout gives up.
LEMMA ReserveKeeps ==
  ASSUME SaleInv, NEW p \in Callers, ReserveStock(p)
  PROVE  SaleInv'
<1> USE DEF draftUnchanged, sessionUnchanged, saleUnchanged
<1>1. PICK g \in Running : g = proc[p]
  BY DEF SaleInv
<1>2. g.op = "checkout" /\ g.at = "reserve" /\ HandlerFits(g) /\ Taken(p) = TakenOf(g)
  BY <1>1, TakenIs DEF ReserveStock, At, SaleInv
<1>3. UNCHANGED <<draft, age, session, opened, item, orders, held, committed, placed, failures>>
  BY DEF ReserveStock
<1>4. PICK l \in g.todo :
        IF ReserveStockLands(l[2])
        THEN /\ stock' = [stock EXCEPT ![l[2]].reserved = @ + 1]
             /\ proc' = [proc EXCEPT ![p].todo = @ \ {l},
                                     ![p].at = IF proc[p].todo = {l} THEN "open" ELSE @]
        ELSE stock' = stock /\ Undo(p, Taken(p))
  BY <1>1 DEF ReserveStock
<1>5. /\ g.d \in Drafts /\ g.lines \subseteq LinesOf(g.d) /\ g.todo \subseteq g.lines /\ g.n <= Len(orders)
      /\ draft[g.d] = "closed" /\ ~Inserted(g.d) /\ opened[g.d] = 0
  BY <1>2 DEF HandlerFits, Claimed
<1>6. l \in Lines /\ l[2] \in Variants
  BY <1>5 DEF LinesOf, Variants
<1>7. CASE ~ReserveStockLands(l[2])
  <2>1. stock' = stock /\ Undo(p, TakenOf(proc[p])) /\ proc[p].at \in Claimed
    BY <1>1, <1>2, <1>4, <1>7 DEF Claimed
  <2> QED BY <1>3, <2>1, GiveUpKeeps, RowTypes
<1>8. CASE ReserveStockLands(l[2])
  <2>1. PICK v : v = l[2]
    OBVIOUS
  <2>2. /\ stock' = [stock EXCEPT ![v] = [stock[v] EXCEPT !.reserved = stock[v].reserved + 1]]
        /\ stock[v].reserved + stock[v].sold + 1 <= Quantity /\ v \in Variants
    BY <1>4, <1>6, <1>8, <2>1 DEF ReserveStockLands
  <2>3. PICK h \in Running :
          /\ proc' = [proc EXCEPT ![p] = h]
          /\ h.op = g.op /\ h.d = g.d /\ h.lines = g.lines /\ h.n = g.n /\ h.todo = g.todo \ {l}
          /\ h.at = IF g.todo = {l} THEN "open" ELSE "reserve"
    <3> DEFINE h == [g EXCEPT !.todo = g.todo \ {l}, !.at = IF g.todo = {l} THEN "open" ELSE g.at]
    <3>1. h \in Running
      BY <1>2 DEF Running
    <3>2. /\ h.op = g.op /\ h.d = g.d /\ h.lines = g.lines /\ h.n = g.n /\ h.todo = g.todo \ {l}
          /\ h.at = IF g.todo = {l} THEN "open" ELSE "reserve"
      BY <1>2 DEF Running
    <3>3. proc' = [proc EXCEPT ![p] = h]
      BY <1>1, <1>4, <1>8 DEF SaleInv
    <3> HIDE DEF h
    <3> QED BY <3>1, <3>2, <3>3
  <2>4. stock' \in [Variants -> [reserved : Nat, sold : Nat]]
    <3>1. stock[v] \in [reserved : Nat, sold : Nat]
      BY <2>2, RowTypes
    <3>2. [stock[v] EXCEPT !.reserved = stock[v].reserved + 1] \in [reserved : Nat, sold : Nat]
      BY <3>1
    <3> QED BY <2>2, <3>2, RowTypes
  <2>5. SaleRows' /\ Steady /\ \A d : Untouched(d)
    BY <1>3, <2>4, RowsRest, RowTypes DEF SaleInv
  <2>6. HandlerFits(h)
    BY <1>2, <1>5, <2>3 DEF HandlerFits, Claimed, Settling, HasOrder
  <2>7. HandlerFits(h)'
    BY <2>5, <2>6, FitsStays DEF SaleInv
  <2>8. ASSUME NEW q \in Callers \ {p} PROVE Apart(h, proc[q])
    <3>1. Apart(g, proc[q])
      BY <1>1 DEF SaleInv
    <3> QED BY <1>2, <2>3, <3>1 DEF Apart, Claimed
  <2>9. \A k \in Lines : Holds(h, k) => Holds(g, k) \/ k = l
    BY <1>2, <2>3 DEF Holds, TakenOf
  <2>10. \A w \in Variants : Owed(w)' \subseteq Owed(w) \cup {l}
    <3> SUFFICES ASSUME NEW w \in Variants, NEW k \in Lines, k[2] = w, k # l,
                        item'[k].status = "live" \/ \E q \in Callers : Holds(proc'[q], k)
                 PROVE  Live(k) \/ \E q \in Callers : Holds(proc[q], k)
      BY DEF Owed, Live
    <3>1. CASE item'[k].status = "live"
      BY <1>3, <3>1 DEF Live
    <3>2. ASSUME NEW q \in Callers, Holds(proc'[q], k) PROVE \E r \in Callers : Holds(proc[r], k)
      <4>1. CASE q = p
        <5>1. proc'[q] = h
          BY <2>3, <4>1 DEF SaleInv
        <5> QED BY <1>1, <2>9, <3>2, <5>1
      <4>2. CASE q # p
        <5>1. proc'[q] = proc[q]
          BY <2>3, <4>2 DEF SaleInv
        <5> QED BY <3>2, <5>1
      <4> QED BY <4>1, <4>2
    <3> QED BY <3>1, <3>2
  <2>11. Backed'
    BY <1>6, <2>1, <2>2, <2>10, BackedMore, RowTypes DEF SaleInv
  <2> QED BY <2>3, <2>5, <2>7, <2>8, <2>11, HandlerStep
<1> QED BY <1>7, <1>8

\* A unit goes back, by the one hand that owed it.
LEMMA GiveBackKeeps ==
  ASSUME SaleInv, NEW p \in Callers, NEW l \in Lines, Holds(proc[p], l),
         NEW h \in Running, proc' = [proc EXCEPT ![p] = h], HandlerFits(h),
         \A q \in Callers \ {p} : Apart(h, proc[q]),
         \A k \in Lines : Holds(h, k) => Holds(proc[p], k) /\ k # l,
         UNCHANGED <<draft, age, session, opened, item, orders, held, committed, placed>>,
         \/ /\ stock' = [stock EXCEPT ![l[2]].reserved = IF ReservedAtLeastOne(l[2]) THEN @ - 1 ELSE @]
            /\ failures' = failures
         \/ stock' = stock /\ failOnce
  PROVE  SaleInv'
<1>1. PICK v : v = l[2] /\ v \in Variants
  BY DEF Variants
<1>2. stock[v] \in [reserved : Nat, sold : Nat]
  BY <1>1, RowTypes
<1>3. failures' \in 0 .. MaxFailures
  BY RowTypes DEF failOnce
<1>4. PICK k \in Nat :
        /\ stock' = [stock EXCEPT ![v] = [stock[v] EXCEPT !.reserved = k]]
        /\ k <= stock[v].reserved /\ stock[v].reserved <= k + 1
  <2>1. CASE stock' = stock
    <3> DEFINE k == stock[v].reserved
    <3>1. stock' = [stock EXCEPT ![v] = [stock[v] EXCEPT !.reserved = k]]
      BY <1>1, <1>2, <2>1, RowTypes
    <3>2. k \in Nat /\ k <= stock[v].reserved /\ stock[v].reserved <= k + 1
      BY <1>2
    <3> HIDE DEF k
    <3> QED BY <3>1, <3>2
  <2>2. CASE stock' = [stock EXCEPT ![l[2]].reserved = IF ReservedAtLeastOne(l[2]) THEN @ - 1 ELSE @]
    <3> DEFINE k == IF stock[v].reserved >= 1 THEN stock[v].reserved - 1 ELSE stock[v].reserved
    <3>1. k \in Nat /\ k <= stock[v].reserved /\ stock[v].reserved <= k + 1
      BY <1>2
    <3>2. stock' = [stock EXCEPT ![v] = [stock[v] EXCEPT !.reserved = k]]
      BY <1>1, <2>2 DEF ReservedAtLeastOne
    <3> HIDE DEF k
    <3> QED BY <3>1, <3>2
  <2> QED BY <2>1, <2>2
<1>5. stock' \in [Variants -> [reserved : Nat, sold : Nat]]
  <2>1. [stock[v] EXCEPT !.reserved = k] \in [reserved : Nat, sold : Nat]
    BY <1>2
  <2> QED BY <1>1, <1>4, <2>1, RowTypes
<1>6. SaleRows' /\ Steady /\ \A d : Untouched(d)
  BY <1>3, <1>5, RowsRest, RowTypes DEF SaleInv
<1>7. \A w : Owed(w)' \subseteq Owed(w)
  BY OwedShrinks DEF SaleInv, Live
<1>8. \A w : l \notin Owed(w)'
  <2>1. ~Live(l) /\ \A q \in Callers \ {p} : ~Holds(proc[q], l)
    BY OneHand
  <2>2. ASSUME NEW q \in Callers PROVE ~Holds(proc'[q], l)
    <3>1. proc'[q] = IF q = p THEN h ELSE proc[q]
      BY DEF SaleInv
    <3> QED BY <2>1, <3>1
  <2>3. ~Live(l)'
    BY <2>1 DEF Live
  <2>4. ~\E q \in Callers : Holds(proc'[q], l)
    BY <2>2
  <2> QED BY <2>3, <2>4 DEF Owed
<1>9. l \in Owed(v)
  BY <1>1 DEF Owed
<1>10. Backed'
  <2>1. \A w \in Variants : Owed(w)' \subseteq Owed(w) \ {l}
    BY <1>7, <1>8
  <2> QED BY <1>1, <1>4, <1>9, <2>1, BackedLess, RowTypes DEF SaleInv
<1>11. HandlerFits(h)'
  BY <1>6, FitsStays DEF SaleInv
<1> QED BY <1>6, <1>10, <1>11, HandlerStep

\* release() gives back one unit after the other.
LEMMA UndoKeeps ==
  ASSUME SaleInv, NEW p \in Callers, undoReservation(p)
  PROVE  SaleInv'
<1> USE DEF draftUnchanged, sessionUnchanged, saleUnchanged
<1>1. PICK g \in Running : g = proc[p]
  BY DEF SaleInv
<1>2. g.op = "checkout" /\ g.at = "undo" /\ HandlerFits(g)
  BY <1>1 DEF undoReservation, At, SaleInv
<1>3. PICK l \in g.todo :
       /\ Undo(p, proc[p].todo \ {l})
       /\ \/ /\ stock' = [stock EXCEPT ![l[2]].reserved = IF ReservedAtLeastOne(l[2]) THEN @ - 1 ELSE @]
             /\ failures' = failures
          \/ stock' = stock /\ failOnce
  BY <1>1 DEF undoReservation
<1>4. l \in Lines /\ g.todo \ {l} \in SUBSET Lines
  BY DEF Running
<1>5. Holds(proc[p], l)
  BY <1>1, <1>2 DEF Holds, TakenOf
<1>6. PICK h \in Running :
           /\ proc' = [proc EXCEPT ![p] = h]
           /\ \/ h = Idle
              \/ /\ h.at = "undo" /\ h.todo = g.todo \ {l}
                 /\ h.op = g.op /\ h.d = g.d /\ h.lines = g.lines /\ h.n = g.n
  BY <1>1, <1>3, <1>4, UndoCopy DEF SaleInv
<1>7. /\ HandlerFits(h) /\ \A q \in Callers \ {p} : Apart(h, proc[q])
      /\ \A k \in Lines : Holds(h, k) => Holds(proc[p], k) /\ k # l
  <2>1. CASE h = Idle
    BY <2>1, IdleHandler, RowTypes
  <2>2. CASE h # Idle
    <3>1. /\ h.at = "undo" /\ h.todo = g.todo \ {l}
          /\ h.op = g.op /\ h.d = g.d /\ h.lines = g.lines /\ h.n = g.n
      BY <1>6, <2>2
    <3>2. HandlerFits(h)
      BY <1>2, <3>1 DEF HandlerFits, Claimed, Settling, HasOrder
    <3>3. \A q \in Callers \ {p} : Apart(h, proc[q])
      BY <1>1, <1>2, <3>1 DEF SaleInv, Apart, Claimed
    <3>4. \A k \in Lines : Holds(h, k) => Holds(proc[p], k) /\ k # l
      BY <1>1, <1>2, <3>1 DEF Holds, TakenOf
    <3> QED BY <3>2, <3>3, <3>4
  <2> QED BY <2>1, <2>2
<1>8. UNCHANGED <<draft, age, session, opened, item, orders, held, committed, placed>>
  BY DEF undoReservation
<1> QED BY <1>3, <1>4, <1>5, <1>6, <1>7, <1>8, GiveBackKeeps

\* finance opens one session for the draft, in the hand of the one checkout that
\* claimed it.
LEMMA OpenKeeps ==
  ASSUME SaleInv, NEW p \in Callers, CallOpenCheckout(p)
  PROVE  SaleInv'
<1> USE DEF draftUnchanged, saleUnchanged
<1>1. PICK g \in Running : g = proc[p]
  BY DEF SaleInv
<1>2. g.op = "checkout" /\ g.at = "open" /\ HandlerFits(g)
  BY <1>1 DEF CallOpenCheckout, At, SaleInv
<1>3. /\ g.d \in Drafts /\ g.lines \subseteq LinesOf(g.d) /\ g.todo \subseteq g.lines /\ g.n <= Len(orders)
      /\ draft[g.d] = "closed" /\ ~Inserted(g.d) /\ opened[g.d] = 0
  BY <1>2 DEF HandlerFits, Claimed
<1>4. UNCHANGED <<draft, age, item, orders, held, committed, placed, stock, failures>>
  BY DEF CallOpenCheckout
<1>5. session' \in [Drafts -> {"none", "pending", "paid", "cancelled"}]
  BY RowTypes DEF CallOpenCheckout
<1>6. opened' = [opened EXCEPT ![g.d] = 1]
  BY <1>1, <1>3 DEF CallOpenCheckout, SaleInv, SaleRows
<1>7. PICK h \in Running :
         /\ proc' = [proc EXCEPT ![p] = h] /\ h.at = "insert"
         /\ h.op = g.op /\ h.d = g.d /\ h.lines = g.lines /\ h.todo = g.todo /\ h.n = g.n
  <2>1. Goto(p, "insert")
    BY DEF CallOpenCheckout
  <2> QED BY <1>1, <2>1, GotoCopy DEF SaleInv
<1>8. opened \in [Drafts -> 0 .. 1] /\ opened' \in [Drafts -> 0 .. 1]
  BY <1>3, <1>6 DEF SaleInv, SaleRows
<1>9. \A d : Inserted(d)' = Inserted(d) /\ LiveLines(d)' = LiveLines(d)
  BY <1>4 DEF Inserted, LiveLines, LinesOf
<1>10. OrderIDs' = OrderIDs
  BY <1>4 DEF OrderIDs
<1>11. \A d \in Drafts : draft[d] # "closed" => opened'[d] = 0 /\ ~Inserted(d)
  BY <1>3, <1>6, <1>8 DEF SaleInv, SaleRows
<1>12. SaleRows'
  BY <1>4, <1>5, <1>8, <1>9, <1>10, <1>11 DEF SaleInv, SaleRows
<1>13. Steady
  BY <1>4, <1>10, RowTypes DEF Steady, LinesOf
<1>14. HandlerFits(h)'
  <2>1. g.lines \subseteq LinesOf(g.d)'
    BY <1>3 DEF LinesOf
  <2> QED BY <1>2, <1>3, <1>4, <1>7, <1>9, <2>1 DEF HandlerFits, Claimed, Settling, HasOrder
<1>15. ASSUME NEW q \in Callers \ {p}
       PROVE  Apart(h, proc[q]) /\ (proc[q].at \in Claimed => Untouched(proc[q].d))
  <2>1. Apart(g, proc[q])
    BY <1>1 DEF SaleInv
  <2>2. proc[q].at \in Claimed => proc[q].d # g.d
    BY <1>2, <2>1 DEF Apart, Claimed
  <2>3. proc[q].at \in Claimed => proc[q].d \in Drafts
    BY DEF SaleInv, HandlerFits
  <2> QED BY <1>2, <1>4, <1>6, <1>7, <1>8, <2>1, <2>2, <2>3 DEF Apart, Untouched, Claimed
<1>16. \A l \in Lines : Holds(h, l) => Holds(g, l)
  BY <1>2, <1>7 DEF Holds, TakenOf
<1>17. \A v : Owed(v)' \subseteq Owed(v)
  BY <1>1, <1>4, <1>7, <1>16, OwedShrinks DEF SaleInv, Live
<1>18. Backed'
  BY <1>4, <1>17, BackedStays, RowTypes DEF SaleInv
<1> QED BY <1>7, <1>12, <1>13, <1>14, <1>15, <1>18, HandlerStep

\* A steady step that changes nothing but items keeps the rows.
LEMMA ItemsStep ==
  ASSUME SaleRows, Steady,
         UNCHANGED <<draft, age, session, opened, orders, held, committed, placed, stock, failures>>,
         item' \in [Lines -> Item],
         \A l \in Lines : item'[l].order # 0 =>
           item'[l].status = "live" /\ item'[l].order \in OrderIDs /\ orders[item'[l].order] = l[1],
         \A d \in Drafts : draft[d] # "closed" => ~Inserted(d)'
  PROVE  SaleRows'
<1>1. OrderIDs' = OrderIDs /\ \A n \in OrderIDs : orders[n] \in Drafts
  BY ElementOfSeq DEF OrderIDs, SaleRows
<1>2. \A n \in OrderIDs : Inserted(orders[n])' /\ LiveLines(orders[n])' \subseteq LiveLines(orders[n])
  <2> TAKE n \in OrderIDs
  <2>1. PICK d \in Drafts : d = orders[n]
    BY <1>1
  <2>2. Inserted(d)
    BY <2>1 DEF SaleRows
  <2>3. Inserted(d)' /\ LiveLines(d)' \subseteq LiveLines(d)
    BY <2>2, SteadySets
  <2> QED BY <2>1, <2>3 DEF Inserted, LiveLines, LinesOf
<1>3. ASSUME NEW n \in OrderIDs, held[n] # 0
      PROVE  held[n] >= Cardinality(LiveLines(orders[n])')
  <2>1. LiveLines(orders[n]) \in SUBSET Lines /\ LiveLines(orders[n])' \in SUBSET LiveLines(orders[n])
        /\ LiveLines(orders[n])' \in SUBSET Lines
    BY <1>2 DEF LiveLines, LinesOf
  <2>2. /\ Cardinality(LiveLines(orders[n])') <= Cardinality(LiveLines(orders[n]))
        /\ Cardinality(LiveLines(orders[n])') \in Nat /\ Cardinality(LiveLines(orders[n])) \in Nat
    BY <2>1, FiniteLines, CardinalityGrows
  <2>3. held[n] >= Cardinality(LiveLines(orders[n])) /\ held[n] \in Nat
    BY <1>3, ElementOfSeq DEF SaleRows, OrderIDs
  <2> QED BY <2>2, <2>3
<1>4. \A n \in placed : held[n] # 0 /\ \A l \in LiveLines(orders[n])' : <<n, l>> \in committed
  BY <1>2 DEF SaleRows
<1> QED BY <1>1, <1>2, <1>3, <1>4 DEF SaleRows

\* The lines are written by the checkout that holds their draft.
LEMMA InsertKeeps ==
  ASSUME SaleInv, NEW p \in Callers, InsertItems(p)
  PROVE  SaleInv'
<1> USE DEF draftUnchanged, sessionUnchanged, saleUnchanged
<1>1. PICK g \in Running : g = proc[p]
  BY DEF SaleInv
<1>2. g.op = "checkout" /\ g.at = "insert" /\ HandlerFits(g)
  BY <1>1 DEF InsertItems, At, SaleInv
<1>3. /\ g.d \in Drafts /\ g.lines \subseteq LinesOf(g.d) /\ draft[g.d] = "closed" /\ ~Inserted(g.d)
  BY <1>2 DEF HandlerFits, Claimed
<1>4. /\ UNCHANGED <<draft, age, session, opened, orders, held, committed, placed, stock, failures>>
      /\ proc' = [proc EXCEPT ![p] = Idle]
  BY DEF InsertItems, Done
<1>5. item' = [l \in Lines |-> IF l \in g.lines THEN [status |-> "live", order |-> 0] ELSE item[l]]
  BY <1>1 DEF InsertItems
<1>6. \A l \in Lines : l \in g.lines => l[1] = g.d /\ item[l].status = "none"
  BY <1>3 DEF LinesOf, Inserted
<1>7. item \in [Lines -> Item] /\ item' \in [Lines -> Item]
  BY <1>5 DEF SaleInv, SaleRows, Item
<1>8. Steady
  <2>1. \A d \in Drafts : Inserted(d) =>
          \A l \in LinesOf(d) : item'[l].status = "live" => item[l].status = "live"
    BY <1>3, <1>5, <1>6 DEF LinesOf
  <2>2. /\ \A l \in Lines : item[l].status # "none" => item'[l].status # "none"
        /\ \A l \in Lines : item[l].status = "cancelled" => item'[l].status = "cancelled"
    BY <1>5, <1>6
  <2> QED BY <1>4, <2>1, <2>2, RowTypes DEF Steady, OrderIDs
<1>9. \A d \in Drafts : draft[d] # "closed" => ~Inserted(d)'
  BY <1>3, <1>5, <1>6 DEF SaleInv, SaleRows, Inserted, LinesOf
<1>10. \A l \in Lines : item'[l].order # 0 =>
         item'[l].status = "live" /\ item'[l].order \in OrderIDs /\ orders[item'[l].order] = l[1]
  BY <1>5 DEF SaleInv, SaleRows
<1>11. SaleRows'
  BY <1>4, <1>7, <1>8, <1>9, <1>10, ItemsStep DEF SaleInv
<1>12. ASSUME NEW q \in Callers \ {p}, proc[q].at \in Claimed PROVE Untouched(proc[q].d)
  <2>1. proc[q].d # g.d
    BY <1>1, <1>2, <1>12 DEF SaleInv, Apart, Claimed
  <2> QED BY <1>4, <1>5, <1>6, <2>1 DEF Untouched, LinesOf
<1>13. \A l \in Lines : item'[l].status = "live" => Live(l) \/ Holds(proc[p], l)
  BY <1>1, <1>2, <1>5 DEF Live, Holds, TakenOf
<1>14. \A v : Owed(v)' \subseteq Owed(v)
  BY <1>4, <1>13, IdleHandler, OwedShrinks DEF SaleInv
<1>15. Backed'
  BY <1>4, <1>14, BackedStays, RowTypes DEF SaleInv
<1>16. HandlerFits(Idle)'
  BY <1>4, IdleHandler, RowTypes
<1> QED BY <1>4, <1>8, <1>11, <1>12, <1>15, <1>16, IdleHandler, HandlerStep

-----------------------------------------------------------------------------
(* Dropping lines *)

\* The copy of a handler that is through with its line.
LEMMA NextCopy ==
  ASSUME SaleInv, NEW p \in Callers, NextLine(p), proc[p].at \in {"save", "release"}
  PROVE  \E h \in Running :
           /\ proc' = [proc EXCEPT ![p] = h] /\ HandlerFits(h)
           /\ h.at \in {"idle", "next"}
<1>1. PICK g \in Running : g = proc[p]
  BY DEF SaleInv
<1>2. HandlerFits(g) /\ g.at \in {"save", "release"}
  BY <1>1 DEF SaleInv
<1>3. CASE g.todo = {}
  <2>1. proc' = [proc EXCEPT ![p] = Idle]
    BY <1>1, <1>3 DEF NextLine
  <2> QED BY <2>1, IdleHandler, RowTypes
<1>4. CASE g.todo # {}
  <2> DEFINE h == [g EXCEPT !.at = "next", !.line = {}]
  <2>1. h \in Running /\ h.at = "next" /\ h.op = g.op /\ h.n = g.n
    BY DEF Running
  <2>2. proc' = [proc EXCEPT ![p] = h]
    BY <1>1, <1>4 DEF NextLine
  <2> HIDE DEF h
  <2>3. HandlerFits(h)
    BY <1>2, <2>1 DEF HandlerFits, Claimed, Settling, HasOrder
  <2> QED BY <2>1, <2>2, <2>3
<1> QED BY <1>3, <1>4

\* The next line of the list is dropped, or was dropped by another handler already.
LEMMA CancelLineKeeps ==
  ASSUME SaleInv, NEW p \in Callers, cancelLine(p)
  PROVE  SaleInv'
<1> USE DEF draftUnchanged, sessionUnchanged, saleUnchanged
<1>1. PICK g \in Running : g = proc[p]
  BY DEF SaleInv
<1>2. g.at = "next" /\ HandlerFits(g)
  BY <1>1 DEF cancelLine, SaleInv
<1>3. PICK l \in g.todo :
        \/ proc' = [proc EXCEPT ![p].at = "save", ![p].line = {l}, ![p].todo = g.todo \ {l}]
        \/ proc' = [proc EXCEPT ![p] = IF g.todo \ {l} = {} THEN Idle ELSE [@ EXCEPT !.todo = g.todo \ {l}]]
  BY <1>1 DEF cancelLine
<1>4. UNCHANGED <<draft, age, session, opened, item, orders, held, committed, placed, stock>>
      /\ failures' \in 0 .. MaxFailures
  BY RowTypes DEF cancelLine, failOnce
<1>5. l \in Lines /\ g.todo \ {l} \in SUBSET Lines
  BY DEF Running
<1>6. PICK h \in Running :
        /\ proc' = [proc EXCEPT ![p] = h]
        /\ \/ h = Idle
           \/ h.at = "save" /\ h.line = {l} /\ h.op = g.op /\ h.n = g.n
           \/ h.at = "next" /\ h.op = g.op /\ h.n = g.n
  <2>1. CASE proc' = [proc EXCEPT ![p].at = "save", ![p].line = {l}, ![p].todo = g.todo \ {l}]
    <3> DEFINE h == [g EXCEPT !.at = "save", !.line = {l}, !.todo = g.todo \ {l}]
    <3>1. h \in Running
      BY <1>5 DEF Running
    <3>2. h.at = "save" /\ h.line = {l} /\ h.op = g.op /\ h.n = g.n
      BY DEF Running
    <3>3. proc' = [proc EXCEPT ![p] = h]
      BY <1>1, <2>1 DEF SaleInv
    <3> HIDE DEF h
    <3> QED BY <3>1, <3>2, <3>3
  <2>2. CASE proc' = [proc EXCEPT ![p] = IF g.todo \ {l} = {} THEN Idle
                                         ELSE [@ EXCEPT !.todo = g.todo \ {l}]]
    <3>1. CASE g.todo \ {l} = {}
      BY <2>2, <3>1, IdleHandler
    <3>2. CASE g.todo \ {l} # {}
      <4> DEFINE h == [g EXCEPT !.todo = g.todo \ {l}]
      <4>1. h \in Running
        BY <1>5 DEF Running
      <4>2. h.at = "next" /\ h.op = g.op /\ h.n = g.n
        BY <1>2 DEF Running
      <4>3. proc' = [proc EXCEPT ![p] = h]
        BY <1>1, <2>2, <3>2 DEF SaleInv
      <4> HIDE DEF h
      <4> QED BY <4>1, <4>2, <4>3
    <3> QED BY <3>1, <3>2
  <2> QED BY <1>3, <2>1, <2>2
<1>7. HandlerFits(h) /\ h.at \in {"idle", "save", "next"}
  <2>1. CASE h = Idle
    BY <2>1, IdleHandler, RowTypes
  <2>2. CASE h # Idle
    BY <1>2, <1>5, <1>6, <2>2 DEF HandlerFits, Claimed, Settling, HasOrder
  <2> QED BY <2>1, <2>2
<1> QED BY <1>4, <1>6, <1>7, LightStep DEF Claimed

\* The line is cancelled under the guard of the UPDATE, and the handler that did
\* it alone gives its unit back.
LEMMA SaveItemKeeps ==
  ASSUME SaleInv, NEW p \in Callers, SaveItem(p)
  PROVE  SaleInv'
<1> USE DEF draftUnchanged, sessionUnchanged, saleUnchanged
<1>1. PICK g \in Running : g = proc[p]
  BY DEF SaleInv
<1>2. g.at = "save" /\ HandlerFits(g)
  BY <1>1 DEF SaveItem, SaleInv
<1>3. PICK l \in Lines : g.line = {l}
  BY <1>2 DEF HandlerFits
<1>4. UNCHANGED <<draft, age, session, opened, orders, held, committed, placed, stock, failures>>
  BY DEF SaveItem
<1>5. CASE ~SaveItemLands(l)
  <2>1. item' = item /\ NextLine(p)
    BY <1>1, <1>3, <1>5 DEF SaveItem
  <2>2. PICK h \in Running :
           /\ proc' = [proc EXCEPT ![p] = h] /\ HandlerFits(h)
           /\ h.at \in {"idle", "next"}
    BY <1>1, <1>2, <2>1, NextCopy
  <2> QED BY <1>4, <2>1, <2>2, LightStep, RowTypes DEF Claimed
<1>6. CASE SaveItemLands(l)
  <2>1. item[l].status = "live" /\ item[l].order = 0
    BY <1>6 DEF SaveItemLands, Cancellable, Live
  <2>2. item' = [item EXCEPT ![l] = [item[l] EXCEPT !.status = "cancelled"]] /\ Goto(p, "release")
    BY <1>1, <1>3, <1>6 DEF SaveItem
  <2>3. PICK h \in Running :
           /\ proc' = [proc EXCEPT ![p] = h] /\ h.at = "release"
           /\ h.op = g.op /\ h.line = {l} /\ h.n = g.n
    BY <1>1, <1>3, <2>2, GotoCopy DEF SaleInv
  <2>4. item \in [Lines -> Item] /\ item' \in [Lines -> Item]
    <3>1. item \in [Lines -> Item]
      BY DEF SaleInv, SaleRows
    <3>2. [item[l] EXCEPT !.status = "cancelled"] \in Item
      BY <3>1 DEF Item
    <3> QED BY <2>2, <3>1, <3>2
  <2>5. /\ item'[l].status = "cancelled" /\ item'[l].order = 0
        /\ \A k \in Lines : k # l => item'[k] = item[k]
    BY <2>1, <2>2, <2>4 DEF Item
  <2>6. Steady
    <3>1. /\ \A k \in Lines : item[k].status # "none" => item'[k].status # "none"
          /\ \A k \in Lines : item[k].status = "cancelled" => item'[k].status = "cancelled"
          /\ \A k \in Lines : item'[k].status = "live" => item[k].status = "live"
      BY <2>1, <2>5
    <3>2. \A d \in Drafts : Inserted(d) =>
            \A k \in LinesOf(d) : item'[k].status = "live" => item[k].status = "live"
      BY <3>1 DEF LinesOf
    <3> QED BY <1>4, <3>1, <3>2, RowTypes DEF Steady
  <2>7. Inserted(l[1]) /\ l[1] \in Drafts
    BY <2>1, CheckoutAssumption DEF Inserted, LinesOf
  <2>8. \A d \in Drafts : draft[d] # "closed" => ~Inserted(d)'
    <3> SUFFICES ASSUME NEW d \in Drafts, draft[d] # "closed", NEW k \in LinesOf(d)
                 PROVE  item'[k].status = "none"
      BY DEF Inserted, LinesOf
    <3>1. ~Inserted(d) /\ d # l[1]
      BY <2>7 DEF SaleInv, SaleRows
    <3>2. k # l /\ k \in Lines
      BY <3>1 DEF LinesOf
    <3> QED BY <2>5, <3>1, <3>2 DEF Inserted
  <2>9. \A k \in Lines : item'[k].order # 0 =>
         item'[k].status = "live" /\ item'[k].order \in OrderIDs /\ orders[item'[k].order] = k[1]
    <3>1. \A k \in Lines : item[k].order # 0 =>
            item[k].status = "live" /\ item[k].order \in OrderIDs /\ orders[item[k].order] = k[1]
      BY DEF SaleInv, SaleRows
    <3>2. ASSUME NEW k \in Lines, k # l, item'[k].order # 0
          PROVE  item'[k].status = "live" /\ item'[k].order \in OrderIDs /\ orders[item'[k].order] = k[1]
      <4>1. item'[k] = item[k]
        BY <2>5, <3>2
      <4> QED BY <3>1, <3>2, <4>1
    <3> QED BY <2>5, <3>2
  <2>10. SaleRows'
    BY <1>4, <2>4, <2>6, <2>8, <2>9, ItemsStep DEF SaleInv
  <2>11. ASSUME NEW q \in Callers \ {p}, proc[q].at \in Claimed PROVE Untouched(proc[q].d)
    <3>1. ~Inserted(proc[q].d)
      BY <2>11 DEF SaleInv, HandlerFits
    <3> QED BY <1>4, <2>5, <2>7, <3>1 DEF Untouched, LinesOf
  <2>12. \A k \in Lines : Holds(h, k) => Live(k)
    BY <2>1, <2>3 DEF Holds, TakenOf, Live
  <2>13. \A k \in Lines : item'[k].status = "live" => Live(k)
    BY <2>5 DEF Live
  <2>14. \A v : Owed(v)' \subseteq Owed(v)
    BY <2>3, <2>12, <2>13, OwedShrinks DEF SaleInv
  <2>15. Backed'
    BY <1>4, <2>14, BackedStays, RowTypes DEF SaleInv
  <2>16. HandlerFits(h)'
    BY <1>2, <1>4, <2>3, <2>5 DEF HandlerFits, Claimed, Settling, HasOrder
  <2>17. ASSUME NEW q \in Callers \ {p} PROVE Apart(h, proc[q])
    <3>1. proc[q].at = "release" => \A k \in proc[q].line : item[k].status = "cancelled"
      BY DEF SaleInv, HandlerFits
    <3> QED BY <2>1, <2>3, <3>1 DEF Apart, Claimed
  <2> QED BY <2>3, <2>6, <2>10, <2>11, <2>15, <2>16, <2>17, HandlerStep
<1> QED BY <1>5, <1>6

\* The unit of a dropped line goes back to the stock, once.
LEMMA ReleaseKeeps ==
  ASSUME SaleInv, NEW p \in Callers, ReleaseStock(p)
  PROVE  SaleInv'
<1> USE DEF draftUnchanged, sessionUnchanged, saleUnchanged
<1>1. PICK g \in Running : g = proc[p]
  BY DEF SaleInv
<1>2. g.at = "release" /\ HandlerFits(g)
  BY <1>1 DEF ReleaseStock, SaleInv
<1>3. PICK l \in Lines : g.line = {l}
  BY <1>2 DEF HandlerFits
<1>4. /\ \/ /\ stock' = [stock EXCEPT ![l[2]].reserved = IF ReservedAtLeastOne(l[2]) THEN @ - 1 ELSE @]
            /\ failures' = failures
         \/ stock' = stock /\ failOnce
      /\ NextLine(p)
      /\ UNCHANGED <<draft, age, session, opened, item, orders, held, committed, placed>>
  BY <1>1, <1>3 DEF ReleaseStock
<1>5. PICK h \in Running :
         /\ proc' = [proc EXCEPT ![p] = h] /\ HandlerFits(h)
         /\ h.at \in {"idle", "next"}
  BY <1>1, <1>2, <1>4, NextCopy
<1>6. /\ \A q \in Callers \ {p} : Apart(h, proc[q])
      /\ \A k \in Lines : ~Holds(h, k)
  BY <1>5 DEF Apart, Holds, TakenOf, Claimed
<1>7. Holds(proc[p], l)
  BY <1>1, <1>2, <1>3 DEF Holds
<1> QED BY <1>4, <1>5, <1>6, <1>7, GiveBackKeeps

-----------------------------------------------------------------------------
(* Settling *)

\* linkItems changes no status, and gives an order only to lines of the copy that
\* were live and in no order.
LEMMA LinkedItems ==
  ASSUME SaleRows, NEW copy, NEW n \in Nat, item' = Linked(copy, n)
  PROVE  /\ item' \in [Lines -> Item]
         /\ \A l \in Lines : item'[l].status = item[l].status
         /\ \A l \in Lines : \/ item'[l] = item[l]
                             \/ /\ l \in copy /\ item'[l].order = n /\ item[l].order = 0
                                /\ item[l].status = "live"
         /\ \A d : Inserted(d)' = Inserted(d) /\ LiveLines(d)' = LiveLines(d)
<1>1. item \in [Lines -> Item]
  BY DEF SaleRows
<1>2. \A l \in Lines : item'[l] = IF l \in copy /\ Cancellable(l) THEN [item[l] EXCEPT !.order = n] ELSE item[l]
  BY DEF Linked
<1>3. \A l \in Lines : item[l] \in Item /\ [item[l] EXCEPT !.order = n] \in Item
                       /\ [item[l] EXCEPT !.order = n].status = item[l].status
                       /\ [item[l] EXCEPT !.order = n].order = n
  BY <1>1 DEF Item
<1>4. item' \in [Lines -> Item]
  BY <1>2, <1>3 DEF Linked
<1>5. \A l \in Lines : item'[l].status = item[l].status
  BY <1>2, <1>3
<1>6. \A l \in Lines : \/ item'[l] = item[l]
                       \/ /\ l \in copy /\ item'[l].order = n /\ item[l].order = 0
                          /\ item[l].status = "live"
  BY <1>2, <1>3 DEF Cancellable, Live
<1>7. \A d : Inserted(d)' = Inserted(d) /\ LiveLines(d)' = LiveLines(d)
  BY <1>5 DEF Inserted, LiveLines, LinesOf
<1> QED BY <1>4, <1>5, <1>6, <1>7

\* What is known of a settlement.
LEMMA SettlementFits ==
  ASSUME NEW g, HandlerFits(g), g.at \in Settling
  PROVE  /\ g.op = "settle" /\ g.d \in Drafts /\ Inserted(g.d)
         /\ g.lines \subseteq LinesOf(g.d) /\ g.lines # {} /\ g.todo \subseteq g.lines
         /\ LiveLines(g.d) \subseteq g.lines
         /\ g.at \in HasOrder => g.n \in OrderIDs /\ orders[g.n] = g.d
         /\ g.at \in {"create", "link", "hold"} => g.todo = g.lines
BY DEF HandlerFits

\* Whoever settles owes no unit and holds no draft.
LEMMA SettlerHolds ==
  ASSUME NEW h, h.at \in Settling \cup {"idle"}
  PROVE  (\A l : ~Holds(h, l)) /\ (\A g : Apart(h, g))
BY DEF Settling, Holds, TakenOf, Apart, Claimed

\* A settlement moves: nothing is owed that was not, if no line comes alive.
LEMMA SettleStep ==
  ASSUME SaleInv, SaleRows', Steady, NEW p \in Callers, NEW h \in Running,
         proc' = [proc EXCEPT ![p] = h], HandlerFits(h)', h.at \in Settling \cup {"idle"},
         \A l \in Lines : item'[l].status = item[l].status, opened' = opened,
         \A v \in Variants : stock'[v].reserved + stock'[v].sold = stock[v].reserved + stock[v].sold
  PROVE  SaleInv'
<1>1. (\A l : ~Holds(h, l)) /\ (\A g : Apart(h, g))
  BY SettlerHolds
<1>2. \A l \in Lines : item'[l].status = "live" => Live(l)
  BY DEF Live
<1>3. \A v : Owed(v)' \subseteq Owed(v)
  BY <1>1, <1>2, OwedShrinks DEF SaleInv
<1>4. stock' \in [Variants -> [reserved : Nat, sold : Nat]]
  BY DEF SaleRows, Variants
<1>5. Backed'
  BY <1>3, <1>4, BackedStays, RowTypes DEF SaleInv
<1>6. \A d : Untouched(d)
  BY DEF Untouched, LinesOf
<1> QED BY <1>1, <1>5, <1>6, HandlerStep

\* Of all the settlements of a draft one creates its order.
LEMMA CreateOrderKeeps ==
  ASSUME SaleInv, NEW p \in Callers, CreateOrder(p)
  PROVE  SaleInv'
<1> USE DEF draftUnchanged, sessionUnchanged
<1>1. PICK g \in Running : g = proc[p]
  BY DEF SaleInv
<1>2. g.at = "create" /\ g.at \in Settling /\ HandlerFits(g)
  BY <1>1 DEF CreateOrder, At, SaleInv, Settling
<1>3. /\ g.op = "settle" /\ g.d \in Drafts /\ Inserted(g.d)
      /\ g.lines \subseteq LinesOf(g.d) /\ g.lines # {} /\ g.todo \subseteq g.lines
      /\ LiveLines(g.d) \subseteq g.lines /\ g.todo = g.lines
  BY <1>2, SettlementFits
<1>4. UNCHANGED <<draft, age, session, opened, committed, placed, stock, failures>>
  BY DEF CreateOrder
<1>5. /\ orders \in Seq(Drafts) /\ held \in Seq(Nat) /\ Len(held) = Len(orders) /\ Len(orders) \in Nat
      /\ orders \in [1 .. Len(orders) -> Drafts] /\ held \in [1 .. Len(orders) -> Nat]
  BY LenProperties DEF SaleInv, SaleRows
<1>6. ASSUME NEW n \in Nat, proc' = [proc EXCEPT ![p].at = "link", ![p].n = n]
      PROVE  \E h \in Running :
               /\ proc' = [proc EXCEPT ![p] = h] /\ h.at = "link" /\ h.n = n
               /\ h.op = g.op /\ h.d = g.d /\ h.lines = g.lines /\ h.todo = g.todo
  <2> DEFINE h == [g EXCEPT !.at = "link", !.n = n]
  <2>1. h \in Running
    BY DEF Running
  <2>2. h.at = "link" /\ h.n = n /\ h.op = g.op /\ h.d = g.d /\ h.lines = g.lines /\ h.todo = g.todo
    BY DEF Running
  <2>3. proc' = [proc EXCEPT ![p] = h]
    BY <1>1, <1>6 DEF SaleInv
  <2> HIDE DEF h
  <2> QED BY <2>1, <2>2, <2>3
<1>7. CASE OriginTaken(g.d)
  <2>1. UNCHANGED <<item, orders, held>>
    BY <1>1, <1>7 DEF CreateOrder
  <2>2. PICK n \in OrdersOf(g.d) : proc' = [proc EXCEPT ![p].at = "link", ![p].n = n]
    BY <1>1, <1>7 DEF CreateOrder
  <2>3. n \in Nat /\ n \in OrderIDs /\ orders[n] = g.d /\ n <= Len(orders)
    BY <1>5 DEF OrdersOf, OrderIDs
  <2>4. PICK h \in Running :
               /\ proc' = [proc EXCEPT ![p] = h] /\ h.at = "link" /\ h.n = n
               /\ h.op = g.op /\ h.d = g.d /\ h.lines = g.lines /\ h.todo = g.todo
    BY <1>6, <2>2, <2>3
  <2>5. HandlerFits(h)
    BY <1>3, <2>3, <2>4 DEF HandlerFits, Claimed, Settling, HasOrder
  <2> QED BY <1>4, <2>1, <2>4, <2>5, LightStep, RowTypes DEF Claimed
<1>8. CASE ~OriginTaken(g.d)
  <2> DEFINE m == Len(orders) + 1
  <2>1. /\ orders' = Append(orders, g.d) /\ held' = Append(held, 0)
        /\ item' = Linked(g.lines, m) /\ proc' = [proc EXCEPT ![p].at = "link", ![p].n = m]
    BY <1>1, <1>8 DEF CreateOrder
  <2>2. /\ orders' \in Seq(Drafts) /\ Len(orders') = m /\ m \in Nat
        /\ orders'[m] = g.d /\ \A n \in OrderIDs : orders'[n] = orders[n]
    BY <1>3, <1>5, <2>1, AppendProperties DEF OrderIDs
  <2>3. /\ held' \in Seq(Nat) /\ Len(held') = m
        /\ held'[m] = 0 /\ \A n \in OrderIDs : held'[n] = held[n]
    BY <1>5, <2>1, AppendProperties DEF OrderIDs
  <2>4. OrderIDs' = OrderIDs \cup {m} /\ m \notin OrderIDs /\ OrderIDs \subseteq OrderIDs'
    BY <1>5, <2>2 DEF OrderIDs
  <2>5. PICK h \in Running :
               /\ proc' = [proc EXCEPT ![p] = h] /\ h.at = "link" /\ h.n = m
               /\ h.op = g.op /\ h.d = g.d /\ h.lines = g.lines /\ h.todo = g.todo
    BY <1>6, <2>1, <2>2
  <2> HIDE DEF m
  <2>6. /\ item' \in [Lines -> Item]
        /\ \A l \in Lines : item'[l].status = item[l].status
        /\ \A l \in Lines : \/ item'[l] = item[l]
                            \/ /\ l \in g.lines /\ item'[l].order = m /\ item[l].order = 0
                               /\ item[l].status = "live"
        /\ \A d : Inserted(d)' = Inserted(d) /\ LiveLines(d)' = LiveLines(d)
    BY <2>1, <2>2, LinkedItems DEF SaleInv
  <2>7. Steady
    <3>1. \A d \in Drafts : Inserted(d) =>
            \A l \in LinesOf(d) : item'[l].status = "live" => item[l].status = "live"
      BY <2>6 DEF LinesOf
    <3>2. Len(orders) <= Len(orders') /\ Len(orders') \in Nat
      BY <1>5, <2>2 DEF m
    <3> QED BY <1>4, <2>2, <2>3, <2>6, <3>1, <3>2 DEF Steady
  <2>8. SaleRows'
    <3>1. \A l \in Lines : item'[l].order # 0 =>
            item'[l].status = "live" /\ item'[l].order \in OrderIDs' /\ orders'[item'[l].order] = l[1]
      <4> TAKE l \in Lines
      <4>1. CASE item'[l] = item[l]
        <5>1. item[l].order # 0 =>
                item[l].status = "live" /\ item[l].order \in OrderIDs /\ orders[item[l].order] = l[1]
          BY Zenon DEF SaleInv, SaleRows
        <5> QED BY <2>2, <2>4, <4>1, <5>1
      <4>2. CASE l \in g.lines /\ item'[l].order = m /\ item[l].status = "live"
        BY <1>3, <2>2, <2>4, <2>6, <4>2 DEF LinesOf
      <4> QED BY <2>6, <4>1, <4>2
    <3>2. \A j, k \in OrderIDs' : orders'[j] = orders'[k] => j = k
      <4>1. \A n \in OrderIDs : orders[n] # g.d
        BY <1>8 DEF OriginTaken, OrdersOf
      <4> QED BY <2>2, <2>4, <4>1 DEF SaleInv, SaleRows
    <3>3. \A n \in OrderIDs' : Inserted(orders'[n])
      BY <1>3, <2>2, <2>4 DEF SaleInv, SaleRows
    <3>4. \A n \in OrderIDs' : held'[n] # 0 => held'[n] >= Cardinality(LiveLines(orders'[n]))
      BY <2>2, <2>3, <2>4 DEF SaleInv, SaleRows
    <3>5. \A n \in placed : held'[n] # 0 /\ \A l \in LiveLines(orders'[n]) : <<n, l>> \in committed
      BY <2>2, <2>3 DEF SaleInv, SaleRows
    <3>6. committed' \subseteq OrderIDs' \X Lines /\ placed' \subseteq OrderIDs'
      BY <1>4, <2>4 DEF SaleInv, SaleRows
    <3>7. \A n : Inserted(orders[n])' = Inserted(orders'[n]) /\ LiveLines(orders[n])' = LiveLines(orders'[n])
      BY <2>6 DEF Inserted, LiveLines, LinesOf
    <3> QED BY <1>4, <2>2, <2>3, <2>6, <3>1, <3>2, <3>3, <3>4, <3>5, <3>6, <3>7 DEF SaleInv, SaleRows
  <2>9. HandlerFits(h)'
    <3>1. g.lines \subseteq LinesOf(g.d)' /\ Inserted(g.d)' /\ LiveLines(g.d)' \subseteq g.lines
      BY <1>3, <2>6 DEF LinesOf
    <3>2. m <= Len(orders')
      BY <2>2
    <3> QED BY <1>3, <2>2, <2>4, <2>5, <3>1, <3>2 DEF HandlerFits, Claimed, Settling, HasOrder
  <2>10. h.at \in Settling
    BY <2>5 DEF Settling
  <2> QED BY <1>4, <2>5, <2>6, <2>7, <2>8, <2>9, <2>10, SettleStep
<1> QED BY <1>7, <1>8

\* A resumed settlement links what the first one left.
LEMMA LinkItemsKeeps ==
  ASSUME SaleInv, NEW p \in Callers, LinkItems(p)
  PROVE  SaleInv'
<1> USE DEF draftUnchanged, sessionUnchanged, saleUnchanged
<1>1. PICK g \in Running : g = proc[p]
  BY DEF SaleInv
<1>2. g.at = "link" /\ g.at \in Settling /\ g.at \in HasOrder /\ HandlerFits(g)
  BY <1>1 DEF LinkItems, At, SaleInv, Settling, HasOrder
<1>3. /\ g.op = "settle" /\ g.d \in Drafts /\ Inserted(g.d)
      /\ g.lines \subseteq LinesOf(g.d) /\ g.lines # {} /\ g.todo \subseteq g.lines
      /\ LiveLines(g.d) \subseteq g.lines /\ g.todo = g.lines
      /\ g.n \in OrderIDs /\ orders[g.n] = g.d
  BY <1>2, SettlementFits
<1>4. UNCHANGED <<draft, age, session, opened, orders, held, committed, placed, stock, failures>>
      /\ item' = Linked(g.lines, g.n) /\ Goto(p, "hold")
  BY <1>1 DEF LinkItems
<1>5. g.n \in Nat /\ g.n <= Len(orders)
  BY RowTypes, <1>3 DEF Running, OrderIDs
<1>6. PICK h \in Running :
        /\ proc' = [proc EXCEPT ![p] = h] /\ h.at = "hold"
        /\ h.op = g.op /\ h.d = g.d /\ h.lines = g.lines /\ h.todo = g.todo /\ h.n = g.n
  BY <1>1, <1>4, GotoCopy DEF SaleInv
<1>7. /\ item' \in [Lines -> Item]
      /\ \A l \in Lines : item'[l].status = item[l].status
      /\ \A l \in Lines : \/ item'[l] = item[l]
                          \/ /\ l \in g.lines /\ item'[l].order = g.n /\ item[l].order = 0
                             /\ item[l].status = "live"
      /\ \A d : Inserted(d)' = Inserted(d) /\ LiveLines(d)' = LiveLines(d)
  BY <1>4, <1>5, LinkedItems DEF SaleInv
<1>8. Steady
  <2>1. \A d \in Drafts : Inserted(d) =>
          \A l \in LinesOf(d) : item'[l].status = "live" => item[l].status = "live"
    BY <1>7 DEF LinesOf
  <2> QED BY <1>4, <1>7, <2>1, RowTypes DEF Steady
<1>9. SaleRows'
  <2>1. \A l \in Lines : item'[l].order # 0 =>
          item'[l].status = "live" /\ item'[l].order \in OrderIDs /\ orders[item'[l].order] = l[1]
    <3> TAKE l \in Lines
    <3>1. CASE item'[l] = item[l]
      BY <3>1 DEF SaleInv, SaleRows
    <3>2. CASE l \in g.lines /\ item'[l].order = g.n /\ item[l].status = "live"
      BY <1>3, <1>7, <3>2 DEF LinesOf
    <3> QED BY <1>7, <3>1, <3>2
  <2>2. \A d \in Drafts : draft[d] # "closed" => ~Inserted(d)'
    BY <1>7 DEF SaleInv, SaleRows
  <2> QED BY <1>4, <1>7, <1>8, <2>1, <2>2, ItemsStep DEF SaleInv
<1>10. HandlerFits(h)'
  <2>1. g.lines \subseteq LinesOf(g.d)' /\ Inserted(g.d)' /\ LiveLines(g.d)' \subseteq g.lines
    BY <1>3, <1>7 DEF LinesOf
  <2>2. g.n \in OrderIDs' /\ orders'[g.n] = g.d /\ g.n <= Len(orders')
    BY <1>3, <1>4, <1>5 DEF OrderIDs
  <2> QED BY <1>3, <1>6, <2>1, <2>2 DEF HandlerFits, Claimed, Settling, HasOrder
<1>11. h.at \in Settling
  BY <1>6 DEF Settling
<1> QED BY <1>4, <1>6, <1>7, <1>8, <1>9, <1>10, <1>11, SettleStep

\* What is not there yet is held for every line of the copy, and the copy has
\* all that is live.
LEMMA HoldKeeps ==
  ASSUME SaleInv, NEW p \in Callers, HoldEscrow(p)
  PROVE  SaleInv'
<1> USE DEF draftUnchanged, sessionUnchanged
<1>1. PICK g \in Running : g = proc[p]
  BY DEF SaleInv
<1>2. g.at = "hold" /\ g.at \in Settling /\ g.at \in HasOrder /\ HandlerFits(g)
  BY <1>1 DEF HoldEscrow, At, SaleInv, Settling, HasOrder
<1>3. /\ g.op = "settle" /\ g.d \in Drafts /\ Inserted(g.d)
      /\ g.lines \subseteq LinesOf(g.d) /\ g.lines # {} /\ g.todo \subseteq g.lines
      /\ LiveLines(g.d) \subseteq g.lines /\ g.todo = g.lines
      /\ g.n \in OrderIDs /\ orders[g.n] = g.d
  BY <1>2, SettlementFits
<1> DEFINE sum == IF held[g.n] = 0 THEN Cardinality(g.lines) ELSE held[g.n]
<1>4. UNCHANGED <<draft, age, session, opened, item, orders, committed, placed, stock, failures>>
      /\ held' = [held EXCEPT ![g.n] = sum] /\ Goto(p, "commit")
  BY <1>1 DEF HoldEscrow, EscrowTotal
<1>5. PICK h \in Running :
        /\ proc' = [proc EXCEPT ![p] = h] /\ h.at = "commit"
        /\ h.op = g.op /\ h.d = g.d /\ h.lines = g.lines /\ h.todo = g.todo /\ h.n = g.n
  BY <1>1, <1>4, GotoCopy DEF SaleInv
<1>6. held \in Seq(Nat) /\ Len(held) = Len(orders) /\ g.n \in 1 .. Len(held) /\ held[g.n] \in Nat
  BY <1>3, ElementOfSeq DEF SaleInv, SaleRows, OrderIDs
<1>7. /\ LiveLines(g.d) \in SUBSET Lines /\ g.lines \in SUBSET Lines /\ LiveLines(g.d) \in SUBSET g.lines
  BY <1>3 DEF LiveLines, LinesOf
<1>8. /\ Cardinality(g.lines) \in Nat /\ Cardinality(LiveLines(g.d)) \in Nat
      /\ Cardinality(LiveLines(g.d)) <= Cardinality(g.lines) /\ Cardinality(g.lines) # 0
  BY <1>3, <1>7, FiniteLines, CardinalityGrows, FS_EmptySet
<1>9. sum \in Nat /\ sum # 0 /\ sum >= Cardinality(LiveLines(g.d)) /\ (held[g.n] # 0 => sum = held[g.n])
  BY <1>3, <1>6, <1>8 DEF SaleInv, SaleRows
<1> HIDE DEF sum
<1>10. /\ held' \in Seq(Nat) /\ Len(held') = Len(held)
       /\ \A n \in OrderIDs : held'[n] = IF n = g.n THEN sum ELSE held[n]
  BY <1>4, <1>6, <1>9, ExceptSeq DEF OrderIDs
<1>11. OrderIDs' = OrderIDs /\ \A d : Inserted(d)' = Inserted(d) /\ LiveLines(d)' = LiveLines(d)
  BY <1>4 DEF OrderIDs, Inserted, LiveLines, LinesOf
<1>12. Steady
  BY <1>4, <1>9, <1>10, RowTypes DEF Steady, LinesOf
<1>13. SaleRows'
  <2>1. ASSUME NEW n \in OrderIDs, held'[n] # 0 PROVE held'[n] >= Cardinality(LiveLines(orders[n]))
    <3>1. CASE n = g.n
      BY <1>3, <1>9, <1>10, <3>1
    <3>2. CASE n # g.n
      BY <1>10, <2>1, <3>2 DEF SaleInv, SaleRows
    <3> QED BY <3>1, <3>2
  <2>2. \A n \in placed : held'[n] # 0
    BY <1>9, <1>10 DEF SaleInv, SaleRows
  <2> QED BY <1>4, <1>6, <1>10, <1>11, <2>1, <2>2 DEF SaleInv, SaleRows
<1>14. HandlerFits(h)'
  <2>1. held'[h.n] # 0 /\ h.n <= Len(orders')
    BY <1>3, <1>4, <1>5, <1>9, <1>10, RowTypes DEF OrderIDs
  <2> QED BY <1>3, <1>4, <1>5, <1>11, <2>1 DEF HandlerFits, Claimed, Settling, HasOrder, LinesOf
<1>15. h.at \in Settling
  BY <1>5 DEF Settling
<1> QED BY <1>4, <1>5, <1>12, <1>13, <1>14, <1>15, SettleStep

\* A line of the copy is sold, found sold or refused; a sale is a unit that was
\* reserved.
LEMMA CommitKeeps ==
  ASSUME SaleInv, NEW p \in Callers, CommitStock(p)
  PROVE  SaleInv'
<1> USE DEF draftUnchanged, sessionUnchanged
<1>1. PICK g \in Running : g = proc[p]
  BY DEF SaleInv
<1>2. g.at = "commit" /\ g.at \in Settling /\ g.at \in HasOrder /\ HandlerFits(g)
  BY <1>1 DEF CommitStock, At, SaleInv, Settling, HasOrder
<1>3. /\ g.op = "settle" /\ g.d \in Drafts /\ Inserted(g.d)
      /\ g.lines \subseteq LinesOf(g.d) /\ g.lines # {} /\ g.todo \subseteq g.lines
      /\ LiveLines(g.d) \subseteq g.lines
      /\ g.n \in OrderIDs /\ orders[g.n] = g.d
  BY <1>2, SettlementFits
<1>4. held[g.n] # 0 /\ \A l \in g.lines \ g.todo : <<g.n, l>> \in committed
  BY <1>2 DEF HandlerFits
<1>5. UNCHANGED <<draft, age, session, opened, item, orders, held, placed, failures>>
  BY DEF CommitStock
<1>6. PICK l \in g.todo :
        LET advance == proc' = [proc EXCEPT ![p].todo = @ \ {l},
                                            ![p].at = IF proc[p].todo = {l} THEN "placed" ELSE @] IN
        \/ Recorded(g.n, l) /\ advance /\ UNCHANGED <<stock, committed>>
        \/ /\ ~Recorded(g.n, l) /\ ReservedAtLeastOne(l[2])
           /\ stock' = [stock EXCEPT ![l[2]] = [reserved |-> @.reserved - 1, sold |-> @.sold + 1]]
           /\ committed' = committed \cup {<<g.n, l>>}
           /\ advance
        \/ Done(p) /\ UNCHANGED <<stock, committed>>
  BY <1>1 DEF CommitStock, CommitRefused
<1>7. l \in Lines /\ l[2] \in Variants /\ g.todo \ {l} \in SUBSET Lines
  BY <1>3 DEF LinesOf, Variants
<1>8. CASE Done(p) /\ UNCHANGED <<stock, committed>>
  BY <1>5, <1>8, DoneStep, RowTypes DEF Done
<1>9. CASE /\ proc' = [proc EXCEPT ![p].todo = @ \ {l}, ![p].at = IF proc[p].todo = {l} THEN "placed" ELSE @]
           /\ \/ Recorded(g.n, l) /\ UNCHANGED <<stock, committed>>
              \/ /\ ReservedAtLeastOne(l[2])
                 /\ stock' = [stock EXCEPT ![l[2]] = [reserved |-> @.reserved - 1, sold |-> @.sold + 1]]
                 /\ committed' = committed \cup {<<g.n, l>>}
  <2>1. PICK h \in Running :
          /\ proc' = [proc EXCEPT ![p] = h]
          /\ h.at = (IF g.todo = {l} THEN "placed" ELSE "commit") /\ h.todo = g.todo \ {l}
          /\ h.op = g.op /\ h.d = g.d /\ h.lines = g.lines /\ h.n = g.n
    <3> DEFINE h == [g EXCEPT !.todo = g.todo \ {l}, !.at = IF g.todo = {l} THEN "placed" ELSE "commit"]
    <3>1. h \in Running
      BY <1>7 DEF Running
    <3>2. /\ h.at = (IF g.todo = {l} THEN "placed" ELSE "commit") /\ h.todo = g.todo \ {l}
          /\ h.op = g.op /\ h.d = g.d /\ h.lines = g.lines /\ h.n = g.n
      BY DEF Running
    <3>3. proc' = [proc EXCEPT ![p] = h]
      BY <1>1, <1>2, <1>9 DEF SaleInv
    <3> HIDE DEF h
    <3> QED BY <3>1, <3>2, <3>3
  <2>2. committed \subseteq committed' /\ committed' \subseteq committed \cup {<<g.n, l>>} /\ <<g.n, l>> \in committed'
    BY <1>9 DEF Recorded
  <2>3. /\ stock' \in [Variants -> [reserved : Nat, sold : Nat]]
        /\ \A v \in Variants : stock'[v].reserved + stock'[v].sold = stock[v].reserved + stock[v].sold
    <3>1. stock \in [Variants -> [reserved : Nat, sold : Nat]]
      BY RowTypes
    <3>2. CASE stock' = stock
      BY <3>1, <3>2
    <3>3. CASE /\ ReservedAtLeastOne(l[2])
               /\ stock' = [stock EXCEPT ![l[2]] = [reserved |-> @.reserved - 1, sold |-> @.sold + 1]]
      <4> DEFINE u == l[2]
                 c == [reserved |-> stock[u].reserved - 1, sold |-> stock[u].sold + 1]
      <4>1. stock[u].reserved \in Nat /\ stock[u].sold \in Nat /\ stock[u].reserved >= 1
        BY <1>7, <3>1, <3>3 DEF ReservedAtLeastOne
      <4>2. c \in [reserved : Nat, sold : Nat] /\ c.reserved + c.sold = stock[u].reserved + stock[u].sold
        BY <4>1
      <4>3. stock' = [stock EXCEPT ![u] = c] /\ u \in Variants
        BY <1>7, <3>3
      <4> HIDE DEF u, c
      <4> QED BY <3>1, <4>2, <4>3
    <3> QED BY <1>9, <3>2, <3>3
  <2>4. OrderIDs' = OrderIDs /\ \A d : Inserted(d)' = Inserted(d) /\ LiveLines(d)' = LiveLines(d)
    BY <1>5 DEF OrderIDs, Inserted, LiveLines, LinesOf
  <2>5. Steady
    BY <1>5, <2>2, RowTypes DEF Steady, LinesOf
  <2>6. SaleRows'
    <3>1. committed' \subseteq OrderIDs \X Lines
      BY <1>3, <1>7, <2>2 DEF SaleInv, SaleRows
    <3>2. \A n \in placed : held[n] # 0 /\ \A k \in LiveLines(orders[n]) : <<n, k>> \in committed'
      BY <2>2 DEF SaleInv, SaleRows
    <3> QED BY <1>5, <2>3, <2>4, <3>1, <3>2 DEF SaleInv, SaleRows
  <2>7. HandlerFits(h)'
    <3>1. \A k \in h.lines \ h.todo : <<h.n, k>> \in committed'
      BY <1>4, <2>1, <2>2
    <3>2. h.at \in {"commit", "placed"} /\ (h.at = "placed" => h.todo = {}) /\ h.todo \subseteq h.lines
      BY <1>3, <2>1
    <3>3. held'[h.n] # 0 /\ h.n <= Len(orders') /\ h.n \in OrderIDs' /\ orders'[h.n] = h.d
      BY <1>3, <1>4, <1>5, <2>1, <2>4, RowTypes DEF OrderIDs
    <3>4. /\ h.op = "settle" /\ h.d \in Drafts /\ Inserted(h.d)' /\ h.lines \subseteq LinesOf(h.d)'
          /\ h.lines # {} /\ LiveLines(h.d)' \subseteq h.lines
      BY <1>3, <2>1, <2>4 DEF LinesOf
    <3> QED BY <3>1, <3>2, <3>3, <3>4 DEF HandlerFits, Claimed, Settling, HasOrder
  <2>8. h.at \in Settling
    BY <2>1 DEF Settling
  <2> QED BY <1>5, <2>1, <2>3, <2>5, <2>6, <2>7, <2>8, SettleStep
<1> QED BY <1>6, <1>8, <1>9

\* Only a settlement that has been through all its lines announces the order.
LEMMA PublishKeeps ==
  ASSUME SaleInv, NEW p \in Callers, publishPlaced(p)
  PROVE  SaleInv'
<1> USE DEF draftUnchanged, sessionUnchanged
<1>1. PICK g \in Running : g = proc[p]
  BY DEF SaleInv
<1>2. g.at = "placed" /\ g.at \in Settling /\ g.at \in HasOrder /\ HandlerFits(g)
  BY <1>1 DEF publishPlaced, At, SaleInv, Settling, HasOrder
<1>3. g.n \in OrderIDs /\ orders[g.n] = g.d /\ LiveLines(g.d) \subseteq g.lines
  BY <1>2, SettlementFits
<1>4. held[g.n] # 0 /\ \A l \in LiveLines(g.d) : <<g.n, l>> \in committed
  BY <1>2, <1>3 DEF HandlerFits
<1>5. UNCHANGED <<draft, age, session, opened, item, orders, held, committed, stock, failures>>
      /\ placed' = placed \cup {g.n} /\ proc' = [proc EXCEPT ![p] = Idle]
  BY <1>1 DEF publishPlaced, Done
<1>6. OrderIDs' = OrderIDs /\ \A d : Inserted(d)' = Inserted(d) /\ LiveLines(d)' = LiveLines(d)
  BY <1>5 DEF OrderIDs, Inserted, LiveLines, LinesOf
<1>7. Steady
  BY <1>5, RowTypes DEF Steady, LinesOf
<1>8. SaleRows'
  <2>1. \A n \in placed' : held[n] # 0 /\ \A l \in LiveLines(orders[n]) : <<n, l>> \in committed
    BY <1>3, <1>4, <1>5 DEF SaleInv, SaleRows
  <2>2. placed' \subseteq OrderIDs
    BY <1>3, <1>5 DEF SaleInv, SaleRows
  <2> QED BY <1>5, <1>6, <2>1, <2>2 DEF SaleInv, SaleRows
<1>9. HandlerFits(Idle)' /\ Idle \in Running /\ Idle.at \in Settling \cup {"idle"}
  BY <1>5, IdleHandler, RowTypes
<1> QED BY <1>5, <1>7, <1>8, <1>9, SettleStep

-----------------------------------------------------------------------------
(* Every step *)

\* Finance, the clock, and the drafts opened and closed.
LEMMA DraftStepKeeps ==
  ASSUME SaleInv, NEW d \in Drafts,
         \/ CreateDraft(d) \/ PaySession(d) \/ CallCancelSession(d) \/ Tick(d)
         \/ CancelDraft(d) \/ ExpireDrafts(d)
  PROVE  SaleInv'
<1> USE DEF draftUnchanged, sessionUnchanged, saleUnchanged
<1>1. /\ UNCHANGED <<opened, item, orders, held, committed, placed, stock, proc, failures>>
      /\ \/ UNCHANGED <<age, session>> /\ draft[d] # "closed" /\ \E s \in {"open", "closed"} : draft' = [draft EXCEPT ![d] = s]
         \/ UNCHANGED <<draft, age>> /\ \E s \in {"paid", "cancelled"} : session' = [session EXCEPT ![d] = s]
         \/ UNCHANGED <<draft, session>> /\ \E s \in {"expired", "late"} : age' = [age EXCEPT ![d] = s]
  BY DEF CreateDraft, PaySession, CallCancelSession, Tick, CancelDraft, ExpireDrafts, CloseDraft, SaveDraftLands
<1>2. /\ draft' \in [Drafts -> {"none", "open", "closed"}]
      /\ \A e \in Drafts : draft[e] = "closed" => draft'[e] = "closed"
  BY <1>1, RowTypes
<1>3. age' \in [Drafts -> {"fresh", "expired", "late"}]
  BY <1>1, RowTypes
<1>4. session' \in [Drafts -> {"none", "pending", "paid", "cancelled"}]
  BY <1>1, RowTypes
<1> QED BY <1>1, <1>2, <1>3, <1>4, NobodyMoves, RowTypes

\* Each step of a handler.
LEMMA HandlerStepKeeps ==
  ASSUME SaleInv, NEW p \in Callers, handlerStep(p) \/ Fail(p)
  PROVE  SaleInv'
<1>1. CASE claimDraft(p)
  BY <1>1, ClaimKeeps
<1>2. CASE ReserveStock(p)
  BY <1>2, ReserveKeeps
<1>3. CASE CallOpenCheckout(p)
  BY <1>3, OpenKeeps
<1>4. CASE InsertItems(p)
  BY <1>4, InsertKeeps
<1>5. CASE checkoutFails(p)
  BY <1>5, CheckoutFailsKeeps
<1>6. CASE undoReservation(p)
  BY <1>6, UndoKeeps
<1>7. CASE cancelLine(p)
  BY <1>7, CancelLineKeeps
<1>8. CASE SaveItem(p)
  BY <1>8, SaveItemKeeps
<1>9. CASE ReleaseStock(p)
  BY <1>9, ReleaseKeeps
<1>10. CASE CreateOrder(p)
  BY <1>10, CreateOrderKeeps
<1>11. CASE LinkItems(p)
  BY <1>11, LinkItemsKeeps
<1>12. CASE HoldEscrow(p)
  BY <1>12, HoldKeeps
<1>13. CASE CommitStock(p)
  BY <1>13, CommitKeeps
<1>14. CASE publishPlaced(p)
  BY <1>14, PublishKeeps
<1>15. CASE Fail(p)
  <2>1. failures' \in 0 .. MaxFailures
    BY <1>15, RowTypes DEF Fail, failOnce
  <2> QED BY <1>15, <2>1, DoneStep DEF Fail, Done, draftUnchanged, sessionUnchanged, saleUnchanged
<1> QED BY <1>1, <1>2, <1>3, <1>4, <1>5, <1>6, <1>7, <1>8, <1>9, <1>10, <1>11, <1>12, <1>13, <1>14, <1>15
        DEF handlerStep

\* Every step keeps the invariant.
LEMMA SaleInvKept == SaleInv /\ [CheckoutNext]_checkoutVars => SaleInv'
<1> SUFFICES ASSUME SaleInv, [CheckoutNext]_checkoutVars PROVE SaleInv'
  OBVIOUS
<1>1. CASE UNCHANGED checkoutVars
  BY <1>1, NobodyMoves, RowTypes DEF checkoutVars
<1>2. ASSUME NEW d \in Drafts,
             \/ CreateDraft(d) \/ PaySession(d) \/ CallCancelSession(d) \/ Tick(d)
             \/ CancelDraft(d) \/ ExpireDrafts(d)
      PROVE  SaleInv'
  BY <1>2, DraftStepKeeps
<1>3. ASSUME NEW p \in Callers, NEW d \in Drafts, AbandonCheckout(p, d) PROVE SaleInv'
  BY <1>3, DropsBegin
<1>4. ASSUME NEW p \in Callers, NEW d \in Drafts, SettlePaidSession(p, d) PROVE SaleInv'
  BY <1>4, SettleBegins
<1>5. ASSUME NEW p \in Callers, NEW d \in Drafts, NEW lines \in SUBSET LinesOf(d), Checkout(p, d, lines)
      PROVE  SaleInv'
  BY <1>5, CheckoutBegins
<1>6. ASSUME NEW p \in Callers, NEW l \in Lines, CancelItem(p, l) PROVE SaleInv'
  BY <1>6, CancelItemBegins
<1>7. ASSUME NEW p \in Callers, ExpireCheckouts(p) PROVE SaleInv'
  BY <1>7, DropsBegin
<1>8. ASSUME NEW p \in Callers, handlerStep(p) \/ Fail(p) PROVE SaleInv'
  BY <1>8, HandlerStepKeeps
<1> QED BY <1>1, <1>2, <1>3, <1>4, <1>5, <1>6, <1>7, <1>8 DEF CheckoutNext

\* Nothing was checked out yet.
LEMMA SaleInvFirst == CheckoutInit => SaleInv
<1> SUFFICES ASSUME CheckoutInit PROVE SaleInv
  OBVIOUS
<1> USE DEF CheckoutInit
<1>1. /\ orders \in Seq(Drafts) /\ held \in Seq(Nat) /\ Len(orders) = 0 /\ Len(held) = 0
      /\ OrderIDs = {}
  BY EmptySeq DEF OrderIDs
<1>2. item \in [Lines -> Item] /\ \A l \in Lines : item[l].status = "none" /\ item[l].order = 0
  BY DEF Item, NoItem
<1>3. \A d : ~Inserted(d)
  BY <1>2 DEF Inserted, LinesOf
<1>4. SaleRows
  BY <1>1, <1>2, <1>3, CheckoutAssumption DEF SaleRows
<1>5. proc \in [Callers -> Running] /\ \A p \in Callers : proc[p] = Idle
  BY IdleHandler
<1>6. \A v : Owed(v) = {}
  BY <1>2, <1>5, IdleHandler DEF Owed, Live
<1>7. Backed
  <2>1. \A v \in Variants : stock[v].reserved = 0 /\ stock[v].sold = 0
    OBVIOUS
  <2>2. Cardinality({}) = 0
    BY FS_EmptySet
  <2> SUFFICES ASSUME NEW v \in Variants
               PROVE  /\ Cardinality(Owed(v)) <= stock[v].reserved + stock[v].sold
                      /\ stock[v].reserved + stock[v].sold <= Quantity
    BY DEF Backed
  <2>3. Cardinality(Owed(v)) = 0
    BY <1>6, <2>2
  <2> QED BY <2>1, <2>3, CheckoutAssumption
<1> QED BY <1>1, <1>4, <1>5, <1>7, IdleHandler DEF SaleInv

\* The invariant holds throughout, whatever the drafts, lines, callers, units
\* and failures.
THEOREM SaleInvHolds == CheckoutSpec => []SaleInv
BY SaleInvFirst, SaleInvKept, PTL DEF CheckoutSpec

\* No unit is sold twice, a draft is paid for through one session and becomes one
\* order, the escrow of an order covers its lines and an announced order is
\* whole: for any number of racing checkouts, cancellations, sweeps and
\* settlements, and wherever they fail.
THEOREM SalesStaySound == CheckoutSpec => []SaleSound
BY SaleInvHolds, SaleInvIsSound, PTL

-----------------------------------------------------------------------------
(* A line goes one way *)

\* A step that is not one of the three that write items leaves them alone; of
\* those, the insert finds no row, and the other two only a line that is live
\* and in no order.
LEMMA ItemWriters ==
  ASSUME SaleInv, [CheckoutNext]_checkoutVars
  PROVE  \A l \in Lines : \/ item'[l] = item[l]
                          \/ item[l].status = "none"
                          \/ item[l].status = "live" /\ item[l].order = 0
<1> USE DEF draftUnchanged, sessionUnchanged, saleUnchanged
<1> DEFINE Goal == \A l \in Lines : \/ item'[l] = item[l]
                                    \/ item[l].status = "none"
                                    \/ item[l].status = "live" /\ item[l].order = 0
<1>0. item \in [Lines -> Item]
  BY DEF SaleInv, SaleRows
<1>1. ASSUME item' = item PROVE Goal
  BY <1>1
<1>2. ASSUME UNCHANGED checkoutVars PROVE Goal
  BY <1>1, <1>2 DEF checkoutVars
<1>3. ASSUME NEW d \in Drafts,
             \/ CreateDraft(d) \/ PaySession(d) \/ CallCancelSession(d) \/ Tick(d)
             \/ CancelDraft(d) \/ ExpireDrafts(d)
      PROVE  Goal
  BY <1>1, <1>3 DEF CreateDraft, PaySession, CallCancelSession, Tick, CancelDraft, ExpireDrafts, CloseDraft
<1>4. ASSUME NEW p \in Callers, NEW d \in Drafts,
             \/ AbandonCheckout(p, d) \/ SettlePaidSession(p, d)
             \/ \E lines \in SUBSET LinesOf(d) : Checkout(p, d, lines)
      PROVE  Goal
  BY <1>1, <1>4 DEF AbandonCheckout, SettlePaidSession, Checkout
<1>5. ASSUME NEW p \in Callers, NEW l \in Lines, CancelItem(p, l) PROVE Goal
  BY <1>1, <1>5 DEF CancelItem
<1>6. ASSUME NEW p \in Callers, ExpireCheckouts(p) \/ Fail(p) PROVE Goal
  BY <1>1, <1>6 DEF ExpireCheckouts, Fail
<1>7. ASSUME NEW p \in Callers,
             \/ claimDraft(p) \/ ReserveStock(p) \/ CallOpenCheckout(p) \/ checkoutFails(p)
             \/ undoReservation(p) \/ cancelLine(p) \/ ReleaseStock(p) \/ HoldEscrow(p)
             \/ CommitStock(p) \/ publishPlaced(p)
      PROVE  Goal
  <2>1. item' = item
    BY <1>7 DEF claimDraft, ReserveStock, CallOpenCheckout, checkoutFails, undoReservation, cancelLine,
                ReleaseStock, HoldEscrow, CommitStock, publishPlaced
  <2> QED BY <1>1, <2>1
<1>8. ASSUME NEW p \in Callers, InsertItems(p) PROVE Goal
  <2>1. PICK g \in Running : g = proc[p]
    BY DEF SaleInv
  <2>2. g.at = "insert" /\ HandlerFits(g)
    BY <1>8, <2>1 DEF InsertItems, At, SaleInv
  <2>3. g.lines \subseteq LinesOf(g.d) /\ ~Inserted(g.d)
    BY <2>2 DEF HandlerFits, Claimed
  <2>4. item' = [l \in Lines |-> IF l \in g.lines THEN [status |-> "live", order |-> 0] ELSE item[l]]
    BY <1>8, <2>1 DEF InsertItems
  <2> QED BY <2>3, <2>4 DEF Inserted
<1>9. ASSUME NEW p \in Callers, SaveItem(p) PROVE Goal
  <2>1. PICK l : IF SaveItemLands(l) THEN item' = [item EXCEPT ![l].status = "cancelled"] ELSE item' = item
    BY <1>9 DEF SaveItem
  <2> QED BY <1>0, <2>1 DEF SaveItemLands, Cancellable, Live
<1>10. ASSUME NEW copy, NEW n, item' = Linked(copy, n) PROVE Goal
  BY <1>10 DEF Linked, Cancellable, Live
<1>11. ASSUME NEW p \in Callers, CreateOrder(p) \/ LinkItems(p) PROVE Goal
  BY <1>1, <1>10, <1>11 DEF CreateOrder, LinkItems
<1> HIDE DEF Goal
<1>12. ASSUME NEW p \in Callers, handlerStep(p) PROVE Goal
  BY <1>7, <1>8, <1>9, <1>11, <1>12 DEF handlerStep
<1>13. ASSUME CheckoutNext PROVE Goal
  BY <1>3, <1>4, <1>5, <1>6, <1>12, <1>13 DEF CheckoutNext
<1>14. Goal
  BY <1>2, <1>13
<1> QED BY <1>14 DEF Goal

\* A line an order covers stays as it is, and so does a cancelled one.
LEMMA LineStays ==
  ASSUME SaleInv, [CheckoutNext]_checkoutVars
  PROVE  \A l \in Lines :
           /\ item[l].order # 0 => item'[l] = item[l]
           /\ item[l].status = "cancelled" => item'[l] = item[l]
<1>1. \A l \in Lines : item[l].order # 0 => item[l].status = "live"
  BY DEF SaleInv, SaleRows
<1> QED BY <1>1, ItemWriters

\* Once an order covers a line it is neither cancelled nor moved, and a cancelled
\* line is taken by no order.
THEOREM LinesGoOneWay == CheckoutSpec => LineOneWay
<1>1. SaleInv /\ [CheckoutNext]_checkoutVars
      => [\A l \in Lines :
            /\ item[l].order # 0 => item'[l] = item[l]
            /\ item[l].status = "cancelled" => item'[l] = item[l]]_checkoutVars
  BY LineStays
<1> QED BY <1>1, SaleInvHolds, PTL DEF CheckoutSpec, LineOneWay

-----------------------------------------------------------------------------
(* The counters and the rows implement UnitPromises *)

StockStep == AtomicStock!Next \/ UNCHANGED <<Promised, Sold>>

\* A line of an order is live, before a step and after it.
LEMMA SoldIsPromised ==
  /\ SaleRows => Sold \subseteq Promised
  /\ SaleRows' => Sold' \subseteq Promised'
BY DEF SaleRows, Sold, Promised, Live

\* The abstract stock counts as the counters do.
LEMMA OneCount == \A S : AtomicStock!Cardinality(S) = Cardinality(S)
BY DEF AtomicStock!Cardinality, Cardinality

\* Units that are given up, none of them sold, are taken back.
LEMMA GivesUp ==
  ASSUME SaleInv, SaleInv', Promised' \subseteq Promised, Sold' = Sold
  PROVE  StockStep
<1> DEFINE S == Promised \ Promised'
<1>1. S \in SUBSET (Promised \ Sold)
  BY SoldIsPromised DEF SaleInv
<1>2. Promised' = Promised \ S
  OBVIOUS
<1> HIDE DEF S
<1>3. AtomicStock!TakeBack(S)
  BY <1>2 DEF AtomicStock!TakeBack
<1> QED BY <1>1, <1>3 DEF AtomicStock!Next, StockStep

\* Lines with a unit that come to an order are sold.
LEMMA Sells ==
  ASSUME SaleInv, SaleInv', Promised' = Promised, Sold \subseteq Sold'
  PROVE  StockStep
<1> DEFINE S == Sold' \ Sold
<1>1. S \in SUBSET (Promised \ Sold)
  BY SoldIsPromised DEF SaleInv
<1>2. Sold' = Sold \cup S
  OBVIOUS
<1> HIDE DEF S
<1>3. AtomicStock!Sell(S)
  BY <1>2 DEF AtomicStock!Sell
<1> QED BY <1>1, <1>3 DEF AtomicStock!Next, StockStep

\* Where items stay and the handler that moves takes nothing more, units are at most
\* given up.
LEMMA TakesNoMore ==
  ASSUME SaleInv, SaleInv', item' = item, NEW p \in Callers,
         \A q \in Callers \ {p} : proc'[q] = proc[q], Taken(p)' \subseteq Taken(p)
  PROVE  StockStep
<1>1. \A q \in Callers : Taken(q)' \subseteq Taken(q)
  BY DEF Taken
<1>2. Promised' \subseteq Promised /\ Sold' = Sold
  BY <1>1 DEF Promised, Sold, Live
<1> QED BY <1>2, GivesUp

\* A unit is reserved only while the variant has one more than its claims.
LEMMA ReservePromises ==
  ASSUME SaleInv, SaleInv', NEW p \in Callers, ReserveStock(p)
  PROVE  StockStep
<1>1. PICK g \in Running : g = proc[p]
  BY DEF SaleInv
<1>2. /\ g.op = "checkout" /\ g.at = "reserve" /\ HandlerFits(g) /\ Taken(p) = g.lines \ g.todo
      /\ item' = item /\ proc \in [Callers -> Running]
  BY <1>1 DEF ReserveStock, At, SaleInv, Taken
<1>3. PICK l \in g.todo :
        IF ReserveStockLands(l[2])
        THEN /\ stock' = [stock EXCEPT ![l[2]].reserved = @ + 1]
             /\ proc' = [proc EXCEPT ![p].todo = @ \ {l},
                                     ![p].at = IF proc[p].todo = {l} THEN "open" ELSE @]
        ELSE stock' = stock /\ Undo(p, Taken(p))
  BY <1>1 DEF ReserveStock
<1>4. g.lines \subseteq LinesOf(g.d) /\ g.todo \subseteq g.lines /\ ~Inserted(g.d) /\ g.d \in Drafts
  BY <1>2 DEF HandlerFits, Claimed
<1>5. l \in Lines /\ l[2] \in Variants /\ l[1] = g.d
  BY <1>4 DEF LinesOf, Variants
<1>6. CASE ~ReserveStockLands(l[2])
  <2>1. Taken(p) \in SUBSET Lines /\ Undo(p, Taken(p))
    BY <1>2, <1>3, <1>6 DEF Running
  <2>2. PICK h \in Running :
          /\ proc' = [proc EXCEPT ![p] = h]
          /\ h = Idle \/ (h.at = "undo" /\ h.todo = Taken(p))
    BY <1>2, <2>1, UndoCopy
  <2>3. proc'[p] = h /\ \A q \in Callers \ {p} : proc'[q] = proc[q]
    BY <1>2, <2>2
  <2>4. Taken(p)' \subseteq Taken(p)
    BY <2>2, <2>3, IdleFields DEF Taken
  <2> QED BY <1>2, <2>3, <2>4, TakesNoMore
<1>7. CASE ReserveStockLands(l[2])
  <2>1. PICK h \in Running :
          /\ proc' = [proc EXCEPT ![p] = h]
          /\ h.op = "checkout" /\ h.lines = g.lines /\ h.todo = g.todo \ {l}
          /\ h.at = IF g.todo = {l} THEN "open" ELSE "reserve"
    <3> DEFINE h == [g EXCEPT !.todo = g.todo \ {l}, !.at = IF g.todo = {l} THEN "open" ELSE g.at]
    <3>1. h \in Running
      BY <1>2 DEF Running
    <3>2. /\ h.op = "checkout" /\ h.lines = g.lines /\ h.todo = g.todo \ {l}
          /\ h.at = IF g.todo = {l} THEN "open" ELSE "reserve"
      BY <1>2 DEF Running
    <3>3. proc' = [proc EXCEPT ![p] = h]
      BY <1>1, <1>3, <1>7 DEF SaleInv
    <3> HIDE DEF h
    <3> QED BY <3>1, <3>2, <3>3
  <2>2. proc'[p] = h /\ \A q \in Callers \ {p} : proc'[q] = proc[q]
    BY <1>2, <2>1
  <2>3. Taken(p)' = Taken(p) \cup {l}
    BY <1>2, <1>4, <2>1, <2>2 DEF Taken
  <2>4. \A q \in Callers \ {p} : Taken(q)' = Taken(q)
    BY <2>2 DEF Taken
  <2>5. Promised' = Promised \cup {l} /\ Sold' = Sold
    BY <1>2, <1>5, <2>3, <2>4 DEF Promised, Sold, Live
  <2>6. l \notin Promised
    <3>1. ~Live(l)
      BY <1>4, <1>5 DEF Inserted, LinesOf, Live
    <3>2. l \notin Taken(p)
      BY <1>2, <1>3
    <3>3. ASSUME NEW q \in Callers \ {p} PROVE l \notin Taken(q)
      <4>1. PICK k \in Running : k = proc[q]
        BY DEF SaleInv
      <4>2. HandlerFits(k) /\ Apart(g, k)
        BY <1>1, <4>1 DEF SaleInv
      <4>3. ASSUME l \in Taken(q) PROVE k.at \in Claimed /\ l \in k.lines
        BY <4>1, <4>2, <4>3 DEF Taken, Claimed, HandlerFits
      <4>4. k.at \in Claimed => k.lines \subseteq LinesOf(k.d) /\ k.d # g.d
        BY <1>2, <4>2 DEF HandlerFits, Apart, Claimed
      <4> QED BY <1>5, <4>3, <4>4 DEF LinesOf
    <3> QED BY <3>1, <3>2, <3>3 DEF Promised
  <2>7. Cardinality({k \in Promised : k[2] = l[2]}) < Quantity
    <3>1. ASSUME NEW q \in Callers, NEW k \in Taken(q) PROVE Holds(proc[q], k)
      <4>1. proc[q] \in Running
        BY DEF SaleInv
      <4> QED BY <3>1, <4>1 DEF Holds, TakenOf, Taken, Running
    <3>2. {k \in Promised : k[2] = l[2]} \in SUBSET Owed(l[2]) /\ Owed(l[2]) \in SUBSET Lines
      BY <3>1 DEF Owed, Promised
    <3> DEFINE B == {k \in Promised : k[2] = l[2]}
    <3> HIDE DEF B
    <3>3. B \in SUBSET Owed(l[2]) /\ B \in SUBSET Lines
      BY <3>2 DEF B
    <3>4. /\ Cardinality(B) <= Cardinality(Owed(l[2]))
          /\ Cardinality(B) \in Nat /\ Cardinality(Owed(l[2])) \in Nat
      BY <3>2, <3>3, FiniteLines, CardinalityGrows
    <3>5. stock[l[2]].reserved \in Nat /\ stock[l[2]].sold \in Nat
      BY <1>5 DEF SaleInv, SaleRows
    <3>6. /\ Cardinality(Owed(l[2])) <= stock[l[2]].reserved + stock[l[2]].sold
          /\ stock[l[2]].reserved + stock[l[2]].sold + 1 <= Quantity
      BY <1>5, <1>7 DEF SaleInv, Backed, ReserveStockLands
    <3>7. Cardinality(B) < Quantity
      BY <3>4, <3>5, <3>6, CheckoutAssumption
    <3> QED BY <3>7 DEF B
  <2>8. AtomicStock!Promise(l)
    BY <2>5, <2>6, <2>7, OneCount DEF AtomicStock!Promise, AtomicStock!Beside
  <2> QED BY <1>5, <2>8 DEF AtomicStock!Next, StockStep
<1> QED BY <1>6, <1>7

\* The other steps of a checkout move its units on or give them up.
LEMMA CheckoutPromises ==
  ASSUME SaleInv, SaleInv', NEW p \in Callers,
         \/ claimDraft(p) \/ CallOpenCheckout(p) \/ InsertItems(p)
         \/ checkoutFails(p) \/ undoReservation(p)
  PROVE  StockStep
<1> USE DEF draftUnchanged, sessionUnchanged, saleUnchanged
<1>1. PICK g \in Running : g = proc[p]
  BY DEF SaleInv
<1>2. HandlerFits(g) /\ proc \in [Callers -> Running]
  BY <1>1 DEF SaleInv
<1>3. CASE claimDraft(p)
  <2>1. item' = item /\ g.op = "checkout" /\ g.at = "claim" /\ (Goto(p, "reserve") \/ Done(p))
    BY <1>1, <1>3 DEF claimDraft, At
  <2>2. PICK h \in Running :
          /\ proc' = [proc EXCEPT ![p] = h]
          /\ h = Idle \/ (h.at = "reserve" /\ h.lines = g.lines /\ h.todo = g.todo)
    BY <1>1, <1>2, <2>1, GotoCopy, IdleFields DEF Done
  <2>3. proc'[p] = h /\ \A q \in Callers \ {p} : proc'[q] = proc[q]
    BY <1>2, <2>2
  <2>4. g.todo = g.lines
    BY <1>2, <2>1 DEF HandlerFits
  <2>5. Taken(p)' = {}
    BY <2>2, <2>3, <2>4, IdleFields DEF Taken
  <2> QED BY <2>1, <2>3, <2>5, TakesNoMore
<1>4. CASE CallOpenCheckout(p)
  <2>1. item' = item /\ g.op = "checkout" /\ g.at = "open" /\ Goto(p, "insert")
    BY <1>1, <1>4 DEF CallOpenCheckout, At
  <2>2. PICK h \in Running : proc' = [proc EXCEPT ![p] = h] /\ h.at = "insert" /\ h.lines = g.lines
    BY <1>1, <1>2, <2>1, GotoCopy
  <2>3. proc'[p] = h /\ \A q \in Callers \ {p} : proc'[q] = proc[q]
    BY <1>2, <2>2
  <2>4. Taken(p)' \subseteq Taken(p)
    BY <1>1, <2>1, <2>2, <2>3 DEF Taken
  <2> QED BY <2>1, <2>3, <2>4, TakesNoMore
<1>5. CASE InsertItems(p)
  <2>1. /\ g.op = "checkout" /\ g.at = "insert" /\ Done(p)
        /\ item' = [l \in Lines |-> IF l \in g.lines THEN [status |-> "live", order |-> 0] ELSE item[l]]
    BY <1>1, <1>5 DEF InsertItems, At
  <2>2. proc'[p] = Idle /\ \A q \in Callers \ {p} : proc'[q] = proc[q]
    BY <1>2, <2>1 DEF Done
  <2>3. Taken(p) = g.lines /\ Taken(p)' = {} /\ \A q \in Callers \ {p} : Taken(q)' = Taken(q)
    BY <1>1, <2>1, <2>2, IdleFields DEF Taken
  <2>4. \A l \in Lines : Live(l)' <=> Live(l) \/ l \in g.lines
    BY <2>1 DEF Live
  <2>5. Promised' = Promised
    BY <2>3, <2>4 DEF Promised
  <2>6. g.lines \subseteq LinesOf(g.d) /\ ~Inserted(g.d)
    BY <1>2, <2>1 DEF HandlerFits, Claimed
  <2>7. \A l \in g.lines : item[l].status = "none"
    BY <2>6 DEF Inserted
  <2>8. \A l \in g.lines : item[l].order = 0
    BY <2>6, <2>7 DEF SaleInv, SaleRows, LinesOf
  <2>9. Sold' = Sold
    BY <2>1, <2>8 DEF Sold
  <2> QED BY <2>5, <2>9, GivesUp
<1>6. CASE checkoutFails(p) \/ undoReservation(p)
  <2>1. PICK units \in SUBSET Taken(p) : Undo(p, units) /\ item' = item /\ g.op = "checkout"
    BY <1>1, <1>6 DEF checkoutFails, undoReservation, Taken, At
  <2>2. Taken(p) \subseteq Lines
    BY <1>1 DEF Taken, Running
  <2>3. PICK h \in Running : /\ proc' = [proc EXCEPT ![p] = h]
                             /\ h = Idle \/ (h.at = "undo" /\ h.todo = units)
    BY <1>2, <2>1, <2>2, UndoCopy
  <2>4. proc'[p] = h /\ \A q \in Callers \ {p} : proc'[q] = proc[q]
    BY <1>2, <2>3
  <2>5. Taken(p)' \subseteq Taken(p)
    BY <2>1, <2>3, <2>4, IdleFields DEF Taken
  <2> QED BY <2>1, <2>4, <2>5, TakesNoMore
<1> QED BY <1>3, <1>4, <1>5, <1>6

\* A handler that drops or settles lines has taken none; a cancelled line gives its unit
\* up, and a linked one is sold.
LEMMA OthersPromise ==
  ASSUME SaleInv, SaleInv', NEW p \in Callers,
         \/ cancelLine(p) \/ SaveItem(p) \/ ReleaseStock(p)
         \/ CreateOrder(p) \/ LinkItems(p) \/ HoldEscrow(p) \/ CommitStock(p) \/ publishPlaced(p)
  PROVE  StockStep
<1> USE DEF draftUnchanged, sessionUnchanged, saleUnchanged
<1>1. PICK g \in Running : g = proc[p]
  BY DEF SaleInv
<1>2. HandlerFits(g) /\ proc \in [Callers -> Running]
  BY <1>1 DEF SaleInv
<1>3. g.op # "checkout"
  <2>1. g.op = "settle" \/ g.at \in {"next", "save", "release"}
    BY <1>1 DEF cancelLine, SaveItem, ReleaseStock, CreateOrder, LinkItems, HoldEscrow, CommitStock,
                publishPlaced, At
  <2> QED BY <1>2, <2>1 DEF HandlerFits
<1>4. \A q \in Callers \ {p} : proc'[q] = proc[q]
  BY <1>2 DEF cancelLine, SaveItem, ReleaseStock, CreateOrder, LinkItems, HoldEscrow, CommitStock,
              publishPlaced, NextLine, Goto, Done, CommitRefused
<1>5. proc'[p].op # "checkout"
  <2>1. \/ proc'[p] = Idle
        \/ proc'[p].op = g.op
    <3>1. ASSUME NextLine(p) \/ Done(p) \/ \E s : Goto(p, s)
          PROVE  proc'[p] = Idle \/ proc'[p].op = g.op
      BY <1>1, <1>2, <3>1 DEF NextLine, Done, Goto, Running
    <3>2. CASE SaveItem(p) \/ ReleaseStock(p) \/ LinkItems(p) \/ HoldEscrow(p) \/ publishPlaced(p)
      BY <3>1, <3>2 DEF SaveItem, ReleaseStock, LinkItems, HoldEscrow, publishPlaced
    <3>3. CASE cancelLine(p)
      <4>1. PICK l \in g.todo :
              \/ proc' = [proc EXCEPT ![p].at = "save", ![p].line = {l}, ![p].todo = g.todo \ {l}]
              \/ proc' = [proc EXCEPT ![p] = IF g.todo \ {l} = {} THEN Idle ELSE [@ EXCEPT !.todo = g.todo \ {l}]]
        BY <1>1, <3>3 DEF cancelLine
      <4> QED BY <1>1, <1>2, <4>1 DEF Running
    <3>4. CASE CreateOrder(p)
      BY <1>1, <1>2, <3>4 DEF CreateOrder, Running
    <3>5. CASE CommitStock(p)
      BY <1>1, <1>2, <3>1, <3>5 DEF CommitStock, CommitRefused, Running
    <3> QED BY <3>2, <3>3, <3>4, <3>5
  <2> QED BY <1>3, <2>1, IdleFields
<1>6. Taken(p) = {} /\ Taken(p)' = {} /\ \A q \in Callers : Taken(q)' = Taken(q)
  BY <1>1, <1>3, <1>4, <1>5 DEF Taken
<1>7. item \in [Lines -> Item]
  BY DEF SaleInv, SaleRows
<1>8. CASE item' = item
  BY <1>4, <1>6, <1>8, TakesNoMore
<1>9. ASSUME NEW copy, NEW n \in Nat, item' = Linked(copy, n) PROVE StockStep
  <2>1. \A l \in Lines : item'[l].status = item[l].status /\ (item[l].order # 0 => item'[l] = item[l])
    BY <1>9, LinkedItems DEF SaleInv
  <2>2. Promised' = Promised /\ Sold \subseteq Sold'
    BY <1>6, <2>1 DEF Promised, Sold, Live
  <2> QED BY <2>2, Sells
<1>10. CASE SaveItem(p)
  <2>1. PICK l : IF SaveItemLands(l) THEN item' = [item EXCEPT ![l].status = "cancelled"] ELSE item' = item
    BY <1>10 DEF SaveItem
  <2>2. CASE SaveItemLands(l)
    <3>1. \A k \in Lines : (item'[k].status = "live" => item[k].status = "live") /\ item'[k].order = item[k].order
      BY <1>7, <2>1, <2>2 DEF Item
    <3>2. Promised' \subseteq Promised /\ Sold' = Sold
      BY <1>6, <3>1 DEF Promised, Sold, Live
    <3> QED BY <3>2, GivesUp
  <2> QED BY <1>8, <2>1, <2>2
<1>11. CASE CreateOrder(p)
  <2>1. Len(orders) + 1 \in Nat
    BY LenProperties DEF SaleInv, SaleRows
  <2> QED BY <1>8, <1>9, <1>11, <2>1 DEF CreateOrder
<1>12. CASE LinkItems(p)
  BY <1>1, <1>9, <1>12 DEF LinkItems, Running
<1>13. CASE cancelLine(p) \/ ReleaseStock(p) \/ HoldEscrow(p) \/ CommitStock(p) \/ publishPlaced(p)
  BY <1>8, <1>13 DEF cancelLine, ReleaseStock, HoldEscrow, CommitStock, publishPlaced
<1> QED BY <1>10, <1>11, <1>12, <1>13

\* Every step of the checkouts is one of the atomic stock, or none.
LEMMA StepIsPromised == SaleInv /\ SaleInv' /\ [CheckoutNext]_checkoutVars => StockStep
<1> SUFFICES ASSUME SaleInv, SaleInv', [CheckoutNext]_checkoutVars PROVE StockStep
  OBVIOUS
<1> USE DEF draftUnchanged, sessionUnchanged, saleUnchanged
<1>0. proc \in [Callers -> Running]
  BY DEF SaleInv
<1>1. ASSUME UNCHANGED <<item, proc>> PROVE StockStep
  BY <1>1 DEF StockStep, Promised, Sold, Live, Taken
<1>2. CASE UNCHANGED checkoutVars
  BY <1>1, <1>2 DEF checkoutVars
<1>3. ASSUME NEW d \in Drafts,
             \/ CreateDraft(d) \/ PaySession(d) \/ CallCancelSession(d) \/ Tick(d)
             \/ CancelDraft(d) \/ ExpireDrafts(d)
      PROVE  StockStep
  BY <1>1, <1>3 DEF CreateDraft, PaySession, CallCancelSession, Tick, CancelDraft, ExpireDrafts, CloseDraft
<1>4. ASSUME NEW p \in Callers, NEW h, proc' = [proc EXCEPT ![p] = h], item' = item,
             h.op # "checkout" \/ h.at = "claim"
      PROVE  StockStep
  <2>1. proc'[p] = h /\ \A q \in Callers \ {p} : proc'[q] = proc[q]
    BY <1>0, <1>4
  <2>2. Taken(p)' = {}
    BY <1>4, <2>1 DEF Taken
  <2> QED BY <1>4, <2>1, <2>2, TakesNoMore
<1>5. ASSUME NEW p \in Callers, NEW d \in Drafts,
             \/ AbandonCheckout(p, d) \/ SettlePaidSession(p, d)
             \/ \E lines \in SUBSET LinesOf(d) : Checkout(p, d, lines)
      PROVE  StockStep
  <2>1. item' = item
    BY <1>5 DEF AbandonCheckout, SettlePaidSession, Checkout
  <2>2. ASSUME NEW h, Begin(p, h), h.op # "checkout" \/ h.at = "claim" PROVE StockStep
    BY <1>4, <2>1, <2>2 DEF Begin
  <2>3. CASE AbandonCheckout(p, d)
    <3>1. PICK todo : Begin(p, [Idle EXCEPT !.op = "abandon", !.at = "next", !.todo = todo])
      BY <2>3 DEF AbandonCheckout
    <3>2. [Idle EXCEPT !.op = "abandon", !.at = "next", !.todo = todo].op = "abandon"
      BY IdleFields DEF Running
    <3> QED BY <2>2, <3>1, <3>2
  <2>4. CASE SettlePaidSession(p, d)
    <3> DEFINE paid == {l \in LinesOf(d) : Live(l)}
               h == [Idle EXCEPT !.op = "settle", !.d = d, !.lines = paid, !.todo = paid]
    <3>1. Begin(p, [h EXCEPT !.at = "create"]) \/ \E n : Begin(p, [h EXCEPT !.at = "link", !.n = n])
      BY <2>4 DEF SettlePaidSession
    <3>2. [h EXCEPT !.at = "create"].op = "settle" /\ \A n : [h EXCEPT !.at = "link", !.n = n].op = "settle"
      BY IdleFields DEF Running
    <3> HIDE DEF h
    <3> QED BY <2>2, <3>1, <3>2
  <2>5. ASSUME NEW lines, Checkout(p, d, lines) PROVE StockStep
    <3> DEFINE h == [Idle EXCEPT !.op = "checkout", !.at = "claim", !.d = d, !.lines = lines, !.todo = lines]
    <3>1. Begin(p, h)
      BY <2>5 DEF Checkout
    <3>2. h.at = "claim"
      BY IdleFields DEF Running
    <3> HIDE DEF h
    <3> QED BY <2>2, <3>1, <3>2
  <2> QED BY <1>5, <2>3, <2>4, <2>5
<1>6. ASSUME NEW p \in Callers, NEW l \in Lines, CancelItem(p, l) PROVE StockStep
  BY <1>4, <1>6 DEF CancelItem, Begin, Idle
<1>7. ASSUME NEW p \in Callers, ExpireCheckouts(p) \/ Fail(p) PROVE StockStep
  BY <1>4, <1>7 DEF ExpireCheckouts, Fail, Done, Begin, Idle
<1>8. ASSUME NEW p \in Callers, handlerStep(p) PROVE StockStep
  BY <1>8, ReservePromises, CheckoutPromises, OthersPromise DEF handlerStep
<1>9. CASE CheckoutNext
  BY <1>3, <1>5, <1>6, <1>7, <1>8, <1>9 DEF CheckoutNext
<1> QED BY <1>2, <1>9

\* Counters and rows that no transaction writes together are, to whoever asks which lines
\* have a unit, one atomic stock: for any number of checkouts, cancellations, sweeps and
\* settlements, and wherever they fail (stock.go, service_draft.go, order.go).
THEOREM StockIsAtomic == CheckoutSpec => UnitsArePromised
<1>1. CheckoutInit => AtomicStock!Init
  BY DEF CheckoutInit, AtomicStock!Init, Promised, Sold, Live, Taken, NoItem, Idle
<1>2. SaleInv /\ SaleInv' /\ [CheckoutNext]_checkoutVars => [AtomicStock!Next]_<<Promised, Sold>>
  BY StepIsPromised DEF StockStep
<1> QED BY <1>1, <1>2, SaleInvHolds, PTL DEF CheckoutSpec, UnitsArePromised, AtomicStock!Spec
==============================================================================
