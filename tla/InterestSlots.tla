---------------------------- MODULE InterestSlots ----------------------------
(***************************************************************************)
(* What a personalised feed believes one account is into.  The wishlist,   *)
(* the shopper's actions taken off the bus and the vectors of the listings *)
(* behind them are folded into the account's interest slots: by the        *)
(* wishlist write itself, best-effort, and by a sweep over the accounts    *)
(* whose slots are older than what they were folded from.  A row carries   *)
(* the time its write began and is seen from its commit on.                *)
(***************************************************************************)
EXTENDS Naturals, FiniteSets

CONSTANTS
    Goods,             \* listings that can be saved or acted on
    Refreshes,         \* recomputes that may be in flight at once
    MaxTaste,          \* bound on saves, unsaves, actions and vector writes
    MaxFoldFailures,   \* bound on recomputes the database fails
    Never              \* the time of what has not happened

ASSUME InterestAssumption == Never \notin Nat

VARIABLES
    favorite,    \* when each listing was saved
    signal,      \* when the last action on each listing was stored
    embedded,    \* when each listing's vector was written
    landing,     \* signals and vectors stamped and not committed yet
    slots,       \* the stored interests: what they were folded from, and when
    recomputing,     \* recomputes in flight
    now,         \* the database clock
    used         \* changes and failures so far

interestVars == <<favorite, signal, embedded, landing, slots, recomputing, now, used>>

Resting == [step |-> "rest"]

\* `astride' (history) are the listings a row of which was being written as the fold read.
NoSlots == [from |-> {}, at |-> Never, astride |-> {}]

\* The listings a fold reads: on the wishlist or acted on, and with a vector.
interestSignals ==
    {l \in Goods : embedded[l] # Never /\ (favorite[l] # Never \/ signal[l] # Never)}

Later(t, at) == IF t = Never THEN FALSE ELSE IF at = Never THEN TRUE ELSE t > at

\* Nothing computed yet, something saved or done since, or a vector since.
StaleInterests ==
    \E l \in interestSignals : \E t \in {favorite[l], signal[l], embedded[l]} : Later(t, slots.at)

-----------------------------------------------------------------------------
Change ==
    /\ used.taste < MaxTaste
    /\ used' = [used EXCEPT !.taste = @ + 1]
    /\ now' = now + 1

\* A row gets its stamp: the database's at the beginning of the statement or of the
\* transaction, the embedder's before it opens one.
Stamped(kind, l) == [kind |-> kind, good |-> l, at |-> now + 1]

StartBatch(kind, l) ==
    /\ Change
    /\ landing' = landing \cup {Stamped(kind, l)}
    /\ UNCHANGED <<favorite, signal, embedded, slots, recomputing>>

\* Every row that is stamped and not committed: a favourite's is its request's.
InFlight ==
    landing \cup {recomputing[r].row : r \in {q \in Refreshes : recomputing[q].step = "saving"}}

\* A wishlist write is followed by the recompute of the same request.
Refreshing(r) ==
    /\ recomputing[r] = Resting
    /\ recomputing' = [recomputing EXCEPT ![r] = [step |-> "due"]]

AddFavorite(r, l) ==
    /\ Change
    /\ recomputing[r] = Resting
    /\ recomputing' = [recomputing EXCEPT ![r] = [step |-> "saving", row |-> Stamped("favorite", l)]]
    /\ UNCHANGED <<favorite, signal, embedded, landing, slots>>

\* The insert commits: saving twice keeps the first row.
FavoriteLands(r) ==
    /\ recomputing[r].step = "saving"
    /\ LET w == recomputing[r].row IN
        favorite' = [favorite EXCEPT ![w.good] = IF @ = Never THEN w.at ELSE @]
    /\ recomputing' = [recomputing EXCEPT ![r] = [step |-> "due"]]
    /\ UNCHANGED <<signal, embedded, landing, slots, now, used>>

RemoveFavorite(r, l) ==
    /\ Change
    /\ favorite' = [favorite EXCEPT ![l] = Never]
    /\ Refreshing(r)
    /\ UNCHANGED <<signal, embedded, landing, slots>>

\* A shopper's action or a purchase, published best-effort and stored by the
\* consumer of the topic; nothing recomputes then.
InsertListingSignals(l) == StartBatch("signal", l)

\* The embedder writes the listing's vector.
WriteVector(l) == StartBatch("vector", l)

\* The batch of one of them commits.
BatchLands(w) ==
    /\ w \in landing
    /\ landing' = landing \ {w}
    /\ signal' = IF w.kind = "signal" /\ Later(w.at, signal[w.good])
                 THEN [signal EXCEPT ![w.good] = w.at] ELSE signal
    /\ embedded' = IF w.kind = "vector" THEN [embedded EXCEPT ![w.good] = w.at] ELSE embedded
    /\ UNCHANGED <<favorite, slots, recomputing, now, used>>

\* One pass of the sweep finds the account and recomputes it.
sweepInterests(r) ==
    /\ StaleInterests
    /\ Refreshing(r)
    /\ UNCHANGED <<favorite, signal, embedded, landing, slots, now, used>>

-----------------------------------------------------------------------------
\* Mutant: a recompute is dated when it commits.
DatedAtCommit(fold) == now

\* updated_at is now(), which is when the transaction began.
FoldedAt(fold) == fold.at

\* The transaction begins, clears the slots and reads what it folds.
FoldInterests(r) ==
    /\ recomputing[r].step = "due"
    /\ recomputing' = [recomputing EXCEPT ![r] =
            [step |-> "folded", at |-> now, from |-> interestSignals, overtaken |-> FALSE,
             astride |-> {w.good : w \in InFlight}]]
    /\ UNCHANGED <<favorite, signal, embedded, landing, slots, now, used>>

\* No signal, no row: the account has no slots.
Folded(fold) ==
    [from |-> fold.from, astride |-> fold.astride,
     at |-> IF fold.from = {} THEN Never ELSE FoldedAt(fold)]

\* Slots another recompute inserted since the clear collide with these.
SlotsTaken(fold) == fold.overtaken /\ slots.from # {} /\ fold.from # {}

\* A commit overtakes the other folds.
Overtaking(r) ==
    [q \in Refreshes |->
        IF q = r THEN Resting
        ELSE IF recomputing[q].step = "folded" THEN [recomputing[q] EXCEPT !.overtaken = TRUE]
        ELSE recomputing[q]]

\* The commit, or a refusal that is only logged.
RecomputeInterests(r) ==
    /\ recomputing[r].step = "folded"
    /\ IF SlotsTaken(recomputing[r])
       THEN UNCHANGED slots /\ recomputing' = [recomputing EXCEPT ![r] = Resting]
       ELSE slots' = Folded(recomputing[r]) /\ recomputing' = Overtaking(r)
    /\ UNCHANGED <<favorite, signal, embedded, landing, now, used>>

RecomputeFails(r) ==
    /\ recomputing[r].step \in {"due", "folded"}
    /\ used.failures < MaxFoldFailures
    /\ used' = [used EXCEPT !.failures = @ + 1]
    /\ recomputing' = [recomputing EXCEPT ![r] = Resting]
    /\ UNCHANGED <<favorite, signal, embedded, landing, slots, now>>

-----------------------------------------------------------------------------
InterestInit ==
    /\ favorite = [l \in Goods |-> Never]
    /\ signal = [l \in Goods |-> Never]
    /\ embedded = [l \in Goods |-> Never]
    /\ landing = {}
    /\ slots = NoSlots
    /\ recomputing = [r \in Refreshes |-> Resting]
    /\ now = 0
    /\ used = [taste |-> 0, failures |-> 0]

InterestNext ==
    \/ \E l \in Goods :
        \/ InsertListingSignals(l)
        \/ WriteVector(l)
        \/ \E r \in Refreshes : AddFavorite(r, l) \/ RemoveFavorite(r, l)
    \/ \E w \in landing : BatchLands(w)
    \/ \E r \in Refreshes :
        \/ FavoriteLands(r)
        \/ sweepInterests(r)
        \/ FoldInterests(r)
        \/ RecomputeInterests(r)
        \/ RecomputeFails(r)

InterestSpec == InterestInit /\ [][InterestNext]_interestVars

(* Times lie in the past and slots name listings.                          *)
InterestTypeOK ==
    /\ \A l \in Goods : {favorite[l], signal[l], embedded[l]} \subseteq 1 .. now \cup {Never}
    /\ landing \subseteq [kind : {"signal", "vector"}, good : Goods, at : 1 .. now]
    /\ slots.from \subseteq Goods /\ slots.astride \subseteq Goods
    /\ slots.at \in 0 .. now \cup {Never}
    /\ \A r \in Refreshes : recomputing[r].step \in {"rest", "saving", "due", "folded"}

(* The sweep is a net with one hole for what was added: a listing saved or *)
(* acted on that has a vector is in the slots, or the sweep's query finds  *)
(* the account, or a row about the listing was already stamped and not yet *)
(* committed as the slots' own fold read.  However recomputes of the       *)
(* wishlist writes and of the sweep overlap, collide on the slots or fail, *)
(* and whatever lands late, nothing else is missed.                        *)
NothingAddedIsMissed ==
    \A l \in interestSignals : l \in slots.from \/ StaleInterests \/ l \in slots.astride

=============================================================================
