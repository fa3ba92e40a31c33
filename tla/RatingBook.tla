---------------------------- MODULE RatingBook ----------------------------
(***************************************************************************)
(* Trust's ratings: the blind feedback pair of each order, the reviews of a *)
(* listing with their replies and votes, and the aggregates kept beside     *)
(* them - the seller's and the buyer's reputation, a review's tallies and   *)
(* the listing rating catalog caches. Repository calls are transactions;    *)
(* a service reads the review before one and pushes the average after it.   *)
(***************************************************************************)
EXTENDS Naturals, Integers, FiniteSets, Functions

CONSTANTS
  Sales,          \* the orders between one buyer and one seller
  Voters,         \* the accounts that vote and reply, beside the two parties
  RatingCallers,  \* requests running at once
  Ratings,        \* the ratings given
  MaxEdits        \* bound on the edits, deletions and replies begun

(* domain/feedback.go, domain/review.go: a rating is one to five.           *)
ASSUME RatingAssumption ==
  /\ IsFiniteSet(Sales) /\ IsFiniteSet(Voters)
  /\ Ratings \subseteq 1 .. 5
  /\ MaxEdits \in Nat

VARIABLES
  sale,           \* per order: its state, and whether its outcome is counted
  feedback,       \* per order and direction: the rating row
  windowOver,     \* the orders whose blind window has run out
  reviews,        \* per order: the review of the listing it covered
  replies,        \* per order: the replies under that review
  votes,          \* per order: the vote rows under that review
  reputation,     \* per role: the aggregate row
  cachedRating,   \* catalog's copy of the listing's rating
  ratingOp,       \* per request: what it read and does next
  edits           \* edits begun

ratingVars == <<sale, feedback, windowOver, reviews, replies, votes, reputation,
                cachedRating, ratingOp, edits>>

Directions == {"buyer-to-seller", "seller-to-buyer"}

NoRow == [is |-> FALSE]

IdleRating == [at |-> "idle"]

Opposite(d) == IF d = "buyer-to-seller" THEN "seller-to-buyer" ELSE "buyer-to-seller"

RoleRated(d) == IF d = "buyer-to-seller" THEN "seller" ELSE "buyer"

Written(o, d) == feedback[o][d] # NoRow

Published(o, d) == Written(o, d) /\ feedback[o][d].published

Reviewed(o) == reviews[o] # NoRow

StepRating(c, op) == ratingOp' = [ratingOp EXCEPT ![c] = op]

AtRest(c) == ratingOp[c] = IdleRating

BeginEdit(c, op) ==
  /\ AtRest(c)
  /\ edits < MaxEdits
  /\ edits' = edits + 1
  /\ StepRating(c, op)

(***************************************************************************)
(* The order module settles a sale and says so, at least once.              *)
(***************************************************************************)
SaleSettles(o) ==
  /\ sale[o].state = "open"
  /\ \E state \in {"completed", "cancelled"} : sale' = [sale EXCEPT ![o].state = state]
  /\ UNCHANGED <<feedback, windowOver, reviews, replies, votes, reputation, cachedRating,
                 ratingOp, edits>>

(* Mutant: every delivery of the settled event is counted.                  *)
CountEveryDelivery(o) == TRUE

(* The order id is claimed in the transaction that counts it.               *)
ClaimOrderOutcome(o) == ~sale[o].counted

(* AddOrderOutcome: both parties' counters, each in the role they played.   *)
AddOrderOutcome(o) ==
  IF ClaimOrderOutcome(o)
  THEN /\ sale' = [sale EXCEPT ![o].counted = TRUE]
       /\ reputation' = [r \in DOMAIN reputation |->
            IF sale[o].state = "completed"
            THEN [reputation[r] EXCEPT !.completed = @ + 1]
            ELSE [reputation[r] EXCEPT !.cancelled = @ + 1]]
  ELSE UNCHANGED <<sale, reputation>>

RecordOrderOutcome(o) ==
  /\ sale[o].state # "open"
  /\ AddOrderOutcome(o)
  /\ UNCHANGED <<feedback, windowOver, reviews, replies, votes, cachedRating, ratingOp, edits>>

(***************************************************************************)
(* Feedback.                                                                *)
(***************************************************************************)
(* publishFeedback and addRating over a set of rows not yet published.      *)
PublishRows(f, o, ds) ==
  /\ feedback' = [f EXCEPT ![o] = [d \in Directions |->
                    IF d \in ds THEN [f[o][d] EXCEPT !.published = TRUE] ELSE f[o][d]]]
  /\ reputation' = [r \in DOMAIN reputation |->
       LET given == {d \in ds : RoleRated(d) = r} IN
       [reputation[r] EXCEPT !.sum = @ + SumFunction([d \in given |-> f[o][d].rating]),
                             !.count = @ + Cardinality(given)]]

(* Mutant: the pair revealed from rows that may be out already.             *)
RevealPairAgain(f, o) == Directions

(* InsertFeedback's reveal skips a row the sweep has published already.     *)
BlindPair(f, o) == {d \in Directions : ~f[o][d].published}

(* SubmitFeedback and InsertFeedback, under the order's advisory lock: the  *)
(* submission that completes the pair reveals it.                           *)
SubmitFeedback(o, d) ==
  /\ sale[o].state # "open"
  /\ ~Written(o, d)
  /\ \E rating \in Ratings :
       LET f == [feedback EXCEPT ![o][d] = [is |-> TRUE, rating |-> rating, published |-> FALSE]]
       IN  IF Written(o, Opposite(d))
           THEN PublishRows(f, o, BlindPair(f, o))
           ELSE feedback' = f /\ UNCHANGED reputation
  /\ UNCHANGED <<sale, windowOver, reviews, replies, votes, cachedRating, ratingOp, edits>>

BlindWindowCloses(o) ==
  /\ o \notin windowOver
  /\ \E d \in Directions : Written(o, d)
  /\ windowOver' = windowOver \cup {o}
  /\ UNCHANGED <<sale, feedback, reviews, replies, votes, reputation, cachedRating, ratingOp,
                 edits>>

(* Mutant: the reveal list without the window.                              *)
DueAtOnce(o, d) == Written(o, d) /\ ~Published(o, d)

DueFeedback(o, d) == Written(o, d) /\ ~Published(o, d) /\ o \in windowOver

(* RevealDueFeedback: the list is read, and each row published later.       *)
RevealDueFeedback(c) ==
  /\ AtRest(c)
  /\ \E o \in Sales, d \in Directions :
       /\ DueFeedback(o, d)
       /\ StepRating(c, [at |-> "reveal", order |-> o, direction |-> d])
  /\ UNCHANGED <<sale, feedback, windowOver, reviews, replies, votes, reputation, cachedRating,
                 edits>>

PublishFeedback(c) ==
  /\ ratingOp[c].at = "reveal"
  /\ LET o == ratingOp[c].order
         d == ratingOp[c].direction
     IN  PublishRows(feedback, o, IF Published(o, d) THEN {} ELSE {d})
  /\ StepRating(c, IdleRating)
  /\ UNCHANGED <<sale, windowOver, reviews, replies, votes, cachedRating, edits>>

(***************************************************************************)
(* Reviews.                                                                 *)
(***************************************************************************)
addReviewRating(sum, count) ==
  reputation' = [reputation EXCEPT !["seller"].reviewSum = @ + sum,
                                   !["seller"].reviewCount = @ + count]

ReviewAverage ==
  [sum   |-> SumFunction([o \in {s \in Sales : Reviewed(s)} |-> reviews[o].rating]),
   count |-> Cardinality({o \in Sales : Reviewed(o)})]

(* SubmitReview: only the buyer, only a completed sale, one per purchase;   *)
(* the rating is folded in with the row and the average pushed after.       *)
SubmitReview(c, o) ==
  /\ sale[o].state = "completed"
  /\ ~Reviewed(o)
  /\ \E rating \in Ratings :
       /\ reviews' = [reviews EXCEPT ![o] =
            [is |-> TRUE, rating |-> rating, replies |-> 0, helpful |-> 0, notHelpful |-> 0]]
       /\ addReviewRating(rating, 1)
  /\ BeginEdit(c, [at |-> "average"])
  /\ UNCHANGED <<sale, feedback, windowOver, replies, votes, cachedRating>>

(* UpdateReview reads the row; an edit without a rating still writes back   *)
(* the rating it read.                                                      *)
UpdateReview(c, o) ==
  /\ Reviewed(o)
  /\ \/ \E rating \in Ratings :
          BeginEdit(c, [at |-> "save", order |-> o, rating |-> rating, read |-> reviews[o].rating,
                        push |-> TRUE])
     \/ BeginEdit(c, [at |-> "save", order |-> o, rating |-> reviews[o].rating,
                      read |-> reviews[o].rating, push |-> FALSE])
  /\ UNCHANGED <<sale, feedback, windowOver, reviews, replies, votes, reputation, cachedRating>>

(* Mutant: the difference taken from the rating the request read.           *)
RatingTheRequestRead(c) == ratingOp[c].read

(* lockReview: the difference is taken from the row under its lock.         *)
lockReview(c) == reviews[ratingOp[c].order].rating

SaveReview(c) ==
  /\ ratingOp[c].at = "save"
  /\ LET op == ratingOp[c] IN
       IF Reviewed(op.order)
       THEN /\ reviews' = [reviews EXCEPT ![op.order].rating = op.rating]
            /\ addReviewRating(op.rating - lockReview(c), 0)
            /\ StepRating(c, IF op.push THEN [at |-> "average"] ELSE IdleRating)
       ELSE StepRating(c, IdleRating) /\ UNCHANGED <<reviews, reputation>>
  /\ UNCHANGED <<sale, feedback, windowOver, replies, votes, cachedRating, edits>>

(* DeleteReview: the author's, or a moderator's; replies and votes cascade. *)
DeleteReview(c, o) ==
  /\ Reviewed(o)
  /\ addReviewRating(-reviews[o].rating, -1)
  /\ reviews' = [reviews EXCEPT ![o] = NoRow]
  /\ replies' = [replies EXCEPT ![o] = {}]
  /\ votes' = [votes EXCEPT ![o] = [v \in Voters |-> 0]]
  /\ BeginEdit(c, [at |-> "average"])
  /\ UNCHANGED <<sale, feedback, windowOver, cachedRating>>

(* syncListingRating: the average is read, and pushed to catalog later -    *)
(* or not at all, when either call fails.                                   *)
ReadAverage(c) ==
  /\ ratingOp[c].at = "average"
  /\ StepRating(c, [at |-> "push", average |-> ReviewAverage])
  /\ UNCHANGED <<sale, feedback, windowOver, reviews, replies, votes, reputation, cachedRating,
                 edits>>

SyncListingRating(c) ==
  /\ ratingOp[c].at = "push"
  /\ cachedRating' \in {cachedRating, ratingOp[c].average}
  /\ StepRating(c, IdleRating)
  /\ UNCHANGED <<sale, feedback, windowOver, reviews, replies, votes, reputation, edits>>

(***************************************************************************)
(* Replies and votes: the row and the tally move in one transaction.        *)
(***************************************************************************)
bumpReplyCount(o, n) == reviews' = [reviews EXCEPT ![o].replies = @ + n]

InsertReply(o, v) ==
  /\ Reviewed(o)
  /\ v \notin replies[o]
  /\ replies' = [replies EXCEPT ![o] = @ \cup {v}]
  /\ bumpReplyCount(o, 1)
  /\ UNCHANGED <<sale, feedback, windowOver, votes, reputation, cachedRating, ratingOp, edits>>

(* DeleteReply reads the reply, and the row may be gone when it deletes.    *)
DeleteReply(c, o, v) ==
  /\ v \in replies[o]
  /\ BeginEdit(c, [at |-> "unreply", order |-> o, reply |-> v])
  /\ UNCHANGED <<sale, feedback, windowOver, reviews, replies, votes, reputation, cachedRating>>

DropReply(c) ==
  /\ ratingOp[c].at = "unreply"
  /\ LET o == ratingOp[c].order
         v == ratingOp[c].reply
     IN  IF v \in replies[o]
         THEN replies' = [replies EXCEPT ![o] = @ \ {v}] /\ bumpReplyCount(o, -1)
         ELSE UNCHANGED <<replies, reviews>>
  /\ StepRating(c, IdleRating)
  /\ UNCHANGED <<sale, feedback, windowOver, votes, reputation, cachedRating, edits>>

countOf(vote, want) == IF vote = want THEN 1 ELSE 0

(* Mutant: a flip adds the new vote and leaves the old one in the tally.    *)
DeltaOfNext(previous, next) == <<countOf(next, 1), countOf(next, -1)>>

VoteDelta(previous, next) ==
  <<countOf(next, 1) - countOf(previous, 1), countOf(next, -1) - countOf(previous, -1)>>

(* PutVote and DeleteVote: the previous vote is read under the row lock.    *)
PutVote(o, v, next) ==
  /\ Reviewed(o)
  /\ votes[o][v] # next
  /\ votes' = [votes EXCEPT ![o][v] = next]
  /\ LET delta == VoteDelta(votes[o][v], next) IN
       reviews' = [reviews EXCEPT ![o].helpful = @ + delta[1], ![o].notHelpful = @ + delta[2]]
  /\ UNCHANGED <<sale, feedback, windowOver, replies, reputation, cachedRating, ratingOp, edits>>

RatingInit ==
  /\ sale = [o \in Sales |-> [state |-> "open", counted |-> FALSE]]
  /\ feedback = [o \in Sales |-> [d \in Directions |-> NoRow]]
  /\ windowOver = {}
  /\ reviews = [o \in Sales |-> NoRow]
  /\ replies = [o \in Sales |-> {}]
  /\ votes = [o \in Sales |-> [v \in Voters |-> 0]]
  /\ reputation = [r \in {"buyer", "seller"} |->
       [sum |-> 0, count |-> 0, reviewSum |-> 0, reviewCount |-> 0, completed |-> 0,
        cancelled |-> 0]]
  /\ cachedRating = [sum |-> 0, count |-> 0]
  /\ ratingOp = [c \in RatingCallers |-> IdleRating]
  /\ edits = 0

RatingNext ==
  \/ \E o \in Sales :
       \/ SaleSettles(o) \/ RecordOrderOutcome(o) \/ BlindWindowCloses(o)
       \/ \E d \in Directions : SubmitFeedback(o, d)
       \/ \E v \in Voters :
            InsertReply(o, v) \/ (\E next \in {-1, 0, 1} : PutVote(o, v, next))
  \/ \E c \in RatingCallers :
       \/ RevealDueFeedback(c) \/ PublishFeedback(c) \/ SaveReview(c)
       \/ ReadAverage(c) \/ SyncListingRating(c) \/ DropReply(c)
       \/ \E o \in Sales :
            \/ SubmitReview(c, o) \/ UpdateReview(c, o) \/ DeleteReview(c, o)
            \/ \E v \in Voters : DeleteReply(c, o, v)

RatingSpec == RatingInit /\ [][RatingNext]_ratingVars

RatingTypeOK ==
  /\ windowOver \subseteq Sales
  /\ \A o \in Sales : sale[o] \in [state : {"open", "completed", "cancelled"}, counted : BOOLEAN]
  /\ \A o \in Sales : replies[o] \subseteq Voters
  /\ edits \in 0..MaxEdits

(* What the repository computes on demand, from the rows.                   *)
PublishedFor(r) ==
  {od \in Sales \X Directions : Published(od[1], od[2]) /\ RoleRated(od[2]) = r}

Outcomes(state) == Cardinality({o \in Sales : sale[o].counted /\ sale[o].state = state})

(* A visible rating is a counted one and nothing else is: at every moment   *)
(* each reputation is the sum of the published feedback, the standing       *)
(* reviews and the settled orders, however submissions, sweeps, stale       *)
(* edits, deletions and redelivered events interleave (publishFeedback,     *)
(* SaveReview, DeleteReview, AddOrderOutcome).                              *)
ReputationAddsUp ==
  \A r \in {"buyer", "seller"} :
    /\ reputation[r].count = Cardinality(PublishedFor(r))
    /\ reputation[r].sum = SumFunction([od \in PublishedFor(r) |-> feedback[od[1]][od[2]].rating])
    /\ reputation[r].completed = Outcomes("completed")
    /\ reputation[r].cancelled = Outcomes("cancelled")
    /\ r = "seller" => /\ reputation[r].reviewSum = ReviewAverage.sum
                       /\ reputation[r].reviewCount = ReviewAverage.count

(* A review's three denormalized tallies are its rows, through flips,       *)
(* withdrawals, double deletions and cascades (PutVote, InsertReply,        *)
(* DeleteReply).                                                            *)
TalliesMatchRows ==
  \A o \in Sales :
    Reviewed(o) => /\ reviews[o].replies = Cardinality(replies[o])
                   /\ reviews[o].helpful = Cardinality({v \in Voters : votes[o][v] = 1})
                   /\ reviews[o].notHelpful = Cardinality({v \in Voters : votes[o][v] = -1})

(* A rating is blind while its author's counterpart may still answer it:    *)
(* one row is out only when both are, or the window has run out, and never  *)
(* one of a complete pair (InsertFeedback, RevealDueFeedback).              *)
BlindUntilAnswered ==
  \A o \in Sales, d \in Directions :
    /\ Published(o, d) => Written(o, Opposite(d)) \/ o \in windowOver
    /\ Written(o, d) /\ Written(o, Opposite(d)) => Published(o, d)
=============================================================================
