------------------------------- MODULE Reviews -------------------------------
(* The reviews of a cafe and the rating that is recalculated after each       *)
(* change of them (reviews.service.ts), in statements of their own.           *)
EXTENDS Requests, Integers, Sequences, FiniteSetsExt, Functions

CONSTANTS
  Authors, CompletedOrders, \* the completed orders of the cafe
  OrderOf,    \* who made each of them
  Stars,      \* ratings that are given
  NoOrder,
  MaxReviews  \* bound

ASSUME ReviewsAssumption == MaxReviews \in Nat \ {0} /\ NoOrder \notin CompletedOrders /\ Stars \subseteq Nat

VARIABLES
  review,      \* reviews of the cafe
  rating,      \* rating and reviewsCount of the cafe: a sum and how many it is the mean of
  ratingRaced  \* ghost: two changes were in flight at once

rvwvars == <<review, rating, ratingRaced>>

ReviewRow == [user : Authors, order : CompletedOrders \cup {NoOrder}, rating : Stars,
              isVerified : BOOLEAN, deleted : BOOLEAN]

\* The seeds write reviews, verified ones too, and a rating of their own; the API verifies none.
Seeded == [total |-> 0, count |-> 1]
ReviewsInit ==
  /\ review \in {<< >>} \cup {<<[user |-> u, order |-> NoOrder, rating |-> s, isVerified |-> v, deleted |-> FALSE]>> :
                               u \in Authors, s \in Stars, v \in BOOLEAN}
  /\ rating = Seeded /\ ratingRaced = FALSE

LiveReviews == {i \in DOMAIN review : ~review[i].deleted}
Verified == {i \in LiveReviews : review[i].isVerified}

\* findAll: the reviews a list shows.
listReviews(minRating, verifiedOnly) ==
  {i \in LiveReviews : review[i].rating >= minRating /\ (verifiedOnly => review[i].isVerified)}

BeginReview(p, h) ==
  /\ Idle(p)
  /\ Become(p, h)
  /\ ratingRaced' = (ratingRaced \/ \E q \in Procs \ {p} : ~Idle(q))
  /\ UNCHANGED <<review, rating>>

\* After the statement that changes the reviews.
Recalculates(p) == Become(p, [pc |-> "recalculate"]) /\ UNCHANGED <<rating, ratingRaced>>

-----------------------------------------------------------------------------
\* An order is reviewed once, even if that review was deleted; a cafe without an order too.
CreateReads(p, u, o, stars) ==
  /\ o # NoOrder => OrderOf[o] = u
  /\ IF o # NoOrder THEN \A i \in DOMAIN review : review[i].order # o
     ELSE \A i \in LiveReviews : review[i].user # u
  /\ BeginReview(p, [pc |-> "review_insert",
                     row |-> [user |-> u, order |-> o, rating |-> stars, isVerified |-> FALSE, deleted |-> FALSE]])

\* orderId is unique in the table.
CreateInserts(p) ==
  LET row == handler[p].row IN
  /\ In(p, "review_insert")
  /\ IF row.order # NoOrder /\ \E i \in DOMAIN review : review[i].order = row.order
     THEN Finish(p) /\ UNCHANGED rvwvars
     ELSE /\ Len(review) < MaxReviews
          /\ review' = Append(review, row)
          /\ Recalculates(p)

updateReview(p, i, u, stars) ==
  /\ i \in LiveReviews /\ review[i].user = u
  /\ BeginReview(p, [pc |-> "review_update", row |-> i, rating |-> stars])

UpdateWrites(p) ==
  /\ In(p, "review_update")
  /\ review' = [review EXCEPT ![handler[p].row].rating = handler[p].rating]
  /\ Recalculates(p)

removeReview(p, i, u) ==
  /\ i \in LiveReviews /\ review[i].user = u
  /\ BeginReview(p, [pc |-> "review_remove", row |-> i])

RemoveWrites(p) ==
  /\ In(p, "review_remove")
  /\ review' = [review EXCEPT ![handler[p].row].deleted = TRUE]
  /\ Recalculates(p)

\* recalculateCafeRating reads the verified reviews, then writes what it has counted.
RecalculateReads(p) ==
  /\ In(p, "recalculate")
  /\ Become(p, [pc |-> "rate",
                rating |-> [total |-> SumFunction([i \in Verified |-> review[i].rating]),
                            count |-> Cardinality(Verified)]])
  /\ UNCHANGED rvwvars

RecalculateWrites(p) ==
  /\ In(p, "rate")
  /\ rating' = handler[p].rating
  /\ Finish(p)
  /\ UNCHANGED <<review, ratingRaced>>

-----------------------------------------------------------------------------
ReviewRequest(p) ==
  \/ \E u \in Authors, o \in CompletedOrders \cup {NoOrder}, stars \in Stars : CreateReads(p, u, o, stars)
  \/ \E i \in DOMAIN review, u \in Authors : removeReview(p, i, u) \/ \E stars \in Stars : updateReview(p, i, u, stars)
  \/ CreateInserts(p) \/ UpdateWrites(p) \/ RemoveWrites(p)
  \/ RecalculateReads(p) \/ RecalculateWrites(p)

ReviewsNext == \E p \in Procs : ReviewRequest(p) \/ (Dies(p) /\ UNCHANGED rvwvars)

ReviewsSpec == ReviewsInit /\ RequestsInit /\ [][ReviewsNext]_<<rvwvars, rvars>>

-----------------------------------------------------------------------------
ReviewsTypeOK ==
  /\ \A i \in DOMAIN review : review[i] \in ReviewRow
  /\ Len(review) <= MaxReviews
  /\ rating.total \in Nat /\ rating.count \in Nat

\* create, update and remove recalculate the rating in statements after their own:
\* once they are done, and if none was cut short or met another, the rating is the
\* mean of the verified reviews a list shows, and nobody without an order has two.
\* An order has one review whatever happens.
RatingFollowsReviews ==
  /\ \A i, j \in DOMAIN review : review[i].order = review[j].order /\ review[i].order # NoOrder => i = j
  /\ ~ratingRaced /\ faults = 0 =>
       /\ (\A p \in Procs : Idle(p)) /\ rating # Seeded =>
            /\ rating.count = Cardinality(listReviews(0, TRUE))
            /\ rating.total = SumFunction([i \in listReviews(0, TRUE) |-> review[i].rating])
       /\ \A i, j \in LiveReviews :
            review[i].user = review[j].user /\ {review[i].order, review[j].order} = {NoOrder} => i = j
=============================================================================
