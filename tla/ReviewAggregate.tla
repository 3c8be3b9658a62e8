--------------------------- MODULE ReviewAggregate ---------------------------
(***************************************************************************)
(* Reviews of completed bookings and the rating shown on creator profiles  *)
(* (create_booking_review in apps/api/app/services/reviews.py) as          *)
(* concurrent PostgreSQL transactions.  The service computes the aggregate *)
(* from the committed reviews and its own before it locks the profile.     *)
(* What keeps the aggregate right is not that lock but the foreign key     *)
(* reviews.creator_profile_id: the INSERT locks the profile FOR KEY SHARE, *)
(* which conflicts with the FOR UPDATE of every other review in progress.  *)
(* The price is a deadlock between two reviews of one creator, which       *)
(* PostgreSQL ends by aborting one of them.                                *)
(*                                                                         *)
(* A completed booking stays completed (TerminalStaysTerminal of           *)
(* BookingLifecycle), so the bookings here are completed ones.             *)
(***************************************************************************)
EXTENDS Integers, FiniteSets, FiniteSetsExt

CONSTANTS
  Bookings,   \* completed bookings
  Creators,   \* creator profiles
  CreatorOf,  \* CreatorOf[b]: the profile that booking b is of
  Ratings,    \* ratings that clients give
  Reviewers,  \* database sessions of review requests
  NoBooking

ASSUME AggregateAssumption ==
  /\ CreatorOf \in [Bookings -> Creators]
  /\ Ratings \subseteq 1..5
  /\ NoBooking \notin Bookings

VARIABLES
  reviews,    \* committed rows of the reviews table
  aggregate,  \* aggregate[c]: review_count and rating_average of profile c
  reviewTx    \* reviewTx[r]: the transaction of request r

aggregateVars == <<reviews, aggregate, reviewTx>>

Review == [booking : Bookings, rating : Ratings]

(* rating_average in hundredths of a star.                                 *)
Aggregate == [count : Nat, average : 0..500]

(* The steps of a transaction: what it has locked, in this order, is the   *)
(* booking, the profile FOR KEY SHARE and the profile FOR UPDATE.          *)
Steps == {"idle", "booking", "check", "insert", "calculate", "profile", "commit"}

ReviewTx ==
  [pc : Steps, b : Bookings \cup {NoBooking}, rating : Ratings \cup {0}, calculated : Aggregate]

Zero == [count |-> 0, average |-> 0]

NoReview == [pc |-> "idle", b |-> NoBooking, rating |-> 0, calculated |-> Zero]

AggregateTypeOK ==
  /\ reviews \subseteq Review
  /\ aggregate \in [Creators -> Aggregate]
  /\ reviewTx \in [Reviewers -> ReviewTx]

AggregateInit ==
  /\ reviews = {}
  /\ aggregate = [c \in Creators |-> Zero]
  /\ reviewTx = [r \in Reviewers |-> NoReview]
-----------------------------------------------------------------------------
ReviewsOf(rows, c) == {v \in rows : CreatorOf[v.booking] = c}

SumOfRatings(rows) == MapThenSumSet(LAMBDA v : v.rating, rows)

(* round(float(avg), 2), nearest hundredth; below eight reviews no average *)
(* lies half way between two hundredths.                                   *)
Average(rows) ==
  LET n == Cardinality(rows) IN
  IF n = 0 THEN 0 ELSE (200 * SumOfRatings(rows) + n) \div (2 * n)

Summary(rows) == [count |-> Cardinality(rows), average |-> Average(rows)]

(* The review that request r inserts.                                      *)
New(r) == [booking |-> reviewTx[r].b, rating |-> reviewTx[r].rating]

Others(r) == {s \in Reviewers \ {r} : reviewTx[s].b # NoBooking}

SameCreator(r, s) == CreatorOf[reviewTx[r].b] = CreatorOf[reviewTx[s].b]

HoldsBooking(s) == reviewTx[s].pc \notin {"idle", "booking"}

(* Variant: reviews.creator_profile_id is not a foreign key.               *)
SharesProfile_NoForeignKey(s) == FALSE

(* FOR KEY SHARE on the profile, from the INSERT to the end.               *)
SharesProfile(s) == reviewTx[s].pc \in {"calculate", "profile", "commit"}

(* FOR UPDATE on the profile.                                              *)
OwnsProfile(s) == reviewTx[s].pc = "commit"

Goto(r, step) == reviewTx' = [reviewTx EXCEPT ![r].pc = step]

EndReview(r) == reviewTx' = [reviewTx EXCEPT ![r] = NoReview]

BeginReview(r) ==
  /\ reviewTx[r].pc = "idle"
  /\ \E b \in Bookings, rating \in Ratings :
       reviewTx' = [reviewTx EXCEPT
                      ![r] = [pc |-> "booking", b |-> b, rating |-> rating,
                              calculated |-> Zero]]
  /\ UNCHANGED <<reviews, aggregate>>

LockBooking(r) ==
  /\ reviewTx[r].pc = "booking"
  /\ \A s \in Others(r) : HoldsBooking(s) => reviewTx[s].b # reviewTx[r].b
  /\ Goto(r, "check")
  /\ UNCHANGED <<reviews, aggregate>>

(* The second review of a booking is refused.                              *)
CheckExisting(r) ==
  /\ reviewTx[r].pc = "check"
  /\ IF \E v \in reviews : v.booking = reviewTx[r].b THEN EndReview(r) ELSE Goto(r, "insert")
  /\ UNCHANGED <<reviews, aggregate>>

(* The flush of the new row: its foreign key waits for the FOR UPDATE of   *)
(* another review of the creator.  The unique constraint on the booking    *)
(* never refuses it, because the booking is locked since the check.        *)
InsertReview(r) ==
  /\ reviewTx[r].pc = "insert"
  /\ \A v \in reviews : v.booking # reviewTx[r].b
  /\ \A s \in Others(r) : OwnsProfile(s) => ~SameCreator(r, s)
  /\ Goto(r, "calculate")
  /\ UNCHANGED <<reviews, aggregate>>

Calculate(r) ==
  /\ reviewTx[r].pc = "calculate"
  /\ reviewTx' = [reviewTx EXCEPT
             ![r].pc = "profile",
             ![r].calculated = Summary(ReviewsOf(reviews \cup {New(r)}, CreatorOf[reviewTx[r].b]))]
  /\ UNCHANGED <<reviews, aggregate>>

(* SELECT ... FOR UPDATE of the profile.                                   *)
LockProfile(r) ==
  /\ reviewTx[r].pc = "profile"
  /\ \A s \in Others(r) : SharesProfile(s) \/ OwnsProfile(s) => ~SameCreator(r, s)
  /\ Goto(r, "commit")
  /\ UNCHANGED <<reviews, aggregate>>

Commit(r) ==
  /\ reviewTx[r].pc = "commit"
  /\ reviews' = reviews \cup {New(r)}
  /\ aggregate' = [aggregate EXCEPT ![CreatorOf[reviewTx[r].b]] = reviewTx[r].calculated]
  /\ EndReview(r)

(* Variant: nobody looks for deadlocks.                                    *)
Deadlocked_Undetected(r, s) == FALSE

(* Each waits for the other to give up the profile.                        *)
Deadlocked(r, s) ==
  /\ reviewTx[r].pc = "profile" /\ reviewTx[s].pc = "profile"
  /\ SameCreator(r, s)

(* PostgreSQL aborts a transaction that waits in a cycle; the request fails*)
(* and its review is not stored.                                           *)
DeadlockVictim(r) ==
  /\ \E s \in Reviewers \ {r} : Deadlocked(r, s)
  /\ EndReview(r)
  /\ UNCHANGED <<reviews, aggregate>>

(* The server or its connection is lost before the commit.                 *)
Crash(r) ==
  /\ reviewTx[r].pc # "idle"
  /\ EndReview(r)
  /\ UNCHANGED <<reviews, aggregate>>

Proceed(r) ==
  LockBooking(r) \/ CheckExisting(r) \/ InsertReview(r) \/ Calculate(r) \/ LockProfile(r)
    \/ Commit(r) \/ DeadlockVictim(r)

AggregateNext == \E r \in Reviewers : BeginReview(r) \/ Proceed(r) \/ Crash(r)

AggregateSpec == AggregateInit /\ [][AggregateNext]_aggregateVars

(* The server executes its requests, PostgreSQL grants its locks in the    *)
(* order of their requests and looks for deadlocks.                        *)
AggregateFairness ==
  \A r \in Reviewers :
    /\ WF_aggregateVars(Proceed(r))
    /\ SF_aggregateVars(LockBooking(r)) /\ SF_aggregateVars(InsertReview(r))
    /\ SF_aggregateVars(LockProfile(r) \/ DeadlockVictim(r))

AggregateFairSpec == AggregateSpec /\ AggregateFairness
-----------------------------------------------------------------------------
(* The rating on a profile is that of its reviews, whatever reviews of the *)
(* creator are written at the same time or fail half way, although each    *)
(* computes it before it locks the profile.                                *)
AggregateMatchesReviews ==
  \A c \in Creators : aggregate[c] = Summary(ReviewsOf(reviews, c))

(* No request waits for ever, although two reviews of one creator always   *)
(* lock each other out when both have inserted their row.                  *)
RequestsEnd == \A r \in Reviewers : reviewTx[r].pc # "idle" ~> reviewTx[r].pc = "idle"
=============================================================================
