-------------------------- MODULE MCRequestsFinish --------------------------
(***************************************************************************)
(* The requests that the API promises to finish, for TLC: the transactions *)
(* of BookingTransactions and those of ReviewAggregate.  They share no row *)
(* and no lock, so a behaviour is about one of them, the service, and the  *)
(* requests of the other stay idle.                                        *)
(***************************************************************************)
EXTENDS BookingTransactions, TLC

CONSTANTS kreator, w1, c1, Reviewers

VARIABLES service, reviews, aggregate, reviewTx

MCOwner == [c \in Creators |-> kreator]

(* An id of the provider's own, and the id of the simulation endpoint.     *)
MCWebhookIds == {w1} \cup {ProviderEventId("paid", b) : b \in Bookings}

(* Two completed bookings of one creator.                                  *)
Reviewed == {1, 2}

Reviews == INSTANCE ReviewAggregate
  WITH Bookings <- Reviewed, CreatorOf <- [b \in Reviewed |-> c1], Ratings <- {5}

reviewVars == <<reviews, aggregate, reviewTx>>

MCInit == TxInit /\ Reviews!AggregateInit /\ service \in {"bookings", "reviews"}

MCNext ==
  /\ \/ service = "bookings" /\ TxNext /\ UNCHANGED reviewVars
     \/ service = "reviews" /\ Reviews!AggregateNext /\ UNCHANGED txVars
  /\ UNCHANGED service

MCSpec ==
  /\ MCInit /\ [][MCNext]_<<txVars, reviewVars, service>>
  /\ \/ service = "bookings" /\ TxFairness
     \/ service = "reviews" /\ Reviews!AggregateFairness

(* The property of ReviewAggregate in its instance.                        *)
RequestsEnd == Reviews!RequestsEnd
=============================================================================
