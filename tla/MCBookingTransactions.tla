----------------------- MODULE MCBookingTransactions -----------------------
(***************************************************************************)
(* Instances of BookingTransactions for TLC.  Two sessions meet in one of  *)
(* three scenarios, which bound what they ask for:                         *)
(*   one       every operation, on one booking;                            *)
(*   shared    the operations that meet on the creator's date, on the      *)
(*             idempotency key and on the provider's event ids, which two  *)
(*             bookings share;                                             *)
(*   colliding the way of two unrelated bookings to their settlement, when *)
(*             webhooks carry the id that the provider itself uses for the *)
(*             settlement of the first; nothing fails.                     *)
(***************************************************************************)
EXTENDS BookingTransactions, TLC

CONSTANTS kreator, w1

VARIABLE scenario

MCOwner == [c \in Creators |-> kreator]

OneId(b) == ProviderEventId("paid", b)
CollidingId(b) == ProviderEventId("released", b)

(* An id of the provider's own, the id of the simulation endpoint, and the *)
(* ids of colliding webhooks.                                              *)
MCWebhookIds == {w1} \cup {OneId(b) : b \in Bookings} \cup {CollidingId(b) : b \in Bookings}

MCOps ==
  [one |-> AllOps,
   shared |-> {"accept", "pay", "paid", "failed", "cancel"},
   colliding |-> {"accept", "pay", "paid", "start", "add", "deliver", "complete"}]

Requested == {b \in Bookings : Exists(b)}

(* The date of the booking that is requested first.                        *)
TheDate == CHOOSE d \in Dates : TRUE

On(d) == {b \in Requested : terms[b].date = d}

(* The ids of webhooks about the payment of b.                             *)
Ids(b) ==
  {OneId(b)} \cup
    CASE scenario = "one" -> {w1}
      [] scenario = "shared" -> {w1} \cup {OneId(other) : other \in Bookings}
      [] scenario = "colliding" -> {CollidingId(first) : first \in On(TheDate)}

(* A different key for each date.                                          *)
KeyOf == CHOOSE f \in [Dates -> Keys] : \A d, e \in Dates : f[d] = f[e] => d = e

(* The bounds of the scenarios.                                            *)
Bounded ==
  /\ \A r \in Requests :
       /\ tx[r].op \in MCOps[scenario] \cup {"none"}
       /\ tx[r].op = "pay" => tx[r].arg = KeyOf[terms[tx[r].b].date]
       /\ tx[r].op \in {"paid", "failed"} => tx[r].arg \in Ids(tx[r].b)
  /\ scenario = "one" => Cardinality(Requested) <= 1
  /\ Requested # {} => On(TheDate) # {}
  /\ IF scenario = "colliding"
       THEN faults = 0 /\ Cardinality(On(TheDate)) <= 1
       ELSE Requested = On(TheDate)

MCInit == TxInit /\ scenario \in DOMAIN MCOps

MCNext == TxNext /\ UNCHANGED scenario /\ Bounded'

MCSpec == MCInit /\ [][MCNext]_<<txVars, scenario>>

Symmetry == Permutations(Requests) \cup Permutations(Bookings)
=============================================================================
