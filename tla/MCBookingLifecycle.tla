------------------------- MODULE MCBookingLifecycle -------------------------
(* Constants of the TLC instances of BookingLifecycle. *)
EXTENDS BookingLifecycle

CONSTANTS kreator, w1

(* Every creator profile belongs to the same user. *)
MCOwner == [c \in Creators |-> kreator]

(* The provider may report a payment under an id of its own, or under the  *)
(* id the simulation endpoint derives from the payment.                    *)
MCWebhookIds == {w1} \cup {ProviderEventId("paid", b) : b \in Bookings}
=============================================================================
