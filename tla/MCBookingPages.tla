--------------------------- MODULE MCBookingPages ---------------------------
(***************************************************************************)
(* Instance of PaymentPage and BookingLists for TLC.  The web client shows *)
(* one page at a time: a behaviour is a session on the payment page or on  *)
(* the pages with lists, of the client or of the creator, over one         *)
(* BookingLifecycle.                                                       *)
(***************************************************************************)
EXTENDS PaymentPage, BookingLists

CONSTANTS ana, kreator, w1

VARIABLE screen

MCOwner == [c \in Creators |-> kreator]

(* Bound: only the creator's lists have more than one booking, and one is  *)
(* followed there until it is answered or cancelled.                       *)
Alone == \A b \in Bookings \ {ThisBooking} : status[b] = "absent"

Answered == \A b \in Bookings : status[b] \in
  {"absent", "requested", "accepted", "rejected", "cancelled"}

(* Bound: no page here shows conversations, the lists show neither payments *)
(* nor work, so there no booking is free, the provider uses no id of its own*)
(* and nothing is delivered.                                                *)
Ordinary ==
  /\ \A b \in Bookings : terms[b] = NoTerms \/ terms[b].price > 0
  /\ \A e \in events : e.id # w1
  /\ \A b \in Bookings : deliverables[b] = 0

MCInit == PaymentInit /\ ListsInit /\ viewer = reader /\ screen \in {"payment", "lists"}

PaymentSession ==
  /\ screen = "payment" /\ PaymentNext /\ Alone' /\ conversations' = {}
  /\ UNCHANGED <<listsVars, screen>>

ListsSession ==
  /\ screen = "lists" /\ ListsNext
  /\ Ordinary' /\ conversations' = {}
  /\ IF reader = kreator THEN Answered' ELSE Alone'
  /\ UNCHANGED <<paymentPageVars, screen>>

MCNext == PaymentSession \/ ListsSession

MCSpec == MCInit /\ [][MCNext]_<<vars, paymentPageVars, listsVars, screen>>

(* Up to date pages offer what the service would do.                       *)
PagesInv == PaymentTypeOK /\ PaymentOffersMatch /\ ListsTypeOK /\ ListsOfferMatch

(* No page goes back behind an answer it was given.                        *)
DoneStaysDone == AnswerIsNotForgotten /\ DoneIsNotOfferedAgain
=============================================================================
