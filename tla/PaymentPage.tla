---------------------------- MODULE PaymentPage ----------------------------
(***************************************************************************)
(* The payment page of one booking (apps/web/src/app/booking/[id]/         *)
(* pembayaran/page.tsx) in the browser of one participant, over            *)
(* BookingLifecycle.  It joins two queries of React Query that are read at *)
(* different times: the list of the viewer's bookings and the booking's    *)
(* payment, whose absence is the error 404.  The Idempotency-Key is drawn  *)
(* once for each visit, so one key stands for the visit's.                 *)
(***************************************************************************)
EXTENDS BookingLifecycle

CONSTANTS
  ThisBooking,  \* the booking of the page
  VisitKey      \* the visit's Idempotency-Key

ASSUME VisitAssumption == ThisBooking \in Bookings /\ VisitKey \in Keys

VARIABLES
  viewer,     \* the user the page is shown to
  list,       \* the booking in the list of the viewer's bookings
  payment,    \* the payment query
  paymentFetching,   \* the fetches of both
  paymentMutation    \* createPayment, simulatePaid or simulateRelease

paymentPageVars == <<viewer, list, payment, paymentFetching, paymentMutation>>
paymentAllVars == <<vars, paymentPageVars>>
-----------------------------------------------------------------------------
Queries == {"list", "payment"}
PaymentKinds == {"create", "paid", "release"}

NoPaymentMutation == [kind |-> "create", phase |-> "idle", result |-> "absent", waits |-> {}]

(* The payment query has the data `view` and, apart from it, a state: the  *)
(* error of a fetch stays beside the data of an earlier one.               *)
PaymentTypeOK ==
  /\ viewer \in Users
  /\ list \in BookingStatuses
  /\ payment \in [state : {"pending", "success", "missing", "error"}, view : PaymentStatuses]
  /\ paymentFetching \in [Queries -> [phase : {"idle", "asked", "read"},
                              view : BookingStatuses \cup PaymentStatuses]]
  /\ paymentMutation \in [kind : PaymentKinds, phase : {"idle", "sent", "done", "settling"},
                   result : PaymentStatuses, waits : SUBSET Queries]
  /\ \A q \in paymentMutation.waits : paymentFetching[q].phase # "idle"
  /\ paymentMutation.phase = "settling" <=> paymentMutation.waits # {}

NoPaymentFetch == [phase |-> "idle", view |-> "absent"]
PaymentAsked == [phase |-> "asked", view |-> "absent"]

PaymentInit ==
  /\ Init
  /\ viewer \in Users
  /\ list = "absent"
  /\ payment = [state |-> "pending", view |-> "absent"]
  /\ paymentFetching = [q \in Queries |-> NoPaymentFetch]
  /\ paymentMutation = NoPaymentMutation
-----------------------------------------------------------------------------
(* RelatedBooking found the booking, and isIncoming tells in which list.   *)
PaymentShown == list # "absent"
IsIncoming == viewer # terms[ThisBooking].client

NotCreated == payment.state = "missing"

(* PaymentDetails shows its text for loading, or for an error.             *)
Details == PaymentShown /\ payment.state \in {"success", "missing"}

CanCreate == NotCreated /\ list = "accepted" /\ ~IsIncoming

CanSimulatePaid ==
  payment.view = "pending" /\ list = "awaiting_payment" /\ ~IsIncoming

CanSimulateRelease ==
  /\ payment.view = "held" /\ list = "completed" /\ IsIncoming
  /\ IsCreator(ThisBooking, viewer)

PaymentOffered(kind) ==
  \/ kind = "create" /\ CanCreate
  \/ kind = "paid" /\ ~CanCreate /\ CanSimulatePaid
  \/ kind = "release" /\ ~CanCreate /\ ~CanSimulatePaid /\ CanSimulateRelease
-----------------------------------------------------------------------------
HasData(q, pay) == IF q = "list" THEN list # "absent" ELSE pay.view # "absent"

(* invalidateQueries: a fetch under way is given up, unless there is no data*)
(* to show yet.                                                             *)
Invalidated(q, pay) ==
  IF paymentFetching[q].phase # "idle" /\ ~HasData(q, pay) THEN paymentFetching[q] ELSE PaymentAsked

(* Mounts, focus and the buttons "Coba lagi": the payment is asked for once*)
(* the booking is known.                                                   *)
Fetch(q) ==
  /\ paymentFetching[q].phase = "idle"
  /\ q = "list" => IsClient(ThisBooking, viewer) \/ IsCreator(ThisBooking, viewer)
  /\ q = "payment" => PaymentShown
  /\ paymentFetching' = [paymentFetching EXCEPT ![q] = PaymentAsked]
  /\ payment' = IF q = "payment" /\ payment.view = "absent"
                  THEN [payment EXCEPT !.state = "pending"] ELSE payment
  /\ UNCHANGED <<viewer, list, paymentMutation, vars>>

PaymentFetchReads(q) ==
  /\ paymentFetching[q].phase = "asked"
  /\ paymentFetching' = [paymentFetching EXCEPT ![q] =
       [phase |-> "read",
        view |-> IF q = "list" THEN status[ThisBooking] ELSE payStatus[ThisBooking]]]
  /\ UNCHANGED <<viewer, list, payment, paymentMutation, vars>>

(* The promises the mutation's onSuccess waits for.                        *)
PaymentSettle(q) ==
  paymentMutation' = IF paymentMutation.waits = {q} THEN NoPaymentMutation
              ELSE [paymentMutation EXCEPT !.waits = @ \ {q}]

PaymentFetchResolves(q) ==
  /\ paymentFetching[q].phase = "read"
  /\ paymentFetching' = [paymentFetching EXCEPT ![q] = NoPaymentFetch]
  /\ \/ /\ q = "list"
        /\ list' = paymentFetching[q].view
        /\ UNCHANGED payment
     \/ /\ q = "payment"
        /\ payment' = IF paymentFetching[q].view = "absent"
                        THEN [payment EXCEPT !.state = "missing"]
                        ELSE [state |-> "success", view |-> paymentFetching[q].view]
        /\ UNCHANGED list
  /\ PaymentSettle(q)
  /\ UNCHANGED <<viewer, vars>>

PaymentFetchFails(q) ==
  /\ paymentFetching[q].phase # "idle"
  /\ paymentFetching' = [paymentFetching EXCEPT ![q] = NoPaymentFetch]
  /\ payment' = IF q = "payment" THEN [payment EXCEPT !.state = "error"] ELSE payment
  /\ PaymentSettle(q)
  /\ UNCHANGED <<viewer, list, vars>>
-----------------------------------------------------------------------------
Mutate(kind) ==
  /\ Details /\ PaymentOffered(kind) /\ paymentMutation.phase = "idle"
  /\ paymentMutation' = [NoPaymentMutation EXCEPT !.kind = kind, !.phase = "sent"]
  /\ UNCHANGED <<viewer, list, payment, paymentFetching, vars>>

(* create_payment returns a payment that exists, simulate_paid one whose   *)
(* event is known, and simulate_release one that is released; the release  *)
(* of a held payment needs a completed booking, which has none.            *)
PaymentHandle ==
  /\ paymentMutation.phase = "sent"
  /\ \/ paymentMutation.kind = "create" /\ CreatePayment(ThisBooking, viewer, VisitKey)
     \/ paymentMutation.kind = "create" /\ payStatus[ThisBooking] # "absent" /\ UNCHANGED vars
     \/ paymentMutation.kind = "paid" /\ SimulatePaid(ThisBooking, viewer)
     \/ /\ paymentMutation.kind = "paid"
        /\ \E e \in events : e.id = ProviderEventId("paid", ThisBooking)
        /\ UNCHANGED vars
     \/ paymentMutation.kind = "release" /\ payStatus[ThisBooking] = "released" /\ UNCHANGED vars
  /\ paymentMutation' =
       [paymentMutation EXCEPT !.phase = "done", !.result = payStatus'[ThisBooking]]
  /\ UNCHANGED <<viewer, list, payment, paymentFetching>>

(* Variant: the queries are invalidated before the answer is put into the  *)
(* cache.                                                                  *)
PaymentSucceeds_InvalidatedFirst ==
  /\ paymentMutation.phase = "done"
  /\ paymentFetching' = [q \in Queries |-> Invalidated(q, payment)]
  /\ payment' = [state |-> "success", view |-> paymentMutation.result]
  /\ paymentMutation' = [paymentMutation EXCEPT !.phase = "settling", !.waits = Queries]
  /\ UNCHANGED <<viewer, list, vars>>

(* onSuccess of the mutations: the answer becomes the query's data, then   *)
(* everything is fetched again.                                            *)
PaymentSucceeds ==
  LET answered == [state |-> "success", view |-> paymentMutation.result] IN
  /\ paymentMutation.phase = "done"
  /\ payment' = answered
  /\ paymentFetching' = [q \in Queries |-> Invalidated(q, answered)]
  /\ paymentMutation' = [paymentMutation EXCEPT !.phase = "settling", !.waits = Queries]
  /\ UNCHANGED <<viewer, list, vars>>

(* A refusal, or a lost answer: an error is shown and nothing is fetched.  *)
PaymentFails ==
  /\ paymentMutation.phase \in {"sent", "done"}
  /\ paymentMutation' = NoPaymentMutation
  /\ UNCHANGED <<viewer, list, payment, paymentFetching, vars>>
-----------------------------------------------------------------------------
PaymentStep ==
  \/ \E q \in Queries : Fetch(q) \/ PaymentFetchReads(q) \/ PaymentFetchResolves(q)
                      \/ PaymentFetchFails(q)
  \/ \E kind \in PaymentKinds : Mutate(kind)
  \/ PaymentHandle \/ PaymentSucceeds \/ PaymentFails

(* The others, the provider, and the viewer elsewhere.                     *)
PaymentElsewhere == Next /\ UNCHANGED paymentPageVars

PaymentNext == PaymentStep \/ PaymentElsewhere

PaymentSpec == PaymentInit /\ [][PaymentNext]_paymentAllVars
-----------------------------------------------------------------------------
PaymentCurrent ==
  /\ Details /\ list = status[ThisBooking]
  /\ payment.state = "success" => payment.view = payStatus[ThisBooking]
  /\ payment.state = "missing" => payStatus[ThisBooking] = "absent"

(* No other booking was paid with the visit's key.                         *)
KeyIsFresh == \A b \in Bookings \ {ThisBooking} : payKey[b] # VisitKey

(* The page and the service agree on the operations of the escrow: with up *)
(* to date queries, a price that can be charged, a key of its own and no   *)
(* webhook under the id of the simulated one, the client is offered to     *)
(* create and to pay exactly when the service would, and nobody is offered *)
(* to release money by hand, which completion released.                    *)
PaymentOffersMatch ==
  PaymentCurrent =>
    /\ terms[ThisBooking].price > 0 /\ KeyIsFresh =>
         (CanCreate <=> MayCreatePayment(ThisBooking, viewer, VisitKey))
    /\ IdKept(ThisBooking, "paid") =>
         (CanSimulatePaid <=> MaySimulatePaid(ThisBooking, viewer))
    /\ ~CanSimulateRelease

PaymentProgress ==
  [s \in PaymentStatuses |->
     CASE s = "absent" -> 0 [] s = "pending" -> 1 [] s = "held" -> 2 [] OTHER -> 3]

(* When a mutation ends and its refetch brought an answer, the page shows  *)
(* the payment at or behind the status the mutation led to, never again    *)
(* "Pembayaran belum dibuat" from a fetch that began before.               *)
AnswerIsNotForgotten ==
  [][paymentMutation.phase = "settling"
       /\ "payment" \in paymentMutation.waits \ paymentMutation'.waits
       /\ payment'.state # "error"
       => /\ payment'.state = "success"
          /\ PaymentProgress[payment'.view] >= PaymentProgress[paymentMutation.result]]_paymentAllVars
=============================================================================
