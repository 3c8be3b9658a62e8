-------------------------- MODULE BookingLifecycle --------------------------
(***************************************************************************)
(* The booking, payment and dispute services of the API                    *)
(* (apps/api/app/services/{bookings,payments,disputes}.py) as changes of   *)
(* the committed database: one action per service operation that changes a *)
(* row, taken as the single transaction the operation commits.  A request  *)
(* that ends in a DomainError commits nothing and is not a step.           *)
(* BookingTransactions splits these operations into the statements of      *)
(* concurrent transactions and is checked to implement this module.        *)
(*                                                                         *)
(* A payment belongs to one booking (payments.booking_id is unique), so    *)
(* the payment of booking b is identified by b.                            *)
(***************************************************************************)
EXTENDS Integers, FiniteSets

CONSTANTS
  Bookings,         \* ids of the bookings ever requested
  Users,            \* registered users
  Creators,         \* approved creator profiles
  Owner,            \* Owner[c]: the user behind creator profile c
  Dates,            \* future dates
  Prices,           \* prices of the creators, in rupiah
  Keys,             \* Idempotency-Key values sent by clients
  WebhookIds,       \* event ids the payment provider puts in its webhooks
  MaxDeliverables,  \* bound of the model on a booking's deliverables
  NoTerms, NoKey    \* column values before a row exists

Terms == [client : Users, creator : Creators, date : Dates, price : Prices]

EventTypes == {"paid", "failed", "refunded", "released"}

(* The mock provider derives the ids of the events it returns from the     *)
(* payment; the ids in webhooks are the sender's choice.                   *)
ProviderEventId(type, b) == <<type, b>>

EventIds == WebhookIds \cup {ProviderEventId(t, b) : t \in EventTypes, b \in Bookings}

ASSUME ConstantsAssumption ==
  /\ Owner \in [Creators -> Users]
  /\ Prices \subseteq Nat
  /\ MaxDeliverables \in Nat
  /\ NoTerms \notin Terms
  /\ NoKey \notin Keys

VARIABLES
  terms,          \* client, creator, date and quoted price of each booking
  status,         \* bookings.status, "absent" before the row exists
  payStatus,      \* payments.status, "absent" before the row exists
  payKey,         \* payments.idempotency_key
  events,         \* rows of payment_events
  dispute,        \* disputes.status, "absent" before the row exists
  deliverables,   \* number of deliverables of each booking
  conversations,  \* bookings that have a conversation
  notices         \* system messages posted in the conversations

bookingVars == <<terms, status>>
paymentVars == <<payStatus, payKey, events>>
workspaceVars == <<deliverables, conversations, notices>>
vars == <<bookingVars, paymentVars, dispute, workspaceVars>>
-----------------------------------------------------------------------------
BookingStatuses ==
  {"absent", "requested", "accepted", "awaiting_payment", "confirmed",
   "in_progress", "delivered", "rejected", "completed", "cancelled", "disputed"}

PaymentStatuses ==
  {"absent", "pending", "held", "released", "refunded", "failed", "expired"}

DisputeStatuses == {"absent", "open", "resolved_client", "resolved_creator"}

NoticeKinds ==
  {"started", "delivered", "completed", "disputed", "resolved_client", "resolved_creator"}

Events == [id : EventIds, payment : Bookings, type : EventTypes]

(* Variant: an index that was not extended when disputes were added.       *)
BlocksDate_WithoutDisputed ==
  {"accepted", "awaiting_payment", "confirmed", "in_progress", "delivered"}

(* Statuses covered by the partial unique index uq_bookings_active_date.   *)
BlocksDate ==
  {"accepted", "awaiting_payment", "confirmed", "in_progress", "delivered", "disputed"}

(* Statuses an ordinary cancellation may start from.                       *)
ActiveStatuses == {"requested", "accepted", "awaiting_payment", "confirmed"}

FinalPaymentStatuses == {"released", "refunded", "failed", "expired"}

TypeOK ==
  /\ terms \in [Bookings -> Terms \cup {NoTerms}]
  /\ status \in [Bookings -> BookingStatuses]
  /\ payStatus \in [Bookings -> PaymentStatuses]
  /\ payKey \in [Bookings -> Keys \cup {NoKey}]
  /\ events \subseteq Events
  /\ dispute \in [Bookings -> DisputeStatuses]
  /\ deliverables \in [Bookings -> 0..MaxDeliverables]
  /\ conversations \subseteq Bookings
  /\ notices \subseteq Bookings \X NoticeKinds

Init ==
  /\ terms = [b \in Bookings |-> NoTerms]
  /\ status = [b \in Bookings |-> "absent"]
  /\ payStatus = [b \in Bookings |-> "absent"]
  /\ payKey = [b \in Bookings |-> NoKey]
  /\ events = {}
  /\ dispute = [b \in Bookings |-> "absent"]
  /\ deliverables = [b \in Bookings |-> 0]
  /\ conversations = {}
  /\ notices = {}
-----------------------------------------------------------------------------
Exists(b) == status[b] # "absent"
IsClient(b, u) == Exists(b) /\ terms[b].client = u
IsCreator(b, u) == Exists(b) /\ Owner[terms[b].creator] = u

SameSlot(a, b) ==
  /\ terms[a].creator = terms[b].creator
  /\ terms[a].date = terms[b].date

(* uq_bookings_active_date admits booking b with a date-blocking status.   *)
DateFree(b) ==
  \A other \in Bookings \ {b} :
    status[other] \in BlocksDate => ~SameSlot(b, other)

(* A system message is added only where a conversation exists.             *)
Notify(b, kind) ==
  notices' = IF b \in conversations THEN notices \cup {<<b, kind>>} ELSE notices

(* Variant: refunds expect the booking to be cancelled already.            *)
Accepts_RefundAfterCancellation(pay, type, bookingStatus) ==
  /\ pay \notin FinalPaymentStatuses
  /\ \/ type = "paid" /\ pay = "pending" /\ bookingStatus = "awaiting_payment"
     \/ type = "failed" /\ pay = "pending"
     \/ type = "refunded" /\ pay = "held" /\ bookingStatus = "cancelled"
     \/ type = "released" /\ pay = "held" /\ bookingStatus = "completed"

(* _apply_transition: the events a payment accepts, given the status its   *)
(* booking has when the event is staged, and what they make of the payment.*)
Accepts(pay, type, bookingStatus) ==
  /\ pay \notin FinalPaymentStatuses
  /\ \/ type = "paid" /\ pay = "pending" /\ bookingStatus = "awaiting_payment"
     \/ type = "failed" /\ pay = "pending"
     \/ type = "refunded" /\ pay = "held"
     \/ type = "released" /\ pay = "held" /\ bookingStatus = "completed"

PaymentAfter ==
  [paid |-> "held", failed |-> "failed", refunded |-> "refunded", released |-> "released"]

(* What _stage_locked_provider_event requires of an event it has not seen. *)
MayStage(b, id, type, bookingStatus) ==
  (\A e \in events : e.id # id) /\ Accepts(payStatus[b], type, bookingStatus)

(* Variant: the event log is not consulted before an event is applied.     *)
StageEvent_NoIdentityCheck(b, id, type, bookingStatus) ==
  /\ Accepts(payStatus[b], type, bookingStatus)
  /\ payStatus' = [payStatus EXCEPT ![b] = PaymentAfter[type]]
  /\ events' = events \cup {[id |-> id, payment |-> b, type |-> type]}
  /\ UNCHANGED payKey

(* _stage_locked_provider_event for an event id not seen before.  A known  *)
(* id of the same payment and type changes nothing, any other known id is  *)
(* refused: neither is a step.                                             *)
StageEvent(b, id, type, bookingStatus) ==
  /\ MayStage(b, id, type, bookingStatus)
  /\ payStatus' = [payStatus EXCEPT ![b] = PaymentAfter[type]]
  /\ events' = events \cup {[id |-> id, payment |-> b, type |-> type]}
  /\ UNCHANGED payKey
-----------------------------------------------------------------------------
CreateBooking(b, u, c, d, p) ==
  /\ ~Exists(b)
  /\ Owner[c] # u
  /\ terms' = [terms EXCEPT ![b] = [client |-> u, creator |-> c, date |-> d, price |-> p]]
  /\ status' = [status EXCEPT ![b] = "requested"]
  /\ UNCHANGED <<paymentVars, dispute, workspaceVars>>

(* Variant: the partial unique index is missing.                           *)
AcceptBooking_NoIndex(b, u) ==
  /\ IsCreator(b, u)
  /\ status[b] = "requested"
  /\ status' = [status EXCEPT ![b] = "accepted"]
  /\ UNCHANGED <<terms, paymentVars, dispute, workspaceVars>>

MayAccept(b, u) == IsCreator(b, u) /\ status[b] = "requested" /\ DateFree(b)

AcceptBooking(b, u) ==
  /\ MayAccept(b, u)
  /\ status' = [status EXCEPT ![b] = "accepted"]
  /\ UNCHANGED <<terms, paymentVars, dispute, workspaceVars>>

MayReject(b, u) == IsCreator(b, u) /\ status[b] = "requested"

RejectBooking(b, u) ==
  /\ MayReject(b, u)
  /\ status' = [status EXCEPT ![b] = "rejected"]
  /\ UNCHANGED <<terms, paymentVars, dispute, workspaceVars>>

(* Variant: the key is not looked up among the other bookings.             *)
CreatePayment_AnyKey(b, u, k) ==
  /\ IsClient(b, u)
  /\ payStatus[b] = "absent"
  /\ status[b] = "accepted"
  /\ terms[b].price > 0
  /\ payStatus' = [payStatus EXCEPT ![b] = "pending"]
  /\ payKey' = [payKey EXCEPT ![b] = k]
  /\ status' = [status EXCEPT ![b] = "awaiting_payment"]
  /\ UNCHANGED <<terms, events, dispute, workspaceVars>>

MayCreatePayment(b, u, k) ==
  /\ IsClient(b, u)
  /\ \A other \in Bookings : payKey[other] # k
  /\ payStatus[b] = "absent" /\ status[b] = "accepted"
  /\ terms[b].price > 0

(* A repeated request for a booking that has a payment returns it, with    *)
(* whatever key it comes.                                                  *)
CreatePayment(b, u, k) ==
  /\ MayCreatePayment(b, u, k)
  /\ payStatus' = [payStatus EXCEPT ![b] = "pending"]
  /\ payKey' = [payKey EXCEPT ![b] = k]
  /\ status' = [status EXCEPT ![b] = "awaiting_payment"]
  /\ UNCHANGED <<terms, events, dispute, workspaceVars>>

(* apply_webhook and simulate_paid: the provider reports that the money of *)
(* b arrived or that it will not.                                          *)
ProviderReports(b, id, type) ==
  /\ Exists(b)
  /\ type \in {"paid", "failed"}
  /\ StageEvent(b, id, type, status[b])
  /\ status' = [status EXCEPT ![b] = IF type = "paid" THEN "confirmed" ELSE @]
  /\ UNCHANGED <<terms, dispute, workspaceVars>>

ApplyWebhook(b, id, type) ==
  /\ id \in WebhookIds
  /\ ProviderReports(b, id, type)

MaySimulatePaid(b, u) ==
  IsClient(b, u) /\ MayStage(b, ProviderEventId("paid", b), "paid", status[b])

SimulatePaid(b, u) ==
  /\ MaySimulatePaid(b, u)
  /\ ProviderReports(b, ProviderEventId("paid", b), "paid")

(* Variant: the lifecycle message of the next step is posted.              *)
StartBooking_WrongNotice(b, u) ==
  /\ IsCreator(b, u)
  /\ status[b] = "confirmed"
  /\ payStatus[b] = "held"
  /\ status' = [status EXCEPT ![b] = "in_progress"]
  /\ Notify(b, "delivered")
  /\ UNCHANGED <<terms, paymentVars, dispute, deliverables, conversations>>

MayStart(b, u) == IsCreator(b, u) /\ status[b] = "confirmed" /\ payStatus[b] = "held"

StartBooking(b, u) ==
  /\ MayStart(b, u)
  /\ status' = [status EXCEPT ![b] = "in_progress"]
  /\ Notify(b, "started")
  /\ UNCHANGED <<terms, paymentVars, dispute, deliverables, conversations>>

MayDeliver(b, u) ==
  /\ IsCreator(b, u)
  /\ status[b] = "in_progress" /\ payStatus[b] = "held" /\ deliverables[b] > 0

DeliverBooking(b, u) ==
  /\ MayDeliver(b, u)
  /\ status' = [status EXCEPT ![b] = "delivered"]
  /\ Notify(b, "delivered")
  /\ UNCHANGED <<terms, paymentVars, dispute, deliverables, conversations>>

(* Variant: the client may still accept after opening a dispute.           *)
CompleteBooking_WhileDisputed(b, u) ==
  /\ IsClient(b, u)
  /\ status[b] \in {"delivered", "disputed"}
  /\ payStatus[b] = "held"
  /\ StageEvent(b, ProviderEventId("released", b), "released", "completed")
  /\ status' = [status EXCEPT ![b] = "completed"]
  /\ Notify(b, "completed")
  /\ UNCHANGED <<terms, dispute, deliverables, conversations>>

MayComplete(b, u) ==
  /\ IsClient(b, u)
  /\ status[b] = "delivered" /\ payStatus[b] = "held"
  /\ MayStage(b, ProviderEventId("released", b), "released", "completed")

CompleteBooking(b, u) ==
  /\ MayComplete(b, u)
  /\ StageEvent(b, ProviderEventId("released", b), "released", "completed")
  /\ status' = [status EXCEPT ![b] = "completed"]
  /\ Notify(b, "completed")
  /\ UNCHANGED <<terms, dispute, deliverables, conversations>>

(* The bookings and payments that cancel_booking and                       *)
(* cancel_for_locked_booking agree to cancel.                              *)
MayCancel(b, u) ==
  /\ IsClient(b, u) \/ IsCreator(b, u)
  /\ status[b] \in ActiveStatuses
  /\ status[b] \in {"requested", "accepted"} => payStatus[b] = "absent"
  /\ status[b] = "awaiting_payment" => payStatus[b] \in {"pending", "failed"}
  /\ status[b] = "confirmed" =>
       /\ payStatus[b] = "held"
       /\ MayStage(b, ProviderEventId("refunded", b), "refunded", status[b])

(* Variant: a confirmed booking is cancelled without a refund.             *)
CancelPayment_NoRefund(b) ==
  \/ status[b] \in {"requested", "accepted", "confirmed"} /\ UNCHANGED paymentVars
  \/ /\ status[b] = "awaiting_payment"
     /\ payStatus' = [payStatus EXCEPT ![b] = IF @ = "pending" THEN "expired" ELSE @]
     /\ UNCHANGED <<payKey, events>>

(* cancel_for_locked_booking: what a cancellation does to the payment.     *)
CancelPayment(b) ==
  \/ status[b] \in {"requested", "accepted"} /\ UNCHANGED paymentVars
  \/ /\ status[b] = "awaiting_payment"
     /\ payStatus' = [payStatus EXCEPT ![b] = IF @ = "pending" THEN "expired" ELSE @]
     /\ UNCHANGED <<payKey, events>>
  \/ /\ status[b] = "confirmed"
     /\ StageEvent(b, ProviderEventId("refunded", b), "refunded", status[b])

CancelBooking(b, u) ==
  /\ MayCancel(b, u)
  /\ CancelPayment(b)
  /\ status' = [status EXCEPT ![b] = "cancelled"]
  /\ UNCHANGED <<terms, dispute, workspaceVars>>

MayOpenDispute(b, u) ==
  /\ IsClient(b, u)
  /\ status[b] \in {"confirmed", "in_progress", "delivered"} /\ dispute[b] = "absent"

OpenDispute(b, u) ==
  /\ MayOpenDispute(b, u)
  /\ status' = [status EXCEPT ![b] = "disputed"]
  /\ dispute' = [dispute EXCEPT ![b] = "open"]
  /\ Notify(b, "disputed")
  /\ UNCHANGED <<terms, paymentVars, deliverables, conversations>>

Resolutions == {"resolved_client", "resolved_creator"}

(* The event a decision stages, and the status it writes before.           *)
ResolvedType(resolution) == IF resolution = "resolved_client" THEN "refunded" ELSE "released"

ResolvedStatus(resolution) == IF resolution = "resolved_client" THEN "cancelled" ELSE "completed"

(* Variant: a decided dispute may be decided again.                        *)
ResolveDispute_Again(b, resolution) ==
  LET type == ResolvedType(resolution) IN
  /\ dispute[b] # "absent"
  /\ IF payStatus[b] = "held"
       THEN StageEvent(b, ProviderEventId(type, b), type, ResolvedStatus(resolution))
       ELSE UNCHANGED paymentVars
  /\ status' = [status EXCEPT ![b] = ResolvedStatus(resolution)]
  /\ dispute' = [dispute EXCEPT ![b] = resolution]
  /\ Notify(b, resolution)
  /\ UNCHANGED <<terms, deliverables, conversations>>

(* Variant: a booking may be resolved that nobody disputed.                *)
ResolveDispute_Undisputed(b, resolution) ==
  LET type == ResolvedType(resolution) IN
  /\ Exists(b) /\ dispute[b] \notin {"resolved_client", "resolved_creator"}
  /\ IF payStatus[b] = "held"
       THEN StageEvent(b, ProviderEventId(type, b), type, ResolvedStatus(resolution))
       ELSE UNCHANGED paymentVars
  /\ status' = [status EXCEPT ![b] = ResolvedStatus(resolution)]
  /\ dispute' = [dispute EXCEPT ![b] = resolution]
  /\ Notify(b, resolution)
  /\ UNCHANGED <<terms, deliverables, conversations>>

MayResolve(b, resolution) ==
  LET type == ResolvedType(resolution) IN
  /\ dispute[b] = "open"
  /\ payStatus[b] = "held" =>
       MayStage(b, ProviderEventId(type, b), type, ResolvedStatus(resolution))

(* The admin's decision.  The code does not look at the booking's status:  *)
(* the dispute being open is its only condition.                           *)
ResolveDispute(b, resolution) ==
  LET type == ResolvedType(resolution) IN
  /\ MayResolve(b, resolution)
  /\ IF payStatus[b] = "held"
       THEN StageEvent(b, ProviderEventId(type, b), type, ResolvedStatus(resolution))
       ELSE UNCHANGED paymentVars
  /\ status' = [status EXCEPT ![b] = ResolvedStatus(resolution)]
  /\ dispute' = [dispute EXCEPT ![b] = resolution]
  /\ Notify(b, resolution)
  /\ UNCHANGED <<terms, deliverables, conversations>>

AddDeliverable(b, u) ==
  /\ IsCreator(b, u)
  /\ status[b] = "in_progress"
  /\ deliverables[b] < MaxDeliverables
  /\ deliverables' = [deliverables EXCEPT ![b] = @ + 1]
  /\ UNCHANGED <<bookingVars, paymentVars, dispute, conversations, notices>>

(* Variant: deliverables may be deleted from a delivered booking.          *)
DeleteDeliverable_AfterDelivery(b, u) ==
  /\ IsCreator(b, u)
  /\ status[b] \in {"in_progress", "delivered"}
  /\ deliverables[b] > 0
  /\ deliverables' = [deliverables EXCEPT ![b] = @ - 1]
  /\ UNCHANGED <<bookingVars, paymentVars, dispute, conversations, notices>>

DeleteDeliverable(b, u) ==
  /\ IsCreator(b, u)
  /\ status[b] = "in_progress"
  /\ deliverables[b] > 0
  /\ deliverables' = [deliverables EXCEPT ![b] = @ - 1]
  /\ UNCHANGED <<bookingVars, paymentVars, dispute, conversations, notices>>

MayOpenConversation(b, u) ==
  /\ IsClient(b, u) \/ IsCreator(b, u)
  /\ b \notin conversations
  /\ status[b] \in {"confirmed", "in_progress", "delivered", "disputed"}

OpenConversation(b, u) ==
  /\ MayOpenConversation(b, u)
  /\ conversations' = conversations \cup {b}
  /\ UNCHANGED <<bookingVars, paymentVars, dispute, deliverables, notices>>

ClientStep(b, u) ==
  \/ \E c \in Creators, d \in Dates, p \in Prices : CreateBooking(b, u, c, d, p)
  \/ \E k \in Keys : CreatePayment(b, u, k)
  \/ SimulatePaid(b, u)
  \/ CompleteBooking(b, u)
  \/ OpenDispute(b, u)

CreatorStep(b, u) ==
  \/ AcceptBooking(b, u)
  \/ RejectBooking(b, u)
  \/ StartBooking(b, u)
  \/ AddDeliverable(b, u)
  \/ DeleteDeliverable(b, u)
  \/ DeliverBooking(b, u)

SharedStep(b, u) ==
  \/ CancelBooking(b, u)
  \/ OpenConversation(b, u)

SystemStep(b) ==
  \/ \E id \in WebhookIds, type \in {"paid", "failed"} : ApplyWebhook(b, id, type)
  \/ \E resolution \in Resolutions : ResolveDispute(b, resolution)

Next ==
  \E b \in Bookings :
    \/ \E u \in Users : ClientStep(b, u) \/ CreatorStep(b, u) \/ SharedStep(b, u)
    \/ SystemStep(b)

Spec == Init /\ [][Next]_vars
-----------------------------------------------------------------------------
(* Bookings that the creator agreed to and that have not concluded.        *)
Live(b) ==
  status[b] \notin {"absent", "requested", "rejected", "completed", "cancelled"}

(* The statuses a booking may have beside a payment of each status.        *)
BookingBeside ==
  [absent   |-> {"absent", "requested", "accepted", "rejected", "cancelled"},
   pending  |-> {"awaiting_payment"},
   failed   |-> {"awaiting_payment", "cancelled"},
   expired  |-> {"cancelled"},
   held     |-> {"confirmed", "in_progress", "delivered", "disputed"},
   released |-> {"completed"},
   refunded |-> {"cancelled"}]

(* The booking row and the payment row, which different services write in  *)
(* one transaction, always tell the same story: money is held exactly while*)
(* the work is owed, released exactly when the booking is completed, and   *)
(* no cancelled booking keeps money.                                       *)
EscrowAgrees == \A b \in Bookings : status[b] \in BookingBeside[payStatus[b]]

HasEvent(b, type) == \E e \in events : e.payment = b /\ e.type = type

(* The event log explains every payment: an event id is used once, a       *)
(* payment has at most one event of a type, and its status is what its     *)
(* events say: never both released and refunded, neither without paid.     *)
EventsExplainPayment ==
  /\ \A e, f \in events :
       (e.id = f.id \/ (e.payment = f.payment /\ e.type = f.type)) => e = f
  /\ \A b \in Bookings :
       /\ HasEvent(b, "paid") <=> payStatus[b] \in {"held", "released", "refunded"}
       /\ HasEvent(b, "failed") <=> payStatus[b] = "failed"
       /\ HasEvent(b, "released") <=> payStatus[b] = "released"
       /\ HasEvent(b, "refunded") <=> payStatus[b] = "refunded"

(* A creator never owes two clients the same date, whatever mix of         *)
(* acceptances, cancellations and disputes led there.                      *)
OneLiveBookingPerDate ==
  \A a, b \in Bookings : Live(a) /\ Live(b) /\ SameSlot(a, b) => a = b

(* A dispute is open exactly while its booking is frozen in "disputed", and*)
(* a decided dispute has moved the money to the side it named.             *)
DisputeDecidesEscrow ==
  \A b \in Bookings :
    /\ dispute[b] = "open" <=> status[b] = "disputed"
    /\ dispute[b] = "resolved_client" => status[b] = "cancelled" /\ payStatus[b] = "refunded"
    /\ dispute[b] = "resolved_creator" => status[b] = "completed" /\ payStatus[b] = "released"

(* Nobody pays for nothing: a delivered booking, and one the client        *)
(* completed without a dispute, has at least one deliverable, although the *)
(* creator may delete deliverables until the delivery.                     *)
PaidWorkExists ==
  \A b \in Bookings :
    \/ status[b] = "delivered"
    \/ status[b] = "completed" /\ dispute[b] = "absent"
    => deliverables[b] > 0

(* An idempotency key names one payment: two bookings never share one, and *)
(* a booking has a key exactly when it has a payment.                      *)
KeysIdentifyPayments ==
  \A b \in Bookings :
    /\ payKey[b] = NoKey <=> payStatus[b] = "absent"
    /\ \A a \in Bookings \ {b} : payKey[a] = payKey[b] => payKey[b] = NoKey

(* The system messages of a conversation agree with what happened to the   *)
(* booking and its money since they were posted.                           *)
NoticesTellTheTruth ==
  \A b \in Bookings :
    LET Said(kind) == <<b, kind>> \in notices IN
    /\ Said("started") \/ Said("delivered") =>
         \/ status[b] \in {"in_progress", "delivered", "completed", "disputed"}
         \/ dispute[b] = "resolved_client"
    /\ Said("delivered") => status[b] # "in_progress"
    /\ Said("completed") => payStatus[b] = "released" /\ ~Said("disputed")
    /\ Said("disputed") => dispute[b] # "absent"
    /\ Said("resolved_client") => payStatus[b] = "refunded"
    /\ Said("resolved_creator") => payStatus[b] = "released"

(* No event that a webhook brought has the id that the provider derives for*)
(* its own event of this type on the payment of b.                         *)
IdKept(b, type) ==
  \A e \in events : e.id = ProviderEventId(type, b) => e.payment = b /\ e.type = type

(* Held money is never trapped: a confirmed booking can be cancelled, a    *)
(* delivered one accepted, and an open dispute decided either way, whatever*)
(* events the payment has seen, unless one of them took the id of the event*)
(* that would settle it.                                                   *)
HeldMoneyMayMove ==
  \A b \in Bookings :
    /\ status[b] = "confirmed" /\ IdKept(b, "refunded") => MayCancel(b, terms[b].client)
    /\ status[b] = "delivered" /\ IdKept(b, "released") => MayComplete(b, terms[b].client)
    /\ \A resolution \in Resolutions :
         dispute[b] = "open" /\ IdKept(b, ResolvedType(resolution)) => MayResolve(b, resolution)

(* The guards decide: an operation that its guard admits has a step.       *)
GuardsDecide ==
  \A b \in Bookings :
    /\ \A u \in Users :
         /\ MayAccept(b, u) <=> ENABLED AcceptBooking(b, u)
         /\ MayReject(b, u) <=> ENABLED RejectBooking(b, u)
         /\ \A k \in Keys : MayCreatePayment(b, u, k) <=> ENABLED CreatePayment(b, u, k)
         /\ MaySimulatePaid(b, u) <=> ENABLED SimulatePaid(b, u)
         /\ MayStart(b, u) <=> ENABLED StartBooking(b, u)
         /\ MayDeliver(b, u) <=> ENABLED DeliverBooking(b, u)
         /\ MayComplete(b, u) <=> ENABLED CompleteBooking(b, u)
         /\ MayCancel(b, u) <=> ENABLED CancelBooking(b, u)
         /\ MayOpenDispute(b, u) <=> ENABLED OpenDispute(b, u)
         /\ MayOpenConversation(b, u) <=> ENABLED OpenConversation(b, u)
    /\ \A resolution \in Resolutions : MayResolve(b, resolution) <=> ENABLED ResolveDispute(b, resolution)

(* Held money does move: what may be done is what a step can do.           *)
HeldMoneyCanMove == HeldMoneyMayMove /\ GuardsDecide

(* Rejected, completed and cancelled bookings and settled payments never   *)
(* change again, although resolve_dispute_for_admin does not look at the   *)
(* status of the booking it concludes.                                     *)
TerminalStaysTerminal ==
  [][\A b \in Bookings :
       /\ status[b] \in {"rejected", "completed", "cancelled"} => status'[b] = status[b]
       /\ payStatus[b] \in FinalPaymentStatuses => payStatus'[b] = payStatus[b]]_vars

(* Once a session has started, the client gets money back only through a   *)
(* dispute that an admin decides: ordinary cancellation ends at confirmed. *)
RefundAfterStartNeedsDispute ==
  [][\A b \in Bookings :
       payStatus[b] = "held" /\ payStatus'[b] = "refunded" =>
         \/ status[b] = "confirmed"
         \/ dispute[b] = "open" /\ dispute'[b] = "resolved_client"]_vars
-----------------------------------------------------------------------------
(* Refinement: the rows as EscrowPromise sees them.                        *)
MoneyOf ==
  [absent |-> "none", pending |-> "due", held |-> "held", released |-> "creator",
   refunded |-> "client", failed |-> "void", expired |-> "void"]

OutcomeOf(bookingStatus) ==
  CASE bookingStatus = "completed" -> "done"
    [] bookingStatus \in {"rejected", "cancelled"} -> "off"
    [] OTHER -> "open"

Promise == INSTANCE EscrowPromise WITH
  Slots   <- Creators \X Dates,
  money   <- [b \in Bookings |-> MoneyOf[payStatus[b]]],
  outcome <- [b \in Bookings |-> OutcomeOf(status[b])],
  holders <- [s \in Creators \X Dates |->
               {b \in Bookings : Live(b) /\ s = <<terms[b].creator, terms[b].date>>}]

(* The services implement the promise: dates are claimed only when free,   *)
(* and held money moves once, together with the conclusion of its booking. *)
ImplementsPromise == Promise!PromiseSpec
=============================================================================
