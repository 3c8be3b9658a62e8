----------------------- MODULE BookingLifecycleProofs -----------------------
(***************************************************************************)
(* Theorems about BookingLifecycle, for every set of bookings, users,      *)
(* creators, dates, prices, keys and event ids: first the statuses and the *)
(* money, then the records kept beside them (the payments' keys and        *)
(* events, the deliverables and the system messages), and at last that the *)
(* services implement EscrowPromise: each of the moves of a booking's rows *)
(* is one step of the promise, or none.                                    *)
(***************************************************************************)
EXTENDS BookingLifecycle, TLAPS

(* The actions a step of Next is made of; webhooks and the simulation of a *)
(* payment are both reports of the provider.                               *)
LEMMA NextCases ==
  Next =>
    \E b \in Bookings :
      \/ \E u \in Users, c \in Creators, d \in Dates, p \in Prices :
           CreateBooking(b, u, c, d, p)
      \/ \E u \in Users, k \in Keys : CreatePayment(b, u, k)
      \/ \E id \in EventIds, type \in EventTypes : ProviderReports(b, id, type)
      \/ \E u \in Users :
           \/ AcceptBooking(b, u) \/ RejectBooking(b, u)
           \/ StartBooking(b, u) \/ DeliverBooking(b, u)
           \/ CompleteBooking(b, u)
           \/ CancelBooking(b, u)
           \/ OpenDispute(b, u)
           \/ AddDeliverable(b, u) \/ DeleteDeliverable(b, u) \/ OpenConversation(b, u)
      \/ \E resolution \in {"resolved_client", "resolved_creator"} :
           ResolveDispute(b, resolution)
<1> SUFFICES ASSUME Next
             PROVE  NextCases!2
  OBVIOUS
<1>1. PICK b \in Bookings :
        \/ \E u \in Users : ClientStep(b, u) \/ CreatorStep(b, u) \/ SharedStep(b, u)
        \/ SystemStep(b)
  BY DEF Next
<1>2. \A u \in Users :
        SimulatePaid(b, u) => ProviderReports(b, ProviderEventId("paid", b), "paid")
  BY DEF SimulatePaid, MaySimulatePaid
<1>3. ProviderEventId("paid", b) \in EventIds /\ "paid" \in EventTypes
  BY DEF EventIds, EventTypes
<1>4. \A id \in WebhookIds, type \in {"paid", "failed"} :
        ApplyWebhook(b, id, type) =>
          id \in EventIds /\ type \in EventTypes /\ ProviderReports(b, id, type)
  BY DEF ApplyWebhook, EventIds, EventTypes
<1>5. CASE \E u \in Users : ClientStep(b, u)
  BY <1>2, <1>3, <1>5 DEF ClientStep
<1>6. CASE \E u \in Users : CreatorStep(b, u) \/ SharedStep(b, u)
  BY <1>6 DEF CreatorStep, SharedStep
<1>7. CASE SystemStep(b)
  BY <1>4, <1>7 DEF SystemStep, Resolutions
<1>8. QED
  BY <1>1, <1>5, <1>6, <1>7

(* A staged event keeps the payment columns and the event log well typed.  *)
LEMMA StageEventType ==
  ASSUME TypeOK, NEW b \in Bookings, NEW id \in EventIds, NEW type \in EventTypes,
         NEW bookingStatus, StageEvent(b, id, type, bookingStatus)
  PROVE  /\ payStatus' \in [Bookings -> PaymentStatuses]
         /\ payKey' \in [Bookings -> Keys \cup {NoKey}]
         /\ events' \subseteq Events
<1>1. PaymentAfter[type] \in PaymentStatuses
  BY DEF PaymentAfter, PaymentStatuses, EventTypes
<1>2. [id |-> id, payment |-> b, type |-> type] \in Events
  BY DEF Events
<1>3. QED
  BY <1>1, <1>2 DEF StageEvent, MayStage, TypeOK

(* The ids the provider derives from a payment are event ids.              *)
LEMMA ProviderIds ==
  \A t \in EventTypes, b \in Bookings : ProviderEventId(t, b) \in EventIds
  BY DEF EventIds

(* A posted system message is one of the declared kinds.                   *)
LEMMA NotifyType ==
  ASSUME TypeOK, NEW b \in Bookings, NEW kind \in NoticeKinds, Notify(b, kind)
  PROVE  notices' \subseteq Bookings \X NoticeKinds
  BY DEF TypeOK, Notify

LEMMA InitTypeOK == Init => TypeOK
  BY ConstantsAssumption
  DEF Init, TypeOK, BookingStatuses, PaymentStatuses, DisputeStatuses, Events

LEMMA NextTypeOK == TypeOK /\ [Next]_vars => TypeOK'
<1> SUFFICES ASSUME TypeOK, [Next]_vars PROVE TypeOK'
  OBVIOUS
<1>1. ASSUME NEW b \in Bookings, NEW u \in Users, NEW c \in Creators, NEW d \in Dates,
             NEW p \in Prices, CreateBooking(b, u, c, d, p)
      PROVE  TypeOK'
  <2>1. [client |-> u, creator |-> c, date |-> d, price |-> p] \in Terms
    BY DEF Terms
  <2>2. QED
    BY <1>1, <2>1 DEF CreateBooking, TypeOK, BookingStatuses, paymentVars, workspaceVars
<1>2. ASSUME NEW b \in Bookings, NEW u \in Users, NEW k \in Keys, CreatePayment(b, u, k)
      PROVE  TypeOK'
  BY <1>2 DEF CreatePayment, MayCreatePayment, TypeOK, BookingStatuses, PaymentStatuses,
              workspaceVars
<1>3. ASSUME NEW b \in Bookings, NEW id \in EventIds, NEW type \in EventTypes,
             ProviderReports(b, id, type)
      PROVE  TypeOK'
  <2>1. StageEvent(b, id, type, status[b])
    BY <1>3 DEF ProviderReports
  <2>2. QED
    BY <1>3, <2>1, StageEventType DEF ProviderReports, TypeOK, BookingStatuses, workspaceVars
<1>4. ASSUME NEW b \in Bookings, NEW u \in Users,
             \/ AcceptBooking(b, u)
             \/ RejectBooking(b, u)
      PROVE  TypeOK'
  BY <1>4
  DEF AcceptBooking, MayAccept, RejectBooking, MayReject, TypeOK, BookingStatuses,
      paymentVars, workspaceVars
<1>5. ASSUME NEW b \in Bookings, NEW u \in Users,
             \/ StartBooking(b, u)
             \/ DeliverBooking(b, u)
      PROVE  TypeOK'
  <2>1. Notify(b, "started") \/ Notify(b, "delivered")
    BY <1>5 DEF StartBooking, MayStart, DeliverBooking, MayDeliver
  <2>2. notices' \subseteq Bookings \X NoticeKinds
    BY <2>1, NotifyType DEF NoticeKinds
  <2>3. QED
    BY <1>5, <2>2 DEF StartBooking, MayStart, DeliverBooking, MayDeliver, TypeOK,
                      BookingStatuses, paymentVars
<1>6. ASSUME NEW b \in Bookings, NEW u \in Users, CompleteBooking(b, u)
      PROVE  TypeOK'
  <2>1. /\ StageEvent(b, ProviderEventId("released", b), "released", "completed")
        /\ Notify(b, "completed")
    BY <1>6 DEF CompleteBooking, MayComplete
  <2>2. "released" \in EventTypes /\ "completed" \in NoticeKinds
    BY DEF EventTypes, NoticeKinds
  <2>3. notices' \subseteq Bookings \X NoticeKinds
    BY <2>1, <2>2, NotifyType
  <2>4. QED
    BY <1>6, <2>1, <2>2, <2>3, StageEventType, ProviderIds
    DEF CompleteBooking, MayComplete, TypeOK, BookingStatuses
<1>7. ASSUME NEW b \in Bookings, NEW u \in Users, CancelBooking(b, u)
      PROVE  TypeOK'
  <2>1. /\ payStatus' \in [Bookings -> PaymentStatuses]
        /\ payKey' \in [Bookings -> Keys \cup {NoKey}]
        /\ events' \subseteq Events
    <3>1. CancelPayment(b)
      BY <1>7 DEF CancelBooking, MayCancel
    <3>2. CASE StageEvent(b, ProviderEventId("refunded", b), "refunded", status[b])
      BY <3>2, StageEventType, ProviderIds DEF EventTypes
    <3>3. QED
      BY <3>1, <3>2 DEF CancelPayment, TypeOK, PaymentStatuses, paymentVars
  <2>2. QED
    BY <1>7, <2>1 DEF CancelBooking, MayCancel, TypeOK, BookingStatuses, workspaceVars
<1>8. ASSUME NEW b \in Bookings, NEW u \in Users, OpenDispute(b, u)
      PROVE  TypeOK'
  <2>1. notices' \subseteq Bookings \X NoticeKinds
    BY <1>8, NotifyType DEF OpenDispute, MayOpenDispute, NoticeKinds
  <2>2. QED
    BY <1>8, <2>1 DEF OpenDispute, MayOpenDispute, TypeOK, BookingStatuses,
                      DisputeStatuses, paymentVars
<1>9. ASSUME NEW b \in Bookings, NEW resolution \in {"resolved_client", "resolved_creator"},
             ResolveDispute(b, resolution)
      PROVE  TypeOK'
  <2> DEFINE type  == IF resolution = "resolved_client" THEN "refunded" ELSE "released"
             final == IF resolution = "resolved_client" THEN "cancelled" ELSE "completed"
  <2>1. type \in EventTypes /\ final \in BookingStatuses
    BY DEF EventTypes, BookingStatuses
  <2>2. \/ StageEvent(b, ProviderEventId(type, b), type, final)
        \/ UNCHANGED paymentVars
    BY <1>9 DEF ResolveDispute, MayResolve, ResolvedType, ResolvedStatus
  <2>3. /\ payStatus' \in [Bookings -> PaymentStatuses]
        /\ payKey' \in [Bookings -> Keys \cup {NoKey}]
        /\ events' \subseteq Events
    <3>1. CASE StageEvent(b, ProviderEventId(type, b), type, final)
      BY <2>1, <3>1, StageEventType, ProviderIds
    <3>2. CASE UNCHANGED paymentVars
      BY <3>2 DEF paymentVars, TypeOK
    <3>3. QED
      BY <2>2, <3>1, <3>2
  <2>4. notices' \subseteq Bookings \X NoticeKinds
    BY <1>9, NotifyType DEF ResolveDispute, MayResolve, ResolvedType, ResolvedStatus,
                            NoticeKinds
  <2>5. QED
    BY <1>9, <2>1, <2>3, <2>4 DEF ResolveDispute, MayResolve, ResolvedType,
                                  ResolvedStatus, TypeOK, DisputeStatuses
<1>10. ASSUME NEW b \in Bookings, NEW u \in Users,
              \/ AddDeliverable(b, u)
              \/ DeleteDeliverable(b, u)
              \/ OpenConversation(b, u)
       PROVE  TypeOK'
  BY <1>10, ConstantsAssumption
  DEF AddDeliverable, DeleteDeliverable, OpenConversation, MayOpenConversation, TypeOK,
      bookingVars, paymentVars
<1>11. CASE UNCHANGED vars
  BY <1>11 DEF vars, bookingVars, paymentVars, workspaceVars, TypeOK
<1>12. CASE Next
  BY <1>1, <1>2, <1>3, <1>4, <1>5, <1>6, <1>7, <1>8, <1>9, <1>10, <1>12, NextCases
<1>13. QED
  BY <1>11, <1>12

(* Type correctness: whatever the services do, every column keeps one of   *)
(* the values its check constraint allows.                                 *)
THEOREM TypeCorrect == Spec => []TypeOK
<1>1. QED
  BY InitTypeOK, NextTypeOK, PTL DEF Spec
-----------------------------------------------------------------------------
(* EscrowAgrees is not inductive alone: ResolveDispute concludes a booking *)
(* without looking at its status, and only the open dispute tells that the *)
(* booking is disputed and, with EscrowAgrees, that its money is held.     *)
EscrowInv == TypeOK /\ EscrowAgrees /\ DisputeDecidesEscrow

(* What EscrowInv says of one booking.                                     *)
RowAgrees(b) ==
  /\ status[b] \in BookingBeside[payStatus[b]]
  /\ dispute[b] = "open" <=> status[b] = "disputed"
  /\ dispute[b] = "resolved_client" => status[b] = "cancelled" /\ payStatus[b] = "refunded"
  /\ dispute[b] = "resolved_creator" => status[b] = "completed" /\ payStatus[b] = "released"

LEMMA RowsAgree ==
  EscrowAgrees /\ DisputeDecidesEscrow <=> \A b \in Bookings : RowAgrees(b)
  BY DEF EscrowAgrees, DisputeDecidesEscrow, RowAgrees

(* An operation that rewrites the rows of booking b leaves the other rows. *)
RowStep(b) ==
  \A other \in Bookings \ {b} :
    /\ status'[other] = status[other]
    /\ payStatus'[other] = payStatus[other]
    /\ dispute'[other] = dispute[other]

LEMMA OtherRowsAgree ==
  ASSUME NEW b \in Bookings, RowStep(b), RowAgrees(b)',
         \A other \in Bookings : RowAgrees(other)
  PROVE  (\A other \in Bookings : RowAgrees(other))'
  BY DEF RowStep, RowAgrees

(* The statuses beside a payment, one case of the table at a time.         *)
LEMMA Beside ==
  /\ BookingBeside["absent"] = {"absent", "requested", "accepted", "rejected", "cancelled"}
  /\ BookingBeside["pending"] = {"awaiting_payment"}
  /\ BookingBeside["failed"] = {"awaiting_payment", "cancelled"}
  /\ BookingBeside["expired"] = {"cancelled"}
  /\ BookingBeside["held"] = {"confirmed", "in_progress", "delivered", "disputed"}
  /\ BookingBeside["released"] = {"completed"}
  /\ BookingBeside["refunded"] = {"cancelled"}
  BY DEF BookingBeside

(* A staged event moves the payment of b, and of no other booking, from a  *)
(* status that accepts it.                                                 *)
LEMMA StageEventMoves ==
  ASSUME TypeOK, NEW b \in Bookings, NEW id, NEW type \in EventTypes, NEW bookingStatus,
         StageEvent(b, id, type, bookingStatus)
  PROVE  /\ payStatus' = [payStatus EXCEPT ![b] = payStatus'[b]]
         /\ type = "paid" =>
              payStatus[b] = "pending" /\ payStatus'[b] = "held"
                /\ bookingStatus = "awaiting_payment"
         /\ type = "failed" => payStatus[b] = "pending" /\ payStatus'[b] = "failed"
         /\ type = "refunded" => payStatus[b] = "held" /\ payStatus'[b] = "refunded"
         /\ type = "released" =>
              payStatus[b] = "held" /\ payStatus'[b] = "released"
                /\ bookingStatus = "completed"
  BY DEF StageEvent, MayStage, Accepts, PaymentAfter, TypeOK, EventTypes

LEMMA InitEscrow == Init => EscrowInv
<1>1. Init => EscrowAgrees /\ DisputeDecidesEscrow
  BY Beside DEF Init, EscrowAgrees, DisputeDecidesEscrow
<1>2. QED
  BY <1>1, InitTypeOK DEF EscrowInv

LEMMA NextEscrow == EscrowInv /\ [Next]_vars => EscrowInv'
<1> SUFFICES ASSUME EscrowInv, [Next]_vars PROVE EscrowInv'
  OBVIOUS
<1>0. TypeOK /\ (\A b \in Bookings : RowAgrees(b))
  BY RowsAgree DEF EscrowInv
<1> SUFFICES (\A b \in Bookings : RowAgrees(b))'
  <2>1. (EscrowAgrees /\ DisputeDecidesEscrow <=> \A b \in Bookings : RowAgrees(b))'
    BY RowsAgree, PTL
  <2>2. QED
    BY <1>0, <2>1, NextTypeOK DEF EscrowInv
<1>1. ASSUME NEW b \in Bookings, NEW u \in Users,
             \/ \E c \in Creators, d \in Dates, p \in Prices : CreateBooking(b, u, c, d, p)
             \/ AcceptBooking(b, u)
             \/ RejectBooking(b, u)
             \/ StartBooking(b, u)
             \/ DeliverBooking(b, u)
      PROVE  (\A other \in Bookings : RowAgrees(other))'
  <2>1. /\ RowStep(b)
        /\ payStatus'[b] = payStatus[b]
        /\ dispute'[b] = dispute[b]
        /\ \/ status[b] \in {"absent", "requested"}
                /\ status'[b] \in {"requested", "accepted", "rejected"}
           \/ status[b] \in {"confirmed", "in_progress"}
                /\ status'[b] \in {"in_progress", "delivered"}
    BY <1>0, <1>1
    DEF CreateBooking, Exists, AcceptBooking, MayAccept, RejectBooking, MayReject,
        StartBooking, MayStart, DeliverBooking, MayDeliver, RowStep, TypeOK, paymentVars
  <2>2. RowAgrees(b)'
    BY <1>0, <2>1, Beside DEF RowAgrees, TypeOK, PaymentStatuses
  <2>3. QED
    BY <1>0, <2>1, <2>2, OtherRowsAgree
<1>2. ASSUME NEW b \in Bookings, NEW u \in Users, NEW k \in Keys, CreatePayment(b, u, k)
      PROVE  (\A other \in Bookings : RowAgrees(other))'
  <2>1. RowStep(b) /\ RowAgrees(b)'
    BY <1>0, <1>2, Beside DEF CreatePayment, MayCreatePayment, RowStep, RowAgrees, TypeOK
  <2>2. QED
    BY <1>0, <2>1, OtherRowsAgree
<1>3. ASSUME NEW b \in Bookings, NEW id \in EventIds, NEW type \in EventTypes,
             ProviderReports(b, id, type)
      PROVE  (\A other \in Bookings : RowAgrees(other))'
  <2>1. StageEvent(b, id, type, status[b]) /\ type \in {"paid", "failed"}
    BY <1>3 DEF ProviderReports
  <2>2. /\ payStatus' = [payStatus EXCEPT ![b] = payStatus'[b]]
        /\ payStatus[b] = "pending"
        /\ \/ type = "paid" /\ payStatus'[b] = "held" /\ status'[b] = "confirmed"
           \/ type = "failed" /\ payStatus'[b] = "failed" /\ status'[b] = status[b]
    BY <1>0, <1>3, <2>1, StageEventMoves DEF ProviderReports, TypeOK
  <2>3. RowStep(b) /\ dispute'[b] = dispute[b]
    BY <1>0, <1>3, <2>2 DEF ProviderReports, RowStep, TypeOK
  <2>4. RowAgrees(b)'
    BY <1>0, <2>2, <2>3, Beside DEF RowAgrees
  <2>5. QED
    BY <1>0, <2>3, <2>4, OtherRowsAgree
<1>4. ASSUME NEW b \in Bookings, NEW u \in Users, CompleteBooking(b, u)
      PROVE  (\A other \in Bookings : RowAgrees(other))'
  <2>1. /\ payStatus' = [payStatus EXCEPT ![b] = payStatus'[b]]
        /\ payStatus'[b] = "released"
    BY <1>0, <1>4, StageEventMoves DEF CompleteBooking, MayComplete, EventTypes
  <2>2. RowStep(b) /\ RowAgrees(b)'
    BY <1>0, <1>4, <2>1, Beside DEF CompleteBooking, MayComplete, RowStep, RowAgrees,
                                    TypeOK
  <2>3. QED
    BY <1>0, <2>2, OtherRowsAgree
<1>5. ASSUME NEW b \in Bookings, NEW u \in Users, CancelBooking(b, u)
      PROVE  (\A other \in Bookings : RowAgrees(other))'
  <2>1. /\ payStatus' = [payStatus EXCEPT ![b] = payStatus'[b]]
        /\ payStatus'[b] \in {"absent", "expired", "failed", "refunded"}
    <3>1. CASE StageEvent(b, ProviderEventId("refunded", b), "refunded", status[b])
      BY <1>0, <3>1, StageEventMoves DEF EventTypes
    <3>2. QED
      BY <1>0, <1>5, <3>1 DEF CancelBooking, MayCancel, CancelPayment, TypeOK, paymentVars
  <2>2. RowStep(b) /\ RowAgrees(b)'
    BY <1>0, <1>5, <2>1, Beside
    DEF CancelBooking, MayCancel, ActiveStatuses, RowStep, RowAgrees, TypeOK,
        DisputeStatuses
  <2>3. QED
    BY <1>0, <2>2, OtherRowsAgree
<1>6. ASSUME NEW b \in Bookings, NEW u \in Users, OpenDispute(b, u)
      PROVE  (\A other \in Bookings : RowAgrees(other))'
  <2>1. RowStep(b) /\ RowAgrees(b)'
    BY <1>0, <1>6, Beside
    DEF OpenDispute, MayOpenDispute, RowStep, RowAgrees, TypeOK, PaymentStatuses,
        paymentVars
  <2>2. QED
    BY <1>0, <2>1, OtherRowsAgree
<1>7. ASSUME NEW b \in Bookings, NEW resolution \in {"resolved_client", "resolved_creator"},
             ResolveDispute(b, resolution)
      PROVE  (\A other \in Bookings : RowAgrees(other))'
  <2> DEFINE type  == IF resolution = "resolved_client" THEN "refunded" ELSE "released"
             final == IF resolution = "resolved_client" THEN "cancelled" ELSE "completed"
  <2>1. status[b] = "disputed" /\ payStatus[b] = "held"
    BY <1>0, <1>7, Beside DEF ResolveDispute, MayResolve, ResolvedType, ResolvedStatus,
                              RowAgrees, TypeOK, PaymentStatuses
  <2>2. StageEvent(b, ProviderEventId(type, b), type, final)
    BY <1>7, <2>1 DEF ResolveDispute, MayResolve, ResolvedType, ResolvedStatus
  <2>3. /\ payStatus' = [payStatus EXCEPT ![b] = payStatus'[b]]
        /\ payStatus'[b] = IF resolution = "resolved_client" THEN "refunded" ELSE "released"
    BY <1>0, <2>2, StageEventMoves DEF EventTypes
  <2>4. /\ status' = [status EXCEPT ![b] = final]
        /\ dispute' = [dispute EXCEPT ![b] = resolution]
    BY <1>7 DEF ResolveDispute, MayResolve, ResolvedType, ResolvedStatus
  <2>5. RowStep(b) /\ RowAgrees(b)'
    BY <1>0, <2>3, <2>4, Beside DEF RowStep, RowAgrees, TypeOK
  <2>6. QED
    BY <1>0, <2>5, OtherRowsAgree
<1>8. ASSUME NEW b \in Bookings, NEW u \in Users,
             \/ AddDeliverable(b, u)
             \/ DeleteDeliverable(b, u)
             \/ OpenConversation(b, u)
      PROVE  (\A other \in Bookings : RowAgrees(other))'
  BY <1>0, <1>8
  DEF AddDeliverable, DeleteDeliverable, OpenConversation, MayOpenConversation, RowAgrees,
      bookingVars, paymentVars
<1>9. CASE UNCHANGED vars
  BY <1>0, <1>9 DEF vars, bookingVars, paymentVars, RowAgrees
<1>10. CASE Next
  BY <1>1, <1>2, <1>3, <1>4, <1>5, <1>6, <1>7, <1>8, <1>10, NextCases
<1>11. QED
  BY <1>9, <1>10

LEMMA EscrowInvariant == Spec => []EscrowInv
  BY InitEscrow, NextEscrow, PTL DEF Spec

(* The booking and the payment always agree: money is held exactly while   *)
(* the work is owed, released exactly on completed bookings, and never left*)
(* on cancelled ones.                                                      *)
THEOREM EscrowAlwaysAgrees == Spec => []EscrowAgrees
  BY EscrowInvariant, PTL DEF EscrowInv

(* An open dispute freezes its booking, and a decided one has moved the    *)
(* money to the side the admin named.                                      *)
THEOREM DisputesDecideEscrow == Spec => []DisputeDecidesEscrow
  BY EscrowInvariant, PTL DEF EscrowInv
-----------------------------------------------------------------------------
(* The ways a booking and its payment move together.                       *)
Edge(b, bookingFrom, bookingTo, payFrom, payTo) ==
  /\ status[b] \in bookingFrom /\ status'[b] = bookingTo
  /\ payStatus[b] = payFrom /\ payStatus'[b] = payTo

UnpaidMove(b) ==
  \/ Edge(b, {"absent"}, "requested", "absent", "absent")
  \/ Edge(b, {"requested"}, "accepted", "absent", "absent") /\ DateFree(b)
  \/ Edge(b, {"requested"}, "rejected", "absent", "absent")
  \/ Edge(b, {"requested", "accepted"}, "cancelled", "absent", "absent")

BilledMove(b) ==
  \/ Edge(b, {"accepted"}, "awaiting_payment", "absent", "pending")
  \/ Edge(b, {"awaiting_payment"}, "confirmed", "pending", "held")
  \/ Edge(b, {"awaiting_payment"}, "awaiting_payment", "pending", "failed")
  \/ Edge(b, {"awaiting_payment"}, "cancelled", "pending", "expired")
  \/ Edge(b, {"awaiting_payment"}, "cancelled", "failed", "failed")

PaidMove(b) ==
  \/ Edge(b, {"confirmed"}, "in_progress", "held", "held")
  \/ Edge(b, {"in_progress"}, "delivered", "held", "held")
  \/ Edge(b, {"confirmed", "in_progress", "delivered"}, "disputed", "held", "held")

SettlingMove(b) ==
  \/ Edge(b, {"delivered"}, "completed", "held", "released")
  \/ Edge(b, {"confirmed"}, "cancelled", "held", "refunded")
  \/ Edge(b, {"disputed"}, "completed", "held", "released")
  \/ /\ Edge(b, {"disputed"}, "cancelled", "held", "refunded")
     /\ dispute[b] = "open" /\ dispute'[b] = "resolved_client"

Move(b) == UnpaidMove(b) \/ BilledMove(b) \/ PaidMove(b) \/ SettlingMove(b)

(* Nothing else moves, and a booking's terms stay once they are written.   *)
OthersStay(b) ==
  /\ \A other \in Bookings \ {b} :
       /\ status'[other] = status[other]
       /\ payStatus'[other] = payStatus[other]
       /\ terms'[other] = terms[other]
  /\ status[b] # "absent" => terms'[b] = terms[b]
  /\ status[b] = "absent" =>
       terms'[b] \in Terms /\ Owner[terms'[b].creator] # terms'[b].client

MovesOneRow ==
  \/ UNCHANGED <<terms, status, payStatus>>
  \/ \E b \in Bookings : Move(b) /\ OthersStay(b)

(* Every step is one of these moves of one booking, or leaves the bookings *)
(* and payments alone.                                                     *)
LEMMA StepMoves == EscrowInv /\ [Next]_vars => MovesOneRow
<1> SUFFICES ASSUME EscrowInv, [Next]_vars PROVE MovesOneRow
  OBVIOUS
<1>0. TypeOK /\ (\A b \in Bookings : RowAgrees(b))
  BY RowsAgree DEF EscrowInv
<1>1. ASSUME NEW b \in Bookings, NEW u \in Users, NEW c \in Creators, NEW d \in Dates,
             NEW p \in Prices, CreateBooking(b, u, c, d, p)
      PROVE  Move(b) /\ OthersStay(b)
  <2>1. /\ [client |-> u, creator |-> c, date |-> d, price |-> p] \in Terms
        /\ terms'[b] = [client |-> u, creator |-> c, date |-> d, price |-> p]
        /\ Owner[terms'[b].creator] # terms'[b].client
    BY <1>0, <1>1 DEF Terms, CreateBooking, TypeOK
  <2>2. Edge(b, {"absent"}, "requested", "absent", "absent")
    BY <1>0, <1>1, Beside
    DEF CreateBooking, Exists, Edge, RowAgrees, TypeOK, PaymentStatuses, paymentVars
  <2>3. QED
    BY <1>0, <1>1, <2>1, <2>2
    DEF CreateBooking, Exists, Move, UnpaidMove, OthersStay, TypeOK, paymentVars
<1>2. ASSUME NEW b \in Bookings, NEW u \in Users, AcceptBooking(b, u) \/ RejectBooking(b, u)
      PROVE  Move(b) /\ OthersStay(b)
  <2>1. payStatus[b] = "absent" /\ payStatus' = payStatus
    BY <1>0, <1>2, Beside
    DEF AcceptBooking, MayAccept, RejectBooking, MayReject, RowAgrees, TypeOK,
        PaymentStatuses, paymentVars
  <2>2. UnpaidMove(b)
    BY <1>0, <1>2, <2>1 DEF AcceptBooking, MayAccept, RejectBooking, MayReject,
                            UnpaidMove, Edge, TypeOK
  <2>3. QED
    BY <1>0, <1>2, <2>1, <2>2 DEF AcceptBooking, MayAccept, RejectBooking, MayReject,
                                  Move, OthersStay, TypeOK
<1>3. ASSUME NEW b \in Bookings, NEW u \in Users, NEW k \in Keys, CreatePayment(b, u, k)
      PROVE  Move(b) /\ OthersStay(b)
  BY <1>0, <1>3 DEF CreatePayment, MayCreatePayment, Move, BilledMove, Edge, OthersStay,
                    TypeOK
<1>4. ASSUME NEW b \in Bookings, NEW id \in EventIds, NEW type \in EventTypes,
             ProviderReports(b, id, type)
      PROVE  Move(b) /\ OthersStay(b)
  <2>1. StageEvent(b, id, type, status[b]) /\ type \in {"paid", "failed"}
    BY <1>4 DEF ProviderReports
  <2>2. /\ payStatus' = [payStatus EXCEPT ![b] = payStatus'[b]]
        /\ payStatus[b] = "pending" /\ status[b] = "awaiting_payment"
        /\ \/ payStatus'[b] = "held" /\ status'[b] = "confirmed"
           \/ payStatus'[b] = "failed" /\ status'[b] = "awaiting_payment"
    BY <1>0, <1>4, <2>1, Beside, StageEventMoves DEF ProviderReports, RowAgrees, TypeOK
  <2>3. BilledMove(b)
    BY <2>2 DEF BilledMove, Edge
  <2>4. QED
    BY <1>0, <1>4, <2>2, <2>3 DEF ProviderReports, Move, OthersStay, TypeOK
<1>5. ASSUME NEW b \in Bookings, NEW u \in Users,
             StartBooking(b, u) \/ DeliverBooking(b, u) \/ OpenDispute(b, u)
      PROVE  Move(b) /\ OthersStay(b)
  <2>1. payStatus[b] = "held" /\ payStatus' = payStatus
    BY <1>0, <1>5, Beside
    DEF StartBooking, MayStart, DeliverBooking, MayDeliver, OpenDispute, MayOpenDispute,
        RowAgrees, TypeOK, PaymentStatuses, paymentVars
  <2>2. PaidMove(b)
    BY <1>0, <1>5, <2>1 DEF StartBooking, MayStart, DeliverBooking, MayDeliver,
                            OpenDispute, MayOpenDispute, PaidMove, Edge, TypeOK
  <2>3. QED
    BY <1>0, <1>5, <2>1, <2>2
    DEF StartBooking, MayStart, DeliverBooking, MayDeliver, OpenDispute, MayOpenDispute,
        Move, OthersStay, TypeOK
<1>6. ASSUME NEW b \in Bookings, NEW u \in Users, CompleteBooking(b, u)
      PROVE  Move(b) /\ OthersStay(b)
  <2>1. /\ payStatus' = [payStatus EXCEPT ![b] = payStatus'[b]]
        /\ payStatus[b] = "held" /\ payStatus'[b] = "released"
    BY <1>0, <1>6, StageEventMoves DEF CompleteBooking, MayComplete, EventTypes
  <2>2. SettlingMove(b)
    BY <1>0, <1>6, <2>1 DEF CompleteBooking, MayComplete, SettlingMove, Edge, TypeOK
  <2>3. QED
    BY <1>0, <1>6, <2>1, <2>2 DEF CompleteBooking, MayComplete, Move, OthersStay, TypeOK
<1>7. ASSUME NEW b \in Bookings, NEW u \in Users, CancelBooking(b, u)
      PROVE  Move(b) /\ OthersStay(b)
  <2>1. /\ payStatus' = [payStatus EXCEPT ![b] = payStatus'[b]]
        /\ Move(b)
    <3>1. CASE status[b] \in {"requested", "accepted"}
      BY <1>0, <1>7, <3>1
      DEF CancelBooking, MayCancel, CancelPayment, Move, UnpaidMove, Edge, TypeOK,
          paymentVars
    <3>2. CASE status[b] = "awaiting_payment"
      BY <1>0, <1>7, <3>2 DEF CancelBooking, MayCancel, CancelPayment, Move, BilledMove,
                              Edge, TypeOK
    <3>3. CASE status[b] = "confirmed"
      <4>1. StageEvent(b, ProviderEventId("refunded", b), "refunded", status[b])
        BY <1>7, <3>3 DEF CancelBooking, MayCancel, CancelPayment
      <4>2. /\ payStatus' = [payStatus EXCEPT ![b] = payStatus'[b]]
            /\ payStatus[b] = "held" /\ payStatus'[b] = "refunded"
        BY <1>0, <4>1, StageEventMoves DEF EventTypes
      <4>3. QED
        BY <1>0, <1>7, <3>3, <4>2 DEF CancelBooking, MayCancel, Move, SettlingMove, Edge,
                                      TypeOK
    <3>4. QED
      BY <1>7, <3>1, <3>2, <3>3 DEF CancelBooking, MayCancel, ActiveStatuses
  <2>2. QED
    BY <1>0, <1>7, <2>1 DEF CancelBooking, MayCancel, ActiveStatuses, OthersStay, TypeOK
<1>8. ASSUME NEW b \in Bookings, NEW resolution \in {"resolved_client", "resolved_creator"},
             ResolveDispute(b, resolution)
      PROVE  Move(b) /\ OthersStay(b)
  <2> DEFINE type  == IF resolution = "resolved_client" THEN "refunded" ELSE "released"
             final == IF resolution = "resolved_client" THEN "cancelled" ELSE "completed"
  <2>1. status[b] = "disputed" /\ payStatus[b] = "held" /\ dispute[b] = "open"
    BY <1>0, <1>8, Beside DEF ResolveDispute, MayResolve, ResolvedType, ResolvedStatus,
                              RowAgrees, TypeOK, PaymentStatuses
  <2>2. StageEvent(b, ProviderEventId(type, b), type, final)
    BY <1>8, <2>1 DEF ResolveDispute, MayResolve, ResolvedType, ResolvedStatus
  <2>3. /\ payStatus' = [payStatus EXCEPT ![b] = payStatus'[b]]
        /\ payStatus'[b] = IF resolution = "resolved_client" THEN "refunded" ELSE "released"
    BY <1>0, <2>2, StageEventMoves DEF EventTypes
  <2>4. /\ status' = [status EXCEPT ![b] = final]
        /\ dispute' = [dispute EXCEPT ![b] = resolution]
        /\ terms' = terms
    BY <1>8 DEF ResolveDispute, MayResolve, ResolvedType, ResolvedStatus
  <2>5. SettlingMove(b)
    BY <1>0, <2>1, <2>3, <2>4 DEF SettlingMove, Edge, TypeOK
  <2>6. QED
    BY <1>0, <2>1, <2>3, <2>4, <2>5 DEF Move, OthersStay, TypeOK
<1>9. ASSUME NEW b \in Bookings, NEW u \in Users,
             AddDeliverable(b, u) \/ DeleteDeliverable(b, u) \/ OpenConversation(b, u)
      PROVE  UNCHANGED <<terms, status, payStatus>>
  BY <1>9 DEF AddDeliverable, DeleteDeliverable, OpenConversation, MayOpenConversation,
              bookingVars, paymentVars
<1>10. CASE UNCHANGED vars
  BY <1>10 DEF vars, bookingVars, paymentVars, MovesOneRow
<1>11. CASE Next
  BY <1>1, <1>2, <1>3, <1>4, <1>5, <1>6, <1>7, <1>8, <1>9, <1>11, NextCases DEF MovesOneRow
<1>12. QED
  BY <1>10, <1>11

LEMMA TerminalStep ==
  ASSUME MovesOneRow, NEW b \in Bookings
  PROVE  /\ status[b] \in {"rejected", "completed", "cancelled"} => status'[b] = status[b]
         /\ payStatus[b] \in FinalPaymentStatuses => payStatus'[b] = payStatus[b]
  BY DEF MovesOneRow, Move, UnpaidMove, BilledMove, PaidMove, SettlingMove, Edge, OthersStay,
         FinalPaymentStatuses

(* Concluded bookings and settled payments never change again.             *)
THEOREM ConclusionsAreFinal == Spec => TerminalStaysTerminal
<1>1. EscrowInv /\ [Next]_vars =>
        [\A b \in Bookings :
           /\ status[b] \in {"rejected", "completed", "cancelled"} => status'[b] = status[b]
           /\ payStatus[b] \in FinalPaymentStatuses => payStatus'[b] = payStatus[b]]_vars
  BY StepMoves, TerminalStep
<1>2. QED
  BY <1>1, EscrowInvariant, PTL DEF Spec, TerminalStaysTerminal

LEMMA RefundStep ==
  ASSUME MovesOneRow, NEW b \in Bookings, payStatus[b] = "held", payStatus'[b] = "refunded"
  PROVE  \/ status[b] = "confirmed"
         \/ dispute[b] = "open" /\ dispute'[b] = "resolved_client"
  BY DEF MovesOneRow, Move, UnpaidMove, BilledMove, PaidMove, SettlingMove, Edge, OthersStay

(* After the session has started only a dispute gives money back.          *)
THEOREM RefundsNeedDisputes == Spec => RefundAfterStartNeedsDispute
<1>1. EscrowInv /\ [Next]_vars =>
        [\A b \in Bookings :
           payStatus[b] = "held" /\ payStatus'[b] = "refunded" =>
             \/ status[b] = "confirmed"
             \/ dispute[b] = "open" /\ dispute'[b] = "resolved_client"]_vars
  BY StepMoves, RefundStep
<1>2. QED
  BY <1>1, EscrowInvariant, PTL DEF Spec, RefundAfterStartNeedsDispute
-----------------------------------------------------------------------------
(* A booking that exists has its terms, and nobody booked themselves.      *)
HaveTerms ==
  \A b \in Bookings :
    status[b] # "absent" => terms[b] \in Terms /\ Owner[terms[b].creator] # terms[b].client

SlotInv == EscrowInv /\ HaveTerms /\ OneLiveBookingPerDate

(* The index covers the statuses of live bookings.                         *)
LEMMA LiveBlocksDate ==
  ASSUME TypeOK, NEW b \in Bookings
  PROVE  Live(b) <=> status[b] \in BlocksDate
  BY DEF TypeOK, Live, BlocksDate, BookingStatuses

(* A booking becomes live by the acceptance, which finds the date free.    *)
LEMMA LiveStep ==
  ASSUME TypeOK, NEW b \in Bookings, Move(b), OthersStay(b)
  PROVE  /\ \A other \in Bookings \ {b} : Live(other)' = Live(other)
         /\ Live(b)' => Live(b) \/ (DateFree(b) /\ status[b] = "requested")
         /\ status[b] # "absent" => terms'[b] = terms[b]
<1>1. (\A other \in Bookings \ {b} : Live(other)' = Live(other))
      /\ (status[b] # "absent" => terms'[b] = terms[b])
  BY DEF OthersStay, Live
<1>2. UnpaidMove(b) => (Live(b)' => Live(b) \/ (DateFree(b) /\ status[b] = "requested"))
  BY DEF UnpaidMove, Edge, Live
<1>3. BilledMove(b) \/ PaidMove(b) =>
        (Live(b)' => Live(b) \/ (DateFree(b) /\ status[b] = "requested"))
  BY DEF BilledMove, PaidMove, Edge, Live
<1>4. SettlingMove(b) => (Live(b)' => Live(b) \/ (DateFree(b) /\ status[b] = "requested"))
  BY DEF SettlingMove, Edge, Live
<1>5. Live(b)' => Live(b) \/ (DateFree(b) /\ status[b] = "requested")
  BY <1>2, <1>3, <1>4 DEF Move
<1>6. QED
  BY <1>1, <1>5

LEMMA NextSlots == SlotInv /\ [Next]_vars => SlotInv'
<1> SUFFICES ASSUME SlotInv, [Next]_vars PROVE SlotInv'
  OBVIOUS
<1>1. EscrowInv' /\ TypeOK /\ MovesOneRow
  BY NextEscrow, StepMoves DEF SlotInv, EscrowInv
<1>2. CASE UNCHANGED <<terms, status, payStatus>>
  BY <1>1, <1>2 DEF SlotInv, HaveTerms, OneLiveBookingPerDate, Live, SameSlot
<1>3. ASSUME NEW b \in Bookings, Move(b), OthersStay(b) PROVE SlotInv'
  <2>1. HaveTerms'
    BY <1>3 DEF SlotInv, HaveTerms, OthersStay
  <2>2. /\ \A other \in Bookings \ {b} : Live(other)' = Live(other)
        /\ Live(b)' => Live(b) \/ (DateFree(b) /\ status[b] = "requested")
        /\ status[b] # "absent" => terms'[b] = terms[b]
    BY <1>1, <1>3, LiveStep
  <2>3. ASSUME Live(b)' PROVE terms'[b] = terms[b]
    BY <2>2, <2>3 DEF Live
  <2>4. ASSUME NEW other \in Bookings \ {b}, Live(b)', Live(other), SameSlot(b, other)
        PROVE  FALSE
    <3>1. CASE Live(b)
      BY <2>4, <3>1 DEF SlotInv, OneLiveBookingPerDate
    <3>2. CASE DateFree(b)
      <4>1. status[other] \in BlocksDate
        BY <1>1, <2>4, LiveBlocksDate
      <4>2. QED
        BY <2>4, <3>2, <4>1 DEF DateFree
    <3>3. QED
      BY <2>2, <2>4, <3>1, <3>2
  <2>5. OneLiveBookingPerDate'
    <3>1. SUFFICES ASSUME NEW x \in Bookings, NEW y \in Bookings,
                          Live(x)', Live(y)', SameSlot(x, y)', x # y
                   PROVE  FALSE
      BY DEF OneLiveBookingPerDate
    <3>2. CASE x # b /\ y # b
      BY <1>3, <2>2, <3>1, <3>2 DEF SlotInv, OneLiveBookingPerDate, SameSlot, OthersStay
    <3>3. CASE x = b
      <4>1. Live(y) /\ SameSlot(b, y)
        BY <1>3, <2>2, <2>3, <3>1, <3>3 DEF SameSlot, OthersStay
      <4>2. QED
        BY <2>4, <3>1, <3>3, <4>1
    <3>4. CASE y = b
      <4>1. Live(x) /\ SameSlot(b, x)
        BY <1>3, <2>2, <2>3, <3>1, <3>4 DEF SameSlot, OthersStay
      <4>2. QED
        BY <2>4, <3>1, <3>4, <4>1
    <3>5. QED
      BY <3>2, <3>3, <3>4
  <2>6. QED
    BY <1>1, <2>1, <2>5 DEF SlotInv
<1>4. QED
  BY <1>1, <1>2, <1>3 DEF MovesOneRow

LEMMA SlotInvariant == Spec => []SlotInv
<1>1. Init => SlotInv
  BY InitEscrow DEF Init, SlotInv, HaveTerms, OneLiveBookingPerDate, Live
<1>2. QED
  BY <1>1, NextSlots, PTL DEF Spec

(* A creator never owes two clients the same date.                         *)
THEOREM DatesAreBookedOnce == Spec => []OneLiveBookingPerDate
  BY SlotInvariant, PTL DEF SlotInv
-----------------------------------------------------------------------------
(* The ways a step changes the payments.                                   *)
Bills(b, k) ==
  /\ payStatus[b] = "absent" /\ \A other \in Bookings : payKey[other] # k
  /\ payStatus' = [payStatus EXCEPT ![b] = "pending"]
  /\ payKey' = [payKey EXCEPT ![b] = k]
  /\ events' = events

Expires(b) ==
  /\ payStatus[b] = "pending"
  /\ payStatus' = [payStatus EXCEPT ![b] = "expired"]
  /\ UNCHANGED <<payKey, events>>

Reports(b) ==
  \E id \in EventIds, type \in EventTypes, bookingStatus \in BookingStatuses :
    StageEvent(b, id, type, bookingStatus)

PaymentRowStep ==
  \/ UNCHANGED paymentVars
  \/ \E b \in Bookings : Expires(b) \/ Reports(b) \/ \E k \in Keys : Bills(b, k)

LEMMA StepsOfPayments == TypeOK /\ [Next]_vars => PaymentRowStep
<1> SUFFICES ASSUME TypeOK, [Next]_vars PROVE PaymentRowStep
  OBVIOUS
<1>1. ASSUME NEW b \in Bookings, NEW u \in Users, NEW k \in Keys, CreatePayment(b, u, k)
      PROVE  Bills(b, k)
  BY <1>1 DEF CreatePayment, MayCreatePayment, Bills
<1>2. ASSUME NEW b \in Bookings, NEW id \in EventIds, NEW type \in EventTypes,
             ProviderReports(b, id, type)
      PROVE  Reports(b)
  BY <1>2 DEF ProviderReports, Reports, TypeOK
<1>3. ASSUME NEW b \in Bookings, NEW u \in Users, CompleteBooking(b, u)
      PROVE  Reports(b)
  BY <1>3, ProviderIds DEF CompleteBooking, MayComplete, Reports, EventTypes,
                           BookingStatuses
<1>4. ASSUME NEW b \in Bookings, NEW u \in Users, CancelBooking(b, u)
      PROVE  UNCHANGED paymentVars \/ Expires(b) \/ Reports(b)
  <2>1. CancelPayment(b) /\ (status[b] = "awaiting_payment" => payStatus[b] \in {"pending", "failed"})
    BY <1>4 DEF CancelBooking, MayCancel
  <2>2. CASE StageEvent(b, ProviderEventId("refunded", b), "refunded", status[b])
    BY <2>2, ProviderIds DEF Reports, EventTypes, TypeOK
  <2>3. CASE /\ payStatus[b] \in {"pending", "failed"}
             /\ payStatus' = [payStatus EXCEPT ![b] = IF @ = "pending" THEN "expired" ELSE @]
             /\ UNCHANGED <<payKey, events>>
    BY <2>3 DEF Expires, TypeOK, paymentVars
  <2>4. QED
    BY <2>1, <2>2, <2>3 DEF CancelPayment
<1>5. ASSUME NEW b \in Bookings, NEW resolution \in {"resolved_client", "resolved_creator"},
             ResolveDispute(b, resolution)
      PROVE  UNCHANGED paymentVars \/ Reports(b)
  BY <1>5, ProviderIds DEF ResolveDispute, MayResolve, ResolvedType, ResolvedStatus,
                           Reports, EventTypes, BookingStatuses
<1>6. ASSUME NEW b \in Bookings, NEW u \in Users,
             \/ \E c \in Creators, d \in Dates, p \in Prices : CreateBooking(b, u, c, d, p)
             \/ AcceptBooking(b, u) \/ RejectBooking(b, u)
             \/ StartBooking(b, u) \/ DeliverBooking(b, u) \/ OpenDispute(b, u)
             \/ AddDeliverable(b, u) \/ DeleteDeliverable(b, u) \/ OpenConversation(b, u)
      PROVE  UNCHANGED paymentVars
  BY <1>6
  DEF CreateBooking, AcceptBooking, MayAccept, RejectBooking, MayReject, StartBooking,
      MayStart, DeliverBooking, MayDeliver, OpenDispute, MayOpenDispute, AddDeliverable,
      DeleteDeliverable, OpenConversation, MayOpenConversation
<1>7. CASE UNCHANGED vars
  BY <1>7 DEF vars, PaymentRowStep
<1>8. CASE Next
  BY <1>1, <1>2, <1>3, <1>4, <1>5, <1>6, <1>8, NextCases DEF PaymentRowStep
<1>9. QED
  BY <1>7, <1>8

(* What a staged event finds and leaves.                                   *)
LEMMA StagedEvent ==
  ASSUME TypeOK, NEW b \in Bookings, Reports(b)
  PROVE  \E e \in Events :
           /\ e.payment = b /\ e \notin events /\ \A f \in events : f.id # e.id
           /\ events' = events \cup {e} /\ payKey' = payKey
           /\ payStatus' = [payStatus EXCEPT ![b] = payStatus'[b]]
           /\ \/ e.type = "paid" /\ payStatus[b] = "pending" /\ payStatus'[b] = "held"
              \/ e.type = "failed" /\ payStatus[b] = "pending" /\ payStatus'[b] = "failed"
              \/ e.type = "refunded" /\ payStatus[b] = "held" /\ payStatus'[b] = "refunded"
              \/ e.type = "released" /\ payStatus[b] = "held" /\ payStatus'[b] = "released"
<1>1. PICK id \in EventIds, type \in EventTypes, bookingStatus \in BookingStatuses :
        StageEvent(b, id, type, bookingStatus)
  BY DEF Reports
<1> DEFINE e == [id |-> id, payment |-> b, type |-> type]
<1>2. e \in Events /\ e.id = id /\ e.payment = b /\ e.type = type
  BY DEF Events
<1>3. /\ \A f \in events : f.id # id
      /\ events' = events \cup {e} /\ payKey' = payKey
  BY <1>1 DEF StageEvent, MayStage
<1>4. /\ payStatus' = [payStatus EXCEPT ![b] = payStatus'[b]]
      /\ \/ type = "paid" /\ payStatus[b] = "pending" /\ payStatus'[b] = "held"
         \/ type = "failed" /\ payStatus[b] = "pending" /\ payStatus'[b] = "failed"
         \/ type = "refunded" /\ payStatus[b] = "held" /\ payStatus'[b] = "refunded"
         \/ type = "released" /\ payStatus[b] = "held" /\ payStatus'[b] = "released"
  BY <1>1, StageEventMoves DEF EventTypes
<1>5. e \notin events
  BY <1>2, <1>3
<1> HIDE DEF e
<1>6. QED
  BY <1>2, <1>3, <1>4, <1>5
-----------------------------------------------------------------------------
KeysInv == TypeOK /\ KeysIdentifyPayments

LEMMA NextKeys == KeysInv /\ [Next]_vars => KeysInv'
<1> SUFFICES ASSUME KeysInv, [Next]_vars PROVE KeysIdentifyPayments'
  BY NextTypeOK DEF KeysInv
<1>0. TypeOK /\ KeysIdentifyPayments /\ PaymentRowStep
  BY StepsOfPayments DEF KeysInv
<1>1. CASE UNCHANGED paymentVars
  BY <1>0, <1>1 DEF paymentVars, KeysIdentifyPayments
<1>2. ASSUME NEW b \in Bookings, Expires(b) PROVE KeysIdentifyPayments'
  BY <1>0, <1>2 DEF Expires, KeysIdentifyPayments, TypeOK
<1>3. ASSUME NEW b \in Bookings, Reports(b) PROVE KeysIdentifyPayments'
  BY <1>0, <1>3, StagedEvent DEF KeysIdentifyPayments, TypeOK
<1>4. ASSUME NEW b \in Bookings, NEW k \in Keys, Bills(b, k) PROVE KeysIdentifyPayments'
  BY <1>0, <1>4, ConstantsAssumption DEF Bills, KeysIdentifyPayments, TypeOK
<1>5. QED
  BY <1>0, <1>1, <1>2, <1>3, <1>4 DEF PaymentRowStep

(* An idempotency key never names the payments of two bookings, and every  *)
(* payment has one.                                                        *)
THEOREM KeysAlwaysIdentify == Spec => []KeysIdentifyPayments
<1>1. Init => KeysInv
  BY InitTypeOK DEF Init, KeysInv, KeysIdentifyPayments
<1>2. KeysInv => KeysIdentifyPayments
  BY DEF KeysInv
<1>3. QED
  BY <1>1, <1>2, NextKeys, PTL DEF Spec
-----------------------------------------------------------------------------
EventsInv == TypeOK /\ EventsExplainPayment

(* What the log says of one payment.                                       *)
Explained(b) ==
  /\ HasEvent(b, "paid") <=> payStatus[b] \in {"held", "released", "refunded"}
  /\ HasEvent(b, "failed") <=> payStatus[b] = "failed"
  /\ HasEvent(b, "released") <=> payStatus[b] = "released"
  /\ HasEvent(b, "refunded") <=> payStatus[b] = "refunded"

(* No two events have the same id, or the same payment and type.           *)
Unrepeated ==
  \A e, f \in events : (e.id = f.id \/ (e.payment = f.payment /\ e.type = f.type)) => e = f

LEMMA EventsInTwoParts == EventsExplainPayment <=> Unrepeated /\ \A b \in Bookings : Explained(b)
  BY DEF EventsExplainPayment, Unrepeated, Explained

LEMMA NextEvents == EventsInv /\ [Next]_vars => EventsInv'
<1> SUFFICES ASSUME EventsInv, [Next]_vars PROVE EventsExplainPayment'
  BY NextTypeOK DEF EventsInv
<1>0. TypeOK /\ Unrepeated /\ (\A b \in Bookings : Explained(b)) /\ PaymentRowStep
  BY StepsOfPayments, EventsInTwoParts DEF EventsInv
<1> SUFFICES Unrepeated' /\ (\A b \in Bookings : Explained(b))'
  <2>1. (EventsExplainPayment <=> Unrepeated /\ \A b \in Bookings : Explained(b))'
    BY EventsInTwoParts, PTL
  <2>2. QED
    BY <2>1
<1>1. CASE UNCHANGED paymentVars
  BY <1>0, <1>1 DEF paymentVars, Unrepeated, Explained, HasEvent
<1>2. ASSUME NEW b \in Bookings,
             Expires(b) \/ \E k \in Keys : Bills(b, k)
      PROVE  Unrepeated' /\ (\A other \in Bookings : Explained(other))'
  <2>1. /\ events' = events
        /\ \/ payStatus[b] = "pending" /\ payStatus' = [payStatus EXCEPT ![b] = "expired"]
           \/ payStatus[b] = "absent" /\ payStatus' = [payStatus EXCEPT ![b] = "pending"]
    BY <1>2 DEF Expires, Bills
  <2>2. \A other \in Bookings : \A type : HasEvent(other, type)' = HasEvent(other, type)
    BY <2>1 DEF HasEvent
  <2>3. QED
    BY <1>0, <2>1, <2>2 DEF Unrepeated, Explained, TypeOK
<1>3. ASSUME NEW b \in Bookings, Reports(b)
      PROVE  Unrepeated' /\ (\A other \in Bookings : Explained(other))'
  <2>1. PICK e \in Events :
          /\ e.payment = b /\ e \notin events /\ \A f \in events : f.id # e.id
          /\ events' = events \cup {e} /\ payKey' = payKey
          /\ payStatus' = [payStatus EXCEPT ![b] = payStatus'[b]]
          /\ \/ e.type = "paid" /\ payStatus[b] = "pending" /\ payStatus'[b] = "held"
             \/ e.type = "failed" /\ payStatus[b] = "pending" /\ payStatus'[b] = "failed"
             \/ e.type = "refunded" /\ payStatus[b] = "held" /\ payStatus'[b] = "refunded"
             \/ e.type = "released" /\ payStatus[b] = "held" /\ payStatus'[b] = "released"
    BY <1>0, <1>3, StagedEvent
  <2>2. \A type : HasEvent(b, type)' <=> HasEvent(b, type) \/ type = e.type
    BY <2>1 DEF HasEvent
  <2>3. \A other \in Bookings \ {b} : \A type : HasEvent(other, type)' <=> HasEvent(other, type)
    BY <2>1 DEF HasEvent
  <2>4. ~HasEvent(b, e.type)
    BY <1>0, <2>1 DEF Explained
  <2>5. Unrepeated'
    BY <1>0, <2>1, <2>4 DEF Unrepeated, HasEvent
  <2>6. Explained(b)'
    BY <1>0, <2>1, <2>2 DEF Explained
  <2>7. \A other \in Bookings \ {b} : Explained(other)'
    BY <1>0, <2>1, <2>3 DEF Explained, TypeOK
  <2>8. QED
    BY <2>5, <2>6, <2>7
<1>4. QED
  BY <1>0, <1>1, <1>2, <1>3 DEF PaymentRowStep

(* Every payment is what its events say, and each event happened once.     *)
THEOREM EventsAlwaysExplain == Spec => []EventsExplainPayment
<1>1. Init => EventsInv
  BY InitTypeOK DEF Init, EventsInv, EventsExplainPayment, HasEvent
<1>2. EventsInv => EventsExplainPayment
  BY DEF EventsInv
<1>3. QED
  BY <1>1, <1>2, NextEvents, PTL DEF Spec
-----------------------------------------------------------------------------
(* What the steps do to the rows of one booking, apart from its payment,   *)
(* given that the rows agree: who may deliver, dispute and conclude.       *)
Worked(b) ==
  \/ status[b] = "delivered"
  \/ status[b] = "completed" /\ dispute[b] = "absent"

WorkInv == EscrowInv /\ PaidWorkExists

LEMMA NextWork == WorkInv /\ [Next]_vars => WorkInv'
<1> SUFFICES ASSUME WorkInv, [Next]_vars PROVE PaidWorkExists'
  BY NextEscrow DEF WorkInv
<1>0. TypeOK /\ (\A b \in Bookings : Worked(b) => deliverables[b] > 0)
  BY DEF WorkInv, EscrowInv, PaidWorkExists, Worked
<1> SUFFICES \A b \in Bookings : Worked(b)' => deliverables'[b] > 0
  BY DEF PaidWorkExists, Worked
<1> DEFINE Kept == \A b \in Bookings : Worked(b)' => deliverables'[b] > 0
<1> SUFFICES Kept
  OBVIOUS
<1>1. ASSUME NEW b \in Bookings, NEW u \in Users,
             \/ \E c \in Creators, d \in Dates, p \in Prices : CreateBooking(b, u, c, d, p)
             \/ \E k \in Keys : CreatePayment(b, u, k)
             \/ AcceptBooking(b, u) \/ RejectBooking(b, u) \/ StartBooking(b, u)
             \/ CancelBooking(b, u)
      PROVE  Kept
  <2>1. /\ dispute' = dispute /\ deliverables' = deliverables
        /\ \E s \in BookingStatuses \ {"delivered", "completed"} :
             status' = [status EXCEPT ![b] = s]
    BY <1>1
    DEF CreateBooking, CreatePayment, MayCreatePayment, AcceptBooking, MayAccept,
        RejectBooking, MayReject, StartBooking, MayStart, CancelBooking, MayCancel,
        workspaceVars, BookingStatuses
  <2>2. QED
    BY <1>0, <2>1 DEF Worked, TypeOK
<1>2. ASSUME NEW b \in Bookings, NEW id \in EventIds, NEW type \in EventTypes,
             ProviderReports(b, id, type)
      PROVE  Kept
  BY <1>0, <1>2 DEF ProviderReports, workspaceVars, Worked, TypeOK
<1>3. ASSUME NEW b \in Bookings, NEW u \in Users, DeliverBooking(b, u) PROVE Kept
  BY <1>0, <1>3 DEF DeliverBooking, MayDeliver, Worked, TypeOK
<1>4. ASSUME NEW b \in Bookings, NEW u \in Users, CompleteBooking(b, u) PROVE Kept
  BY <1>0, <1>4 DEF CompleteBooking, MayComplete, Worked, TypeOK
<1>5. ASSUME NEW b \in Bookings, NEW u \in Users, OpenDispute(b, u) PROVE Kept
  BY <1>0, <1>5 DEF OpenDispute, MayOpenDispute, Worked, TypeOK
<1>6. ASSUME NEW b \in Bookings, NEW resolution \in {"resolved_client", "resolved_creator"},
             ResolveDispute(b, resolution)
      PROVE  Kept
  <2>1. /\ deliverables' = deliverables
        /\ dispute' = [dispute EXCEPT ![b] = resolution]
        /\ \E final \in {"cancelled", "completed"} : status' = [status EXCEPT ![b] = final]
    BY <1>6 DEF ResolveDispute, MayResolve, ResolvedType, ResolvedStatus
  <2>2. QED
    BY <1>0, <2>1 DEF Worked, TypeOK
<1>7. ASSUME NEW b \in Bookings, NEW u \in Users,
             AddDeliverable(b, u) \/ DeleteDeliverable(b, u) \/ OpenConversation(b, u)
      PROVE  Kept
  BY <1>0, <1>7, ConstantsAssumption
  DEF AddDeliverable, DeleteDeliverable, OpenConversation, MayOpenConversation,
      bookingVars, Worked, TypeOK
<1>8. CASE UNCHANGED vars
  BY <1>0, <1>8 DEF vars, bookingVars, workspaceVars, Worked
<1> HIDE DEF Kept
<1>9. CASE Next
  BY <1>1, <1>2, <1>3, <1>4, <1>5, <1>6, <1>7, <1>9, NextCases
<1>10. QED
  BY <1>8, <1>9

(* Nobody pays for nothing.                                                *)
THEOREM PaidWorkAlwaysExists == Spec => []PaidWorkExists
<1>1. Init => WorkInv
  BY InitEscrow DEF Init, WorkInv, PaidWorkExists
<1>2. WorkInv => PaidWorkExists
  BY DEF WorkInv
<1>3. QED
  BY <1>1, <1>2, NextWork, PTL DEF Spec
-----------------------------------------------------------------------------
Said(b, kind) == <<b, kind>> \in notices

(* What the messages of one booking claim.                                 *)
Truth(b) ==
  /\ Said(b, "started") \/ Said(b, "delivered") =>
       \/ status[b] \in {"in_progress", "delivered", "completed", "disputed"}
       \/ dispute[b] = "resolved_client"
  /\ Said(b, "delivered") => status[b] # "in_progress"
  /\ Said(b, "completed") => payStatus[b] = "released" /\ ~Said(b, "disputed")
  /\ Said(b, "disputed") => dispute[b] # "absent"
  /\ Said(b, "resolved_client") => payStatus[b] = "refunded"
  /\ Said(b, "resolved_creator") => payStatus[b] = "released"

LEMMA NoticesByBooking == NoticesTellTheTruth <=> \A b \in Bookings : Truth(b)
  BY DEF NoticesTellTheTruth, Truth, Said

(* A posted message is one of its booking, and the others stay.            *)
LEMMA NotifySays ==
  ASSUME NEW b \in Bookings, NEW kind, Notify(b, kind)
  PROVE  /\ \A other \in Bookings : \A k : Said(other, k) => Said(other, k)'
         /\ \A k : Said(b, k)' => Said(b, k) \/ k = kind
         /\ \A other \in Bookings \ {b} : \A k : Said(other, k)' => Said(other, k)
  BY DEF Notify, Said

(* Before the session starts there is nothing to say.                      *)
LEMMA QuietBeforeStart ==
  ASSUME TypeOK, NEW b \in Bookings, RowAgrees(b), Truth(b),
         status[b] \in {"absent", "requested", "accepted", "awaiting_payment", "confirmed"}
  PROVE  \A k \in NoticeKinds : ~Said(b, k)
<1>1. dispute[b] = "absent" /\ payStatus[b] \notin {"released", "refunded"}
  BY Beside DEF RowAgrees, TypeOK, DisputeStatuses
<1>2. QED
  BY <1>1 DEF Truth, NoticeKinds

LEMMA OtherNoticesTrue ==
  ASSUME NEW b \in Bookings, RowStep(b), Truth(b)',
         \A other \in Bookings \ {b} : \A k : Said(other, k)' <=> Said(other, k),
         \A other \in Bookings : Truth(other)
  PROVE  (\A other \in Bookings : Truth(other))'
  BY DEF RowStep, Truth

NoticesInv == EscrowInv /\ NoticesTellTheTruth

LEMMA NextNotices == NoticesInv /\ [Next]_vars => NoticesInv'
<1> SUFFICES ASSUME NoticesInv, [Next]_vars PROVE NoticesTellTheTruth'
  BY NextEscrow DEF NoticesInv
<1>0. TypeOK /\ (\A b \in Bookings : RowAgrees(b) /\ Truth(b))
  BY RowsAgree, NoticesByBooking DEF NoticesInv, EscrowInv
<1> SUFFICES (\A b \in Bookings : Truth(b))'
  <2>1. (NoticesTellTheTruth <=> \A b \in Bookings : Truth(b))'
    BY NoticesByBooking, PTL
  <2>2. QED
    BY <2>1
<1>1. ASSUME NEW b \in Bookings, NEW u,
             \/ \E c \in Creators, d \in Dates, p \in Prices : CreateBooking(b, u, c, d, p)
             \/ \E k \in Keys : CreatePayment(b, u, k)
             \/ \E id \in EventIds, type \in EventTypes : ProviderReports(b, id, type)
             \/ AcceptBooking(b, u) \/ RejectBooking(b, u) \/ CancelBooking(b, u)
      PROVE  (\A other \in Bookings : Truth(other))'
  <2>1. notices' = notices /\ dispute' = dispute
    BY <1>1
    DEF CreateBooking, CreatePayment, MayCreatePayment, ProviderReports, AcceptBooking,
        MayAccept, RejectBooking, MayReject, CancelBooking, MayCancel, workspaceVars
  <2>2. RowStep(b) /\ status[b] \in {"absent", "requested", "accepted", "awaiting_payment", "confirmed"}
    <3>1. CASE \E id \in EventIds, type \in EventTypes : ProviderReports(b, id, type)
      <4>1. PICK id \in EventIds, type \in EventTypes : ProviderReports(b, id, type)
        BY <3>1
      <4>2. StageEvent(b, id, type, status[b]) /\ type \in {"paid", "failed"}
        BY <4>1 DEF ProviderReports
      <4>3. payStatus' = [payStatus EXCEPT ![b] = payStatus'[b]] /\ payStatus[b] = "pending"
        BY <1>0, <4>2, StageEventMoves
      <4>4. status[b] = "awaiting_payment"
        BY <1>0, <4>3, Beside DEF RowAgrees
      <4>5. QED
        BY <1>0, <2>1, <4>1, <4>3, <4>4 DEF ProviderReports, RowStep, TypeOK
    <3>2. CASE CancelBooking(b, u)
      <4>1. payStatus' = [payStatus EXCEPT ![b] = payStatus'[b]]
        <5>1. CASE StageEvent(b, ProviderEventId("refunded", b), "refunded", status[b])
          BY <1>0, <5>1, StageEventMoves DEF EventTypes
        <5>2. QED
          BY <1>0, <3>2, <5>1 DEF CancelBooking, MayCancel, CancelPayment, TypeOK,
                                  paymentVars
      <4>2. QED
        BY <1>0, <2>1, <3>2, <4>1 DEF CancelBooking, MayCancel, ActiveStatuses, RowStep,
                                      TypeOK
    <3>3. QED
      BY <1>0, <1>1, <2>1, <3>1, <3>2
      DEF CreateBooking, CreatePayment, MayCreatePayment, AcceptBooking, MayAccept,
          RejectBooking, MayReject, Exists, paymentVars, RowStep, TypeOK
  <2>3. \A k \in NoticeKinds : ~Said(b, k)
    BY <1>0, <2>2, QuietBeforeStart
  <2>4. \A other \in Bookings : \A k : Said(other, k)' <=> Said(other, k)
    BY <2>1 DEF Said
  <2>5. Truth(b)'
    BY <2>3, <2>4 DEF Truth, NoticeKinds
  <2>6. QED
    BY <1>0, <2>2, <2>4, <2>5, OtherNoticesTrue
<1>2. ASSUME NEW b \in Bookings, NEW u \in Users, StartBooking(b, u)
      PROVE  (\A other \in Bookings : Truth(other))'
  <2>1. /\ Notify(b, "started") /\ RowStep(b)
        /\ status[b] = "confirmed" /\ status'[b] = "in_progress"
    BY <1>0, <1>2 DEF StartBooking, MayStart, RowStep, TypeOK, paymentVars
  <2>2. \A k \in NoticeKinds : ~Said(b, k)
    BY <1>0, <2>1, QuietBeforeStart
  <2>3. Truth(b)'
    BY <2>1, <2>2, NotifySays DEF Truth, NoticeKinds
  <2>4. QED
    BY <1>0, <2>1, <2>3, NotifySays, OtherNoticesTrue
<1>3. ASSUME NEW b \in Bookings, NEW u \in Users, DeliverBooking(b, u)
      PROVE  (\A other \in Bookings : Truth(other))'
  <2>1. /\ Notify(b, "delivered") /\ RowStep(b)
        /\ status'[b] = "delivered" /\ payStatus' = payStatus /\ dispute' = dispute
    BY <1>0, <1>3 DEF DeliverBooking, MayDeliver, RowStep, TypeOK, paymentVars
  <2>2. Truth(b)'
    BY <1>0, <2>1, NotifySays DEF Truth
  <2>3. QED
    BY <1>0, <2>1, <2>2, NotifySays, OtherNoticesTrue
<1>4. ASSUME NEW b \in Bookings, NEW u \in Users, CompleteBooking(b, u)
      PROVE  (\A other \in Bookings : Truth(other))'
  <2>1. /\ payStatus' = [payStatus EXCEPT ![b] = payStatus'[b]]
        /\ payStatus[b] = "held" /\ payStatus'[b] = "released"
    BY <1>0, <1>4, StageEventMoves DEF CompleteBooking, MayComplete, EventTypes
  <2>2. /\ Notify(b, "completed") /\ RowStep(b)
        /\ status[b] = "delivered" /\ status'[b] = "completed" /\ dispute' = dispute
    BY <1>0, <1>4, <2>1 DEF CompleteBooking, MayComplete, RowStep, TypeOK
  <2>3. dispute[b] = "absent"
    BY <1>0, <2>2 DEF RowAgrees, TypeOK, DisputeStatuses
  <2>4. Truth(b)'
    BY <1>0, <2>1, <2>2, <2>3, NotifySays DEF Truth
  <2>5. QED
    BY <1>0, <2>2, <2>4, NotifySays, OtherNoticesTrue
<1>5. ASSUME NEW b \in Bookings, NEW u \in Users, OpenDispute(b, u)
      PROVE  (\A other \in Bookings : Truth(other))'
  <2>1. /\ Notify(b, "disputed") /\ RowStep(b) /\ payStatus' = payStatus
        /\ status[b] \in {"confirmed", "in_progress", "delivered"} /\ status'[b] = "disputed"
        /\ dispute[b] = "absent" /\ dispute'[b] = "open"
    BY <1>0, <1>5 DEF OpenDispute, MayOpenDispute, RowStep, TypeOK, paymentVars
  <2>2. payStatus[b] \notin {"released", "refunded"}
    BY <1>0, <2>1, Beside DEF RowAgrees
  <2>3. Truth(b)'
    BY <1>0, <2>1, <2>2, NotifySays DEF Truth
  <2>4. QED
    BY <1>0, <2>1, <2>3, NotifySays, OtherNoticesTrue
<1>6. ASSUME NEW b \in Bookings, NEW resolution \in {"resolved_client", "resolved_creator"},
             ResolveDispute(b, resolution)
      PROVE  (\A other \in Bookings : Truth(other))'
  <2> DEFINE type  == IF resolution = "resolved_client" THEN "refunded" ELSE "released"
             final == IF resolution = "resolved_client" THEN "cancelled" ELSE "completed"
  <2>1. payStatus[b] = "held" /\ dispute[b] = "open"
    BY <1>0, <1>6, Beside DEF ResolveDispute, MayResolve, ResolvedType, ResolvedStatus,
                              RowAgrees, TypeOK, PaymentStatuses
  <2>2. StageEvent(b, ProviderEventId(type, b), type, final)
    BY <1>6, <2>1 DEF ResolveDispute, MayResolve, ResolvedType, ResolvedStatus
  <2>3. /\ payStatus' = [payStatus EXCEPT ![b] = payStatus'[b]]
        /\ payStatus'[b] = IF resolution = "resolved_client" THEN "refunded" ELSE "released"
    BY <1>0, <2>2, StageEventMoves DEF EventTypes
  <2>4. /\ Notify(b, resolution)
        /\ status' = [status EXCEPT ![b] = final]
        /\ dispute' = [dispute EXCEPT ![b] = resolution]
    BY <1>6 DEF ResolveDispute, MayResolve, ResolvedType, ResolvedStatus
  <2>5. RowStep(b) /\ status'[b] = final /\ dispute'[b] = resolution
    BY <1>0, <2>3, <2>4 DEF RowStep, TypeOK
  <2>6. Truth(b)'
    BY <1>0, <2>1, <2>3, <2>4, <2>5, NotifySays DEF Truth
  <2>7. QED
    BY <1>0, <2>4, <2>5, <2>6, NotifySays, OtherNoticesTrue
<1>7. ASSUME NEW b \in Bookings, NEW u \in Users,
             AddDeliverable(b, u) \/ DeleteDeliverable(b, u) \/ OpenConversation(b, u)
      PROVE  (\A other \in Bookings : Truth(other))'
  BY <1>0, <1>7
  DEF AddDeliverable, DeleteDeliverable, OpenConversation, MayOpenConversation,
      bookingVars, paymentVars, Truth, Said
<1>8. CASE UNCHANGED vars
  BY <1>0, <1>8 DEF vars, bookingVars, paymentVars, workspaceVars, Truth, Said
<1>9. CASE Next
  <2>1. PICK b \in Bookings :
      \/ \E u \in Users, c \in Creators, d \in Dates, p \in Prices :
           CreateBooking(b, u, c, d, p)
      \/ \E u \in Users, k \in Keys : CreatePayment(b, u, k)
      \/ \E id \in EventIds, type \in EventTypes : ProviderReports(b, id, type)
      \/ \E u \in Users :
           \/ AcceptBooking(b, u) \/ RejectBooking(b, u)
           \/ StartBooking(b, u) \/ DeliverBooking(b, u)
           \/ CompleteBooking(b, u)
           \/ CancelBooking(b, u)
           \/ OpenDispute(b, u)
           \/ AddDeliverable(b, u) \/ DeleteDeliverable(b, u) \/ OpenConversation(b, u)
      \/ \E resolution \in {"resolved_client", "resolved_creator"} :
           ResolveDispute(b, resolution)
    BY <1>9, NextCases
  <2>2. CASE \E id \in EventIds, type \in EventTypes : ProviderReports(b, id, type)
    BY <1>1, <2>2
  <2>3. QED
    BY <1>1, <1>2, <1>3, <1>4, <1>5, <1>6, <1>7, <2>1, <2>2
<1>10. QED
  BY <1>8, <1>9

(* The messages in a conversation stay true.                               *)
THEOREM NoticesAlwaysTrue == Spec => []NoticesTellTheTruth
<1>1. Init => NoticesInv
  BY InitEscrow DEF Init, NoticesInv, NoticesTellTheTruth
<1>2. NoticesInv => NoticesTellTheTruth
  BY DEF NoticesInv
<1>3. QED
  BY <1>1, <1>2, NextNotices, PTL DEF Spec
-----------------------------------------------------------------------------
(* What the promise sees of the rows.                                      *)
MoneySeen == [b \in Bookings |-> MoneyOf[payStatus[b]]]
OutcomeSeen == [b \in Bookings |-> OutcomeOf(status[b])]
SlotOf(b) == <<terms[b].creator, terms[b].date>>
HoldersSeen == [s \in Creators \X Dates |-> {b \in Bookings : Live(b) /\ s = SlotOf(b)}]

LEMMA MoneyValues ==
  /\ MoneyOf["absent"] = "none" /\ MoneyOf["pending"] = "due" /\ MoneyOf["held"] = "held"
  /\ MoneyOf["released"] = "creator" /\ MoneyOf["refunded"] = "client"
  /\ MoneyOf["failed"] = "void" /\ MoneyOf["expired"] = "void"
  BY DEF MoneyOf

LEMMA OutcomeValues ==
  /\ OutcomeOf("completed") = "done"
  /\ OutcomeOf("rejected") = "off" /\ OutcomeOf("cancelled") = "off"
  /\ \A s : s \notin {"completed", "rejected", "cancelled"} => OutcomeOf(s) = "open"
  BY DEF OutcomeOf

LEMMA InitPromise == Init => Promise!PromiseInit
  BY MoneyValues, OutcomeValues DEF Init, Promise!PromiseInit, Live

(* A move of b changes what is seen of b only.                             *)
LEMMA SeenStep ==
  ASSUME SlotInv, NEW b \in Bookings, Move(b), OthersStay(b)
  PROVE  /\ MoneySeen' = [MoneySeen EXCEPT ![b] = MoneyOf[payStatus'[b]]]
         /\ OutcomeSeen' = [OutcomeSeen EXCEPT ![b] = OutcomeOf(status'[b])]
         /\ MoneySeen[b] = MoneyOf[payStatus[b]] /\ OutcomeSeen[b] = OutcomeOf(status[b])
  BY DEF MoneySeen, OutcomeSeen, OthersStay

(* A live booking occupies its slot; one that stays live keeps it, one that*)
(* concludes gives it up.                                                  *)
LEMMA HoldersStep ==
  ASSUME SlotInv, NEW b \in Bookings, Move(b), OthersStay(b)
  PROVE  /\ (Live(b)' <=> Live(b)) => HoldersSeen' = HoldersSeen
         /\ ~Live(b)' =>
              HoldersSeen' = [s \in Creators \X Dates |-> HoldersSeen[s] \ {b}]
         /\ ~Live(b) /\ Live(b)' =>
              /\ SlotOf(b) \in Creators \X Dates
              /\ HoldersSeen[SlotOf(b)] = {}
              /\ HoldersSeen' = [HoldersSeen EXCEPT ![SlotOf(b)] = {b}]
         /\ Live(b) => \E s \in Creators \X Dates : b \in HoldersSeen[s]
         /\ ~Live(b) => \A s \in Creators \X Dates : b \notin HoldersSeen[s]
<1>0. TypeOK /\ HaveTerms
  BY DEF SlotInv, EscrowInv
<1>1. /\ \A other \in Bookings \ {b} : Live(other)' = Live(other) /\ SlotOf(other)' = SlotOf(other)
      /\ Live(b) \/ Live(b)' => SlotOf(b)' = SlotOf(b) /\ SlotOf(b) \in Creators \X Dates
      /\ Live(b)' => Live(b) \/ DateFree(b)
  <2>1. /\ \A other \in Bookings \ {b} : Live(other)' = Live(other)
        /\ Live(b)' => Live(b) \/ (DateFree(b) /\ status[b] = "requested")
        /\ status[b] # "absent" => terms'[b] = terms[b]
    BY <1>0, LiveStep
  <2>2. \A other \in Bookings \ {b} : SlotOf(other)' = SlotOf(other)
    BY DEF OthersStay, SlotOf
  <2>3. Live(b) \/ Live(b)' => status[b] # "absent"
    BY <2>1 DEF Live
  <2>4. status[b] # "absent" => SlotOf(b)' = SlotOf(b) /\ SlotOf(b) \in Creators \X Dates
    BY <1>0, <2>1 DEF HaveTerms, Terms, SlotOf
  <2>5. QED
    BY <2>1, <2>2, <2>3, <2>4
<1>2. (Live(b)' <=> Live(b)) => HoldersSeen' = HoldersSeen
  BY <1>1 DEF HoldersSeen
<1>3. ~Live(b)' => HoldersSeen' = [s \in Creators \X Dates |-> HoldersSeen[s] \ {b}]
  BY <1>1 DEF HoldersSeen
<1>4. ASSUME ~Live(b), Live(b)'
      PROVE  /\ SlotOf(b) \in Creators \X Dates
             /\ HoldersSeen[SlotOf(b)] = {}
             /\ HoldersSeen' = [HoldersSeen EXCEPT ![SlotOf(b)] = {b}]
  <2>1. SlotOf(b) \in Creators \X Dates /\ SlotOf(b)' = SlotOf(b) /\ DateFree(b)
    BY <1>1, <1>4
  <2>2. \A other \in Bookings \ {b} : Live(other) => SlotOf(other) # SlotOf(b)
    BY <1>0, <2>1, LiveBlocksDate DEF DateFree, SameSlot, SlotOf
  <2>3. HoldersSeen[SlotOf(b)] = {}
    BY <1>4, <2>1, <2>2 DEF HoldersSeen
  <2>4. ASSUME NEW s \in Creators \X Dates
        PROVE  HoldersSeen'[s] = IF s = SlotOf(b) THEN {b} ELSE HoldersSeen[s]
    BY <1>1, <1>4, <2>1, <2>2 DEF HoldersSeen
  <2>5. HoldersSeen' = [HoldersSeen EXCEPT ![SlotOf(b)] = {b}]
    BY <2>4 DEF HoldersSeen
  <2>6. QED
    BY <2>1, <2>3, <2>5
<1>5. /\ Live(b) => \E s \in Creators \X Dates : b \in HoldersSeen[s]
      /\ ~Live(b) => \A s \in Creators \X Dates : b \notin HoldersSeen[s]
  BY <1>1 DEF HoldersSeen
<1>6. QED
  BY <1>2, <1>3, <1>4, <1>5

(* The actions of the promise, read in what is seen of the rows.           *)
LEMMA PromiseSeen ==
  ASSUME NEW b \in Bookings
  PROVE  /\ \A s \in Creators \X Dates :
              /\ OutcomeSeen[b] = "open" /\ MoneySeen[b] = "none"
              /\ \A slot \in Creators \X Dates : b \notin HoldersSeen[slot]
              /\ HoldersSeen[s] = {}
              /\ HoldersSeen' = [HoldersSeen EXCEPT ![s] = {b}]
              /\ MoneySeen' = MoneySeen /\ OutcomeSeen' = OutcomeSeen
              => Promise!Claim(b, s)
         /\ /\ OutcomeSeen[b] = "open" /\ MoneySeen[b] = "none"
            /\ \E s \in Creators \X Dates : b \in HoldersSeen[s]
            /\ MoneySeen' = [MoneySeen EXCEPT ![b] = "due"]
            /\ OutcomeSeen' = OutcomeSeen /\ HoldersSeen' = HoldersSeen
            => Promise!Bill(b)
         /\ /\ MoneySeen[b] = "due"
            /\ \E s \in Creators \X Dates : b \in HoldersSeen[s]
            /\ MoneySeen' = [MoneySeen EXCEPT ![b] = "held"]
            /\ OutcomeSeen' = OutcomeSeen /\ HoldersSeen' = HoldersSeen
            => Promise!Collect(b)
         /\ /\ MoneySeen[b] = "due"
            /\ MoneySeen' = [MoneySeen EXCEPT ![b] = "void"]
            /\ OutcomeSeen' = OutcomeSeen /\ HoldersSeen' = HoldersSeen
            => Promise!Fail(b)
  BY DEF Promise!Claim, Promise!Bill, Promise!Collect, Promise!Fail, Promise!Holds,
         MoneySeen, OutcomeSeen, HoldersSeen, SlotOf

LEMMA ConclusionSeen ==
  ASSUME NEW b \in Bookings, OutcomeSeen[b] = "open",
         HoldersSeen' = [s \in Creators \X Dates |-> HoldersSeen[s] \ {b}]
  PROVE  /\ /\ MoneySeen[b] \in {"none", "due", "void"}
            /\ MoneySeen' = [MoneySeen EXCEPT ![b] = IF @ = "due" THEN "void" ELSE @]
            /\ OutcomeSeen' = [OutcomeSeen EXCEPT ![b] = "off"]
            => Promise!CallOff(b)
         /\ /\ MoneySeen[b] = "held"
            /\ MoneySeen' = [MoneySeen EXCEPT ![b] = "creator"]
            /\ OutcomeSeen' = [OutcomeSeen EXCEPT ![b] = "done"]
            => Promise!PayOut(b)
         /\ /\ MoneySeen[b] = "held"
            /\ MoneySeen' = [MoneySeen EXCEPT ![b] = "client"]
            /\ OutcomeSeen' = [OutcomeSeen EXCEPT ![b] = "off"]
            => Promise!PayBack(b)
  BY DEF Promise!CallOff, Promise!PayOut, Promise!PayBack, Promise!Vacated,
         MoneySeen, OutcomeSeen, HoldersSeen, SlotOf

LEMMA SeenUnchanged ==
  MoneySeen' = MoneySeen /\ OutcomeSeen' = OutcomeSeen /\ HoldersSeen' = HoldersSeen
  => UNCHANGED Promise!promiseVars
  BY DEF Promise!promiseVars, MoneySeen, OutcomeSeen, HoldersSeen, SlotOf

(* Values that do not change leave the functions as they are.              *)
LEMMA SameValues ==
  ASSUME NEW b \in Bookings
  PROVE  /\ [MoneySeen EXCEPT ![b] = MoneySeen[b]] = MoneySeen
         /\ [OutcomeSeen EXCEPT ![b] = OutcomeSeen[b]] = OutcomeSeen
  BY DEF MoneySeen, OutcomeSeen

LEMMA MovePromise ==
  ASSUME SlotInv, NEW b \in Bookings, Move(b), OthersStay(b)
  PROVE  [Promise!PromiseNext]_(Promise!promiseVars)
<1> DEFINE Step == [Promise!PromiseNext]_(Promise!promiseVars)
<1>1. /\ MoneySeen' = [MoneySeen EXCEPT ![b] = MoneyOf[payStatus'[b]]]
      /\ OutcomeSeen' = [OutcomeSeen EXCEPT ![b] = OutcomeOf(status'[b])]
      /\ MoneySeen[b] = MoneyOf[payStatus[b]] /\ OutcomeSeen[b] = OutcomeOf(status[b])
  BY SeenStep
<1>2. /\ (\E s \in Creators \X Dates : Promise!Claim(b, s)) => Step
      /\ (Promise!Bill(b) \/ Promise!Collect(b) \/ Promise!Fail(b)) => Step
      /\ (Promise!CallOff(b) \/ Promise!PayOut(b) \/ Promise!PayBack(b)) => Step
  BY DEF Promise!PromiseNext
<1>3. UNCHANGED Promise!promiseVars => Step
  OBVIOUS
<1> SUFFICES Step
  OBVIOUS
<1> HIDE DEF Step
<1>4. CASE UnpaidMove(b)
  <2>1. CASE Edge(b, {"absent"}, "requested", "absent", "absent")
    <3>1. MoneySeen' = MoneySeen /\ OutcomeSeen' = OutcomeSeen
      BY <1>1, <2>1, OutcomeValues, SameValues DEF Edge
    <3>2. HoldersSeen' = HoldersSeen
      BY <2>1, HoldersStep DEF Edge, Live
    <3>3. QED
      BY <1>3, <3>1, <3>2, SeenUnchanged
  <2>2. CASE Edge(b, {"requested"}, "accepted", "absent", "absent")
    <3>1. /\ MoneySeen' = MoneySeen /\ OutcomeSeen' = OutcomeSeen
          /\ MoneySeen[b] = "none" /\ OutcomeSeen[b] = "open"
      BY <1>1, <2>2, MoneyValues, OutcomeValues, SameValues DEF Edge
    <3>2. ~Live(b) /\ Live(b)'
      BY <2>2 DEF Edge, Live
    <3>3. PICK s \in Creators \X Dates :
            HoldersSeen[s] = {} /\ HoldersSeen' = [HoldersSeen EXCEPT ![s] = {b}]
      BY <3>2, HoldersStep
    <3>4. \A slot \in Creators \X Dates : b \notin HoldersSeen[slot]
      BY <3>2, HoldersStep
    <3>5. Promise!Claim(b, s)
      BY <3>1, <3>3, <3>4, PromiseSeen
    <3>6. QED
      BY <1>2, <3>5
  <2>3. CASE \/ Edge(b, {"requested"}, "rejected", "absent", "absent")
             \/ Edge(b, {"requested", "accepted"}, "cancelled", "absent", "absent")
    <3>0. /\ payStatus[b] = "absent" /\ payStatus'[b] = "absent"
          /\ status[b] \in {"requested", "accepted"}
          /\ status'[b] \in {"rejected", "cancelled"}
      BY <2>3 DEF Edge
    <3>1. /\ MoneySeen' = MoneySeen /\ OutcomeSeen' = [OutcomeSeen EXCEPT ![b] = "off"]
          /\ MoneySeen[b] = "none" /\ OutcomeSeen[b] = "open"
      <4>1. MoneyOf[payStatus[b]] = "none" /\ MoneyOf[payStatus'[b]] = "none"
        BY <3>0, MoneyValues
      <4>2. OutcomeOf(status[b]) = "open" /\ OutcomeOf(status'[b]) = "off"
        BY <3>0 DEF OutcomeOf
      <4>3. QED
        BY <1>1, <4>1, <4>2, SameValues
    <3>2. ~Live(b)'
      BY <2>3 DEF Edge, Live
    <3>3. MoneySeen' = [MoneySeen EXCEPT ![b] = IF @ = "due" THEN "void" ELSE @]
      BY <3>1, SameValues
    <3>4. Promise!CallOff(b)
      BY <3>1, <3>2, <3>3, HoldersStep, ConclusionSeen
    <3>5. QED
      BY <1>2, <3>4
  <2>4. QED
    BY <1>4, <2>1, <2>2, <2>3 DEF UnpaidMove
<1>5. CASE BilledMove(b)
  <2>1. OutcomeSeen[b] = "open" /\ Live(b)
    BY <1>1, <1>5, OutcomeValues DEF BilledMove, Edge, Live
  <2>2. CASE status'[b] # "cancelled"
    <3>1. OutcomeSeen' = OutcomeSeen /\ Live(b)'
      BY <1>1, <1>5, <2>1, <2>2, OutcomeValues, SameValues DEF BilledMove, Edge, Live
    <3>2. /\ HoldersSeen' = HoldersSeen
          /\ \E s \in Creators \X Dates : b \in HoldersSeen[s]
      BY <2>1, <3>1, HoldersStep
    <3>3. \/ MoneySeen[b] = "none" /\ MoneySeen' = [MoneySeen EXCEPT ![b] = "due"]
          \/ MoneySeen[b] = "due" /\ MoneySeen' = [MoneySeen EXCEPT ![b] = "held"]
          \/ MoneySeen[b] = "due" /\ MoneySeen' = [MoneySeen EXCEPT ![b] = "void"]
      BY <1>1, <1>5, <2>2, MoneyValues DEF BilledMove, Edge
    <3>4. Promise!Bill(b) \/ Promise!Collect(b) \/ Promise!Fail(b)
      BY <2>1, <3>1, <3>2, <3>3, PromiseSeen
    <3>5. QED
      BY <1>2, <3>4
  <2>3. CASE status'[b] = "cancelled"
    <3>1. OutcomeSeen' = [OutcomeSeen EXCEPT ![b] = "off"] /\ ~Live(b)'
      BY <1>1, <2>3, OutcomeValues DEF Live
    <3>2. \/ MoneySeen[b] = "due" /\ MoneySeen' = [MoneySeen EXCEPT ![b] = "void"]
          \/ MoneySeen[b] = "void" /\ MoneySeen' = MoneySeen
      <4>1. \/ payStatus[b] = "pending" /\ payStatus'[b] = "expired"
            \/ payStatus[b] = "failed" /\ payStatus'[b] = "failed"
        BY <1>5, <2>3 DEF BilledMove, Edge
      <4>2. /\ MoneyOf[payStatus'[b]] = "void"
            /\ MoneyOf[payStatus[b]] \in {"due", "void"}
        BY <4>1, MoneyValues
      <4>3. QED
        BY <1>1, <4>2, SameValues
    <3>3. /\ MoneySeen[b] \in {"none", "due", "void"}
          /\ MoneySeen' = [MoneySeen EXCEPT ![b] = IF @ = "due" THEN "void" ELSE @]
      BY <3>2, SameValues
    <3>4. Promise!CallOff(b)
      BY <2>1, <3>1, <3>3, HoldersStep, ConclusionSeen
    <3>5. QED
      BY <1>2, <3>4
  <2>4. QED
    BY <2>2, <2>3
<1>6. CASE PaidMove(b)
  <2>1. /\ MoneySeen' = MoneySeen /\ OutcomeSeen' = OutcomeSeen
        /\ Live(b) /\ Live(b)'
    BY <1>1, <1>6, OutcomeValues, SameValues DEF PaidMove, Edge, Live
  <2>2. QED
    BY <1>3, <2>1, HoldersStep, SeenUnchanged
<1>7. CASE SettlingMove(b)
  <2>1. /\ OutcomeSeen[b] = "open" /\ MoneySeen[b] = "held" /\ ~Live(b)'
        /\ \/ /\ MoneySeen' = [MoneySeen EXCEPT ![b] = "creator"]
              /\ OutcomeSeen' = [OutcomeSeen EXCEPT ![b] = "done"]
           \/ /\ MoneySeen' = [MoneySeen EXCEPT ![b] = "client"]
              /\ OutcomeSeen' = [OutcomeSeen EXCEPT ![b] = "off"]
    BY <1>1, <1>7, MoneyValues, OutcomeValues DEF SettlingMove, Edge, Live
  <2>2. Promise!PayOut(b) \/ Promise!PayBack(b)
    BY <2>1, HoldersStep, ConclusionSeen
  <2>3. QED
    BY <1>2, <2>2
<1>8. QED
  BY <1>4, <1>5, <1>6, <1>7 DEF Move

LEMMA StepPromise == SlotInv /\ [Next]_vars => [Promise!PromiseNext]_(Promise!promiseVars)
<1> SUFFICES ASSUME SlotInv, [Next]_vars
             PROVE  [Promise!PromiseNext]_(Promise!promiseVars)
  OBVIOUS
<1>1. MovesOneRow
  BY StepMoves DEF SlotInv
<1>2. CASE UNCHANGED <<terms, status, payStatus>>
  BY <1>2, SeenUnchanged DEF MoneySeen, OutcomeSeen, HoldersSeen, SlotOf, Live
<1>3. QED
  BY <1>1, <1>2, MovePromise DEF MovesOneRow

(* The services keep the promise: a date is claimed only when it is free,  *)
(* and held money moves once, in the step that concludes its booking.      *)
THEOREM ServicesKeepThePromise == Spec => ImplementsPromise
<1>1. QED
  BY InitPromise, StepPromise, SlotInvariant, PTL DEF Spec, ImplementsPromise, Promise!PromiseSpec
-----------------------------------------------------------------------------
(* An id that no webhook took is free until its own event is staged.       *)
LEMMA KeptIdsAreFree ==
  ASSUME NEW b \in Bookings, NEW type, IdKept(b, type), ~HasEvent(b, type)
  PROVE  \A e \in events : e.id # ProviderEventId(type, b)
BY DEF IdKept, HasEvent

(* The guards of the operations that settle a held payment admit them in   *)
(* every state in which booking, payment, dispute and events agree.        *)
LEMMA SettlementsAreAdmitted ==
  EscrowAgrees /\ DisputeDecidesEscrow /\ EventsExplainPayment /\ TypeOK => HeldMoneyMayMove
<1> SUFFICES ASSUME EscrowAgrees, DisputeDecidesEscrow, EventsExplainPayment, TypeOK,
                    NEW b \in Bookings
             PROVE  /\ status[b] = "confirmed" /\ IdKept(b, "refunded")
                         => MayCancel(b, terms[b].client)
                    /\ status[b] = "delivered" /\ IdKept(b, "released")
                         => MayComplete(b, terms[b].client)
                    /\ \A resolution \in Resolutions :
                         dispute[b] = "open" /\ IdKept(b, ResolvedType(resolution))
                           => MayResolve(b, resolution)
  BY DEF HeldMoneyMayMove
<1>1. status[b] \in {"confirmed", "delivered", "disputed"} => payStatus[b] = "held"
  BY DEF EscrowAgrees, BookingBeside, TypeOK, PaymentStatuses
<1>2. payStatus[b] = "held" => ~HasEvent(b, "refunded") /\ ~HasEvent(b, "released")
  BY DEF EventsExplainPayment
<1>3. CASE status[b] = "confirmed" /\ IdKept(b, "refunded")
  <2>1. MayStage(b, ProviderEventId("refunded", b), "refunded", status[b])
    BY <1>1, <1>2, <1>3, KeptIdsAreFree DEF MayStage, Accepts, FinalPaymentStatuses
  <2>2. QED
    BY <1>1, <1>3, <2>1 DEF MayCancel, IsClient, Exists, ActiveStatuses, DisputeDecidesEscrow
<1>4. CASE status[b] = "delivered" /\ IdKept(b, "released")
  <2>1. MayStage(b, ProviderEventId("released", b), "released", "completed")
    BY <1>1, <1>2, <1>4, KeptIdsAreFree DEF MayStage, Accepts, FinalPaymentStatuses
  <2>2. QED
    BY <1>1, <1>4, <2>1 DEF MayComplete, IsClient, Exists, DisputeDecidesEscrow
<1>5. ASSUME NEW resolution \in Resolutions,
             dispute[b] = "open", IdKept(b, ResolvedType(resolution))
      PROVE  MayResolve(b, resolution)
  <2>1. payStatus[b] = "held"
    BY <1>1, <1>5 DEF DisputeDecidesEscrow
  <2>2. ~HasEvent(b, ResolvedType(resolution))
    BY <1>2, <2>1 DEF ResolvedType
  <2>3. Accepts(payStatus[b], ResolvedType(resolution), ResolvedStatus(resolution))
    BY <2>1 DEF Accepts, FinalPaymentStatuses, ResolvedType, ResolvedStatus
  <2>4. MayStage(b, ProviderEventId(ResolvedType(resolution), b), ResolvedType(resolution),
                 ResolvedStatus(resolution))
    BY <1>5, <2>2, <2>3, KeptIdsAreFree DEF MayStage
  <2>5. QED
    BY <1>5, <2>4 DEF MayResolve
<1>6. QED
  BY <1>3, <1>4, <1>5

(* Money that is held can always be settled: no order of payments, events, *)
(* deliveries and disputes leaves the guards of cancellation, completion   *)
(* and resolution all closed, unless a webhook took a provider's id.       *)
THEOREM HeldMoneyIsNeverTrapped == Spec => []HeldMoneyMayMove
  BY TypeCorrect, EscrowAlwaysAgrees, DisputesDecideEscrow, EventsAlwaysExplain,
     SettlementsAreAdmitted, PTL
=============================================================================
