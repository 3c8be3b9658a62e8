------------------------- MODULE BookingPagesProofs --------------------------
(***************************************************************************)
(* Theorems about PaymentPage and BookingLists over the services, for any  *)
(* bookings, users and keys.                                               *)
(*                                                                         *)
(* Both pages show what they last read.  That they do not fall behind an   *)
(* answer rests on two orders: the services never take a payment or a      *)
(* booking back (PaymentsAdvance, PastIsPast), and the read that ends a    *)
(* mutation was asked for after it (AnswersAreFetched, ReadsFollowActs),   *)
(* since a query that has data gives up the fetch under way when it is     *)
(* invalidated, and an action is only offered where there is data.         *)
(***************************************************************************)
EXTENDS BookingLifecycleProofs, MCBookingPages

(* The order of the payment's statuses.                                    *)
LEMMA PaymentValues ==
  /\ PaymentProgress["absent"] = 0 /\ PaymentProgress["pending"] = 1
  /\ PaymentProgress["held"] = 2
  /\ \A s \in {"released", "refunded", "failed", "expired"} : PaymentProgress[s] = 3
  /\ \A s \in PaymentStatuses : PaymentProgress[s] \in Nat
  /\ \A s \in PaymentStatuses : PaymentProgress[s] >= 1 => s # "absent"
  /\ \A s \in PaymentStatuses : s # "absent" => PaymentProgress[s] >= 1
BY DEF PaymentProgress, PaymentStatuses

(* No step of the services takes a payment back.                           *)
LEMMA PaymentsAdvance ==
  ASSUME EscrowInv, [Next]_vars, NEW b \in Bookings
  PROVE  PaymentProgress[payStatus'[b]] >= PaymentProgress[payStatus[b]]
<1>1. payStatus[b] \in PaymentStatuses
  BY DEF EscrowInv, TypeOK
<1>2. MovesOneRow
  BY StepMoves
<1>3. CASE payStatus'[b] = payStatus[b]
  BY <1>1, <1>3, PaymentValues
<1>4. CASE payStatus'[b] # payStatus[b]
  <2>1. Move(b)
    BY <1>2, <1>4 DEF MovesOneRow, OthersStay
  <2>2. ~UnpaidMove(b) /\ ~PaidMove(b)
    BY <1>4 DEF UnpaidMove, PaidMove, Edge
  <2>3. CASE BilledMove(b)
    BY <1>4, <2>3, PaymentValues DEF BilledMove, Edge
  <2>4. CASE SettlingMove(b)
    BY <1>4, <2>4, PaymentValues DEF SettlingMove, Edge
  <2>5. QED
    BY <2>1, <2>2, <2>3, <2>4 DEF Move
<1>5. QED
  BY <1>3, <1>4

-----------------------------------------------------------------------------
(* What a fetch holds is of its query.                                     *)
FetchedViews ==
  /\ paymentFetching["list"].view \in BookingStatuses
  /\ paymentFetching["payment"].view \in PaymentStatuses

(* The page and its fetch are at most behind the payment; there is one     *)
(* when the page pays or releases it, or has the answer of a mutation.     *)
PageIsBehind ==
  LET now == PaymentProgress[payStatus[ThisBooking]] IN
  /\ PaymentProgress[payment.view] <= now
  /\ PaymentProgress[paymentFetching["payment"].view] <= now
  /\ paymentMutation.phase = "sent" /\ paymentMutation.kind # "create" => now >= 1
  /\ paymentMutation.phase \in {"done", "settling"} =>
       paymentMutation.result # "absent" /\ PaymentProgress[paymentMutation.result] <= now

(* The fetch of the payment that a mutation waits for was asked for after  *)
(* the mutation.                                                           *)
AnswersAreFetched ==
  "payment" \in paymentMutation.waits /\ paymentFetching["payment"].phase = "read" =>
    PaymentProgress[paymentFetching["payment"].view] >= PaymentProgress[paymentMutation.result]

PaymentInductive ==
  EscrowInv /\ PaymentTypeOK /\ FetchedViews /\ PageIsBehind /\ AnswersAreFetched

(* The page's requests are steps of the services.                          *)
LEMMA PaymentIsLifecycle ==
  ASSUME PaymentTypeOK, [PaymentNext]_paymentAllVars
  PROVE  [Next]_vars
<1>1. ThisBooking \in Bookings /\ VisitKey \in Keys /\ viewer \in Users
  BY VisitAssumption DEF PaymentTypeOK
<1>2. CASE PaymentHandle
  <2>1. \/ CreatePayment(ThisBooking, viewer, VisitKey) \/ SimulatePaid(ThisBooking, viewer)
        \/ UNCHANGED vars
    BY <1>2 DEF PaymentHandle
  <2>2. QED
    BY <1>1, <2>1 DEF Next, ClientStep
<1>3. CASE \/ \E q \in Queries : Fetch(q) \/ PaymentFetchReads(q) \/ PaymentFetchResolves(q)
                               \/ PaymentFetchFails(q)
           \/ \E kind \in PaymentKinds : Mutate(kind)
           \/ PaymentSucceeds \/ PaymentFails
  BY <1>3 DEF Fetch, PaymentFetchReads, PaymentFetchResolves, PaymentFetchFails, Mutate,
              PaymentSucceeds, PaymentFails
<1>4. CASE PaymentElsewhere \/ UNCHANGED paymentAllVars
  BY <1>4 DEF PaymentElsewhere, paymentAllVars
<1>5. QED
  BY <1>2, <1>3, <1>4 DEF PaymentNext, PaymentStep

LEMMA InitPayment == PaymentInit => PaymentInductive
<1> SUFFICES ASSUME PaymentInit PROVE PaymentInductive
  OBVIOUS
<1>1. EscrowInv
  BY InitEscrow DEF PaymentInit
<1>2. PaymentTypeOK
  BY DEF PaymentInit, PaymentTypeOK, NoPaymentFetch, NoPaymentMutation, BookingStatuses,
         PaymentStatuses, Queries, PaymentKinds
<1>3. FetchedViews
  BY DEF PaymentInit, FetchedViews, NoPaymentFetch, BookingStatuses, PaymentStatuses, Queries
<1>4. payStatus[ThisBooking] = "absent"
  BY VisitAssumption DEF PaymentInit, Init
<1>5. PageIsBehind /\ AnswersAreFetched
  BY <1>4, PaymentValues
  DEF PaymentInit, PageIsBehind, AnswersAreFetched, NoPaymentFetch, NoPaymentMutation, Queries
<1>6. QED
  BY <1>1, <1>2, <1>3, <1>5 DEF PaymentInductive

PaymentFetches == [phase : {"idle", "asked", "read"}, view : BookingStatuses \cup PaymentStatuses]
PaymentMutations ==
  [kind : PaymentKinds, phase : {"idle", "sent", "done", "settling"},
   result : PaymentStatuses, waits : SUBSET Queries]

LEMMA PaymentFetchValues ==
  /\ NoPaymentFetch \in PaymentFetches /\ NoPaymentFetch.phase = "idle"
  /\ NoPaymentFetch.view = "absent"
  /\ PaymentAsked \in PaymentFetches /\ PaymentAsked.phase = "asked"
  /\ PaymentAsked.view = "absent"
  /\ NoPaymentMutation \in PaymentMutations /\ NoPaymentMutation.phase = "idle"
  /\ NoPaymentMutation.waits = {}
  /\ "absent" \in BookingStatuses /\ "absent" \in PaymentStatuses
BY DEF NoPaymentFetch, PaymentAsked, NoPaymentMutation, PaymentFetches, PaymentMutations,
       BookingStatuses, PaymentStatuses, PaymentKinds

(* The steps of the browser alone.                                         *)
LEMMA PaymentBrowserStep ==
  ASSUME PaymentInductive, UNCHANGED vars, PaymentTypeOK', FetchedViews', PageIsBehind',
         AnswersAreFetched'
  PROVE  PaymentInductive'
<1>1. [Next]_vars
  OBVIOUS
<1>2. QED
  BY <1>1, NextEscrow DEF PaymentInductive

(* The end of a fetch lets go of it alone.                                 *)
LEMMA PaymentSettled ==
  ASSUME PaymentTypeOK, NEW q \in Queries, PaymentSettle(q)
  PROVE  /\ paymentMutation' \in PaymentMutations
         /\ paymentMutation'.waits = paymentMutation.waits \ {q}
         /\ paymentMutation'.phase = "settling" <=> paymentMutation'.waits # {}
         /\ \/ paymentMutation'.phase = "idle"
            \/ /\ paymentMutation'.phase = paymentMutation.phase
               /\ paymentMutation'.kind = paymentMutation.kind
               /\ paymentMutation'.result = paymentMutation.result
<1>1. paymentMutation \in PaymentMutations
      /\ (paymentMutation.phase = "settling" <=> paymentMutation.waits # {})
  BY DEF PaymentTypeOK, PaymentMutations
<1>2. CASE paymentMutation.waits = {q}
  BY <1>2, PaymentFetchValues DEF PaymentSettle
<1>3. CASE paymentMutation.waits # {q}
  <2>1. PICK left \in SUBSET Queries : left = paymentMutation.waits \ {q}
    BY <1>1 DEF PaymentMutations
  <2>2. paymentMutation' = [paymentMutation EXCEPT !.waits = left]
    BY <1>3, <2>1 DEF PaymentSettle
  <2>3. paymentMutation' \in PaymentMutations /\ paymentMutation'.waits = left
        /\ paymentMutation'.phase = paymentMutation.phase
        /\ paymentMutation'.kind = paymentMutation.kind
        /\ paymentMutation'.result = paymentMutation.result
    BY <1>1, <2>2 DEF PaymentMutations
  <2>4. left # {} <=> paymentMutation.waits # {}
    BY <1>3, <2>1
  <2>5. QED
    BY <1>1, <2>1, <2>3, <2>4
<1>4. QED
  BY <1>2, <1>3

LEMMA PaymentFetchSteps ==
  ASSUME PaymentInductive, NEW q \in Queries,
         Fetch(q) \/ PaymentFetchReads(q) \/ PaymentFetchResolves(q) \/ PaymentFetchFails(q)
  PROVE  PaymentInductive'
<1>0. PaymentTypeOK /\ FetchedViews /\ PageIsBehind /\ AnswersAreFetched
  BY DEF PaymentInductive
<1>1. /\ q \in {"list", "payment"} /\ "list" \in Queries /\ "payment" \in Queries
      /\ paymentFetching \in [Queries -> PaymentFetches] /\ paymentMutation \in PaymentMutations
      /\ list \in BookingStatuses
      /\ payment \in [state : {"pending", "success", "missing", "error"}, view : PaymentStatuses]
      /\ status[ThisBooking] \in BookingStatuses /\ payStatus[ThisBooking] \in PaymentStatuses
  BY <1>0, VisitAssumption
  DEF PaymentTypeOK, Queries, PaymentFetches, PaymentMutations, PaymentInductive, EscrowInv, TypeOK
<1>2. ASSUME NEW f \in PaymentFetches,
             paymentFetching' = [paymentFetching EXCEPT ![q] = f], UNCHANGED vars,
             \/ f.view = "absent"
             \/ f.view = IF q = "list" THEN status[ThisBooking] ELSE payStatus[ThisBooking]
      PROVE  /\ paymentFetching' \in [Queries -> PaymentFetches] /\ paymentFetching'[q] = f
             /\ \A p \in Queries \ {q} : paymentFetching'[p] = paymentFetching[p]
             /\ FetchedViews'
             /\ status' = status /\ payStatus' = payStatus
             /\ PaymentProgress[paymentFetching'["payment"].view]
                  <= PaymentProgress[payStatus[ThisBooking]]
  <2>1. paymentFetching' \in [Queries -> PaymentFetches] /\ paymentFetching'[q] = f
        /\ \A p \in Queries \ {q} : paymentFetching'[p] = paymentFetching[p]
    BY <1>1, <1>2
  <2>2. FetchedViews'
    BY <1>0, <1>1, <1>2, <2>1, PaymentFetchValues DEF FetchedViews
  <2>3. status' = status /\ payStatus' = payStatus
    BY <1>2 DEF vars, bookingVars, paymentVars
  <2>4. PaymentProgress[paymentFetching'["payment"].view]
                  <= PaymentProgress[payStatus[ThisBooking]]
    <3>1. CASE q = "list"
      BY <1>0, <1>1, <2>1, <3>1 DEF PageIsBehind
    <3>2. CASE q = "payment"
      BY <1>1, <1>2, <2>1, <3>2, PaymentValues
    <3>3. QED
      BY <1>1, <3>1, <3>2
  <2>5. QED
    BY <2>1, <2>2, <2>3, <2>4
<1>3. CASE Fetch(q)
  <2>1. /\ paymentFetching[q].phase = "idle"
        /\ paymentFetching' = [paymentFetching EXCEPT ![q] = PaymentAsked]
        /\ UNCHANGED <<viewer, list, paymentMutation, vars>>
        /\ payment' = [payment EXCEPT !.state = "pending"] \/ payment' = payment
    BY <1>3 DEF Fetch
  <2>2. /\ payment' \in [state : {"pending", "success", "missing", "error"}, view : PaymentStatuses]
        /\ payment'.view = payment.view
    BY <1>1, <2>1
  <2>3. /\ paymentFetching' \in [Queries -> PaymentFetches] /\ paymentFetching'[q] = PaymentAsked
        /\ \A p \in Queries \ {q} : paymentFetching'[p] = paymentFetching[p]
        /\ FetchedViews'
        /\ status' = status /\ payStatus' = payStatus
        /\ PaymentProgress[paymentFetching'["payment"].view]
             <= PaymentProgress[payStatus[ThisBooking]]
    BY <1>2, <2>1, PaymentFetchValues
  <2>4. PaymentTypeOK'
    BY <1>0, <2>1, <2>2, <2>3, PaymentFetchValues DEF PaymentTypeOK, PaymentFetches
  <2>5. PageIsBehind'
    BY <1>0, <2>1, <2>2, <2>3 DEF PageIsBehind
  <2>6. AnswersAreFetched'
    BY <1>0, <1>1, <2>1, <2>3, PaymentFetchValues DEF AnswersAreFetched, PaymentTypeOK
  <2>7. QED
    BY <2>1, <2>3, <2>4, <2>5, <2>6, PaymentBrowserStep
<1>4. CASE PaymentFetchReads(q)
  <2> DEFINE read == [phase |-> "read",
                      view |-> IF q = "list" THEN status[ThisBooking] ELSE payStatus[ThisBooking]]
  <2>1. /\ paymentFetching[q].phase = "asked"
        /\ paymentFetching' = [paymentFetching EXCEPT ![q] = read]
        /\ UNCHANGED <<viewer, list, payment, paymentMutation, vars>>
    BY <1>4 DEF PaymentFetchReads
  <2>2. read \in PaymentFetches /\ read.phase = "read"
        /\ read.view = (IF q = "list" THEN status[ThisBooking] ELSE payStatus[ThisBooking])
    BY <1>1 DEF PaymentFetches
  <2> HIDE DEF read
  <2>3. /\ paymentFetching' \in [Queries -> PaymentFetches] /\ paymentFetching'[q] = read
        /\ \A p \in Queries \ {q} : paymentFetching'[p] = paymentFetching[p]
        /\ FetchedViews'
        /\ status' = status /\ payStatus' = payStatus
        /\ PaymentProgress[paymentFetching'["payment"].view]
             <= PaymentProgress[payStatus[ThisBooking]]
    BY <1>2, <2>1, <2>2
  <2>4. PaymentTypeOK'
    BY <1>0, <2>1, <2>2, <2>3 DEF PaymentTypeOK, PaymentFetches
  <2>5. PageIsBehind'
    BY <1>0, <2>1, <2>3 DEF PageIsBehind
  <2>6. AnswersAreFetched'
    <3>1. CASE q = "list"
      BY <1>0, <1>1, <2>1, <2>3, <3>1 DEF AnswersAreFetched
    <3>2. CASE q = "payment"
      <4>1. "payment" \in paymentMutation.waits => paymentMutation.phase = "settling"
        BY <1>0 DEF PaymentTypeOK
      <4>2. QED
        BY <1>0, <2>1, <2>2, <2>3, <3>2, <4>1 DEF AnswersAreFetched, PageIsBehind
    <3>3. QED
      BY <1>1, <3>1, <3>2
  <2>7. QED
    BY <2>1, <2>3, <2>4, <2>5, <2>6, PaymentBrowserStep
<1>5. CASE PaymentFetchResolves(q) \/ PaymentFetchFails(q)
  <2>1. /\ paymentFetching[q].phase # "idle"
        /\ paymentFetching' = [paymentFetching EXCEPT ![q] = NoPaymentFetch]
        /\ PaymentSettle(q) /\ UNCHANGED <<viewer, vars>>
    BY <1>5 DEF PaymentFetchResolves, PaymentFetchFails
  <2>2. list' \in BookingStatuses
    BY <1>0, <1>1, <1>5 DEF PaymentFetchResolves, PaymentFetchFails, FetchedViews
  <2>3. /\ payment' \in [state : {"pending", "success", "missing", "error"}, view : PaymentStatuses]
        /\ payment'.view = payment.view \/ payment'.view = paymentFetching["payment"].view
    BY <1>0, <1>1, <1>5 DEF PaymentFetchResolves, PaymentFetchFails, FetchedViews
  <2>4. /\ paymentFetching' \in [Queries -> PaymentFetches] /\ paymentFetching'[q] = NoPaymentFetch
        /\ \A p \in Queries \ {q} : paymentFetching'[p] = paymentFetching[p]
        /\ FetchedViews'
        /\ status' = status /\ payStatus' = payStatus
        /\ PaymentProgress[paymentFetching'["payment"].view]
             <= PaymentProgress[payStatus[ThisBooking]]
    BY <1>2, <2>1, PaymentFetchValues
  <2>5. /\ paymentMutation' \in PaymentMutations
        /\ paymentMutation'.waits = paymentMutation.waits \ {q}
        /\ paymentMutation'.phase = "settling" <=> paymentMutation'.waits # {}
        /\ \/ paymentMutation'.phase = "idle"
           \/ /\ paymentMutation'.phase = paymentMutation.phase
              /\ paymentMutation'.kind = paymentMutation.kind
              /\ paymentMutation'.result = paymentMutation.result
    BY <1>0, <2>1, PaymentSettled
  <2>6. PaymentTypeOK'
    <3>1. \A p \in paymentMutation'.waits : paymentFetching'[p].phase # "idle"
      BY <1>0, <1>1, <2>4, <2>5 DEF PaymentTypeOK, PaymentMutations
    <3>2. QED
      BY <1>0, <2>1, <2>2, <2>3, <2>4, <2>5, <3>1
      DEF PaymentTypeOK, PaymentFetches, PaymentMutations
  <2>7. PageIsBehind'
    BY <1>0, <2>3, <2>4, <2>5 DEF PageIsBehind
  <2>8. AnswersAreFetched'
    <3>1. CASE paymentMutation'.phase = "idle"
      BY <2>5, <3>1 DEF AnswersAreFetched
    <3>2. CASE paymentMutation'.result = paymentMutation.result
      BY <1>0, <1>1, <2>4, <2>5, <3>2 DEF AnswersAreFetched
    <3>3. QED
      BY <2>5, <3>1, <3>2
  <2>9. QED
    BY <2>1, <2>4, <2>6, <2>7, <2>8, PaymentBrowserStep
<1>6. QED
  BY <1>3, <1>4, <1>5

LEMMA PaymentMutationSteps ==
  ASSUME PaymentInductive,
         (\E kind \in PaymentKinds : Mutate(kind)) \/ PaymentSucceeds \/ PaymentFails
  PROVE  PaymentInductive'
<1>0. PaymentTypeOK /\ FetchedViews /\ PageIsBehind /\ AnswersAreFetched
  BY DEF PaymentInductive
<1>1. /\ "list" \in Queries /\ "payment" \in Queries /\ Queries = {"list", "payment"}
      /\ paymentFetching \in [Queries -> PaymentFetches] /\ paymentMutation \in PaymentMutations
      /\ payment \in [state : {"pending", "success", "missing", "error"}, view : PaymentStatuses]
      /\ payStatus[ThisBooking] \in PaymentStatuses
      /\ (paymentMutation.phase = "settling" <=> paymentMutation.waits # {})
  BY <1>0, VisitAssumption
  DEF PaymentTypeOK, Queries, PaymentFetches, PaymentMutations, PaymentInductive, EscrowInv, TypeOK
<1>2. CASE \E kind \in PaymentKinds : Mutate(kind)
  <2>1. PICK kind \in PaymentKinds : Mutate(kind)
    BY <1>2
  <2>2. /\ paymentMutation' = [NoPaymentMutation EXCEPT !.kind = kind, !.phase = "sent"]
        /\ UNCHANGED <<viewer, list, payment, paymentFetching, vars>>
        /\ kind # "create" => payment.view \in {"pending", "held"}
    BY <2>1 DEF Mutate, PaymentOffered, CanSimulatePaid, CanSimulateRelease
  <2>3. /\ paymentMutation' \in PaymentMutations /\ paymentMutation'.phase = "sent"
        /\ paymentMutation'.waits = {} /\ paymentMutation'.kind = kind
    BY <2>2 DEF NoPaymentMutation, PaymentMutations, PaymentStatuses
  <2>4. PaymentTypeOK'
    BY <1>0, <2>2, <2>3 DEF PaymentTypeOK, PaymentMutations
  <2>5. payStatus' = payStatus
    BY <2>2 DEF vars, paymentVars
  <2>6. PageIsBehind'
    <3>1. kind # "create" => PaymentProgress[payment.view] >= 1
      BY <2>2, PaymentValues
    <3>2. PaymentProgress[payment.view] \in Nat /\ PaymentProgress[payStatus[ThisBooking]] \in Nat
      BY <1>1, PaymentValues
    <3>3. QED
      BY <1>0, <2>2, <2>3, <2>5, <3>1, <3>2 DEF PageIsBehind
  <2>7. AnswersAreFetched' /\ FetchedViews'
    BY <1>0, <2>2, <2>3 DEF AnswersAreFetched, FetchedViews
  <2>8. QED
    BY <2>2, <2>4, <2>6, <2>7, PaymentBrowserStep
<1>3. CASE PaymentFails
  <2>1. /\ UNCHANGED <<viewer, list, payment, paymentFetching, vars>>
        /\ paymentMutation' = NoPaymentMutation
    BY <1>3 DEF PaymentFails
  <2>2. PaymentTypeOK'
    BY <1>0, <2>1, PaymentFetchValues DEF PaymentTypeOK, PaymentMutations
  <2>3. payStatus' = payStatus
    BY <2>1 DEF vars, paymentVars
  <2>4. PageIsBehind' /\ AnswersAreFetched' /\ FetchedViews'
    BY <1>0, <2>1, <2>3, PaymentFetchValues DEF PageIsBehind, AnswersAreFetched, FetchedViews
  <2>5. QED
    BY <2>1, <2>2, <2>4, PaymentBrowserStep
<1>4. CASE PaymentSucceeds
  <2> DEFINE answered == [state |-> "success", view |-> paymentMutation.result]
  <2>1. /\ paymentMutation.phase = "done" /\ payment' = answered
        /\ paymentFetching' = [q \in Queries |-> Invalidated(q, answered)]
        /\ paymentMutation' = [paymentMutation EXCEPT !.phase = "settling", !.waits = Queries]
        /\ UNCHANGED <<viewer, list, vars>>
    BY <1>4 DEF PaymentSucceeds
  <2>2. /\ paymentMutation.result # "absent" /\ paymentMutation.result \in PaymentStatuses
        /\ PaymentProgress[paymentMutation.result] <= PaymentProgress[payStatus[ThisBooking]]
    BY <1>0, <1>1, <2>1 DEF PageIsBehind, PaymentMutations
  <2>3. /\ paymentMutation' \in PaymentMutations /\ paymentMutation'.phase = "settling"
        /\ paymentMutation'.waits = Queries /\ paymentMutation'.result = paymentMutation.result
    BY <1>1, <2>1 DEF PaymentMutations
  <2>4. paymentFetching'["payment"] = PaymentAsked
    BY <1>1, <2>1, <2>2 DEF Invalidated, HasData
  <2>5. \/ paymentFetching'["list"] = PaymentAsked
        \/ paymentFetching["list"].phase # "idle" /\ paymentFetching'["list"] = paymentFetching["list"]
    BY <1>1, <2>1 DEF Invalidated
  <2>6. paymentFetching' \in [Queries -> PaymentFetches]
    <3>1. \A q \in Queries : Invalidated(q, answered) \in PaymentFetches
      BY <1>1, PaymentFetchValues DEF Invalidated
    <3>2. QED
      BY <2>1, <3>1
  <2>7. PaymentTypeOK'
    BY <1>0, <1>1, <2>1, <2>2, <2>3, <2>4, <2>5, <2>6, PaymentFetchValues
    DEF PaymentTypeOK, PaymentMutations, PaymentFetches
  <2>8. payStatus' = payStatus
    BY <2>1 DEF vars, paymentVars
  <2>9. FetchedViews'
    BY <1>0, <2>4, <2>5, PaymentFetchValues DEF FetchedViews
  <2>10. PageIsBehind'
    <3>1. PaymentProgress["absent"] = 0 /\ PaymentProgress[payStatus[ThisBooking]] \in Nat
      BY <1>1, PaymentValues
    <3>2. QED
      BY <1>0, <2>1, <2>2, <2>3, <2>4, <2>8, <3>1, PaymentFetchValues DEF PageIsBehind
  <2>11. AnswersAreFetched'
    BY <2>4, PaymentFetchValues DEF AnswersAreFetched
  <2>12. QED
    BY <2>1, <2>7, <2>9, <2>10, <2>11, PaymentBrowserStep
<1>5. QED
  BY <1>2, <1>3, <1>4

(* The requests of the page and those of everybody else.                   *)
LEMMA PaymentRequestSteps ==
  ASSUME PaymentInductive, PaymentHandle \/ PaymentElsewhere \/ UNCHANGED paymentAllVars
  PROVE  PaymentInductive'
<1>0. EscrowInv /\ PaymentTypeOK /\ FetchedViews /\ PageIsBehind /\ AnswersAreFetched
  BY DEF PaymentInductive
<1>1. /\ EscrowInv'
      /\ payStatus[ThisBooking] \in PaymentStatuses /\ payStatus'[ThisBooking] \in PaymentStatuses
      /\ PaymentProgress[payStatus'[ThisBooking]] >= PaymentProgress[payStatus[ThisBooking]]
  <2>1. [Next]_vars
    BY <1>0, PaymentIsLifecycle DEF PaymentNext, PaymentStep
  <2>2. EscrowInv'
    BY <1>0, <2>1, NextEscrow
  <2>3. QED
    BY <1>0, <2>1, <2>2, VisitAssumption, PaymentsAdvance DEF EscrowInv, TypeOK
<1>2. /\ paymentFetching \in [Queries -> PaymentFetches] /\ paymentMutation \in PaymentMutations
      /\ payment.view \in PaymentStatuses /\ paymentFetching["payment"].view \in PaymentStatuses
      /\ (paymentMutation.phase = "settling" <=> paymentMutation.waits # {})
  BY <1>0 DEF PaymentTypeOK, PaymentFetches, PaymentMutations, FetchedViews
<1> DEFINE before == PaymentProgress[payStatus[ThisBooking]]
           after == PaymentProgress[payStatus'[ThisBooking]]
<1>3. /\ before \in Nat /\ after \in Nat /\ before <= after
      /\ PaymentProgress[payment.view] \in Nat
      /\ PaymentProgress[paymentFetching["payment"].view] \in Nat
      /\ PaymentProgress[paymentMutation.result] \in Nat
  BY <1>1, <1>2, PaymentValues DEF PaymentMutations
<1>4. CASE PaymentHandle
  <2>1. /\ paymentMutation.phase = "sent"
        /\ paymentMutation' =
             [paymentMutation EXCEPT !.phase = "done", !.result = payStatus'[ThisBooking]]
        /\ UNCHANGED <<viewer, list, payment, paymentFetching>>
    BY <1>4 DEF PaymentHandle
  <2>2. /\ paymentMutation' \in PaymentMutations /\ paymentMutation'.phase = "done"
        /\ paymentMutation'.waits = {} /\ paymentMutation'.result = payStatus'[ThisBooking]
    BY <1>1, <1>2, <2>1 DEF PaymentMutations
  <2>3. payStatus'[ThisBooking] # "absent"
    <3>1. CASE paymentMutation.kind # "create"
      BY <1>0, <1>1, <1>3, <2>1, <3>1, PaymentValues DEF PageIsBehind
    <3>2. CASE paymentMutation.kind = "create" /\ payStatus[ThisBooking] # "absent"
      BY <1>1, <1>3, <3>2, PaymentValues
    <3>3. CASE CreatePayment(ThisBooking, viewer, VisitKey)
      BY <1>0, <3>3, VisitAssumption DEF CreatePayment, MayCreatePayment, EscrowInv,
                                         TypeOK
    <3>4. QED
      BY <1>4, <3>1, <3>2, <3>3 DEF PaymentHandle
  <2>4. PaymentTypeOK'
    BY <1>0, <2>1, <2>2 DEF PaymentTypeOK, PaymentMutations
  <2>5. PageIsBehind'
    BY <1>0, <1>3, <2>1, <2>2, <2>3 DEF PageIsBehind
  <2>6. AnswersAreFetched' /\ FetchedViews'
    BY <1>0, <2>1, <2>2 DEF AnswersAreFetched, FetchedViews
  <2>7. QED
    BY <1>1, <2>4, <2>5, <2>6 DEF PaymentInductive
<1>5. CASE PaymentElsewhere \/ UNCHANGED paymentAllVars
  <2>1. UNCHANGED paymentPageVars
    BY <1>5 DEF PaymentElsewhere, paymentAllVars
  <2>2. PaymentTypeOK' /\ AnswersAreFetched' /\ FetchedViews'
    BY <1>0, <2>1 DEF paymentPageVars, PaymentTypeOK, AnswersAreFetched, FetchedViews
  <2>3. PageIsBehind'
    BY <1>0, <1>3, <2>1 DEF paymentPageVars, PageIsBehind
  <2>4. QED
    BY <1>1, <2>2, <2>3 DEF PaymentInductive
<1>6. QED
  BY <1>4, <1>5

LEMMA NextPayment ==
  ASSUME PaymentInductive, [PaymentNext]_paymentAllVars
  PROVE  PaymentInductive'
BY PaymentFetchSteps, PaymentMutationSteps, PaymentRequestSteps DEF PaymentNext, PaymentStep

(* AnswerIsNotForgotten without its box.                                   *)
AnswerKept ==
  paymentMutation.phase = "settling"
    /\ "payment" \in paymentMutation.waits \ paymentMutation'.waits
    /\ payment'.state # "error"
    => /\ payment'.state = "success"
       /\ PaymentProgress[payment'.view] >= PaymentProgress[paymentMutation.result]

LEMMA AnswersStay ==
  ASSUME PaymentInductive, [PaymentNext]_paymentAllVars
  PROVE  AnswerKept
<1> SUFFICES ASSUME paymentMutation.phase = "settling",
                    "payment" \in paymentMutation.waits \ paymentMutation'.waits,
                    payment'.state # "error"
             PROVE  /\ payment'.state = "success"
                    /\ PaymentProgress[payment'.view] >= PaymentProgress[paymentMutation.result]
  BY DEF AnswerKept
<1>0. PaymentTypeOK /\ FetchedViews /\ PageIsBehind /\ AnswersAreFetched
  BY DEF PaymentInductive
<1>1. paymentMutation' # paymentMutation
  OBVIOUS
<1>2. ~PaymentHandle /\ ~PaymentSucceeds /\ ~PaymentFails
  BY DEF PaymentHandle, PaymentSucceeds, PaymentFails
<1>3. ~\E kind \in PaymentKinds : Mutate(kind)
  BY DEF Mutate
<1>4. ~PaymentElsewhere /\ ~UNCHANGED paymentAllVars
  BY <1>1 DEF PaymentElsewhere, paymentAllVars, paymentPageVars
<1>5. PICK q \in Queries :
        Fetch(q) \/ PaymentFetchReads(q) \/ PaymentFetchResolves(q) \/ PaymentFetchFails(q)
  BY <1>2, <1>3, <1>4 DEF PaymentNext, PaymentStep
<1>6. ~Fetch(q) /\ ~PaymentFetchReads(q)
  BY <1>1 DEF Fetch, PaymentFetchReads
<1>7. PaymentSettle(q)
  BY <1>5, <1>6 DEF PaymentFetchResolves, PaymentFetchFails
<1>8. q = "payment"
  <2>1. paymentMutation'.waits = paymentMutation.waits \ {q}
    BY <1>0, <1>7, PaymentSettled
  <2>2. QED
    BY <2>1 DEF Queries
<1>9. ~PaymentFetchFails(q)
  BY <1>0, <1>8 DEF PaymentFetchFails, PaymentTypeOK
<1>10. /\ paymentFetching["payment"].phase = "read"
       /\ payment' = IF paymentFetching["payment"].view = "absent"
                        THEN [payment EXCEPT !.state = "missing"]
                        ELSE [state |-> "success", view |-> paymentFetching["payment"].view]
  BY <1>5, <1>6, <1>8, <1>9 DEF PaymentFetchResolves
<1>11. /\ PaymentProgress[paymentFetching["payment"].view] >= PaymentProgress[paymentMutation.result]
       /\ paymentMutation.result # "absent"
       /\ paymentMutation.result \in PaymentStatuses
       /\ paymentFetching["payment"].view \in PaymentStatuses
  BY <1>0, <1>10 DEF AnswersAreFetched, PageIsBehind, FetchedViews, PaymentTypeOK
<1>12. paymentFetching["payment"].view # "absent"
  BY <1>11, PaymentValues
<1>13. QED
  BY <1>10, <1>11, <1>12

(* The page's state and the payment, at every time.                        *)
LEMMA PaymentAlways == PaymentSpec => []PaymentInductive
<1>1. PaymentInit => PaymentInductive
  BY InitPayment
<1>2. PaymentInductive /\ [PaymentNext]_paymentAllVars => PaymentInductive'
  BY NextPayment
<1>3. QED
  BY <1>1, <1>2, PTL DEF PaymentSpec

(* When a mutation of the payment page ends with an answer to its refetch, *)
(* the page shows the payment at or behind what the mutation led to:       *)
(* PaymentSucceeds puts the answer into the cache before it invalidates the*)
(* query, so no older fetch can end the wait.                              *)
THEOREM AnswersAreNotForgotten == PaymentSpec => AnswerIsNotForgotten
<1>1. PaymentInductive /\ [PaymentNext]_paymentAllVars => [AnswerKept]_paymentAllVars
  BY AnswersStay
<1>2. [][AnswerKept]_paymentAllVars => AnswerIsNotForgotten
  BY PTL DEF AnswerKept, AnswerIsNotForgotten
<1>3. QED
  BY <1>1, <1>2, PaymentAlways, PTL DEF PaymentSpec
-----------------------------------------------------------------------------
(* The statuses of which a page offers the action.                         *)
OfferedFor(kind) == IF kind = "cancel" THEN Cancellable ELSE {"requested"}

Past(kind) == BookingStatuses \ (OfferedFor(kind) \cup {"absent"})

(* Nothing takes a booking back to where the action is offered.            *)
LEMMA PastIsPast ==
  ASSUME EscrowInv, [Next]_vars, NEW b \in Bookings, NEW kind \in {"cancel", "accept", "reject"},
         status[b] \in Past(kind)
  PROVE  status'[b] \in Past(kind)
<1>1. MovesOneRow
  BY StepMoves
<1>2. CASE status'[b] = status[b]
  BY <1>2
<1>3. CASE status'[b] # status[b]
  <2>1. Move(b)
    BY <1>1, <1>3 DEF MovesOneRow, OthersStay
  <2>2. CASE UnpaidMove(b)
    BY <2>2 DEF UnpaidMove, Edge, Past, OfferedFor, BookingStatuses, Cancellable
  <2>3. CASE BilledMove(b)
    BY <2>3 DEF BilledMove, Edge, Past, OfferedFor, BookingStatuses, Cancellable
  <2>4. CASE PaidMove(b)
    BY <2>4 DEF PaidMove, Edge, Past, OfferedFor, BookingStatuses, Cancellable
  <2>5. CASE SettlingMove(b)
    BY <2>5 DEF SettlingMove, Edge, Past, OfferedFor, BookingStatuses, Cancellable
  <2>6. QED
    BY <2>1, <2>2, <2>3, <2>4, <2>5 DEF Move
<1>4. QED
  BY <1>2, <1>3

(* An answer, a refusal or a cancellation is of a booking that its list has*)
(* shown.  What it has done stays done, and the fetch of that list that it *)
(* waits for was asked for after it.                                       *)
ActsAreOfRows ==
  mutation.phase # "idle" /\ mutation.kind # "create" =>
    mutation.b \in Bookings /\ query[PageOf(mutation.kind)].view # NoView

OnlySettlingWaits == mutation.waits # {} => mutation.phase = "settling"

ActsAreDone ==
  mutation.phase \in {"done", "settling"} /\ mutation.kind # "create" =>
    status[mutation.b] \in Past(mutation.kind)

ReadsAreLists ==
  \A l \in Lists : fetching[l].phase = "read" => fetching[l].view \in Views

ReadsFollowActs ==
  /\ mutation.kind # "create" /\ PageOf(mutation.kind) \in mutation.waits
  /\ fetching[PageOf(mutation.kind)].phase = "read"
  => fetching[PageOf(mutation.kind)].view[mutation.b] \notin OfferedFor(mutation.kind)

ListsInductive ==
  /\ EscrowInv /\ ListsTypeOK /\ ActsAreOfRows /\ OnlySettlingWaits /\ ActsAreDone
  /\ ReadsAreLists /\ ReadsFollowActs

ListQueries == [view : Views \cup {NoView}, failed : BOOLEAN, fresh : BOOLEAN]
ListFetches == [phase : {"idle", "asked", "read"}, view : Views \cup {NoView}]
ListMutations ==
  [kind : Kinds, phase : {"idle", "sent", "done", "settling"},
   b : Bookings \cup {NoBooking}, waits : SUBSET Lists]

LEMMA ListValues ==
  /\ NoFetch \in ListFetches /\ NoFetch.phase = "idle"
  /\ Asked \in ListFetches /\ Asked.phase = "asked"
  /\ NoMutation \in ListMutations /\ NoMutation.phase = "idle" /\ NoMutation.waits = {}
  /\ NoMutation.kind = "create"
  /\ Lists = {"mine", "incoming"}
  /\ \A kind \in Kinds : PageOf(kind) \in Lists
BY DEF NoFetch, Asked, NoMutation, ListFetches, ListMutations, Lists, Kinds, PageOf

(* The pages' requests are steps of the services.                          *)
LEMMA ListsAreLifecycle ==
  ASSUME ListsTypeOK, ActsAreOfRows, [ListsNext]_listsAllVars
  PROVE  [Next]_vars
<1>1. reader \in Users /\ mutation.kind \in Kinds
  BY DEF ListsTypeOK
<1>2. CASE Handle
  <2>1. CASE \E b \in Bookings, c \in Creators, d \in Dates, p \in Prices :
               CreateBooking(b, reader, c, d, p)
    BY <1>1, <2>1 DEF Next, ClientStep
  <2>2. CASE \/ mutation.kind = "cancel" /\ CancelBooking(mutation.b, reader)
             \/ mutation.kind = "accept" /\ AcceptBooking(mutation.b, reader)
             \/ mutation.kind = "reject" /\ RejectBooking(mutation.b, reader)
    <3>1. mutation.b \in Bookings
      BY <1>2, <2>2 DEF Handle, ActsAreOfRows
    <3>2. QED
      BY <1>1, <2>2, <3>1 DEF Next, SharedStep, CreatorStep
  <2>3. QED
    BY <1>2, <2>1, <2>2 DEF Handle
<1>3. CASE \/ \E r \in Routes : Visit(r)
           \/ \E l \in Lists : GoesStale(l) \/ FetchReads(l) \/ FetchResolves(l) \/ FetchFails(l)
           \/ \E b \in Bookings, kind \in Kinds : Act(kind, b)
           \/ Focus \/ Submit \/ Succeeds \/ Fails \/ Ends
  BY <1>3 DEF Visit, GoesStale, FetchReads, FetchResolves, FetchFails, Act, Focus, Submit,
              Succeeds, Fails, Ends
<1>4. CASE ListsElsewhere \/ UNCHANGED listsAllVars
  BY <1>4 DEF ListsElsewhere, listsAllVars
<1>5. QED
  BY <1>2, <1>3, <1>4 DEF ListsNext, ListsStep

LEMMA InitLists == ListsInit => ListsInductive
<1> SUFFICES ASSUME ListsInit PROVE ListsInductive
  OBVIOUS
<1>1. EscrowInv
  BY InitEscrow DEF ListsInit
<1>2. ListsTypeOK
  BY ListValues DEF ListsInit, ListsTypeOK, ListFetches, ListMutations, Routes
<1>3. ActsAreOfRows /\ OnlySettlingWaits /\ ActsAreDone /\ ReadsAreLists /\ ReadsFollowActs
  BY ListValues
  DEF ListsInit, ActsAreOfRows, OnlySettlingWaits, ActsAreDone, ReadsAreLists, ReadsFollowActs
<1>4. QED
  BY <1>1, <1>2, <1>3 DEF ListsInductive

(* The steps of the browser alone.                                         *)
LEMMA ListsBrowserStep ==
  ASSUME ListsInductive, UNCHANGED vars, ListsTypeOK', ActsAreOfRows', OnlySettlingWaits',
         ActsAreDone', ReadsAreLists', ReadsFollowActs'
  PROVE  ListsInductive'
<1>1. [Next]_vars
  OBVIOUS
<1>2. QED
  BY <1>1, NextEscrow DEF ListsInductive

(* Steps that may ask for lists nobody waits for.                          *)
LEMMA AskingStep ==
  ASSUME ListsInductive, UNCHANGED <<reader, vars>>, route' \in Routes,
         fetching' \in [Lists -> ListFetches],
         \A l \in Lists : fetching'[l] = fetching[l]
                          \/ (fetching[l].phase = "idle" /\ fetching'[l] = Asked),
         query' \in [Lists -> ListQueries],
         \A l \in Lists : query'[l].view = query[l].view,
         mutation' \in ListMutations,
         mutation' = mutation \/ mutation'.waits = {},
         \/ mutation' = mutation
         \/ mutation'.phase = "idle"
         \/ mutation'.phase = "sent" /\ mutation'.kind = "create"
         \/ /\ mutation'.phase = "sent" /\ mutation'.b \in Bookings
            /\ query[PageOf(mutation'.kind)].view # NoView
  PROVE  ListsInductive'
<1>0. /\ ListsTypeOK /\ ActsAreOfRows /\ OnlySettlingWaits /\ ActsAreDone
      /\ ReadsAreLists /\ ReadsFollowActs
  BY DEF ListsInductive
<1>1. /\ mutation \in ListMutations /\ fetching \in [Lists -> ListFetches]
      /\ \A l \in mutation.waits : fetching[l].phase # "idle"
      /\ mutation.kind \in Kinds /\ mutation'.kind \in Kinds /\ mutation.waits \subseteq Lists
  BY <1>0 DEF ListsTypeOK, ListMutations, ListFetches
<1>2. ListsTypeOK'
  <2>1. \A l \in mutation'.waits : fetching'[l].phase # "idle"
    BY <1>1, ListValues
  <2>2. QED
    BY <1>0, <2>1 DEF ListsTypeOK, ListMutations, ListFetches, ListQueries
<1>3. ActsAreOfRows'
  <2>1. query'[PageOf(mutation'.kind)].view = query[PageOf(mutation'.kind)].view
    BY <1>1, ListValues
  <2>2. QED
    BY <1>0, <2>1 DEF ActsAreOfRows
<1>4. OnlySettlingWaits'
  BY <1>0 DEF OnlySettlingWaits
<1>5. status' = status
  BY DEF vars, bookingVars
<1>6. ActsAreDone'
  BY <1>0, <1>5 DEF ActsAreDone
<1>7. ReadsAreLists'
  BY <1>0, ListValues DEF ReadsAreLists
<1>8. ReadsFollowActs'
  <2>1. CASE mutation'.waits = {}
    BY <2>1 DEF ReadsFollowActs
  <2>2. CASE mutation' = mutation
    BY <1>0, <1>1, <2>2, ListValues DEF ReadsFollowActs
  <2>3. QED
    BY <2>1, <2>2
<1>9. QED
  BY <1>2, <1>3, <1>4, <1>6, <1>7, <1>8, ListsBrowserStep

LEMMA MountedAsks ==
  ASSUME ListsTypeOK, NEW r \in Routes
  PROVE  /\ Mounted(r) \in [Lists -> ListFetches]
         /\ \A l \in Lists : Mounted(r)[l] = fetching[l]
                            \/ (fetching[l].phase = "idle" /\ Mounted(r)[l] = Asked)
BY ListValues DEF Mounted, ListsTypeOK, ListFetches

LEMMA PlainSteps ==
  ASSUME ListsInductive,
         \/ \E r \in Routes : Visit(r)
         \/ \E l \in Lists : GoesStale(l)
         \/ \E b \in Bookings, kind \in Kinds : Act(kind, b)
         \/ Focus \/ Submit \/ Fails \/ Ends
  PROVE  ListsInductive'
<1>0. /\ ListsTypeOK /\ ActsAreOfRows /\ OnlySettlingWaits
      /\ mutation \in ListMutations /\ fetching \in [Lists -> ListFetches]
      /\ query \in [Lists -> ListQueries] /\ route \in Routes
  BY DEF ListsInductive, ListsTypeOK, ListMutations, ListFetches, ListQueries
<1>1. CASE \E r \in Routes : Visit(r)
  BY <1>0, <1>1, MountedAsks, AskingStep DEF Visit
<1>2. CASE \E l \in Lists : GoesStale(l)
  <2>1. PICK l \in Lists : GoesStale(l)
    BY <1>2
  <2>2. query' \in [Lists -> ListQueries] /\ \A m \in Lists : query'[m].view = query[m].view
    BY <1>0, <2>1 DEF GoesStale, ListQueries
  <2>3. QED
    BY <1>0, <2>1, <2>2, AskingStep DEF GoesStale
<1>3. CASE \E b \in Bookings, kind \in Kinds : Act(kind, b)
  <2>1. PICK b \in Bookings, kind \in Kinds : Act(kind, b)
    BY <1>3
  <2>2. /\ mutation' = [NoMutation EXCEPT !.kind = kind, !.phase = "sent", !.b = b]
        /\ UNCHANGED <<reader, route, query, fetching, vars>>
        /\ query[PageOf(kind)].view # NoView
    BY <2>1 DEF Act, Offered, CanCancel, CanAnswer, Shown, PageOf
  <2>3. /\ mutation' \in ListMutations /\ mutation'.waits = {} /\ mutation'.phase = "sent"
        /\ mutation'.kind = kind /\ mutation'.b = b
    BY <2>2 DEF NoMutation, ListMutations
  <2>4. QED
    BY <1>0, <2>2, <2>3, AskingStep
<1>4. CASE Focus
  BY <1>0, <1>4, MountedAsks, AskingStep DEF Focus
<1>5. CASE Submit
  <2>1. /\ mutation' \in ListMutations /\ mutation'.waits = {} /\ mutation'.phase = "sent"
        /\ mutation'.kind = "create"
    BY <1>5 DEF Submit, NoMutation, ListMutations, Kinds
  <2>2. QED
    BY <1>0, <1>5, <2>1, AskingStep DEF Submit
<1>6. CASE Fails
  BY <1>0, <1>6, ListValues, AskingStep DEF Fails
<1>7. CASE Ends
  <2>1. "mine" \in Routes
    BY DEF Routes, Lists
  <2>2. /\ route' \in Routes /\ fetching' \in [Lists -> ListFetches]
        /\ \A l \in Lists : fetching'[l] = fetching[l]
                          \/ (fetching[l].phase = "idle" /\ fetching'[l] = Asked)
    BY <1>0, <1>7, <2>1, MountedAsks DEF Ends
  <2>3. QED
    BY <1>0, <1>7, <2>2, ListValues, AskingStep DEF Ends
<1>8. QED
  BY <1>1, <1>2, <1>3, <1>4, <1>5, <1>6, <1>7

(* The end of a fetch lets go of it alone.                                 *)
LEMMA Settled ==
  ASSUME mutation \in ListMutations, NEW l, Settle(l)
  PROVE  /\ mutation' \in ListMutations /\ mutation'.waits = mutation.waits \ {l}
         /\ mutation'.kind = mutation.kind /\ mutation'.phase = mutation.phase
         /\ mutation'.b = mutation.b
<1>1. PICK left \in SUBSET Lists : left = mutation.waits \ {l}
  BY DEF ListMutations
<1>2. mutation' = [mutation EXCEPT !.waits = left]
  BY <1>1 DEF Settle
<1>3. QED
  BY <1>1, <1>2 DEF ListMutations

LEMMA ListFetchSteps ==
  ASSUME ListsInductive, NEW l \in Lists, FetchReads(l) \/ FetchResolves(l) \/ FetchFails(l)
  PROVE  ListsInductive'
<1>0. /\ ListsTypeOK /\ ActsAreOfRows /\ OnlySettlingWaits /\ ActsAreDone
      /\ ReadsAreLists /\ ReadsFollowActs
  BY DEF ListsInductive
<1>1. /\ mutation \in ListMutations /\ fetching \in [Lists -> ListFetches]
      /\ query \in [Lists -> ListQueries]
      /\ \A m \in mutation.waits : fetching[m].phase # "idle"
      /\ mutation.kind \in Kinds /\ PageOf(mutation.kind) \in Lists
      /\ status \in [Bookings -> BookingStatuses]
  BY ListValues, <1>0
  DEF ListsTypeOK, ListMutations, ListFetches, ListQueries, ListsInductive, EscrowInv, TypeOK
<1>2. NoView \notin Views
  BY ListsAssumption DEF Views
<1>3. CASE FetchReads(l)
  <2> DEFINE read == [phase |-> "read", view |-> Listed(l)]
  <2>1. /\ fetching' = [fetching EXCEPT ![l] = read]
        /\ UNCHANGED <<reader, route, query, mutation, vars>>
    BY <1>3 DEF FetchReads
  <2>2. /\ Listed(l) \in Views
        /\ \A b \in Bookings : Listed(l)[b] = status[b] \/ Listed(l)[b] = "absent"
    BY <1>1 DEF Listed, Views, BookingStatuses
  <2>3. read \in ListFetches /\ read.phase = "read" /\ read.view = Listed(l)
    BY <2>2 DEF ListFetches
  <2>4. /\ fetching' \in [Lists -> ListFetches] /\ fetching'[l] = read
        /\ \A m \in Lists \ {l} : fetching'[m] = fetching[m]
    BY <1>1, <2>1, <2>3
  <2> HIDE DEF read
  <2>5. status' = status
    BY <2>1 DEF vars, bookingVars
  <2>6. ListsTypeOK'
    BY <1>0, <2>1, <2>3, <2>4 DEF ListsTypeOK, ListFetches
  <2>7. ActsAreOfRows' /\ OnlySettlingWaits' /\ ActsAreDone'
    BY <1>0, <2>1, <2>5 DEF ActsAreOfRows, OnlySettlingWaits, ActsAreDone
  <2>8. ReadsAreLists'
    BY <1>0, <2>2, <2>3, <2>4 DEF ReadsAreLists
  <2>9. ReadsFollowActs'
    <3>1. CASE PageOf(mutation.kind) # l
      BY <1>0, <1>1, <2>1, <2>4, <3>1 DEF ReadsFollowActs
    <3>2. CASE PageOf(mutation.kind) = l /\ mutation.kind # "create" /\ l \in mutation.waits
      <4>1. mutation.b \in Bookings /\ status[mutation.b] \in Past(mutation.kind)
        BY <1>0, <3>2 DEF ActsAreOfRows, OnlySettlingWaits, ActsAreDone
      <4>2. Listed(l)[mutation.b] \notin OfferedFor(mutation.kind)
        BY <2>2, <4>1 DEF Past, OfferedFor, Cancellable
      <4>3. QED
        BY <2>1, <2>3, <2>4, <3>2, <4>2 DEF ReadsFollowActs
    <3>3. QED
      BY <2>1, <3>1, <3>2 DEF ReadsFollowActs
  <2>10. QED
    BY <2>1, <2>6, <2>7, <2>8, <2>9, ListsBrowserStep
<1>4. CASE FetchResolves(l) \/ FetchFails(l)
  <2>1. /\ fetching[l].phase # "idle" /\ fetching' = [fetching EXCEPT ![l] = NoFetch]
        /\ Settle(l) /\ UNCHANGED <<reader, route, vars>>
    BY <1>4 DEF FetchResolves, FetchFails
  <2>2. /\ fetching' \in [Lists -> ListFetches] /\ fetching'[l] = NoFetch
        /\ \A m \in Lists \ {l} : fetching'[m] = fetching[m]
    BY <1>1, <2>1, ListValues
  <2>3. /\ mutation' \in ListMutations /\ mutation'.waits = mutation.waits \ {l}
        /\ mutation'.kind = mutation.kind /\ mutation'.phase = mutation.phase
        /\ mutation'.b = mutation.b
    BY <1>1, <2>1, Settled
  <2>4. /\ query' \in [Lists -> ListQueries]
        /\ \A m \in Lists : query[m].view # NoView => query'[m].view # NoView
    <3>1. CASE FetchResolves(l)
      <4>1. fetching[l].phase = "read" /\ fetching[l].view \in Views
        BY <1>0, <3>1 DEF FetchResolves, ReadsAreLists
      <4>2. [view |-> fetching[l].view, failed |-> FALSE, fresh |-> TRUE] \in ListQueries
        BY <4>1 DEF ListQueries
      <4>3. QED
        BY <1>1, <1>2, <3>1, <4>1, <4>2 DEF FetchResolves
    <3>2. CASE FetchFails(l)
      BY <1>1, <3>2 DEF FetchFails, ListQueries
    <3>3. QED
      BY <1>4, <3>1, <3>2
  <2>5. ListsTypeOK'
    <3>1. \A m \in mutation'.waits : fetching'[m].phase # "idle"
      BY <1>1, <2>2, <2>3 DEF ListMutations
    <3>2. QED
      BY <1>0, <2>1, <2>2, <2>3, <2>4, <3>1 DEF ListsTypeOK, ListFetches, ListMutations, ListQueries
  <2>6. status' = status
    BY <2>1 DEF vars, bookingVars
  <2>7. ActsAreOfRows'
    BY <1>0, <1>1, <2>3, <2>4 DEF ActsAreOfRows
  <2>8. OnlySettlingWaits' /\ ActsAreDone'
    BY <1>0, <2>3, <2>6 DEF OnlySettlingWaits, ActsAreDone
  <2>9. ReadsAreLists'
    BY <1>0, <2>2, ListValues DEF ReadsAreLists
  <2>10. ReadsFollowActs'
    BY <1>0, <1>1, <2>2, <2>3 DEF ReadsFollowActs
  <2>11. QED
    BY <2>1, <2>5, <2>7, <2>8, <2>9, <2>10, ListsBrowserStep
<1>5. QED
  BY <1>3, <1>4

LEMMA SucceedsStep ==
  ASSUME ListsInductive, Succeeds
  PROVE  ListsInductive'
<1>0. /\ ListsTypeOK /\ ActsAreOfRows /\ OnlySettlingWaits /\ ActsAreDone
      /\ ReadsAreLists /\ ReadsFollowActs
  BY DEF ListsInductive
<1>1. /\ mutation \in ListMutations /\ fetching \in [Lists -> ListFetches]
      /\ query \in [Lists -> ListQueries]
      /\ mutation.kind \in Kinds /\ PageOf(mutation.kind) \in Lists
  BY ListValues, <1>0 DEF ListsTypeOK, ListMutations, ListFetches, ListQueries
<1>2. PICK lists \in SUBSET Lists : lists = Invalidates(mutation.kind)
  BY DEF Invalidates, Lists
<1>3. PICK active \in SUBSET Lists : active = lists \cap {route}
  OBVIOUS
<1>4. /\ mutation.phase = "done"
      /\ query' = [l \in Lists |-> [query[l] EXCEPT !.fresh = query[l].fresh /\ l \notin lists]]
      /\ fetching' = [l \in Lists |-> IF l \in active THEN Refetched(l) ELSE fetching[l]]
      /\ mutation' = [mutation EXCEPT !.phase = "settling", !.waits = active]
      /\ UNCHANGED <<reader, route, vars>>
  BY <1>2, <1>3 DEF Succeeds
<1>5. /\ query' \in [Lists -> ListQueries] /\ \A l \in Lists : query'[l].view = query[l].view
  <2>1. ASSUME NEW l \in Lists
        PROVE  query'[l] \in ListQueries /\ query'[l].view = query[l].view
    <3>1. PICK f \in BOOLEAN : f = (query[l].fresh /\ l \notin lists)
      BY <1>1 DEF ListQueries
    <3>2. query'[l] = [query[l] EXCEPT !.fresh = f]
      BY <1>4, <3>1
    <3>3. QED
      BY <1>1, <3>2 DEF ListQueries
  <2>2. QED
    BY <1>4, <2>1
<1>6. /\ mutation' \in ListMutations /\ mutation'.phase = "settling" /\ mutation'.waits = active
      /\ mutation'.kind = mutation.kind /\ mutation'.b = mutation.b
  BY <1>1, <1>4 DEF ListMutations
<1>7. \A l \in Lists : Refetched(l) \in ListFetches /\ Refetched(l).phase # "idle"
                      /\ (Refetched(l) = fetching[l] \/ Refetched(l) = Asked)
                      /\ (query[l].view # NoView => Refetched(l) = Asked)
  BY <1>1, ListValues DEF Refetched
<1>8. /\ fetching' \in [Lists -> ListFetches]
      /\ \A l \in active : fetching'[l] = Refetched(l)
      /\ \A l \in Lists : fetching'[l] = fetching[l] \/ fetching'[l] = Asked
  BY <1>1, <1>4, <1>7
<1>9. status' = status
  BY <1>4 DEF vars, bookingVars
<1>10. ListsTypeOK'
  BY <1>0, <1>4, <1>5, <1>6, <1>7, <1>8 DEF ListsTypeOK, ListFetches, ListMutations, ListQueries
<1>11. ActsAreOfRows'
  BY <1>0, <1>1, <1>4, <1>5, <1>6 DEF ActsAreOfRows
<1>12. OnlySettlingWaits' /\ ActsAreDone'
  BY <1>0, <1>4, <1>6, <1>9 DEF OnlySettlingWaits, ActsAreDone
<1>13. ReadsAreLists'
  BY <1>0, <1>8, ListValues DEF ReadsAreLists
<1>14. ReadsFollowActs'
  <2>1. CASE mutation.kind # "create" /\ PageOf(mutation.kind) \in active
    <3>1. query[PageOf(mutation.kind)].view # NoView
      BY <1>0, <1>4, <2>1 DEF ActsAreOfRows
    <3>2. fetching'[PageOf(mutation.kind)] = Asked
      BY <1>1, <1>7, <1>8, <2>1, <3>1
    <3>3. QED
      BY <1>6, <3>2, ListValues DEF ReadsFollowActs
  <2>2. QED
    BY <1>6, <2>1 DEF ReadsFollowActs
<1>15. QED
  BY <1>4, <1>10, <1>11, <1>12, <1>13, <1>14, ListsBrowserStep

(* The requests of the pages and those of everybody else.                  *)
LEMMA ListRequestSteps ==
  ASSUME ListsInductive, Handle \/ ListsElsewhere \/ UNCHANGED listsAllVars
  PROVE  ListsInductive'
<1>0. /\ EscrowInv /\ ListsTypeOK /\ ActsAreOfRows /\ OnlySettlingWaits /\ ActsAreDone
      /\ ReadsAreLists /\ ReadsFollowActs
  BY DEF ListsInductive
<1>1. [Next]_vars /\ EscrowInv'
  BY <1>0, ListsAreLifecycle, NextEscrow DEF ListsNext, ListsStep
<1>2. mutation \in ListMutations /\ status \in [Bookings -> BookingStatuses]
  BY <1>0 DEF ListsTypeOK, ListMutations, EscrowInv, TypeOK
<1>3. CASE Handle
  <2>1. mutation.phase = "sent" /\ UNCHANGED <<reader, route, query, fetching>> /\ mutation.waits = {}
    BY <1>0, <1>3 DEF Handle, OnlySettlingWaits
  <2>2. ASSUME mutation' \in ListMutations, mutation'.waits = {}, mutation'.kind = mutation.kind,
               mutation'.phase = "done",
               mutation.kind # "create" =>
                 mutation'.b = mutation.b /\ status'[mutation.b] \in Past(mutation.kind)
        PROVE  ListsInductive'
    <3>1. ListsTypeOK'
      BY <1>0, <2>1, <2>2 DEF ListsTypeOK, ListMutations
    <3>2. ActsAreOfRows' /\ OnlySettlingWaits' /\ ActsAreDone'
      BY <1>0, <2>1, <2>2 DEF ActsAreOfRows, OnlySettlingWaits, ActsAreDone
    <3>3. ReadsAreLists' /\ ReadsFollowActs'
      BY <1>0, <2>1, <2>2 DEF ReadsAreLists, ReadsFollowActs
    <3>4. QED
      BY <1>1, <3>1, <3>2, <3>3 DEF ListsInductive
  <2>3. CASE mutation.kind = "create"
    <3>1. PICK b \in Bookings : mutation' = [mutation EXCEPT !.phase = "done", !.b = b]
      BY <1>3, <2>3 DEF Handle
    <3>2. QED
      BY <1>2, <2>1, <2>2, <2>3, <3>1 DEF ListMutations
  <2>4. CASE mutation.kind # "create"
    <3>1. /\ \/ mutation.kind = "cancel" /\ CancelBooking(mutation.b, reader)
             \/ mutation.kind = "accept" /\ AcceptBooking(mutation.b, reader)
             \/ mutation.kind = "reject" /\ RejectBooking(mutation.b, reader)
          /\ mutation' = [mutation EXCEPT !.phase = "done"] /\ mutation.b \in Bookings
      BY <1>0, <1>3, <2>1, <2>4 DEF Handle, ActsAreOfRows
    <3>2. status'[mutation.b] \in Past(mutation.kind)
      BY <1>2, <3>1
      DEF CancelBooking, MayCancel, AcceptBooking, MayAccept, RejectBooking, MayReject,
          Past, OfferedFor, Cancellable, BookingStatuses
    <3>3. /\ mutation' \in ListMutations /\ mutation'.waits = {} /\ mutation'.kind = mutation.kind
          /\ mutation'.phase = "done" /\ mutation'.b = mutation.b
      BY <1>2, <2>1, <3>1 DEF ListMutations
    <3>4. QED
      BY <2>2, <3>2, <3>3
  <2>5. QED
    BY <2>3, <2>4
<1>4. CASE ListsElsewhere \/ UNCHANGED listsAllVars
  <2>1. UNCHANGED <<reader, route, query, fetching, mutation>>
    BY <1>4 DEF ListsElsewhere, listsAllVars, listsVars
  <2>2. ListsTypeOK' /\ ActsAreOfRows' /\ OnlySettlingWaits' /\ ReadsAreLists' /\ ReadsFollowActs'
    BY <1>0, <2>1
    DEF ListsTypeOK, ActsAreOfRows, OnlySettlingWaits, ReadsAreLists, ReadsFollowActs
  <2>3. ActsAreDone'
    <3>1. CASE mutation.phase \in {"done", "settling"} /\ mutation.kind # "create"
      <4>1. mutation.kind \in {"cancel", "accept", "reject"} /\ mutation.b \in Bookings
        BY <1>0, <1>2, <3>1 DEF ListMutations, Kinds, ActsAreOfRows
      <4>2. status[mutation.b] \in Past(mutation.kind)
        BY <1>0, <3>1 DEF ActsAreDone
      <4>3. status'[mutation.b] \in Past(mutation.kind)
        BY <1>0, <1>1, <4>1, <4>2, PastIsPast
      <4>4. QED
        BY <2>1, <4>3 DEF ActsAreDone
    <3>2. QED
      BY <2>1, <3>1 DEF ActsAreDone
  <2>4. QED
    BY <1>1, <2>2, <2>3 DEF ListsInductive
<1>5. QED
  BY <1>3, <1>4

LEMMA NextLists ==
  ASSUME ListsInductive, [ListsNext]_listsAllVars
  PROVE  ListsInductive'
BY PlainSteps, ListFetchSteps, SucceedsStep, ListRequestSteps DEF ListsNext, ListsStep

(* DoneIsNotOfferedAgain without its box.                                  *)
NotOfferedAgain ==
  /\ mutation.kind # "create"
  /\ PageOf(mutation.kind) \in mutation.waits \ mutation'.waits
  /\ ~query'[PageOf(mutation.kind)].failed
  => ~Offered(mutation.kind, mutation.b)'

LEMMA ActsAreNotOffered ==
  ASSUME ListsInductive, [ListsNext]_listsAllVars
  PROVE  NotOfferedAgain
<1> SUFFICES ASSUME mutation.kind # "create",
                    PageOf(mutation.kind) \in mutation.waits \ mutation'.waits,
                    ~query'[PageOf(mutation.kind)].failed
             PROVE  ~Offered(mutation.kind, mutation.b)'
  BY DEF NotOfferedAgain
<1>0. /\ ListsTypeOK /\ OnlySettlingWaits /\ ReadsFollowActs
      /\ mutation \in ListMutations /\ query \in [Lists -> ListQueries]
  BY DEF ListsInductive, ListsTypeOK, ListMutations, ListQueries
<1>1. mutation' # mutation /\ mutation.phase = "settling" /\ mutation.waits # {}
  BY <1>0 DEF OnlySettlingWaits
<1>2. ~Handle /\ ~Succeeds /\ ~Fails /\ ~Submit /\ ~Ends /\ ~Focus
  BY <1>1 DEF Handle, Succeeds, Fails, Submit, Ends, Focus
<1>3. /\ ~\E b \in Bookings, kind \in Kinds : Act(kind, b)
      /\ ~\E r \in Routes : Visit(r)
  BY <1>1 DEF Act, Visit
<1>4. ~ListsElsewhere /\ ~UNCHANGED listsAllVars
  BY <1>1 DEF ListsElsewhere, listsAllVars, listsVars
<1>5. PICK l \in Lists : GoesStale(l) \/ FetchReads(l) \/ FetchResolves(l) \/ FetchFails(l)
  BY <1>2, <1>3, <1>4 DEF ListsNext, ListsStep
<1>6. FetchResolves(l) \/ FetchFails(l)
  BY <1>1, <1>5 DEF GoesStale, FetchReads
<1>7. /\ l = PageOf(mutation.kind) /\ mutation'.kind = mutation.kind /\ mutation'.b = mutation.b
  <2>1. Settle(l)
    BY <1>6 DEF FetchResolves, FetchFails
  <2>2. QED
    BY <1>0, <2>1, Settled
<1>8. ~FetchFails(l)
  BY <1>0, <1>7 DEF FetchFails, ListQueries
<1>9. fetching[l].phase = "read" /\ query'[l].view = fetching[l].view
  BY <1>0, <1>6, <1>8 DEF FetchResolves
<1>10. query'[l].view[mutation.b] \notin OfferedFor(mutation.kind)
  BY <1>0, <1>7, <1>9 DEF ReadsFollowActs
<1>11. QED
  BY <1>7, <1>10 DEF Offered, CanCancel, CanAnswer, OfferedFor, PageOf

(* The pages' state and the bookings, at every time.                       *)
LEMMA ListsAlways == ListsSpec => []ListsInductive
<1>1. ListsInit => ListsInductive
  BY InitLists
<1>2. ListsInductive /\ [ListsNext]_listsAllVars => ListsInductive'
  BY NextLists
<1>3. QED
  BY <1>1, <1>2, PTL DEF ListsSpec

(* When the list of an action was read after its success, the page does not*)
(* offer the action for that booking a second time.                        *)
THEOREM ActsAreNotOfferedAgain == ListsSpec => DoneIsNotOfferedAgain
<1>1. ListsInductive /\ [ListsNext]_listsAllVars => [NotOfferedAgain]_listsAllVars
  BY ActsAreNotOffered
<1>2. [][NotOfferedAgain]_listsAllVars => DoneIsNotOfferedAgain
  BY PTL DEF NotOfferedAgain, DoneIsNotOfferedAgain
<1>3. QED
  BY <1>1, <1>2, ListsAlways, PTL DEF ListsSpec

(* Neither page goes back behind an answer it was given.                   *)
THEOREM PagesKeepAnswers == PaymentSpec /\ ListsSpec => DoneStaysDone
BY AnswersAreNotForgotten, ActsAreNotOfferedAgain DEF DoneStaysDone

-----------------------------------------------------------------------------
(* An answer shows a payment.  This alone is inductive with PaymentInductive*)
(* (a mutation's answer is never "absent"), and PageIsBehind says the       *)
(* converse: while there is no payment, the page has none.                  *)
ShownPaymentsExist == payment.state = "success" => payment.view # "absent"

LEMMA NextShown ==
  ASSUME PaymentInductive, ShownPaymentsExist, [PaymentNext]_paymentAllVars
  PROVE  ShownPaymentsExist'
<1>0. /\ payment \in [state : {"pending", "success", "missing", "error"}, view : PaymentStatuses]
      /\ PageIsBehind
  BY DEF PaymentInductive, PaymentTypeOK
<1>1. CASE UNCHANGED payment
  BY <1>1 DEF ShownPaymentsExist
<1>2. CASE \E q \in Queries : Fetch(q) \/ PaymentFetchResolves(q) \/ PaymentFetchFails(q)
  <2>1. \/ payment' = payment
        \/ payment'.state # "success"
        \/ payment'.view # "absent"
    BY <1>0, <1>2 DEF Fetch, PaymentFetchResolves, PaymentFetchFails
  <2>2. QED
    BY <2>1 DEF ShownPaymentsExist
<1>3. CASE PaymentSucceeds
  BY <1>0, <1>3 DEF PaymentSucceeds, PageIsBehind, ShownPaymentsExist
<1>4. QED
  BY <1>1, <1>2, <1>3
  DEF PaymentNext, PaymentStep, PaymentElsewhere, paymentAllVars, paymentPageVars,
      PaymentFetchReads, Mutate, PaymentHandle, PaymentFails

LEMMA ShownAlways == PaymentSpec => []ShownPaymentsExist
<1>1. PaymentInit => ShownPaymentsExist
  BY DEF PaymentInit, ShownPaymentsExist
<1>2. PaymentInductive /\ ShownPaymentsExist /\ [PaymentNext]_paymentAllVars
        => ShownPaymentsExist'
  BY NextShown
<1>3. QED
  BY <1>1, <1>2, PaymentAlways, PTL DEF PaymentSpec

(* What an up to date page shows: the payment, or that there is none.      *)
LEMMA CurrentPaymentIsShown ==
  ASSUME PaymentInductive, ShownPaymentsExist, PaymentCurrent
  PROVE  /\ payment.view = payStatus[ThisBooking] /\ list = status[ThisBooking]
         /\ status[ThisBooking] # "absent"
         /\ NotCreated <=> payStatus[ThisBooking] = "absent"
<1>1. /\ payment.view \in PaymentStatuses /\ payStatus[ThisBooking] \in PaymentStatuses
      /\ PaymentProgress[payment.view] <= PaymentProgress[payStatus[ThisBooking]]
  BY VisitAssumption
  DEF PaymentInductive, PaymentTypeOK, EscrowInv, TypeOK, PageIsBehind
<1>2. payStatus[ThisBooking] = "absent" => payment.view = "absent"
  BY <1>1, PaymentValues
<1>3. QED
  BY <1>2 DEF PaymentCurrent, Details, PaymentShown, NotCreated, ShownPaymentsExist

LEMMA PaymentOffersAgree ==
  ASSUME PaymentInductive, ShownPaymentsExist, EventsExplainPayment, KeysIdentifyPayments
  PROVE  PaymentOffersMatch
<1> SUFFICES ASSUME PaymentCurrent
             PROVE  /\ terms[ThisBooking].price > 0 /\ KeyIsFresh =>
                         (CanCreate <=> MayCreatePayment(ThisBooking, viewer, VisitKey))
                    /\ IdKept(ThisBooking, "paid") =>
                         (CanSimulatePaid <=> MaySimulatePaid(ThisBooking, viewer))
                    /\ ~CanSimulateRelease
  BY DEF PaymentOffersMatch
<1>1. /\ payment.view = payStatus[ThisBooking] /\ list = status[ThisBooking]
      /\ status[ThisBooking] # "absent"
      /\ NotCreated <=> payStatus[ThisBooking] = "absent"
  BY CurrentPaymentIsShown
<1>2. ~IsIncoming <=> IsClient(ThisBooking, viewer)
  BY <1>1 DEF IsIncoming, IsClient, Exists
<1>3. ASSUME terms[ThisBooking].price > 0, KeyIsFresh
      PROVE  CanCreate <=> MayCreatePayment(ThisBooking, viewer, VisitKey)
  <2>1. payStatus[ThisBooking] = "absent" => \A b \in Bookings : payKey[b] # VisitKey
    BY <1>3, VisitAssumption, ConstantsAssumption DEF KeyIsFresh, KeysIdentifyPayments
  <2>2. QED
    BY <1>1, <1>2, <1>3, <2>1 DEF CanCreate, MayCreatePayment
<1>4. ASSUME IdKept(ThisBooking, "paid")
      PROVE  CanSimulatePaid <=> MaySimulatePaid(ThisBooking, viewer)
  <2>1. payStatus[ThisBooking] = "pending" =>
          \A e \in events : e.id # ProviderEventId("paid", ThisBooking)
    BY <1>4, VisitAssumption, KeptIdsAreFree DEF EventsExplainPayment
  <2>2. Accepts(payStatus[ThisBooking], "paid", status[ThisBooking])
          <=> payStatus[ThisBooking] = "pending" /\ status[ThisBooking] = "awaiting_payment"
    BY DEF Accepts, FinalPaymentStatuses
  <2>3. QED
    BY <1>1, <1>2, <2>1, <2>2 DEF CanSimulatePaid, MaySimulatePaid, MayStage
<1>5. ~CanSimulateRelease
  <2>1. status[ThisBooking] \in BookingBeside[payStatus[ThisBooking]]
    BY VisitAssumption DEF PaymentInductive, EscrowInv, EscrowAgrees
  <2>2. QED
    BY <1>1, <2>1 DEF CanSimulateRelease, BookingBeside
<1>6. QED
  BY <1>3, <1>4, <1>5

(* What the services admit of a booking whose rows agree.                  *)
LEMMA CancellableIsCancelled ==
  ASSUME EscrowInv, EventsExplainPayment, NEW b \in Bookings, IdKept(b, "refunded"),
         IsClient(b, reader)
  PROVE  MayCancel(b, reader) <=> status[b] \in Cancellable
<1>1. status[b] \in BookingBeside[payStatus[b]] /\ payStatus[b] \in PaymentStatuses
  BY DEF EscrowInv, EscrowAgrees, TypeOK
<1>2. /\ status[b] \in {"requested", "accepted"} => payStatus[b] = "absent"
      /\ status[b] = "awaiting_payment" => payStatus[b] \in {"pending", "failed"}
      /\ status[b] = "confirmed" => payStatus[b] = "held"
  BY <1>1 DEF BookingBeside, PaymentStatuses
<1>3. payStatus[b] = "held" =>
        MayStage(b, ProviderEventId("refunded", b), "refunded", status[b])
  <2>1. payStatus[b] = "held" => \A e \in events : e.id # ProviderEventId("refunded", b)
    BY KeptIdsAreFree DEF EventsExplainPayment
  <2>2. QED
    BY <2>1 DEF MayStage, Accepts, FinalPaymentStatuses
<1>4. QED
  BY <1>2, <1>3 DEF MayCancel, ActiveStatuses, Cancellable

LEMMA ListOffersAgree ==
  ASSUME EscrowInv, EventsExplainPayment
  PROVE  ListsOfferMatch
<1> SUFFICES ASSUME NEW b \in Bookings
             PROVE  /\ Current("mine", b) /\ IdKept(b, "refunded") =>
                         (CanCancel(b) <=> IsClient(b, reader) /\ MayCancel(b, reader))
                    /\ Current("incoming", b) =>
                         /\ CanAnswer(b) <=> MayReject(b, reader)
                         /\ CanAnswer(b) /\ DateFree(b) <=> MayAccept(b, reader)
  BY DEF ListsOfferMatch
<1>1. ASSUME Current("mine", b), IdKept(b, "refunded")
      PROVE  CanCancel(b) <=> IsClient(b, reader) /\ MayCancel(b, reader)
  <2>1. Shown("mine")
        /\ query["mine"].view[b] = IF IsClient(b, reader) THEN status[b] ELSE "absent"
    BY <1>1 DEF Current, Listed
  <2>2. QED
    BY <1>1, <2>1, CancellableIsCancelled DEF CanCancel, Cancellable
<1>2. ASSUME Current("incoming", b)
      PROVE  /\ CanAnswer(b) <=> MayReject(b, reader)
             /\ CanAnswer(b) /\ DateFree(b) <=> MayAccept(b, reader)
  <2>1. Shown("incoming")
        /\ query["incoming"].view[b] = IF IsCreator(b, reader) THEN status[b] ELSE "absent"
    BY <1>2 DEF Current, Listed
  <2>2. QED
    BY <2>1 DEF CanAnswer, MayReject, MayAccept
<1>3. QED
  BY <1>1, <1>2
-----------------------------------------------------------------------------
(* Whatever the pages ask for, they are two of the services' clients: what *)
(* is proved of BookingLifecycle holds with them.                          *)
THEOREM PagesUseTheServices == (PaymentSpec => Spec) /\ (ListsSpec => Spec)
<1>1. PaymentSpec => Spec
  <2>1. PaymentInit => Init
    BY DEF PaymentInit
  <2>2. PaymentInductive /\ [PaymentNext]_paymentAllVars => [Next]_vars
    BY PaymentIsLifecycle DEF PaymentInductive
  <2>3. QED
    BY <2>1, <2>2, PaymentAlways, PTL DEF PaymentSpec, Spec
<1>2. ListsSpec => Spec
  <2>1. ListsInit => Init
    BY DEF ListsInit
  <2>2. ListsInductive /\ [ListsNext]_listsAllVars => [Next]_vars
    BY ListsAreLifecycle DEF ListsInductive
  <2>3. QED
    BY <2>1, <2>2, ListsAlways, PTL DEF ListsSpec, Spec
<1>3. QED
  BY <1>1, <1>2

(* An up to date page offers exactly what the services would do, whatever  *)
(* was paid, cancelled, disputed or delivered on the way: the pages' lists *)
(* of statuses look at less than the services' guards, and EscrowAgrees,   *)
(* EventsExplainPayment and KeysIdentifyPayments make up for the rest.     *)
THEOREM PaymentsAreOffered == PaymentSpec => [](PaymentTypeOK /\ PaymentOffersMatch)
<1>1. PaymentInductive /\ ShownPaymentsExist /\ EventsExplainPayment /\ KeysIdentifyPayments
        => PaymentTypeOK /\ PaymentOffersMatch
  BY PaymentOffersAgree DEF PaymentInductive
<1>2. QED
  BY <1>1, PaymentAlways, ShownAlways, PagesUseTheServices, EventsAlwaysExplain,
     KeysAlwaysIdentify, PTL

(* The same of the lists: who may cancel, accept and reject.               *)
THEOREM AnswersAreOffered == ListsSpec => [](ListsTypeOK /\ ListsOfferMatch)
<1>1. ListsInductive /\ EventsExplainPayment => ListsTypeOK /\ ListsOfferMatch
  BY ListOffersAgree DEF ListsInductive
<1>2. QED
  BY <1>1, ListsAlways, PagesUseTheServices, EventsAlwaysExplain, PTL

(* Both, for a client with either page in front.                           *)
THEOREM PagesOfferWhatIsAdmitted == PaymentSpec /\ ListsSpec => []PagesInv
<1>1. (PaymentTypeOK /\ PaymentOffersMatch) /\ (ListsTypeOK /\ ListsOfferMatch) => PagesInv
  BY DEF PagesInv
<1>2. QED
  BY <1>1, PaymentsAreOffered, AnswersAreOffered, PTL
=============================================================================
