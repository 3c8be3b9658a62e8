------------------------ MODULE BookingTransactions ------------------------
(***************************************************************************)
(* The operations of BookingLifecycle as concurrent PostgreSQL             *)
(* transactions: each request takes its row locks one statement at a time  *)
(* (SELECT ... FOR UPDATE), keeps what it read, decides on those copies,   *)
(* calls the payment provider, inserts the payment event, and commits or   *)
(* rolls back.  The variables of BookingLifecycle are the committed rows;  *)
(* what a transaction has not committed lives in tx.  The isolation level  *)
(* is READ COMMITTED: a statement sees the rows committed before it.       *)
(*                                                                         *)
(* The check of the actor's role reads columns that no transaction ever    *)
(* changes, so requests come from the right actor here; one from a wrong   *)
(* actor locks, reads and rolls back like any other refused request.       *)
(***************************************************************************)
EXTENDS BookingLifecycle, Sequences

CONSTANTS
  Requests,   \* the API's concurrent database sessions
  Ops,        \* the operations requested in this instance
  MaxFaults,  \* bound of the model on crashes and provider failures
  NoBooking, NoArg

AllOps ==
  {"accept", "reject", "pay", "paid", "failed", "start", "deliver", "complete", "cancel",
   "dispute", "resolve_client", "resolve_creator", "add", "remove", "converse"}

ASSUME OpsAssumption == Ops \subseteq AllOps /\ MaxFaults \in Nat

VARIABLES
  tx,     \* tx[r]: the transaction of request r
  asked,  \* asked[t, b]: how often the provider was asked to settle b
  faults  \* crashes and provider failures so far

txVars == <<vars, tx, asked, faults>>

Settlements == {"released", "refunded"}

Locks == {"dispute", "booking", "payment"}

(* The steps of a transaction, in the order they are taken.                *)
Steps == {"idle", "lock", "decide", "provider", "check", "insert", "commit"}

Tx ==
  [pc : Steps, op : AllOps \cup {"none"}, b : Bookings \cup {NoBooking},
   arg : Keys \cup EventIds \cup {NoArg},
   held : SUBSET Locks,           \* row locks held until the transaction ends
   sawStatus : BookingStatuses,   \* bookings.status as the locking SELECT read it
   sawPay : PaymentStatuses,      \* payments.status as the locking SELECT read it
   sawDispute : DisputeStatuses,  \* disputes.status as the locking SELECT read it
   retrying : BOOLEAN]            \* complete_booking after a constraint race

Idle ==
  [pc |-> "idle", op |-> "none", b |-> NoBooking, arg |-> NoArg, held |-> {},
   sawStatus |-> "absent", sawPay |-> "absent", sawDispute |-> "absent", retrying |-> FALSE]

TxTypeOK ==
  /\ TypeOK
  /\ tx \in [Requests -> Tx]
  /\ asked \in [Settlements \X Bookings -> 0..(MaxFaults + 2)]
  /\ faults \in 0..MaxFaults

TxInit ==
  /\ Init
  /\ tx = [r \in Requests |-> Idle]
  /\ asked = [s \in Settlements \X Bookings |-> 0]
  /\ faults = 0
-----------------------------------------------------------------------------
(* Variant: provider events lock the payment they name before its booking. *)
LockOrder_PaymentFirst(op) ==
  CASE op \in {"resolve_client", "resolve_creator"} -> <<"dispute", "booking", "payment">>
    [] op \in {"paid", "failed"} -> <<"payment", "booking">>
    [] op \in {"start", "deliver", "complete", "cancel"} -> <<"booking", "payment">>
    [] OTHER -> <<"booking">>

(* The rows each operation locks, in order.  _locked_payment_and_booking   *)
(* locks the booking first although it starts from the payment's id.       *)
LockOrder(op) ==
  CASE op \in {"resolve_client", "resolve_creator"} -> <<"dispute", "booking", "payment">>
    [] op \in {"paid", "failed", "start", "deliver", "complete", "cancel"} ->
         <<"booking", "payment">>
    [] OTHER -> <<"booking">>

(* The booking status an operation writes.                                 *)
Target ==
  [accept |-> "accepted", reject |-> "rejected", pay |-> "awaiting_payment",
   paid |-> "confirmed", start |-> "in_progress", deliver |-> "delivered",
   complete |-> "completed", cancel |-> "cancelled", dispute |-> "disputed",
   resolve_client |-> "cancelled", resolve_creator |-> "completed"]

(* The type of the payment event an operation stages.                      *)
EventType ==
  [paid |-> "paid", failed |-> "failed", complete |-> "released", cancel |-> "refunded",
   resolve_client |-> "refunded", resolve_creator |-> "released"]

(* The system message an operation posts.                                  *)
Notice ==
  [start |-> "started", deliver |-> "delivered", complete |-> "completed",
   dispute |-> "disputed", resolve_client |-> "resolved_client",
   resolve_creator |-> "resolved_creator"]

(* Settling operations ask the provider, which returns the event to stage; *)
(* webhooks bring theirs.                                                  *)
AsksProvider(t) ==
  \/ t.op = "complete"
  \/ t.op = "cancel" /\ t.sawStatus = "confirmed"
  \/ t.op \in {"resolve_client", "resolve_creator"} /\ t.sawPay = "held"

Stages(t) == t.op \in {"paid", "failed"} \/ AsksProvider(t)

EventOf(t) ==
  [id |-> IF t.op \in {"paid", "failed"} THEN t.arg ELSE ProviderEventId(EventType[t.op], t.b),
   payment |-> t.b, type |-> EventType[t.op]]

(* complete_booking and resolve_dispute_for_admin set booking.status before*)
(* they stage the event, the others after.                                 *)
StatusAtStaging(t) ==
  IF t.op \in {"complete", "resolve_client", "resolve_creator"} THEN Target[t.op] ELSE t.sawStatus

(* What each operation requires of the rows it read, and of the rows it    *)
(* reads without a lock when it decides.                                   *)
Allowed(t) ==
  \/ t.op \in {"accept", "reject"} /\ t.sawStatus = "requested"
  \/ /\ t.op = "pay"
     /\ \A other \in Bookings \ {t.b} : payKey[other] # t.arg
     /\ payStatus[t.b] = "absent"
     /\ t.sawStatus = "accepted"
     /\ terms[t.b].price > 0
  \/ t.op \in {"paid", "failed"}
  \/ t.op = "start" /\ t.sawStatus = "confirmed" /\ t.sawPay = "held"
  \/ t.op = "deliver" /\ t.sawStatus = "in_progress" /\ t.sawPay = "held" /\ deliverables[t.b] > 0
  \/ t.op = "complete" /\ t.sawStatus = "delivered" /\ t.sawPay = "held"
  \/ /\ t.op = "cancel"
     /\ \/ t.sawStatus \in {"requested", "accepted"} /\ t.sawPay = "absent"
        \/ t.sawStatus = "awaiting_payment" /\ t.sawPay \in {"pending", "failed"}
        \/ t.sawStatus = "confirmed" /\ t.sawPay = "held"
  \/ /\ t.op = "dispute"
     /\ t.sawStatus \in {"confirmed", "in_progress", "delivered"}
     /\ dispute[t.b] = "absent"
  \/ t.op \in {"resolve_client", "resolve_creator"} /\ t.sawDispute = "open"
  \/ t.op = "add" /\ t.sawStatus = "in_progress" /\ deliverables[t.b] < MaxDeliverables
  \/ t.op = "remove" /\ t.sawStatus = "in_progress" /\ deliverables[t.b] > 0
  \/ /\ t.op = "converse"
     /\ t.b \notin conversations
     /\ t.sawStatus \in {"confirmed", "in_progress", "delivered", "disputed"}
-----------------------------------------------------------------------------
HasLock(r, lock, b) == tx[r].b = b /\ lock \in tx[r].held

(* Variants: plain SELECTs, of every row and of the booking.               *)
Free_PlainSelect(lock, b) == TRUE

Free_PlainBookingSelect(lock, b) ==
  lock # "booking" => \A r \in Requests : ~HasLock(r, lock, b)

Free(lock, b) == \A r \in Requests : ~HasLock(r, lock, b)

Goto(r, step) == tx' = [tx EXCEPT ![r].pc = step]

(* The end of a transaction releases its locks and forgets its copies.     *)
End(r) == tx' = [tx EXCEPT ![r] = Idle]

Begin(r, op, b, arg) ==
  /\ tx[r].pc = "idle"
  /\ tx' = [tx EXCEPT ![r] = [Idle EXCEPT !.pc = "lock", !.op = op, !.b = b, !.arg = arg]]
  /\ UNCHANGED <<vars, asked, faults>>

BeginSome(r) ==
  \E op \in Ops, b \in Bookings :
    /\ Exists(b)
    /\ \/ op = "pay" /\ \E k \in Keys : Begin(r, op, b, k)
       \/ /\ op \in {"paid", "failed"}
          /\ payStatus[b] # "absent"
          /\ \E id \in WebhookIds : Begin(r, op, b, id)
       \/ /\ op = "paid"
          /\ payStatus[b] # "absent"
          /\ Begin(r, op, b, ProviderEventId("paid", b))
       \/ /\ op \in {"resolve_client", "resolve_creator"}
          /\ dispute[b] # "absent"
          /\ Begin(r, op, b, NoArg)
       \/ /\ op \notin {"pay", "paid", "failed", "resolve_client", "resolve_creator"}
          /\ Begin(r, op, b, NoArg)

(* The row an operation locks after those it holds.                        *)
NextRow(op, held) == LockOrder(op)[Cardinality(held) + 1]

(* SELECT ... FOR UPDATE of the next row: waits until no other transaction *)
(* has it locked, then reads the row as last committed.                    *)
TakeLock(r) ==
  LET t    == tx[r]
      lock == NextRow(t.op, t.held)
      more == Cardinality(t.held) + 1 < Len(LockOrder(t.op))
  IN  /\ t.pc = "lock"
      /\ Free(lock, t.b)
      /\ tx' = [tx EXCEPT
                 ![r] = [t EXCEPT !.pc = IF more THEN "lock" ELSE "decide",
                           !.held = @ \cup {lock},
                           !.sawStatus  = IF lock = "booking" THEN status[t.b] ELSE @,
                           !.sawPay     = IF lock = "payment" THEN payStatus[t.b] ELSE @,
                           !.sawDispute = IF lock = "dispute" THEN dispute[t.b] ELSE @]]
      /\ UNCHANGED <<vars, asked, faults>>

(* A request whose conditions fail ends without writing; among them the    *)
(* replay of a completion and of a payment, answered from the rows read.   *)
Refuse(r) ==
  /\ tx[r].pc = "decide"
  /\ ~Allowed(tx[r])
  /\ End(r)
  /\ UNCHANGED <<vars, asked, faults>>

(* Variant: a dispute is settled without asking the provider.              *)
Decide_ResolvesLocally(r) ==
  LET t == tx[r] IN
  /\ t.pc = "decide"
  /\ Allowed(t)
  /\ Goto(r, IF AsksProvider(t) /\ ~t.retrying /\ t.op \in {"complete", "cancel"}
               THEN "provider"
             ELSE IF Stages(t) THEN "check" ELSE "commit")
  /\ UNCHANGED <<vars, asked, faults>>

(* A retried completion reuses the event the provider returned before.     *)
Decide(r) ==
  LET t == tx[r] IN
  /\ t.pc = "decide"
  /\ Allowed(t)
  /\ Goto(r, IF AsksProvider(t) /\ ~t.retrying THEN "provider"
             ELSE IF Stages(t) THEN "check" ELSE "commit")
  /\ UNCHANGED <<vars, asked, faults>>

(* The count of calls to the provider stops at MaxFaults + 2, one more than*)
(* ProviderAskedOnce allows.                                               *)
CountCall(settlement) ==
  [asked EXCEPT ![settlement] = IF @ < MaxFaults + 2 THEN @ + 1 ELSE @]

AskProvider(r) ==
  LET settlement == <<EventType[tx[r].op], tx[r].b>> IN
  /\ tx[r].pc = "provider"
  /\ asked' = CountCall(settlement)
  /\ Goto(r, "check")
  /\ UNCHANGED <<vars, faults>>

(* The call to the provider fails, before or after the provider acted.     *)
ProviderFails(r) ==
  LET settlement == <<EventType[tx[r].op], tx[r].b>> IN
  /\ tx[r].pc = "provider"
  /\ faults < MaxFaults
  /\ faults' = faults + 1
  /\ asked' \in {asked, CountCall(settlement)}
  /\ End(r)
  /\ UNCHANGED vars

(* _stage_locked_provider_event: an event id already in the log is a       *)
(* replay or a collision, and a transition the payment refuses is an error:*)
(* all end the transaction without writing.                                *)
CheckEvent(r) ==
  LET t == tx[r]
      e == EventOf(t)
  IN  /\ t.pc = "check"
      /\ IF /\ \A f \in events : f.id # e.id
            /\ Accepts(t.sawPay, e.type, StatusAtStaging(t))
           THEN Goto(r, "insert")
           ELSE End(r)
      /\ UNCHANGED <<vars, asked, faults>>

(* The INSERT waits for a transaction that inserted the same id and has    *)
(* not ended; if that one committed, the unique constraint refuses the row.*)
InsertWaitsFor(r, other) ==
  /\ tx[other].pc = "commit"
  /\ Stages(tx[other])
  /\ EventOf(tx[other]).id = EventOf(tx[r]).id

InsertWaits(r) == \E other \in Requests \ {r} : InsertWaitsFor(r, other)

InsertEvent(r) ==
  /\ tx[r].pc = "insert"
  /\ ~InsertWaits(r)
  /\ \A f \in events : f.id # EventOf(tx[r]).id
  /\ Goto(r, "commit")
  /\ UNCHANGED <<vars, asked, faults>>

(* Only complete_booking starts over, once, with fresh locks and the same  *)
(* provider event.                                                         *)
InsertConflict(r) ==
  LET t == tx[r] IN
  /\ t.pc = "insert"
  /\ ~InsertWaits(r)
  /\ \E f \in events : f.id = EventOf(t).id
  /\ IF t.op = "complete" /\ ~t.retrying
       THEN tx' = [tx EXCEPT ![r] = [Idle EXCEPT !.pc = "lock", !.op = t.op, !.b = t.b,
                                                 !.retrying = TRUE]]
       ELSE End(r)
  /\ UNCHANGED <<vars, asked, faults>>

(* The unique constraints an UPDATE or INSERT meets at commit: the creator's*)
(* date, the idempotency key, one payment and one dispute for a booking.    *)
Unique(t) ==
  /\ t.op = "accept" => DateFree(t.b)
  /\ t.op = "pay" => payStatus[t.b] = "absent" /\ \A other \in Bookings : payKey[other] # t.arg
  /\ t.op = "dispute" => dispute[t.b] = "absent"

CommitFails(r) ==
  /\ tx[r].pc = "commit"
  /\ ~Unique(tx[r])
  /\ End(r)
  /\ UNCHANGED <<vars, asked, faults>>

WritePayment(t) ==
  /\ payStatus' = [payStatus EXCEPT ![t.b] =
       IF Stages(t) THEN PaymentAfter[EventType[t.op]]
       ELSE IF t.op = "pay" THEN "pending"
       ELSE IF t.op = "cancel" /\ t.sawPay = "pending" THEN "expired"
       ELSE @]
  /\ payKey' = IF t.op = "pay" THEN [payKey EXCEPT ![t.b] = t.arg] ELSE payKey
  /\ events' = IF Stages(t) THEN events \cup {EventOf(t)} ELSE events

WriteWorkspace(t) ==
  /\ deliverables' = [deliverables EXCEPT ![t.b] =
       IF t.op = "add" THEN @ + 1 ELSE IF t.op = "remove" THEN @ - 1 ELSE @]
  /\ conversations' = IF t.op = "converse" THEN conversations \cup {t.b} ELSE conversations
  /\ IF t.op \in DOMAIN Notice THEN Notify(t.b, Notice[t.op]) ELSE UNCHANGED notices

(* COMMIT makes everything the transaction wrote visible at once.          *)
Commit(r) ==
  LET t == tx[r] IN
  /\ t.pc = "commit"
  /\ Unique(t)
  /\ status' = IF t.op \in DOMAIN Target THEN [status EXCEPT ![t.b] = Target[t.op]] ELSE status
  /\ WritePayment(t)
  /\ dispute' = [dispute EXCEPT ![t.b] =
       CASE t.op = "dispute" -> "open"
         [] t.op = "resolve_client" -> "resolved_client"
         [] t.op = "resolve_creator" -> "resolved_creator"
         [] OTHER -> @]
  /\ WriteWorkspace(t)
  /\ End(r)
  /\ UNCHANGED <<terms, asked, faults>>

(* The server or its connection dies: PostgreSQL rolls back.               *)
Crash(r) ==
  /\ tx[r].pc # "idle"
  /\ faults < MaxFaults
  /\ faults' = faults + 1
  /\ End(r)
  /\ UNCHANGED <<vars, asked>>

(* create_booking inserts one row and locks nothing.                       *)
InsertBooking ==
  /\ \E b \in Bookings, u \in Users, c \in Creators, d \in Dates, p \in Prices :
       CreateBooking(b, u, c, d, p)
  /\ UNCHANGED <<tx, asked, faults>>

Proceed(r) ==
  \/ Refuse(r)
  \/ Decide(r)
  \/ AskProvider(r)
  \/ CheckEvent(r)
  \/ InsertEvent(r)
  \/ InsertConflict(r)
  \/ CommitFails(r)
  \/ Commit(r)

TxNext ==
  \/ InsertBooking
  \/ \E r \in Requests :
       BeginSome(r) \/ TakeLock(r) \/ Proceed(r) \/ ProviderFails(r) \/ Crash(r)

TxSpec == TxInit /\ [][TxNext]_txVars

(* A request the server works on keeps going; PostgreSQL queues the waiters*)
(* of a row or of an index entry, so a lock that is freed again and again  *)
(* is eventually granted.                                                  *)
TxFairness == \A r \in Requests : WF_txVars(Proceed(r)) /\ SF_txVars(TakeLock(r))

TxFairSpec == TxSpec /\ TxFairness
-----------------------------------------------------------------------------
(* Serialisability: however the statements of concurrent requests interleave*)
(* and whichever of them die, the committed rows change only as the atomic  *)
(* operations of BookingLifecycle change them.                              *)
ImplementsLifecycle == Spec

(* What a transaction read under a row lock is still what is committed when*)
(* it decides, calls the provider and writes: no check is stale when used. *)
ReadsStayCurrent ==
  \A r \in Requests :
    LET t == tx[r] IN
    /\ "booking" \in t.held => t.sawStatus = status[t.b]
    /\ "payment" \in t.held => t.sawPay = payStatus[t.b]
    /\ "dispute" \in t.held => t.sawDispute = dispute[t.b]
    /\ t.pc = "commit" /\ t.op = "deliver" => deliverables[t.b] > 0

(* Every repeated settlement call, and every payment the provider was asked *)
(* both to release and to refund, is paid for by a crash, by a failed call  *)
(* or by a webhook under the id of the provider's own event, after which    *)
(* the settlement is refused: concurrency and retries alone never ask twice.*)
ProviderAskedOnce ==
  \A b \in Bookings :
    (\A e \in events, s \in Settlements : e.id = ProviderEventId(s, b) => e.type = s)
    => asked[<<"released", b>>] + asked[<<"refunded", b>>] <= 1 + faults

(* No payment is settled in the database before the provider was asked.    *)
SettledOnlyIfAsked ==
  \A b \in Bookings :
    payStatus[b] \in Settlements => asked[<<payStatus[b], b>>] > 0

(* Lock waits end: no set of requests, whatever rows they lock in whatever *)
(* order, waits for each other for ever.                                   *)
RequestsFinish == \A r \in Requests : tx[r].pc # "idle" ~> tx[r].pc = "idle"

(* What a request cannot go on without: the end of a transaction that has  *)
(* locked its next row, or inserted the id of its event.                   *)
WaitsFor(r, other) ==
  \/ tx[r].pc = "lock" /\ HasLock(other, NextRow(tx[r].op, tx[r].held), tx[r].b)
  \/ tx[r].pc = "insert" /\ InsertWaitsFor(r, other)

(* Row locks and event ids are taken in one order by every operation: among*)
(* any requests there is one that waits for none of them.                  *)
NobodyWaitsInACircle ==
  \A waiting \in SUBSET Requests :
    waiting # {} => \E r \in waiting : \A other \in waiting : ~WaitsFor(r, other)

(* Requests hold what they decide on: their types, no read that is not     *)
(* current while its lock is held, and no lock that closes a circle.       *)
TxInv == TxTypeOK /\ ReadsStayCurrent /\ NobodyWaitsInACircle

(* The provider is asked before a settlement is recorded, and asked once   *)
(* unless a failure or a webhook with the provider's own id explains more. *)
SettlementsAreAsked == SettledOnlyIfAsked /\ ProviderAskedOnce
=============================================================================
