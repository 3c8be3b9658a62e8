----------------------- MODULE BookingTransactionsProofs -----------------------
(***************************************************************************)
(* Theorems about BookingTransactions, for every set of requests, bookings,*)
(* operations, keys and event ids, and every bound on the faults: what a   *)
(* request read stays current while it relies on it, the commits are the   *)
(* atomic operations of BookingLifecycle, and the payment provider is asked*)
(* before a settlement and no more often than the faults explain.          *)
(*                                                                         *)
(* ReadsStayCurrent is not inductive alone.  A read stays current because  *)
(* no other request holds the row's lock (Exclusive), because every request*)
(* has taken all its locks before it decides (Holds), and because the one  *)
(* write without a lock, the insertion of a dispute, meets no dispute that *)
(* another request could have locked (Asks).                               *)
(***************************************************************************)
EXTENDS BookingTransactions, BookingLifecycleProofs, FiniteSetTheorems

(* The rows an operation holds when it decides.                            *)
LocksOf(op) ==
  CASE op \in {"resolve_client", "resolve_creator"} -> {"dispute", "booking", "payment"}
    [] op \in {"paid", "failed", "start", "deliver", "complete", "cancel"} ->
         {"booking", "payment"}
    [] OTHER -> {"booking"}

(* The rows it may hold while it still waits for one: those that come first*)
(* in LockOrder.                                                           *)
HeldBefore(op) ==
  CASE op \in {"resolve_client", "resolve_creator"} ->
         {{}, {"dispute"}, {"dispute", "booking"}}
    [] op \in {"paid", "failed", "start", "deliver", "complete", "cancel"} ->
         {{}, {"booking"}}
    [] OTHER -> {{}}

(* What of Allowed the locks keep true until the transaction ends: all but *)
(* the idempotency key, which another booking's payment may take.          *)
Granted(t) ==
  \/ t.op = "pay" /\ payStatus[t.b] = "absent" /\ t.sawStatus = "accepted" /\ terms[t.b].price > 0
  \/ t.op # "pay" /\ Allowed(t)

(* A request works for an operation on a booking that exists.              *)
Asks(t) ==
  /\ t.op \in AllOps /\ t.b \in Bookings /\ status[t.b] # "absent"
  /\ t.op = "pay" => t.arg \in Keys
  /\ t.op \in {"paid", "failed"} =>
       \/ t.arg \in WebhookIds
       \/ t.op = "paid" /\ t.arg = ProviderEventId("paid", t.b)
  /\ t.op \in {"resolve_client", "resolve_creator"} => dispute[t.b] # "absent"

(* It holds the locks of its step, and what it read under them is current. *)
Holds(t) ==
  /\ IF t.pc = "lock" THEN t.held \in HeldBefore(t.op) ELSE t.held = LocksOf(t.op)
  /\ "booking" \in t.held => t.sawStatus = status[t.b]
  /\ "payment" \in t.held => t.sawPay = payStatus[t.b]
  /\ "dispute" \in t.held => t.sawDispute = dispute[t.b]

(* After its decision the decision stands, and the event it staged is new. *)
Stands(t) ==
  /\ t.pc \in {"provider", "check", "insert", "commit"} => Granted(t)
  /\ t.pc = "provider" => AsksProvider(t)
  /\ t.pc \in {"check", "insert"} => Stages(t)
  /\ t.pc \in {"insert", "commit"} /\ Stages(t) =>
       Accepts(t.sawPay, EventType[t.op], StatusAtStaging(t))
  /\ t.pc = "commit" /\ Stages(t) => \A e \in events : e.id # EventOf(t).id

Sound(t) == IF t.pc = "idle" THEN t = Idle ELSE Asks(t) /\ Holds(t) /\ Stands(t)

(* No row is locked twice, and no event id is inserted twice.              *)
Exclusive ==
  \A r, q \in Requests : r # q /\ tx[r].b = tx[q].b => tx[r].held \cap tx[q].held = {}

Inserts(t) == t.pc = "commit" /\ Stages(t)

InsertedOnce ==
  \A r, q \in Requests :
    r # q /\ Inserts(tx[r]) /\ Inserts(tx[q]) => EventOf(tx[r]).id # EventOf(tx[q]).id

SessionsInv ==
  /\ SlotInv /\ TxTypeOK
  /\ \A r \in Requests : Sound(tx[r])
  /\ Exclusive /\ InsertedOnce
-----------------------------------------------------------------------------
(* The tables of the operations, one entry at a time.                      *)
LEMMA Tables ==
  /\ DOMAIN Target = {"accept", "reject", "pay", "paid", "start", "deliver", "complete", "cancel",
                      "dispute", "resolve_client", "resolve_creator"}
  /\ Target["accept"] = "accepted" /\ Target["reject"] = "rejected"
  /\ Target["pay"] = "awaiting_payment" /\ Target["paid"] = "confirmed"
  /\ Target["start"] = "in_progress" /\ Target["deliver"] = "delivered"
  /\ Target["complete"] = "completed" /\ Target["cancel"] = "cancelled"
  /\ Target["dispute"] = "disputed"
  /\ Target["resolve_client"] = "cancelled" /\ Target["resolve_creator"] = "completed"
  /\ EventType["paid"] = "paid" /\ EventType["failed"] = "failed"
  /\ EventType["complete"] = "released" /\ EventType["cancel"] = "refunded"
  /\ EventType["resolve_client"] = "refunded" /\ EventType["resolve_creator"] = "released"
  /\ DOMAIN Notice = {"start", "deliver", "complete", "dispute",
                      "resolve_client", "resolve_creator"}
  /\ Notice["start"] = "started" /\ Notice["deliver"] = "delivered"
  /\ Notice["complete"] = "completed" /\ Notice["dispute"] = "disputed"
  /\ Notice["resolve_client"] = "resolved_client"
  /\ Notice["resolve_creator"] = "resolved_creator"
  BY DEF Target, EventType, Notice

LEMMA LockCounts ==
  /\ Cardinality({}) = 0
  /\ \A x : Cardinality({x}) = 1
  /\ Cardinality({"dispute", "booking"}) = 2
<1>1. Cardinality({}) = 0 /\ \A x : IsFiniteSet({x}) /\ Cardinality({x}) = 1
  BY FS_EmptySet, FS_Singleton
<1>2. Cardinality({"dispute"} \cup {"booking"}) = Cardinality({"dispute"}) + 1
  BY <1>1, FS_AddElement
<1>3. Cardinality({"dispute"}) = 1
  BY <1>1
<1>4. {"dispute"} \cup {"booking"} = {"dispute", "booking"}
  OBVIOUS
<1>5. Cardinality({"dispute", "booking"}) = 2
  BY <1>2, <1>3, <1>4
<1>6. QED
  BY <1>1, <1>5

(* Whether TakeLock takes more rows after the next.                        *)
MoreRows(op, held) == Cardinality(held) + 1 < Len(LockOrder(op))

LEMMA NextLock ==
  ASSUME NEW op \in AllOps, NEW held \in HeldBefore(op)
  PROVE  /\ held \subseteq Locks /\ NextRow(op, held) \in Locks
         /\ IF MoreRows(op, held)
              THEN held \cup {NextRow(op, held)} \in HeldBefore(op)
              ELSE held \cup {NextRow(op, held)} = LocksOf(op)
<1>1. CASE op \in {"resolve_client", "resolve_creator"}
  <2>1. /\ Len(LockOrder(op)) = 3
        /\ LockOrder(op)[1] = "dispute" /\ LockOrder(op)[2] = "booking"
        /\ LockOrder(op)[3] = "payment"
        /\ HeldBefore(op) = {{}, {"dispute"}, {"dispute", "booking"}}
        /\ LocksOf(op) = {"dispute", "booking", "payment"}
    BY <1>1 DEF LockOrder, HeldBefore, LocksOf
  <2>2. CASE held = {}
    BY <2>1, <2>2, LockCounts DEF Locks, NextRow, MoreRows
  <2>3. CASE held = {"dispute"}
    <3>1. Cardinality(held) = 1
      BY <2>3, LockCounts
    <3>2. NextRow(op, held) = "booking" /\ MoreRows(op, held)
      BY <2>1, <3>1 DEF NextRow, MoreRows
    <3>3. QED
      BY <2>1, <2>3, <3>2 DEF Locks
  <2>4. CASE held = {"dispute", "booking"}
    <3>1. Cardinality(held) = 2
      BY <2>4, LockCounts
    <3>2. NextRow(op, held) = "payment" /\ ~MoreRows(op, held)
      BY <2>1, <3>1 DEF NextRow, MoreRows
    <3>3. QED
      BY <2>1, <2>4, <3>2 DEF Locks
  <2>5. QED
    BY <2>1, <2>2, <2>3, <2>4
<1>2. CASE op \in {"paid", "failed", "start", "deliver", "complete", "cancel"}
  <2>1. /\ Len(LockOrder(op)) = 2
        /\ LockOrder(op)[1] = "booking" /\ LockOrder(op)[2] = "payment"
        /\ HeldBefore(op) = {{}, {"booking"}}
        /\ LocksOf(op) = {"booking", "payment"}
    BY <1>2 DEF LockOrder, HeldBefore, LocksOf
  <2>2. CASE held = {}
    BY <2>1, <2>2, LockCounts DEF Locks, NextRow, MoreRows
  <2>3. CASE held = {"booking"}
    <3>1. Cardinality(held) = 1
      BY <2>3, LockCounts
    <3>2. NextRow(op, held) = "payment" /\ ~MoreRows(op, held)
      BY <2>1, <3>1 DEF NextRow, MoreRows
    <3>3. QED
      BY <2>1, <2>3, <3>2 DEF Locks
  <2>4. QED
    BY <2>1, <2>2, <2>3
<1>3. CASE op \notin {"resolve_client", "resolve_creator", "paid", "failed", "start", "deliver",
                      "complete", "cancel"}
  <2>1. /\ Len(LockOrder(op)) = 1 /\ LockOrder(op)[1] = "booking"
        /\ HeldBefore(op) = {{}} /\ LocksOf(op) = {"booking"}
    BY <1>3 DEF LockOrder, HeldBefore, LocksOf
  <2>2. held = {}
    BY <2>1
  <2>3. QED
    BY <2>1, <2>2, LockCounts DEF Locks, NextRow, MoreRows
<1>4. QED
  BY <1>1, <1>2, <1>3

(* The booking is locked by whoever decides, and by nobody who still waits *)
(* for his first row or has only the dispute.                              *)
LEMMA BookingLocked ==
  ASSUME NEW t, Holds(t), t.op \in AllOps
  PROVE  /\ t.pc # "lock" => "booking" \in t.held
         /\ "booking" \notin t.held => t.pc = "lock" /\ t.held \subseteq {"dispute"}
  BY DEF Holds, HeldBefore, LocksOf
-----------------------------------------------------------------------------
(* The rows of booking b are as they were.                                 *)
RowsKept(b) ==
  /\ status'[b] = status[b] /\ terms'[b] = terms[b]
  /\ payStatus'[b] = payStatus[b] /\ dispute'[b] = dispute[b]
  /\ deliverables'[b] = deliverables[b]
  /\ b \in conversations' <=> b \in conversations

(* What a request holds, read and decided stays sound while the rows of its*)
(* booking stay, and nobody inserts its event.                             *)
LEMMA SoundKept ==
  ASSUME NEW q \in Requests, Sound(tx[q]), tx'[q] = tx[q],
         tx[q].pc = "idle" \/ RowsKept(tx[q].b),
         Inserts(tx[q]) => \A e \in events' : e \in events \/ e.id # EventOf(tx[q]).id
  PROVE  Sound(tx[q])'
<1>1. CASE tx[q].pc = "idle"
  BY <1>1 DEF Sound, Idle
<1>2. CASE tx[q].pc # "idle"
  <2>0. RowsKept(tx[q].b)
    BY <1>2
  <2>1. Granted(tx[q]) => Granted(tx[q])'
    BY <2>0 DEF RowsKept, Granted, Allowed
  <2>2. /\ EventOf(tx[q])' = EventOf(tx[q]) /\ (Stages(tx[q]))' = Stages(tx[q])
        /\ (AsksProvider(tx[q]))' = AsksProvider(tx[q])
        /\ StatusAtStaging(tx[q])' = StatusAtStaging(tx[q])
    BY DEF EventOf, Stages, AsksProvider, StatusAtStaging
  <2>3. Asks(tx[q]) /\ Holds(tx[q]) => Asks(tx[q])' /\ Holds(tx[q])'
    BY <2>0 DEF RowsKept, Asks, Holds
  <2>4. Stands(tx[q]) => Stands(tx[q])'
    BY <2>1, <2>2 DEF Stands, Inserts, Accepts
  <2>5. QED
    BY <1>2, <2>3, <2>4 DEF Sound
<1>3. QED
  BY <1>1, <1>2

LEMMA SoundNow ==
  ASSUME NEW r \in Requests, UNCHANGED vars, Sound(tx'[r])
  PROVE  Sound(tx[r])'
  BY DEF vars, bookingVars, paymentVars, workspaceVars, Sound, Asks, Holds, Stands, Granted,
         Allowed, EventOf, Stages, AsksProvider, StatusAtStaging, Accepts
-----------------------------------------------------------------------------
LEMMA CountCallType ==
  ASSUME asked \in [Settlements \X Bookings -> 0..(MaxFaults + 2)],
         NEW s \in Settlements \X Bookings
  PROVE  /\ CountCall(s) \in [Settlements \X Bookings -> 0..(MaxFaults + 2)]
         /\ \A p \in Settlements \X Bookings : asked[p] <= CountCall(s)[p]
         /\ \A p \in Settlements \X Bookings : p # s => CountCall(s)[p] = asked[p]
         /\ CountCall(s)[s] > 0 /\ CountCall(s)[s] <= asked[s] + 1
  BY OpsAssumption DEF CountCall

(* The step of one request that commits nothing keeps every request sound, *)
(* if it leaves its own sound, locks no row that another holds, and inserts*)
(* no event that another inserts.                                          *)
LEMMA QuietStep ==
  ASSUME SessionsInv, NEW r \in Requests, UNCHANGED vars,
         tx' = [tx EXCEPT ![r] = tx'[r]], tx'[r] \in Tx, Sound(tx'[r]),
         asked' \in [Settlements \X Bookings -> 0..(MaxFaults + 2)], faults' \in 0..MaxFaults,
         \A q \in Requests \ {r} : tx'[r].b = tx[q].b => tx'[r].held \cap tx[q].held = {},
         \A q \in Requests \ {r} :
           Inserts(tx'[r]) /\ Inserts(tx[q]) => EventOf(tx'[r]).id # EventOf(tx[q]).id
  PROVE  SessionsInv'
<1>1. \A q \in Requests \ {r} : tx'[q] = tx[q]
  BY DEF SessionsInv, TxTypeOK
<1>2. SlotInv'
  BY NextSlots DEF SessionsInv
<1>3. TxTypeOK'
  BY <1>1, <1>2 DEF SessionsInv, TxTypeOK, SlotInv, EscrowInv
<1>4. (\A q \in Requests : Sound(tx[q]))'
  <2>1. ASSUME NEW q \in Requests \ {r} PROVE Sound(tx[q])'
    <3>1. RowsKept(tx[q].b) /\ events' = events
      BY DEF vars, bookingVars, paymentVars, workspaceVars, RowsKept
    <3>2. QED
      BY <1>1, <3>1, SoundKept DEF SessionsInv
  <2>2. Sound(tx[r])'
    BY SoundNow
  <2>3. QED
    BY <2>1, <2>2
<1>5. Exclusive'
  BY <1>1 DEF SessionsInv, Exclusive
<1>6. InsertedOnce'
  <2>1. \A q \in Requests :
          /\ (Inserts(tx[q]))' = Inserts(tx'[q])
          /\ EventOf(tx[q])' = EventOf(tx'[q])
    BY DEF Inserts, Stages, AsksProvider, EventOf
  <2>2. QED
    BY <1>1, <2>1 DEF SessionsInv, InsertedOnce
<1>7. QED
  BY <1>2, <1>3, <1>4, <1>5, <1>6 DEF SessionsInv

(* A request that ends, or goes on with the locks it has, locks no row.    *)
LEMMA SameLocks ==
  ASSUME SessionsInv, NEW r \in Requests,
         tx'[r].held = {} \/ (tx'[r].held = tx[r].held /\ tx'[r].b = tx[r].b)
  PROVE  \A q \in Requests \ {r} : tx'[r].b = tx[q].b => tx'[r].held \cap tx[q].held = {}
  BY DEF SessionsInv, Exclusive

LEMMA IdleType == Idle \in Tx
  BY DEF Idle, Tx, Steps, BookingStatuses, PaymentStatuses, DisputeStatuses

(* The end of a request that wrote nothing.                                *)
LEMMA EndStep ==
  ASSUME SessionsInv, NEW r \in Requests, UNCHANGED vars, End(r),
         asked' \in [Settlements \X Bookings -> 0..(MaxFaults + 2)], faults' \in 0..MaxFaults
  PROVE  SessionsInv'
<1>1. tx' = [tx EXCEPT ![r] = tx'[r]] /\ tx'[r] = Idle
  BY DEF End, SessionsInv, TxTypeOK
<1>2. Sound(tx'[r]) /\ ~Inserts(tx'[r]) /\ tx'[r].held = {}
  BY <1>1 DEF Sound, Inserts, Idle
<1>3. QED
  BY <1>1, <1>2, IdleType, SameLocks, QuietStep

(* A request that goes on to its next step with what it has.               *)
LEMMA GotoStep ==
  ASSUME SessionsInv, NEW r \in Requests, NEW step \in Steps \ {"idle", "lock"},
         UNCHANGED vars, Goto(r, step), tx[r].pc \notin {"idle", "lock"},
         asked' \in [Settlements \X Bookings -> 0..(MaxFaults + 2)], faults' = faults,
         Stands([tx[r] EXCEPT !.pc = step]),
         step = "commit" /\ Stages(tx[r]) => ~InsertWaits(r)
  PROVE  SessionsInv'
<1> DEFINE t == [tx[r] EXCEPT !.pc = step]
<1>1. tx[r] \in Tx
  BY DEF SessionsInv, TxTypeOK
<1>2. tx' = [tx EXCEPT ![r] = tx'[r]] /\ tx'[r] = t
  BY DEF Goto, SessionsInv, TxTypeOK
<1>3. /\ t \in Tx /\ t.pc = step
      /\ t.op = tx[r].op /\ t.b = tx[r].b /\ t.arg = tx[r].arg /\ t.held = tx[r].held
      /\ t.sawStatus = tx[r].sawStatus /\ t.sawPay = tx[r].sawPay
      /\ t.sawDispute = tx[r].sawDispute
  BY <1>1 DEF Tx
<1> HIDE DEF t
<1>4. Sound(t)
  <2>1. Asks(tx[r]) /\ Holds(tx[r])
    BY DEF SessionsInv, Sound
  <2>2. Asks(t) /\ Holds(t)
    BY <1>3, <2>1 DEF Asks, Holds
  <2>3. QED
    BY <1>3, <2>2 DEF Sound, t
<1>5. \A q \in Requests \ {r} :
        Inserts(t) /\ Inserts(tx[q]) => EventOf(t).id # EventOf(tx[q]).id
  BY <1>3 DEF Inserts, InsertWaits, InsertWaitsFor, Stages, AsksProvider, EventOf
<1>6. QED
  BY <1>2, <1>3, <1>4, <1>5, SameLocks, QuietStep DEF SessionsInv, TxTypeOK
-----------------------------------------------------------------------------
(* A request at its first step holds nothing and has read nothing.         *)
Fresh(op, b, arg, again) ==
  [pc |-> "lock", op |-> op, b |-> b, arg |-> arg, held |-> {}, sawStatus |-> "absent",
   sawPay |-> "absent", sawDispute |-> "absent", retrying |-> again]

LEMMA BeginsFresh ==
  ASSUME NEW op, NEW b, NEW arg, NEW n,
         n = [Idle EXCEPT !.pc = "lock", !.op = op, !.b = b, !.arg = arg]
  PROVE  n = Fresh(op, b, arg, FALSE)
  BY DEF Fresh, Idle

LEMMA RetriesFresh ==
  ASSUME NEW op, NEW b, NEW n,
         n = [Idle EXCEPT !.pc = "lock", !.op = op, !.b = b, !.retrying = TRUE]
  PROVE  n = Fresh(op, b, NoArg, TRUE)
  BY DEF Fresh, Idle

LEMMA FreshStep ==
  ASSUME SessionsInv, NEW r \in Requests, UNCHANGED <<vars, asked, faults>>,
         NEW op, NEW b, NEW arg \in Keys \cup EventIds \cup {NoArg}, NEW again \in BOOLEAN,
         tx' = [tx EXCEPT ![r] = tx'[r]], tx'[r] = Fresh(op, b, arg, again),
         Asks(Fresh(op, b, arg, again))
  PROVE  SessionsInv'
<1> DEFINE t == Fresh(op, b, arg, again)
<1>1. tx' = [tx EXCEPT ![r] = tx'[r]] /\ tx'[r] = t
  OBVIOUS
<1>2. /\ t.pc = "lock" /\ t.op = op /\ t.b = b /\ t.held = {}
      /\ op \in AllOps /\ b \in Bookings
  BY DEF Fresh, Idle, Asks
<1>3. t \in Tx
  BY <1>2 DEF Fresh, Idle, Tx, Steps, BookingStatuses, PaymentStatuses, DisputeStatuses
<1> HIDE DEF t
<1>4. Holds(t) /\ Stands(t)
  BY <1>2 DEF Holds, Stands, HeldBefore
<1>5. Sound(t) /\ ~Inserts(t)
  BY <1>2, <1>4 DEF Sound, Inserts, t
<1>6. QED
  BY <1>1, <1>2, <1>3, <1>5, SameLocks, QuietStep DEF SessionsInv, TxTypeOK

LEMMA BeginStep == ASSUME SessionsInv, NEW r \in Requests, BeginSome(r) PROVE SessionsInv'
<1>1. PICK op \in Ops, b \in Bookings :
        /\ Exists(b)
        /\ \/ op = "pay" /\ \E k \in Keys : Begin(r, op, b, k)
           \/ /\ op \in {"paid", "failed"}
              /\ \E id \in WebhookIds : Begin(r, op, b, id)
           \/ op = "paid" /\ Begin(r, op, b, ProviderEventId("paid", b))
           \/ /\ op \in {"resolve_client", "resolve_creator"}
              /\ dispute[b] # "absent"
              /\ Begin(r, op, b, NoArg)
           \/ /\ op \notin {"pay", "paid", "failed", "resolve_client", "resolve_creator"}
              /\ Begin(r, op, b, NoArg)
  BY DEF BeginSome
<1>2. op \in AllOps /\ status[b] # "absent"
  BY <1>1, OpsAssumption DEF Exists
<1>3. ProviderEventId("paid", b) \in EventIds /\ WebhookIds \subseteq EventIds
  BY DEF EventIds, EventTypes
<1>4. \E arg \in Keys \cup EventIds \cup {NoArg} :
        /\ Begin(r, op, b, arg)
        /\ op = "pay" => arg \in Keys
        /\ op \in {"paid", "failed"} =>
             arg \in WebhookIds \/ (op = "paid" /\ arg = ProviderEventId("paid", b))
        /\ op \in {"resolve_client", "resolve_creator"} => dispute[b] # "absent"
  BY <1>1, <1>3
<1>5. PICK arg \in Keys \cup EventIds \cup {NoArg} :
        /\ Begin(r, op, b, arg)
        /\ op = "pay" => arg \in Keys
        /\ op \in {"paid", "failed"} =>
             arg \in WebhookIds \/ (op = "paid" /\ arg = ProviderEventId("paid", b))
        /\ op \in {"resolve_client", "resolve_creator"} => dispute[b] # "absent"
  BY <1>4
<1> DEFINE t == Fresh(op, b, arg, FALSE)
<1>6. t.op = op /\ t.b = b /\ t.arg = arg
  BY DEF Fresh, Idle
<1>7. tx' = [tx EXCEPT ![r] = tx'[r]] /\ tx'[r] = t /\ UNCHANGED <<vars, asked, faults>>
  <2>1. tx'[r] = [Idle EXCEPT !.pc = "lock", !.op = op, !.b = b, !.arg = arg]
    BY <1>5 DEF Begin, SessionsInv, TxTypeOK
  <2>2. tx'[r] = t
    BY <2>1, BeginsFresh
  <2>3. QED
    BY <1>5, <2>1, <2>2 DEF Begin
<1> HIDE DEF t
<1>8. Asks(t)
  BY <1>2, <1>5, <1>6 DEF Asks
<1>9. QED
  BY <1>7, <1>8, FreshStep DEF t

LEMMA LockStep == ASSUME SessionsInv, NEW r \in Requests, TakeLock(r) PROVE SessionsInv'
<1> DEFINE t    == tx[r]
           lock == NextRow(t.op, t.held)
           n    == tx'[r]
<1>0. t \in Tx /\ t.pc = "lock" /\ Asks(t) /\ Holds(t)
  BY DEF SessionsInv, TxTypeOK, TakeLock, Sound
<1>1. /\ tx' = [tx EXCEPT ![r] = n]
      /\ n = [t EXCEPT !.pc = IF MoreRows(t.op, t.held) THEN "lock" ELSE "decide",
                       !.held = t.held \cup {lock},
                       !.sawStatus  = IF lock = "booking" THEN status[t.b] ELSE t.sawStatus,
                       !.sawPay     = IF lock = "payment" THEN payStatus[t.b] ELSE t.sawPay,
                       !.sawDispute = IF lock = "dispute" THEN dispute[t.b] ELSE t.sawDispute]
      /\ Free(lock, t.b)
      /\ UNCHANGED <<vars, asked, faults>>
  BY DEF TakeLock, SessionsInv, TxTypeOK, NextRow, MoreRows
<1>2. t.op \in AllOps /\ t.b \in Bookings /\ t.held \in HeldBefore(t.op)
  BY <1>0 DEF Asks, Holds
<1>3. /\ t.held \subseteq Locks /\ lock \in Locks
      /\ IF MoreRows(t.op, t.held)
           THEN t.held \cup {lock} \in HeldBefore(t.op)
           ELSE t.held \cup {lock} = LocksOf(t.op)
  BY <1>2, NextLock
<1> HIDE DEF lock, n
<1>4. /\ n.op = t.op /\ n.b = t.b /\ n.arg = t.arg /\ n.held = t.held \cup {lock}
      /\ n.pc = IF MoreRows(t.op, t.held) THEN "lock" ELSE "decide"
      /\ n.sawStatus = IF lock = "booking" THEN status[t.b] ELSE t.sawStatus
      /\ n.sawPay = IF lock = "payment" THEN payStatus[t.b] ELSE t.sawPay
      /\ n.sawDispute = IF lock = "dispute" THEN dispute[t.b] ELSE t.sawDispute
  BY <1>0, <1>1 DEF Tx
<1>5. status[t.b] \in BookingStatuses /\ payStatus[t.b] \in PaymentStatuses
        /\ dispute[t.b] \in DisputeStatuses
  BY <1>2 DEF SessionsInv, TxTypeOK, TypeOK
<1>6. n \in Tx
  BY <1>0, <1>1, <1>3, <1>5 DEF Tx, Steps
<1>7. Asks(n)
  BY <1>0, <1>4 DEF Asks
<1>8. Holds(n)
  BY <1>0, <1>3, <1>4 DEF Holds
<1>9. Sound(n) /\ ~Inserts(n)
  BY <1>4, <1>7, <1>8 DEF Sound, Stands, Inserts
<1>10. \A q \in Requests \ {r} : n.b = tx[q].b => n.held \cap tx[q].held = {}
  <2>1. \A q \in Requests \ {r} : t.b = tx[q].b => t.held \cap tx[q].held = {}
    BY DEF SessionsInv, Exclusive
  <2>2. \A q \in Requests : ~(tx[q].b = t.b /\ lock \in tx[q].held)
    BY <1>1 DEF Free, HasLock
  <2>3. QED
    BY <1>4, <2>1, <2>2
<1>11. QED
  BY <1>1, <1>6, <1>9, <1>10, QuietStep DEF SessionsInv, TxTypeOK, n

(* An accepted settlement or report of a payment is accepted by its status.*)
LEMMA AnsweredAccepts ==
  ASSUME NEW t, Granted(t), AsksProvider(t), t.op \notin {"paid", "failed"}
  PROVE  t.sawPay = "held" /\ Accepts(t.sawPay, EventType[t.op], StatusAtStaging(t))
  BY Tables DEF Granted, Allowed, AsksProvider, Accepts, StatusAtStaging, FinalPaymentStatuses

LEMMA DecideStep == ASSUME SessionsInv, NEW r \in Requests, Decide(r) PROVE SessionsInv'
<1> DEFINE t    == tx[r]
           step == IF AsksProvider(t) /\ ~t.retrying THEN "provider"
                   ELSE IF Stages(t) THEN "check" ELSE "commit"
           n    == [t EXCEPT !.pc = step]
<1>1. /\ t.pc = "decide" /\ Allowed(t) /\ Goto(r, step)
      /\ UNCHANGED <<vars, asked, faults>> /\ t \in Tx
  BY DEF Decide, SessionsInv, TxTypeOK
<1>2. Granted(n)
  BY <1>1 DEF Granted, Allowed, Tx
<1>3. /\ n.pc = step
      /\ AsksProvider(n) <=> AsksProvider(t)
      /\ Stages(n) <=> Stages(t)
  BY <1>1 DEF Stages, AsksProvider, Tx
<1>4. Stands(n)
  BY <1>2, <1>3 DEF Stands, Stages
<1>5. step \in Steps \ {"idle", "lock"}
  BY DEF Steps
<1>6. step = "commit" => ~Stages(t)
  BY DEF Stages
<1>7. QED
  BY <1>1, <1>4, <1>5, <1>6, GotoStep DEF SessionsInv, TxTypeOK

LEMMA AskStep == ASSUME SessionsInv, NEW r \in Requests, AskProvider(r) PROVE SessionsInv'
<1> DEFINE t == tx[r]
           n == [t EXCEPT !.pc = "check"]
<1>1. /\ t.pc = "provider" /\ t \in Tx /\ Goto(r, "check")
      /\ UNCHANGED <<vars, faults>> /\ asked' = CountCall(<<EventType[t.op], t.b>>)
      /\ Asks(t) /\ Stands(t)
  BY DEF AskProvider, SessionsInv, TxTypeOK, Sound
<1>2. EventType[t.op] \in Settlements /\ t.b \in Bookings
  BY <1>1, Tables DEF Asks, Stands, AsksProvider, Settlements
<1>3. asked' \in [Settlements \X Bookings -> 0..(MaxFaults + 2)]
  BY <1>1, <1>2, CountCallType DEF SessionsInv, TxTypeOK
<1>4. Stands(n)
  BY <1>1 DEF Stands, Granted, Allowed, Stages, AsksProvider, Tx
<1>5. "check" \in Steps \ {"idle", "lock"}
  BY DEF Steps
<1>6. QED
  BY <1>1, <1>3, <1>4, <1>5, GotoStep

LEMMA ProviderFailsStep ==
  ASSUME SessionsInv, NEW r \in Requests, ProviderFails(r)
  PROVE  SessionsInv'
<1> DEFINE t == tx[r]
<1>1. /\ t.pc = "provider" /\ End(r) /\ UNCHANGED vars
      /\ faults < MaxFaults /\ faults' = faults + 1
      /\ asked' \in {asked, CountCall(<<EventType[t.op], t.b>>)}
      /\ Asks(t) /\ Stands(t)
  BY DEF ProviderFails, SessionsInv, Sound
<1>2. EventType[t.op] \in Settlements /\ t.b \in Bookings
  BY <1>1, Tables DEF Asks, Stands, AsksProvider, Settlements
<1>3. asked' \in [Settlements \X Bookings -> 0..(MaxFaults + 2)]
  BY <1>1, <1>2, CountCallType DEF SessionsInv, TxTypeOK
<1>4. faults' \in 0..MaxFaults
  BY <1>1, OpsAssumption DEF SessionsInv, TxTypeOK
<1>5. QED
  BY <1>1, <1>3, <1>4, EndStep

LEMMA CheckStep == ASSUME SessionsInv, NEW r \in Requests, CheckEvent(r) PROVE SessionsInv'
<1> DEFINE t == tx[r]
           n == [t EXCEPT !.pc = "insert"]
<1>1. t.pc = "check" /\ t \in Tx /\ UNCHANGED <<vars, asked, faults>> /\ Stands(t)
  BY DEF CheckEvent, SessionsInv, TxTypeOK, Sound
<1>2. CASE End(r)
  BY <1>1, <1>2, EndStep DEF SessionsInv, TxTypeOK
<1>3. CASE Goto(r, "insert") /\ Accepts(t.sawPay, EventType[t.op], StatusAtStaging(t))
  <2>1. Stands(n)
    BY <1>1, <1>3
    DEF Stands, Granted, Allowed, Stages, AsksProvider, StatusAtStaging, Accepts, Tx
  <2>2. "insert" \in Steps \ {"idle", "lock"}
    BY DEF Steps
  <2>3. QED
    BY <1>1, <1>3, <2>1, <2>2, GotoStep DEF SessionsInv, TxTypeOK
<1>4. QED
  BY <1>2, <1>3 DEF CheckEvent, EventOf

LEMMA InsertStep == ASSUME SessionsInv, NEW r \in Requests, InsertEvent(r) PROVE SessionsInv'
<1> DEFINE t == tx[r]
           n == [t EXCEPT !.pc = "commit"]
<1>1. /\ t.pc = "insert" /\ t \in Tx /\ Goto(r, "commit") /\ ~InsertWaits(r)
      /\ \A f \in events : f.id # EventOf(t).id
      /\ UNCHANGED <<vars, asked, faults>> /\ Stands(t)
  BY DEF InsertEvent, SessionsInv, TxTypeOK, Sound
<1>2. /\ n.pc = "commit" /\ n.op = t.op /\ n.b = t.b /\ n.arg = t.arg
      /\ n.sawStatus = t.sawStatus /\ n.sawPay = t.sawPay /\ n.sawDispute = t.sawDispute
  BY <1>1 DEF Tx
<1> HIDE DEF n
<1>3. /\ EventOf(n) = EventOf(t) /\ (Stages(n) <=> Stages(t))
      /\ StatusAtStaging(n) = StatusAtStaging(t) /\ (Granted(t) => Granted(n))
  BY <1>2 DEF EventOf, Stages, AsksProvider, StatusAtStaging, Granted, Allowed
<1>4. Stands(n)
  BY <1>1, <1>2, <1>3 DEF Stands
<1>5. "commit" \in Steps \ {"idle", "lock"}
  BY DEF Steps
<1>6. QED
  BY <1>1, <1>4, <1>5, GotoStep DEF SessionsInv, TxTypeOK, n

LEMMA ConflictStep ==
  ASSUME SessionsInv, NEW r \in Requests, InsertConflict(r)
  PROVE  SessionsInv'
<1> DEFINE t == tx[r]
<1>1. /\ t.pc = "insert" /\ t \in Tx /\ UNCHANGED <<vars, asked, faults>> /\ Asks(t)
      /\ \/ /\ t.op = "complete"
            /\ tx' = [tx EXCEPT ![r] = [Idle EXCEPT !.pc = "lock", !.op = t.op, !.b = t.b,
                                                   !.retrying = TRUE]]
         \/ End(r)
  BY DEF InsertConflict, SessionsInv, TxTypeOK, Sound
<1>2. CASE End(r)
  BY <1>1, <1>2, EndStep DEF SessionsInv, TxTypeOK
<1>3. CASE /\ t.op = "complete"
           /\ tx' = [tx EXCEPT ![r] = [Idle EXCEPT !.pc = "lock", !.op = t.op, !.b = t.b,
                                                  !.retrying = TRUE]]
  <2> DEFINE n == Fresh(t.op, t.b, NoArg, TRUE)
  <2>1. tx'[r] = [Idle EXCEPT !.pc = "lock", !.op = t.op, !.b = t.b, !.retrying = TRUE]
    BY <1>3 DEF SessionsInv, TxTypeOK
  <2>2. n.op = t.op /\ n.b = t.b
    BY DEF Fresh, Idle
  <2> HIDE DEF n
  <2>3. Asks(n)
    BY <1>1, <1>3, <2>2 DEF Asks
  <2>4. tx' = [tx EXCEPT ![r] = tx'[r]] /\ tx'[r] = n
    BY <1>3, <2>1, RetriesFresh DEF n
  <2>5. QED
    BY <1>1, <2>3, <2>4, FreshStep DEF n
<1>4. QED
  BY <1>1, <1>2, <1>3

LEMMA EndingStep ==
  ASSUME SessionsInv, NEW r \in Requests, Refuse(r) \/ CommitFails(r) \/ Crash(r)
  PROVE  SessionsInv'
<1>1. /\ End(r) /\ UNCHANGED <<vars, asked>>
      /\ faults' = faults \/ (faults < MaxFaults /\ faults' = faults + 1)
  BY DEF Refuse, CommitFails, Crash
<1>2. faults' \in 0..MaxFaults
  BY <1>1, OpsAssumption DEF SessionsInv, TxTypeOK
<1>3. QED
  BY <1>1, <1>2, EndStep DEF SessionsInv, TxTypeOK
-----------------------------------------------------------------------------
LEMMA InsertBookingStep == ASSUME SessionsInv, InsertBooking PROVE Next /\ SessionsInv'
<1>1. PICK b \in Bookings, u \in Users, c \in Creators, d \in Dates, p \in Prices :
        CreateBooking(b, u, c, d, p)
  BY DEF InsertBooking
<1>2. UNCHANGED <<tx, asked, faults>>
  BY DEF InsertBooking
<1>3. Next
  BY <1>1 DEF Next, ClientStep
<1>4. SlotInv'
  BY <1>3, NextSlots DEF SessionsInv
<1>5. TxTypeOK'
  BY <1>2, <1>4 DEF SessionsInv, TxTypeOK, SlotInv, EscrowInv
<1>6. \A other \in Bookings \ {b} : RowsKept(other)
  BY <1>1 DEF CreateBooking, RowsKept, SessionsInv, TxTypeOK, TypeOK, paymentVars, workspaceVars
<1>7. ASSUME NEW q \in Requests PROVE Sound(tx[q])'
  <2>1. tx[q].pc = "idle" \/ (tx[q].b \in Bookings /\ status[tx[q].b] # "absent")
    BY DEF SessionsInv, Sound, Asks
  <2>2. tx[q].pc = "idle" \/ RowsKept(tx[q].b)
    BY <1>1, <1>6, <2>1 DEF CreateBooking, Exists
  <2>3. events' = events
    BY <1>1 DEF CreateBooking, paymentVars
  <2>4. QED
    BY <1>2, <2>2, <2>3, SoundKept DEF SessionsInv
<1>8. Exclusive' /\ InsertedOnce'
  BY <1>2 DEF SessionsInv, Exclusive, InsertedOnce, Inserts, Stages, AsksProvider, EventOf
<1>9. QED
  BY <1>3, <1>4, <1>5, <1>7, <1>8 DEF SessionsInv
-----------------------------------------------------------------------------
(* A booking that exists has a client and a creator.                       *)
LEMMA Actors ==
  ASSUME SlotInv, NEW b \in Bookings, status[b] # "absent"
  PROVE  /\ \E u \in Users : IsClient(b, u)
         /\ \E u \in Users : IsCreator(b, u)
<1>1. terms[b] \in Terms
  BY DEF SlotInv, HaveTerms
<1>2. terms[b].client \in Users /\ Owner[terms[b].creator] \in Users
  BY <1>1, ConstantsAssumption DEF Terms
<1>3. QED
  BY <1>2 DEF IsClient, IsCreator, Exists

(* What a request that commits knows of the committed rows.                *)
LEMMA Committing ==
  ASSUME SessionsInv, NEW r \in Requests, Commit(r)
  PROVE  LET t == tx[r] IN
         /\ TypeOK /\ t.op \in AllOps /\ t.b \in Bookings /\ status[t.b] # "absent"
         /\ Asks(t) /\ Granted(t) /\ Unique(t)
         /\ t.held = LocksOf(t.op) /\ t.sawStatus = status[t.b]
         /\ t.op \in {"paid", "failed", "start", "deliver", "complete", "cancel",
                      "resolve_client", "resolve_creator"} => t.sawPay = payStatus[t.b]
         /\ t.op \in {"resolve_client", "resolve_creator"} => t.sawDispute = dispute[t.b]
         /\ Stages(t) => /\ Accepts(payStatus[t.b], EventType[t.op], StatusAtStaging(t))
                         /\ \A e \in events : e.id # EventOf(t).id
<1> DEFINE t == tx[r]
<1>1. t.pc = "commit" /\ Unique(t) /\ Asks(t) /\ Holds(t) /\ Stands(t) /\ TypeOK
  BY DEF Commit, SessionsInv, TxTypeOK, Sound
<1>2. t.op \in AllOps /\ t.b \in Bookings /\ status[t.b] # "absent"
  BY <1>1 DEF Asks
<1>3. t.held = LocksOf(t.op) /\ "booking" \in t.held
  BY <1>1 DEF Holds, LocksOf
<1>4. /\ t.op \in {"paid", "failed", "start", "deliver", "complete", "cancel",
                   "resolve_client", "resolve_creator"} => "payment" \in t.held
      /\ t.op \in {"resolve_client", "resolve_creator"} => "dispute" \in t.held
  BY <1>3 DEF LocksOf
<1>5. Stages(t) => "payment" \in t.held
  BY <1>4 DEF Stages, AsksProvider
<1>6. QED
  BY <1>1, <1>2, <1>3, <1>4, <1>5 DEF Holds, Stands

(* What a commit writes beside the status of the booking.                  *)
LEMMA CommitWrites ==
  ASSUME SessionsInv, NEW r \in Requests, Commit(r)
  PROVE  LET t == tx[r] IN
         /\ terms' = terms
         /\ t.op \notin DOMAIN Target => status' = status
         /\ t.op \in DOMAIN Target => status' = [status EXCEPT ![t.b] = Target[t.op]]
         /\ Stages(t) =>
              StageEvent(t.b, EventOf(t).id, EventType[t.op], StatusAtStaging(t))
         /\ ~Stages(t) /\ t.op # "pay" =>
              /\ UNCHANGED <<payKey, events>>
              /\ ~(t.op = "cancel" /\ t.sawPay = "pending") => payStatus' = payStatus
         /\ t.op \notin {"dispute", "resolve_client", "resolve_creator"} => dispute' = dispute
         /\ t.op \notin {"add", "remove"} => deliverables' = deliverables
         /\ t.op # "converse" => conversations' = conversations
         /\ t.op \notin DOMAIN Notice => notices' = notices
         /\ t.op \in DOMAIN Notice => Notify(t.b, Notice[t.op])
<1> DEFINE t == tx[r]
<1>1. TypeOK /\ t.b \in Bookings
  BY Committing
<1>2. Stages(t) => StageEvent(t.b, EventOf(t).id, EventType[t.op], StatusAtStaging(t))
  <2>1. Stages(t) => t.op # "pay"
    BY DEF Stages, AsksProvider
  <2>2. EventOf(t) = [id |-> EventOf(t).id, payment |-> t.b, type |-> EventType[t.op]]
    BY DEF EventOf
  <2>3. QED
    BY <2>1, <2>2, Committing DEF Commit, WritePayment, StageEvent, MayStage
<1>3. ~Stages(t) /\ t.op # "pay" =>
        /\ UNCHANGED <<payKey, events>>
        /\ ~(t.op = "cancel" /\ t.sawPay = "pending") => payStatus' = payStatus
  BY <1>1 DEF Commit, WritePayment, TypeOK
<1>4. t.op \notin {"dispute", "resolve_client", "resolve_creator"} => dispute' = dispute
  BY <1>1 DEF Commit, TypeOK
<1>5. /\ t.op \notin {"add", "remove"} => deliverables' = deliverables
      /\ t.op # "converse" => conversations' = conversations
      /\ t.op \notin DOMAIN Notice => notices' = notices
      /\ t.op \in DOMAIN Notice => Notify(t.b, Notice[t.op])
  BY <1>1 DEF Commit, WriteWorkspace, TypeOK
<1>6. /\ terms' = terms
      /\ t.op \notin DOMAIN Target => status' = status
      /\ t.op \in DOMAIN Target => status' = [status EXCEPT ![t.b] = Target[t.op]]
  BY DEF Commit
<1>7. QED
  BY <1>2, <1>3, <1>4, <1>5, <1>6

(* What the decision of each operation rests on.                           *)
LEMMA GrantedCases ==
  ASSUME NEW t, Granted(t)
  PROVE  /\ t.op \in {"accept", "reject"} => t.sawStatus = "requested"
         /\ t.op = "pay" =>
              payStatus[t.b] = "absent" /\ t.sawStatus = "accepted" /\ terms[t.b].price > 0
         /\ t.op = "start" => t.sawStatus = "confirmed" /\ t.sawPay = "held"
         /\ t.op = "deliver" =>
              t.sawStatus = "in_progress" /\ t.sawPay = "held" /\ deliverables[t.b] > 0
         /\ t.op = "complete" => t.sawStatus = "delivered" /\ t.sawPay = "held"
         /\ t.op = "cancel" =>
              \/ t.sawStatus \in {"requested", "accepted"} /\ t.sawPay = "absent"
              \/ t.sawStatus = "awaiting_payment" /\ t.sawPay \in {"pending", "failed"}
              \/ t.sawStatus = "confirmed" /\ t.sawPay = "held"
         /\ t.op = "dispute" =>
              t.sawStatus \in {"confirmed", "in_progress", "delivered"} /\ dispute[t.b] = "absent"
         /\ t.op \in {"resolve_client", "resolve_creator"} => t.sawDispute = "open"
         /\ t.op = "add" => t.sawStatus = "in_progress" /\ deliverables[t.b] < MaxDeliverables
         /\ t.op = "remove" => t.sawStatus = "in_progress" /\ deliverables[t.b] > 0
         /\ t.op = "converse" =>
              /\ t.b \notin conversations
              /\ t.sawStatus \in {"confirmed", "in_progress", "delivered", "disputed"}
  BY DEF Granted, Allowed

(* The commit of a request is the atomic operation it asked for.           *)
LEMMA CommitImplements == ASSUME SessionsInv, NEW r \in Requests, Commit(r) PROVE [Next]_vars
<1> DEFINE t == tx[r]
           b == tx[r].b
<1>1. /\ TypeOK /\ t.op \in AllOps /\ b \in Bookings /\ status[b] # "absent"
      /\ Asks(t) /\ Granted(t) /\ Unique(t) /\ t.sawStatus = status[b]
      /\ t.op \in {"paid", "failed", "start", "deliver", "complete", "cancel",
                   "resolve_client", "resolve_creator"} => t.sawPay = payStatus[b]
      /\ t.op \in {"resolve_client", "resolve_creator"} => t.sawDispute = dispute[b]
  BY Committing
<1>2. /\ terms' = terms
      /\ t.op \notin DOMAIN Target => status' = status
      /\ t.op \in DOMAIN Target => status' = [status EXCEPT ![b] = Target[t.op]]
      /\ Stages(t) => StageEvent(b, EventOf(t).id, EventType[t.op], StatusAtStaging(t))
      /\ ~Stages(t) /\ t.op # "pay" =>
           /\ UNCHANGED <<payKey, events>>
           /\ ~(t.op = "cancel" /\ t.sawPay = "pending") => payStatus' = payStatus
      /\ t.op \notin {"dispute", "resolve_client", "resolve_creator"} => dispute' = dispute
      /\ t.op \notin {"add", "remove"} => deliverables' = deliverables
      /\ t.op # "converse" => conversations' = conversations
      /\ t.op \notin DOMAIN Notice => notices' = notices
      /\ t.op \in DOMAIN Notice => Notify(b, Notice[t.op])
  BY CommitWrites
<1>3. PICK u \in Users : IsClient(b, u)
  BY <1>1, Actors DEF SessionsInv
<1>4. PICK v \in Users : IsCreator(b, v)
  BY <1>1, Actors DEF SessionsInv
<1>5. ASSUME ClientStep(b, u) \/ CreatorStep(b, v) \/ SharedStep(b, u) \/ SystemStep(b)
      PROVE  Next
  BY <1>1, <1>5 DEF Next
<1>6. t.op \notin {"paid", "failed", "complete", "cancel", "resolve_client", "resolve_creator"}
        => ~Stages(t)
  BY DEF Stages, AsksProvider
<1>7. CASE t.op = "accept"
  <2>1. AcceptBooking(b, v)
    BY <1>1, <1>2, <1>4, <1>6, <1>7, GrantedCases, Tables
    DEF AcceptBooking, MayAccept, Unique, paymentVars, workspaceVars
  <2>2. QED
    BY <1>5, <2>1 DEF CreatorStep
<1>8. CASE t.op = "reject"
  <2>1. RejectBooking(b, v)
    BY <1>1, <1>2, <1>4, <1>6, <1>8, GrantedCases, Tables
    DEF RejectBooking, MayReject, paymentVars, workspaceVars
  <2>2. QED
    BY <1>5, <2>1 DEF CreatorStep
<1>9. CASE t.op = "pay"
  <2>1. /\ payStatus' = [payStatus EXCEPT ![b] = "pending"]
        /\ payKey' = [payKey EXCEPT ![b] = t.arg]
        /\ events' = events
    BY <1>6, <1>9 DEF Commit, WritePayment
  <2>2. t.arg \in Keys /\ CreatePayment(b, u, t.arg)
    BY <1>1, <1>2, <1>3, <1>9, <2>1, GrantedCases, Tables
    DEF CreatePayment, MayCreatePayment, Asks, Unique, workspaceVars
  <2>3. QED
    BY <1>5, <2>2 DEF ClientStep
<1>10. CASE t.op \in {"paid", "failed"}
  <2>1. /\ EventOf(t).id = t.arg /\ EventType[t.op] = t.op /\ StatusAtStaging(t) = status[b]
    BY <1>1, <1>10, Tables DEF EventOf, StatusAtStaging
  <2>2. StageEvent(b, t.arg, t.op, status[b])
    BY <1>2, <1>10, <2>1 DEF Stages
  <2>3. status' = [status EXCEPT ![b] = IF t.op = "paid" THEN "confirmed" ELSE @]
    BY <1>1, <1>2, <1>10, Tables DEF TypeOK
  <2>4. ProviderReports(b, t.arg, t.op)
    BY <1>1, <1>2, <1>10, <2>2, <2>3, Tables DEF ProviderReports, Exists, workspaceVars
  <2>5. CASE t.arg \in WebhookIds
    <3>1. SystemStep(b)
      BY <1>10, <2>4, <2>5 DEF SystemStep, Resolutions, ApplyWebhook
    <3>2. QED
      BY <1>5, <3>1
  <2>6. CASE t.op = "paid" /\ t.arg = ProviderEventId("paid", b)
    <3>1. MayStage(b, ProviderEventId("paid", b), "paid", status[b])
      BY <2>2, <2>6 DEF StageEvent
    <3>2. SimulatePaid(b, u)
      BY <1>3, <2>4, <2>6, <3>1 DEF SimulatePaid, MaySimulatePaid
    <3>3. QED
      BY <1>5, <3>2 DEF ClientStep
  <2>7. QED
    BY <1>1, <1>10, <2>5, <2>6 DEF Asks
<1>11. CASE t.op = "start"
  <2>1. StartBooking(b, v)
    BY <1>1, <1>2, <1>4, <1>6, <1>11, GrantedCases, Tables
       DEF StartBooking, MayStart, paymentVars
  <2>2. QED
    BY <1>5, <2>1 DEF CreatorStep
<1>12. CASE t.op = "deliver"
  <2>1. DeliverBooking(b, v)
    BY <1>1, <1>2, <1>4, <1>6, <1>12, GrantedCases, Tables
       DEF DeliverBooking, MayDeliver, paymentVars
  <2>2. QED
    BY <1>5, <2>1 DEF CreatorStep
<1>13. CASE t.op = "complete"
  <2>1. /\ Stages(t) /\ EventOf(t).id = ProviderEventId("released", b)
        /\ EventType[t.op] = "released" /\ StatusAtStaging(t) = "completed"
    BY <1>13, Tables DEF Stages, AsksProvider, EventOf, StatusAtStaging
  <2>2. StageEvent(b, ProviderEventId("released", b), "released", "completed")
    BY <1>2, <2>1
  <2>3. MayComplete(b, u)
    BY <1>1, <1>3, <1>13, <2>2, GrantedCases DEF MayComplete, StageEvent
  <2>4. CompleteBooking(b, u)
    BY <1>1, <1>2, <1>13, <2>2, <2>3, Tables DEF CompleteBooking
  <2>5. QED
    BY <1>5, <2>4 DEF ClientStep
<1>14. CASE t.op = "cancel"
  <2>1. CASE status[b] = "confirmed"
    <3>1. /\ Stages(t) /\ EventOf(t).id = ProviderEventId("refunded", b)
          /\ EventType[t.op] = "refunded" /\ StatusAtStaging(t) = status[b]
      BY <1>1, <1>14, <2>1, Tables DEF Stages, AsksProvider, EventOf, StatusAtStaging
    <3>2. StageEvent(b, ProviderEventId("refunded", b), "refunded", status[b])
      BY <1>2, <3>1
    <3>3. MayCancel(b, u)
      BY <1>1, <1>3, <1>14, <2>1, <3>2, GrantedCases DEF MayCancel, ActiveStatuses, StageEvent
    <3>4. CancelBooking(b, u)
      BY <1>1, <1>2, <1>14, <2>1, <3>2, <3>3, Tables DEF CancelBooking, CancelPayment, workspaceVars
    <3>5. QED
      BY <1>5, <3>4 DEF SharedStep
  <2>2. CASE status[b] # "confirmed"
    <3>1. ~Stages(t)
      BY <1>1, <1>14, <2>2 DEF Stages, AsksProvider
    <3>2. payStatus' = [payStatus EXCEPT ![b] = IF @ = "pending" THEN "expired" ELSE @]
      BY <1>1, <1>14, <3>1 DEF Commit, WritePayment
    <3>3. CancelPayment(b)
      BY <1>1, <1>2, <1>14, <2>2, <3>1, <3>2, GrantedCases DEF CancelPayment, paymentVars
    <3>4. MayCancel(b, u)
      BY <1>1, <1>3, <1>14, <2>2, GrantedCases DEF MayCancel, ActiveStatuses
    <3>5. CancelBooking(b, u)
      BY <1>1, <1>2, <1>14, <3>3, <3>4, Tables DEF CancelBooking, workspaceVars
    <3>6. QED
      BY <1>5, <3>5 DEF SharedStep
  <2>3. QED
    BY <2>1, <2>2
<1>15. CASE t.op = "dispute"
  <2>1. dispute' = [dispute EXCEPT ![b] = "open"]
    BY <1>15 DEF Commit
  <2>2. OpenDispute(b, u)
    BY <1>1, <1>2, <1>3, <1>6, <1>15, <2>1, GrantedCases, Tables
       DEF OpenDispute, MayOpenDispute, paymentVars
  <2>3. QED
    BY <1>5, <2>2 DEF ClientStep
<1>16. CASE t.op \in {"resolve_client", "resolve_creator"}
  <2> DEFINE resolution == Notice[t.op]
             type  == EventType[t.op]
             final == Target[t.op]
  <2>1. /\ resolution \in {"resolved_client", "resolved_creator"}
        /\ type = IF resolution = "resolved_client" THEN "refunded" ELSE "released"
        /\ final = IF resolution = "resolved_client" THEN "cancelled" ELSE "completed"
        /\ t.op \in DOMAIN Target /\ t.op \in DOMAIN Notice
    BY <1>16, Tables
  <2>2. dispute' = [dispute EXCEPT ![b] = resolution]
    BY <1>16, Tables DEF Commit
  <2>3. /\ Stages(t) <=> payStatus[b] = "held"
        /\ Stages(t) => EventOf(t).id = ProviderEventId(type, b) /\ StatusAtStaging(t) = final
    BY <1>1, <1>16 DEF Stages, AsksProvider, EventOf, StatusAtStaging
  <2>4. IF payStatus[b] = "held"
          THEN StageEvent(b, ProviderEventId(type, b), type, final)
          ELSE UNCHANGED paymentVars
    BY <1>2, <1>16, <2>3 DEF paymentVars
  <2>5. dispute[b] = "open"
    BY <1>1, <1>16, GrantedCases
  <2>6. /\ Notify(b, resolution) /\ status' = [status EXCEPT ![b] = final]
        /\ UNCHANGED <<terms, deliverables, conversations>>
    BY <1>2, <1>16, <2>1
  <2> HIDE DEF resolution, type, final
  <2>7. type = ResolvedType(resolution) /\ final = ResolvedStatus(resolution)
    BY <2>1 DEF ResolvedType, ResolvedStatus
  <2>8. MayResolve(b, resolution)
    BY <2>4, <2>5, <2>7 DEF MayResolve, StageEvent
  <2>9. ResolveDispute(b, resolution)
    BY <2>2, <2>4, <2>6, <2>7, <2>8 DEF ResolveDispute
  <2>10. SystemStep(b)
    BY <2>1, <2>9 DEF SystemStep, Resolutions
  <2>11. QED
    BY <1>5, <2>10
<1>17. CASE t.op = "add"
  <2>1. deliverables' = [deliverables EXCEPT ![b] = @ + 1]
    BY <1>17 DEF Commit, WriteWorkspace
  <2>2. AddDeliverable(b, v)
    BY <1>1, <1>2, <1>4, <1>6, <1>17, <2>1, GrantedCases, Tables
    DEF AddDeliverable, bookingVars, paymentVars
  <2>3. QED
    BY <1>5, <2>2 DEF CreatorStep
<1>18. CASE t.op = "remove"
  <2>1. deliverables' = [deliverables EXCEPT ![b] = @ - 1]
    BY <1>18 DEF Commit, WriteWorkspace
  <2>2. DeleteDeliverable(b, v)
    BY <1>1, <1>2, <1>4, <1>6, <1>18, <2>1, GrantedCases, Tables
    DEF DeleteDeliverable, bookingVars, paymentVars
  <2>3. QED
    BY <1>5, <2>2 DEF CreatorStep
<1>19. CASE t.op = "converse"
  <2>1. conversations' = conversations \cup {b}
    BY <1>19 DEF Commit, WriteWorkspace
  <2>2. OpenConversation(b, u)
    BY <1>1, <1>2, <1>3, <1>6, <1>19, <2>1, GrantedCases, Tables
    DEF OpenConversation, MayOpenConversation, bookingVars, paymentVars
  <2>3. QED
    BY <1>5, <2>2 DEF SharedStep
<1>20. QED
  BY <1>1, <1>7, <1>8, <1>9, <1>10, <1>11, <1>12, <1>13, <1>14, <1>15, <1>16, <1>17, <1>18, <1>19
  DEF AllOps

(* A commit writes the rows of its own booking only.                       *)
LEMMA CommitKeepsRows ==
  ASSUME SessionsInv, NEW r \in Requests, Commit(r), NEW other \in Bookings \ {tx[r].b}
  PROVE  RowsKept(other)
<1> DEFINE t == tx[r]
<1>1. TypeOK /\ t.b \in Bookings
  BY Committing
<1>2. status'[other] = status[other] /\ terms'[other] = terms[other]
  BY <1>1, CommitWrites DEF TypeOK
<1>3. payStatus'[other] = payStatus[other] /\ dispute'[other] = dispute[other]
  BY <1>1 DEF Commit, WritePayment, TypeOK
<1>4. /\ deliverables'[other] = deliverables[other]
      /\ other \in conversations' <=> other \in conversations
  BY <1>1 DEF Commit, WriteWorkspace, TypeOK
<1>5. QED
  BY <1>2, <1>3, <1>4 DEF RowsKept

LEMMA CommitStep == ASSUME SessionsInv, NEW r \in Requests, Commit(r) PROVE SessionsInv'
<1> DEFINE t == tx[r]
<1>1. /\ TypeOK /\ t.op \in AllOps /\ t.b \in Bookings /\ status[t.b] # "absent"
      /\ "booking" \in t.held /\ Unique(t)
      /\ t.op \in {"resolve_client", "resolve_creator"} => "dispute" \in t.held
  BY Committing DEF LocksOf
<1>2. /\ \A q \in Requests \ {r} : tx'[q] = tx[q]
      /\ tx'[r] = Idle /\ tx' \in [Requests -> Tx]
  BY IdleType DEF Commit, End, SessionsInv, TxTypeOK
<1>3. SlotInv'
  BY CommitImplements, NextSlots DEF SessionsInv
<1>4. TxTypeOK'
  BY <1>2, <1>3 DEF Commit, SessionsInv, TxTypeOK, SlotInv, EscrowInv
<1>5. Exclusive' /\ InsertedOnce'
  <2>1. Exclusive'
    BY <1>2 DEF SessionsInv, Exclusive, Idle
  <2>2. InsertedOnce'
    BY <1>2 DEF SessionsInv, InsertedOnce, Inserts, Stages, AsksProvider, EventOf, Idle
  <2>3. QED
    BY <2>1, <2>2
<1>6. Sound(tx[r])'
  <2>1. tx'[r] = Idle /\ tx'[r].pc = "idle"
    BY <1>2 DEF Idle
  <2>2. QED
    BY <2>1 DEF Sound
<1>7. ASSUME NEW q \in Requests \ {r} PROVE Sound(tx[q])'
  <2>0. Sound(tx[q]) /\ tx'[q] = tx[q] /\ TypeOK'
    BY <1>2, <1>4 DEF SessionsInv, TxTypeOK
  <2>1. Inserts(tx[q]) => \A e \in events' : e \in events \/ e.id # EventOf(tx[q]).id
    <3>1. events' = IF Stages(t) THEN events \cup {EventOf(t)} ELSE events
      BY DEF Commit, WritePayment
    <3>2. Stages(t) /\ Inserts(tx[q]) => EventOf(t).id # EventOf(tx[q]).id
      BY DEF SessionsInv, InsertedOnce, Inserts, Commit
    <3>3. QED
      BY <3>1, <3>2
  <2>2. CASE tx[q].pc = "idle" \/ tx[q].b # t.b
    <3>1. tx[q].pc = "idle" \/ RowsKept(tx[q].b)
      BY <2>0, <2>2, CommitKeepsRows DEF Sound, Asks
    <3>2. QED
      BY <2>0, <2>1, <3>1, SoundKept
  <2>3. CASE tx[q].pc # "idle" /\ tx[q].b = t.b
    <3>1. Asks(tx[q]) /\ Holds(tx[q])
      BY <2>0, <2>3 DEF Sound
    <3>2. t.held \cap tx[q].held = {}
      BY <2>3 DEF SessionsInv, Exclusive
    <3>3. tx[q].pc = "lock" /\ tx[q].held \subseteq {"dispute"}
      BY <1>1, <3>1, <3>2, BookingLocked DEF Asks
    <3>4. "dispute" \in tx[q].held => dispute'[t.b] = dispute[t.b]
      <4>1. "dispute" \in tx[q].held =>
              tx[q].op \in {"resolve_client", "resolve_creator"}
                /\ t.op \notin {"resolve_client", "resolve_creator"}
        BY <1>1, <3>1, <3>2, <3>3 DEF Holds, HeldBefore
      <4>2. tx[q].op \in {"resolve_client", "resolve_creator"} => t.op # "dispute"
        BY <1>1, <2>3, <3>1 DEF Asks, Unique
      <4>3. QED
        BY <4>1, <4>2, CommitWrites
    <3>5. Holds(tx[q])'
      BY <2>0, <2>3, <3>1, <3>3, <3>4 DEF Holds
    <3>6. status'[t.b] # "absent" /\ (dispute[t.b] # "absent" => dispute'[t.b] # "absent")
      <4>1. status'[t.b] # "absent"
        BY <1>1, CommitWrites, Tables DEF TypeOK
      <4>2. dispute[t.b] # "absent" => dispute'[t.b] # "absent"
        BY <1>1 DEF Commit, TypeOK
      <4>3. QED
        BY <4>1, <4>2
    <3>7. Asks(tx[q])'
      BY <2>0, <2>3, <3>1, <3>6 DEF Asks
    <3>8. Stands(tx[q])'
      BY <2>0, <3>3 DEF Stands
    <3>9. QED
      BY <2>0, <2>3, <3>5, <3>7, <3>8 DEF Sound
  <2>4. QED
    BY <2>2, <2>3
<1>8. QED
  BY <1>3, <1>4, <1>5, <1>6, <1>7 DEF SessionsInv
-----------------------------------------------------------------------------
LEMMA TxInitSessions == TxInit => SessionsInv
<1> SUFFICES ASSUME TxInit PROVE SessionsInv
  OBVIOUS
<1>1. SlotInv
  BY InitEscrow DEF TxInit, Init, SlotInv, HaveTerms, OneLiveBookingPerDate, Live
<1>2. TxTypeOK
  BY <1>1, IdleType, OpsAssumption DEF TxInit, TxTypeOK, SlotInv, EscrowInv
<1>3. \A r \in Requests : tx[r] = Idle /\ tx[r].pc = "idle" /\ tx[r].held = {}
  BY DEF TxInit, Idle
<1>4. (\A r \in Requests : Sound(tx[r])) /\ Exclusive /\ InsertedOnce
  BY <1>3 DEF Sound, Exclusive, InsertedOnce, Inserts
<1>5. QED
  BY <1>1, <1>2, <1>4 DEF SessionsInv

(* Every step of the sessions keeps them sound, and is a step of the       *)
(* services or leaves the committed rows alone.                            *)
LEMMA TxNextSessions ==
  SessionsInv /\ [TxNext]_txVars => SessionsInv' /\ [Next]_vars
<1> SUFFICES ASSUME SessionsInv, [TxNext]_txVars PROVE SessionsInv' /\ [Next]_vars
  OBVIOUS
<1>1. CASE InsertBooking
  BY <1>1, InsertBookingStep
<1>2. ASSUME NEW r \in Requests, Commit(r) PROVE SessionsInv' /\ [Next]_vars
  BY <1>2, CommitStep, CommitImplements
<1>3. ASSUME NEW r \in Requests,
             \/ BeginSome(r) \/ TakeLock(r) \/ Refuse(r) \/ Decide(r) \/ AskProvider(r)
             \/ CheckEvent(r) \/ InsertEvent(r) \/ InsertConflict(r) \/ CommitFails(r)
             \/ ProviderFails(r) \/ Crash(r)
      PROVE  SessionsInv' /\ UNCHANGED vars
  <2>1. SessionsInv'
    BY <1>3, BeginStep, LockStep, DecideStep, AskStep, ProviderFailsStep, CheckStep,
       InsertStep, ConflictStep, EndingStep
  <2>2. UNCHANGED vars
    BY <1>3
    DEF BeginSome, Begin, TakeLock, Refuse, Decide, AskProvider, CheckEvent, InsertEvent,
        InsertConflict, CommitFails, ProviderFails, Crash
  <2>3. QED
    BY <2>1, <2>2
<1>4. CASE UNCHANGED txVars
  <2>1. SlotInv' /\ TypeOK'
    BY <1>4, NextSlots DEF SessionsInv, txVars, SlotInv, EscrowInv
  <2>2. ASSUME NEW q \in Requests PROVE Sound(tx[q])'
    <3>1. Sound(tx'[q])
      BY <1>4 DEF SessionsInv, txVars
    <3>2. QED
      BY <1>4, <3>1, SoundNow DEF txVars
  <2>3. QED
    BY <1>4, <2>1, <2>2
    DEF txVars, SessionsInv, TxTypeOK, Exclusive, InsertedOnce, Inserts, Stages, AsksProvider,
        EventOf
<1>5. QED
  BY <1>1, <1>2, <1>3, <1>4 DEF TxNext, Proceed

LEMMA SessionsInvariant == TxSpec => []SessionsInv
<1>1. SessionsInv /\ [TxNext]_txVars => SessionsInv'
  BY TxNextSessions
<1>2. QED
  BY <1>1, TxInitSessions, PTL DEF TxSpec

(* How far a request is on the way that all operations share: dispute,     *)
(* booking, payment, the event's id, and nothing more to wait for.         *)
RowRank == [dispute |-> 1, booking |-> 2, payment |-> 3]

RankOf(t) ==
  IF t.pc = "lock" THEN RowRank[NextRow(t.op, t.held)] ELSE IF t.pc = "insert" THEN 4 ELSE 5

(* A row is locked after those that are held.                              *)
LEMMA RowsInOrder ==
  ASSUME NEW op \in AllOps, NEW held \in HeldBefore(op)
  PROVE  /\ RowRank[NextRow(op, held)] \in 1..3
         /\ \A lock \in held : RowRank[lock] < RowRank[NextRow(op, held)]
<1>1. CASE op \in {"resolve_client", "resolve_creator"}
  <2>1. /\ LockOrder(op)[1] = "dispute" /\ LockOrder(op)[2] = "booking"
        /\ LockOrder(op)[3] = "payment"
        /\ held \in {{}, {"dispute"}, {"dispute", "booking"}}
    BY <1>1 DEF LockOrder, HeldBefore
  <2>2. CASE held = {}
    BY <2>1, <2>2, LockCounts DEF NextRow, RowRank
  <2>3. CASE held = {"dispute"}
    <3>1. NextRow(op, held) = "booking"
      BY <2>1, <2>3, LockCounts DEF NextRow
    <3>2. QED
      BY <2>3, <3>1 DEF RowRank
  <2>4. CASE held = {"dispute", "booking"}
    <3>1. NextRow(op, held) = "payment"
      BY <2>1, <2>4, LockCounts DEF NextRow
    <3>2. QED
      BY <2>4, <3>1 DEF RowRank
  <2>5. QED
    BY <2>1, <2>2, <2>3, <2>4
<1>2. CASE op \in {"paid", "failed", "start", "deliver", "complete", "cancel"}
  <2>1. /\ LockOrder(op)[1] = "booking" /\ LockOrder(op)[2] = "payment"
        /\ held \in {{}, {"booking"}}
    BY <1>2 DEF LockOrder, HeldBefore
  <2>2. CASE held = {}
    BY <2>1, <2>2, LockCounts DEF NextRow, RowRank
  <2>3. CASE held = {"booking"}
    <3>1. Cardinality(held) = 1
      BY <2>3, LockCounts
    <3>2. NextRow(op, held) = "payment"
      BY <2>1, <3>1 DEF NextRow
    <3>3. QED
      BY <2>3, <3>2 DEF RowRank
  <2>4. QED
    BY <2>1, <2>2, <2>3
<1>3. CASE op \notin {"resolve_client", "resolve_creator", "paid", "failed", "start", "deliver",
                      "complete", "cancel"}
  <2>1. LockOrder(op)[1] = "booking" /\ held = {}
    BY <1>3 DEF LockOrder, HeldBefore
  <2>2. QED
    BY <2>1, LockCounts DEF NextRow, RowRank
<1>4. QED
  BY <1>1, <1>2, <1>3

LEMMA RanksAreFive ==
  ASSUME SessionsInv, NEW r \in Requests
  PROVE  RankOf(tx[r]) \in 1..5
<1>1. CASE tx[r].pc = "lock"
  <2>1. tx[r].op \in AllOps /\ tx[r].held \in HeldBefore(tx[r].op)
    BY <1>1 DEF SessionsInv, Sound, Asks, Holds
  <2>2. QED
    BY <1>1, <2>1, RowsInOrder DEF RankOf
<1>2. CASE tx[r].pc # "lock"
  BY <1>2 DEF RankOf
<1>3. QED
  BY <1>1, <1>2

(* Whoever is waited for is further than the one who waits.                *)
LEMMA WaitsGoUp ==
  ASSUME SessionsInv, NEW r \in Requests, NEW other \in Requests, WaitsFor(r, other)
  PROVE  RankOf(tx[r]) < RankOf(tx[other])
<1>1. CASE tx[r].pc = "insert" /\ InsertWaitsFor(r, other)
  BY <1>1 DEF InsertWaitsFor, RankOf
<1>2. CASE tx[r].pc = "lock" /\ HasLock(other, NextRow(tx[r].op, tx[r].held), tx[r].b)
  <2>1. tx[r].op \in AllOps /\ tx[r].held \in HeldBefore(tx[r].op)
    BY <1>2 DEF SessionsInv, Sound, Asks, Holds
  <2>2. RankOf(tx[r]) \in 1..3 /\ RankOf(tx[r]) = RowRank[NextRow(tx[r].op, tx[r].held)]
    BY <1>2, <2>1, RowsInOrder DEF RankOf
  <2>3. NextRow(tx[r].op, tx[r].held) \in tx[other].held /\ tx[other].pc # "idle"
    BY <1>2 DEF HasLock, SessionsInv, Sound, Idle
  <2>4. CASE tx[other].pc = "lock"
    <3>1. tx[other].op \in AllOps /\ tx[other].held \in HeldBefore(tx[other].op)
      BY <2>4 DEF SessionsInv, Sound, Asks, Holds
    <3>2. QED
      BY <2>2, <2>3, <2>4, <3>1, RowsInOrder DEF RankOf
  <2>5. CASE tx[other].pc # "lock"
    BY <2>2, <2>5 DEF RankOf
  <2>6. QED
    BY <2>4, <2>5
<1>3. QED
  BY <1>1, <1>2 DEF WaitsFor

(* So whoever is furthest among some requests waits for none of them.      *)
LEMMA SomebodyGoesOn == SessionsInv => NobodyWaitsInACircle
<1> SUFFICES ASSUME SessionsInv, NEW waiting \in SUBSET Requests, waiting # {}
             PROVE  \E r \in waiting : \A other \in waiting : ~WaitsFor(r, other)
  BY DEF NobodyWaitsInACircle
<1> DEFINE At(n) == \E r \in waiting : RankOf(tx[r]) = n
<1>1. \A r \in waiting : RankOf(tx[r]) \in 1..5
  BY RanksAreFive
<1>2. PICK n \in 1..5 : At(n) /\ \A m \in 1..5 : At(m) => m <= n
  <2>1. At(1) \/ At(2) \/ At(3) \/ At(4) \/ At(5)
    BY <1>1
  <2> HIDE DEF At
  <2>2. QED
    BY <2>1
<1>3. PICK r \in waiting : RankOf(tx[r]) = n
  BY <1>2
<1>4. \A other \in waiting : RankOf(tx[other]) <= RankOf(tx[r])
  BY <1>1, <1>2, <1>3
<1>5. ASSUME NEW other \in waiting, WaitsFor(r, other) PROVE FALSE
  <2>1. RankOf(tx[r]) < RankOf(tx[other])
    BY <1>5, WaitsGoUp
  <2>2. QED
    BY <1>1, <1>4, <2>1
<1>6. QED
  BY <1>5

(* What a transaction read under a lock is committed when it uses it, and  *)
(* no requests, however many and on however many bookings, wait for each   *)
(* other in a circle.                                                      *)
THEOREM ReadsAreCurrent == TxSpec => []TxInv
<1>1. SessionsInv => TxInv
  <2> SUFFICES ASSUME SessionsInv, NEW r \in Requests
               PROVE  LET t == tx[r] IN
                      /\ "booking" \in t.held => t.sawStatus = status[t.b]
                      /\ "payment" \in t.held => t.sawPay = payStatus[t.b]
                      /\ "dispute" \in t.held => t.sawDispute = dispute[t.b]
                      /\ t.pc = "commit" /\ t.op = "deliver" => deliverables[t.b] > 0
    BY SomebodyGoesOn DEF TxInv, ReadsStayCurrent, SessionsInv
  <2>1. CASE tx[r].pc = "idle"
    BY <2>1 DEF SessionsInv, Sound, Idle
  <2>2. CASE tx[r].pc # "idle"
    <3>1. Holds(tx[r]) /\ Stands(tx[r])
      BY <2>2 DEF SessionsInv, Sound
    <3>2. tx[r].pc = "commit" /\ tx[r].op = "deliver" => deliverables[tx[r].b] > 0
      BY <3>1, GrantedCases DEF Stands
    <3>3. QED
      BY <3>1, <3>2 DEF Holds
  <2>3. QED
    BY <2>1, <2>2
<1>2. QED
  BY <1>1, SessionsInvariant, PTL

(* The concurrent transactions implement the atomic operations.            *)
THEOREM TransactionsImplementLifecycle == TxSpec => ImplementsLifecycle
<1>1. TxInit => Init
  BY DEF TxInit
<1>2. SessionsInv /\ [TxNext]_txVars => [Next]_vars
  BY TxNextSessions
<1>3. QED
  BY <1>1, <1>2, SessionsInvariant, PTL DEF TxSpec, Spec, ImplementsLifecycle
-----------------------------------------------------------------------------
(* A request the provider has answered, and not yet ended.                 *)
Answered(t) == t.pc \in {"check", "insert", "commit"} /\ AsksProvider(t)

(* No event of another type carries the id of a settlement of b: the       *)
(* hypothesis of ProviderAskedOnce.                                        *)
Honest(b) == \A e \in events, s \in Settlements : e.id = ProviderEventId(s, b) => e.type = s

(* An answer was asked for, and a completion that starts over has its own, *)
(* and met an event that is not its own.                                   *)
Counted(t) ==
  /\ Answered(t) => asked[<<EventType[t.op], t.b>>] > 0
  /\ t.retrying => t.op = "complete" /\ asked[<<"released", t.b>>] > 0 /\ ~Honest(t.b)

(* The id of a settlement's event names its payment.                       *)
SettlementIds ==
  \A e \in events : e.type \in Settlements => e.id = ProviderEventId(e.type, e.payment)

(* The one call for b that needs no failure to explain it: its settlement  *)
(* is recorded, or a request still has the answer.                         *)
OnItsWay(b) ==
  \/ payStatus[b] \in Settlements
  \/ \E r \in Requests : tx[r].b = b /\ Answered(tx[r])

Calls(b) == asked[<<"released", b>>] + asked[<<"refunded", b>>]

CallsExplained ==
  \A b \in Bookings : Honest(b) => Calls(b) <= faults + IF OnItsWay(b) THEN 1 ELSE 0

CallsInv ==
  /\ SettledOnlyIfAsked /\ SettlementIds /\ CallsExplained
  /\ \A r \in Requests : Counted(tx[r])

(* The rows an answered request holds: its payment is held, and unless a   *)
(* webhook has taken its event's id, nobody has.                           *)
LEMMA AnsweredHolds ==
  ASSUME SessionsInv, NEW r \in Requests, AsksProvider(tx[r]),
         tx[r].pc \in {"provider", "check", "insert", "commit"}
  PROVE  /\ tx[r].b \in Bookings /\ "booking" \in tx[r].held
         /\ payStatus[tx[r].b] = "held" /\ tx[r].sawPay = "held"
         /\ tx[r].op \in {"complete", "cancel", "resolve_client", "resolve_creator"}
         /\ EventType[tx[r].op] \in Settlements
         /\ EventOf(tx[r]).id = ProviderEventId(EventType[tx[r].op], tx[r].b)
         /\ Accepts(tx[r].sawPay, EventType[tx[r].op], StatusAtStaging(tx[r]))
         /\ Unique(tx[r]) /\ Stages(tx[r])
<1> DEFINE t == tx[r]
<1>1. Asks(t) /\ Holds(t) /\ Stands(t)
  BY DEF SessionsInv, Sound
<1>2. /\ t.op \in {"complete", "cancel", "resolve_client", "resolve_creator"}
      /\ t.b \in Bookings /\ Stages(t) /\ Granted(t)
  BY <1>1 DEF AsksProvider, Asks, Stands, Stages
<1>3. "booking" \in t.held /\ "payment" \in t.held
  BY <1>1, <1>2 DEF Holds, LocksOf
<1>4. t.sawPay = "held" /\ Accepts(t.sawPay, EventType[t.op], StatusAtStaging(t))
  BY <1>2, AnsweredAccepts
<1>5. payStatus[t.b] = "held"
  BY <1>1, <1>3, <1>4 DEF Holds
<1>6. /\ EventType[t.op] \in Settlements /\ Unique(t)
      /\ EventOf(t).id = ProviderEventId(EventType[t.op], t.b)
  BY <1>2, Tables DEF Settlements, Unique, EventOf
<1>7. QED
  BY <1>2, <1>3, <1>4, <1>5, <1>6

LEMMA NoCollision ==
  ASSUME SessionsInv, EventsInv, SettlementIds, NEW r \in Requests, Answered(tx[r]),
         Honest(tx[r].b)
  PROVE  \A f \in events : f.id # EventOf(tx[r]).id
<1> SUFFICES ASSUME NEW f \in events, f.id = EventOf(tx[r]).id PROVE FALSE
  OBVIOUS
<1> DEFINE b == tx[r].b
           s == EventType[tx[r].op]
<1>1. b \in Bookings /\ payStatus[b] = "held" /\ s \in Settlements /\ f.id = ProviderEventId(s, b)
  BY AnsweredHolds DEF Answered
<1>2. f.type = s
  BY <1>1 DEF Honest
<1>3. f.payment = b
  BY <1>1, <1>2 DEF SettlementIds, ProviderEventId
<1>4. HasEvent(b, s)
  BY <1>2, <1>3 DEF HasEvent
<1>5. payStatus[b] \in {"released", "refunded"}
  BY <1>1, <1>4 DEF EventsInv, EventsExplainPayment, Settlements
<1>6. QED
  BY <1>1, <1>5

(* Settled payments stay settled, and events stay.                         *)
LEMMA SettledStays ==
  ASSUME SessionsInv, [Next]_vars, NEW b \in Bookings, payStatus[b] \in Settlements
  PROVE  payStatus'[b] = payStatus[b]
<1>1. MovesOneRow
  BY StepMoves DEF SessionsInv, SlotInv
<1>2. CASE UNCHANGED <<terms, status, payStatus>>
  BY <1>2
<1>3. CASE \E c \in Bookings : Move(c) /\ OthersStay(c)
  BY <1>1, TerminalStep DEF Settlements, FinalPaymentStatuses
<1>4. QED
  BY <1>1, <1>2, <1>3 DEF MovesOneRow

(* The step of a request that writes nothing and calls nobody keeps the    *)
(* count, if it gives up no answer that its event would confirm.           *)
LEMMA QuietCalls ==
  ASSUME CallsInv, NEW r \in Requests, UNCHANGED <<vars, asked, faults>>,
         SessionsInv, tx' = [tx EXCEPT ![r] = tx'[r]], Counted(tx'[r]),
         Answered(tx[r]) /\ Honest(tx[r].b) => Answered(tx'[r]) /\ tx'[r].b = tx[r].b
  PROVE  CallsInv'
<1>1. \A q \in Requests \ {r} : tx'[q] = tx[q]
  BY DEF SessionsInv, TxTypeOK
<1>2. SettledOnlyIfAsked' /\ SettlementIds'
  BY DEF CallsInv, SettledOnlyIfAsked, SettlementIds, vars, paymentVars
<1>3. \A q \in Requests : Counted(tx[q])'
  <2>1. \A q \in Requests : Counted(tx'[q])
    BY <1>1 DEF CallsInv
  <2>2. \A b : Honest(b)' <=> Honest(b)
    BY DEF Honest, vars, paymentVars
  <2>3. QED
    BY <2>1, <2>2 DEF Counted, Answered, AsksProvider
<1>4. CallsExplained'
  <2> SUFFICES ASSUME NEW b \in Bookings, Honest(b)'
               PROVE  (Calls(b) <= faults + IF OnItsWay(b) THEN 1 ELSE 0)'
    BY DEF CallsExplained
  <2>1. Honest(b) /\ payStatus' = payStatus /\ faults' = faults /\ Calls(b)' = Calls(b)
    BY DEF Honest, Calls, vars, paymentVars
  <2>2. \A q \in Requests : tx[q].b = b /\ Answered(tx[q]) => tx'[q].b = b /\ Answered(tx'[q])
    BY <1>1, <2>1
  <2>3. OnItsWay(b) => OnItsWay(b)'
    BY <2>1, <2>2 DEF OnItsWay, Answered, AsksProvider
  <2>4. Calls(b) \in Nat /\ faults \in Nat
    BY OpsAssumption DEF SessionsInv, TxTypeOK, Calls, Settlements
  <2>5. QED
    BY <2>1, <2>3, <2>4 DEF CallsInv, CallsExplained
<1>5. QED
  BY <1>2, <1>3, <1>4 DEF CallsInv

CallsContext == SessionsInv /\ EventsInv /\ CallsInv

(* The quiet steps: what the request that takes one was about to confirm   *)
(* it still is, and an answer is given up only on meeting its event's id.  *)
LEMMA QuietStepsCount ==
  ASSUME CallsContext, NEW r \in Requests,
         \/ BeginSome(r) \/ TakeLock(r) \/ Refuse(r) \/ Decide(r)
         \/ CheckEvent(r) \/ InsertEvent(r) \/ InsertConflict(r) \/ CommitFails(r)
  PROVE  CallsInv'
<1> DEFINE t == tx[r]
           n == tx'[r]
<1>1. /\ UNCHANGED <<vars, asked, faults>> /\ Counted(t) /\ t \in Tx
      /\ SessionsInv /\ EventsInv /\ CallsInv /\ SettlementIds
  BY DEF CallsContext, CallsInv, SessionsInv, TxTypeOK, BeginSome, Begin, TakeLock, Refuse,
         Decide, CheckEvent, InsertEvent, InsertConflict, CommitFails
<1> SUFFICES /\ tx' = [tx EXCEPT ![r] = n] /\ Counted(n)
             /\ Answered(t) /\ Honest(t.b) => Answered(n) /\ n.b = t.b
  BY <1>1, QuietCalls
<1>2. ASSUME End(r), ~(Answered(t) /\ Honest(t.b))
      PROVE  /\ tx' = [tx EXCEPT ![r] = n] /\ Counted(n)
             /\ Answered(t) /\ Honest(t.b) => Answered(n) /\ n.b = t.b
  <2>1. tx' = [tx EXCEPT ![r] = n] /\ n = Idle
    BY <1>1, <1>2 DEF End, SessionsInv, TxTypeOK
  <2>2. ~Answered(n) /\ ~n.retrying
    BY <2>1 DEF Answered, Idle
  <2>3. QED
    BY <1>2, <2>1, <2>2 DEF Counted
<1>3. ASSUME NEW step, Goto(r, step), step \notin {"check", "insert", "commit"} => ~Answered(t),
             step \in {"check", "insert", "commit"} /\ AsksProvider(t) =>
               asked[<<EventType[t.op], t.b>>] > 0
      PROVE  /\ tx' = [tx EXCEPT ![r] = n] /\ Counted(n)
             /\ Answered(t) /\ Honest(t.b) => Answered(n) /\ n.b = t.b
  <2>1. /\ tx' = [tx EXCEPT ![r] = n] /\ n.pc = step /\ n.op = t.op /\ n.b = t.b
        /\ n.sawStatus = t.sawStatus /\ n.sawPay = t.sawPay /\ n.retrying = t.retrying
    BY <1>1, <1>3 DEF Goto, SessionsInv, TxTypeOK, Tx
  <2>2. AsksProvider(n) <=> AsksProvider(t)
    BY <2>1 DEF AsksProvider
  <2>3. QED
    BY <1>1, <1>3, <2>1, <2>2 DEF Counted, Answered
<1>4. CASE BeginSome(r)
  <2>1. PICK op, b, arg : Begin(r, op, b, arg)
    <3>1. \E op, b, arg : Begin(r, op, b, arg)
      BY <1>4, Zenon DEF BeginSome
    <3>2. QED
      BY <3>1
  <2>2. tx' = [tx EXCEPT ![r] = n] /\ n.pc = "lock" /\ n.retrying = FALSE
    BY <1>1, <2>1 DEF Begin, SessionsInv, TxTypeOK, Idle
  <2>3. t.pc = "idle"
    BY <2>1 DEF Begin
  <2>4. QED
    BY <2>2, <2>3 DEF Counted, Answered
<1>5. CASE TakeLock(r)
  <2>1. tx' = [tx EXCEPT ![r] = n] /\ t.pc = "lock"
    BY <1>1, <1>5 DEF TakeLock, SessionsInv, TxTypeOK
  <2>2. /\ n.pc \in {"lock", "decide"} /\ n.retrying = t.retrying
        /\ n.op = t.op /\ n.b = t.b
    BY <1>1, <1>5 DEF TakeLock, SessionsInv, TxTypeOK, Tx
  <2>3. QED
    BY <1>1, <2>1, <2>2 DEF Counted, Answered
<1>6. CASE Refuse(r)
  BY <1>2, <1>6 DEF Refuse, Answered
<1>7. CASE Decide(r)
  <2> DEFINE step == IF AsksProvider(t) /\ ~t.retrying THEN "provider"
                     ELSE IF Stages(t) THEN "check" ELSE "commit"
  <2>1. t.pc = "decide" /\ Goto(r, step)
    BY <1>7 DEF Decide
  <2>2. ~Answered(t)
    BY <2>1 DEF Answered
  <2>3. step \in {"check", "insert", "commit"} /\ AsksProvider(t) =>
          asked[<<EventType[t.op], t.b>>] > 0
    BY <1>1, Tables DEF Counted
  <2> HIDE DEF step
  <2>4. QED
    BY <1>3, <2>1, <2>2, <2>3
<1>8. CASE CheckEvent(r)
  <2>1. t.pc = "check"
    BY <1>8 DEF CheckEvent
  <2>2. CASE Goto(r, "insert")
    BY <1>1, <1>3, <2>1, <2>2 DEF Counted, Answered
  <2>3. CASE ~Goto(r, "insert")
    <3>1. /\ End(r)
          /\ ~((\A f \in events : f.id # EventOf(t).id)
               /\ Accepts(t.sawPay, EventType[t.op], StatusAtStaging(t)))
      BY <1>8, <2>3 DEF CheckEvent, EventOf
    <3>2. ~(Answered(t) /\ Honest(t.b))
      BY <1>1, <3>1, NoCollision, AnsweredHolds DEF Answered
    <3>3. QED
      BY <1>2, <3>1, <3>2
  <2>4. QED
    BY <2>2, <2>3
<1>9. CASE InsertEvent(r)
  BY <1>1, <1>3, <1>9 DEF InsertEvent, Counted, Answered
<1>10. CASE InsertConflict(r)
  <2>1. t.pc = "insert" /\ \E f \in events : f.id = EventOf(t).id
    BY <1>10 DEF InsertConflict
  <2>2. ~(Answered(t) /\ Honest(t.b))
    BY <1>1, <2>1, NoCollision
  <2>3. CASE End(r)
    BY <1>2, <2>2, <2>3
  <2>4. CASE ~End(r)
    <3>1. /\ t.op = "complete"
          /\ tx' = [tx EXCEPT ![r] = [Idle EXCEPT !.pc = "lock", !.op = t.op, !.b = t.b,
                                                 !.retrying = TRUE]]
      BY <1>10, <2>4 DEF InsertConflict
    <3>2. /\ tx' = [tx EXCEPT ![r] = n] /\ n.pc = "lock"
          /\ n.op = "complete" /\ n.b = t.b
      BY <1>1, <3>1 DEF SessionsInv, TxTypeOK, Idle
    <3>3. Answered(t)
      BY <2>1, <3>1 DEF Answered, AsksProvider
    <3>4. Counted(n)
      BY <1>1, <2>2, <3>1, <3>2, <3>3, Tables DEF Counted, Answered
    <3>5. QED
      BY <2>2, <3>2, <3>4
  <2>5. QED
    BY <2>3, <2>4
<1>11. CASE CommitFails(r)
  <2>1. t.pc = "commit" /\ ~Unique(t) /\ End(r)
    BY <1>11 DEF CommitFails
  <2>2. ~Answered(t)
    BY <1>1, <2>1, AnsweredHolds DEF Answered
  <2>3. QED
    BY <1>2, <2>1, <2>2
<1>12. QED
  BY <1>4, <1>5, <1>6, <1>7, <1>8, <1>9, <1>10, <1>11

(* A count of calls grows, and what was answered stays counted.            *)
LEMMA CallsGrow ==
  ASSUME SessionsInv, NEW s \in Settlements \X Bookings, asked' \in {asked, CountCall(s)}
  PROVE  /\ \A p \in Settlements \X Bookings : asked[p] <= asked'[p]
         /\ \A b \in Bookings : s[2] # b => Calls(b)' = Calls(b)
         /\ \A b \in Bookings : Calls(b)' <= Calls(b) + 1
         /\ \A b \in Bookings : Calls(b) \in Nat /\ Calls(b)' \in Nat
<1>1. /\ asked \in [Settlements \X Bookings -> 0..(MaxFaults + 2)]
      /\ asked' \in [Settlements \X Bookings -> 0..(MaxFaults + 2)]
      /\ \A p \in Settlements \X Bookings : asked[p] <= asked'[p]
      /\ \A p \in Settlements \X Bookings : p # s => asked'[p] = asked[p]
      /\ asked'[s] <= asked[s] + 1
  BY CountCallType, OpsAssumption DEF SessionsInv, TxTypeOK
<1>2. ASSUME NEW b \in Bookings
      PROVE  /\ <<"released", b>> \in Settlements \X Bookings
             /\ <<"refunded", b>> \in Settlements \X Bookings
             /\ <<"released", b>> # <<"refunded", b>>
             /\ s[2] # b => s # <<"released", b>> /\ s # <<"refunded", b>>
  BY DEF Settlements
<1>3. ASSUME NEW b \in Bookings
      PROVE  /\ s[2] # b => Calls(b)' = Calls(b)
             /\ Calls(b)' <= Calls(b) + 1
             /\ Calls(b) \in Nat /\ Calls(b)' \in Nat
  <2>1. /\ asked[<<"released", b>>] \in Nat /\ asked[<<"refunded", b>>] \in Nat
        /\ asked'[<<"released", b>>] \in Nat /\ asked'[<<"refunded", b>>] \in Nat
    BY <1>1, <1>2, OpsAssumption
  <2>2. \/ asked'[<<"released", b>>] = asked[<<"released", b>>]
        \/ asked'[<<"refunded", b>>] = asked[<<"refunded", b>>]
    BY <1>1, <1>2
  <2>3. /\ asked'[<<"released", b>>] <= asked[<<"released", b>>] + 1
        /\ asked'[<<"refunded", b>>] <= asked[<<"refunded", b>>] + 1
    BY <1>1, <1>2, <2>1
  <2>4. s[2] # b => /\ asked'[<<"released", b>>] = asked[<<"released", b>>]
                    /\ asked'[<<"refunded", b>>] = asked[<<"refunded", b>>]
    BY <1>1, <1>2
  <2>5. QED
    BY <2>1, <2>2, <2>3, <2>4 DEF Calls
<1>4. QED
  BY <1>1, <1>3

(* What does not depend on the count of calls, when it grows.              *)
LEMMA GrownCalls ==
  ASSUME CallsContext, NEW r \in Requests, UNCHANGED vars,
         tx' = [tx EXCEPT ![r] = tx'[r]], Counted(tx[r])',
         \A p \in Settlements \X Bookings : asked[p] <= asked'[p],
         asked' \in [Settlements \X Bookings -> 0..(MaxFaults + 2)]
  PROVE  /\ SettledOnlyIfAsked' /\ SettlementIds'
         /\ \A q \in Requests : Counted(tx[q])'
         /\ \A b : Honest(b)' <=> Honest(b)
<1>1. \A q \in Requests \ {r} : tx'[q] = tx[q]
  BY DEF CallsContext, SessionsInv, TxTypeOK
<1>2. \A b : Honest(b)' <=> Honest(b)
  BY DEF Honest, vars, paymentVars
<1>3. \A p \in Settlements \X Bookings : asked[p] > 0 => asked'[p] > 0
  BY OpsAssumption DEF CallsContext, SessionsInv, TxTypeOK
<1>4. SettledOnlyIfAsked' /\ SettlementIds'
  BY <1>3
  DEF CallsContext, CallsInv, SettledOnlyIfAsked, SettlementIds, vars, paymentVars
<1>5. ASSUME NEW q \in Requests \ {r} PROVE Counted(tx[q])'
  <2>1. Counted(tx[q])
    BY DEF CallsContext, CallsInv
  <2>2. Answered(tx[q]) => <<EventType[tx[q].op], tx[q].b>> \in Settlements \X Bookings
    BY AnsweredHolds DEF Answered, CallsContext
  <2>3. tx[q].retrying => <<"released", tx[q].b>> \in Settlements \X Bookings
    <3>1. tx[q].pc # "idle" => tx[q].b \in Bookings
      BY DEF CallsContext, SessionsInv, Sound, Asks
    <3>2. tx[q].pc = "idle" => ~tx[q].retrying
      BY DEF CallsContext, SessionsInv, Sound, Idle
    <3>3. QED
      BY <3>1, <3>2 DEF Settlements
  <2>4. QED
    BY <1>1, <1>2, <1>3, <2>1, <2>2, <2>3 DEF Counted, Answered, AsksProvider
<1>6. QED
  BY <1>2, <1>4, <1>5

LEMMA AskProviderCounts ==
  ASSUME CallsContext, NEW r \in Requests, AskProvider(r)
  PROVE  CallsInv'
<1> DEFINE t == tx[r]
           n == tx'[r]
           s == <<EventType[t.op], t.b>>
<1>1. /\ t.pc = "provider" /\ Goto(r, "check") /\ UNCHANGED <<vars, faults>>
      /\ asked' = CountCall(s) /\ Counted(t) /\ t \in Tx /\ SessionsInv /\ SessionsInv'
  BY AskStep DEF AskProvider, CallsContext, CallsInv, SessionsInv, TxTypeOK
<1>2. AsksProvider(t)
  BY <1>1 DEF SessionsInv, Sound, Stands
<1>3. /\ t.b \in Bookings /\ "booking" \in t.held /\ payStatus[t.b] = "held"
      /\ s \in Settlements \X Bookings /\ s[2] = t.b
  BY <1>1, <1>2, AnsweredHolds
<1>4. /\ tx' = [tx EXCEPT ![r] = n] /\ n.pc = "check" /\ n.op = t.op /\ n.b = t.b
      /\ n.sawStatus = t.sawStatus /\ n.sawPay = t.sawPay /\ n.retrying = t.retrying
      /\ \A q \in Requests \ {r} : tx'[q] = tx[q]
  BY <1>1 DEF Goto, SessionsInv, TxTypeOK, Tx
<1>5. /\ \A p \in Settlements \X Bookings : asked[p] <= asked'[p]
      /\ \A b \in Bookings : s[2] # b => Calls(b)' = Calls(b)
      /\ \A b \in Bookings : Calls(b)' <= Calls(b) + 1
      /\ \A b \in Bookings : Calls(b) \in Nat /\ Calls(b)' \in Nat
  BY <1>1, <1>3, CallsGrow
<1>6. asked'[s] > 0 /\ asked' \in [Settlements \X Bookings -> 0..(MaxFaults + 2)]
  BY <1>1, <1>3, CountCallType DEF SessionsInv, TxTypeOK
<1>7. Answered(n) /\ (Answered(tx[r]))'
  BY <1>2, <1>4 DEF Answered, AsksProvider
<1> HIDE DEF n
<1>8. Counted(tx[r])'
  <2>1. asked'[<<EventType[n.op], n.b>>] > 0
    BY <1>4, <1>6
  <2>2. \A b : Honest(b)' <=> Honest(b)
    BY <1>1 DEF Honest, vars, paymentVars
  <2>3. t.retrying => t.op = "complete" /\ ~Honest(t.b)
    BY <1>1 DEF Counted
  <2>4. t.retrying => asked'[<<"released", n.b>>] > 0
    BY <1>4, <2>1, <2>3, Tables
  <2>5. QED
    BY <1>4, <2>1, <2>2, <2>3, <2>4 DEF Counted, n
<1>9. /\ SettledOnlyIfAsked' /\ SettlementIds'
      /\ \A q \in Requests : Counted(tx[q])'
      /\ \A b : Honest(b)' <=> Honest(b)
  BY <1>1, <1>4, <1>5, <1>6, <1>8, GrownCalls DEF n
<1>10. ASSUME NEW b \in Bookings, b = t.b PROVE ~OnItsWay(b) /\ OnItsWay(b)'
  <2>1. ASSUME NEW q \in Requests, tx[q].b = b, Answered(tx[q]) PROVE FALSE
    <3>1. q # r
      BY <1>1, <2>1 DEF Answered
    <3>2. "booking" \in tx[q].held
      BY <1>1, <2>1, AnsweredHolds DEF Answered
    <3>3. QED
      BY <1>1, <1>3, <1>10, <2>1, <3>1, <3>2 DEF SessionsInv, Exclusive
  <2>2. OnItsWay(b)'
    BY <1>4, <1>7, <1>10 DEF OnItsWay, n
  <2>3. QED
    BY <1>3, <1>10, <2>1, <2>2 DEF OnItsWay, Settlements
<1>11. CallsExplained'
  <2> SUFFICES ASSUME NEW b \in Bookings, Honest(b)'
               PROVE  Calls(b)' <= faults' + IF OnItsWay(b)' THEN 1 ELSE 0
    BY DEF CallsExplained
  <2>1. Calls(b) <= faults + IF OnItsWay(b) THEN 1 ELSE 0
    BY <1>9 DEF CallsContext, CallsInv, CallsExplained
  <2>2. faults \in Nat /\ faults' = faults
    BY <1>1, OpsAssumption DEF SessionsInv, TxTypeOK
  <2>3. CASE b = t.b
    BY <1>5, <1>10, <2>1, <2>2, <2>3
  <2>4. CASE b # t.b
    <3>1. OnItsWay(b) => OnItsWay(b)'
      BY <1>1, <1>4, <2>4 DEF OnItsWay, Answered, AsksProvider, vars, paymentVars
    <3>2. QED
      BY <1>3, <1>5, <2>1, <2>2, <2>4, <3>1
  <2>5. QED
    BY <2>3, <2>4
<1>12. QED
  BY <1>9, <1>11 DEF CallsInv

(* A fault explains one call more, and one answer lost.                    *)
LEMMA FaultsCount ==
  ASSUME CallsContext, NEW r \in Requests, ProviderFails(r) \/ Crash(r)
  PROVE  CallsInv'
<1> DEFINE t == tx[r]
           s == <<EventType[t.op], t.b>>
<1>1. /\ End(r) /\ UNCHANGED vars /\ faults' = faults + 1 /\ SessionsInv /\ SessionsInv'
      /\ tx' = [tx EXCEPT ![r] = tx'[r]] /\ tx'[r] = Idle
      /\ \A q \in Requests \ {r} : tx'[q] = tx[q]
  BY ProviderFailsStep, EndingStep
  DEF ProviderFails, Crash, End, CallsContext, SessionsInv, TxTypeOK
<1>2. /\ ~Answered(tx'[r]) /\ ~tx'[r].retrying
      /\ (Answered(tx[r]))' = Answered(tx'[r])
  BY <1>1 DEF Answered, AsksProvider, Idle
<1>3. /\ \A p \in Settlements \X Bookings : asked[p] <= asked'[p]
      /\ \A b \in Bookings : Calls(b) \in Nat /\ Calls(b)' \in Nat
      /\ \A b \in Bookings : Calls(b)' <= Calls(b) + 1
      /\ asked' = asked \/ ProviderFails(r)
  <2>1. CASE asked' = asked
    <3>1. asked \in [Settlements \X Bookings -> 0..(MaxFaults + 2)]
      BY DEF CallsContext, SessionsInv, TxTypeOK
    <3>2. \A b \in Bookings :
            <<"released", b>> \in Settlements \X Bookings
              /\ <<"refunded", b>> \in Settlements \X Bookings
      BY DEF Settlements
    <3>3. ASSUME NEW b \in Bookings PROVE Calls(b)' = Calls(b) /\ Calls(b) \in Nat
      <4>1. asked[<<"released", b>>] \in Nat /\ asked[<<"refunded", b>>] \in Nat
        BY <3>1, <3>2, OpsAssumption
      <4>2. Calls(b)' = Calls(b)
        BY <2>1 DEF Calls
      <4>3. QED
        BY <4>1, <4>2 DEF Calls
    <3>4. QED
      BY <2>1, <3>1, <3>3, OpsAssumption
  <2>2. CASE ProviderFails(r)
    <3>1. t.pc = "provider" /\ asked' \in {asked, CountCall(s)}
      BY <2>2 DEF ProviderFails
    <3>2. AsksProvider(t)
      BY <1>1, <3>1 DEF SessionsInv, Sound, Stands
    <3>3. s \in Settlements \X Bookings
      BY <1>1, <3>1, <3>2, AnsweredHolds
    <3>4. QED
      BY <1>1, <2>2, <3>1, <3>3, CallsGrow
  <2>3. QED
    BY <2>1, <2>2 DEF Crash
<1>4. Counted(tx[r])'
  BY <1>2 DEF Counted
<1>5. /\ SettledOnlyIfAsked' /\ SettlementIds'
      /\ \A q \in Requests : Counted(tx[q])'
      /\ \A b : Honest(b)' <=> Honest(b)
  BY <1>1, <1>3, <1>4, GrownCalls DEF SessionsInv, TxTypeOK
<1>6. CallsExplained'
  <2> SUFFICES ASSUME NEW b \in Bookings, Honest(b)'
               PROVE  Calls(b)' <= faults' + IF OnItsWay(b)' THEN 1 ELSE 0
    BY DEF CallsExplained
  <2>1. Calls(b) <= faults + IF OnItsWay(b) THEN 1 ELSE 0
    BY <1>5 DEF CallsContext, CallsInv, CallsExplained
  <2>2. faults \in Nat /\ faults' = faults + 1
    BY <1>1, OpsAssumption DEF SessionsInv, TxTypeOK
  <2>3. CASE asked' = asked
    <3>1. Calls(b)' = Calls(b)
      BY <2>3 DEF Calls
    <3>2. QED
      BY <1>3, <2>1, <2>2, <3>1
  <2>4. CASE ProviderFails(r)
    <3>1. ~Answered(t)
      BY <2>4 DEF ProviderFails, Answered
    <3>2. OnItsWay(b) => OnItsWay(b)'
      BY <1>1, <3>1 DEF OnItsWay, Answered, AsksProvider, vars, paymentVars
    <3>3. QED
      BY <1>3, <2>1, <2>2, <3>2
  <2>5. QED
    BY <1>3, <2>3, <2>4
<1>7. QED
  BY <1>5, <1>6 DEF CallsInv

LEMMA InsertBookingCounts == ASSUME CallsContext, InsertBooking PROVE CallsInv'
<1>1. UNCHANGED <<payStatus, events, tx, asked, faults>>
  BY DEF InsertBooking, CreateBooking, paymentVars
<1>2. \A b : (Honest(b)' <=> Honest(b)) /\ Calls(b)' = Calls(b) /\ (OnItsWay(b)' <=> OnItsWay(b))
  BY <1>1 DEF Honest, Calls, OnItsWay, Answered, AsksProvider
<1>3. \A q \in Requests : Counted(tx[q])'
  BY <1>1, <1>2 DEF CallsContext, CallsInv, Counted, Answered, AsksProvider
<1>4. QED
  BY <1>1, <1>2, <1>3
  DEF CallsContext, CallsInv, SettledOnlyIfAsked, SettlementIds, CallsExplained

(* A commit records the settlement that was asked for.                     *)
LEMMA CommitCounts == ASSUME CallsContext, NEW r \in Requests, Commit(r) PROVE CallsInv'
<1> DEFINE t == tx[r]
<1>1. /\ SessionsInv /\ SessionsInv' /\ [Next]_vars /\ UNCHANGED <<asked, faults>>
      /\ t.pc = "commit" /\ t.b \in Bookings /\ TypeOK /\ Counted(t) /\ t.op \in AllOps
      /\ tx'[r] = Idle /\ \A q \in Requests \ {r} : tx'[q] = tx[q]
  BY CommitStep, CommitImplements, Committing
  DEF CallsContext, CallsInv, Commit, End, SessionsInv, TxTypeOK
<1>2. /\ events' = IF Stages(t) THEN events \cup {EventOf(t)} ELSE events
      /\ payStatus' = [payStatus EXCEPT ![t.b] =
           IF Stages(t) THEN PaymentAfter[EventType[t.op]]
           ELSE IF t.op = "pay" THEN "pending"
           ELSE IF t.op = "cancel" /\ t.sawPay = "pending" THEN "expired"
           ELSE @]
  BY DEF Commit, WritePayment
<1>3. Stages(t) =>
        \/ /\ Answered(t) /\ PaymentAfter[EventType[t.op]] = EventType[t.op]
           /\ EventType[t.op] \in Settlements
           /\ EventOf(t).type = EventType[t.op] /\ EventOf(t).payment = t.b
           /\ EventOf(t).id = ProviderEventId(EventType[t.op], t.b)
        \/ /\ PaymentAfter[EventType[t.op]] \notin Settlements
           /\ EventOf(t).type \notin Settlements
  BY <1>1, Tables DEF Stages, AsksProvider, Answered, EventOf, Settlements, PaymentAfter
<1>4. SettledOnlyIfAsked'
  <2> SUFFICES ASSUME NEW b \in Bookings, payStatus'[b] \in Settlements
               PROVE  asked'[<<payStatus'[b], b>>] > 0
    BY DEF SettledOnlyIfAsked
  <2>1. CASE payStatus'[b] = payStatus[b]
    BY <1>1, <2>1 DEF CallsContext, CallsInv, SettledOnlyIfAsked
  <2>2. CASE payStatus'[b] # payStatus[b]
    <3>1. b = t.b /\ Stages(t) /\ payStatus'[b] = PaymentAfter[EventType[t.op]]
      BY <1>1, <1>2, <2>2 DEF TypeOK, Settlements
    <3>2. QED
      BY <1>1, <1>3, <3>1 DEF Counted
  <2>3. QED
    BY <2>1, <2>2
<1>5. SettlementIds'
  BY <1>2, <1>3 DEF CallsContext, CallsInv, SettlementIds
<1>6. \A b : Honest(b)' => Honest(b)
  BY <1>2 DEF Honest
<1>7. \A q \in Requests : Counted(tx[q])'
  <2>1. Counted(tx[r])'
    <3>1. tx'[r].pc = "idle" /\ ~tx'[r].retrying
      BY <1>1 DEF Idle
    <3>2. QED
      BY <3>1 DEF Counted, Answered
  <2>2. ASSUME NEW q \in Requests \ {r} PROVE Counted(tx[q])'
    <3>1. Counted(tx[q])
      BY DEF CallsContext, CallsInv
    <3>2. QED
      BY <1>1, <1>6, <3>1 DEF Counted, Answered, AsksProvider
  <2>3. QED
    BY <2>1, <2>2
<1>8. CallsExplained'
  <2> SUFFICES ASSUME NEW b \in Bookings, Honest(b)'
               PROVE  (Calls(b) <= faults + IF OnItsWay(b) THEN 1 ELSE 0)'
    BY DEF CallsExplained
  <2>1. Honest(b) /\ Calls(b)' = Calls(b) /\ faults' = faults
    BY <1>1, <1>6 DEF Calls
  <2>2. ASSUME OnItsWay(b) PROVE OnItsWay(b)'
    <3>1. CASE payStatus[b] \in Settlements
      BY <1>1, <3>1, SettledStays DEF OnItsWay
    <3>2. CASE t.b = b /\ Answered(t)
      <4>1. Stages(t)
        BY <3>2 DEF Answered, Stages
      <4>2. EventType[t.op] \in {"released", "refunded"}
        BY <1>1, <3>2, AnsweredHolds DEF Answered, Settlements
      <4>3. payStatus'[b] = PaymentAfter[EventType[t.op]]
        BY <1>1, <1>2, <3>2, <4>1 DEF TypeOK
      <4>4. QED
        BY <4>2, <4>3 DEF OnItsWay, PaymentAfter, Settlements
    <3>3. ASSUME NEW q \in Requests \ {r}, tx[q].b = b, Answered(tx[q]) PROVE OnItsWay(b)'
      BY <1>1, <3>3 DEF OnItsWay, Answered, AsksProvider
    <3>4. QED
      BY <2>2, <3>1, <3>2, <3>3 DEF OnItsWay
  <2>3. Calls(b) <= faults + IF OnItsWay(b) THEN 1 ELSE 0
    BY <2>1 DEF CallsContext, CallsInv, CallsExplained
  <2>4. Calls(b) \in Nat /\ faults \in Nat
    BY <1>1, OpsAssumption DEF SessionsInv, TxTypeOK, Calls, Settlements
  <2>5. QED
    BY <2>1, <2>2, <2>3, <2>4
<1>9. QED
  BY <1>4, <1>5, <1>7, <1>8 DEF CallsInv

LEMMA TxNextCalls == CallsContext /\ [TxNext]_txVars => CallsInv'
<1> SUFFICES ASSUME CallsContext, [TxNext]_txVars PROVE CallsInv'
  OBVIOUS
<1>1. CASE UNCHANGED txVars
  <2>1. \A b : (Honest(b)' <=> Honest(b)) /\ Calls(b)' = Calls(b)
                 /\ (OnItsWay(b)' <=> OnItsWay(b))
    BY <1>1 DEF txVars, vars, paymentVars, Honest, Calls, OnItsWay, Answered, AsksProvider
  <2>2. \A q \in Requests : Counted(tx[q])'
    BY <1>1, <2>1 DEF txVars, CallsContext, CallsInv, Counted, Answered, AsksProvider
  <2>3. QED
    BY <1>1, <2>1, <2>2
    DEF txVars, vars, paymentVars, CallsContext, CallsInv, SettledOnlyIfAsked, SettlementIds,
        CallsExplained
<1>2. CASE TxNext
  BY <1>2, QuietStepsCount, AskProviderCounts, FaultsCount, InsertBookingCounts, CommitCounts
  DEF TxNext, Proceed
<1>3. QED
  BY <1>1, <1>2

LEMMA TxInitCalls == TxInit => CallsInv
<1> SUFFICES ASSUME TxInit PROVE CallsInv
  OBVIOUS
<1>1. \A r \in Requests : tx[r].pc = "idle" /\ ~tx[r].retrying
  BY DEF TxInit, Idle
<1>2. \A r \in Requests : Counted(tx[r])
  BY <1>1 DEF Counted, Answered
<1>3. SettledOnlyIfAsked /\ SettlementIds
  BY DEF TxInit, Init, SettledOnlyIfAsked, SettlementIds, Settlements
<1>4. faults = 0 /\ \A b \in Bookings : Calls(b) = 0
  BY DEF TxInit, Calls, Settlements
<1>5. QED
  BY <1>2, <1>3, <1>4 DEF CallsInv, CallsExplained

(* The provider is asked before a settlement is recorded, and for one      *)
(* settlement of a payment only, unless a failure or a webhook that took   *)
(* the id of its event explains the calls beyond that.                     *)
THEOREM ProviderAskedFirstAndOnce == TxSpec => []SettlementsAreAsked
<1>1. EventsInv /\ [Next]_vars => EventsInv'
  BY NextEvents
<1>2. TxInit => EventsInv
  BY InitTypeOK DEF TxInit, Init, EventsInv, EventsExplainPayment, HasEvent
<1>3. TxSpec => []EventsInv
  BY <1>1, <1>2, TxNextSessions, SessionsInvariant, PTL DEF TxSpec
<1>4. TxSpec => []CallsInv
  <2>1. SessionsInv /\ EventsInv /\ CallsInv /\ [TxNext]_txVars => CallsInv'
    BY TxNextCalls DEF CallsContext
  <2>2. QED
    BY <1>3, <2>1, TxInitCalls, SessionsInvariant, PTL DEF TxSpec
<1>5. SessionsInv /\ CallsInv => SettlementsAreAsked
  <2> SUFFICES ASSUME SessionsInv, CallsInv PROVE SettlementsAreAsked
    OBVIOUS
  <2>1. ASSUME NEW b \in Bookings, Honest(b)
        PROVE  asked[<<"released", b>>] + asked[<<"refunded", b>>] <= 1 + faults
    <3>1. Calls(b) <= faults + IF OnItsWay(b) THEN 1 ELSE 0
      BY <2>1 DEF CallsInv, CallsExplained
    <3>2. Calls(b) \in Nat /\ faults \in Nat
      BY OpsAssumption DEF SessionsInv, TxTypeOK, Calls, Settlements
    <3>3. Calls(b) <= 1 + faults
      BY <3>1, <3>2
    <3>4. QED
      BY <3>3 DEF Calls
  <2>2. ProviderAskedOnce
    BY <2>1 DEF ProviderAskedOnce, Honest
  <2>3. QED
    BY <2>2 DEF SettlementsAreAsked, CallsInv
<1>6. QED
  BY <1>4, <1>5, SessionsInvariant, PTL

(* With the refinement, what is proved of the atomic operations holds of   *)
(* the concurrent transactions.                                            *)
THEOREM ConcurrencyKeepsTheBooks ==
  TxSpec => [](/\ EscrowAgrees /\ DisputeDecidesEscrow /\ OneLiveBookingPerDate
               /\ EventsExplainPayment /\ PaidWorkExists /\ KeysIdentifyPayments
               /\ NoticesTellTheTruth /\ HeldMoneyMayMove)
  BY TransactionsImplementLifecycle, EscrowAlwaysAgrees, DisputesDecideEscrow,
     DatesAreBookedOnce, EventsAlwaysExplain, PaidWorkAlwaysExists, KeysAlwaysIdentify,
     NoticesAlwaysTrue, HeldMoneyIsNeverTrapped, PTL DEF ImplementsLifecycle

(* Nor do the transactions ever take back a conclusion, refund work that   *)
(* has started without a dispute, or break the promise of the escrow: a    *)
(* date is claimed when it is free, and money moves once.                  *)
THEOREM ConcurrencyKeepsThePromise ==
  TxSpec => TerminalStaysTerminal /\ RefundAfterStartNeedsDispute /\ ImplementsPromise
  BY TransactionsImplementLifecycle, ConclusionsAreFinal, RefundsNeedDisputes,
     ServicesKeepThePromise DEF ImplementsLifecycle
=============================================================================
