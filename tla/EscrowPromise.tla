--------------------------- MODULE EscrowPromise ---------------------------
(***************************************************************************)
(* What the booking and payment services of the API promise together,      *)
(* with no statuses, events, locks or requests: a booking may hold one     *)
(* date of one creator, its money is billed, held and then moved exactly   *)
(* once, and the booking concludes in the same step that moves the money.  *)
(* BookingLifecycle is shown to implement this module.                     *)
(***************************************************************************)
CONSTANTS Bookings,  \* bookings that are ever asked for
          Slots      \* one creator on one date

VARIABLES
  money,    \* money[b]: where the money of booking b is
  outcome,  \* outcome[b]: "open" until the booking concludes
  holders   \* holders[s]: the bookings that occupy slot s

promiseVars == <<money, outcome, holders>>

Money == {"none", "due", "held", "creator", "client", "void"}

Outcomes == {"open", "done", "off"}

PromiseInit ==
  /\ money = [b \in Bookings |-> "none"]
  /\ outcome = [b \in Bookings |-> "open"]
  /\ holders = [s \in Slots |-> {}]

Holds(b) == \E s \in Slots : b \in holders[s]

Vacated(b) == [s \in Slots |-> holders[s] \ {b}]

(* The creator agrees to a booking: its slot must be free. *)
Claim(b, s) ==
  /\ outcome[b] = "open"
  /\ money[b] = "none"
  /\ ~Holds(b)
  /\ holders[s] = {}
  /\ holders' = [holders EXCEPT ![s] = {b}]
  /\ UNCHANGED <<money, outcome>>

(* The client asks to pay for a slot the booking holds. *)
Bill(b) ==
  /\ outcome[b] = "open"
  /\ money[b] = "none"
  /\ Holds(b)
  /\ money' = [money EXCEPT ![b] = "due"]
  /\ UNCHANGED <<outcome, holders>>

(* The provider reports that the money arrived, or that it never will. *)
Collect(b) ==
  /\ money[b] = "due"
  /\ Holds(b)
  /\ money' = [money EXCEPT ![b] = "held"]
  /\ UNCHANGED <<outcome, holders>>

Fail(b) ==
  /\ money[b] = "due"
  /\ money' = [money EXCEPT ![b] = "void"]
  /\ UNCHANGED <<outcome, holders>>

(* A booking is called off while no money is held. *)
CallOff(b) ==
  /\ outcome[b] = "open"
  /\ money[b] \in {"none", "due", "void"}
  /\ money' = [money EXCEPT ![b] = IF @ = "due" THEN "void" ELSE @]
  /\ outcome' = [outcome EXCEPT ![b] = "off"]
  /\ holders' = Vacated(b)

(* Held money moves once: to the creator of a booking that is done, or back*)
(* to the client of one that is called off.                                *)
PayOut(b) ==
  /\ money[b] = "held"
  /\ outcome[b] = "open"
  /\ money' = [money EXCEPT ![b] = "creator"]
  /\ outcome' = [outcome EXCEPT ![b] = "done"]
  /\ holders' = Vacated(b)

PayBack(b) ==
  /\ money[b] = "held"
  /\ outcome[b] = "open"
  /\ money' = [money EXCEPT ![b] = "client"]
  /\ outcome' = [outcome EXCEPT ![b] = "off"]
  /\ holders' = Vacated(b)

PromiseNext ==
  \E b \in Bookings :
    \/ \E s \in Slots : Claim(b, s)
    \/ Bill(b)
    \/ Collect(b)
    \/ Fail(b)
    \/ CallOff(b)
    \/ PayOut(b)
    \/ PayBack(b)

PromiseSpec == PromiseInit /\ [][PromiseNext]_promiseVars
=============================================================================
