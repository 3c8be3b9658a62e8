---------------------------- MODULE BookingLists ----------------------------
(***************************************************************************)
(* The pages that list bookings and the form that requests one, in the     *)
(* browser of one user, over BookingLifecycle: apps/web/src/app/booking/   *)
(* page.tsx (the viewer's own), booking/masuk/page.tsx (those of the       *)
(* viewer's profile) and kreator/[id]/booking/page.tsx, with the hooks of  *)
(* lib/bookings.ts.                                                        *)
(*                                                                         *)
(* Both lists are queries of React Query that outlive their pages: a query *)
(* that is fresh is not fetched on a visit, invalidation fetches only the  *)
(* list of the page that is open, and a fetch whose page was left goes on. *)
(* One mutation at a time is a bound: the buttons of a page wait for its   *)
(* mutation, and the model's user does not outrun one on another page.     *)
(***************************************************************************)
EXTENDS BookingLifecycle

CONSTANTS
  NoBooking, \* the mutation is not about a booking yet
  NoView     \* data of a query that was never fetched

ASSUME ListsAssumption == NoBooking \notin Bookings /\ NoView \notin [Bookings -> BookingStatuses]

VARIABLES
  reader,    \* the user of the browser
  route,     \* the page that is open
  query,     \* query[l]: data, error and freshness of list l
  fetching,  \* fetching[l]: the fetch of list l
  mutation   \* createBooking, or useBookingAction

listsVars == <<reader, route, query, fetching, mutation>>
listsAllVars == <<vars, listsVars>>
-----------------------------------------------------------------------------
Lists == {"mine", "incoming"}
Routes == Lists \cup {"form", "elsewhere"}
Kinds == {"create", "cancel", "accept", "reject"}

(* A booking that is not in the list has the status "absent".              *)
Views == [Bookings -> BookingStatuses]

NoFetch == [phase |-> "idle", view |-> NoView]
Asked == [phase |-> "asked", view |-> NoView]
NoMutation == [kind |-> "create", phase |-> "idle", b |-> NoBooking, waits |-> {}]

ListsTypeOK ==
  /\ reader \in Users
  /\ route \in Routes
  /\ query \in [Lists -> [view : Views \cup {NoView}, failed : BOOLEAN, fresh : BOOLEAN]]
  /\ fetching \in [Lists -> [phase : {"idle", "asked", "read"}, view : Views \cup {NoView}]]
  /\ mutation \in [kind : Kinds, phase : {"idle", "sent", "done", "settling"},
                   b : Bookings \cup {NoBooking}, waits : SUBSET Lists]
  /\ \A l \in mutation.waits : fetching[l].phase # "idle"

ListsInit ==
  /\ Init
  /\ reader \in Users
  /\ route = "elsewhere"
  /\ query = [l \in Lists |-> [view |-> NoView, failed |-> FALSE, fresh |-> FALSE]]
  /\ fetching = [l \in Lists |-> NoFetch]
  /\ mutation = NoMutation
-----------------------------------------------------------------------------
Cancellable == {"requested", "accepted", "awaiting_payment", "confirmed"}

Shown(l) == route = l /\ ~query[l].failed /\ query[l].view # NoView

(* Variant: every booking that has not ended can be cancelled.             *)
CanCancel_UntilTheEnd(b) ==
  Shown("mine") /\ query["mine"].view[b] \in Cancellable \cup {"in_progress", "delivered"}

CanCancel(b) == Shown("mine") /\ query["mine"].view[b] \in Cancellable

CanAnswer(b) == Shown("incoming") /\ query["incoming"].view[b] = "requested"

Offered(kind, b) ==
  IF kind = "cancel" THEN CanCancel(b) ELSE kind \in {"accept", "reject"} /\ CanAnswer(b)

-----------------------------------------------------------------------------
(* A page's observer mounts: a fetch under way is joined.                  *)
Mounted(r) ==
  IF r \in Lists /\ ~query[r].fresh /\ fetching[r].phase = "idle"
    THEN [fetching EXCEPT ![r] = Asked] ELSE fetching

Visit(r) ==
  /\ route # r
  /\ route' = r
  /\ fetching' = Mounted(r)
  /\ UNCHANGED <<reader, query, mutation, vars>>

(* staleTime has passed.                                                   *)
GoesStale(l) ==
  /\ query[l].fresh
  /\ query' = [query EXCEPT ![l].fresh = FALSE]
  /\ UNCHANGED <<reader, route, fetching, mutation, vars>>

(* The window is focused again, on a stale list.                           *)
Focus ==
  /\ route \in Lists
  /\ fetching' = Mounted(route)
  /\ fetching' # fetching
  /\ UNCHANGED <<reader, route, query, mutation, vars>>

(* list_for_client and list_for_creator.                                   *)
Listed(l) ==
  [b \in Bookings |->
     IF (l = "mine" /\ IsClient(b, reader)) \/ (l = "incoming" /\ IsCreator(b, reader))
       THEN status[b] ELSE "absent"]

FetchReads(l) ==
  /\ fetching[l].phase = "asked"
  /\ fetching' = [fetching EXCEPT ![l] = [phase |-> "read", view |-> Listed(l)]]
  /\ UNCHANGED <<reader, route, query, mutation, vars>>

(* The promises the mutation's onSuccess waits for.                        *)
Settle(l) == mutation' = [mutation EXCEPT !.waits = @ \ {l}]

FetchResolves(l) ==
  /\ fetching[l].phase = "read"
  /\ fetching' = [fetching EXCEPT ![l] = NoFetch]
  /\ query' = [query EXCEPT ![l] =
       [view |-> fetching[l].view, failed |-> FALSE, fresh |-> TRUE]]
  /\ Settle(l)
  /\ UNCHANGED <<reader, route, vars>>

FetchFails(l) ==
  /\ fetching[l].phase # "idle"
  /\ fetching' = [fetching EXCEPT ![l] = NoFetch]
  /\ query' = [query EXCEPT ![l].failed = TRUE, ![l].fresh = FALSE]
  /\ Settle(l)
  /\ UNCHANGED <<reader, route, vars>>
-----------------------------------------------------------------------------
Act(kind, b) ==
  /\ mutation.phase = "idle" /\ Offered(kind, b)
  /\ mutation' = [NoMutation EXCEPT !.kind = kind, !.phase = "sent", !.b = b]
  /\ UNCHANGED <<reader, route, query, fetching, vars>>

(* "Kirim permintaan".                                                     *)
Submit ==
  /\ mutation.phase = "idle" /\ route = "form"
  /\ mutation' = [NoMutation EXCEPT !.phase = "sent"]
  /\ UNCHANGED <<reader, route, query, fetching, vars>>

Handle ==
  /\ mutation.phase = "sent"
  /\ \/ /\ mutation.kind = "create"
        /\ \E b \in Bookings, c \in Creators, d \in Dates, p \in Prices :
             /\ CreateBooking(b, reader, c, d, p)
             /\ mutation' = [mutation EXCEPT !.phase = "done", !.b = b]
     \/ /\ \/ mutation.kind = "cancel" /\ CancelBooking(mutation.b, reader)
           \/ mutation.kind = "accept" /\ AcceptBooking(mutation.b, reader)
           \/ mutation.kind = "reject" /\ RejectBooking(mutation.b, reader)
        /\ mutation' = [mutation EXCEPT !.phase = "done"]
  /\ UNCHANGED <<reader, route, query, fetching>>

Invalidates(kind) == IF kind = "create" THEN {"mine"} ELSE Lists

(* A fetch under way is given up, unless there is no data to show yet.     *)
Refetched(l) ==
  IF fetching[l].phase # "idle" /\ query[l].view = NoView THEN fetching[l] ELSE Asked

(* onSuccess.                                                              *)
Succeeds ==
  LET lists == Invalidates(mutation.kind)
      active == lists \cap {route}
  IN  /\ mutation.phase = "done"
      /\ query' = [l \in Lists |-> [query[l] EXCEPT !.fresh = @ /\ l \notin lists]]
      /\ fetching' = [l \in Lists |-> IF l \in active THEN Refetched(l) ELSE fetching[l]]
      /\ mutation' = [mutation EXCEPT !.phase = "settling", !.waits = active]
      /\ UNCHANGED <<reader, route, vars>>

(* A refusal, or a lost answer.                                            *)
Fails ==
  /\ mutation.phase \in {"sent", "done"}
  /\ mutation' = NoMutation
  /\ UNCHANGED <<reader, route, query, fetching, vars>>

(* mutateAsync returns: the form goes to /booking, even if it was left.    *)
Ends ==
  /\ mutation.phase = "settling" /\ mutation.waits = {}
  /\ mutation' = NoMutation
  /\ IF mutation.kind = "create"
       THEN /\ route' = "mine"
            /\ fetching' = IF route = "mine" THEN fetching ELSE Mounted("mine")
       ELSE UNCHANGED <<route, fetching>>
  /\ UNCHANGED <<reader, query, vars>>

ListsStep ==
  \/ \E r \in Routes : Visit(r)
  \/ \E l \in Lists : GoesStale(l) \/ FetchReads(l) \/ FetchResolves(l) \/ FetchFails(l)
  \/ \E b \in Bookings, kind \in Kinds : Act(kind, b)
  \/ Focus \/ Submit \/ Handle \/ Succeeds \/ Fails \/ Ends

(* The others, the provider, and the viewer's other pages.                 *)
ListsElsewhere == Next /\ UNCHANGED listsVars

ListsNext == ListsStep \/ ListsElsewhere

ListsSpec == ListsInit /\ [][ListsNext]_listsAllVars
-----------------------------------------------------------------------------
(* List l shows booking b as it is.                                        *)
Current(l, b) == Shown(l) /\ query[l].view[b] = Listed(l)[b]

(* The lists of statuses in the pages agree with the services': a booking  *)
(* that is shown as it is offers its client to cancel exactly when the     *)
(* service would, whatever its payment, if no webhook took the id of the   *)
(* refund, and its creator to accept and to reject exactly when it would,  *)
(* but for a date taken meanwhile.                                         *)
ListsOfferMatch ==
  \A b \in Bookings :
    /\ Current("mine", b) /\ IdKept(b, "refunded") =>
         (CanCancel(b) <=> IsClient(b, reader) /\ MayCancel(b, reader))
    /\ Current("incoming", b) =>
         /\ CanAnswer(b) <=> MayReject(b, reader)
         /\ CanAnswer(b) /\ DateFree(b) <=> MayAccept(b, reader)

PageOf(kind) == IF kind = "cancel" THEN "mine" ELSE "incoming"

(* After a success the page reads its list again, from scratch if a fetch  *)
(* was under way: when that read has ended without an error, the action is *)
(* not offered a second time for the booking.                              *)
DoneIsNotOfferedAgain ==
  [][/\ mutation.kind # "create"
     /\ PageOf(mutation.kind) \in mutation.waits \ mutation'.waits
     /\ ~query'[PageOf(mutation.kind)].failed
     => ~Offered(mutation.kind, mutation.b)']_listsAllVars
=============================================================================
