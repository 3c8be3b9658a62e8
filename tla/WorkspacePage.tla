--------------------------- MODULE WorkspacePage ---------------------------
(***************************************************************************)
(* The workspace page of one booking (apps/web/src/app/booking/[id]/       *)
(* page.tsx with its header, dispute dialog and review form) in the browser*)
(* of one participant, over BookingLifecycle: the other participant, the   *)
(* administrators, the payment provider and other tabs of the viewer take  *)
(* the lifecycle's steps at any time.  The page acts on what it last read. *)
(*                                                                         *)
(* The workspace is a query of React Query: one fetch is under way at most;*)
(* an invalidation replaces it, a focus joins it.  The dispute and the     *)
(* review are read once, when the page is mounted.                         *)
(***************************************************************************)
EXTENDS BookingLifecycle

CONSTANTS
  ThisBooking  \* the booking of the page

ASSUME PageAssumption == ThisBooking \in Bookings

VARIABLES
  viewer,       \* the user the page is shown to
  reviewed,     \* a review of the booking exists
  open,         \* the page is mounted
  query,        \* the workspace query as the page sees it
  fetch,        \* its fetch
  extra,        \* the Promise.all of the mount effect
  panel,        \* what the page's own state holds
  action,       \* startAction, deliverAction or completeAction
  dialog,       \* the dispute dialog and its submission
  form,         \* the review form's submission
  converse      \* the request for a missing conversation

workspacePageVars ==
  <<viewer, reviewed, open, query, fetch, extra, panel, action, dialog, form, converse>>
workspaceAllVars == <<vars, workspacePageVars>>
-----------------------------------------------------------------------------
Kinds == {"start", "deliver", "complete"}

(* What a workspace answer holds of the booking.                           *)
Views == [status : BookingStatuses, delivered : BOOLEAN, conversation : BOOLEAN]
View ==
  [status |-> status[ThisBooking], delivered |-> deliverables[ThisBooking] > 0,
   conversation |-> ThisBooking \in conversations]
NoView == [status |-> "absent", delivered |-> FALSE, conversation |-> FALSE]

NoAction == [kind |-> "start", phase |-> "idle"]

WorkspaceTypeOK ==
  /\ viewer \in Users
  /\ reviewed \in BOOLEAN /\ open \in BOOLEAN
  /\ query \in [state : {"pending", "success", "error"}, view : Views]
  /\ fetch \in [phase : {"idle", "asked", "read"}, view : Views]
  /\ extra \in [phase : {"idle", "asked", "read"}, dispute : DisputeStatuses, review : BOOLEAN]
  /\ panel \in [dispute : DisputeStatuses, review : BOOLEAN, loadingExtra : BOOLEAN,
                confirming : BOOLEAN, failed : BOOLEAN, attempted : BOOLEAN]
  /\ action \in [kind : Kinds, phase : {"idle", "sent", "done", "settling"}]
  /\ dialog \in [shown : BOOLEAN, phase : {"idle", "sent", "done"}]
  /\ form \in {"idle", "sent", "done"}
  /\ converse \in {"idle", "sent", "done"}
  /\ action.phase = "settling" => fetch.phase # "idle"

NoPanel ==
  [dispute |-> "absent", review |-> FALSE, loadingExtra |-> TRUE,
   confirming |-> FALSE, failed |-> FALSE, attempted |-> FALSE]
NoDialog == [shown |-> FALSE, phase |-> "idle"]
NoFetch == [phase |-> "idle", view |-> NoView]
Asked == [phase |-> "asked", view |-> NoView]
NoExtra == [phase |-> "idle", dispute |-> "absent", review |-> FALSE]

WorkspaceInit ==
  /\ Init
  /\ viewer \in Users
  /\ reviewed = FALSE /\ open = FALSE
  /\ query = [state |-> "pending", view |-> NoView]
  /\ fetch = NoFetch /\ extra = NoExtra /\ panel = NoPanel
  /\ action = NoAction /\ dialog = NoDialog
  /\ form = "idle" /\ converse = "idle"
-----------------------------------------------------------------------------
(* The page shows the workspace, not its skeleton or its error.            *)
Shown == open /\ query.state = "success"
Role == IF viewer = terms[ThisBooking].client THEN "client" ELSE "creator"
Seen == query.view.status

(* The header's buttons.                                                   *)
CanStart == Role = "creator" /\ Seen = "confirmed"

CanDeliver == Role = "creator" /\ Seen = "in_progress" /\ query.view.delivered

CanAccept == Role = "client" /\ Seen = "delivered"

(* Variant: an accepted booking can be disputed before it is paid.         *)
CanOpenDispute_Accepted ==
  /\ Role = "client" /\ panel.dispute = "absent"
  /\ Seen \in {"accepted", "confirmed", "in_progress", "delivered"}

CanOpenDispute ==
  /\ Role = "client" /\ panel.dispute = "absent"
  /\ Seen \in {"confirmed", "in_progress", "delivered"}

CanReview ==
  Role = "client" /\ Seen = "completed" /\ ~panel.loadingExtra /\ ~panel.review
-----------------------------------------------------------------------------
(* Navigation to the page: data that is cached and not yet stale is shown  *)
(* without a fetch.                                                        *)
OpenPage ==
  /\ ~open /\ (IsClient(ThisBooking, viewer) \/ IsCreator(ThisBooking, viewer))
  /\ open' = TRUE
  /\ \/ fetch' = IF fetch.phase = "idle" THEN Asked ELSE fetch
     \/ query.state = "success" /\ UNCHANGED fetch
  /\ extra' = [NoExtra EXCEPT !.phase = "asked"]
  /\ UNCHANGED <<viewer, reviewed, query, panel, action, dialog, form, converse, vars>>

(* The page's own state goes; what it sent may be handled later, like a    *)
(* request of another tab.                                                 *)
ClosePage ==
  /\ open
  /\ open' = FALSE
  /\ extra' = NoExtra /\ panel' = NoPanel /\ action' = NoAction /\ dialog' = NoDialog
  /\ form' = "idle" /\ converse' = "idle"
  /\ UNCHANGED <<viewer, reviewed, query, fetch, vars>>

(* getBookingDispute and getBookingReview; an error counts as null.        *)
ExtraReads ==
  /\ extra.phase = "asked"
  /\ extra' \in [phase : {"read"}, dispute : {"absent", dispute[ThisBooking]},
                 review : {FALSE, reviewed}]
  /\ UNCHANGED <<viewer, reviewed, open, query, fetch, panel, action, dialog, form, converse, vars>>

ExtraLoads ==
  /\ extra.phase = "read"
  /\ extra' = NoExtra
  /\ panel' = [panel EXCEPT !.dispute = extra.dispute, !.review = extra.review,
                            !.loadingExtra = FALSE]
  /\ UNCHANGED <<viewer, reviewed, open, query, fetch, action, dialog, form, converse, vars>>
-----------------------------------------------------------------------------
(* Variant: an invalidation waits for the fetch that is under way.         *)
Invalidate_Joins == fetch' = IF fetch.phase = "idle" THEN Asked ELSE fetch

(* invalidateQueries and refetch: a fetch under way is given up, unless    *)
(* there is nothing to show yet.                                           *)
Invalidate ==
  fetch' = IF query.view = NoView /\ fetch.phase # "idle" THEN fetch ELSE Asked

FetchReads ==
  /\ fetch.phase = "asked"
  /\ fetch' = [phase |-> "read", view |-> View]
  /\ UNCHANGED <<viewer, reviewed, open, query, extra, panel, action, dialog, form, converse, vars>>

(* The end of the fetch ends the mutation whose onSuccess waits for it; the*)
(* confirmation closes with it.                                            *)
SettleAction ==
  IF action.phase = "settling"
    THEN /\ action' = NoAction
         /\ panel' = [panel EXCEPT !.confirming = @ /\ action.kind # "complete"]
    ELSE UNCHANGED <<action, panel>>

FetchResolves ==
  /\ fetch.phase = "read"
  /\ fetch' = NoFetch
  /\ query' = [state |-> "success", view |-> fetch.view]
  /\ SettleAction
  /\ UNCHANGED <<viewer, reviewed, open, extra, dialog, form, converse, vars>>

(* The page gives way to its error text; the data stays in the cache.  The *)
(* dialog and the review form are unmounted.                               *)
FetchFails ==
  /\ fetch.phase # "idle"
  /\ fetch' = NoFetch
  /\ query' = [query EXCEPT !.state = "error"]
  /\ SettleAction
  /\ UNCHANGED <<viewer, reviewed, open, extra, dialog, form, converse, vars>>

(* A focus of the window, or an event of the booking on the socket.        *)
Focus ==
  /\ open /\ fetch.phase = "idle"
  /\ fetch' = Asked
  /\ UNCHANGED <<viewer, reviewed, open, query, extra, panel, action, dialog, form, converse, vars>>

SocketEvent ==
  /\ Shown
  /\ Invalidate
  /\ UNCHANGED <<viewer, reviewed, open, query, extra, panel, action, dialog, form, converse, vars>>
-----------------------------------------------------------------------------
OperationOf(kind) ==
  CASE kind = "start"    -> StartBooking(ThisBooking, viewer)
    [] kind = "deliver"  -> DeliverBooking(ThisBooking, viewer)
    [] kind = "complete" -> CompleteBooking(ThisBooking, viewer)

(* handleStart and handleDeliver, and the button that asks for confirmation.*)
Click(kind) ==
  /\ Shown /\ action.phase = "idle"
  /\ IF kind = "start" THEN CanStart ELSE CanDeliver
  /\ action' = [kind |-> kind, phase |-> "sent"]
  /\ panel' = [panel EXCEPT !.failed = FALSE]
  /\ UNCHANGED <<viewer, reviewed, open, query, fetch, extra, dialog, form, converse, vars>>

Confirm ==
  /\ Shown /\ CanAccept /\ ~panel.confirming /\ action.phase = "idle"
  /\ panel' = [panel EXCEPT !.confirming = TRUE]
  /\ UNCHANGED <<viewer, reviewed, open, query, fetch, extra, action, dialog, form, converse, vars>>

Dismiss ==
  /\ Shown /\ panel.confirming /\ action.phase = "idle"
  /\ panel' = [panel EXCEPT !.confirming = FALSE]
  /\ UNCHANGED <<viewer, reviewed, open, query, fetch, extra, action, dialog, form, converse, vars>>

(* handleAcceptDelivery, whatever the page shows behind the dialog by now. *)
AcceptDelivery ==
  /\ Shown /\ panel.confirming /\ action.phase = "idle"
  /\ action' = [kind |-> "complete", phase |-> "sent"]
  /\ panel' = [panel EXCEPT !.failed = FALSE]
  /\ UNCHANGED <<viewer, reviewed, open, query, fetch, extra, dialog, form, converse, vars>>

HandleAction ==
  /\ action.phase = "sent"
  /\ OperationOf(action.kind)
  /\ action' = [action EXCEPT !.phase = "done"]
  /\ UNCHANGED <<viewer, reviewed, open, query, fetch, extra, panel, dialog, form, converse>>

(* useWorkspaceAction's onSuccess, with the booking lists left out.        *)
ActionSucceeds ==
  /\ action.phase = "done"
  /\ action' = [action EXCEPT !.phase = "settling"]
  /\ Invalidate
  /\ UNCHANGED <<viewer, reviewed, open, query, extra, panel, dialog, form, converse, vars>>

(* The service refused, or its answer was lost: the page shows an error and*)
(* fetches nothing.                                                        *)
ActionFails ==
  /\ action.phase \in {"sent", "done"}
  /\ action' = NoAction
  /\ panel' = [panel EXCEPT !.failed = TRUE]
  /\ UNCHANGED <<viewer, reviewed, open, query, fetch, extra, dialog, form, converse, vars>>
-----------------------------------------------------------------------------
(* The dispute button, and the buttons that close the dialog.              *)
ToggleDialog ==
  /\ Shown /\ dialog.phase = "idle"
  /\ dialog.shown \/ CanOpenDispute
  /\ dialog' = [dialog EXCEPT !.shown = ~@]
  /\ UNCHANGED <<viewer, reviewed, open, query, fetch, extra, panel, action, form, converse, vars>>

(* handleSubmit of the dialog.                                             *)
SubmitDispute ==
  /\ Shown /\ dialog = [shown |-> TRUE, phase |-> "idle"]
  /\ dialog' = [dialog EXCEPT !.phase = "sent"]
  /\ UNCHANGED <<viewer, reviewed, open, query, fetch, extra, panel, action, form, converse, vars>>

HandleDispute ==
  /\ dialog.phase = "sent"
  /\ OpenDispute(ThisBooking, viewer)
  /\ dialog' = [dialog EXCEPT !.phase = "done"]
  /\ UNCHANGED <<viewer, reviewed, open, query, fetch, extra, panel, action, form, converse>>

(* The page's onSuccess: the answer holds the dispute as it was opened.    *)
DisputeSucceeds ==
  /\ dialog.phase = "done"
  /\ dialog' = NoDialog
  /\ panel' = [panel EXCEPT !.dispute = "open"]
  /\ Invalidate
  /\ UNCHANGED <<viewer, reviewed, open, query, extra, action, form, converse, vars>>

DisputeFails ==
  /\ dialog.phase # "idle"
  /\ dialog' = [dialog EXCEPT !.phase = "idle"]
  /\ UNCHANGED <<viewer, reviewed, open, query, fetch, extra, panel, action, form, converse, vars>>
-----------------------------------------------------------------------------
(* create_booking_review, for one client; ReviewAggregate has its rest.    *)
ReviewAllowed ==
  IsClient(ThisBooking, viewer) /\ status[ThisBooking] = "completed" /\ ~reviewed

SubmitReview ==
  /\ Shown /\ CanReview /\ form = "idle"
  /\ form' = "sent"
  /\ UNCHANGED <<viewer, reviewed, open, query, fetch, extra, panel, action, dialog, converse,
                 vars>>

(* Handled for this form, or for another tab's.                            *)
HandleReview ==
  /\ ReviewAllowed
  /\ reviewed' = TRUE
  /\ form' \in {form} \cup (IF form = "sent" THEN {"done"} ELSE {})
  /\ UNCHANGED <<viewer, open, query, fetch, extra, panel, action, dialog, converse, vars>>

ReviewEnds ==
  /\ form # "idle"
  /\ form' = "idle"
  /\ panel' \in {panel} \cup
       (IF form = "done" THEN {[panel EXCEPT !.review = TRUE]} ELSE {})
  /\ UNCHANGED <<viewer, reviewed, open, query, fetch, extra, action, dialog, converse, vars>>
-----------------------------------------------------------------------------
(* The effect that asks for a conversation, once for each visit.           *)
RequestConversation ==
  /\ open /\ query.view # NoView /\ ~query.view.conversation /\ ~panel.attempted
  /\ Seen \in {"confirmed", "in_progress", "delivered", "disputed"}
  /\ panel' = [panel EXCEPT !.attempted = TRUE]
  /\ converse' = "sent"
  /\ UNCHANGED <<viewer, reviewed, open, query, fetch, extra, action, dialog, form, vars>>

(* get_or_create_for_booking also answers when it has nothing to create.   *)
HandleConversation ==
  /\ converse = "sent"
  /\ converse' = "done"
  /\ \/ OpenConversation(ThisBooking, viewer)
     \/ ~MayOpenConversation(ThisBooking, viewer) /\ UNCHANGED vars
  /\ UNCHANGED <<viewer, reviewed, open, query, fetch, extra, panel, action, dialog, form>>

ConversationEnds ==
  /\ converse # "idle"
  /\ converse' = "idle"
  /\ \/ converse = "done" /\ Invalidate
     \/ UNCHANGED fetch
  /\ UNCHANGED <<viewer, reviewed, open, query, extra, panel, action, dialog, form, vars>>
-----------------------------------------------------------------------------
WorkspaceStep ==
  \/ OpenPage \/ ClosePage \/ ExtraReads \/ ExtraLoads
  \/ FetchReads \/ FetchResolves \/ FetchFails \/ Focus \/ SocketEvent
  \/ \E kind \in {"start", "deliver"} : Click(kind)
  \/ Confirm \/ Dismiss \/ AcceptDelivery \/ HandleAction \/ ActionSucceeds \/ ActionFails
  \/ ToggleDialog \/ SubmitDispute \/ HandleDispute \/ DisputeSucceeds \/ DisputeFails
  \/ SubmitReview \/ HandleReview \/ ReviewEnds
  \/ RequestConversation \/ HandleConversation \/ ConversationEnds

(* The others, and the viewer elsewhere.                                   *)
WorkspaceElsewhere == Next /\ UNCHANGED workspacePageVars

WorkspaceNext == WorkspaceStep \/ WorkspaceElsewhere

WorkspaceSpec == WorkspaceInit /\ [][WorkspaceNext]_workspaceAllVars
-----------------------------------------------------------------------------
(* What the page shows is what is so.                                      *)
Current ==
  /\ Shown /\ query.view = View
  /\ panel.dispute = dispute[ThisBooking]
  /\ panel.review = reviewed /\ ~panel.loadingExtra

(* The page and the service agree on who may do what: a page that is up to *)
(* date offers an operation exactly when the service would take it, unless *)
(* a webhook took the id of the release.                                   *)
WorkspaceOffersMatch ==
  Current =>
    /\ CanStart <=> MayStart(ThisBooking, viewer)
    /\ CanDeliver <=> MayDeliver(ThisBooking, viewer)
    /\ IdKept(ThisBooking, "released") => (CanAccept <=> MayComplete(ThisBooking, viewer))
    /\ CanOpenDispute <=> MayOpenDispute(ThisBooking, viewer)
    /\ CanReview <=> ReviewAllowed

Progress ==
  [s \in BookingStatuses |->
     CASE s = "confirmed" -> 1 [] s = "in_progress" -> 2 [] s = "delivered" -> 3
       [] s = "disputed" -> 4 [] s \in {"completed", "cancelled"} -> 5 [] OTHER -> 0]

(* When an action of the page has succeeded and the page still shows the   *)
(* booking, it shows a status at or behind the one the action led to: it   *)
(* does not offer again what is done.                                      *)
DoneIsShown ==
  [][action.phase = "settling" /\ action'.phase = "idle" /\ query'.state = "success" /\ open'
       => Progress[query'.view.status] >=
            (CASE action.kind = "start" -> 2 [] action.kind = "deliver" -> 3
               [] action.kind = "complete" -> 5)]_workspaceAllVars

(* An up to date page offers what the service would do, and no settling    *)
(* action waits without a fetch.                                           *)
WorkspaceInv == WorkspaceTypeOK /\ WorkspaceOffersMatch
=============================================================================
