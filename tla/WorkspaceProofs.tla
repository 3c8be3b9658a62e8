--------------------------- MODULE WorkspaceProofs ---------------------------
(***************************************************************************)
(* Theorems about the workspace of one booking: WorkspacePage, over the    *)
(* services it asks, and then DeliverablesPanel, for any files and any     *)
(* number of uploads, rows and late requests.                              *)
(*                                                                         *)
(* The page: what an action has done is never undone by anybody            *)
(* (BookingsAdvance), and the fetch that the action waits for was asked for*)
(* after it (ReadsFollowActions), since an action is only sent from a page *)
(* that has data, where an invalidation gives up the fetch under way.      *)
(*                                                                         *)
(* The panel: PanelInv is not inductive alone.  A deliverable keeps its    *)
(* object because only rejected intents are cleaned up (ObjectsAreKept) and*)
(* a completion decides on an intent that is still pending (ApiShape); a   *)
(* cancelled upload is never delivered because a completion is only asked  *)
(* for by an upload that can no longer be cancelled (CompletionsWereAsked).*)
(***************************************************************************)
EXTENDS BookingLifecycleProofs, WorkspacePage, DeliverablesPanel

(* How far a booking is once an action of the page was handled.            *)
Led(kind) ==
  CASE kind = "start" -> 2 [] kind = "deliver" -> 3 [] kind = "complete" -> 5

(* A booking is only visited and fetched once it exists; a closed page has *)
(* nothing under way.                                                      *)
PageShape ==
  /\ open \/ fetch.phase # "idle" => status[ThisBooking] # "absent"
  /\ fetch.phase = "read" => fetch.view.status # "absent"
  /\ panel.confirming \/ action.phase # "idle" => open /\ query.view.status # "absent"
  /\ dialog.phase # "idle" \/ converse # "idle" => open

(* What an action has done stays done, and the read that it waits for      *)
(* began after it.                                                         *)
ReadsFollowActions ==
  /\ action.phase \in {"done", "settling"} =>
       Progress[status[ThisBooking]] >= Led(action.kind)
  /\ action.phase = "settling" /\ fetch.phase = "read" =>
       Progress[fetch.view.status] >= Led(action.kind)

WorkspaceInductive == EscrowInv /\ WorkspaceTypeOK /\ PageShape /\ ReadsFollowActions

(* The order of the booking's statuses.                                    *)
LEMMA ProgressValues ==
  /\ Progress["confirmed"] = 1 /\ Progress["in_progress"] = 2 /\ Progress["delivered"] = 3
  /\ Progress["disputed"] = 4 /\ Progress["completed"] = 5 /\ Progress["cancelled"] = 5
  /\ Progress["absent"] = 0 /\ Progress["requested"] = 0 /\ Progress["accepted"] = 0
  /\ Progress["awaiting_payment"] = 0 /\ Progress["rejected"] = 0
  /\ \A s \in BookingStatuses : Progress[s] \in Int
BY DEF Progress, BookingStatuses

(* No step of the services takes a booking back.                           *)
LEMMA BookingsAdvance ==
  ASSUME EscrowInv, [Next]_vars, NEW b \in Bookings
  PROVE  /\ Progress[status'[b]] >= Progress[status[b]]
         /\ status[b] # "absent" => status'[b] # "absent"
<1>1. status[b] \in BookingStatuses
  BY DEF EscrowInv, TypeOK
<1>2. MovesOneRow
  BY StepMoves
<1>3. CASE status'[b] = status[b]
  BY <1>1, <1>3, ProgressValues
<1>4. CASE status'[b] # status[b]
  <2>1. Move(b)
    BY <1>2, <1>4 DEF MovesOneRow, OthersStay
  <2>2. CASE UnpaidMove(b) \/ BilledMove(b)
    BY <1>4, <2>2, ProgressValues DEF UnpaidMove, BilledMove, Edge
  <2>3. CASE PaidMove(b) \/ SettlingMove(b)
    BY <1>4, <2>3, ProgressValues DEF PaidMove, SettlingMove, Edge
  <2>4. QED
    BY <2>1, <2>2, <2>3 DEF Move
<1>5. QED
  BY <1>3, <1>4

(* The page's requests are steps of the services.                          *)
LEMMA WorkspaceIsLifecycle ==
  ASSUME WorkspaceTypeOK, [WorkspaceNext]_workspaceAllVars
  PROVE  [Next]_vars
<1>1. ThisBooking \in Bookings /\ viewer \in Users
  BY PageAssumption DEF WorkspaceTypeOK
<1>2. CASE HandleAction
  <2>1. \/ StartBooking(ThisBooking, viewer) \/ DeliverBooking(ThisBooking, viewer)
        \/ CompleteBooking(ThisBooking, viewer)
    BY <1>2 DEF HandleAction, OperationOf, WorkspaceTypeOK, Kinds
  <2>2. QED
    BY <1>1, <2>1 DEF Next, ClientStep, CreatorStep
<1>3. CASE HandleDispute
  BY <1>1, <1>3 DEF HandleDispute, Next, ClientStep
<1>4. CASE HandleConversation
  <2>1. OpenConversation(ThisBooking, viewer) \/ UNCHANGED vars
    BY <1>4 DEF HandleConversation
  <2>2. QED
    BY <1>1, <2>1 DEF Next, SharedStep
<1>5. CASE WorkspaceElsewhere \/ UNCHANGED workspaceAllVars
  BY <1>5 DEF WorkspaceElsewhere, workspaceAllVars
<1>6. CASE OpenPage \/ ClosePage \/ ExtraReads \/ ExtraLoads \/ FetchReads \/ FetchResolves
  BY <1>6 DEF OpenPage, ClosePage, ExtraReads, ExtraLoads, FetchReads, FetchResolves
<1>7. CASE FetchFails \/ Focus \/ SocketEvent \/ \E kind \in {"start", "deliver"} : Click(kind)
  BY <1>7 DEF FetchFails, Focus, SocketEvent, Click
<1>8. CASE Confirm \/ Dismiss \/ AcceptDelivery \/ ActionSucceeds \/ ActionFails
  BY <1>8 DEF Confirm, Dismiss, AcceptDelivery, ActionSucceeds, ActionFails
<1>9. CASE ToggleDialog \/ SubmitDispute \/ DisputeSucceeds \/ DisputeFails
  BY <1>9 DEF ToggleDialog, SubmitDispute, DisputeSucceeds, DisputeFails
<1>10. CASE SubmitReview \/ HandleReview \/ ReviewEnds \/ RequestConversation \/ ConversationEnds
  BY <1>10 DEF SubmitReview, HandleReview, ReviewEnds, RequestConversation, ConversationEnds
<1>11. QED
  BY <1>2, <1>3, <1>4, <1>5, <1>6, <1>7, <1>8, <1>9, <1>10 DEF WorkspaceNext, WorkspaceStep

LEMMA InitWorkspace == WorkspaceInit => WorkspaceInductive
<1> SUFFICES ASSUME WorkspaceInit PROVE WorkspaceInductive
  OBVIOUS
<1>1. EscrowInv
  BY InitEscrow DEF WorkspaceInit
<1>2. WorkspaceTypeOK
  BY DEF WorkspaceInit, WorkspaceTypeOK, Views, NoView, NoFetch, NoExtra, NoPanel, NoAction,
         NoDialog, BookingStatuses, DisputeStatuses, Kinds
<1>3. PageShape /\ ReadsFollowActions
  BY DEF WorkspaceInit, PageShape, ReadsFollowActions, NoFetch, NoPanel, NoAction, NoDialog
<1>4. QED
  BY <1>1, <1>2, <1>3 DEF WorkspaceInductive

(* What the steps of the services, and of the page, keep of the booking.   *)
Onward ==
  /\ EscrowInv' /\ status'[ThisBooking] \in BookingStatuses
  /\ Progress[status'[ThisBooking]] >= Progress[status[ThisBooking]]
  /\ Progress[status'[ThisBooking]] \in Int /\ Progress[status[ThisBooking]] \in Int
  /\ status[ThisBooking] # "absent" => status'[ThisBooking] # "absent"

LEMMA Onwards ==
  ASSUME EscrowInv, [Next]_vars
  PROVE  Onward
<1>1. EscrowInv'
  BY NextEscrow
<1>2. status'[ThisBooking] \in BookingStatuses /\ status[ThisBooking] \in BookingStatuses
  BY <1>1, PageAssumption DEF EscrowInv, TypeOK
<1>3. QED
  BY <1>1, <1>2, BookingsAdvance, ProgressValues, PageAssumption DEF Onward

LEMMA ViewIsSeen ==
  WorkspaceInductive => View \in Views /\ View.status = status[ThisBooking]
BY PageAssumption DEF WorkspaceInductive, EscrowInv, TypeOK, View, Views

LEMMA FetchValues ==
  /\ NoFetch \in [phase : {"idle", "asked", "read"}, view : Views] /\ NoFetch.phase = "idle"
  /\ Asked \in [phase : {"idle", "asked", "read"}, view : Views] /\ Asked.phase = "asked"
  /\ NoView.status = "absent"
BY DEF NoFetch, Asked, NoView, Views, BookingStatuses

LEMMA LedValues == Led("start") = 2 /\ Led("deliver") = 3 /\ Led("complete") = 5
BY DEF Led

(* The requests of the page and those of everybody else.                   *)
LEMMA RequestSteps ==
  ASSUME WorkspaceInductive,
         HandleAction \/ HandleDispute \/ HandleConversation \/ HandleReview
           \/ WorkspaceElsewhere \/ UNCHANGED workspaceAllVars
  PROVE  WorkspaceInductive'
<1>0. WorkspaceTypeOK /\ PageShape /\ ReadsFollowActions
  BY DEF WorkspaceInductive
<1>1. Onward
  <2>1. [Next]_vars
    BY <1>0, WorkspaceIsLifecycle DEF WorkspaceNext, WorkspaceStep
  <2>2. QED
    BY <2>1, Onwards DEF WorkspaceInductive
<1>2. CASE HandleAction
  <2>1. /\ action.phase = "sent" /\ action.kind \in Kinds
        /\ action' = [action EXCEPT !.phase = "done"]
        /\ UNCHANGED <<viewer, reviewed, open, query, fetch, extra, panel, dialog, form, converse>>
    BY <1>0, <1>2 DEF HandleAction, WorkspaceTypeOK
  <2>2. action'.phase = "done" /\ action'.kind = action.kind
        /\ action' \in [kind : Kinds, phase : {"idle", "sent", "done", "settling"}]
    BY <1>0, <2>1 DEF WorkspaceTypeOK
  <2>3. Progress[status'[ThisBooking]] >= Led(action.kind)
    <3>1. status \in [Bookings -> BookingStatuses]
      BY DEF WorkspaceInductive, EscrowInv, TypeOK
    <3>2. CASE action.kind = "start"
      <4>1. status'[ThisBooking] = "in_progress"
        BY <1>2, <3>1, <3>2, PageAssumption DEF HandleAction, OperationOf, StartBooking,
                                                MayStart
      <4>2. QED
        BY <3>2, <4>1, LedValues, ProgressValues
    <3>3. CASE action.kind = "deliver"
      <4>1. status'[ThisBooking] = "delivered"
        BY <1>2, <3>1, <3>3, PageAssumption DEF HandleAction, OperationOf, DeliverBooking,
                                                MayDeliver
      <4>2. QED
        BY <3>3, <4>1, LedValues, ProgressValues
    <3>4. CASE action.kind = "complete"
      <4>1. status'[ThisBooking] = "completed"
        BY <1>2, <3>1, <3>4, PageAssumption DEF HandleAction, OperationOf,
                                                CompleteBooking, MayComplete
      <4>2. QED
        BY <3>4, <4>1, LedValues, ProgressValues
    <3>5. QED
      BY <2>1, <3>2, <3>3, <3>4 DEF Kinds
  <2>4. WorkspaceTypeOK'
    BY <1>0, <2>1, <2>2 DEF WorkspaceTypeOK
  <2>5. PageShape' /\ ReadsFollowActions'
    BY <1>0, <1>1, <2>1, <2>2, <2>3 DEF PageShape, ReadsFollowActions, Onward
  <2>6. QED
    BY <1>1, <2>4, <2>5 DEF WorkspaceInductive, Onward
<1>3. ASSUME UNCHANGED <<viewer, open, query, fetch, extra, panel, action>>,
             reviewed' \in BOOLEAN, dialog' \in [shown : BOOLEAN, phase : {"idle", "sent", "done"}],
             form' \in {"idle", "sent", "done"}, converse' \in {"idle", "sent", "done"},
             dialog'.phase # "idle" \/ converse' # "idle" => open
      PROVE  WorkspaceInductive'
  <2>1. WorkspaceTypeOK'
    BY <1>0, <1>3 DEF WorkspaceTypeOK
  <2>2. PageShape'
    BY <1>0, <1>1, <1>3 DEF PageShape, Onward
  <2>3. ReadsFollowActions'
    <3>1. action.kind \in Kinds
      BY <1>0 DEF WorkspaceTypeOK
    <3>2. Led(action.kind) \in Int
      BY <3>1, LedValues DEF Kinds
    <3>3. QED
      BY <1>0, <1>1, <1>3, <3>2 DEF ReadsFollowActions, Onward
  <2>4. QED
    BY <1>1, <2>1, <2>2, <2>3 DEF WorkspaceInductive, Onward
<1>4. CASE HandleDispute
  <2>1. dialog' \in [shown : BOOLEAN, phase : {"idle", "sent", "done"}] /\ open
    BY <1>0, <1>4 DEF HandleDispute, WorkspaceTypeOK, PageShape
  <2>2. QED
    BY <1>0, <1>3, <1>4, <2>1 DEF HandleDispute, WorkspaceTypeOK
<1>5. CASE HandleConversation
  <2>1. /\ converse = "sent" /\ converse' = "done"
        /\ UNCHANGED <<viewer, reviewed, open, query, fetch, extra, panel, action, dialog, form>>
    BY <1>5 DEF HandleConversation
  <2>2. QED
    BY <1>0, <1>3, <2>1 DEF WorkspaceTypeOK, PageShape
<1>6. CASE HandleReview
  BY <1>0, <1>3, <1>6 DEF HandleReview, WorkspaceTypeOK, PageShape
<1>7. CASE WorkspaceElsewhere \/ UNCHANGED workspaceAllVars
  <2>1. UNCHANGED <<viewer, reviewed, open, query, fetch, extra, panel, action, dialog, form, converse>>
    BY <1>7 DEF WorkspaceElsewhere, workspacePageVars, workspaceAllVars
  <2>2. QED
    BY <1>0, <1>3, <2>1 DEF WorkspaceTypeOK, PageShape
<1>8. QED
  BY <1>2, <1>4, <1>5, <1>6, <1>7

(* The steps of the browser alone.                                         *)
LEMMA BrowserStep ==
  ASSUME WorkspaceInductive, UNCHANGED vars, WorkspaceTypeOK', PageShape', ReadsFollowActions'
  PROVE  WorkspaceInductive'
<1>1. [Next]_vars
  OBVIOUS
<1>2. QED
  BY <1>1, NextEscrow DEF WorkspaceInductive

(* What invalidating the query leaves in its place.                        *)
LEMMA Invalidated ==
  ASSUME WorkspaceTypeOK, Invalidate
  PROVE  /\ fetch' \in [phase : {"idle", "asked", "read"}, view : Views]
         /\ fetch'.phase # "idle"
         /\ fetch' = fetch \/ fetch' = Asked
         /\ query.view.status # "absent" => fetch' = Asked
BY FetchValues DEF WorkspaceTypeOK, Invalidate

LEMMA FetchingSteps ==
  ASSUME WorkspaceInductive,
         \/ OpenPage \/ ClosePage \/ FetchReads \/ FetchResolves \/ FetchFails
         \/ Focus \/ SocketEvent
  PROVE  WorkspaceInductive'
<1>0. WorkspaceTypeOK /\ PageShape /\ ReadsFollowActions
  BY DEF WorkspaceInductive
<1>1. /\ fetch \in [phase : {"idle", "asked", "read"}, view : Views]
      /\ action \in [kind : Kinds, phase : {"idle", "sent", "done", "settling"}]
      /\ panel \in [dispute : DisputeStatuses, review : BOOLEAN, loadingExtra : BOOLEAN,
                    confirming : BOOLEAN, failed : BOOLEAN, attempted : BOOLEAN]
      /\ action.phase = "settling" => fetch.phase # "idle"
  BY <1>0 DEF WorkspaceTypeOK
<1>2. CASE OpenPage
  <2>1. /\ status[ThisBooking] # "absent" /\ ~open /\ open' = TRUE
        /\ fetch' = fetch \/ fetch' = Asked
        /\ extra' = [NoExtra EXCEPT !.phase = "asked"]
        /\ UNCHANGED <<viewer, reviewed, query, panel, action, dialog, form, converse, vars>>
    BY <1>2 DEF OpenPage, IsClient, IsCreator, Exists
  <2>2. status' = status
    BY <2>1 DEF vars, bookingVars
  <2>3. extra' \in [phase : {"idle", "asked", "read"}, dispute : DisputeStatuses, review : BOOLEAN]
    BY <2>1 DEF NoExtra, DisputeStatuses
  <2>4. WorkspaceTypeOK'
    BY <1>0, <2>1, <2>3, FetchValues DEF WorkspaceTypeOK
  <2>5. PageShape' /\ ReadsFollowActions'
    BY <1>0, <2>1, <2>2, FetchValues DEF PageShape, ReadsFollowActions
  <2>6. QED
    BY <2>1, <2>4, <2>5, BrowserStep
<1>3. CASE ClosePage
  <2>1. WorkspaceTypeOK'
    BY <1>0, <1>3
    DEF ClosePage, WorkspaceTypeOK, NoExtra, NoPanel, NoAction, NoDialog, DisputeStatuses, Kinds
  <2>2. status' = status
    BY <1>3 DEF ClosePage, vars, bookingVars
  <2>3. PageShape' /\ ReadsFollowActions'
    BY <1>0, <1>3, <2>2
    DEF ClosePage, PageShape, ReadsFollowActions, NoPanel, NoAction, NoDialog
  <2>4. QED
    BY <1>3, <2>1, <2>3, BrowserStep DEF ClosePage
<1>4. CASE FetchReads
  <2>1. /\ fetch.phase = "asked" /\ fetch' = [phase |-> "read", view |-> View]
        /\ UNCHANGED <<viewer, reviewed, open, query, extra, panel, action, dialog, form, converse>>
        /\ UNCHANGED vars
    BY <1>4 DEF FetchReads
  <2>2. /\ fetch' \in [phase : {"idle", "asked", "read"}, view : Views]
        /\ fetch'.phase = "read" /\ fetch'.view.status = status[ThisBooking]
    BY <2>1, ViewIsSeen
  <2>3. WorkspaceTypeOK'
    BY <1>0, <2>1, <2>2 DEF WorkspaceTypeOK
  <2>4. status' = status
    BY <2>1 DEF vars, bookingVars
  <2>5. PageShape' /\ ReadsFollowActions'
    BY <1>0, <2>1, <2>2, <2>4 DEF PageShape, ReadsFollowActions
  <2>6. QED
    BY <2>1, <2>3, <2>5, BrowserStep
<1>5. ASSUME SettleAction
      PROVE  /\ action' \in [kind : Kinds, phase : {"idle", "sent", "done", "settling"}]
             /\ panel' \in [dispute : DisputeStatuses, review : BOOLEAN, loadingExtra : BOOLEAN,
                            confirming : BOOLEAN, failed : BOOLEAN, attempted : BOOLEAN]
             /\ action'.phase # "settling"
             /\ action' = action \/ action'.phase = "idle"
             /\ panel'.confirming => panel.confirming
  <2>1. NoAction \in [kind : Kinds, phase : {"idle", "sent", "done", "settling"}]
        /\ NoAction.phase = "idle"
    BY DEF NoAction, Kinds
  <2>2. CASE action.phase = "settling"
    <3>1. panel' = [panel EXCEPT !.confirming = panel.confirming /\ action.kind # "complete"]
      BY <1>5, <2>2 DEF SettleAction
    <3>2. PICK c \in BOOLEAN : c = (panel.confirming /\ action.kind # "complete")
      BY <1>1
    <3>3. panel' = [panel EXCEPT !.confirming = c]
      BY <3>1, <3>2
    <3>4. panel' \in [dispute : DisputeStatuses, review : BOOLEAN, loadingExtra : BOOLEAN,
                      confirming : BOOLEAN, failed : BOOLEAN, attempted : BOOLEAN]
          /\ panel'.confirming = c
      BY <1>1, <3>3
    <3>5. QED
      BY <1>5, <2>1, <2>2, <3>2, <3>4 DEF SettleAction
  <2>3. CASE action.phase # "settling"
    BY <1>1, <1>5, <2>3 DEF SettleAction
  <2>4. QED
    BY <2>2, <2>3
<1>6. CASE FetchResolves \/ FetchFails
  <2>1. /\ SettleAction /\ fetch.phase # "idle" /\ fetch' = NoFetch
        /\ UNCHANGED <<viewer, reviewed, open, extra, dialog, form, converse, vars>>
    BY <1>6 DEF FetchResolves, FetchFails
  <2>2. /\ query' \in [state : {"pending", "success", "error"}, view : Views]
        /\ query'.view = query.view \/ (fetch.phase = "read" /\ query'.view = fetch.view)
    BY <1>0, <1>6 DEF FetchResolves, FetchFails, WorkspaceTypeOK
  <2>3. WorkspaceTypeOK'
    BY <1>0, <1>5, <2>1, <2>2, FetchValues DEF WorkspaceTypeOK
  <2>4. status' = status
    BY <2>1 DEF vars, bookingVars
  <2>5. PageShape' /\ ReadsFollowActions'
    BY <1>0, <1>5, <2>1, <2>2, <2>4, FetchValues DEF PageShape, ReadsFollowActions
  <2>6. QED
    BY <2>1, <2>3, <2>5, BrowserStep
<1>7. CASE Focus \/ SocketEvent
  <2>1. /\ open /\ (fetch' = fetch \/ fetch' = Asked)
        /\ fetch' \in [phase : {"idle", "asked", "read"}, view : Views] /\ fetch'.phase # "idle"
        /\ UNCHANGED <<viewer, reviewed, open, query, extra, panel, action, dialog, form, converse>>
        /\ UNCHANGED vars
    BY <1>0, <1>7, Invalidated, FetchValues DEF Focus, SocketEvent, Shown
  <2>2. WorkspaceTypeOK'
    BY <1>0, <2>1 DEF WorkspaceTypeOK
  <2>3. status' = status
    BY <2>1 DEF vars, bookingVars
  <2>4. PageShape' /\ ReadsFollowActions'
    BY <1>0, <2>1, <2>3, FetchValues DEF PageShape, ReadsFollowActions
  <2>5. QED
    BY <2>1, <2>2, <2>4, BrowserStep
<1>8. QED
  BY <1>2, <1>3, <1>4, <1>6, <1>7

(* The steps that leave the query alone or invalidate it, one by one.      *)
LEMMA BrowserSteps ==
  ASSUME WorkspaceInductive,
         \/ ExtraReads \/ ExtraLoads \/ Confirm \/ Dismiss \/ AcceptDelivery
         \/ \E kind \in {"start", "deliver"} : Click(kind)
         \/ ActionSucceeds \/ ActionFails \/ ToggleDialog \/ SubmitDispute
         \/ DisputeSucceeds \/ DisputeFails \/ SubmitReview \/ ReviewEnds
         \/ RequestConversation \/ ConversationEnds
  PROVE  WorkspaceInductive'
<1>0. WorkspaceTypeOK /\ PageShape /\ ReadsFollowActions
  BY DEF WorkspaceInductive
<1> DEFINE
  Fetches == [phase : {"idle", "asked", "read"}, view : Views]
  Actions == [kind : Kinds, phase : {"idle", "sent", "done", "settling"}]
  Panels == [dispute : DisputeStatuses, review : BOOLEAN, loadingExtra : BOOLEAN,
             confirming : BOOLEAN, failed : BOOLEAN, attempted : BOOLEAN]
  Dialogs == [shown : BOOLEAN, phase : {"idle", "sent", "done"}]
  Simple == {"idle", "sent", "done"}
<1>1. /\ fetch \in Fetches /\ action \in Actions /\ panel \in Panels /\ dialog \in Dialogs
      /\ form \in Simple /\ converse \in Simple
      /\ extra \in [phase : {"idle", "asked", "read"}, dispute : DisputeStatuses, review : BOOLEAN]
      /\ action.phase = "settling" => fetch.phase # "idle"
  BY <1>0 DEF WorkspaceTypeOK
<1>2. dispute[ThisBooking] \in DisputeStatuses
  BY PageAssumption DEF WorkspaceInductive, EscrowInv, TypeOK
<1>3. ASSUME /\ UNCHANGED <<viewer, open, query, vars>> /\ reviewed' \in BOOLEAN
             /\ extra' \in [phase : {"idle", "asked", "read"}, dispute : DisputeStatuses,
                             review : BOOLEAN]
             /\ action' \in Actions /\ panel' \in Panels /\ dialog' \in Dialogs
             /\ form' \in Simple /\ converse' \in Simple
             /\ fetch' = fetch \/ (fetch' = Asked /\ open)
             /\ action' = action \/ action'.phase \in {"idle", "sent"}
             /\ action'.phase # "idle" \/ panel'.confirming => open /\ query.view.status # "absent"
             /\ dialog'.phase # "idle" \/ converse' # "idle" => open
      PROVE  WorkspaceInductive'
  <2>1. status' = status
    BY <1>3 DEF vars, bookingVars
  <2>2. WorkspaceTypeOK'
    BY <1>0, <1>1, <1>3, FetchValues DEF WorkspaceTypeOK
  <2>3. PageShape'
    BY <1>0, <1>1, <1>3, <2>1, FetchValues DEF PageShape
  <2>4. ReadsFollowActions'
    BY <1>0, <1>1, <1>3, <2>1, FetchValues DEF ReadsFollowActions
  <2>5. QED
    BY <1>3, <2>2, <2>3, <2>4, BrowserStep
<1>4. ASSUME Shown PROVE open
  BY <1>4 DEF Shown
<1>5. Seen = query.view.status
  BY DEF Seen
<1>6. CASE ExtraReads
  <2>1. extra' \in [phase : {"idle", "asked", "read"}, dispute : DisputeStatuses, review : BOOLEAN]
    BY <1>0, <1>2, <1>6 DEF ExtraReads, DisputeStatuses, WorkspaceTypeOK
  <2>2. QED
    BY <1>0, <1>1, <1>3, <1>6, <2>1 DEF ExtraReads, PageShape, WorkspaceTypeOK
<1>7. CASE ExtraLoads
  <2>1. panel' \in Panels /\ panel'.confirming = panel.confirming
    BY <1>1, <1>7 DEF ExtraLoads
  <2>2. NoExtra \in [phase : {"idle", "asked", "read"}, dispute : DisputeStatuses, review : BOOLEAN]
    BY DEF NoExtra, DisputeStatuses
  <2>3. QED
    BY <1>0, <1>1, <1>3, <1>7, <2>1, <2>2 DEF ExtraLoads, PageShape, WorkspaceTypeOK
<1>8. CASE \E kind \in {"start", "deliver"} : Click(kind)
  <2>1. PICK kind \in {"start", "deliver"} : Click(kind)
    BY <1>8
  <2>2. action' \in Actions /\ action'.phase = "sent"
    BY <2>1 DEF Click, Kinds
  <2>3. panel' \in Panels /\ panel'.confirming = panel.confirming
    BY <1>1, <2>1 DEF Click
  <2>4. open /\ query.view.status # "absent"
    BY <1>4, <1>5, <2>1 DEF Click, CanStart, CanDeliver
  <2>5. QED
    BY <1>0, <1>1, <1>3, <2>1, <2>2, <2>3, <2>4 DEF Click, PageShape, WorkspaceTypeOK
<1>9. CASE Confirm
  <2>1. panel' \in Panels
    BY <1>1, <1>9 DEF Confirm
  <2>2. open /\ query.view.status # "absent"
    BY <1>4, <1>5, <1>9 DEF Confirm, CanAccept
  <2>3. QED
    BY <1>0, <1>1, <1>3, <1>9, <2>1, <2>2 DEF Confirm, PageShape, WorkspaceTypeOK
<1>10. CASE Dismiss
  <2>1. panel' \in Panels /\ ~panel'.confirming
    BY <1>1, <1>10 DEF Dismiss
  <2>2. QED
    BY <1>0, <1>1, <1>3, <1>10, <2>1 DEF Dismiss, PageShape, WorkspaceTypeOK
<1>11. CASE AcceptDelivery
  <2>1. action' \in Actions /\ action'.phase = "sent"
    BY <1>11 DEF AcceptDelivery, Kinds
  <2>2. panel' \in Panels /\ panel'.confirming = panel.confirming
    BY <1>1, <1>11 DEF AcceptDelivery
  <2>3. open /\ query.view.status # "absent"
    BY <1>0, <1>11 DEF AcceptDelivery, PageShape
  <2>4. QED
    BY <1>0, <1>1, <1>3, <1>11, <2>1, <2>2, <2>3 DEF AcceptDelivery, PageShape, WorkspaceTypeOK
<1>12. CASE ActionSucceeds
  <2>1. /\ action.phase = "done" /\ open /\ query.view.status # "absent"
        /\ UNCHANGED <<viewer, reviewed, open, query, extra, panel, dialog, form, converse, vars>>
    BY <1>0, <1>12 DEF ActionSucceeds, PageShape
  <2>2. action' \in Actions /\ action'.phase = "settling" /\ action'.kind = action.kind
    BY <1>1, <1>12 DEF ActionSucceeds
  <2>3. fetch' = Asked
    BY <1>0, <1>12, <2>1, Invalidated DEF ActionSucceeds
  <2>4. status' = status
    BY <2>1 DEF vars, bookingVars
  <2>5. WorkspaceTypeOK'
    BY <1>0, <2>1, <2>2, <2>3, FetchValues DEF WorkspaceTypeOK
  <2>6. PageShape' /\ ReadsFollowActions'
    BY <1>0, <2>1, <2>2, <2>3, <2>4, FetchValues DEF PageShape, ReadsFollowActions
  <2>7. QED
    BY <2>1, <2>5, <2>6, BrowserStep
<1>13. CASE ActionFails
  <2>1. panel' \in Panels /\ panel'.confirming = panel.confirming
    BY <1>1, <1>13 DEF ActionFails
  <2>2. action' \in Actions /\ action'.phase = "idle"
    BY <1>13 DEF ActionFails, NoAction, Kinds
  <2>3. QED
    BY <1>0, <1>1, <1>3, <1>13, <2>1, <2>2 DEF ActionFails, PageShape, WorkspaceTypeOK
<1>14. CASE ToggleDialog \/ SubmitDispute
  <2>1. dialog' \in Dialogs /\ open
    BY <1>1, <1>4, <1>14 DEF ToggleDialog, SubmitDispute
  <2>2. QED
    BY <1>0, <1>1, <1>3, <1>14, <2>1 DEF ToggleDialog, SubmitDispute, PageShape, WorkspaceTypeOK
<1>15. CASE DisputeSucceeds
  <2>1. panel' \in Panels /\ panel'.confirming = panel.confirming
    BY <1>1, <1>15 DEF DisputeSucceeds, DisputeStatuses
  <2>2. dialog' \in Dialogs /\ dialog'.phase = "idle"
    BY <1>15 DEF DisputeSucceeds, NoDialog
  <2>3. open /\ (fetch' = fetch \/ fetch' = Asked)
    BY <1>0, <1>15, Invalidated DEF DisputeSucceeds, PageShape
  <2>4. QED
    BY <1>0, <1>1, <1>3, <1>15, <2>1, <2>2, <2>3 DEF DisputeSucceeds, PageShape, WorkspaceTypeOK
<1>16. CASE DisputeFails
  <2>1. dialog' \in Dialogs /\ dialog'.phase = "idle"
    BY <1>1, <1>16 DEF DisputeFails
  <2>2. QED
    BY <1>0, <1>1, <1>3, <1>16, <2>1 DEF DisputeFails, PageShape, WorkspaceTypeOK
<1>17. CASE SubmitReview
  BY <1>0, <1>1, <1>3, <1>17 DEF SubmitReview, PageShape, WorkspaceTypeOK
<1>18. CASE ReviewEnds
  <2>1. panel' \in Panels /\ panel'.confirming = panel.confirming
    BY <1>1, <1>18 DEF ReviewEnds
  <2>2. QED
    BY <1>0, <1>1, <1>3, <1>18, <2>1 DEF ReviewEnds, PageShape, WorkspaceTypeOK
<1>19. CASE RequestConversation
  <2>1. panel' \in Panels /\ panel'.confirming = panel.confirming
    BY <1>1, <1>19 DEF RequestConversation
  <2>2. QED
    BY <1>0, <1>1, <1>3, <1>19, <2>1 DEF RequestConversation, PageShape, WorkspaceTypeOK
<1>20. CASE ConversationEnds
  <2>1. open /\ (fetch' = fetch \/ fetch' = Asked)
    BY <1>0, <1>20, Invalidated DEF ConversationEnds, PageShape
  <2>2. QED
    BY <1>0, <1>1, <1>3, <1>20, <2>1 DEF ConversationEnds, PageShape, WorkspaceTypeOK
<1>21. QED
  BY <1>6, <1>7, <1>8, <1>9, <1>10, <1>11, <1>12, <1>13, <1>14, <1>15, <1>16, <1>17, <1>18,
     <1>19, <1>20

LEMMA NextWorkspace ==
  ASSUME WorkspaceInductive, [WorkspaceNext]_workspaceAllVars
  PROVE  WorkspaceInductive'
<1>1. CASE \/ HandleAction \/ HandleDispute \/ HandleConversation \/ HandleReview
           \/ WorkspaceElsewhere \/ UNCHANGED workspaceAllVars
  BY <1>1, RequestSteps
<1>2. CASE \/ OpenPage \/ ClosePage \/ FetchReads \/ FetchResolves \/ FetchFails
           \/ Focus \/ SocketEvent
  BY <1>2, FetchingSteps
<1>3. CASE \/ ExtraReads \/ ExtraLoads \/ Confirm \/ Dismiss \/ AcceptDelivery
           \/ \E kind \in {"start", "deliver"} : Click(kind)
           \/ ActionSucceeds \/ ActionFails \/ ToggleDialog \/ SubmitDispute
           \/ DisputeSucceeds \/ DisputeFails \/ SubmitReview \/ ReviewEnds
           \/ RequestConversation \/ ConversationEnds
  BY <1>3, BrowserSteps
<1>4. QED
  BY <1>1, <1>2, <1>3 DEF WorkspaceNext, WorkspaceStep

(* DoneIsShown without its box.                                            *)
ShownDone ==
  action.phase = "settling" /\ action'.phase = "idle" /\ query'.state = "success" /\ open'
    => Progress[query'.view.status] >=
         (CASE action.kind = "start" -> 2 [] action.kind = "deliver" -> 3
            [] action.kind = "complete" -> 5)

LEMMA SettledIsShown ==
  ASSUME WorkspaceInductive, [WorkspaceNext]_workspaceAllVars
  PROVE  ShownDone
<1> SUFFICES ASSUME action.phase = "settling", action'.phase = "idle",
                    query'.state = "success", open'
             PROVE  Progress[query'.view.status] >= Led(action.kind)
  BY DEF ShownDone, Led
<1>0. ReadsFollowActions
  BY DEF WorkspaceInductive
<1>1. CASE FetchResolves
  BY <1>0, <1>1 DEF FetchResolves, ReadsFollowActions
<1>2. ~FetchFails
  BY DEF FetchFails, WorkspaceInductive, WorkspaceTypeOK
<1>3. ~ClosePage
  BY DEF ClosePage
<1>4. ~(ActionFails \/ ActionSucceeds \/ HandleAction \/ AcceptDelivery)
  BY DEF ActionFails, ActionSucceeds, HandleAction, AcceptDelivery
<1>5. ~\E kind \in {"start", "deliver"} : Click(kind)
  BY DEF Click
<1>6. action' # action
  OBVIOUS
<1>7. ~(OpenPage \/ ExtraReads \/ ExtraLoads \/ FetchReads \/ Focus \/ SocketEvent \/ Confirm
        \/ Dismiss)
  BY <1>6 DEF OpenPage, ExtraReads, ExtraLoads, FetchReads, Focus, SocketEvent, Confirm, Dismiss
<1>8. ~(ToggleDialog \/ SubmitDispute \/ HandleDispute \/ DisputeSucceeds \/ DisputeFails)
  BY <1>6 DEF ToggleDialog, SubmitDispute, HandleDispute, DisputeSucceeds, DisputeFails
<1>9. ~(SubmitReview \/ HandleReview \/ ReviewEnds \/ RequestConversation \/ HandleConversation
        \/ ConversationEnds)
  BY <1>6 DEF SubmitReview, HandleReview, ReviewEnds, RequestConversation, HandleConversation,
              ConversationEnds
<1>10. ~(WorkspaceElsewhere \/ UNCHANGED workspaceAllVars)
  BY <1>6 DEF WorkspaceElsewhere, workspacePageVars, workspaceAllVars
<1>11. QED
  BY <1>1, <1>2, <1>3, <1>4, <1>5, <1>7, <1>8, <1>9, <1>10 DEF WorkspaceNext, WorkspaceStep

(* The page's state and the booking's, at every time.                     *)
LEMMA WorkspaceAlways == WorkspaceSpec => []WorkspaceInductive
<1>1. WorkspaceInit => WorkspaceInductive
  BY InitWorkspace
<1>2. WorkspaceInductive /\ [WorkspaceNext]_workspaceAllVars => WorkspaceInductive'
  BY NextWorkspace
<1>3. QED
  BY <1>1, <1>2, PTL DEF WorkspaceSpec

(* When an action of the page has succeeded and the page still shows the   *)
(* booking, it shows a status at or behind the one the action led to.      *)
THEOREM DoneStaysShown == WorkspaceSpec => DoneIsShown
<1>1. WorkspaceInductive /\ [WorkspaceNext]_workspaceAllVars => [ShownDone]_workspaceAllVars
  BY SettledIsShown
<1>2. [][ShownDone]_workspaceAllVars => DoneIsShown
  BY PTL DEF ShownDone, DoneIsShown
<1>3. QED
  BY <1>1, <1>2, WorkspaceAlways, PTL DEF WorkspaceSpec

(* Whatever the page asks for, it is one of the services' clients: what is *)
(* proved of BookingLifecycle holds with it.                               *)
THEOREM PageUsesTheServices == WorkspaceSpec => Spec
<1>1. WorkspaceInit => Init
  BY DEF WorkspaceInit
<1>2. WorkspaceInductive /\ [WorkspaceNext]_workspaceAllVars => [Next]_vars
  BY WorkspaceIsLifecycle DEF WorkspaceInductive
<1>3. QED
  BY <1>1, <1>2, WorkspaceAlways, PTL DEF WorkspaceSpec, Spec

(* The page is one participant's: only they can open it, and the terms that*)
(* name them stay.                                                         *)
ShownToParticipants ==
  open => IsClient(ThisBooking, viewer) \/ IsCreator(ThisBooking, viewer)

LEMMA NextParticipants ==
  ASSUME WorkspaceInductive, ShownToParticipants, [WorkspaceNext]_workspaceAllVars
  PROVE  ShownToParticipants'
<1>1. MovesOneRow
  BY WorkspaceIsLifecycle, StepMoves DEF WorkspaceInductive
<1>2. status[ThisBooking] # "absent" =>
        terms'[ThisBooking] = terms[ThisBooking] /\ status'[ThisBooking] # "absent"
  <2>1. [Next]_vars /\ EscrowInv
    BY WorkspaceIsLifecycle DEF WorkspaceInductive
  <2>2. QED
    BY <1>1, <2>1, BookingsAdvance, PageAssumption DEF MovesOneRow, OthersStay
<1>3. \/ UNCHANGED <<viewer, open>>
      \/ UNCHANGED viewer /\ ~open'
      \/ OpenPage
  <2>1. CASE \/ ExtraReads \/ ExtraLoads \/ FetchReads \/ FetchResolves \/ FetchFails \/ Focus
             \/ SocketEvent \/ \E kind \in {"start", "deliver"} : Click(kind)
    BY <2>1 DEF ExtraReads, ExtraLoads, FetchReads, FetchResolves, FetchFails, Focus,
                SocketEvent, Click
  <2>2. CASE Confirm \/ Dismiss \/ AcceptDelivery \/ HandleAction \/ ActionSucceeds \/ ActionFails
    BY <2>2 DEF Confirm, Dismiss, AcceptDelivery, HandleAction, ActionSucceeds, ActionFails
  <2>3. CASE ToggleDialog \/ SubmitDispute \/ HandleDispute \/ DisputeSucceeds \/ DisputeFails
    BY <2>3 DEF ToggleDialog, SubmitDispute, HandleDispute, DisputeSucceeds, DisputeFails
  <2>4. CASE \/ SubmitReview \/ HandleReview \/ ReviewEnds
             \/ RequestConversation \/ HandleConversation \/ ConversationEnds
    BY <2>4 DEF SubmitReview, HandleReview, ReviewEnds, RequestConversation,
                HandleConversation, ConversationEnds
  <2>5. CASE WorkspaceElsewhere \/ UNCHANGED workspaceAllVars
    BY <2>5 DEF WorkspaceElsewhere, workspaceAllVars, workspacePageVars
  <2>6. QED
    BY <2>1, <2>2, <2>3, <2>4, <2>5 DEF WorkspaceNext, WorkspaceStep, ClosePage
<1>4. CASE OpenPage
  BY <1>2, <1>4 DEF OpenPage, ShownToParticipants, IsClient, IsCreator, Exists
<1>5. QED
  BY <1>2, <1>3, <1>4 DEF ShownToParticipants, IsClient, IsCreator, Exists

LEMMA ParticipantsAlways == WorkspaceSpec => []ShownToParticipants
<1>1. WorkspaceInit => ShownToParticipants
  BY DEF WorkspaceInit, ShownToParticipants
<1>2. WorkspaceInductive /\ ShownToParticipants /\ [WorkspaceNext]_workspaceAllVars
        => ShownToParticipants'
  BY NextParticipants
<1>3. QED
  BY <1>1, <1>2, WorkspaceAlways, PTL DEF WorkspaceSpec

(* An up to date page's buttons are the services' guards: the role that the*)
(* page derives from the client alone is the right one, since its viewer is*)
(* a participant and nobody is both, and the payment that the page does not*)
(* look at is held whenever the booking has the status it shows.           *)
LEMMA WorkspaceOffersAgree ==
  ASSUME WorkspaceInductive, ShownToParticipants, HaveTerms, EventsExplainPayment
  PROVE  WorkspaceOffersMatch
<1> SUFFICES ASSUME Current
             PROVE  /\ CanStart <=> MayStart(ThisBooking, viewer)
                    /\ CanDeliver <=> MayDeliver(ThisBooking, viewer)
                    /\ IdKept(ThisBooking, "released") =>
                         (CanAccept <=> MayComplete(ThisBooking, viewer))
                    /\ CanOpenDispute <=> MayOpenDispute(ThisBooking, viewer)
                    /\ CanReview <=> ReviewAllowed
  BY DEF WorkspaceOffersMatch
<1>1. /\ Seen = status[ThisBooking]
      /\ query.view.delivered <=> deliverables[ThisBooking] > 0
      /\ panel.dispute = dispute[ThisBooking]
      /\ panel.review = reviewed /\ ~panel.loadingExtra
  <2>1. query.view = View
    BY DEF Current
  <2>2. View.status = status[ThisBooking]
    BY DEF View
  <2>3. View.delivered <=> deliverables[ThisBooking] > 0
    BY DEF View
  <2>4. panel.dispute = dispute[ThisBooking] /\ panel.review = reviewed /\ ~panel.loadingExtra
    BY DEF Current
  <2>5. QED
    BY <2>1, <2>2, <2>3, <2>4 DEF Seen
<1>2. /\ status[ThisBooking] # "absent"
      /\ Role = "client" <=> IsClient(ThisBooking, viewer)
      /\ Role = "creator" <=> IsCreator(ThisBooking, viewer)
  BY PageAssumption
  DEF Current, Shown, ShownToParticipants, HaveTerms, Role, IsClient, IsCreator, Exists
<1>3. status[ThisBooking] \in {"confirmed", "in_progress", "delivered"} =>
        payStatus[ThisBooking] = "held"
  BY PageAssumption
  DEF WorkspaceInductive, EscrowInv, EscrowAgrees, TypeOK, BookingBeside, PaymentStatuses
<1>4. CanStart <=> MayStart(ThisBooking, viewer)
  BY <1>1, <1>2, <1>3 DEF CanStart, MayStart
<1>5. CanDeliver <=> MayDeliver(ThisBooking, viewer)
  BY <1>1, <1>2, <1>3 DEF CanDeliver, MayDeliver
<1>6. ASSUME IdKept(ThisBooking, "released")
      PROVE  CanAccept <=> MayComplete(ThisBooking, viewer)
  <2>1. payStatus[ThisBooking] = "held" =>
          MayStage(ThisBooking, ProviderEventId("released", ThisBooking), "released", "completed")
    <3>1. payStatus[ThisBooking] = "held" =>
            \A e \in events : e.id # ProviderEventId("released", ThisBooking)
      BY <1>6, PageAssumption, KeptIdsAreFree DEF EventsExplainPayment
    <3>2. QED
      BY <3>1 DEF MayStage, Accepts, FinalPaymentStatuses
  <2>2. QED
    BY <1>1, <1>2, <1>3, <2>1 DEF CanAccept, MayComplete
<1>7. CanOpenDispute <=> MayOpenDispute(ThisBooking, viewer)
  BY <1>1, <1>2 DEF CanOpenDispute, MayOpenDispute
<1>8. CanReview <=> ReviewAllowed
  BY <1>1, <1>2 DEF CanReview, ReviewAllowed
<1>9. QED
  BY <1>4, <1>5, <1>6, <1>7, <1>8

(* An up to date workspace page offers each operation exactly when the     *)
(* service would take it.                                                  *)
THEOREM WorkspaceOffersWhatIsAdmitted == WorkspaceSpec => []WorkspaceInv
<1>1. WorkspaceInductive /\ ShownToParticipants /\ HaveTerms /\ EventsExplainPayment
        => WorkspaceInv
  BY WorkspaceOffersAgree DEF WorkspaceInductive, WorkspaceInv
<1>2. SlotInv => HaveTerms
  BY DEF SlotInv
<1>3. QED
  BY <1>1, <1>2, WorkspaceAlways, ParticipantsAlways, PageUsesTheServices, SlotInvariant,
     EventsAlwaysExplain, PTL
-----------------------------------------------------------------------------
(* An upload under way, and one whose completion was asked for.            *)
AskedFor == {"complete", "success", "failed"}

(* An intent that was verified.                                            *)
Verified == {"completed", "rejected"}

(* What is known of the browser's side: the field, the file it offers and  *)
(* the requests are about uploads there are.                               *)
ClientShape ==
  /\ field.status # "idle" => field.upload \in DOMAIN uploads
  /\ \A request \in wire \cup replies : request.upload \in DOMAIN uploads
  /\ uploadedFile # None => intents[uploadedFile] \in Verified

(* An intent is asked for once, and what the API and the storage hold is of*)
(* uploads there are.  The completion that holds the lock is of an intent  *)
(* still pending.                                                          *)
ApiShape ==
  /\ \A n \in Ids : Request("intent", n) \in wire => intents[n] = "none"
  /\ \A n \in Ids : intents[n] # "none" => n \in DOMAIN uploads
  /\ completing # None => completing \in DOMAIN uploads /\ intents[completing] = "pending"

(* A completed intent has its object, which no deletion is about to take;  *)
(* what a deletion takes was rejected first.                               *)
ObjectsAreKept ==
  /\ \A n \in Ids : intents[n] = "completed" => n \in objects /\ uploads[n].file \in Genuine
  /\ \A n \in cleaning : intents[n] = "rejected"

(* A completion is asked for, taken up and recorded only after the browser *)
(* asked for it, from where no cancellation leads back.                    *)
CompletionsWereAsked ==
  \A n \in DOMAIN uploads :
    \/ Request("complete", n) \in wire
    \/ completing = n
    \/ intents[n] \in Verified
    => uploads[n].phase \in AskedFor

(* What the browser takes for a success is one.                            *)
SuccessesAreTrue ==
  \A n \in DOMAIN uploads :
    Request("complete", n) \in replies \/ uploads[n].phase = "success" => intents[n] \in Verified

RowsAreVerified ==
  \A row \in rows : row.upload # None => intents[row.upload] = "completed"

PanelInductive ==
  /\ PanelTypeOK /\ EachUploadDeliveredOnce
  /\ ClientShape /\ ApiShape /\ ObjectsAreKept /\ CompletionsWereAsked /\ SuccessesAreTrue
  /\ RowsAreVerified

Phases == {"intent", "put", "complete", "success", "cancelled", "failed"}

LEMMA UploadsAreFunctions ==
  ASSUME NEW u \in Seq(Uploads), Len(u) <= MaxUploads
  PROVE  /\ DOMAIN u = 1..Len(u) /\ DOMAIN u \subseteq Ids
         /\ Len(u) \in Nat
         /\ \A n \in DOMAIN u : u[n] \in Uploads
<1>1. Len(u) \in Nat /\ DOMAIN u = 1..Len(u)
  OBVIOUS
<1>2. \A n \in DOMAIN u : u[n] \in Uploads
  OBVIOUS
<1>3. DOMAIN u \subseteq Ids
  BY <1>1, PanelAssumption DEF Ids
<1>4. QED
  BY <1>1, <1>2, <1>3

(* A function with the same domain is a sequence as long as the uploads.   *)
LEMMA SameDomain ==
  ASSUME uploads \in Seq(Uploads), Len(uploads) <= MaxUploads,
         NEW more \in [DOMAIN uploads -> Uploads]
  PROVE  more \in Seq(Uploads) /\ Len(more) = Len(uploads)
<1>1. Len(uploads) \in Nat /\ DOMAIN uploads = 1..Len(uploads)
  OBVIOUS
<1>2. QED
  BY <1>1

(* What one more upload, a phase, or another owner makes of the uploads.   *)
LEMMA AppendUpload ==
  ASSUME uploads \in Seq(Uploads), Len(uploads) < MaxUploads, NEW upload \in Uploads,
         NEW more, more = Append(uploads, upload)
  PROVE  /\ more \in Seq(Uploads) /\ Len(more) = Len(uploads) + 1
         /\ Len(more) <= MaxUploads /\ Len(uploads) + 1 \in Ids
         /\ Len(uploads) + 1 \notin DOMAIN uploads
         /\ DOMAIN more = DOMAIN uploads \cup {Len(uploads) + 1}
         /\ \A n \in DOMAIN uploads : more[n] = uploads[n]
         /\ more[Len(uploads) + 1] = upload
<1>1. Len(uploads) \in Nat /\ DOMAIN uploads = 1..Len(uploads)
  OBVIOUS
<1>2. more \in Seq(Uploads) /\ Len(more) = Len(uploads) + 1 /\ DOMAIN more = 1..Len(uploads) + 1
  BY <1>1
<1>3. /\ \A n \in DOMAIN uploads : more[n] = uploads[n]
      /\ more[Len(uploads) + 1] = upload
  BY <1>1
<1>4. Len(more) <= MaxUploads /\ Len(uploads) + 1 \in Ids /\ Len(uploads) + 1 \notin DOMAIN uploads
  BY <1>1, <1>2, PanelAssumption DEF Ids
<1>5. DOMAIN more = DOMAIN uploads \cup {Len(uploads) + 1}
  BY <1>1, <1>2
<1>6. QED
  BY <1>2, <1>3, <1>4, <1>5

LEMMA PhaseUpload ==
  ASSUME uploads \in Seq(Uploads), Len(uploads) <= MaxUploads, NEW n \in DOMAIN uploads,
         NEW phase \in Phases, NEW more, more = [uploads EXCEPT ![n].phase = phase]
  PROVE  /\ more \in Seq(Uploads) /\ Len(more) <= MaxUploads
         /\ DOMAIN more = DOMAIN uploads
         /\ more[n].phase = phase /\ more[n].owner = uploads[n].owner
         /\ \A m \in DOMAIN uploads : more[m].file = uploads[m].file
         /\ \A m \in DOMAIN uploads \ {n} : more[m] = uploads[m]
<1>0. /\ \A m \in DOMAIN uploads : uploads[m] \in Uploads
      /\ more = [m \in DOMAIN uploads |->
                   IF m = n THEN [uploads[n] EXCEPT !.phase = phase] ELSE uploads[m]]
  BY UploadsAreFunctions
<1>1. more \in [DOMAIN uploads -> Uploads]
  <2>1. [uploads[n] EXCEPT !.phase = phase] \in Uploads
    BY <1>0 DEF Uploads, Phases
  <2>2. QED
    BY <1>0, <2>1
<1>2. more \in Seq(Uploads) /\ Len(more) = Len(uploads)
  BY <1>1, SameDomain
<1>3. /\ more[n].phase = phase /\ more[n].owner = uploads[n].owner
      /\ \A m \in DOMAIN uploads : more[m].file = uploads[m].file
      /\ \A m \in DOMAIN uploads \ {n} : more[m] = uploads[m]
  BY <1>0 DEF Uploads
<1>4. QED
  BY <1>1, <1>2, <1>3

LEMMA DisownUpload ==
  ASSUME uploads \in Seq(Uploads), Len(uploads) <= MaxUploads, NEW owners,
         NEW owner \in {"panel", "nobody"}, NEW more, more = Disown(owners, owner)
  PROVE  /\ more \in Seq(Uploads) /\ Len(more) <= MaxUploads
         /\ DOMAIN more = DOMAIN uploads
         /\ \A n \in DOMAIN uploads :
              more[n].file = uploads[n].file /\ more[n].phase = uploads[n].phase
<1>0. \A n \in DOMAIN uploads : uploads[n] \in Uploads
  BY UploadsAreFunctions
<1>1. more \in [DOMAIN uploads -> Uploads]
  <2>1. \A n \in DOMAIN uploads : [uploads[n] EXCEPT !.owner = owner] \in Uploads
    BY <1>0 DEF Uploads
  <2>2. QED
    BY <1>0, <2>1 DEF Disown
<1>2. more \in Seq(Uploads) /\ Len(more) = Len(uploads)
  BY <1>1, SameDomain
<1>3. \A n \in DOMAIN uploads :
        more[n].file = uploads[n].file /\ more[n].phase = uploads[n].phase
  BY <1>0 DEF Disown, Uploads
<1>4. QED
  BY <1>1, <1>2, <1>3

LEMMA RequestFields ==
  ASSUME NEW type, NEW n
  PROVE  Request(type, n).type = type /\ Request(type, n).upload = n
  BY DEF Request
-----------------------------------------------------------------------------
LEMMA InitPanel == PanelInit => PanelInductive
<1> SUFFICES ASSUME PanelInit PROVE PanelInductive
  OBVIOUS
<1>1. PanelTypeOK
  BY PanelAssumption
  DEF PanelInit, PanelTypeOK, NoField, NoCreate, NoRemoval, None, Ids, Uploads, Requests, Rows
<1>2. ClientShape /\ ApiShape /\ ObjectsAreKept /\ RowsAreVerified /\ EachUploadDeliveredOnce
  BY DEF PanelInit, ClientShape, ApiShape, ObjectsAreKept, RowsAreVerified, NoField, None,
     EachUploadDeliveredOnce
<1>3. CompletionsWereAsked /\ SuccessesAreTrue
  BY DEF PanelInit, CompletionsWereAsked, SuccessesAreTrue
<1>4. QED
  BY <1>1, <1>2, <1>3 DEF PanelInductive

(* What the browser may do: no upload goes back from its completion, none  *)
(* succeeds without the API's answer, and an intent is asked for once.     *)
PanelBrowserStep ==
  /\ UNCHANGED <<apiVars, storageVars>>
  /\ replies' \subseteq replies
  /\ \A n \in DOMAIN uploads :
       /\ n \in DOMAIN uploads' /\ uploads'[n].file = uploads[n].file
       /\ uploads[n].phase \in AskedFor => uploads'[n].phase \in AskedFor
  /\ \A n \in DOMAIN uploads' :
       /\ Request("complete", n) \in wire' =>
            Request("complete", n) \in wire \/ uploads'[n].phase \in AskedFor
       /\ uploads'[n].phase = "success" =>
            n \in DOMAIN uploads /\ (uploads[n].phase = "success" \/ Request("complete", n) \in replies)
  /\ \A n \in Ids :
       Request("intent", n) \in wire' => Request("intent", n) \in wire \/ n \notin DOMAIN uploads

LEMMA BrowserKeeps ==
  ASSUME PanelInductive, PanelBrowserStep, PanelTypeOK', ClientShape'
  PROVE  PanelInductive'
<1> USE DEF PanelInductive, PanelBrowserStep, apiVars, storageVars
<1>1. DOMAIN uploads \subseteq Ids
  BY UploadsAreFunctions DEF PanelTypeOK
<1>2. ApiShape'
  BY <1>1 DEF ApiShape
<1>3. ObjectsAreKept' /\ RowsAreVerified' /\ EachUploadDeliveredOnce'
  BY DEF ObjectsAreKept, RowsAreVerified, EachUploadDeliveredOnce, ApiShape
<1>4. CompletionsWereAsked'
  <2>1. SUFFICES ASSUME NEW n \in DOMAIN uploads',
                        Request("complete", n) \in wire' \/ completing = n \/ intents[n] \in Verified,
                        uploads'[n].phase \notin AskedFor
                 PROVE  FALSE
    BY DEF CompletionsWereAsked
  <2>2. n \in Ids
    BY UploadsAreFunctions DEF PanelTypeOK
  <2>3. n \in DOMAIN uploads
    BY <2>1, <2>2, RequestFields, PanelAssumption DEF ClientShape, ApiShape, Verified, None, Ids
  <2>4. QED
    BY <2>1, <2>3 DEF CompletionsWereAsked
<1>5. SuccessesAreTrue'
  <2>1. SUFFICES ASSUME NEW n \in DOMAIN uploads',
                        Request("complete", n) \in replies' \/ uploads'[n].phase = "success"
                 PROVE  intents[n] \in Verified
    BY DEF SuccessesAreTrue
  <2>2. n \in DOMAIN uploads
    BY <2>1, RequestFields DEF ClientShape
  <2>3. QED
    BY <2>1, <2>2 DEF SuccessesAreTrue
<1>6. QED
  BY <1>2, <1>3, <1>4, <1>5
-----------------------------------------------------------------------------
(* The browser's steps.                                                    *)
LEMMA StartStep ==
  ASSUME PanelInductive, NEW file \in Files, StartUpload(file)
  PROVE  PanelInductive'
<1> USE DEF PanelInductive
<1> DEFINE n == Len(uploads) + 1
<1>0. Len(uploads) \in Nat /\ n \in Nat /\ Len(uploads) < MaxUploads
  BY PanelAssumption DEF StartUpload, PanelTypeOK
<1>1. PICK upload \in Uploads :
        /\ uploads' = Append(uploads, upload) /\ upload.owner = "field"
        /\ \/ /\ upload.phase = "intent" /\ field' = [status |-> "uploading", upload |-> n]
              /\ wire' = wire \cup {Request("intent", n)}
           \/ /\ upload.phase = "failed" /\ field' = [status |-> "error", upload |-> n]
              /\ wire' = wire
  <2>1. CASE Accepted(file)
    <3>1. [file |-> file, owner |-> "field", phase |-> "intent"] \in Uploads
      BY DEF Uploads
    <3>2. QED
      BY <2>1, <3>1 DEF StartUpload
  <2>2. CASE ~Accepted(file)
    <3>1. [file |-> file, owner |-> "field", phase |-> "failed"] \in Uploads
      BY DEF Uploads
    <3>2. QED
      BY <2>2, <3>1 DEF StartUpload
  <2>3. QED
    BY <2>1, <2>2
<1>2. /\ uploads' \in Seq(Uploads) /\ Len(uploads') <= MaxUploads /\ n \in Ids
      /\ n \notin DOMAIN uploads /\ DOMAIN uploads' = DOMAIN uploads \cup {n}
      /\ \A m \in DOMAIN uploads : uploads'[m] = uploads[m]
      /\ uploads'[n] = upload
  <2>1. uploads \in Seq(Uploads)
    BY DEF PanelTypeOK
  <2>2. QED
    BY <1>0, <1>1, <2>1, AppendUpload
<1> HIDE DEF n
<1>3. UNCHANGED <<uploadedFile, formVars, viewVars, replies, strays, apiVars, storageVars>>
  BY DEF StartUpload
<1>4. \A request \in wire' : request \in wire \/ request = Request("intent", n)
  BY <1>1
<1>5. PanelTypeOK'
  <2>1. Request("intent", n) \in Requests
    BY <1>2 DEF Request, Requests
  <2>2. wire' \subseteq Requests
    BY <1>4, <2>1 DEF PanelTypeOK
  <2>3. field' \in [status : {"idle", "uploading", "error", "success"}, upload : Ids \cup {None}]
    BY <1>1, <1>2
  <2>4. field'.status = "uploading" =>
          uploads'[field'.upload].owner = "field"
            /\ uploads'[field'.upload].phase \in {"intent", "put", "complete"}
    BY <1>1, <1>2
  <2>5. QED
    BY <1>2, <1>3, <2>2, <2>3, <2>4
    DEF PanelTypeOK, formVars, viewVars, apiVars, storageVars
<1>6. ClientShape'
  BY <1>1, <1>2, <1>3, <1>4, RequestFields DEF ClientShape, apiVars
<1>7. PanelBrowserStep
  <2>1. \A m \in DOMAIN uploads :
          /\ m \in DOMAIN uploads' /\ uploads'[m].file = uploads[m].file
          /\ uploads[m].phase \in AskedFor => uploads'[m].phase \in AskedFor
    BY <1>2
  <2>2. \A m \in DOMAIN uploads' :
          /\ Request("complete", m) \in wire' => Request("complete", m) \in wire
          /\ uploads'[m].phase = "success" => m \in DOMAIN uploads /\ uploads[m].phase = "success"
    BY <1>1, <1>2, <1>4, RequestFields
  <2>3. \A m \in Ids :
          Request("intent", m) \in wire' => Request("intent", m) \in wire \/ m \notin DOMAIN uploads
    BY <1>2, <1>4, RequestFields
  <2>4. QED
    BY <1>3, <2>1, <2>2, <2>3 DEF PanelBrowserStep
<1>8. QED
  BY <1>5, <1>6, <1>7, BrowserKeeps

(* Steps of the browser that change no upload but who listens to it, and   *)
(* send nothing to the API.                                                *)
LEMMA ListenerStep ==
  ASSUME PanelInductive, UNCHANGED <<wire, replies, apiVars, storageVars>>,
         \/ uploads' = uploads /\ field' = field
         \/ uploads' = Disown({"field"}, "panel") /\ field' = NoField
         \/ uploads' = Disown({"field", "panel"}, "nobody") /\ field' = NoField,
         uploadedFile' \in {uploadedFile, None},
         addMode' \in {"file", "link"},
         create' \in [phase : {"idle", "sent", "stored"}, upload : Ids \cup {None}],
         removal' \in [phase : {"idle", "sent", "done"}, id : 0..MaxRows],
         shown' \in [inProgress : BOOLEAN, rows : SUBSET Rows],
         mounted' \in BOOLEAN, strays' \subseteq Ids \cup {None}
  PROVE  PanelInductive'
<1> USE DEF PanelInductive
<1>1. /\ uploads' \in Seq(Uploads) /\ Len(uploads') <= MaxUploads
      /\ DOMAIN uploads' = DOMAIN uploads
      /\ \A n \in DOMAIN uploads :
           uploads'[n].file = uploads[n].file /\ uploads'[n].phase = uploads[n].phase
  BY DisownUpload DEF PanelTypeOK
<1>2. (uploads' = uploads /\ field' = field) \/ field' = NoField
  OBVIOUS
<1>3. PanelTypeOK'
  BY <1>1, <1>2 DEF PanelTypeOK, NoField, apiVars, storageVars
<1>4. ClientShape'
  BY <1>1, <1>2 DEF ClientShape, NoField, apiVars
<1>5. PanelBrowserStep
  BY <1>1 DEF PanelBrowserStep
<1>6. QED
  BY <1>3, <1>4, <1>5, BrowserKeeps

(* The end of an upload.                                                   *)
LEMMA FinishStep ==
  ASSUME PanelInductive, NEW n \in DOMAIN uploads, NEW phase \in {"success", "cancelled", "failed"},
         Finish(n, phase), UNCHANGED <<wire, strays, formVars, viewVars, apiVars, storageVars>>,
         replies' \subseteq replies,
         phase = "success" => Request("complete", n) \in replies,
         phase = "cancelled" => uploads[n].phase \notin AskedFor
  PROVE  PanelInductive'
<1> USE DEF PanelInductive
<1>1. /\ uploads' \in Seq(Uploads) /\ Len(uploads') <= MaxUploads
      /\ DOMAIN uploads' = DOMAIN uploads
      /\ uploads'[n].phase = phase /\ uploads'[n].owner = uploads[n].owner
      /\ \A m \in DOMAIN uploads : uploads'[m].file = uploads[m].file
      /\ \A m \in DOMAIN uploads \ {n} : uploads'[m] = uploads[m]
  <2>1. /\ uploads \in Seq(Uploads) /\ Len(uploads) <= MaxUploads /\ phase \in Phases
        /\ uploads' = [uploads EXCEPT ![n].phase = phase]
    BY DEF Finish, PanelTypeOK, Phases
  <2>2. PICK more : more = uploads'
    OBVIOUS
  <2>3. /\ more \in Seq(Uploads) /\ Len(more) <= MaxUploads
        /\ DOMAIN more = DOMAIN uploads
        /\ more[n].phase = phase /\ more[n].owner = uploads[n].owner
        /\ \A m \in DOMAIN uploads : more[m].file = uploads[m].file
        /\ \A m \in DOMAIN uploads \ {n} : more[m] = uploads[m]
    BY <2>1, <2>2, PhaseUpload
  <2>4. QED
    BY <2>2, <2>3
<1>2. n \in Ids
  BY UploadsAreFunctions DEF PanelTypeOK
<1>3. /\ uploads[n].owner # "field" => field' = field
      /\ uploads[n].owner = "field" =>
           field' \in {[status |-> "success", upload |-> n], NoField, [status |-> "error", upload |-> n]}
  BY DEF Finish
<1>4. uploadedFile' = uploadedFile \/ (uploadedFile' = n /\ phase = "success")
  BY DEF Finish
<1>5. PanelTypeOK'
  <2>1. field' \in [status : {"idle", "uploading", "error", "success"}, upload : Ids \cup {None}]
    BY <1>2, <1>3 DEF PanelTypeOK, NoField
  <2>2. ASSUME field'.status = "uploading"
        PROVE  /\ uploads'[field'.upload].owner = "field"
               /\ uploads'[field'.upload].phase \in {"intent", "put", "complete"}
    <3>1. field' = field /\ uploads[n].owner # "field"
      BY <1>3, <2>2 DEF NoField
    <3>2. field.upload # n /\ field.upload \in DOMAIN uploads
      BY <2>2, <3>1 DEF PanelTypeOK, ClientShape
    <3>3. QED
      BY <1>1, <2>2, <3>1, <3>2 DEF PanelTypeOK
  <2>3. QED
    BY <1>1, <1>2, <1>4, <2>1, <2>2 DEF PanelTypeOK, formVars, viewVars, apiVars, storageVars
<1>6. ClientShape'
  <2>1. field'.status # "idle" => field'.upload \in DOMAIN uploads'
    BY <1>1, <1>3 DEF ClientShape, NoField
  <2>2. uploadedFile' # None => intents'[uploadedFile'] \in Verified
    BY <1>2, <1>4 DEF ClientShape, SuccessesAreTrue, apiVars
  <2>3. QED
    BY <1>1, <2>1, <2>2 DEF ClientShape
<1>7. PanelBrowserStep
  BY <1>1 DEF PanelBrowserStep, AskedFor
<1>8. QED
  BY <1>5, <1>6, <1>7, BrowserKeeps

(* An upload goes on to its next request.                                  *)
LEMMA ProceedStep ==
  ASSUME PanelInductive, NEW n \in DOMAIN uploads, NEW phase \in {"put", "complete"},
         uploads[n].phase \in {"intent", "put"},
         uploads' = [uploads EXCEPT ![n].phase = phase],
         wire' = wire \cup {Request(phase, n)}, replies' \subseteq replies,
         UNCHANGED <<field, uploadedFile, strays, formVars, viewVars, apiVars, storageVars>>
  PROVE  PanelInductive'
<1> USE DEF PanelInductive
<1>1. /\ uploads' \in Seq(Uploads) /\ Len(uploads') <= MaxUploads
      /\ DOMAIN uploads' = DOMAIN uploads
      /\ uploads'[n].phase = phase /\ uploads'[n].owner = uploads[n].owner
      /\ \A m \in DOMAIN uploads : uploads'[m].file = uploads[m].file
      /\ \A m \in DOMAIN uploads \ {n} : uploads'[m] = uploads[m]
  <2>1. uploads \in Seq(Uploads) /\ Len(uploads) <= MaxUploads /\ phase \in Phases
    BY DEF PanelTypeOK, Phases
  <2>2. QED
    BY <2>1, PhaseUpload
<1>2. n \in Ids
  BY UploadsAreFunctions DEF PanelTypeOK
<1>3. \A request \in wire' : request \in wire \/ request = Request(phase, n)
  OBVIOUS
<1>4. PanelTypeOK'
  <2>1. wire' \subseteq Requests
    BY <1>2 DEF PanelTypeOK, Request, Requests
  <2>2. ASSUME field'.status = "uploading"
        PROVE  /\ uploads'[field'.upload].owner = "field"
               /\ uploads'[field'.upload].phase \in {"intent", "put", "complete"}
    BY <1>1, <2>2 DEF PanelTypeOK, ClientShape
  <2>3. QED
    BY <1>1, <2>1, <2>2 DEF PanelTypeOK, formVars, viewVars, apiVars, storageVars
<1>5. ClientShape'
  BY <1>1, <1>3, RequestFields DEF ClientShape, apiVars
<1>6. PanelBrowserStep
  <2>1. \A m \in DOMAIN uploads' :
          /\ Request("complete", m) \in wire' =>
               Request("complete", m) \in wire \/ uploads'[m].phase \in AskedFor
          /\ uploads'[m].phase = "success" => uploads[m].phase = "success"
    BY <1>1, <1>3, RequestFields DEF AskedFor
  <2>2. \A m \in Ids : Request("intent", m) \in wire' => Request("intent", m) \in wire
    BY <1>3, RequestFields
  <2>3. \A m \in DOMAIN uploads : uploads[m].phase \in AskedFor => uploads'[m].phase \in AskedFor
    BY <1>1 DEF AskedFor
  <2>4. QED
    BY <1>1, <2>1, <2>2, <2>3 DEF PanelBrowserStep
<1>7. QED
  BY <1>4, <1>5, <1>6, BrowserKeeps

LEMMA UploadSteps == PanelInductive /\ UploadStep => PanelInductive'
<1> SUFFICES ASSUME PanelInductive, UploadStep PROVE PanelInductive'
  OBVIOUS
<1>1. ASSUME NEW file \in Files, ChooseFile(file) PROVE PanelInductive'
  BY <1>1, StartStep DEF ChooseFile
<1>2. CASE Retry
  <2>1. field.upload \in DOMAIN uploads
    BY <1>2 DEF Retry, PanelInductive, ClientShape
  <2>2. uploads[field.upload].file \in Files
    BY <2>1, UploadsAreFunctions DEF PanelInductive, PanelTypeOK, Uploads
  <2>3. QED
    BY <1>2, <2>2, StartStep DEF Retry
<1>3. CASE Cancel
  <2>1. field.upload \in DOMAIN uploads /\ uploads[field.upload].phase \in {"intent", "put", "complete"}
    BY <1>3 DEF Cancel, PanelInductive, PanelTypeOK, ClientShape
  <2>2. CASE uploads[field.upload].phase = "complete"
    BY <1>3, <2>2, ListenerStep
    DEF Cancel, PanelInductive, PanelTypeOK, uploadVars, formVars, viewVars, netVars
  <2>3. CASE uploads[field.upload].phase # "complete"
    BY <1>3, <2>1, <2>3, FinishStep DEF Cancel, AskedFor, netVars
  <2>4. QED
    BY <2>2, <2>3
<1>4. ASSUME NEW n \in DOMAIN uploads, UploadFails(n) PROVE PanelInductive'
  BY <1>4, FinishStep DEF UploadFails, netVars
<1>5. ASSUME NEW n \in DOMAIN uploads, UploadProceeds(n) PROVE PanelInductive'
  <2>1. /\ Request(uploads[n].phase, n) \in replies /\ replies' \subseteq replies
        /\ UNCHANGED <<strays, formVars, viewVars, apiVars, storageVars>>
    BY <1>5 DEF UploadProceeds
  <2>2. \/ /\ uploads[n].phase = "intent" /\ uploads' = [uploads EXCEPT ![n].phase = "put"]
           /\ wire' = wire \cup {Request("put", n)} /\ UNCHANGED <<field, uploadedFile>>
        \/ /\ uploads[n].phase = "put" /\ uploads' = [uploads EXCEPT ![n].phase = "complete"]
           /\ wire' = wire \cup {Request("complete", n)} /\ UNCHANGED <<field, uploadedFile>>
        \/ uploads[n].phase = "complete" /\ Finish(n, "success") /\ UNCHANGED wire
    BY <1>5, RequestFields DEF UploadProceeds
  <2>3. CASE uploads[n].phase \in {"intent", "put"}
    BY <2>1, <2>2, <2>3, ProceedStep
  <2>4. CASE uploads[n].phase = "complete"
    BY <2>1, <2>2, <2>4, FinishStep
  <2>5. QED
    BY <2>2, <2>3, <2>4
<1>6. QED
  BY <1>1, <1>2, <1>3, <1>4, <1>5 DEF UploadStep

LEMMA WorkspaceRefetched ==
  ASSUME PanelInductive, ShowWorkspace
  PROVE  /\ shown' \in [inProgress : BOOLEAN, rows : SUBSET Rows]
         /\ \/ uploads' = uploads /\ field' = field
            \/ uploads' = Disown({"field"}, "panel") /\ field' = NoField
<1>1. shown' \in [inProgress : BOOLEAN, rows : SUBSET Rows]
  BY DEF ShowWorkspace, PanelInductive, PanelTypeOK
<1>2. CASE inProgress
  BY <1>1, <1>2 DEF ShowWorkspace
<1>3. CASE ~inProgress
  BY <1>1, <1>3 DEF ShowWorkspace
<1>4. QED
  BY <1>2, <1>3

LEMMA PanelSteps == PanelInductive /\ PanelStep => PanelInductive'
<1> SUFFICES ASSUME PanelInductive, PanelStep PROVE PanelInductive'
  OBVIOUS
<1> USE DEF PanelInductive, PanelTypeOK, uploadVars, formVars, viewVars, netVars
<1>1. ASSUME NEW mode \in {"file", "link"}, SwitchForm(mode) PROVE PanelInductive'
  BY <1>1, ListenerStep DEF SwitchForm
<1>2. CASE CreateFile \/ CreateLink
  BY <1>2, ListenerStep DEF CreateFile, CreateLink
<1>3. CASE CreateSucceeds
  <2>1. /\ shown' \in [inProgress : BOOLEAN, rows : SUBSET Rows]
        /\ \/ uploads' = uploads /\ field' = field
           \/ uploads' = Disown({"field"}, "panel") /\ field' = NoField
    BY <1>3, WorkspaceRefetched DEF CreateSucceeds, Settle
  <2>2. create' \in [phase : {"idle", "sent", "stored"}, upload : Ids \cup {None}]
    BY <1>3 DEF CreateSucceeds, NoCreate
  <2>3. QED
    BY <1>3, <2>1, <2>2, ListenerStep DEF CreateSucceeds
<1>4. CASE CreateFails
  BY <1>4, ListenerStep DEF CreateFails, NoCreate
<1>5. ASSUME NEW row \in shown.rows, ClickDelete(row) PROVE PanelInductive'
  <2>1. row.id \in 0..MaxRows
    BY DEF Rows
  <2>2. removal' \in [phase : {"idle", "sent", "done"}, id : 0..MaxRows]
    BY <1>5, <2>1 DEF ClickDelete
  <2>3. QED
    BY <1>5, <2>2, ListenerStep DEF ClickDelete
<1>6. CASE DeleteEnds
  <2>1. /\ shown' \in [inProgress : BOOLEAN, rows : SUBSET Rows]
        /\ \/ uploads' = uploads /\ field' = field
           \/ uploads' = Disown({"field"}, "panel") /\ field' = NoField
    BY <1>6, WorkspaceRefetched DEF DeleteEnds, Settle
  <2>2. removal' \in [phase : {"idle", "sent", "done"}, id : 0..MaxRows]
    BY <1>6, PanelAssumption DEF DeleteEnds, NoRemoval
  <2>3. QED
    BY <1>6, <2>1, <2>2, ListenerStep DEF DeleteEnds
<1>7. CASE Refetch
  <2>1. /\ shown' \in [inProgress : BOOLEAN, rows : SUBSET Rows]
        /\ \/ uploads' = uploads /\ field' = field
           \/ uploads' = Disown({"field"}, "panel") /\ field' = NoField
    BY <1>7, WorkspaceRefetched DEF Refetch
  <2>2. QED
    BY <1>7, <2>1, ListenerStep DEF Refetch
<1>8. CASE RefetchFails
  <2>1. removal' \in [phase : {"idle", "sent", "done"}, id : 0..MaxRows]
    BY <1>8, PanelAssumption DEF RefetchFails, NoRemoval
  <2>2. create' \in [phase : {"idle", "sent", "stored"}, upload : Ids \cup {None}]
    BY <1>8 DEF RefetchFails, NoCreate
  <2>3. strays' \subseteq Ids \cup {None}
    BY <1>8 DEF RefetchFails
  <2>4. QED
    BY <1>8, <2>1, <2>2, <2>3, ListenerStep DEF RefetchFails
<1>9. QED
  BY <1>1, <1>2, <1>3, <1>4, <1>5, <1>6, <1>7, <1>8 DEF PanelStep
-----------------------------------------------------------------------------
(* The steps of the API and of the storage: they leave the browser's side  *)
(* as it is, but for the answers.                                          *)

LEMMA AnswerShape ==
  ASSUME PanelInductive, NEW type \in {"intent", "put", "complete"}, NEW n \in DOMAIN uploads,
         Answer(Request(type, n))
  PROVE  /\ replies' \subseteq Requests
         /\ \A request \in replies' : request \in replies \/ request = Request(type, n)
<1>1. n \in Ids
  BY UploadsAreFunctions DEF PanelInductive, PanelTypeOK
<1>2. Request(type, n) \in Requests
  BY <1>1 DEF Request, Requests
<1>3. QED
  BY <1>2 DEF Answer, PanelInductive, PanelTypeOK

LEMMA CreateIntentStep ==
  ASSUME PanelInductive, NEW n \in DOMAIN uploads, CreateIntent(n)
  PROVE  PanelInductive'
<1> USE DEF PanelInductive
<1>1. /\ Request("intent", n) \in wire /\ completing = None
      /\ wire' = wire \ {Request("intent", n)}
      /\ intents' = [intents EXCEPT ![n] = "pending"]
      /\ Answer(Request("intent", n))
      /\ UNCHANGED <<strays, uploadVars, formVars, viewVars, inProgress, rows, completing, storageVars>>
  BY DEF CreateIntent, BookingFree
<1>2. n \in Ids /\ DOMAIN uploads \subseteq Ids
  BY UploadsAreFunctions DEF PanelTypeOK
<1>3. /\ replies' \subseteq Requests
      /\ \A request \in replies' : request \in replies \/ request = Request("intent", n)
  BY <1>1, AnswerShape
<1>4. /\ intents'[n] = "pending" /\ intents[n] = "none"
      /\ \A m \in Ids \ {n} : intents'[m] = intents[m]
  BY <1>1, <1>2 DEF PanelTypeOK, ApiShape
<1>5. PanelTypeOK'
  BY <1>1, <1>2, <1>3 DEF PanelTypeOK, uploadVars, formVars, viewVars, storageVars
<1>6. ClientShape'
  <2>1. uploadedFile # None => uploadedFile # n
    BY <1>4 DEF ClientShape, Verified
  <2>2. \A request \in wire' \cup replies' : request.upload \in DOMAIN uploads
    BY <1>1, <1>3, RequestFields DEF ClientShape
  <2>3. QED
    BY <1>1, <1>4, <2>1, <2>2 DEF ClientShape, uploadVars, PanelTypeOK
<1>7. ApiShape'
  BY <1>1, <1>2, <1>4, RequestFields DEF ApiShape, uploadVars
<1>8. ObjectsAreKept' /\ RowsAreVerified' /\ EachUploadDeliveredOnce'
  <2>1. ObjectsAreKept'
    BY <1>1, <1>2, <1>4 DEF ObjectsAreKept, uploadVars, storageVars, PanelTypeOK
  <2>2. RowsAreVerified' /\ EachUploadDeliveredOnce'
    BY <1>1, <1>2, <1>4 DEF RowsAreVerified, EachUploadDeliveredOnce, PanelTypeOK, Rows
  <2>3. QED
    BY <2>1, <2>2
<1>9. CompletionsWereAsked' /\ SuccessesAreTrue'
  <2>1. CompletionsWereAsked'
    BY <1>1, <1>2, <1>4 DEF CompletionsWereAsked, uploadVars, Verified
  <2>2. SuccessesAreTrue'
    BY <1>1, <1>2, <1>3, <1>4, RequestFields DEF SuccessesAreTrue, uploadVars, Verified
  <2>3. QED
    BY <2>1, <2>2
<1>10. QED
  BY <1>5, <1>6, <1>7, <1>8, <1>9

LEMMA StorageSteps ==
  ASSUME PanelInductive,
         \/ \E n \in DOMAIN uploads : StoreObject(n)
         \/ \E n \in cleaning : Cleanup(n)
  PROVE  PanelInductive'
<1> USE DEF PanelInductive
<1>1. ASSUME NEW n \in DOMAIN uploads, StoreObject(n)
      PROVE  PanelInductive'
  <2>1. /\ wire' \subseteq wire /\ objects' = objects \cup {n}
        /\ Answer(Request("put", n))
        /\ UNCHANGED <<strays, cleaning, uploadVars, formVars, viewVars, apiVars>>
    BY <1>1 DEF StoreObject
  <2>2. n \in Ids
    BY UploadsAreFunctions DEF PanelTypeOK
  <2>3. /\ replies' \subseteq Requests
        /\ \A request \in replies' : request \in replies \/ request = Request("put", n)
    BY <2>1, AnswerShape
  <2>4. PanelTypeOK'
    BY <2>1, <2>2, <2>3 DEF PanelTypeOK, uploadVars, formVars, viewVars, apiVars
  <2>5. ClientShape' /\ ApiShape'
    BY <2>1, <2>3, RequestFields DEF ClientShape, ApiShape, uploadVars, apiVars
  <2>6. ObjectsAreKept' /\ RowsAreVerified' /\ EachUploadDeliveredOnce'
    BY <2>1 DEF ObjectsAreKept, RowsAreVerified, EachUploadDeliveredOnce, uploadVars, apiVars
  <2>7. CompletionsWereAsked' /\ SuccessesAreTrue'
    BY <2>1, <2>3, RequestFields DEF CompletionsWereAsked, SuccessesAreTrue, uploadVars, apiVars
  <2>8. QED
    BY <2>4, <2>5, <2>6, <2>7
<1>2. ASSUME NEW n \in cleaning, Cleanup(n)
      PROVE  PanelInductive'
  <2>1. /\ cleaning' = cleaning \ {n} /\ objects \ {n} \subseteq objects' /\ objects' \subseteq objects
        /\ UNCHANGED <<uploadVars, formVars, viewVars, netVars, apiVars>>
    BY <1>2 DEF Cleanup
  <2>2. PanelTypeOK'
    BY <2>1 DEF PanelTypeOK, uploadVars, formVars, viewVars, netVars, apiVars
  <2>3. ObjectsAreKept'
    BY <2>1 DEF ObjectsAreKept, uploadVars, apiVars
  <2>4. ClientShape' /\ ApiShape' /\ RowsAreVerified' /\ EachUploadDeliveredOnce'
    BY <2>1 DEF ClientShape, ApiShape, RowsAreVerified, EachUploadDeliveredOnce, uploadVars, netVars,
                apiVars
  <2>5. CompletionsWereAsked' /\ SuccessesAreTrue'
    BY <2>1 DEF CompletionsWereAsked, SuccessesAreTrue, uploadVars, netVars, apiVars
  <2>6. QED
    BY <2>2, <2>3, <2>4, <2>5
<1>3. QED
  BY <1>1, <1>2

LEMMA BeginCompletionStep ==
  ASSUME PanelInductive, NEW n \in DOMAIN uploads, BeginCompletion(n)
  PROVE  PanelInductive'
<1> USE DEF PanelInductive
<1>1. /\ Request("complete", n) \in wire /\ completing = None
      /\ wire' = wire \ {Request("complete", n)}
      /\ \/ intents' = intents
         \/ intents[n] = "pending" /\ intents' = [intents EXCEPT ![n] = "expired"]
      /\ (completing' = n /\ intents'[n] = "pending") \/ completing' = None
      /\ UNCHANGED <<replies, strays, uploadVars, formVars, viewVars, inProgress, rows, storageVars>>
  BY DEF BeginCompletion, BookingFree
<1>2. n \in Ids /\ DOMAIN uploads \subseteq Ids
  BY UploadsAreFunctions DEF PanelTypeOK
<1>3. /\ intents' \in [Ids -> {"none", "pending", "completed", "expired", "rejected"}]
      /\ \A m \in Ids : intents'[m] = intents[m]
                          \/ (m = n /\ intents[m] = "pending" /\ intents'[m] = "expired")
  BY <1>1, <1>2 DEF PanelTypeOK
<1>4. PanelTypeOK'
  BY <1>1, <1>2, <1>3 DEF PanelTypeOK, uploadVars, formVars, viewVars, storageVars
<1>5. ClientShape'
  <2>1. uploadedFile # None => intents'[uploadedFile] = intents[uploadedFile]
    BY <1>3 DEF ClientShape, Verified, PanelTypeOK
  <2>2. QED
    BY <1>1, <2>1 DEF ClientShape, uploadVars
<1>6. ApiShape'
  BY <1>1, <1>2, <1>3 DEF ApiShape, uploadVars, None
<1>7. ObjectsAreKept'
  BY <1>1, <1>3 DEF ObjectsAreKept, uploadVars, storageVars, PanelTypeOK
<1>8. RowsAreVerified' /\ EachUploadDeliveredOnce'
  BY <1>1, <1>3 DEF RowsAreVerified, EachUploadDeliveredOnce, PanelTypeOK, Rows
<1>9. CompletionsWereAsked'
  <2>1. SUFFICES ASSUME NEW m \in DOMAIN uploads,
                        \/ Request("complete", m) \in wire'
                        \/ completing' = m
                        \/ intents'[m] \in Verified
                 PROVE  uploads[m].phase \in AskedFor
    BY <1>1 DEF CompletionsWereAsked, uploadVars
  <2>2. \/ Request("complete", m) \in wire
        \/ intents[m] \in Verified
    BY <1>1, <1>2, <1>3, <2>1, PanelAssumption DEF Verified, None, Ids
  <2>3. QED
    BY <2>2 DEF CompletionsWereAsked
<1>10. SuccessesAreTrue'
  BY <1>1, <1>2, <1>3 DEF SuccessesAreTrue, uploadVars, Verified
<1>11. QED
  BY <1>4, <1>5, <1>6, <1>7, <1>8, <1>9, <1>10

LEMMA EndCompletionStep ==
  ASSUME PanelInductive, EndCompletion
  PROVE  PanelInductive'
<1> USE DEF PanelInductive
<1>0. PICK n \in DOMAIN uploads : n = completing
  BY DEF EndCompletion, ApiShape
<1>1. /\ completing' = None
      /\ \/ intents' = intents /\ replies' = replies
         \/ intents' = [intents EXCEPT ![n] = "expired"] /\ replies' = replies
         \/ /\ n \in objects /\ uploads[n].file \in Genuine
            /\ intents' = [intents EXCEPT ![n] = "completed"]
            /\ Answer(Request("complete", n))
      /\ UNCHANGED <<wire, strays, uploadVars, formVars, viewVars, inProgress, rows, storageVars>>
  BY <1>0 DEF EndCompletion
<1>2. n \in Ids /\ DOMAIN uploads \subseteq Ids /\ intents[n] = "pending"
  BY <1>0, UploadsAreFunctions DEF PanelTypeOK, ApiShape, EndCompletion
<1>3. /\ intents' \in [Ids -> {"none", "pending", "completed", "expired", "rejected"}]
      /\ \A m \in Ids \ {n} : intents'[m] = intents[m]
      /\ intents'[n] \in {"pending", "expired", "completed"}
      /\ intents'[n] = "completed" => n \in objects /\ uploads[n].file \in Genuine
  BY <1>1, <1>2 DEF PanelTypeOK
<1>4. /\ replies' \subseteq Requests
      /\ \A request \in replies' :
           \/ request \in replies
           \/ request = Request("complete", n) /\ intents'[n] = "completed"
  BY <1>1, <1>2, <1>3, AnswerShape DEF PanelTypeOK
<1>5. PanelTypeOK'
  BY <1>1, <1>3, <1>4 DEF PanelTypeOK, uploadVars, formVars, viewVars, storageVars
<1>6. ClientShape'
  <2>1. uploadedFile # None => intents'[uploadedFile] = intents[uploadedFile]
    BY <1>2, <1>3 DEF ClientShape, Verified, PanelTypeOK
  <2>2. \A request \in wire' \cup replies' : request.upload \in DOMAIN uploads
    BY <1>1, <1>4, RequestFields DEF ClientShape
  <2>3. QED
    BY <1>1, <2>1, <2>2 DEF ClientShape, uploadVars
<1>7. ApiShape'
  BY <1>1, <1>2, <1>3 DEF ApiShape, uploadVars
<1>8. ObjectsAreKept'
  BY <1>1, <1>2, <1>3 DEF ObjectsAreKept, uploadVars, storageVars, PanelTypeOK
<1>9. RowsAreVerified' /\ EachUploadDeliveredOnce'
  <2>1. \A row \in rows : row.upload # None => intents'[row.upload] = "completed"
    BY <1>2, <1>3 DEF RowsAreVerified, PanelTypeOK, Rows
  <2>2. QED
    BY <1>1, <2>1 DEF RowsAreVerified, EachUploadDeliveredOnce
<1>10. CompletionsWereAsked'
  <2>1. uploads[n].phase \in AskedFor
    BY <1>0 DEF CompletionsWereAsked
  <2>2. SUFFICES ASSUME NEW m \in DOMAIN uploads, m # n,
                        \/ Request("complete", m) \in wire'
                        \/ completing' = m
                        \/ intents'[m] \in Verified
                 PROVE  uploads[m].phase \in AskedFor
    BY <1>1, <2>1 DEF CompletionsWereAsked, uploadVars
  <2>3. Request("complete", m) \in wire \/ intents[m] \in Verified
    BY <1>1, <1>2, <1>3, <2>2, PanelAssumption DEF None, Ids
  <2>4. QED
    BY <2>3 DEF CompletionsWereAsked
<1>11. SuccessesAreTrue'
  BY <1>1, <1>2, <1>3, <1>4, RequestFields DEF SuccessesAreTrue, uploadVars, Verified
<1>12. QED
  BY <1>5, <1>6, <1>7, <1>8, <1>9, <1>10, <1>11

(* A deliverable is recorded from a completed upload that has none.        *)
LEMMA RowsChange ==
  ASSUME PanelInductive, NEW n \in Ids \cup {None}, CreateDeliverable(n),
         UNCHANGED <<uploadVars, addMode, removal, viewVars, wire, replies, inProgress, intents,
                     completing, storageVars>>,
         create' \in [phase : {"idle", "sent", "stored"}, upload : Ids \cup {None}],
         strays' \subseteq Ids \cup {None}
  PROVE  PanelInductive'
<1> USE DEF PanelInductive
<1>1. \/ rows' = rows
      \/ \E id \in 1..MaxRows :
           /\ rows' = rows \cup {[id |-> id, upload |-> n]}
           /\ n # None => intents[n] = "completed" /\ \A row \in rows : row.upload # n
  BY DEF CreateDeliverable, AddRow, FreshIds, Recorded
<1>2. rows' \subseteq Rows
  <2>1. \A id \in 1..MaxRows : [id |-> id, upload |-> n] \in Rows
    BY DEF Rows
  <2>2. QED
    BY <1>1, <2>1 DEF PanelTypeOK
<1>3. PanelTypeOK'
  BY <1>2 DEF PanelTypeOK, uploadVars, viewVars, storageVars
<1>4. ClientShape' /\ ApiShape'
  BY DEF ClientShape, ApiShape, uploadVars
<1>5. ObjectsAreKept' /\ CompletionsWereAsked' /\ SuccessesAreTrue'
  BY DEF ObjectsAreKept, CompletionsWereAsked, SuccessesAreTrue, uploadVars, storageVars
<1>6. CASE rows' = rows
  BY <1>3, <1>4, <1>5, <1>6 DEF RowsAreVerified, EachUploadDeliveredOnce
<1>7. ASSUME NEW id \in 1..MaxRows, rows' = rows \cup {[id |-> id, upload |-> n]},
             n # None => intents[n] = "completed" /\ \A row \in rows : row.upload # n
      PROVE  PanelInductive'
  <2>1. \A row \in rows' : row \in rows \/ row.upload = n
    BY <1>7
  <2>2. RowsAreVerified'
    BY <1>7, <2>1 DEF RowsAreVerified
  <2>3. EachUploadDeliveredOnce'
    <3>1. SUFFICES ASSUME NEW a \in rows', NEW b \in rows', a.upload = b.upload, a.upload # None
                   PROVE  a = b
      BY DEF EachUploadDeliveredOnce
    <3>2. CASE a \in rows /\ b \in rows
      BY <3>1, <3>2 DEF EachUploadDeliveredOnce
    <3>3. CASE a \notin rows \/ b \notin rows
      BY <1>7, <2>1, <3>1, <3>3
    <3>4. QED
      BY <3>2, <3>3
  <2>4. QED
    BY <1>3, <1>4, <1>5, <2>2, <2>3
<1>8. QED
  BY <1>1, <1>6, <1>7

(* A deletion rejects the upload of the row it deletes and of no other.    *)
LEMMA DeleteStep ==
  ASSUME PanelInductive, NEW row \in rows, DeleteRow(row),
         UNCHANGED <<uploadVars, addMode, create, viewVars, netVars, inProgress, completing, objects>>,
         removal' \in [phase : {"idle", "sent", "done"}, id : 0..MaxRows]
  PROVE  PanelInductive'
<1> USE DEF PanelInductive
<1> DEFINE n == row.upload
<1>1. /\ completing = None /\ rows' = rows \ {row}
      /\ intents' = [m \in Ids |-> IF m = n THEN "rejected" ELSE intents[m]]
      /\ cleaning' = cleaning \cup ({n} \ {None})
  BY DEF DeleteRow, BookingFree
<1>2. /\ n \in Ids \cup {None} /\ None \notin Ids /\ DOMAIN uploads \subseteq Ids
      /\ n # None => n \in Ids /\ intents[n] = "completed"
  BY UploadsAreFunctions, PanelAssumption DEF PanelTypeOK, Rows, RowsAreVerified, None, Ids
<1> HIDE DEF n
<1>3. /\ intents' \in [Ids -> {"none", "pending", "completed", "expired", "rejected"}]
      /\ \A m \in Ids :
           intents'[m] = intents[m] \/ (m = n /\ intents[m] = "completed" /\ intents'[m] = "rejected")
  BY <1>1, <1>2 DEF PanelTypeOK
<1>4. PanelTypeOK'
  BY <1>1, <1>2, <1>3 DEF PanelTypeOK, uploadVars, viewVars, netVars
<1>5. ClientShape'
  <2>1. uploadedFile # None => intents'[uploadedFile] \in Verified
    BY <1>3 DEF ClientShape, Verified, PanelTypeOK
  <2>2. QED
    BY <2>1 DEF ClientShape, uploadVars, netVars
<1>6. ApiShape'
  BY <1>1, <1>2, <1>3 DEF ApiShape, uploadVars, netVars
<1>7. ObjectsAreKept'
  <2>1. \A m \in cleaning' : intents'[m] = "rejected"
    BY <1>1, <1>2, <1>3 DEF ObjectsAreKept, PanelTypeOK
  <2>2. \A m \in Ids : intents'[m] = "completed" => intents[m] = "completed"
    BY <1>3
  <2>3. QED
    BY <2>1, <2>2 DEF ObjectsAreKept, uploadVars
<1>8. RowsAreVerified' /\ EachUploadDeliveredOnce'
  <2>1. \A other \in rows' : other \in rows /\ (other.upload # None => other.upload # n)
    BY <1>1 DEF EachUploadDeliveredOnce, n
  <2>2. RowsAreVerified'
    BY <1>1, <2>1 DEF RowsAreVerified, PanelTypeOK, Rows
  <2>3. EachUploadDeliveredOnce'
    BY <2>1 DEF EachUploadDeliveredOnce
  <2>4. QED
    BY <2>2, <2>3
<1>9. CompletionsWereAsked' /\ SuccessesAreTrue'
  BY <1>2, <1>3 DEF CompletionsWereAsked, SuccessesAreTrue, Verified, uploadVars, netVars
<1>10. QED
  BY <1>4, <1>5, <1>6, <1>7, <1>8, <1>9

LEMMA ServerSteps == PanelInductive /\ ServerStep => PanelInductive'
<1> SUFFICES ASSUME PanelInductive, ServerStep PROVE PanelInductive'
  OBVIOUS
<1>1. CASE \E n \in DOMAIN uploads : CreateIntent(n) \/ BeginCompletion(n)
  BY <1>1, CreateIntentStep, BeginCompletionStep
<1>2. CASE (\E n \in DOMAIN uploads : StoreObject(n)) \/ \E n \in cleaning : Cleanup(n)
  BY <1>2, StorageSteps
<1>3. CASE EndCompletion
  BY <1>3, EndCompletionStep
<1>4. CASE HandleCreate
  <2>1. create' \in [phase : {"idle", "sent", "stored"}, upload : Ids \cup {None}]
    BY <1>4 DEF HandleCreate, NoCreate, PanelInductive, PanelTypeOK
  <2>2. create.upload \in Ids \cup {None} /\ strays' \subseteq Ids \cup {None}
    BY <1>4 DEF HandleCreate, netVars, PanelInductive, PanelTypeOK
  <2>3. QED
    BY <1>4, <2>1, <2>2, RowsChange DEF HandleCreate, netVars
<1>5. ASSUME NEW n \in strays, HandleStray(n) PROVE PanelInductive'
  <2>1. n \in Ids \cup {None} /\ strays' \subseteq Ids \cup {None}
    BY <1>5 DEF HandleStray, PanelInductive, PanelTypeOK
  <2>2. create' \in [phase : {"idle", "sent", "stored"}, upload : Ids \cup {None}]
    BY <1>5 DEF HandleStray, formVars, PanelInductive, PanelTypeOK
  <2>3. QED
    BY <1>5, <2>1, <2>2, RowsChange DEF HandleStray, formVars
<1>6. CASE HandleRemoval
  <2>1. removal' \in [phase : {"idle", "sent", "done"}, id : 0..MaxRows]
    BY <1>6, PanelAssumption DEF HandleRemoval, NoRemoval, PanelInductive, PanelTypeOK
  <2>2. CASE \E row \in rows : DeleteRow(row)
    BY <1>6, <2>1, <2>2, DeleteStep DEF HandleRemoval
  <2>3. CASE UNCHANGED <<rows, intents, cleaning>>
    BY <1>6, <2>1, <2>3, ListenerStep
    DEF HandleRemoval, PanelInductive, PanelTypeOK, uploadVars, viewVars, netVars, apiVars, storageVars
  <2>4. QED
    BY <1>6, <2>2, <2>3 DEF HandleRemoval
<1>7. ASSUME NEW row \in rows, DeleteElsewhere(row) PROVE PanelInductive'
  BY <1>7, DeleteStep DEF DeleteElsewhere, formVars, PanelInductive, PanelTypeOK
<1>8. CASE LeaveInProgress
  <2>1. /\ UNCHANGED <<uploads, field, addMode, uploadedFile, create, removal, shown>>
        /\ UNCHANGED <<mounted, wire, replies, strays, intents, rows, completing>>
        /\ UNCHANGED <<objects, cleaning>>
        /\ inProgress' \in BOOLEAN
    BY <1>8 DEF LeaveInProgress, uploadVars, formVars, viewVars, netVars, storageVars
  <2>2. PanelTypeOK
    BY DEF PanelInductive
  <2>3. PanelTypeOK'
    BY <2>1, <2>2 DEF PanelTypeOK
  <2>4. QED
    BY <2>1, <2>3
    DEF PanelInductive, EachUploadDeliveredOnce, ClientShape, ApiShape, ObjectsAreKept,
        CompletionsWereAsked, SuccessesAreTrue, RowsAreVerified
<1>9. QED
  BY <1>1, <1>2, <1>3, <1>4, <1>5, <1>6, <1>7, <1>8 DEF ServerStep

LEMMA NextPanel == PanelInductive /\ [PanelNext]_panelVars => PanelInductive'
<1> SUFFICES ASSUME PanelInductive, [PanelNext]_panelVars PROVE PanelInductive'
  OBVIOUS
<1>1. CASE UNCHANGED panelVars
  BY <1>1, ListenerStep
  DEF panelVars, uploadVars, formVars, viewVars, netVars, apiVars, storageVars, PanelInductive,
      PanelTypeOK
<1>2. QED
  BY <1>1, UploadSteps, PanelSteps, ServerSteps DEF PanelNext

LEMMA PanelFromInductive == PanelInductive => PanelInv
<1> SUFFICES ASSUME PanelInductive PROVE PanelInv
  OBVIOUS
<1> USE DEF PanelInductive
<1>1. DOMAIN uploads \subseteq Ids /\ None \notin Ids
  BY UploadsAreFunctions, PanelAssumption DEF PanelTypeOK, None, Ids
<1>2. \A n \in Ids : intents[n] = "completed" => n \in objects \ cleaning
  BY DEF ObjectsAreKept
<1>3. RecordsAreVerified
  BY <1>2 DEF RecordsAreVerified, RowsAreVerified, ObjectsAreKept, PanelTypeOK, Rows
<1>4. GrantedDownloadsExist
  BY <1>2 DEF GrantedDownloadsExist, DownloadGranted, PanelTypeOK, Rows
<1>5. OfferedFileIsComplete
  BY <1>1 DEF OfferedFileIsComplete, ClientShape, SuccessesAreTrue, Verified
<1>6. CancelledStaysOut
  BY DEF CancelledStaysOut, CompletionsWereAsked, Verified, AskedFor
<1>7. QED
  BY <1>3, <1>4, <1>5, <1>6 DEF PanelInv

(* For any files and any number of uploads, rows and late requests: a file *)
(* that is delivered was verified, is in one deliverable and keeps its     *)
(* object; what is offered was completed, and what was cancelled never is. *)
THEOREM DeliveredFilesAreVerified == PanelSpec => []PanelInv
<1>1. PanelSpec => []PanelInductive
  BY InitPanel, NextPanel, PTL DEF PanelSpec
<1>2. QED
  BY <1>1, PanelFromInductive, PTL
=============================================================================
