---------------------------- MODULE DisputesPage ----------------------------
(***************************************************************************)
(* The administrators' page of disputes (apps/web/src/app/admin/sengketa/  *)
(* page.tsx) in one browser, with its list read once, one form for the     *)
(* verdict of one dispute, and a submission that the rest of the page does *)
(* not wait for: while it is under way another dispute's form can be       *)
(* opened, and the radio buttons and the notes can be changed.             *)
(*                                                                         *)
(* Other administrators decide on disputes too.  What a verdict does to the*)
(* booking and its payment is BookingLifecycle's ResolveDispute.           *)
(***************************************************************************)
EXTENDS Naturals

CONSTANTS
  Disputes,  \* disputes that clients opened before the page was
  None       \* no dispute: no form is open

ASSUME NoneAssumption == None \notin Disputes

Verdicts == {"resolved_client", "resolved_creator"}

(* What notes are about: the dispute whose form they were typed in, another*)
(* administrator's notes, or fewer than five characters.                   *)
Notes == Disputes \cup {"theirs", "short"}

VARIABLES
  record,    \* record[d]: the row of dispute d
  page,      \* what the component's state holds
  shown,     \* shown[d]: dispute d in the page's list
  request    \* the submission

disputesVars == <<record, page, shown, request>>
-----------------------------------------------------------------------------
DisputeRow == [status : {"open"} \cup Verdicts, notes : Notes]
OpenRow == [status |-> "open", notes |-> "short"]

NoRequest == [phase |-> "idle", of |-> None, choice |-> "resolved_client", notes |-> "short"]
NoFeedback == [type |-> "none", of |-> None, choice |-> "resolved_client"]

DisputesTypeOK ==
  /\ record \in [Disputes -> DisputeRow]
  /\ shown \in [Disputes -> DisputeRow]
  /\ page.loaded \in BOOLEAN /\ page.filter \in {"all", "pending", "resolved"}
  /\ page.active \in Disputes \cup {None}
  /\ page.choice \in Verdicts /\ page.notes \in Notes
  /\ page.feedback \in [type : {"none", "success", "error"}, of : Disputes \cup {None},
                        choice : Verdicts]
  /\ request \in [phase : {"idle", "sent", "done"}, of : Disputes \cup {None},
                  choice : Verdicts, notes : Notes]
  /\ request.phase # "idle" => request.notes # "short"

DisputesMounted ==
  [loaded |-> FALSE, filter |-> "pending", active |-> None, choice |-> "resolved_client",
   notes |-> "short", feedback |-> NoFeedback]

DisputesInit ==
  /\ record = [d \in Disputes |-> OpenRow]
  /\ shown = [d \in Disputes |-> OpenRow]
  /\ page = DisputesMounted
  /\ request = NoRequest

(* The list the effect asked for arrives.  If it fails the page is empty for*)
(* as long as it is mounted; nothing can be done there.                     *)
LoadDisputes ==
  /\ ~page.loaded
  /\ shown' = record
  /\ page' = [page EXCEPT !.loaded = TRUE]
  /\ UNCHANGED <<record, request>>

(* The page is left and opened again.  A submission that was sent may still*)
(* be handled, like one of another administrator; its answer is for nobody.*)
Remount ==
  /\ page.loaded
  /\ page' = DisputesMounted
  /\ request' = NoRequest
  /\ UNCHANGED <<record, shown>>
-----------------------------------------------------------------------------
IsPending(d) == shown[d].status = "open"
IsShown(d) ==
  /\ page.loaded
  /\ page.filter = "pending" => IsPending(d)
  /\ page.filter = "resolved" => ~IsPending(d)

ChooseFilter(f) ==
  /\ page.loaded
  /\ page' = [page EXCEPT !.filter = f]
  /\ UNCHANGED <<record, shown, request>>

(* Variant: the notes of the form that was open before are kept.           *)
OpenForm_NotesKept(d) ==
  /\ IsShown(d) /\ IsPending(d) /\ page.active # d
  /\ page' = [page EXCEPT !.active = d]
  /\ UNCHANGED <<record, shown, request>>

(* "Buka Mediasi / Putusan", which a submission under way does not disable.*)
OpenForm(d) ==
  /\ IsShown(d) /\ IsPending(d) /\ page.active # d
  /\ page' = [page EXCEPT !.active = d, !.notes = "short"]
  /\ UNCHANGED <<record, shown, request>>

(* The radio buttons and the notes of the open form.                       *)
Edit ==
  /\ page.active # None /\ IsShown(page.active)
  /\ \/ \E v \in Verdicts : page' = [page EXCEPT !.choice = v]
     \/ \E n \in {page.active, "short"} : page' = [page EXCEPT !.notes = n]
  /\ UNCHANGED <<record, shown, request>>

(* "Batal".                                                                *)
CloseForm ==
  /\ page.active # None /\ IsShown(page.active) /\ request.phase = "idle"
  /\ page' = [page EXCEPT !.active = None]
  /\ UNCHANGED <<record, shown, request>>

(* "Konfirmasi Keputusan".                                                 *)
Confirm ==
  /\ page.active # None /\ IsShown(page.active)
  /\ request.phase = "idle" /\ page.notes # "short"
  /\ request' = [phase |-> "sent", of |-> page.active, choice |-> page.choice,
                 notes |-> page.notes]
  /\ page' = [page EXCEPT !.feedback = NoFeedback]
  /\ UNCHANGED <<record, shown>>
-----------------------------------------------------------------------------
(* resolve_dispute_for_admin.                                              *)
Resolve(d, verdict, notes) ==
  /\ record[d].status = "open"
  /\ record' = [record EXCEPT ![d] = [status |-> verdict, notes |-> notes]]

Handle ==
  /\ request.phase = "sent"
  /\ Resolve(request.of, request.choice, request.notes)
  /\ request' = [request EXCEPT !.phase = "done"]
  /\ UNCHANGED <<page, shown>>

DecidedElsewhere ==
  /\ \E d \in Disputes, verdict \in Verdicts : Resolve(d, verdict, "theirs")
  /\ UNCHANGED <<page, shown, request>>

Feedback(type) == [type |-> type, of |-> request.of, choice |-> request.choice]

(* The answer of handleResolve closes whichever form is open and clears its*)
(* notes; the message names the choice that was sent.                      *)
Succeed ==
  /\ request.phase = "done"
  /\ shown' = [shown EXCEPT ![request.of] = record[request.of]]
  /\ page' = [page EXCEPT !.active = None, !.notes = "short", !.feedback = Feedback("success")]
  /\ request' = NoRequest
  /\ UNCHANGED record

(* The service refused, or the answer was lost.                            *)
Fail ==
  /\ request.phase # "idle"
  /\ page' = [page EXCEPT !.feedback = Feedback("error")]
  /\ request' = NoRequest
  /\ UNCHANGED <<record, shown>>

DisputesNext ==
  \/ LoadDisputes \/ Remount \/ Edit \/ CloseForm \/ Confirm
  \/ \E f \in {"all", "pending", "resolved"} : ChooseFilter(f)
  \/ \E d \in Disputes : OpenForm(d)
  \/ Handle \/ DecidedElsewhere \/ Succeed \/ Fail

DisputesSpec == DisputesInit /\ [][DisputesNext]_disputesVars
-----------------------------------------------------------------------------
(* The notes a dispute is decided with were written for it: opening a form,*)
(* switching to another one and going back never carries notes over.       *)
NotesAreOfTheirDispute ==
  \A d \in Disputes : record[d].notes \in {d, "theirs", "short"}

(* "Sengketa berhasil diselesaikan (...)" names the verdict that decided the*)
(* dispute, although the form may have been changed or another opened since,*)
(* and other administrators decide at the same time.                        *)
FeedbackTellsTheVerdict ==
  page.feedback.type = "success" =>
    record[page.feedback.of].status = page.feedback.choice

(* A form is open only for a dispute the page still lists as open, whatever*)
(* order forms are opened and answers arrive in.                           *)
FormsAreOfOpenDisputes == page.active # None => IsPending(page.active)

(* A dispute is decided once, and the list never shows a verdict that was  *)
(* not given.                                                              *)
ShownVerdictsStand ==
  \A d \in Disputes : shown[d].status # "open" => shown[d] = record[d]

(* What the page shows and sends is about the dispute it is shown with,    *)
(* although all disputes share one form and one message.                   *)
DisputesInv ==
  /\ DisputesTypeOK
  /\ NotesAreOfTheirDispute /\ FeedbackTellsTheVerdict
  /\ FormsAreOfOpenDisputes /\ ShownVerdictsStand
=============================================================================
