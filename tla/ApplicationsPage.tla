-------------------------- MODULE ApplicationsPage --------------------------
(***************************************************************************)
(* The page of creator applications (apps/web/src/app/admin/kreator/       *)
(* page.tsx) in one administrator's browser, over CreatorReview, whose     *)
(* transactions handle its requests.  The list is read once; the requests  *)
(* name a profile and not the content the list shows.                      *)
(*                                                                         *)
(* The buttons of one application are disabled while processingId names it;*)
(* a click on another application replaces processingId, and the end of any*)
(* request clears it, so several requests can be under way.                *)
(***************************************************************************)
EXTENDS CreatorReview

CONSTANT PageRequests  \* the sessions of AdminRequests that this page's requests use

ASSUME PageAssumption == PageRequests \subseteq AdminRequests

VARIABLES
  loaded,      \* the list has arrived
  listed,      \* listed[c]: the content shown of c's application, or NoContent
  processing,  \* processingId
  call         \* call[r]: the page's request in session r

applicationsVars == <<loaded, listed, processing, call>>
applicationsAllVars == <<profileVars, applicationsVars>>
-----------------------------------------------------------------------------
Decisions == {"approve", "reject"}
NoCall == [phase |-> "none", op |-> "approve", c |-> NoCreator]

ApplicationsTypeOK ==
  /\ loaded \in BOOLEAN
  /\ listed \in [Profiles -> Contents \cup {NoContent}]
  /\ processing \in Profiles \cup {NoCreator}
  /\ call \in [PageRequests -> [phase : {"none", "sent", "ok", "refused"}, op : Decisions,
                                c : Profiles \cup {NoCreator}]]

ApplicationsInit ==
  /\ ProfileInit
  /\ loaded = FALSE
  /\ listed = [c \in Profiles |-> NoContent]
  /\ processing = NoCreator
  /\ call = [r \in PageRequests |-> NoCall]

(* listCreatorApplications, as the effect asked for it.                    *)
LoadList ==
  /\ ~loaded
  /\ loaded' = TRUE
  /\ listed' = [c \in Profiles |-> IF profile[c].status = "pending" THEN profile[c].content
                                  ELSE NoContent]
  /\ UNCHANGED <<processing, call, profileVars>>

(* The page is left; what it sent is handled as another tab's.             *)
Leave ==
  /\ loaded
  /\ loaded' = FALSE
  /\ listed' = [c \in Profiles |-> NoContent]
  /\ processing' = NoCreator
  /\ call' = [r \in PageRequests |-> NoCall]
  /\ UNCHANGED profileVars

(* handleApprove and handleReject.                                         *)
Decide(r, c, op) ==
  /\ loaded /\ listed[c] # NoContent /\ processing # c
  /\ call[r] = NoCall
  /\ Begin(r, op, c, NoContent)
  /\ processing' = c
  /\ call' = [call EXCEPT ![r] = [phase |-> "sent", op |-> op, c |-> c]]
  /\ UNCHANGED <<loaded, listed>>
-----------------------------------------------------------------------------
Answer(r, phase) ==
  IF r \in PageRequests /\ call[r].phase = "sent"
    THEN call' = [call EXCEPT ![r].phase = phase]
    ELSE UNCHANGED call

HandlerLoads(r) ==
  /\ AdminLoads(r)
  /\ IF tx'[r] = Idle THEN Answer(r, "refused") ELSE UNCHANGED call
  /\ UNCHANGED <<loaded, listed, processing>>

HandlerWrites(r) ==
  /\ AdminWrites(r)
  /\ Answer(r, "ok")
  /\ UNCHANGED <<loaded, listed, processing>>

HandlerFails(r) ==
  /\ Abandon(r)
  /\ Answer(r, "refused")
  /\ UNCHANGED <<loaded, listed, processing>>

(* Variant: the application is looked up by processingId.                  *)
Succeeds_ByProcessing(r) ==
  /\ call[r].phase = "ok"
  /\ listed' = [c \in Profiles |-> IF c = processing THEN NoContent ELSE listed[c]]
  /\ processing' = NoCreator
  /\ call' = [call EXCEPT ![r] = NoCall]
  /\ UNCHANGED <<loaded, profileVars>>

(* The list by then, without the application decided on.                   *)
Succeeds(r) ==
  /\ call[r].phase = "ok"
  /\ listed' = [listed EXCEPT ![call[r].c] = NoContent]
  /\ processing' = NoCreator
  /\ call' = [call EXCEPT ![r] = NoCall]
  /\ UNCHANGED <<loaded, profileVars>>

(* Variant: the buttons are enabled after successes only.                  *)
Fails_StillProcessing(r) ==
  /\ call[r].phase # "none"
  /\ call' = [call EXCEPT ![r] = NoCall]
  /\ UNCHANGED <<loaded, listed, processing, profileVars>>

(* The service refused, or the answer was lost.                            *)
Fails(r) ==
  /\ call[r].phase # "none"
  /\ processing' = NoCreator
  /\ call' = [call EXCEPT ![r] = NoCall]
  /\ UNCHANGED <<loaded, listed, profileVars>>

PageStep ==
  \/ LoadList \/ Leave
  \/ \E r \in PageRequests :
       \/ \E c \in Profiles, op \in Decisions : Decide(r, c, op)
       \/ Succeeds(r) \/ Fails(r)

(* The owners, and administrators elsewhere.                               *)
Elsewhere ==
  /\ \/ \E r \in OwnerRequests : OwnerBegins(r) \/ OwnerLoads(r) \/ OwnerWrites(r) \/ Abandon(r)
     \/ \E r \in AdminRequests \ PageRequests : AdminBegins(r)
  /\ UNCHANGED applicationsVars

ApplicationsNext ==
  \/ PageStep \/ Elsewhere
  \/ \E r \in AdminRequests : HandlerLoads(r) \/ HandlerWrites(r) \/ HandlerFails(r)

ApplicationsSpec == ApplicationsInit /\ [][ApplicationsNext]_applicationsAllVars
-----------------------------------------------------------------------------
Answered(r) == call[r].phase = "ok" /\ call'[r].phase = "none"

(* With several requests under way, an application leaves the list only with*)
(* the answer that it was decided, and none that left comes back while the  *)
(* page is open.                                                            *)
ListFollowsAnswers ==
  [][loaded /\ loaded' =>
       \A c \in Profiles : listed'[c] # listed[c] =>
         listed'[c] = NoContent /\ \E r \in PageRequests : Answered(r) /\ call[r].c = c]_applicationsAllVars

(* The buttons of an application are disabled only while a request about it*)
(* is under way, whatever other requests end meanwhile: none stay disabled.*)
ButtonsComeBack ==
  processing # NoCreator =>
    \E r \in PageRequests : call[r].phase # "none" /\ call[r].c = processing

ApplicationsInv == ProfileTypeOK /\ ApplicationsTypeOK /\ ButtonsComeBack
=============================================================================
