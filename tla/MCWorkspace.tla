----------------------------- MODULE MCWorkspace -----------------------------
(***************************************************************************)
(* Instance of WorkspacePage and of the DeliverablesPanel on it for TLC.   *)
(* They share the fact that the booking is in progress, which each of them *)
(* has for itself: a behaviour is about the page or about the panel.       *)
(***************************************************************************)
EXTENDS WorkspacePage, DeliverablesPanel

CONSTANTS ana, kreator, photo

VARIABLE part

MCOwner == [c \in Creators |-> kreator]

(* Bound: one upload of any file with links and several rows, or two uploads*)
(* of one genuine file, without links and for one row at a time.            *)
Small ==
  \/ Len(uploads) <= 1
  \/ /\ \A n \in DOMAIN uploads : uploads[n].file = photo
     /\ \A row \in rows \cup shown.rows : row.id = 1 /\ row.upload # None
     /\ None \notin strays /\ (create.phase # "idle" => create.upload # None)

MCInit ==
  /\ WorkspaceInit /\ PanelInit /\ part \in {"page", "panel"}
  /\ part = "panel" => viewer = kreator

PagePart ==
  part = "page" /\ WorkspaceNext /\ UNCHANGED <<panelVars, part>>

PanelPart ==
  part = "panel" /\ PanelNext /\ Small' /\ UNCHANGED <<vars, workspacePageVars, part>>

MCNext == PagePart \/ PanelPart

MCSpec == MCInit /\ [][MCNext]_<<vars, workspacePageVars, panelVars, part>>
=============================================================================
