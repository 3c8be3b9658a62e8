------------------------- MODULE MCConversationPanel -------------------------
(***************************************************************************)
(* Instance of ChatFeed and MessageComposer, the two halves of             *)
(* ConversationPanel, for TLC.  What the composer sends reaches the feed as*)
(* one of its messages (Mine); otherwise they share nothing, so a behaviour*)
(* is about one of them.                                                   *)
(***************************************************************************)
EXTENDS ChatFeed, MessageComposer

VARIABLE half

MCInit == FeedInit /\ ComposerInit /\ half \in {"feed", "composer"}

(* Bound: the panel is mounted twice, or the connection is lost once and a *)
(* frame without a message is sent.                                        *)
FeedHalf ==
  /\ half = "feed" /\ FeedNext
  /\ losses' + visits' <= 2 /\ notices' + visits' <= 2
  /\ UNCHANGED <<composerVars, half>>

(* Bound: a fourth call is a text on a booking that is not over, and       *)
(* neither it nor a second attachment meets an attachment whose request was*)
(* repeated.  Texts and uploads are numbered in the order they come, since *)
(* nothing else tells one from another.                                    *)
FewCalls ==
  /\ \A t \in typed : 1..t \subseteq typed
  /\ \A u \in uploaded : 1..u \subseteq uploaded
  /\ Len(calls) = 4 => calls[4].attempt.kind = "text" /\ writable
  /\ Len(calls) = 4 \/ Cardinality(uploaded) = 2 =>
       \A c \in DOMAIN calls : calls[c].attempt.kind = "attachment" => calls[c].try = 1

(* Of the feed's initial states one is enough.                             *)
ComposerHalf ==
  half = "composer" /\ stored = {} /\ ComposerNext /\ FewCalls' /\ UNCHANGED <<feedVars, half>>

MCNext == FeedHalf \/ ComposerHalf

MCSpec == MCInit /\ [][MCNext]_<<feedVars, composerVars, half>>

(* The panel's invariants: the types of the feed, in which no message is   *)
(* announced before it is stored, and what the composer's retries keep.    *)
ConversationInv == FeedTypeOK /\ ComposerInv
=============================================================================
