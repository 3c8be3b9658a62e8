------------------------ MODULE MCReviewsAndProfiles ------------------------
(***************************************************************************)
(* Instances of ReviewAggregate, ReviewList, CreatorReview,                *)
(* ApplicationsPage and DisputesPage for TLC.  Reviews, profiles and       *)
(* disputes share nothing here, so a behaviour has one topic, and what is  *)
(* not about it does not move.                                             *)
(***************************************************************************)
EXTENDS ReviewList, ApplicationsPage, DisputesPage, TLC

CONSTANTS c1, c2

VARIABLE topic

Topics == {"ratings", "list", "profiles", "applications", "disputes"}

(* Three bookings of one creator and one of another.                       *)
MCCreatorOf == [b \in Bookings |-> IF b = 4 THEN c2 ELSE c1]

(* Bound: the first booking was worse than the others.                     *)
Rated ==
  \A r \in Reviewers :
    reviewTx[r].b # NoBooking => (reviewTx[r].rating = 2 <=> reviewTx[r].b = 1)

(* Bound: two reviewers write to the creator of the list.                  *)
TwoReviewers ==
  /\ \A r \in Reviewers : reviewTx[r].b # 4
  /\ Cardinality({r \in Reviewers : reviewTx[r] # NoReview \/ began[r] # 0}) <= 2

(* Bound: one application is followed through the service itself, by two   *)
(* administrators.                                                         *)
OneProfile ==
  /\ Cardinality({c \in Profiles : profile[c] # NoRow}
                   \cup ({tx[r].c : r \in Requests} \ {NoCreator})) <= 1
  /\ \A r \in AdminRequests \ PageRequests : tx[r] = Idle

(* Bound: what the page lists is complete.                                 *)
AllFilled ==
  \A r \in OwnerRequests : tx[r].content # NoContent =>
    \A column \in Columns : tx[r].content[column] # Blank

MCInit == ListInit /\ ApplicationsInit /\ DisputesInit /\ topic \in Topics

MCNext ==
  /\ UNCHANGED topic
  /\ \/ /\ topic = "ratings" /\ AggregateNext /\ Rated'
        /\ UNCHANGED <<listVars, applicationsAllVars, disputesVars>>
     \/ /\ topic = "list" /\ ListNext /\ Rated' /\ TwoReviewers'
        /\ UNCHANGED <<applicationsAllVars, disputesVars>>
     \/ /\ topic = "profiles" /\ ProfileNext /\ OneProfile'
        /\ UNCHANGED <<reviewListVars, applicationsVars, disputesVars>>
     \/ /\ topic = "applications" /\ ApplicationsNext /\ AllFilled'
        /\ UNCHANGED <<reviewListVars, disputesVars>>
     \/ /\ topic = "disputes" /\ DisputesNext
        /\ UNCHANGED <<reviewListVars, applicationsAllVars>>

MCSpec == MCInit /\ [][MCNext]_<<reviewListVars, applicationsAllVars, disputesVars, topic>>

Symmetry == Permutations(Reviewers) \cup Permutations(Profiles) \cup Permutations(PageRequests)
=============================================================================
