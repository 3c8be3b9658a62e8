------------------------ MODULE AdministrationProofs ------------------------
(***************************************************************************)
(* Theorems about what administrators decide, for any creators, disputes   *)
(* and number of concurrent requests.                                      *)
(*                                                                         *)
(* CreatorReview: an admin's decision is about the row as it is, and about *)
(* a submission.  While no owner has two requests in progress, a submission*)
(* is complete and stays as it is until it is rejected; otherwise neither  *)
(* holds: the run creator_review_race shows it for the second.             *)
(*                                                                         *)
(* ApplicationsPage: the buttons of an application come back, and it stays *)
(* in the list until it is answered.                                       *)
(*                                                                         *)
(* DisputesPage: the page shows the verdicts that were recorded, and notes *)
(* written for a dispute are sent about that dispute only.                 *)
(*                                                                         *)
(* AccountPages, for administrators and everybody else: guarded pages and  *)
(* the form of the profile follow what the cache says of the account.      *)
(***************************************************************************)
EXTENDS ApplicationsPage, DisputesPage, AccountPages, TLAPS

(* What is known of a transaction in progress.                             *)
TxShape ==
  \A r \in Requests :
    /\ tx[r].pc # "idle" => tx[r].c \in Profiles /\ tx[r].op # "none"
    /\ r \in OwnerRequests => tx[r].op \in {"none", "save", "submit"}
    /\ r \in AdminRequests => tx[r].op \in {"none", "approve", "reject"}
    /\ tx[r].op = "save" => tx[r].content \in Contents
    /\ tx[r].pc = "write" => tx[r].seen.status \in Source(tx[r].op)

(* A row that exists has its columns filled in.                            *)
RowShape == \A c \in Profiles : profile[c].status # "absent" => profile[c].content \in Contents

(* Two admins never hold the same profile.                                 *)
AdminsExclude ==
  \A r, s \in AdminRequests :
    r # s /\ tx[r].pc = "write" /\ tx[s].pc = "write" => tx[r].c # tx[s].c

(* Rows are never deleted: one that was read still exists.                 *)
ReadRowsExist ==
  \A r \in Requests :
    tx[r].pc = "write" /\ tx[r].seen.status # "absent" => profile[tx[r].c].status # "absent"

ReviewInv ==
  ProfileTypeOK /\ TxShape /\ RowShape /\ AdminsExclude /\ DecisionsStayCurrent /\ ReadRowsExist

LEMMA SourceType ==
  /\ Source("save") = {"absent", "draft", "rejected"}
  /\ Source("submit") = {"draft"}
  /\ Source("approve") = {"pending"}
  /\ Source("reject") = {"pending"}
  BY DEF Source, Editable

LEMMA MergeType ==
  ASSUME NEW current \in Contents, NEW seen, NEW new \in Contents
  PROVE  Merge(current, seen, new) \in Contents
  BY DEF Merge, Contents

LEMMA InitReview == ProfileInit => ReviewInv
<1> SUFFICES ASSUME ProfileInit PROVE ReviewInv
  OBVIOUS
<1>1. NoRow \in Row /\ Idle \in Tx
  BY DEF NoRow, Row, Statuses, Idle, Tx
<1>2. ProfileTypeOK
  BY <1>1 DEF ProfileInit, ProfileTypeOK
<1>3. TxShape /\ AdminsExclude /\ DecisionsStayCurrent /\ ReadRowsExist
  BY DEF ProfileInit, Idle, TxShape, AdminsExclude, DecisionsStayCurrent, ReadRowsExist, Requests
<1>4. RowShape
  BY DEF ProfileInit, NoRow, RowShape
<1>5. QED
  BY <1>2, <1>3, <1>4 DEF ReviewInv

LEMMA BeginReview ==
  ASSUME ReviewInv, NEW r \in Requests,
         \/ r \in OwnerRequests /\ OwnerBegins(r)
         \/ r \in AdminRequests /\ AdminBegins(r)
  PROVE  ReviewInv'
<1>1. PICK op \in {"save", "submit", "approve", "reject"}, c \in Profiles,
           content \in Contents \cup {NoContent} :
        /\ Begin(r, op, c, content)
        /\ op = "save" => content \in Contents
        /\ r \in OwnerRequests => op \in {"save", "submit"}
        /\ r \in AdminRequests => op \in {"approve", "reject"}
  BY ProfileAssumption DEF OwnerBegins, AdminBegins
<1>2. /\ tx' = [tx EXCEPT ![r] = [pc |-> "load", op |-> op, c |-> c, content |-> content,
                                  seen |-> NoRow]]
      /\ profile' = profile
  BY <1>1 DEF Begin
<1>3. ProfileTypeOK'
  BY <1>2 DEF ReviewInv, ProfileTypeOK, Tx, NoRow, Row, Statuses
<1>4. TxShape' /\ RowShape'
  BY <1>1, <1>2 DEF ReviewInv, ProfileTypeOK, TxShape, RowShape
<1>5. AdminsExclude' /\ DecisionsStayCurrent' /\ ReadRowsExist'
  BY <1>2 DEF ReviewInv, ProfileTypeOK, AdminsExclude, DecisionsStayCurrent, ReadRowsExist, Requests
<1>6. QED
  BY <1>3, <1>4, <1>5 DEF ReviewInv

(* The end of a transaction that wrote nothing.                            *)
LEMMA EndReview ==
  ASSUME ReviewInv, NEW r \in Requests, End(r), UNCHANGED profile
  PROVE  ReviewInv'
<1>1. ProfileTypeOK'
  BY DEF ReviewInv, ProfileTypeOK, End, Idle, Tx, NoRow, Row, Statuses
<1>2. TxShape' /\ RowShape'
  BY DEF ReviewInv, ProfileTypeOK, TxShape, RowShape, End, Idle
<1>3. AdminsExclude' /\ DecisionsStayCurrent' /\ ReadRowsExist'
  BY DEF ReviewInv, ProfileTypeOK, AdminsExclude, DecisionsStayCurrent, ReadRowsExist, End, Idle,
         Requests
<1>4. QED
  BY <1>1, <1>2, <1>3 DEF ReviewInv

LEMMA LoadReview ==
  ASSUME ReviewInv, NEW r \in Requests,
         \/ r \in OwnerRequests /\ OwnerLoads(r)
         \/ r \in AdminRequests /\ AdminLoads(r)
  PROVE  ReviewInv'
<1>1. Load(r) /\ profile' = profile /\ tx[r].pc = "load"
  BY DEF OwnerLoads, AdminLoads, Load
<1>2. CASE ~Allowed(tx[r].op, profile[tx[r].c])
  BY <1>1, <1>2, EndReview DEF Load, End
<1>3. CASE Allowed(tx[r].op, profile[tx[r].c])
  <2>1. tx' = [tx EXCEPT ![r] = [tx[r] EXCEPT !.pc = "write", !.seen = profile[tx[r].c]]]
    BY <1>1, <1>3 DEF Load
  <2>2. tx[r].c \in Profiles
    BY <1>1 DEF ReviewInv, TxShape
  <2>3. ProfileTypeOK'
    BY <1>1, <2>1, <2>2 DEF ReviewInv, ProfileTypeOK, Tx
  <2>4. TxShape' /\ RowShape'
    BY <1>1, <1>3, <2>1, <2>2 DEF ReviewInv, ProfileTypeOK, TxShape, RowShape, Allowed, Tx
  <2>5. AdminsExclude'
    BY <1>1, <2>1, ProfileAssumption
    DEF ReviewInv, ProfileTypeOK, Tx, AdminsExclude, AdminLoads, Locked, Requests
  <2>6. DecisionsStayCurrent' /\ ReadRowsExist'
    BY <1>1, <2>1 DEF ReviewInv, ProfileTypeOK, Tx, DecisionsStayCurrent, ReadRowsExist, Requests
  <2>7. QED
    BY <2>3, <2>4, <2>5, <2>6 DEF ReviewInv
<1>4. QED
  BY <1>2, <1>3

(* A write of request r changes the row of one creator, whom no other      *)
(* admin holds, and leaves a legal row.                                    *)
LEMMA WriteReview ==
  ASSUME ReviewInv, NEW r \in Requests, NEW c \in Profiles, NEW row \in Row,
         row.status # "absent", row.content \in Contents,
         profile' = [profile EXCEPT ![c] = row], End(r),
         \A s \in AdminRequests \ {r} : tx[s].pc = "write" => tx[s].c # c
  PROVE  ReviewInv'
<1>1. ProfileTypeOK'
  BY DEF ReviewInv, ProfileTypeOK, End, Idle, Tx, NoRow, Row, Statuses
<1>2. TxShape' /\ RowShape'
  BY DEF ReviewInv, ProfileTypeOK, TxShape, RowShape, End, Idle
<1>3. AdminsExclude' /\ DecisionsStayCurrent' /\ ReadRowsExist'
  BY DEF ReviewInv, ProfileTypeOK, AdminsExclude, DecisionsStayCurrent, ReadRowsExist, End, Idle,
         Requests, TxShape
<1>4. QED
  BY <1>1, <1>2, <1>3 DEF ReviewInv

(* What a save, a submission or a decision makes of the row.               *)
Written(t, row) ==
  [status  |-> IF t.seen.status = Target[t.op] THEN row.status ELSE Target[t.op],
   content |-> IF t.op = "save" THEN Merge(row.content, t.seen.content, t.content)
               ELSE row.content]

LEMMA UpdateReview ==
  ASSUME ReviewInv, NEW r \in Requests, Update(r),
         \A s \in AdminRequests \ {r} : tx[s].pc = "write" => tx[s].c # tx[r].c
  PROVE  ReviewInv'
<1> DEFINE c == tx[r].c
           row == Written(tx[r], profile[c])
<1>1. c \in Profiles /\ tx[r].op \in {"save", "submit", "approve", "reject"} /\ End(r)
  BY DEF Update, ReviewInv, ProfileTypeOK, Tx, TxShape
<1>2. profile' = [profile EXCEPT ![c] = row]
  BY <1>1 DEF Update, Written, ReviewInv, ProfileTypeOK
<1>3. profile[c] \in Row /\ profile[c].status # "absent" /\ profile[c].content \in Contents
  BY <1>1 DEF Update, ReviewInv, ProfileTypeOK, RowShape, ReadRowsExist
<1>4. tx[r].op = "save" =>
        Merge(profile[c].content, tx[r].seen.content, tx[r].content) \in Contents
  BY <1>3, MergeType DEF ReviewInv, TxShape
<1>5. row \in Row /\ row.status # "absent" /\ row.content \in Contents
  BY <1>1, <1>3, <1>4 DEF Written, Row, Target, Statuses
<1>6. QED
  BY <1>1, <1>2, <1>5, WriteReview

LEMMA InsertReview ==
  ASSUME ReviewInv, NEW r \in OwnerRequests, Insert(r), ~Locked(tx[r].c)
  PROVE  ReviewInv'
<1> DEFINE row == [status |-> "draft", content |-> tx[r].content]
<1>1. r \in Requests /\ tx[r].c \in Profiles /\ End(r)
  BY DEF Insert, ReviewInv, TxShape, Requests
<1>2. tx[r].op = "save"
  BY <1>1, SourceType DEF Insert, ReviewInv, TxShape
<1>3. row \in Row /\ row.status # "absent" /\ row.content \in Contents
  BY <1>1, <1>2 DEF ReviewInv, TxShape, Row, Statuses
<1>4. \/ UNCHANGED profile
      \/ profile' = [profile EXCEPT ![tx[r].c] = row]
  BY DEF Insert
<1>5. \A s \in AdminRequests \ {r} : tx[s].pc = "write" => tx[s].c # tx[r].c
  BY DEF Locked
<1>6. CASE UNCHANGED profile
  BY <1>1, <1>6, EndReview
<1>7. CASE profile' = [profile EXCEPT ![tx[r].c] = row]
  <2> HIDE DEF row
  <2>1. PICK c \in Profiles : c = tx[r].c
    BY <1>1
  <2>2. /\ profile' = [profile EXCEPT ![c] = row]
        /\ \A s \in AdminRequests \ {r} : tx[s].pc = "write" => tx[s].c # c
    BY <1>5, <1>7, <2>1
  <2>3. QED
    BY <1>1, <1>3, <2>2, WriteReview
<1>8. QED
  BY <1>4, <1>6, <1>7

LEMMA NextReview == ReviewInv /\ [ProfileNext]_profileVars => ReviewInv'
<1> SUFFICES ASSUME ReviewInv, [ProfileNext]_profileVars PROVE ReviewInv'
  OBVIOUS
<1>1. ASSUME NEW r \in OwnerRequests, OwnerBegins(r) \/ OwnerLoads(r) PROVE ReviewInv'
  <2>1. r \in Requests
    BY <1>1 DEF Requests
  <2>2. CASE OwnerBegins(r)
    BY <1>1, <2>1, <2>2, BeginReview
  <2>3. CASE OwnerLoads(r)
    BY <1>1, <2>1, <2>3, LoadReview
  <2>4. QED
    BY <1>1, <2>2, <2>3
<1>2. ASSUME NEW r \in AdminRequests, AdminBegins(r) \/ AdminLoads(r) PROVE ReviewInv'
  <2>1. r \in Requests
    BY <1>2 DEF Requests
  <2>2. CASE AdminBegins(r)
    BY <1>2, <2>1, <2>2, BeginReview
  <2>3. CASE AdminLoads(r)
    BY <1>2, <2>1, <2>3, LoadReview
  <2>4. QED
    BY <1>2, <2>2, <2>3
<1>3. ASSUME NEW r \in OwnerRequests, OwnerWrites(r) PROVE ReviewInv'
  BY <1>3, InsertReview, UpdateReview DEF OwnerWrites, Locked, Requests
<1>4. ASSUME NEW r \in AdminRequests, AdminWrites(r) PROVE ReviewInv'
  <2>1. Update(r) /\ tx[r].pc = "write"
    BY <1>4 DEF AdminWrites, Update
  <2>2. \A s \in AdminRequests \ {r} : tx[s].pc = "write" => tx[s].c # tx[r].c
    BY <2>1 DEF ReviewInv, AdminsExclude
  <2>3. QED
    BY <2>1, <2>2, UpdateReview DEF Requests
<1>5. ASSUME NEW r \in Requests, Abandon(r) PROVE ReviewInv'
  BY <1>5, EndReview DEF Abandon
<1>6. CASE UNCHANGED profileVars
  BY <1>6
  DEF profileVars, ReviewInv, ProfileTypeOK, TxShape, RowShape, AdminsExclude, DecisionsStayCurrent,
      ReadRowsExist
<1>7. QED
  BY <1>1, <1>2, <1>3, <1>4, <1>5, <1>6 DEF ProfileNext

LEMMA ReviewInvariant == ProfileSpec => []ReviewInv
  BY InitReview, NextReview, PTL DEF ProfileSpec

(* Rows and transactions keep their types.                                 *)
THEOREM ReviewTypeCorrect == ProfileSpec => []ProfileTypeOK
  BY ReviewInvariant, PTL DEF ReviewInv

(* An admin never decides on an outdated row: between the locking read and *)
(* the commit nobody else writes the profile.                              *)
THEOREM AdminsReadCurrentRows == ProfileSpec => []DecisionsStayCurrent
  BY ReviewInvariant, PTL DEF ReviewInv

(* A step that gives a profile the status approved or rejected is an       *)
(* admin's, and the profile was pending.                                   *)
LEMMA DecisionStep ==
  ASSUME ReviewInv, [ProfileNext]_profileVars, NEW c \in Profiles,
         profile'[c].status # profile[c].status,
         profile'[c].status \in {"approved", "rejected"}
  PROVE  profile[c].status = "pending"
<1>1. PICK r \in Requests :
        /\ \/ r \in OwnerRequests /\ (Insert(r) \/ Update(r))
           \/ r \in AdminRequests /\ Update(r)
  BY DEF ProfileNext, profileVars, OwnerBegins, OwnerLoads, OwnerWrites, AdminBegins, AdminLoads,
         AdminWrites,
         Abandon, Begin, Load, Requests
<1>2. Update(r) /\ tx[r].c = c /\ tx[r].op \in {"approve", "reject"}
  BY <1>1 DEF Insert, Update, Target, ReviewInv, ProfileTypeOK, TxShape
<1>3. tx[r].op \in {"approve", "reject"} => r \in AdminRequests
  BY <1>1, ProfileAssumption DEF ReviewInv, TxShape
<1>4. tx[r].seen.status = "pending" /\ profile[c] = tx[r].seen
  BY <1>2, <1>3, SourceType DEF Update, ReviewInv, TxShape, DecisionsStayCurrent, Requests
<1>5. QED
  BY <1>4

(* Two admins cannot decide one submission twice, and nobody can approve a *)
(* draft.                                                                  *)
THEOREM DecisionsAreAboutSubmissions == ProfileSpec => DecisionsNeedSubmission
<1>1. ReviewInv /\ [ProfileNext]_profileVars =>
        [\A c \in Profiles :
           /\ profile'[c].status # profile[c].status
           /\ profile'[c].status \in {"approved", "rejected"}
           => profile[c].status = "pending"]_profileVars
  BY DecisionStep
<1>2. QED
  BY <1>1, ReviewInvariant, PTL DEF ProfileSpec, DecisionsNeedSubmission
-----------------------------------------------------------------------------
(* What the owner's side takes for granted: a creator sends one request at *)
(* a time.                                                                 *)
OneAtATime ==
  \A r, s \in OwnerRequests :
    r # s /\ tx[r].pc # "idle" /\ tx[s].pc # "idle" => tx[r].c # tx[s].c

(* Then what an owner's request read is still there when it writes.        *)
OwnersReadCurrentRows ==
  \A r \in OwnerRequests : tx[r].pc = "write" => profile[tx[r].c] = tx[r].seen

(* A submission was complete when it was read.                             *)
CompleteWhenRead ==
  \A r \in Requests :
    tx[r].pc = "write" /\ tx[r].op = "submit" => Complete(tx[r].seen.content)

CarefulInv ==
  ReviewInv /\ OwnersReadCurrentRows /\ CompleteWhenRead /\ SubmissionsAreComplete

(* A row changes by an insert or an update of the request that read it.    *)
LEMMA RowStep ==
  ASSUME ReviewInv, [ProfileNext]_profileVars, NEW c \in Profiles, profile'[c] # profile[c]
  PROVE  \E r \in Requests :
           /\ tx[r].c = c /\ tx[r].pc = "write" /\ tx'[r] = Idle
           /\ \/ r \in OwnerRequests /\ profile[c].status = "absent"
                 /\ profile'[c].status = "draft"
              \/ profile'[c] = Written(tx[r], profile[c])
<1>1. PICK r \in Requests : (r \in OwnerRequests /\ Insert(r)) \/ Update(r)
  BY DEF ProfileNext, profileVars, OwnerBegins, OwnerLoads, OwnerWrites, AdminBegins, AdminLoads,
         AdminWrites,
         Abandon, Begin, Load, Requests
<1>2. tx'[r] = Idle /\ tx[r].pc = "write"
  BY <1>1 DEF Insert, Update, End, ReviewInv, ProfileTypeOK
<1>3. tx[r].c = c
  BY <1>1 DEF Insert, Update, ReviewInv, ProfileTypeOK
<1>4. CASE r \in OwnerRequests /\ Insert(r)
  BY <1>2, <1>3, <1>4 DEF Insert, ReviewInv, ProfileTypeOK
<1>5. CASE Update(r)
  BY <1>2, <1>3, <1>5 DEF Update, Written, ReviewInv, ProfileTypeOK
<1>6. QED
  BY <1>1, <1>4, <1>5

(* A transaction that is about to write either was already, or has just    *)
(* read the row.                                                           *)
LEMMA ReadStep ==
  ASSUME ReviewInv, [ProfileNext]_profileVars, NEW r \in Requests, tx'[r].pc = "write"
  PROVE  \/ tx'[r] = tx[r]
         \/ /\ profile' = profile /\ tx'[r].seen = profile[tx'[r].c]
            /\ Allowed(tx'[r].op, tx'[r].seen)
<1>1. CASE UNCHANGED profileVars
  BY <1>1 DEF profileVars
<1>2. ASSUME NEW s \in Requests, Load(s)
      PROVE  \/ tx'[r] = tx[r]
             \/ /\ profile' = profile /\ tx'[r].seen = profile[tx'[r].c]
                /\ Allowed(tx'[r].op, tx'[r].seen)
  <2>1. CASE s # r
    BY <1>2, <2>1 DEF Load, ReviewInv, ProfileTypeOK
  <2>2. CASE s = r
    <3>1. tx[r].c \in Profiles
      BY <1>2, <2>2 DEF Load, ReviewInv, TxShape
    <3>2. Allowed(tx[r].op, profile[tx[r].c])
      BY <1>2, <2>2 DEF Load, ReviewInv, ProfileTypeOK, Idle
    <3>3. tx' = [tx EXCEPT ![r] = [tx[r] EXCEPT !.pc = "write", !.seen = profile[tx[r].c]]]
      BY <1>2, <2>2, <3>2 DEF Load
    <3>4. /\ tx'[r].c = tx[r].c /\ tx'[r].op = tx[r].op
          /\ tx'[r].seen = profile[tx[r].c]
      BY <3>3 DEF ReviewInv, ProfileTypeOK, Tx
    <3>5. QED
      BY <1>2, <2>2, <3>2, <3>4 DEF Load
  <2>3. QED
    BY <2>1, <2>2
<1>3. ASSUME NEW s \in Requests, End(s) PROVE tx'[r] = tx[r]
  BY <1>3 DEF End, Idle, ReviewInv, ProfileTypeOK
<1>4. ASSUME NEW s \in Requests, NEW op, NEW c, NEW content, Begin(s, op, c, content)
      PROVE  tx'[r] = tx[r]
  BY <1>4 DEF Begin, ReviewInv, ProfileTypeOK
<1>5. QED
  BY <1>1, <1>2, <1>3, <1>4
  DEF ProfileNext, OwnerBegins, OwnerLoads, OwnerWrites, AdminBegins, AdminLoads, AdminWrites, Insert,
      Update, Abandon, Requests

(* Of the requests about one creator, the one that writes read the row as  *)
(* it is.                                                                  *)
LEMMA WritersReadCurrentRows ==
  ASSUME CarefulInv, NEW r \in Requests, tx[r].pc = "write"
  PROVE  tx[r].seen = profile[tx[r].c]
  BY DEF CarefulInv, ReviewInv, OwnersReadCurrentRows, DecisionsStayCurrent, Requests

LEMMA OwnersStayCurrent ==
  ASSUME CarefulInv, OneAtATime, [ProfileNext]_profileVars
  PROVE  OwnersReadCurrentRows'
<1> SUFFICES ASSUME NEW r \in OwnerRequests, tx'[r].pc = "write"
             PROVE  profile'[tx'[r].c] = tx'[r].seen
  BY DEF OwnersReadCurrentRows
<1> DEFINE c == tx[r].c
<1>1. r \in Requests
  BY DEF Requests
<1>2. CASE tx'[r] # tx[r]
  BY <1>1, <1>2, ReadStep DEF CarefulInv
<1>3. CASE tx'[r] = tx[r]
  <2>1. c \in Profiles /\ tx[r].pc = "write" /\ tx[r].op \in {"save", "submit"}
    BY <1>1, <1>3 DEF CarefulInv, ReviewInv, TxShape
  <2>2. tx[r].seen = profile[c] /\ profile[c].status # "pending"
    BY <1>1, <2>1, SourceType, WritersReadCurrentRows DEF CarefulInv, ReviewInv, TxShape
  <2>3. ASSUME profile'[c] # profile[c] PROVE FALSE
    <3>1. PICK s \in Requests : tx[s].c = c /\ tx[s].pc = "write" /\ tx'[s] = Idle
      BY <2>1, <2>3, RowStep DEF CarefulInv
    <3>2. s # r
      BY <1>3, <2>1, <3>1 DEF Idle
    <3>3. CASE s \in OwnerRequests
      BY <2>1, <3>1, <3>2, <3>3 DEF OneAtATime
    <3>4. CASE s \in AdminRequests
      <4>1. tx[s].op \in {"approve", "reject"} /\ tx[s].seen = profile[c]
        BY <3>1, <3>4, WritersReadCurrentRows DEF CarefulInv, ReviewInv, TxShape
      <4>2. QED
        BY <2>2, <3>1, <4>1, SourceType DEF CarefulInv, ReviewInv, TxShape
    <3>5. QED
      BY <3>3, <3>4 DEF Requests
  <2>4. QED
    BY <1>3, <2>2, <2>3
<1>4. QED
  BY <1>2, <1>3

LEMMA SubmissionsStayComplete ==
  ASSUME CarefulInv, [ProfileNext]_profileVars
  PROVE  SubmissionsAreComplete' /\ CompleteWhenRead'
<1>1. CompleteWhenRead'
  BY ReadStep DEF CarefulInv, CompleteWhenRead, Allowed
<1>2. ASSUME NEW c \in Profiles, profile'[c] # profile[c],
             profile'[c].status \in {"pending", "approved"}
      PROVE  Complete(profile'[c].content)
  <2>1. PICK r \in Requests :
          tx[r].c = c /\ tx[r].pc = "write" /\ profile'[c] = Written(tx[r], profile[c])
    BY <1>2, RowStep DEF CarefulInv
  <2>2. /\ tx[r].seen = profile[c]
        /\ tx[r].op \in {"save", "submit", "approve", "reject"}
        /\ profile[c].status \in Source(tx[r].op)
    BY <2>1, WritersReadCurrentRows DEF CarefulInv, ReviewInv, ProfileTypeOK, Tx, TxShape
  <2>3. CASE tx[r].op = "save"
    BY <1>2, <2>1, <2>2, <2>3, SourceType DEF Written, Target
  <2>4. CASE tx[r].op = "submit"
    BY <2>1, <2>2, <2>4 DEF Written, CarefulInv, CompleteWhenRead
  <2>5. CASE tx[r].op \in {"approve", "reject"}
    BY <2>1, <2>2, <2>5, SourceType
    DEF Written, CarefulInv, SubmissionsAreComplete, UnderReviewOrPublished
  <2>6. QED
    BY <2>2, <2>3, <2>4, <2>5
<1>3. SubmissionsAreComplete'
  BY <1>2 DEF CarefulInv, SubmissionsAreComplete, UnderReviewOrPublished
<1>4. QED
  BY <1>1, <1>3

LEMMA FrozenStep ==
  ASSUME CarefulInv, [ProfileNext]_profileVars, NEW c \in Profiles, UnderReviewOrPublished(c)
  PROVE  /\ profile'[c].content = profile[c].content
         /\ profile'[c].status # profile[c].status =>
              profile[c].status = "pending" /\ profile'[c].status \in {"approved", "rejected"}
<1>1. SUFFICES ASSUME profile'[c] # profile[c]
               PROVE  /\ profile'[c].content = profile[c].content
                      /\ profile[c].status = "pending"
                      /\ profile'[c].status \in {"approved", "rejected"}
  OBVIOUS
<1>2. PICK r \in Requests :
        tx[r].c = c /\ tx[r].pc = "write" /\ profile'[c] = Written(tx[r], profile[c])
  BY <1>1, RowStep DEF CarefulInv, UnderReviewOrPublished
<1>3. /\ tx[r].seen = profile[c]
      /\ tx[r].op \in {"save", "submit", "approve", "reject"}
      /\ profile[c].status \in Source(tx[r].op)
  BY <1>2, WritersReadCurrentRows DEF CarefulInv, ReviewInv, ProfileTypeOK, Tx, TxShape
<1>4. tx[r].op \in {"approve", "reject"} /\ profile[c].status = "pending"
  BY <1>3, SourceType DEF UnderReviewOrPublished
<1>5. QED
  BY <1>2, <1>3, <1>4 DEF Written, Target

LEMMA CarefulInvariant == ProfileSpec /\ []OneAtATime => []CarefulInv
<1>1. ProfileInit => CarefulInv
  BY InitReview
  DEF ProfileInit, Idle, NoRow, CarefulInv, OwnersReadCurrentRows, CompleteWhenRead,
      SubmissionsAreComplete, UnderReviewOrPublished, Requests
<1>2. CarefulInv /\ OneAtATime /\ [ProfileNext]_profileVars => CarefulInv'
  <2>1. ASSUME CarefulInv, OneAtATime, [ProfileNext]_profileVars PROVE CarefulInv'
    <3>1. ReviewInv'
      BY <2>1, NextReview DEF CarefulInv
    <3>2. OwnersReadCurrentRows'
      BY <2>1, OwnersStayCurrent
    <3>3. SubmissionsAreComplete' /\ CompleteWhenRead'
      BY <2>1, SubmissionsStayComplete
    <3>4. QED
      BY <3>1, <3>2, <3>3 DEF CarefulInv
  <2>2. QED
    BY <2>1
<1>3. QED
  BY <1>1, <1>2, PTL DEF ProfileSpec

(* What is under review or published is complete, if no creator sends two  *)
(* requests at once.                                                       *)
THEOREM CarefulSubmissionsAreComplete == ProfileSpec /\ []OneAtATime => []SubmissionsAreComplete
  BY CarefulInvariant, PTL DEF CarefulInv

(* A profile stays as submitted until it is rejected, if no creator sends  *)
(* two requests at once: the lock upsert_creator_draft and                 *)
(* submit_creator_profile do not take is missing for this reason only.     *)
THEOREM CarefulProfilesAreFrozen == ProfileSpec /\ []OneAtATime => FrozenUntilRejected
<1>1. CarefulInv /\ [ProfileNext]_profileVars =>
        [\A c \in Profiles :
           UnderReviewOrPublished(c) =>
             /\ profile'[c].content = profile[c].content
             /\ profile'[c].status # profile[c].status =>
                  profile[c].status = "pending" /\ profile'[c].status \in {"approved", "rejected"}]_profileVars
  BY FrozenStep
<1>2. QED
  BY <1>1, CarefulInvariant, PTL DEF ProfileSpec, FrozenUntilRejected
-----------------------------------------------------------------------------
(* The page asks about applications that were submitted once: their rows   *)
(* exist, as the service expects of the profiles that it is asked about.   *)
ListedExist == \A c \in Profiles : listed[c] # NoContent => profile[c].status # "absent"

ApplicationsInductive == ReviewInv /\ ApplicationsInv /\ ListedExist

LEMMA InitApplications == ApplicationsInit => ApplicationsInductive
<1> SUFFICES ASSUME ApplicationsInit PROVE ApplicationsInductive
  OBVIOUS
<1>1. ReviewInv
  BY InitReview DEF ApplicationsInit
<1>2. NoCall \in [phase : {"none", "sent", "ok", "refused"}, op : Decisions,
                  c : Profiles \cup {NoCreator}]
  BY DEF NoCall, Decisions
<1>3. ApplicationsTypeOK
  BY <1>2 DEF ApplicationsInit, ApplicationsTypeOK
<1>4. ButtonsComeBack /\ ListedExist
  BY DEF ApplicationsInit, ButtonsComeBack, ListedExist
<1>5. QED
  BY <1>1, <1>3, <1>4 DEF ApplicationsInductive, ApplicationsInv, ReviewInv

(* Every step of the page, of those elsewhere and of the handlers is one   *)
(* of the service's, or none of its own.                                   *)
LEMMA ApplicationsStepIsReview ==
  ASSUME ApplicationsInductive, [ApplicationsNext]_applicationsAllVars
  PROVE  [ProfileNext]_profileVars
<1>1. CASE UNCHANGED applicationsAllVars
  BY <1>1 DEF applicationsAllVars
<1>2. CASE LoadList \/ Leave \/ \E r \in PageRequests : Succeeds(r) \/ Fails(r)
  BY <1>2 DEF LoadList, Leave, Succeeds, Fails
<1>3. ASSUME NEW r \in PageRequests, NEW c \in Profiles, NEW op \in Decisions, Decide(r, c, op)
      PROVE  ProfileNext
  <2>1. profile[c].status # "absent" /\ Begin(r, op, c, NoContent)
    BY <1>3 DEF Decide, ApplicationsInductive, ListedExist
  <2>2. r \in AdminRequests
    BY PageAssumption
  <2>3. AdminBegins(r)
    BY <2>1 DEF AdminBegins, Decisions
  <2>4. QED
    BY <2>2, <2>3 DEF ProfileNext
<1>4. CASE Elsewhere
  BY <1>4 DEF Elsewhere, ProfileNext, Requests
<1>5. CASE \E r \in AdminRequests : HandlerLoads(r) \/ HandlerWrites(r) \/ HandlerFails(r)
  BY <1>5 DEF HandlerLoads, HandlerWrites, HandlerFails, ProfileNext, Requests
<1>6. QED
  BY <1>1, <1>2, <1>3, <1>4, <1>5 DEF ApplicationsNext, PageStep

(* Rows are never deleted.                                                 *)
LEMMA RowsStay ==
  ASSUME ReviewInv, [ProfileNext]_profileVars, NEW c \in Profiles, profile[c].status # "absent"
  PROVE  profile'[c].status # "absent"
<1>1. CASE profile'[c] = profile[c]
  BY <1>1
<1>2. CASE profile'[c] # profile[c]
  <2>1. PICK r \in Requests : tx[r].pc = "write" /\ profile'[c] = Written(tx[r], profile[c])
    BY <1>2, RowStep
  <2>2. tx[r].op \in {"save", "submit", "approve", "reject"}
    BY <2>1 DEF ReviewInv, ProfileTypeOK, Tx, TxShape
  <2>3. QED
    BY <2>1, <2>2 DEF Written, Target
<1>3. QED
  BY <1>1, <1>2

(* An answer changes the phase of a request that was sent, and no more.    *)
LEMMA AnswerType ==
  ASSUME ApplicationsTypeOK, NEW r, NEW phase \in {"ok", "refused"},
         Answer(r, phase) \/ UNCHANGED call
  PROVE  /\ call' \in [PageRequests -> [phase : {"none", "sent", "ok", "refused"}, op : Decisions,
                                        c : Profiles \cup {NoCreator}]]
         /\ \A s \in PageRequests :
              call'[s].c = call[s].c /\ (call[s].phase # "none" => call'[s].phase # "none")
<1>1. CASE UNCHANGED call
  BY <1>1 DEF ApplicationsTypeOK
<1>2. CASE r \in PageRequests /\ call' = [call EXCEPT ![r].phase = phase]
  BY <1>2 DEF ApplicationsTypeOK
<1>3. QED
  BY <1>1, <1>2 DEF Answer

LEMMA PageStepKeeps ==
  ASSUME ApplicationsInductive, PageStep
  PROVE  ApplicationsTypeOK' /\ ButtonsComeBack' /\ ListedExist'
<1> USE DEF ApplicationsInductive, ApplicationsInv
<1>0. NoCall \in [phase : {"none", "sent", "ok", "refused"}, op : Decisions,
                  c : Profiles \cup {NoCreator}]
  BY DEF NoCall, Decisions
<1>1. CASE LoadList
  <2>1. listed' \in [Profiles -> Contents \cup {NoContent}]
    BY <1>1 DEF LoadList, ProfileTypeOK, Row
  <2>2. ApplicationsTypeOK' /\ ButtonsComeBack'
    BY <1>1, <2>1 DEF LoadList, ApplicationsTypeOK, ButtonsComeBack
  <2>3. ListedExist'
    BY <1>1 DEF LoadList, ListedExist, profileVars
  <2>4. QED
    BY <2>2, <2>3
<1>2. CASE Leave
  BY <1>0, <1>2 DEF Leave, ApplicationsTypeOK, ButtonsComeBack, ListedExist
<1>3. ASSUME NEW r \in PageRequests, NEW c \in Profiles, NEW op \in Decisions, Decide(r, c, op)
      PROVE  ApplicationsTypeOK' /\ ButtonsComeBack' /\ ListedExist'
  <2>1. ApplicationsTypeOK'
    BY <1>3 DEF Decide, ApplicationsTypeOK
  <2>2. ButtonsComeBack'
    BY <1>3 DEF Decide, ApplicationsTypeOK, ButtonsComeBack
  <2>3. ListedExist'
    BY <1>3 DEF Decide, Begin, ListedExist
  <2>4. QED
    BY <2>1, <2>2, <2>3
<1>4. ASSUME NEW r \in PageRequests, Succeeds(r) \/ Fails(r)
      PROVE  ApplicationsTypeOK' /\ ButtonsComeBack' /\ ListedExist'
  <2>1. ApplicationsTypeOK' /\ ButtonsComeBack'
    BY <1>0, <1>4 DEF Succeeds, Fails, ApplicationsTypeOK, ButtonsComeBack
  <2>2. profile' = profile /\ \A c \in Profiles : listed'[c] # NoContent => listed'[c] = listed[c]
    BY <1>4 DEF Succeeds, Fails, profileVars, ApplicationsTypeOK
  <2>3. ListedExist'
    BY <2>2 DEF ListedExist
  <2>4. QED
    BY <2>1, <2>3
<1>5. QED
  BY <1>1, <1>2, <1>3, <1>4 DEF PageStep

LEMMA ApplicationsStep ==
  ASSUME ApplicationsInductive, [ApplicationsNext]_applicationsAllVars
  PROVE  ApplicationsInductive'
<1>1. ReviewInv'
  BY ApplicationsStepIsReview, NextReview DEF ApplicationsInductive
<1>2. CASE PageStep
  BY <1>1, <1>2, PageStepKeeps DEF ApplicationsInductive, ApplicationsInv, ReviewInv
<1>3. CASE ~PageStep
  <2>1. /\ UNCHANGED <<loaded, listed, processing>>
        /\ UNCHANGED call \/ \E r \in AdminRequests, phase \in {"ok", "refused"} : Answer(r, phase)
    BY <1>3 DEF ApplicationsNext, applicationsAllVars, applicationsVars, Elsewhere, HandlerLoads,
       HandlerWrites, HandlerFails
  <2>2. ApplicationsTypeOK' /\ ButtonsComeBack'
    BY <2>1, AnswerType DEF ApplicationsInductive, ApplicationsInv, ApplicationsTypeOK, ButtonsComeBack
  <2>3. ListedExist'
    BY <2>1, ApplicationsStepIsReview, RowsStay DEF ApplicationsInductive, ListedExist
  <2>4. QED
    BY <1>1, <2>2, <2>3 DEF ApplicationsInductive, ApplicationsInv, ReviewInv
<1>4. QED
  BY <1>2, <1>3

LEMMA ApplicationsInvariant == ApplicationsSpec => []ApplicationsInductive
<1>1. ApplicationsInductive /\ [ApplicationsNext]_applicationsAllVars => ApplicationsInductive'
  BY ApplicationsStep
<1>2. QED
  BY <1>1, InitApplications, PTL DEF ApplicationsSpec

(* The buttons of an application are disabled only while a request about it*)
(* is under way, for any number of requests ending in any order: none stay *)
(* disabled.                                                               *)
THEOREM ButtonsAreGivenBack == ApplicationsSpec => []ApplicationsInv
  BY ApplicationsInvariant, PTL DEF ApplicationsInductive

(* The page, with whoever else uses the service, only does what the service*)
(* allows: what is proved of its transactions holds with the page in front.*)
THEOREM PageUsesTheService == ApplicationsSpec => ProfileSpec
<1>1. ApplicationsInit => ProfileInit
  BY DEF ApplicationsInit
<1>2. ApplicationsInductive /\ [ApplicationsNext]_applicationsAllVars => [ProfileNext]_profileVars
  BY ApplicationsStepIsReview
<1>3. QED
  BY <1>1, <1>2, ApplicationsInvariant, PTL DEF ApplicationsSpec, ProfileSpec

(* While the page is open, an application leaves its list only with the    *)
(* answer that it was decided on.                                          *)
THEOREM ListedUntilAnswered == ApplicationsSpec => ListFollowsAnswers
<1>1. ASSUME ApplicationsInductive, [ApplicationsNext]_applicationsAllVars, loaded, loaded',
             NEW c \in Profiles, listed'[c] # listed[c]
      PROVE  listed'[c] = NoContent /\ \E r \in PageRequests : Answered(r) /\ call[r].c = c
  <2>1. PICK r \in PageRequests : Succeeds(r)
    BY <1>1
    DEF ApplicationsNext, PageStep, LoadList, Leave, Decide, Fails, Elsewhere, HandlerLoads,
        HandlerWrites, HandlerFails, applicationsVars, applicationsAllVars
  <2>2. call[r].c = c /\ listed'[c] = NoContent
    BY <1>1, <2>1 DEF Succeeds, ApplicationsInductive, ApplicationsInv, ApplicationsTypeOK
  <2>3. Answered(r)
    <3>1. call'[r] = NoCall
      BY <1>1, <2>1 DEF Succeeds, ApplicationsInductive, ApplicationsInv, ApplicationsTypeOK
    <3>2. QED
      BY <2>1, <3>1 DEF Answered, Succeeds, NoCall
  <2>4. QED
    BY <2>2, <2>3
<1>2. ApplicationsInductive /\ [ApplicationsNext]_applicationsAllVars =>
        [loaded /\ loaded' =>
           \A c \in Profiles : listed'[c] # listed[c] =>
             listed'[c] = NoContent /\ \E r \in PageRequests : Answered(r) /\ call[r].c = c]_applicationsAllVars
  BY <1>1
<1>3. QED
  BY <1>2, ApplicationsInvariant, PTL DEF ApplicationsSpec, ListFollowsAnswers
-----------------------------------------------------------------------------
(* The component's state is a record of these fields, which DisputesTypeOK *)
(* says of each field only.                                                *)
PageState ==
  [loaded : BOOLEAN, filter : {"all", "pending", "resolved"}, active : Disputes \cup {None},
   choice : Verdicts, notes : Notes,
   feedback : [type : {"none", "success", "error"}, of : Disputes \cup {None}, choice : Verdicts]]

(* A form is open on a loaded page, and its notes were typed in it.        *)
FormShape ==
  page.active # None => page.loaded /\ page.notes \in {page.active, "short"}

(* A submission is about a dispute, with notes typed for it; once handled, *)
(* the dispute has the verdict that was sent.                              *)
SubmissionShape ==
  /\ request.phase # "idle" => request.of \in Disputes /\ request.notes = request.of
  /\ request.phase = "done" => record[request.of].status = request.choice

DisputesInductive ==
  /\ page \in PageState
  /\ DisputesInv
  /\ FormShape /\ SubmissionShape
  /\ page.feedback.type = "success" => page.feedback.of \in Disputes

LEMMA InitDisputes == DisputesInit => DisputesInductive
<1> SUFFICES ASSUME DisputesInit PROVE DisputesInductive
  OBVIOUS
<1>1. page \in PageState /\ FormShape /\ page.feedback.type # "success"
  BY DEF DisputesInit, DisputesMounted, NoFeedback, PageState, FormShape, Verdicts, Notes
<1>2. DisputesTypeOK /\ SubmissionShape
  BY DEF DisputesInit, DisputesMounted, NoFeedback, NoRequest, OpenRow, DisputeRow, DisputesTypeOK,
         SubmissionShape, Verdicts, Notes
<1>3. /\ NotesAreOfTheirDispute /\ FeedbackTellsTheVerdict
      /\ FormsAreOfOpenDisputes /\ ShownVerdictsStand
  BY <1>1 DEF DisputesInit, DisputesMounted, OpenRow, NotesAreOfTheirDispute, FeedbackTellsTheVerdict,
         FormsAreOfOpenDisputes, ShownVerdictsStand
<1>4. QED
  BY <1>1, <1>2, <1>3 DEF DisputesInductive, DisputesInv

(* The steps that change the page only.                                    *)
LEMMA PageChanges ==
  ASSUME DisputesInductive, UNCHANGED <<record, shown, request>>, page' \in PageState,
         FormShape', FormsAreOfOpenDisputes',
         page'.feedback.type # "success" \/ page'.feedback = page.feedback
  PROVE  DisputesInductive'
<1>1. DisputesTypeOK'
  BY DEF DisputesInductive, DisputesInv, DisputesTypeOK, PageState
<1>2. NotesAreOfTheirDispute' /\ FeedbackTellsTheVerdict' /\ ShownVerdictsStand' /\ SubmissionShape'
  BY DEF DisputesInductive, DisputesInv, NotesAreOfTheirDispute, FeedbackTellsTheVerdict,
         ShownVerdictsStand, SubmissionShape
<1>3. QED
  BY <1>1, <1>2 DEF DisputesInductive, DisputesInv

LEMMA FormSteps ==
  ASSUME DisputesInductive,
         \/ Edit \/ CloseForm
         \/ \E f \in {"all", "pending", "resolved"} : ChooseFilter(f)
         \/ \E d \in Disputes : OpenForm(d)
  PROVE  DisputesInductive'
<1> USE DEF DisputesInductive, DisputesInv
<1>1. CASE Edit
  <2>1. page' \in PageState /\ page'.feedback = page.feedback /\ FormShape'
    BY <1>1 DEF Edit, PageState, FormShape, Notes, IsShown
  <2>2. FormsAreOfOpenDisputes'
    BY <1>1 DEF Edit, PageState, FormsAreOfOpenDisputes, IsPending
  <2>3. QED
    BY <1>1, <2>1, <2>2, PageChanges DEF Edit
<1>2. CASE CloseForm
  <2>1. /\ page' \in PageState /\ page'.feedback = page.feedback
        /\ FormShape' /\ FormsAreOfOpenDisputes'
    BY <1>2 DEF CloseForm, PageState, FormShape, FormsAreOfOpenDisputes
  <2>2. QED
    BY <1>2, <2>1, PageChanges DEF CloseForm
<1>3. ASSUME NEW f \in {"all", "pending", "resolved"}, ChooseFilter(f)
      PROVE  DisputesInductive'
  <2>1. /\ page' \in PageState /\ page'.feedback = page.feedback
        /\ FormShape' /\ FormsAreOfOpenDisputes'
    BY <1>3 DEF ChooseFilter, PageState, FormShape, FormsAreOfOpenDisputes, IsPending
  <2>2. QED
    BY <1>3, <2>1, PageChanges DEF ChooseFilter
<1>4. ASSUME NEW d \in Disputes, OpenForm(d)
      PROVE  DisputesInductive'
  <2>1. page' \in PageState /\ page'.feedback = page.feedback /\ FormShape'
    BY <1>4 DEF OpenForm, IsShown, PageState, FormShape, Notes
  <2>2. FormsAreOfOpenDisputes'
    BY <1>4 DEF OpenForm, PageState, FormsAreOfOpenDisputes, IsPending
  <2>3. QED
    BY <1>4, <2>1, <2>2, PageChanges DEF OpenForm
<1>5. QED
  BY <1>1, <1>2, <1>3, <1>4

LEMMA ConfirmStep == DisputesInductive /\ Confirm => DisputesInductive'
<1> SUFFICES ASSUME DisputesInductive, Confirm PROVE DisputesInductive'
  OBVIOUS
<1> USE DEF DisputesInductive, DisputesInv, Confirm
<1>1. page' \in PageState /\ FormShape' /\ page'.feedback.type # "success"
  BY DEF PageState, FormShape, NoFeedback, Verdicts
<1>2. page'.active \in Disputes \cup {None} /\ page.active \in Disputes /\ page.choice \in Verdicts
      /\ page.notes = page.active
  BY DEF PageState, FormShape
<1>3. DisputesTypeOK'
  BY <1>1, <1>2 DEF DisputesTypeOK, PageState, Notes
<1>4. SubmissionShape' /\ NotesAreOfTheirDispute' /\ FeedbackTellsTheVerdict'
  BY <1>1, <1>2 DEF SubmissionShape, NotesAreOfTheirDispute, FeedbackTellsTheVerdict
<1>5. FormsAreOfOpenDisputes' /\ ShownVerdictsStand'
  BY DEF PageState, FormsAreOfOpenDisputes, ShownVerdictsStand, IsPending
<1>6. QED
  BY <1>1, <1>3, <1>4, <1>5

LEMMA MountSteps == DisputesInductive /\ (LoadDisputes \/ Remount) => DisputesInductive'
<1> SUFFICES ASSUME DisputesInductive, LoadDisputes \/ Remount PROVE DisputesInductive'
  OBVIOUS
<1> USE DEF DisputesInductive, DisputesInv
<1>1. CASE LoadDisputes
  <2>1. page' \in PageState /\ FormShape' /\ page'.feedback = page.feedback /\ page'.active = None
    BY <1>1 DEF LoadDisputes, PageState, FormShape
  <2>2. DisputesTypeOK' /\ SubmissionShape'
    BY <1>1, <2>1 DEF LoadDisputes, DisputesTypeOK, PageState, SubmissionShape
  <2>3. /\ NotesAreOfTheirDispute' /\ FeedbackTellsTheVerdict'
        /\ FormsAreOfOpenDisputes' /\ ShownVerdictsStand'
    BY <1>1, <2>1 DEF LoadDisputes, NotesAreOfTheirDispute, FeedbackTellsTheVerdict,
       FormsAreOfOpenDisputes, ShownVerdictsStand
  <2>4. QED
    BY <2>1, <2>2, <2>3
<1>2. CASE Remount
  <2>1. /\ page' \in PageState /\ FormShape' /\ page'.feedback.type # "success"
        /\ page'.active = None
    BY <1>2 DEF Remount, DisputesMounted, NoFeedback, PageState, FormShape, Verdicts, Notes
  <2>2. DisputesTypeOK' /\ SubmissionShape'
    BY <1>2, <2>1 DEF Remount, NoRequest, DisputesTypeOK, PageState, SubmissionShape, Verdicts, Notes
  <2>3. /\ NotesAreOfTheirDispute' /\ FeedbackTellsTheVerdict'
        /\ FormsAreOfOpenDisputes' /\ ShownVerdictsStand'
    BY <1>2, <2>1 DEF Remount, NotesAreOfTheirDispute, FeedbackTellsTheVerdict,
       FormsAreOfOpenDisputes, ShownVerdictsStand
  <2>4. QED
    BY <2>1, <2>2, <2>3
<1>3. QED
  BY <1>1, <1>2

(* A verdict is given to an open dispute, so that every verdict already    *)
(* shown, answered or announced stays.                                     *)
LEMMA ResolveStep ==
  ASSUME DisputesInductive, NEW d \in Disputes, NEW verdict \in Verdicts, NEW notes \in {d, "theirs"},
         Resolve(d, verdict, notes), UNCHANGED <<page, shown>>,
         \/ UNCHANGED request
         \/ request' = [request EXCEPT !.phase = "done"] /\ request.phase = "sent"
            /\ request.of = d /\ request.choice = verdict
  PROVE  DisputesInductive'
<1> USE DEF DisputesInductive, DisputesInv, Resolve
<1>1. /\ record' \in [Disputes -> DisputeRow] /\ record'[d] = [status |-> verdict, notes |-> notes]
      /\ \A e \in Disputes : record[e].status # "open" => record'[e] = record[e]
  BY DEF DisputesTypeOK, DisputeRow, Notes
<1>2. DisputesTypeOK'
  BY <1>1 DEF DisputesTypeOK
<1>3. NotesAreOfTheirDispute'
  BY DEF DisputesTypeOK, NotesAreOfTheirDispute
<1>4. FeedbackTellsTheVerdict' /\ ShownVerdictsStand' /\ FormsAreOfOpenDisputes'
  BY <1>1 DEF FeedbackTellsTheVerdict, ShownVerdictsStand, FormsAreOfOpenDisputes, IsPending,
              PageState, Verdicts
<1>5. SubmissionShape'
  BY <1>1 DEF SubmissionShape, DisputesTypeOK, Verdicts
<1>6. QED
  BY <1>2, <1>3, <1>4, <1>5 DEF FormShape

LEMMA AnswerSteps == DisputesInductive /\ (Succeed \/ Fail) => DisputesInductive'
<1> SUFFICES ASSUME DisputesInductive, Succeed \/ Fail PROVE DisputesInductive'
  OBVIOUS
<1> USE DEF DisputesInductive, DisputesInv
<1>1. SubmissionShape' /\ request' = NoRequest
  BY DEF Succeed, Fail, NoRequest, SubmissionShape
<1>2. CASE Succeed
  <2>1. /\ request.of \in Disputes /\ request.choice \in Verdicts
        /\ record[request.of].status = request.choice
    BY <1>2 DEF Succeed, SubmissionShape, DisputesTypeOK
  <2>2. page' \in PageState /\ page'.active = None
        /\ page'.feedback = [type |-> "success", of |-> request.of, choice |-> request.choice]
    BY <1>2, <2>1 DEF Succeed, Feedback, PageState, Notes
  <2>3. DisputesTypeOK'
    BY <1>1, <1>2, <2>1, <2>2 DEF Succeed, DisputesTypeOK, NoRequest, PageState, Verdicts, Notes
  <2>4. /\ NotesAreOfTheirDispute' /\ FeedbackTellsTheVerdict'
        /\ FormsAreOfOpenDisputes' /\ ShownVerdictsStand'
    BY <1>2, <2>1, <2>2 DEF Succeed, NotesAreOfTheirDispute, FeedbackTellsTheVerdict,
       FormsAreOfOpenDisputes, ShownVerdictsStand, DisputesTypeOK
  <2>5. QED
    BY <1>1, <2>1, <2>2, <2>3, <2>4 DEF FormShape
<1>3. CASE Fail
  <2>1. page' \in PageState /\ page'.feedback.type = "error"
        /\ page' = [page EXCEPT !.feedback = page'.feedback]
    BY <1>3 DEF Fail, Feedback, PageState, DisputesTypeOK
  <2>2. DisputesTypeOK'
    BY <1>1, <1>3, <2>1 DEF Fail, DisputesTypeOK, NoRequest, PageState, Verdicts, Notes
  <2>3. /\ NotesAreOfTheirDispute' /\ FeedbackTellsTheVerdict'
        /\ FormsAreOfOpenDisputes' /\ ShownVerdictsStand'
    BY <1>3, <2>1 DEF Fail, NotesAreOfTheirDispute, FeedbackTellsTheVerdict,
       FormsAreOfOpenDisputes, ShownVerdictsStand, IsPending, PageState
  <2>4. FormShape'
    BY <1>3, <2>1 DEF FormShape, PageState
  <2>5. QED
    BY <1>1, <2>1, <2>2, <2>3, <2>4
<1>4. QED
  BY <1>2, <1>3

LEMMA DisputesStep == DisputesInductive /\ [DisputesNext]_disputesVars => DisputesInductive'
<1> SUFFICES ASSUME DisputesInductive, [DisputesNext]_disputesVars PROVE DisputesInductive'
  OBVIOUS
<1>1. CASE UNCHANGED disputesVars
  BY <1>1 DEF disputesVars, DisputesInductive, DisputesInv, DisputesTypeOK, NotesAreOfTheirDispute,
     FeedbackTellsTheVerdict, FormsAreOfOpenDisputes, ShownVerdictsStand, IsPending, FormShape,
     SubmissionShape
<1>2. CASE Handle
  <2>1. /\ request.of \in Disputes /\ request.choice \in Verdicts
        /\ request.notes \in {request.of, "theirs"}
    BY <1>2 DEF Handle, DisputesInductive, DisputesInv, DisputesTypeOK, SubmissionShape
  <2>2. QED
    BY <1>2, <2>1, ResolveStep DEF Handle
<1>3. CASE DecidedElsewhere
  BY <1>3, ResolveStep DEF DecidedElsewhere
<1>4. QED
  BY <1>1, <1>2, <1>3, FormSteps, ConfirmStep, MountSteps, AnswerSteps DEF DisputesNext

(* Whatever order forms are opened and answers arrive in, and whoever else *)
(* decides: the page decides a dispute with notes typed for it, names the  *)
(* verdict that was given, and lists no verdict that was not.              *)
THEOREM DisputesAreDecidedAsShown == DisputesSpec => []DisputesInv
<1>1. DisputesInductive => DisputesInv
  BY DEF DisputesInductive
<1>2. QED
  BY <1>1, InitDisputes, DisputesStep, PTL DEF DisputesSpec
-----------------------------------------------------------------------------
(* What a query or an answer says of an account: nobody, or a user with a  *)
(* name that was given.                                                    *)
Accounts == {NullView} \cup [user : Users, name : Names]

(* The form of /profil, while nothing is typed into it, holds the name that*)
(* the cache has, failed or not; what is sent to be saved is a name.       *)
AccountInv ==
  /\ AccountTypeOK
  /\ \A q \in Queries : /\ query[q].view \in Accounts \cup {NoView}
                        /\ fetching[q].phase = "read" => fetching[q].view \in Accounts
  /\ save.phase \in {"sent", "done"} => save.name \in Names
  /\ save.phase = "done" => save.answer \in Accounts
  /\ auth.phase = "done" => auth.answer \in Accounts
  /\ auth.phase = "sent" /\ auth.kind = "login" => auth.answer.user \in Users
  /\ field.typed => field.name \in Names
  /\ ~field.typed => field = FieldOf(Me)

LEMMA AccountsAreViews == Accounts \subseteq Views /\ NullView \in Accounts
  BY DEF Accounts, Views, NullView

LEMMA AccountIsOne == AccountInv => Account \in Accounts
  BY AccountAssumption DEF AccountInv, AccountTypeOK, Account, AccountOf, Accounts

LEMMA FieldTypes ==
  ASSUME NEW me \in Accounts \cup {NoView}
  PROVE  /\ FieldOf(me) \in [name : Names \cup {NoName}, typed : BOOLEAN]
         /\ ~FieldOf(me).typed
         /\ me \notin {NoView, NullView} => FieldOf(me).name = me.name /\ me.name \in Names
  BY DEF FieldOf, Accounts

(* A query that gets data sends to /masuk whoever is nobody, and resets the*)
(* form.                                                                   *)
LEMMA MeBecomesKeeps ==
  ASSUME AccountInv, NEW me \in Accounts, NEW r \in Routes, MeBecomes(me, r)
  PROVE  /\ query' \in [Queries -> [view : Views \cup {NoView}, failed : BOOLEAN,
                                    fresh : BOOLEAN]]
         /\ \A q \in Queries : query'[q].view \in Accounts \cup {NoView}
         /\ Me' = me /\ route' \in Routes /\ (route' # "masuk" => me # NullView)
         /\ field' \in [name : Names \cup {NoName}, typed : BOOLEAN]
         /\ field'.typed => field'.name \in Names
         /\ ~field'.typed => field' = FieldOf(me)
<1>1. /\ query \in [Queries -> [view : Views \cup {NoView}, failed : BOOLEAN, fresh : BOOLEAN]]
      /\ query' = [query EXCEPT !["me"] = Resolved(me)] /\ "me" \in Queries
      /\ Resolved(me) \in [view : Views \cup {NoView}, failed : BOOLEAN, fresh : BOOLEAN]
      /\ Resolved(me).view = me
  BY AccountsAreViews DEF AccountInv, AccountTypeOK, MeBecomes, Resolved, Queries
<1>2. Me' = me
  BY <1>1 DEF Me
<1>3. \A q \in Queries : query'[q].view \in Accounts \cup {NoView}
  BY <1>1 DEF AccountInv
<1>4. route' \in Routes /\ (route' # "masuk" => me # NullView)
  BY DEF MeBecomes, Guarded, Routes
<1>5. \/ field' = FieldOf(me)
      \/ field' = field /\ me = Me
  BY DEF MeBecomes
<1>6. QED
  BY <1>1, <1>2, <1>3, <1>4, <1>5, FieldTypes DEF AccountInv, AccountTypeOK

(* What follows from the rest of the invariant.                            *)
LEMMA FormShowsName ==
  ASSUME ~field.typed => field = FieldOf(Me), Me \in Accounts \cup {NoView}
  PROVE  ProfileShown /\ ~field.typed => field.name = Me.name
  BY FieldTypes DEF ProfileShown

(* Requests and answers, one action at a time.                             *)
LEMMA AccountSteps ==
  ASSUME AccountInv, [AccountNext]_accountVars
  PROVE  AccountInv'
<1> DEFINE Fetching == [phase : {"idle", "asked", "read"}, view : Views \cup {NoView}]
           QueryType == [view : Views \cup {NoView}, failed : BOOLEAN, fresh : BOOLEAN]
<1>1. ASSUME NEW r \in Routes PROVE
        /\ Mounted(r) \in [Queries -> Fetching]
        /\ \A q \in Queries : Mounted(r)[q] = fetching[q] \/ Mounted(r)[q] = Asked
  BY DEF Mounted, Asked, AccountInv, AccountTypeOK
<1>2. Me \in Accounts \cup {NoView} /\ Account \in Accounts
  BY AccountIsOne DEF AccountInv, Queries, Me
<1>3. ASSUME NEW r \in Routes, Visit(r) PROVE AccountInv'
  <2>1. route' \in Routes /\ (route' # "masuk" => Me # NullView) /\ Me' = Me
    BY <1>3 DEF Visit, Guarded, Routes, Me
  <2>2. /\ fetching' \in [Queries -> Fetching]
        /\ \A q \in Queries : fetching'[q].phase = "read" => fetching'[q].view \in Accounts
    BY <1>1, <1>3 DEF Visit, Asked, AccountInv
  <2>3. /\ field' \in [name : Names \cup {NoName}, typed : BOOLEAN]
        /\ ~field'.typed /\ field' = FieldOf(Me')
    BY <1>2, <1>3, <2>1, FieldTypes DEF Visit
  <2>4. /\ save' \in [phase : {"idle", "sent", "done", "saved"}, name : Names \cup {NoName},
                      answer : Views]
        /\ save'.phase \in {"sent", "done"} => save' = save
    BY <1>3, AccountsAreViews DEF Visit, NoSave, AccountInv, AccountTypeOK
  <2>5. (ProfileShown /\ ~field.typed => field.name = Me.name)'
    BY <1>2, <2>1, <2>3, FieldTypes DEF ProfileShown
  <2>6. QED
    BY <1>3, <2>1, <2>2, <2>3, <2>4, <2>5 DEF Visit, AccountInv, AccountTypeOK, accountServerVars
<1>4. ASSUME Focus PROVE AccountInv'
  <2>1. route \in Routes
    BY DEF AccountInv, AccountTypeOK
  <2>2. /\ fetching' \in [Queries -> Fetching]
        /\ \A q \in Queries : fetching'[q].phase = "read" => fetching'[q].view \in Accounts
    BY <1>1, <1>4, <2>1 DEF Focus, Asked, AccountInv
  <2>3. QED
    BY <1>4, <2>2 DEF Focus, AccountInv, AccountTypeOK, accountServerVars, Me, ProfileShown
<1>5. ASSUME NEW q \in Queries, GoesStale(q) PROVE AccountInv'
  <2>1. /\ query' \in [Queries -> QueryType]
        /\ \A p \in Queries : query'[p].view = query[p].view
    BY <1>5 DEF GoesStale, AccountInv, AccountTypeOK
  <2>2. QED
    BY <1>2, <1>5, <2>1, FieldTypes
    DEF GoesStale, AccountInv, AccountTypeOK, accountServerVars, Me, ProfileShown, Queries
<1>6. ASSUME NEW q \in Queries, FetchReads(q) PROVE AccountInv'
  <2>1. Account \in Views
    BY <1>2, AccountsAreViews
  <2>2. QED
    BY <1>2, <1>6, <2>1
    DEF FetchReads, AccountInv, AccountTypeOK, accountServerVars, Me, ProfileShown
<1>7. ASSUME NEW q \in Queries, FetchResolves(q) PROVE AccountInv'
  <2>1. /\ fetching' \in [Queries -> Fetching]
        /\ \A p \in Queries : fetching'[p].phase = "read" => fetching'[p].view \in Accounts
        /\ fetching[q].view \in Accounts
    BY <1>7 DEF FetchResolves, NoFetch, AccountInv, AccountTypeOK
  <2>2. CASE q = "me"
    <3>1. MeBecomes(fetching["me"].view, route) /\ route \in Routes
      BY <1>7, <2>2 DEF FetchResolves, AccountInv, AccountTypeOK
    <3>2. QED
      BY <1>7, <2>1, <2>2, <3>1, MeBecomesKeeps, FieldTypes
      DEF FetchResolves, AccountInv, AccountTypeOK, accountServerVars, ProfileShown
  <2>3. CASE q # "me"
    <3>1. /\ q \in Queries \ {"me"} /\ fetching[q].view \in Views
          /\ query' = [query EXCEPT ![q] = Resolved(fetching[q].view)]
      BY <1>7, <2>1, <2>3, AccountsAreViews DEF FetchResolves
    <3>2. /\ query' \in [Queries -> QueryType] /\ query'["me"] = query["me"]
          /\ \A p \in Queries : query'[p].view \in Accounts \cup {NoView}
      BY <2>1, <3>1 DEF Resolved, AccountInv, AccountTypeOK, Queries
    <3>3. QED
      BY <1>7, <2>1, <2>3, <3>2
      DEF FetchResolves, AccountInv, AccountTypeOK, accountServerVars, Me, ProfileShown
  <2>4. QED
    BY <2>2, <2>3
<1>8. ASSUME NEW q \in Queries, FetchFails(q) PROVE AccountInv'
  <2>1. /\ query' \in [Queries -> QueryType]
        /\ \A p \in Queries : query'[p].view = query[p].view
    <3>1. query \in [Queries -> QueryType]
      BY DEF AccountInv, AccountTypeOK
    <3>2. query' = [query EXCEPT ![q] = [@ EXCEPT !.failed = TRUE, !.fresh = FALSE]]
      BY <1>8, <3>1 DEF FetchFails
    <3>3. QED
      BY <3>1, <3>2
  <2>2. /\ fetching' \in [Queries -> Fetching]
        /\ \A p \in Queries : fetching'[p].phase = "read" => fetching'[p].view \in Accounts
    BY <1>8 DEF FetchFails, NoFetch, AccountInv, AccountTypeOK
  <2>3. QED
    BY <1>2, <1>8, <2>1, <2>2, FieldTypes
    DEF FetchFails, AccountInv, AccountTypeOK, accountServerVars, Me, ProfileShown, Queries
<1>9. ASSUME NEW name \in Names, Type(name) PROVE AccountInv'
  BY <1>9 DEF Type, AccountInv, AccountTypeOK, accountServerVars, Me, ProfileShown
<1>10. ASSUME Save PROVE AccountInv'
  <2>1. field.name \in Names
    BY <1>2, <1>10, FieldTypes DEF Save, ProfileShown, AccountInv
  <2>2. NoSave \in [phase : {"idle", "sent", "done", "saved"}, name : Names \cup {NoName},
                   answer : Views]
    BY AccountsAreViews DEF NoSave
  <2>3. QED
    BY <1>10, <2>1, <2>2
    DEF Save, AccountInv, AccountTypeOK, accountServerVars, pageVars, Me, ProfileShown
<1>11. ASSUME SaveHandled PROVE AccountInv'
  <2>1. /\ session \in Users /\ save.name \in Names
        /\ [user |-> session, name |-> save.name] \in Accounts
    BY <1>11 DEF SaveHandled, AccountInv, AccountTypeOK, Accounts
  <2>2. QED
    BY <1>11, <2>1, AccountsAreViews
    DEF SaveHandled, AccountInv, AccountTypeOK, pageVars, Me, ProfileShown
<1>12. ASSUME SaveSucceeds PROVE AccountInv'
  <2>1. MeBecomes(save.answer, route) /\ route \in Routes /\ save.answer \in Accounts
    BY <1>12 DEF SaveSucceeds, AccountInv, AccountTypeOK
  <2>2. /\ save' \in [phase : {"idle", "sent", "done", "saved"}, name : Names \cup {NoName},
                      answer : Views]
        /\ save'.phase \notin {"sent", "done"}
    BY <1>12, AccountsAreViews DEF SaveSucceeds, NoSave, AccountInv, AccountTypeOK
  <2>3. QED
    BY <1>12, <2>1, <2>2, MeBecomesKeeps, FieldTypes
    DEF SaveSucceeds, AccountInv, AccountTypeOK, accountServerVars, ProfileShown
<1>13. ASSUME SaveFails PROVE AccountInv'
  BY <1>13, AccountsAreViews
  DEF SaveFails, NoSave, AccountInv, AccountTypeOK, accountServerVars, pageVars, Me, ProfileShown
<1>14. ASSUME NEW u \in Users, Login(u) PROVE AccountInv'
  BY <1>14
  DEF Login, Views, AccountInv, AccountTypeOK, accountServerVars, pageVars, Me, ProfileShown
<1>15. ASSUME Logout PROVE AccountInv'
  BY <1>15, AccountsAreViews
  DEF Logout, NoAuth, AccountInv, AccountTypeOK, accountServerVars, pageVars, Me, ProfileShown
<1>16. ASSUME AuthHandled PROVE AccountInv'
  <2>1. session' \in Users \cup {Nobody}
    BY <1>16 DEF AuthHandled, AccountInv, AccountTypeOK
  <2>2. AccountOf(session') \in Accounts
    BY <1>16, <2>1 DEF AuthHandled, AccountOf, Accounts, AccountInv, AccountTypeOK
  <2>3. QED
    BY <1>16, <2>1, <2>2, AccountsAreViews
    DEF AuthHandled, AccountInv, AccountTypeOK, pageVars, Me, ProfileShown
<1>17. ASSUME AuthSucceeds PROVE AccountInv'
  <2>1. PICK r \in Routes : MeBecomes(auth.answer, r)
    BY <1>17 DEF AuthSucceeds, AccountInv, AccountTypeOK, Routes
  <2>2. auth.answer \in Accounts
    BY <1>17 DEF AuthSucceeds, AccountInv
  <2>3. /\ save' \in [phase : {"idle", "sent", "done", "saved"}, name : Names \cup {NoName},
                      answer : Views]
        /\ save'.phase \in {"sent", "done"} => save' = save
    BY <1>17, AccountsAreViews DEF AuthSucceeds, NoSave, AccountInv, AccountTypeOK
  <2>4. auth' = NoAuth /\ NoAuth \in [phase : {"idle", "sent", "done"}, kind : {"login", "logout"},
                                     answer : Views]
    BY <1>17, AccountsAreViews DEF AuthSucceeds, NoAuth
  <2>5. NoAuth.phase = "idle" /\ UNCHANGED <<session, fullName, fetching>>
    BY <1>17 DEF AuthSucceeds, accountServerVars, NoAuth
  <2>6. QED
    BY <2>1, <2>2, <2>3, <2>4, <2>5, MeBecomesKeeps, FieldTypes
    DEF AccountInv, AccountTypeOK, ProfileShown
<1>18. ASSUME AuthFails PROVE AccountInv'
  BY <1>18, AccountsAreViews
  DEF AuthFails, NoAuth, AccountInv, AccountTypeOK, accountServerVars, pageVars, Me, ProfileShown
<1>19. ASSUME UNCHANGED accountVars PROVE AccountInv'
  BY <1>19 DEF accountVars, AccountInv, AccountTypeOK, accountServerVars, pageVars, Me, ProfileShown
<1>20. QED
  BY <1>3, <1>4, <1>5, <1>6, <1>7, <1>8, <1>9, <1>10, <1>11, <1>12, <1>13, <1>14, <1>15, <1>16,
     <1>17, <1>18, <1>19 DEF AccountNext, Fetches

(* Whatever answers cross, fail or come late: nobody is kept on /profil or *)
(* /booking whom the cache does not know, and the form of /profil shows the*)
(* name in the cache until something is typed.                             *)
THEOREM PagesFollowTheCache == AccountSpec => []AccountTypeOK
<1>1. AccountInit => AccountInv
  <2> SUFFICES ASSUME AccountInit PROVE AccountInv
    OBVIOUS
  <2>1. /\ NoSave.phase = "idle" /\ NoAuth.phase = "idle" /\ NullView \in Views
        /\ Me = NoView
    BY AccountsAreViews DEF AccountInit, NoSave, NoAuth, Me, Queries
  <2>2. QED
    BY <2>1 DEF AccountInit, AccountInv, AccountTypeOK, NoSave, NoAuth, NoFetch, Queries, Routes,
       FieldOf, ProfileShown
<1>2. AccountInv /\ [AccountNext]_accountVars => AccountInv'
  BY AccountSteps
<1>3. AccountInv => AccountTypeOK
  BY DEF AccountInv
<1>4. QED
  BY <1>1, <1>2, <1>3, PTL DEF AccountSpec
=============================================================================
