---------------------------- MODULE CreatorReview ----------------------------
(***************************************************************************)
(* The verification of creator profiles (apps/api/app/services/profiles.py)*)
(* as concurrent PostgreSQL transactions.  A creator drafts a profile and  *)
(* submits it; an admin approves or rejects the submission; an approved    *)
(* profile is published and can be booked.  Admins lock the profile before *)
(* they read it, the owner does not: upsert_creator_draft and              *)
(* submit_creator_profile decide on a plain SELECT and write later.        *)
(*                                                                         *)
(* SQLAlchemy writes the columns whose value differs from the one loaded,  *)
(* so an owner who loaded a draft and saves a draft does not write status. *)
(***************************************************************************)
EXTENDS Naturals, FiniteSets

CONSTANTS
  Profiles,       \* users who apply as creators
  Columns,        \* the columns the owner fills in: name, city, bio, specialty, price
  Required,       \* those that may not be blank in a submission
  Values,         \* what a column may hold
  OwnerRequests,  \* database sessions of the owners' requests
  AdminRequests,  \* database sessions of the admins' requests
  Blank,          \* a text that strip() leaves empty
  NoCreator, NoContent

Contents == [Columns -> Values]

ASSUME ProfileAssumption ==
  /\ Required \subseteq Columns
  /\ Blank \in Values
  /\ OwnerRequests \cap AdminRequests = {}
  /\ NoContent \notin Contents

Requests == OwnerRequests \cup AdminRequests

VARIABLES
  profile,  \* profile[c]: the committed row of creator c
  tx        \* tx[r]: the transaction of request r

profileVars == <<profile, tx>>

Statuses == {"absent", "draft", "pending", "approved", "rejected"}

(* A profile, without the rating that reviews give it.                     *)
Row == [status : Statuses, content : Contents \cup {NoContent}]

(* What a request read (seen) and what it writes (new).                    *)
Tx == [pc : {"idle", "load", "write"}, op : {"none", "save", "submit", "approve", "reject"},
       c : Profiles \cup {NoCreator}, content : Contents \cup {NoContent}, seen : Row]

NoRow == [status |-> "absent", content |-> NoContent]

Idle == [pc |-> "idle", op |-> "none", c |-> NoCreator, content |-> NoContent, seen |-> NoRow]

ProfileTypeOK ==
  /\ profile \in [Profiles -> Row]
  /\ tx \in [Requests -> Tx]

ProfileInit ==
  /\ profile = [c \in Profiles |-> NoRow]
  /\ tx = [r \in Requests |-> Idle]
-----------------------------------------------------------------------------
(* Variant: a submitted profile may be edited.                             *)
Editable_Pending == {"draft", "pending", "rejected"}

Editable == {"draft", "rejected"}

Complete(content) == \A column \in Required : content[column] # Blank

(* The statuses each operation starts from and the one it writes.          *)
Source(op) ==
  CASE op = "save" -> {"absent"} \cup Editable
    [] op = "submit" -> {"draft"}
    [] OTHER -> {"pending"}

Target ==
  [save |-> "draft", submit |-> "pending", approve |-> "approved", reject |-> "rejected"]

Locked(c) == \E r \in AdminRequests : tx[r].pc = "write" /\ tx[r].c = c

End(r) == tx' = [tx EXCEPT ![r] = Idle]

Begin(r, op, c, content) ==
  /\ tx[r].pc = "idle"
  /\ tx' = [tx EXCEPT ![r] = [pc |-> "load", op |-> op, c |-> c, content |-> content,
                               seen |-> NoRow]]
  /\ UNCHANGED profile

OwnerBegins(r) ==
  \E c \in Profiles :
    \/ \E content \in Contents : Begin(r, "save", c, content)
    \/ Begin(r, "submit", c, NoContent)

AdminBegins(r) ==
  \E c \in Profiles, op \in {"approve", "reject"} :
    /\ profile[c].status # "absent"
    /\ Begin(r, op, c, NoContent)

(* Variant: a draft may be submitted with blank columns.                   *)
Allowed_Incomplete(op, row) == row.status \in Source(op)

Allowed(op, row) ==
  /\ row.status \in Source(op)
  /\ op = "submit" => Complete(row.content)

(* The request reads the row and either goes on or is refused.             *)
Load(r) ==
  LET t   == tx[r]
      row == profile[t.c]
  IN  /\ t.pc = "load"
      /\ tx' = [tx EXCEPT ![r] = IF Allowed(t.op, row)
                                   THEN [t EXCEPT !.pc = "write", !.seen = row]
                                   ELSE Idle]
      /\ UNCHANGED profile

OwnerLoads(r) == Load(r)

(* Variant: the admin reads the profile without a lock.                    *)
AdminLoads_PlainSelect(r) == Load(r)

(* SELECT ... FOR UPDATE.                                                  *)
AdminLoads(r) ==
  /\ ~Locked(tx[r].c)
  /\ Load(r)

(* INSERT of the first draft: one profile for a user, the second request   *)
(* meets the unique constraint and fails.                                  *)
Insert(r) ==
  LET t == tx[r] IN
  /\ t.pc = "write"
  /\ t.seen.status = "absent"
  /\ profile' = IF profile[t.c].status = "absent"
                  THEN [profile EXCEPT ![t.c] = [status |-> "draft", content |-> t.content]]
                  ELSE profile
  /\ End(r)

(* The columns that a save changed, over the row as it is now.             *)
Merge(current, seen, new) ==
  [column \in Columns |-> IF new[column] = seen[column] THEN current[column] ELSE new[column]]

(* UPDATE of the columns that differ from those the request loaded.  It    *)
(* waits for the lock of an admin's transaction.                           *)
Update(r) ==
  LET t == tx[r] IN
  /\ t.pc = "write"
  /\ t.seen.status # "absent"
  /\ profile' = [profile EXCEPT ![t.c] =
       [status  |-> IF t.seen.status = Target[t.op] THEN @.status ELSE Target[t.op],
        content |-> IF t.op = "save" THEN Merge(@.content, t.seen.content, t.content)
                    ELSE @.content]]
  /\ End(r)

OwnerWrites(r) ==
  /\ ~Locked(tx[r].c)
  /\ Insert(r) \/ Update(r)

AdminWrites(r) == Update(r)

(* The connection is lost: PostgreSQL rolls the transaction back.          *)
Abandon(r) ==
  /\ tx[r].pc # "idle"
  /\ End(r)
  /\ UNCHANGED profile

ProfileNext ==
  \/ \E r \in OwnerRequests : OwnerBegins(r) \/ OwnerLoads(r) \/ OwnerWrites(r)
  \/ \E r \in AdminRequests : AdminBegins(r) \/ AdminLoads(r) \/ AdminWrites(r)
  \/ \E r \in Requests : Abandon(r)

ProfileSpec == ProfileInit /\ [][ProfileNext]_profileVars
-----------------------------------------------------------------------------
UnderReviewOrPublished(c) == profile[c].status \in {"pending", "approved"}

(* What upsert_creator_draft and submit_creator_profile promise the admin  *)
(* ("Profil kreator tidak dapat diubah saat menunggu atau sudah            *)
(* terverifikasi."): from its submission on, a profile stays as it was     *)
(* submitted until an admin rejects it.                                    *)
FrozenUntilRejected ==
  [][\A c \in Profiles :
       UnderReviewOrPublished(c) =>
         /\ profile'[c].content = profile[c].content
         /\ profile'[c].status # profile[c].status =>
              profile[c].status = "pending" /\ profile'[c].status \in {"approved", "rejected"}]_profileVars

(* What admins review and clients see is complete: blank drafts are saved  *)
(* but never submitted.                                                    *)
SubmissionsAreComplete ==
  \A c \in Profiles : UnderReviewOrPublished(c) => Complete(profile[c].content)

(* A submission is decided once: whatever two admins do at the same time,  *)
(* a profile is approved or rejected only while it is pending.             *)
DecisionsNeedSubmission ==
  [][\A c \in Profiles :
       /\ profile'[c].status # profile[c].status
       /\ profile'[c].status \in {"approved", "rejected"}
       => profile[c].status = "pending"]_profileVars

(* While an admin's transaction holds the profile it read, the row is still*)
(* the one it read: a decision is never about an outdated row.             *)
DecisionsStayCurrent ==
  \A r \in AdminRequests :
    tx[r].pc = "write" => profile[tx[r].c] = tx[r].seen
=============================================================================
