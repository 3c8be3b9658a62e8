----------------------------- MODULE ReviewList -----------------------------
(***************************************************************************)
(* The reviews on a creator's page (apps/web/src/components/reviews/       *)
(* review-list.tsx), read page by page with a keyset cursor while reviews  *)
(* of the creator are written (ReviewAggregate).  The handler of a page    *)
(* (list_creator_reviews in apps/api/app/services/reviews.py) reads the    *)
(* profile's rating and then the rows, in two statements of a READ         *)
(* COMMITTED transaction.                                                  *)
(*                                                                         *)
(* A row's created_at is the start of its transaction, so rows do not      *)
(* appear in the order of their times; times may be equal, and then the    *)
(* ids decide.                                                             *)
(***************************************************************************)
EXTENDS ReviewAggregate, Sequences, SequencesExt

CONSTANTS
  ThisCreator,  \* the creator of the page
  Limit,        \* reviews in a page
  MaxClock      \* bound of the model on the times at which requests begin

ASSUME ListAssumption ==
  /\ Bookings \subseteq Nat  \* in the order of their reviews' ids
  /\ ThisCreator \in Creators /\ Limit \in Nat \ {0} /\ MaxClock \in Nat

VARIABLES
  clock,    \* the database's now()
  began,    \* began[r]: the start of request r's transaction
  created,  \* created[b]: created_at of b's review
  list,     \* the component's state
  reading,  \* the request for a page
  known     \* the reviews there were when the first page was read

listVars == <<clock, began, created, list, reading, known>>
reviewListVars == <<aggregateVars, listVars>>
-----------------------------------------------------------------------------
NoCursor == [at |-> MaxClock + 1, id |-> 0]
Closed == [phase |-> "closed", items |-> <<>>, rating |-> Zero, more |-> FALSE, cursor |-> NoCursor]
NoListRequest == [phase |-> "idle", first |-> TRUE, rating |-> Zero, items |-> <<>>, more |-> FALSE]

Cursors == [at : 0..MaxClock + 1, id : Bookings \cup {0}]

Key(b) == [at |-> created[b], id |-> b]
Before(k, l) == k.at < l.at \/ (k.at = l.at /\ k.id < l.id)

ListTypeOK ==
  /\ clock \in 0..MaxClock
  /\ began \in [Reviewers -> 0..MaxClock] /\ created \in [Bookings -> 0..MaxClock]
  /\ list.phase \in {"closed", "loading", "shown", "error"}
  /\ list.items \in Seq(Bookings) /\ list.rating \in Aggregate
  /\ list.more \in BOOLEAN /\ list.cursor \in Cursors
  /\ reading.phase \in {"idle", "asked", "profile", "done"} /\ reading.first \in BOOLEAN
  /\ reading.items \in Seq(Bookings) /\ reading.rating \in Aggregate /\ reading.more \in BOOLEAN
  /\ known \subseteq Bookings
  /\ list.phase = "loading" => reading.phase # "idle" /\ reading.first

ListInit ==
  /\ AggregateInit
  /\ clock = 0
  /\ began = [r \in Reviewers |-> 0]
  /\ created = [b \in Bookings |-> 0]
  /\ list = Closed
  /\ reading = NoListRequest
  /\ known = {}
-----------------------------------------------------------------------------
(* The requests that write reviews.                                        *)
BeginAt(r) ==
  /\ BeginReview(r)
  /\ clock' \in {clock, clock + 1} \cap 0..MaxClock
  /\ began' = [began EXCEPT ![r] = clock']
  /\ UNCHANGED <<created, list, reading, known>>

CommitAt(r) ==
  /\ Commit(r)
  /\ created' = [created EXCEPT ![reviewTx[r].b] = began[r]]
  /\ UNCHANGED <<clock, began, list, reading, known>>

StepAt(r) ==
  /\ \/ LockBooking(r) \/ CheckExisting(r) \/ InsertReview(r) \/ Calculate(r)
     \/ LockProfile(r) \/ DeadlockVictim(r) \/ Crash(r)
  /\ UNCHANGED listVars
-----------------------------------------------------------------------------
Open ==
  /\ list.phase = "closed"
  /\ list' = [Closed EXCEPT !.phase = "loading"]
  /\ reading' = [NoListRequest EXCEPT !.phase = "asked"]
  /\ UNCHANGED <<aggregateVars, clock, began, created, known>>

Close ==
  /\ list.phase # "closed"
  /\ list' = Closed
  /\ reading' = NoListRequest
  /\ known' = {}
  /\ UNCHANGED <<aggregateVars, clock, began, created>>

(* "Muat Ulasan Lainnya".                                                  *)
LoadMore ==
  /\ list.phase = "shown" /\ list.more /\ reading.phase = "idle"
  /\ reading' = [NoListRequest EXCEPT !.phase = "asked", !.first = FALSE]
  /\ UNCHANGED <<aggregateVars, clock, began, created, list, known>>

ReadProfile ==
  /\ reading.phase = "asked"
  /\ reading' = [reading EXCEPT !.phase = "profile", !.rating = aggregate[ThisCreator]]
  /\ UNCHANGED <<aggregateVars, clock, began, created, list, known>>

Stored == {v.booking : v \in ReviewsOf(reviews, ThisCreator)}

(* Variant: the cursor compares times only.                                *)
Beyond_TimesOnly(cursor) == {b \in Stored : created[b] < cursor.at}

Beyond(cursor) == {b \in Stored : Before(Key(b), cursor)}

NewestFirst(rows) ==
  \A i, j \in DOMAIN rows : i < j => Before(Key(rows[j]), Key(rows[i]))

(* One row more than the page holds tells whether there are more.          *)
Page(rows) == IF Len(rows) > Limit THEN SubSeq(rows, 1, Limit) ELSE rows

ReadRows ==
  /\ reading.phase = "profile"
  /\ \E rows \in SetToSeqs(Beyond(list.cursor)) :
       /\ NewestFirst(rows)
       /\ reading' = [reading EXCEPT !.phase = "done", !.more = Len(rows) > Limit,
                                    !.items = Page(rows)]
  /\ known' = IF reading.first THEN Stored ELSE known
  /\ UNCHANGED <<aggregateVars, clock, began, created, list>>

(* The rating is that of the first page; the cursor names the last item.   *)
ListAnswer ==
  /\ reading.phase = "done"
  /\ list' = [phase |-> "shown",
              items |-> list.items \o reading.items,
              rating |-> IF reading.first THEN reading.rating ELSE list.rating,
              more |-> reading.more,
              cursor |-> IF reading.more THEN Key(Last(reading.items)) ELSE list.cursor]
  /\ reading' = NoListRequest
  /\ UNCHANGED <<aggregateVars, clock, began, created, known>>

(* A failed first page is the component's error; a failed later one leaves *)
(* the list as it is, and can be asked for again.                          *)
ListFail ==
  /\ reading.phase # "idle"
  /\ list' = IF reading.first THEN [list EXCEPT !.phase = "error"] ELSE list
  /\ reading' = NoListRequest
  /\ UNCHANGED <<aggregateVars, clock, began, created, known>>

ListNext ==
  \/ \E r \in Reviewers : BeginAt(r) \/ CommitAt(r) \/ StepAt(r)
  \/ Open \/ Close \/ LoadMore \/ ReadProfile \/ ReadRows \/ ListAnswer \/ ListFail

ListSpec == ListInit /\ [][ListNext]_reviewListVars
-----------------------------------------------------------------------------
(* The list is in the order of the reviews' times and shows no review      *)
(* twice, although reviews with earlier times appear between two pages and *)
(* a page may be asked for again after an error.                           *)
NoReviewTwice == NewestFirst(list.items)

(* When there is no more to load, everything that was there when the page  *)
(* was opened has been shown, reviews of the same instant included.        *)
NothingSkipped == list.phase = "shown" /\ ~list.more => known \subseteq ToSet(list.items)

(* The number the page bases its rating on is never more than it can show: *)
(* a rating that is read before the rows, and written with them.           *)
CountIsCovered == list.phase = "shown" /\ ~list.more => list.rating.count <= Len(list.items)

(* What a reader may rely on: every review once, in order, none left out,  *)
(* and a rating that the reviews account for.                              *)
ListInv ==
  AggregateTypeOK /\ ListTypeOK /\ NoReviewTwice /\ NothingSkipped /\ CountIsCovered
=============================================================================
