---------------------------- MODULE AccountPages ----------------------------
(***************************************************************************)
(* Who is signed in, as one browser sees it: the session behind its cookie *)
(* (apps/api/app/services/auth.py), the query ["auth", "me"] and the hooks *)
(* that write it (apps/web/src/lib/auth.ts), the pages /masuk and /profil, *)
(* and /booking, whose list is another query of the same cache.            *)
(*                                                                         *)
(* Signing in, signing out and saving a name put their answer into the     *)
(* cache, but a fetch that is under way goes on and writes over it.  One   *)
(* saving and one signing in or out at a time is a bound.  Signing up      *)
(* answers and continues as signing in does.                               *)
(***************************************************************************)
CONSTANTS
  Users,   \* accounts
  Names,   \* full names
  Nobody,  \* no session, and the answer null of fetchMe
  NoName,  \* an empty field
  NoView   \* a query that has no data

ASSUME AccountAssumption == Nobody \notin Users /\ NoName \notin Names

VARIABLES
  session,   \* the account of the cookie's session row
  fullName,  \* users.full_name
  route,     \* the page that is open
  query,     \* query[q]: data, error and freshness of a query
  fetching,  \* fetching[q]: its fetch
  field,     \* the name in the form of /profil, and whether it was typed
  save,      \* updateProfile
  auth       \* login or logout

accountServerVars == <<session, fullName>>
pageVars == <<route, query, fetching, field>>
accountVars == <<accountServerVars, pageVars, save, auth>>
-----------------------------------------------------------------------------
Queries == {"me", "list"}
Routes == {"masuk", "profil", "booking"}

(* An account with its name, Nobody's included; of a list, whose it is.    *)
Views == [user : Users \cup {Nobody}, name : Names \cup {NoName}]
NullView == [user |-> Nobody, name |-> NoName]

NoFetch == [phase |-> "idle", view |-> NoView]
Asked == [phase |-> "asked", view |-> NoView]
Resolved(view) == [view |-> view, failed |-> FALSE, fresh |-> TRUE]
NoSave == [phase |-> "idle", name |-> NoName, answer |-> NullView]
NoAuth == [phase |-> "idle", kind |-> "login", answer |-> NullView]

AccountInit ==
  /\ session = Nobody
  /\ fullName \in [Users -> Names]
  /\ route = "masuk"
  /\ query = [q \in Queries |-> [view |-> NoView, failed |-> FALSE, fresh |-> FALSE]]
  /\ fetching = [q \in Queries |-> NoFetch]
  /\ field = [name |-> NoName, typed |-> FALSE]
  /\ save = NoSave
  /\ auth = NoAuth

Me == query["me"].view

(* The guards of the pages: null sends to /masuk.                          *)
Guarded(r, me) == IF me = NullView THEN "masuk" ELSE r

(* /profil shows the form, which is reset whenever the data changes.       *)
ProfileShown == route = "profil" /\ ~query["me"].failed /\ Me \notin {NoView, NullView}
FieldOf(me) ==
  [name |-> IF me \in {NoView, NullView} THEN NoName ELSE me.name, typed |-> FALSE]

AccountOf(u) == IF u = Nobody THEN NullView ELSE [user |-> u, name |-> fullName[u]]
Account == AccountOf(session)

AccountTypeOK ==
  /\ session \in Users \cup {Nobody} /\ fullName \in [Users -> Names]
  /\ route \in Routes
  /\ query \in [Queries -> [view : Views \cup {NoView}, failed : BOOLEAN, fresh : BOOLEAN]]
  /\ fetching \in [Queries -> [phase : {"idle", "asked", "read"}, view : Views \cup {NoView}]]
  /\ field \in [name : Names \cup {NoName}, typed : BOOLEAN]
  /\ save \in [phase : {"idle", "sent", "done", "saved"}, name : Names \cup {NoName},
               answer : Views]
  /\ auth \in [phase : {"idle", "sent", "done"}, kind : {"login", "logout"}, answer : Views]
  /\ route # "masuk" => Me # NullView
  /\ ProfileShown /\ ~field.typed => field.name = Me.name
-----------------------------------------------------------------------------
QueriesOf(r) ==
  CASE r = "booking" -> {"me", "list"} [] r = "profil" -> {"me"} [] OTHER -> {}

(* Variant: what the cache holds is never asked for again.                 *)
Mounted_CacheFirst(r) ==
  [q \in Queries |->
     IF q \in QueriesOf(r) /\ query[q].view = NoView /\ fetching[q].phase = "idle"
       THEN Asked ELSE fetching[q]]

(* The observers of a page mount, or the window is focused: stale queries  *)
(* are fetched, and a fetch under way is joined.                           *)
Mounted(r) ==
  [q \in Queries |->
     IF q \in QueriesOf(r) /\ ~query[q].fresh /\ fetching[q].phase = "idle"
       THEN Asked ELSE fetching[q]]

(* A page that is left forgets its form and the outcome of its mutation.   *)
Visit(r) ==
  /\ route # r
  /\ route' = Guarded(r, Me)
  /\ fetching' = Mounted(r)
  /\ field' = FieldOf(Me)
  /\ save' = IF save.phase = "saved" THEN NoSave ELSE save
  /\ UNCHANGED <<accountServerVars, query, auth>>

Focus ==
  /\ fetching' = Mounted(route)
  /\ fetching' # fetching
  /\ UNCHANGED <<accountServerVars, route, query, field, save, auth>>

(* staleTime has passed.                                                   *)
GoesStale(q) ==
  /\ query[q].fresh
  /\ query' = [query EXCEPT ![q].fresh = FALSE]
  /\ UNCHANGED <<accountServerVars, route, fetching, field, save, auth>>

(* The list's request is refused without a session; fetchMe makes null of  *)
(* the refusal.                                                            *)
FetchReads(q) ==
  /\ fetching[q].phase = "asked"
  /\ q = "list" => session # Nobody
  /\ fetching' = [fetching EXCEPT ![q] = [phase |-> "read", view |-> Account]]
  /\ UNCHANGED <<accountServerVars, route, query, field, save, auth>>

(* The query ["auth", "me"] gets data, whoever brings it.                  *)
MeBecomes(me, r) ==
  /\ query' = [query EXCEPT !["me"] = Resolved(me)]
  /\ route' = Guarded(r, me)
  /\ field' = IF me # Me \/ route' # route THEN FieldOf(me) ELSE field

FetchResolves(q) ==
  /\ fetching[q].phase = "read"
  /\ fetching' = [fetching EXCEPT ![q] = NoFetch]
  /\ IF q = "me" THEN MeBecomes(fetching[q].view, route)
     ELSE /\ query' = [query EXCEPT ![q] = Resolved(fetching[q].view)]
          /\ UNCHANGED <<route, field>>
  /\ UNCHANGED <<accountServerVars, save, auth>>

FetchFails(q) ==
  /\ fetching[q].phase # "idle"
  /\ fetching' = [fetching EXCEPT ![q] = NoFetch]
  /\ query' = [query EXCEPT ![q].failed = TRUE, ![q].fresh = FALSE]
  /\ UNCHANGED <<accountServerVars, route, field, save, auth>>
-----------------------------------------------------------------------------
Type(name) ==
  /\ ProfileShown
  /\ field' = [name |-> name, typed |-> TRUE]
  /\ UNCHANGED <<accountServerVars, route, query, fetching, save, auth>>

(* "Simpan nama".                                                          *)
Save ==
  /\ ProfileShown /\ save.phase \in {"idle", "saved"}
  /\ save' = [NoSave EXCEPT !.phase = "sent", !.name = field.name]
  /\ UNCHANGED <<accountServerVars, pageVars, auth>>

(* update_full_name.                                                       *)
SaveHandled ==
  /\ save.phase = "sent" /\ session # Nobody
  /\ fullName' = [fullName EXCEPT ![session] = save.name]
  /\ save' = [save EXCEPT !.phase = "done",
                          !.answer = [user |-> session, name |-> save.name]]
  /\ UNCHANGED <<session, pageVars, auth>>

SaveSucceeds ==
  /\ save.phase = "done"
  /\ MeBecomes(save.answer, route)
  /\ save' = IF route = "profil" THEN [save EXCEPT !.phase = "saved"] ELSE NoSave
  /\ UNCHANGED <<accountServerVars, fetching, auth>>

SaveFails ==
  /\ save.phase \in {"sent", "done"}
  /\ save' = NoSave
  /\ UNCHANGED <<accountServerVars, pageVars, auth>>
-----------------------------------------------------------------------------
(* The form of /masuk.                                                     *)
Login(u) ==
  /\ route = "masuk" /\ auth.phase = "idle"
  /\ auth' = [phase |-> "sent", kind |-> "login", answer |-> [user |-> u, name |-> NoName]]
  /\ UNCHANGED <<accountServerVars, pageVars, save>>

(* "Keluar".                                                               *)
Logout ==
  /\ ProfileShown /\ auth.phase = "idle"
  /\ auth' = [NoAuth EXCEPT !.phase = "sent", !.kind = "logout"]
  /\ UNCHANGED <<accountServerVars, pageVars, save>>

(* login and logout of services/auth.py, with the cookie of the response.  *)
AuthHandled ==
  /\ auth.phase = "sent"
  /\ session' = IF auth.kind = "login" THEN auth.answer.user ELSE Nobody
  /\ auth' = [auth EXCEPT !.phase = "done", !.answer = AccountOf(session')]
  /\ UNCHANGED <<fullName, pageVars, save>>

(* Signing in leads to /profil and signing out to /masuk, if the form or   *)
(* the button is still there.                                              *)
AuthSucceeds ==
  LET left == IF auth.kind = "login" THEN "masuk" ELSE "profil"
      next == IF auth.kind = "login" THEN "profil" ELSE "masuk"
  IN  /\ auth.phase = "done"
      /\ MeBecomes(auth.answer, IF route = left THEN next ELSE route)
      /\ auth' = NoAuth
      /\ save' = IF save.phase = "saved" /\ route' # route THEN NoSave ELSE save
      /\ UNCHANGED <<accountServerVars, fetching>>

AuthFails ==
  /\ auth.phase # "idle"
  /\ auth' = NoAuth
  /\ UNCHANGED <<accountServerVars, pageVars, save>>

Fetches(q) == FetchReads(q) \/ FetchResolves(q)

AccountNext ==
  \/ \E r \in Routes : Visit(r)
  \/ \E q \in Queries : GoesStale(q) \/ Fetches(q) \/ FetchFails(q)
  \/ \E name \in Names : Type(name)
  \/ \E u \in Users : Login(u)
  \/ Focus \/ Save \/ SaveHandled \/ SaveSucceeds \/ SaveFails
  \/ Logout \/ AuthHandled \/ AuthSucceeds \/ AuthFails

(* A user who keeps coming back once the data is stale, and requests that  *)
(* do not fail for ever.                                                   *)
Returns == (\E r \in Routes : Visit(r) \/ Focus) /\ fetching'["me"] # fetching["me"]

AccountFairness ==
  /\ WF_accountVars(GoesStale("me")) /\ WF_accountVars(Returns)
  /\ SF_accountVars(FetchReads("me")) /\ SF_accountVars(FetchResolves("me"))

AccountSpec == AccountInit /\ [][AccountNext]_accountVars /\ AccountFairness
-----------------------------------------------------------------------------
Busy == save.phase \in {"sent", "done"} \/ auth.phase # "idle"
Quiet == ~Busy /\ \A q \in Queries : fetching[q].phase = "idle"

(* Whatever answers crossed, were lost or came late, a browser whose user  *)
(* no longer signs in, signs out or saves comes to show the account that is*)
(* signed in, with the name that is stored.                                *)
CacheHeals == <>[]~Busy => <>[](Me = Account)

(* "Booking saya" lists the bookings of the account that is signed in.     *)
ListIsTheUsers ==
  /\ route = "booking" /\ Quiet /\ Me \notin {NoView, NullView}
  /\ query["list"].view # NoView /\ ~query["list"].failed
  => query["list"].view.user = Me.user
=============================================================================
