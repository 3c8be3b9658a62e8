# Formal model of Jepret

Jepret is a marketplace on which clients book photographers and videographers
("kreator"), pay into escrow, talk and exchange deliverables in a workspace, and
settle disputes through an admin. This directory holds TLA+ modules of its API
services and of the web client's caches and pages, TLC configurations that check them
on small instances, and TLAPS proofs of the results that hold for every instance. Paths
below are relative to the repository; `services/` is `apps/api/app/services/` and
`web/` is `apps/web/src/`.

    tlc -workers 2 -config MCBookingTransactions.cfg MCBookingTransactions
    tlapm BookingLifecycleProofs.tla

## 1. The system

| Component | State | Operations | Hard behaviour | What makes it correct |
|---|---|---|---|---|
| Bookings (`services/bookings.py`) | `bookings` rows | create, accept, reject, start, deliver, complete, cancel | each operation is one READ COMMITTED transaction that locks rows with `FOR UPDATE`, decides and commits; two bookings of one date meet only at a unique index; completion asks the provider before it commits and retries once | one live booking per creator and date; terminal states are terminal; money and status move together |
| Payments (`services/payments.py`) | `payments`, `payment_events` | create with an idempotency key, webhooks, simulated payment, release, refund | webhooks repeated, late or reordered; two keys or event ids inserted at once; lock order booking, then payment | each event once, the event log explains the payment, a settlement is asked for once |
| Provider (`integrations/payments.py`) | outside | create, release, refund, webhooks | calls happen before the commit and cannot be rolled back | nothing is settled here that the provider was not asked for |
| Disputes (`services/disputes.py`) | `disputes` | open, resolve for either side | the resolution writes the booking whatever its status | an open dispute freezes its booking; a decision moves the money |
| Reviews (`services/reviews.py`) | `reviews`, rating on `creator_profiles` | write, list | the rating is computed before the profile is locked; two reviews of one creator deadlock; a reader pages while reviews commit out of the order of their times | the rating is that of the reviews; a reader sees no review twice and skips none that was there |
| Creator profiles (`services/profiles.py`) | `creator_profiles` | save, submit, approve, reject | the owner's requests do not lock | what was submitted is what is approved and shown |
| Deliverables, uploads (`services/deliverables.py`, `services/uploads.py`, `integrations/storage.py`, `web/lib/uploads.ts`) | `deliverables`, `uploads`, objects | intent, PUT, completion, versions, deletion | cancellation against queued events, expiry during a storage call, an object removed after the commit | an upload is used once; a delivered booking has work; no row without its object |
| Conversations (`services/conversations.py`, `web/lib/conversations.ts`) | `conversations`, `messages`, query cache, sockets | open, send, list, push, reconnect, poll | retried sends; pushes during a fetch; fetches that were cancelled and go on | a message is stored once and, once shown, stays |
| Realtime hub (`realtime.py`) | sockets, queues, asyncio tasks | connect, broadcast, disconnect, shut down | slow sockets, cancelled writers, several ends of one connection | closed once and quietly, no task left behind |
| Rate limiter (`core/rate_limit.py`) | windows, expiry heap | allow | eviction at `max_keys`, stale heap entries | memory is bounded, a refusal is earned |
| Accounts (`services/auth.py`, `web/lib/auth.ts`) | `users`, `sessions`, the account in the cache | register, sign in and out, save a name | answers that cross, in one browser | the browser comes to show the account that is signed in |
| Web pages (`web/app`, `web/components`) | query caches, forms, dialogs, mutations | the operations above | a page acts on what it last read; refetches cross answers | what an up-to-date page offers is what the service would accept; what was done is not offered again |
| Routers, catalogue, admin overview, notifications, Android shell, deployment | none of their own | validation, reads, rendering | | |

How they interact: routers call services with the request's own database session;
services share rows (`bookings`, `payments`, `conversations`, `creator_profiles`) and
nothing else; bookings and disputes call payment operations inside their own
transaction; after the commit, routers hand events to the hub, which pushes them to
sockets; web clients merge pushes with what they fetch, and every page reads through one
query cache that mutations write or invalidate. The hazards, each at its line and with
the properties that would catch it, are listed in `PROJECT.json`.

## 2. Modules

| Module | Models | Rests on |
|---|---|---|
| `EscrowPromise` | what bookings and payments promise together: a slot is held by one booking, money is billed, collected and moved once, together with the conclusion of its booking | |
| `BookingLifecycle` | the booking, payment and dispute services, one action for each operation that changes a row | implements `EscrowPromise` |
| `BookingTransactions` | the same operations as concurrent transactions, one action for each statement | extends and implements `BookingLifecycle` |
| `ReviewAggregate` | `create_booking_review` as concurrent transactions | |
| `ReviewList` | the list of reviews, page by page, while reviews are written | extends `ReviewAggregate` |
| `CreatorReview` | drafting, submission and verification of creator profiles as concurrent transactions | |
| `ApplicationsPage` | the administrators' page of applications | extends `CreatorReview` |
| `DisputesPage` | the administrators' page of disputes | |
| `WorkspacePage` | the workspace page of one booking, for either participant | extends `BookingLifecycle` |
| `PaymentPage` | the payment page of one booking | extends `BookingLifecycle` |
| `BookingLists` | both lists of bookings and the form that requests one | extends `BookingLifecycle` |
| `DeliverablesPanel` | uploads and deliverables from the browser to the object storage | |
| `ChatFeed` | the messages one viewer is shown, with the API, the hub's queue and the socket between them | |
| `MessageComposer` | sending texts and attachments with retries and lost answers | |
| `ConnectionHub` | the hub's sockets and asyncio tasks | |
| `RateLimiter` | the fixed-window limiter with its heap | |
| `AccountPages` | the account in one browser's cache, from session to pages | |
| `BookingLifecycleProofs`, `BookingTransactionsProofs` | theorems about the services, and that each level implements the one above | |
| `BookingPagesProofs`, `WorkspaceProofs` | theorems about `PaymentPage` and `BookingLists`, about `WorkspacePage` and `DeliverablesPanel` | `BookingLifecycleProofs` |
| `AdministrationProofs` | theorems about `CreatorReview`, `ApplicationsPage` and `DisputesPage` | |
| `ReviewProofs`, `ConversationProofs`, `ApiProcessProofs` | theorems about `ReviewAggregate` and `ReviewList`, about `ChatFeed` and `MessageComposer`, about `RateLimiter` and `ConnectionHub` | |
| `MC...` | TLC instances; most put modules that share nothing side by side, with a variable that says which of them a behaviour is about | |

Definitions named `X_Something` directly before a definition `X` are variants: `X` with a
plausible mistake. Nothing uses them; substituted for `X` they make the property named for
them in `PROJECT.json` fail, which shows that the property can.

### BookingLifecycle

`status`, `payStatus`, `payKey`, `events` and `dispute` are the columns of the same names;
a payment and a dispute belong to one booking by a unique column, so the booking's id
names them. `"absent"` is the row that does not exist. `deliverables` counts the
deliverables that `deliver_booking` asks for, `conversations` says where a workspace
conversation exists, and `notices` are the system messages in it, which stand for the
wording. Requests that end in a `DomainError` write nothing and are no steps; replays
that the code answers from existing rows write nothing either.

- `MayAccept`, `MayCancel`, `MayResolve`, ... are the checks an operation makes before it writes,
  the ones on the event it would stage included (`MayStage`); each action begins with its own.
  Two actions of the workspace's content, and the provider's reports, need no such name.
- `StageEvent` is `_stage_locked_provider_event` with `Accepts` for `_apply_transition`. The
  status passed to it is the one the booking has in the session at that moment:
  `complete_booking` and `resolve_dispute_for_admin` set it before, cancellation after.
- `ProviderReports` is `_apply_provider_event`. Webhook ids are chosen by the sender, the
  mock provider derives the ids of its own answers from the payment
  (`ProviderEventId`).
- `ResolveDispute` has only the dispute's status for a guard, as the code does. That it
  never concludes a booking twice is a property, not a guard.
- `payments.status = "paid"`, `disputes.status = "under_review"` and `"closed"` are legal for
  the schema and written by nothing. The release that `simulate_release` would make needs a
  completed booking with held money, which `EscrowAgrees` excludes.
- Dates are future dates, approved creators exist; expiry is not modelled because nothing
  in the code expires a booking.

### BookingTransactions

A request goes through `lock` (once for each row, in the order of `LockOrder`), `decide`
(the checks on the rows it read), `provider`, `check` (the event id and the transition),
`insert` (the event row, which meets the unique constraint) and `commit`. `TakeLock` copies
the row as committed, as `SELECT ... FOR UPDATE` does under READ COMMITTED; `Commit` publishes
everything at once; `Crash`, `ProviderFails`, `CommitFails` and `Refuse` roll back.
`InsertConflict` is the retry of `complete_booking`. Its second attempt keeps the provider's
event and, since the constraint only fires on a committed event of the same id, is always
answered without a write. `asked` counts the provider's settlement calls and stops at
`MaxFaults + 2`; `MaxFaults` bounds crashes and failed calls. Roles are checked against
columns that no transaction writes, so the requests modelled come from the right actor.
`ImplementsLifecycle` says that the committed rows change only as `BookingLifecycle` allows.

### ReviewAggregate and ReviewList

`Steps` follow the statements of `create_booking_review`. The `INSERT` takes `FOR KEY SHARE` on
the profile because of the foreign key (PostgreSQL's behaviour, marked external), which the
later `FOR UPDATE` of every other review of that creator waits for. Averages are in hundredths,
the two decimals the code keeps. Bookings are completed ones: `TerminalStaysTerminal` says
they stay so. `ReviewList` adds the clock that gives a transaction its `created_at` when it
begins, and a reader whose pages are two statements, the profile's rating and the rows
`Beyond` the cursor. `NothingSkipped` and `CountIsCovered` say how far the keyset keeps its
promise although rows appear behind the cursor.

### CreatorReview and ApplicationsPage

A row has a status and the owner's columns, of which those `submit_creator_profile` requires
may not be blank. Owners read without a lock; `Update` writes the columns that differ from
those loaded, as SQLAlchemy does (`Merge`), and waits for an admin's lock. `submitted_at` and
`reviewed_at` follow the status and are left out. An admin is not the owner of the profile.
`ApplicationsPage` reads the pending rows once and decides by the profile's id;
`processing` is the single `processingId`, which a click on another application overwrites
and the end of any request clears.

### The pages: WorkspacePage, PaymentPage, BookingLists, DisputesPage, AccountPages

Each is one page, or a group of pages that share queries, in one browser; where it acts on
bookings, `BookingLifecycle` goes on beside it with the steps of everybody else, other tabs
of the viewer included. React Query is modelled by what the pages rely on, and is marked
external: a query has an observed result, at most one fetch under way, a fresh or stale
mark; an invalidation replaces the fetch, a focus joins it, a remount fetches when stale,
`setQueryData` writes beside it and stops nothing. A fetch is two steps, the service's read
and the answer, and everything may happen in between. Mutations go through `sent`, `done`
and, where the hook returns its invalidation, `settling`, in which buttons stay disabled.

What pages offer (`CanStart`, `CanCreate`, `CanCancel`, ...) is translated from their JSX; the
properties `...OffersMatch` compare it with the guard of the service's action (`MayStart`,
`MayCreatePayment`, `MayCancel`, ...), for a page that shows the current row. Where a webhook
has taken the id of a settlement (`IdKept`), or a payment's key is in use (`KeyIsFresh`), no
page can know. `DisputesPage` has the one form, choice and note field that all disputes share;
`AccountPages` the session behind the cookie and the two queries that sign-in and sign-out touch
or leave.

### DeliverablesPanel

From the file input to the row: `uploadFile` of `web/lib/uploads.ts` with its abort signal, the
`PUT` whose load event is queued before the browser sees it, the completion that inspects the
object, the deliverable that uses the upload, and the deletion that removes the object after
its commit (`cleaning`). `Valid` files pass the browser's checks and `Genuine` ones the
service's. Requests live in `wire` and `replies`; a late request is handled although the
browser gave it up. Expiry may come to
a pending intent at any time, also during the storage call of its completion.

### ChatFeed and MessageComposer

A message is the number of its `created_at`, and messages commit in any order. The path of a
message is `unsent` (committed, not broadcast), `queue` (in the socket's queue of the hub),
`answers` (the viewer's own, in the answer of its POST), `pending` (pushed while a fetch is
under way) and `cache`. `strays` are fetches that were cancelled and go on in their `queryFn`,
where they consume `pending`. `Lose` is any end of a connection, `Restart` that of the API
process; `hub` says where the server has the socket: unknown, accepted, registered or gone.
The system messages about disputes (`services/disputes.py:69`, `:221`) are stored and, unlike those
of the lifecycle, never broadcast (`StoreDisputeNotice`): only a fetch shows them.
`MessageComposer` numbers the attempts; `calls` are the mutation's, each of which React Query
tries twice, and `log` is the table with its unique `client_message_id`.

### ConnectionHub

One `await` to the next is one step. `handler`, `writer`, `term` and `shutdown` are the program
counters of the route, `_writer`, `_terminate_and_close` or `_close_owned`, and `_shutdown`;
`closed` is the flag of the connection; `offered` and `sent` are history for
`RegisteredIsServed`. Events are counted, not told apart: `asyncio.Queue` keeps their order. A writer
runs before it can be cancelled: of the route's handler this relies on the server, whose
`receive()` gives way once after `accept()`, and not on anything in `realtime.py`.

### RateLimiter

`entries` is the dictionary, `expiries` the heap, as a set, because `_prune_locked` and the eviction
only take its minimum. `Victims` is the choice among windows that end at the same time,
which depends on the order of keys in the tuples. `admitted` and `evicted` are history. The
middle of `allow` has no `await`, so a call is one step.

## 3. What TLC checks

With two workers each run takes under four minutes.

| Run | Instance | Distinct states | Shows |
|---|---|---|---|
| `lifecycle` | 2 bookings, 1 creator, 2 users, 2 dates, free and priced, 2 keys | 131 000 | the invariants and action properties of `BookingLifecycle`; that it implements `EscrowPromise` |
| `transactions` | 2 requests and 1 fault: of all 15 kinds on one booking, of the kinds that meet at unique indexes on two, and two completions among webhooks with the provider's own ids | 512 000 (symmetric) | no stale read, no circle of waiting requests, one settlement call unless something failed, serialisability |
| `requests_finish` | 2 requests of all kinds on 1 booking, no faults; 3 reviewers on 2 bookings of one creator | 157 000 | no deadlock among bookings, no starvation, the end of the deadlock among reviews |
| `reviews_and_profiles` | 4 bookings of 2 creators, 3 reviewers, a reader with pages of 1; 1 owner with one request at a time and 3 administrators; 2 applications and 2 disputes on their pages | 410 000 (symmetric) | ratings, paging, frozen and complete profiles, what administrators' pages show |
| `conversation_panel` | 3 messages, pages of 2, a queue of 1, a lost connection and a notice or a second visit; 2 texts, 2 uploads, 4 calls | 2 580 000 | nothing shown or on its way is lost; ids, texts and uploads are stored once |
| `workspace` | 1 booking, both viewers; 3 files of which one is a fake and one too large, 2 uploads, 2 rows | 1 920 000 | what the page offers, what is delivered and downloaded |
| `booking_pages` | 1 booking on the payment page, 2 on the lists, free and priced, both viewers | 1 200 000 | what the pages offer; no answer is forgotten |
| `web_heals` | 1 account with 2 names; 2 messages, 1 lost connection or notice; 1 socket, 4 events | 101 000 | liveness of the account, the feed and the hub |
| `api_process` | 3 keys, 2 windows, limit 2, windows of 3 s within 6 s; 2 sockets, queues of 1, 3 events | 1 480 000 (symmetric) | the rate limiter at its capacity, every order of the hub's tasks and no circle of them |
| `creator_review_race` | 1 owner with two requests, 1 admin | violated | the missing lock |
| `chat_feed_long` | 2 messages, pages of 1 | violated | the page nobody asks for |
| `account_lists` | 2 accounts in one browser | violated | the list of the account before |

Bounds. Two bookings are enough for everything bookings share (a date, a key, an event id),
since each constraint relates two rows; two requests for every conflict of two transactions,
and three in the reviews, where a third can commit between the calculation and the lock of
two others. One fault separates the calls a crash explains from those nothing explains.
Webhook ids contain a foreign one and the one the simulation endpoint uses. `HeldMoneyCanMove`
excepts a payment whose settlement's id a webhook has taken (`IdKept`); `ProviderAskedOnce` says
what remains then. A queue of one and pages shorter than the
conversation make every overflow and every cut happen with few messages. Three keys for a
limiter of two make it evict. Pages are checked with one mutation at a time, because their
buttons wait for it; two files of one field and two visits are the smallest histories in
which an answer reaches the wrong one. The bounds that only the instances have are definitions
of the MC modules (`Bounded`, `Rated`, `TwoReviewers`, `OneProfile`, `AllFilled`, `Small`, `SlowList`,
`FewCalls`, and those in `FeedHalf` and the `MCNext` of `MCWebHeals`). A fourth call is where
`DuplicatesNeedAttachment` first failed in an earlier form.

Deadlock is checked in `transactions`, `requests_finish` and `reviews_and_profiles`. Elsewhere
an instance may really stop: bookings conclude, a hub was shut down, calls and visits are
used up.

A run checks a module's invariants as one conjunction of named parts where they are about one
hazard: `TxInv`, `SettlementsAreAsked` (`BookingTransactions`), `ListInv`, `ApplicationsInv`,
`DisputesInv`, `ComposerInv`, `WorkspaceInv`, `PanelInv`, `WritersEndFirst` (`ConnectionHub`),
`FeedKeepsMessages` (`ChatFeed`), and `ConversationInv`, `PagesInv`, `DoneStaysDone`,
`HubTasksEnd` in the MC modules. Types of the lifecycle, the profiles, the limiter and the hub
are proved.

Properties worth naming, parts of those included:

- `EscrowAgrees`, `EventsExplainPayment`, `DisputeDecidesEscrow` relate rows that different services
  write. `PaidWorkExists` relates deliveries to deletions of deliverables.
- `ImplementsPromise` and `ImplementsLifecycle` are refinements; by them, what holds of the
  promise or of the atomic operations holds of the interleaved statements.
- `ReadsStayCurrent` is what the locks are for: no decision on a row that has changed.
  `NobodyWaitsInACircle` is what their order is for: among any requests, whatever rows and event
  ids they wait for, one waits for none of the others.
- `HeldMoneyCanMove`: there is always a way out of escrow, by cancellation, acceptance or decision.
  Its part `HeldMoneyMayMove` says so of the guards, `GuardsDecide` that the guards are exactly the
  `ENABLED` of the actions.
- `ProviderAskedOnce`: the provider is asked to release or refund once, or a crash or failed
  call explains each further time. With a crash between the call and the commit the second
  call does happen, and may be of the other kind (release asked, then dispute and refund);
  the code relies on the provider here, as its deterministic event ids show. Bookings on whose
  event id a webhook came first are excused, so this says nothing of the retry after a lost race
  on that id (`services/bookings.py:389`); that it completes no booking on the other's event is
  part of `ImplementsLifecycle`.
- `WorkspaceOffersMatch`, `PaymentOffersMatch`, `ListsOfferMatch`: the conditions of the buttons, written
  in another language and repository directory than the guards of the services, agree with them.
- `DoneIsShown`, `AnswerIsNotForgotten`, `DoneIsNotOfferedAgain` are what invalidation instead of a
  plain refetch is for: a read from before the operation does not end what waits for it.
- `RecordsAreVerified`, `EachUploadDeliveredOnce`, `GrantedDownloadsExist`, `OfferedFileIsComplete`,
  `CancelledStaysOut`: an upload is three requests and a deliverable a fourth, any of which may be
  late, lost, repeated or cancelled.
- `NoReviewTwice`, `NothingSkipped`, `CountIsCovered`: what a keyset cursor keeps while rows
  appear behind it. `NotesAreOfTheirDispute`, `FeedbackTellsTheVerdict`,
  `FormsAreOfOpenDisputes`, `ShownVerdictsStand` and `ButtonsComeBack`: pages on which one state
  serves many rows.
- `DeliveredStays` has three exceptions, all of which occur: the end of the first page, pushes
  that a cancelled fetch consumed, a fetch of an earlier visit. `NothingForgotten` follows a
  message before it is shown: through a full queue, a lost socket, the reconnection and the refetch
  it asks for. `OnItsWay` lists the ways. A message stored between the first fetch and the first
  opening of the socket is on none of them (`conversations.ts:365`): only a focus event, which
  nothing assumes, would fetch it. The two properties are `FeedKeepsMessages`.
- `OnItsWayArrives` is their other half: no message is on its way for ever. It is not discharged by
  an earlier failed poll, whose message is still on its way while `needsRefetch` is set, but only by
  a failed fetch that leaves the message without any way, a loss described under Findings, or by
  an outage in which polls fail for ever.
- `DuplicatesNeedAttachment` says how far "retry with the same `client_message_id`" goes: a text is
  stored twice only if an attachment was sent after its first attempt, or one that was sent
  before was answered in between, since either makes the panel forget the attempt.
- `RegisteredIsServed`, `QuietBeforeClose`, `ShutdownLeavesNothing` over every order of failing,
  overflowing, accepted and shut down sockets. Tasks of the hub might wait for each other in a
  circle, a writer for the task that ends its socket and that task for the writer:
  `AwaitedWritersEnd` excludes it, `ShutdownReturns` and `GivenUpSocketsEnd` say that all of them end.
- `BurstsAreBounded` and `RefusalIsEarned` compare the windows with the history of admissions, as a
  sliding window of the same length would see it.

### Fairness

- `TxFairness`: weak fairness of a request's own steps, as the event loop runs every ready
  coroutine, and strong fairness of steps that wait for a row lock, as PostgreSQL queues the
  waiters of a row. `AggregateFairness` also assumes that PostgreSQL's deadlock detector aborts one
  transaction of a cycle. New requests need not arrive, and faults need not happen.
- `FeedFairness`: requests in flight are answered, timers fire, a browser's socket events are
  handled, a committed message is broadcast. Connections may be lost or stay away, within the bound.
- `AccountFairness`: a stale query becomes stale in time and the user comes back to the page;
  its fetches are read and answered again and again, since only some of them succeed (strong).
- `HubFairness`: the event loop runs every ready task, and the server's `receive` ends for a peer
  that is gone. Nobody need read what is sent: a slow peer may block its writer for ever.

### Findings

1. `creator_review_race`: `upsert_creator_draft` and `submit_creator_profile`
(`services/profiles.py:34`, `:59`) read without a lock. A save that loaded the draft and commits
after the submission, or after the approval, changes the content of the profile without its
status; a second submission that loaded the draft turns an approved profile into a pending one.
The message at `services/profiles.py:41` and `apps/api/tests/test_profiles_api.py:61` say that
such a change is refused. With one request of an owner at a time neither happens, which is
proved. 2. `chat_feed_long`: `useConversation` fetches the first page, the oldest messages, and
nothing asks for the page after `next_cursor`. In a conversation longer than a page, what was
stored while nobody was connected is not shown; the design
(`docs/superpowers/specs/2026-08-16-jepret-chat-deliverables-design.md:199-201`) says the client
can always catch up through the REST cursor. 3. `account_lists`: signing out and in replaces
`["auth","me"]` only. The lists of the account before stay in the cache, fresh for 30 seconds,
and `/booking`, "daftar booking klien", shows them to the next.

Behaviours that the models have and their properties therefore except, each met while modelling:

- A reconnection during a first fetch joins it, and may miss what was stored before
  (`web/lib/conversations.ts:366`); focus or the next reconnection heals it.
- `onopen` clears `needsRefetchOnOpenRef` and ends polling before the refetch it starts has succeeded
  (`web/lib/conversations.ts:363`). `retry` is false, so if that one fetch fails nothing asks again until
  a focus event or the next loss, and the panel, which never renders `query.isError`, shows no
  sign of it: what was stored while the socket was down is missed silently, while the plan
  (`docs/superpowers/plans/2026-08-16-jepret-chat-deliverables.md:7`) says that "cursor polling recovers
  missed events". The same is true of a fetch that fails just before the first opening.
  `NothingForgotten` and `OnItsWayArrives` except a failed fetch that leaves a message on no way,
  and no other loss; without `failed /\ ~OnItsWay(m)` in it `OnItsWayArrives` is violated.
- The notices of disputes are not broadcast (`services/disputes.py:69`, `:221`), though the design
  publishes every committed message (line 232): they come with the next fetch.
- An attachment sent between a failed text and its retry makes the panel forget the attempt, so
  that the text may be stored twice (`web/components/workspace/conversation-panel.tsx:103`); a text
  that was edited before its retry is cleared without being sent (`:83`).
- A refused workspace action does not refetch (`web/app/booking/[id]/page.tsx:109`); the design asks for
  it at line 301. The dispute is read once for each mount, so the other participant may not see
  its banner (`:54`).
- A booking of price 0 is accepted and cannot be paid (`services/payments.py:113`).
- An application is approved by its id, also when it was rejected, edited and submitted again
  since the page was opened (`web/app/admin/kreator/page.tsx:52`).
- After a request `/booking` may show the list of a fetch that began before it
  (`web/lib/bookings.ts:63`), and neither list links a disputed booking to its workspace
  (`web/app/booking/page.tsx:26`).
- A fetch of the account that was answered before signing out, or before saving a name, overwrites
  what the mutation put into the cache (`web/lib/auth.ts:61`, `:73`); `AccountHeals` says it ends.

## 4. What is proved

| Theorem | Says |
|---|---|
| `BookingLifecycleProofs!TypeCorrect` | Every column keeps one of its legal values in every reachable state, for any constants. |
| `...!EscrowAlwaysAgrees` | Booking and payment rows always agree: held money exactly while work is owed, released money exactly on completed bookings. |
| `...!DisputesDecideEscrow` | An open dispute freezes its booking and a decided one moved the money to the side it names. |
| `...!ConclusionsAreFinal` | A rejected, cancelled or completed booking keeps its status and a final payment its own, in every later step. |
| `...!RefundsNeedDisputes` | Once work has started, money goes back to the client only by the decision of an open dispute. |
| `...!DatesAreBookedOnce` | However many bookings compete, a creator's date is occupied by at most one live booking. |
| `...!KeysAlwaysIdentify` | A booking has an idempotency key exactly when it has a payment, and no two bookings share one. |
| `...!EventsAlwaysExplain` | A payment's status is the one its stored events lead to, for any webhooks in any order. |
| `...!PaidWorkAlwaysExists` | A delivered booking, and one completed without a dispute, has a deliverable. |
| `...!NoticesAlwaysTrue` | The system notices in a conversation agree with booking, payment and dispute. |
| `...!HeldMoneyIsNeverTrapped` | For any webhooks in any order, a confirmed booking may be cancelled, a delivered one accepted and an open dispute decided either way, unless an event of somebody else took the id of the settlement. |
| `...!ServicesKeepThePromise` | `BookingLifecycle` implements `EscrowPromise`: a date is claimed only when it is free, and held money moves once, in the step that concludes its booking. |
| `BookingTransactionsProofs!ReadsAreCurrent` | What a transaction read under a row lock is still the committed row when it decides and when it commits, and no requests wait for each other in a circle, for any number of requests. |
| `...!TransactionsImplementLifecycle` | `BookingTransactions` implements `BookingLifecycle`: every commit is one of its steps, and every other statement, crash and rollback none. |
| `...!ProviderAskedFirstAndOnce` | No settlement is recorded that the provider was not asked for; each further call is explained by a crash or failed call, unless a webhook took the event's id. |
| `...!ConcurrencyKeepsTheBooks` | The invariants of `BookingLifecycle` above, that held money is never trapped among them, hold in every state of the concurrent transactions. |
| `...!ConcurrencyKeepsThePromise` | By the same refinement the concurrent transactions keep conclusions final, refund started work only by a dispute, and implement `EscrowPromise`. |
| `BookingPagesProofs!PagesKeepAnswers` | The payment page does not fall behind an answer, and a list read after an action does not offer it again. |
| `...!PagesOfferWhatIsAdmitted` | A payment page and lists that show the current rows offer exactly what the services admit. |
| `...!PagesUseTheServices` | With either page in front, every step is one of `BookingLifecycle`. |
| `WorkspaceProofs!DoneStaysShown` | When an action of the workspace page has succeeded, the page shows a status at or behind the one it led to. |
| `...!WorkspaceOffersWhatIsAdmitted` | A workspace page that shows the current row offers exactly what the services admit to its viewer. |
| `...!PageUsesTheServices` | With the page in front, every step is one of `BookingLifecycle`. |
| `...!DeliveredFilesAreVerified` | Rows of the panel are of verified uploads whose objects exist, an upload is delivered once and a cancelled one never, for any files and any late or repeated requests. |
| `AdministrationProofs!ReviewTypeCorrect` | Profiles and the transactions on them keep their types. |
| `...!AdminsReadCurrentRows` | From an admin's locking read to its commit nobody else writes the profile. |
| `...!DecisionsAreAboutSubmissions` | Only a pending profile is approved or rejected, whatever owners and admins do at the same time. |
| `...!CarefulProfilesAreFrozen` | A submitted profile stays as it is until it is rejected if no creator has two requests in progress at once; the run `creator_review_race` shows that the condition is needed. |
| `...!CarefulSubmissionsAreComplete` | Under the same condition, only complete profiles are under review or published. |
| `...!ButtonsAreGivenBack` | The buttons of an application are disabled only while a request about it is under way. |
| `...!ListedUntilAnswered` | An application leaves the open page only with the answer to a decision about it. |
| `...!PageUsesTheService` | With the page of applications in front, every step is one of `CreatorReview`. |
| `...!DisputesAreDecidedAsShown` | A dispute is decided with notes typed for it, and the page names and lists only verdicts that were given. |
| `...!PagesFollowTheCache` | Whatever answers cross: nobody whom the cache does not know is kept on a guarded page, and the form of the profile holds the cached name until something is typed. |
| `ReviewProofs!RatingsAreRight` | The rating on a profile is that of its committed reviews for any bookings, creators and number of concurrent reviews: the foreign key's lock keeps every calculation current until its commit. |
| `...!ReadersSeeAll` | Whatever is written between two pages, and whichever pages fail: a reader sees no review twice, in order, all that there were when the list was opened, and no rating that counts more of them. A rating is between zero and five stars. |
| `ConversationProofs!FeedKeepsWhatItGets` | A message that was pushed and shown stays, but for the three exceptions of `DeliveredStays`, and one on its way to a loaded conversation arrives or stays on some way, for any page size, queue and number of losses and visits. |
| `...!ConversationIsKept` | An id is one message, a success a stored one, an upload is sent once, a text twice only if an attachment made the panel forget it, for any number of calls. |
| `ApiProcessProofs!LimiterTypeCorrect` | Clock, windows, heap and history keep their types. |
| `...!HeapAlwaysMatches` | The heap holds exactly the ends of the windows in the dictionary. |
| `...!MemoryAlwaysBounded` | However many keys call, at most `max_keys` windows are kept. |
| `...!RefusalsAreEarned` | A key is refused only if it was admitted `limit` times within the last `window_seconds`. |
| `...!BurstsAlwaysBounded` | A key that was never evicted is admitted less than twice `limit` times in any `window_seconds`. |
| `...!HubTypeCorrect` | Sockets, tasks, queues and flags of the hub keep their types. |
| `...!RegisteredAlwaysServed` | A registered socket has a running writer that nobody ends, and each of its events was sent, is being sent or is queued. |
| `...!WritersAlwaysEndFirst` | No socket is closed while its writer still uses it, and whoever waits for a writer has told it to end: the hub's tasks do not wait in a circle. |
| `...!ShutdownsLeaveNothing` | When `close()` has returned, nothing of the hub is left. |

The arguments, module by module.

**The services' rows** (`BookingLifecycleProofs`). `EscrowAgrees` is not inductive alone:
resolving a dispute writes `completed` or `cancelled` whatever the booking's status, so the
booking must be known to be disputed with its money held while the dispute is open. The
inductive `EscrowInv` joins `TypeOK`, `EscrowAgrees` and `DisputeDecidesEscrow`. From it,
`StepMoves` shows that a step either leaves terms, status and payment of every booking or is a
`Move` of one booking, one edge of the combined state machine of booking and payment; finality
and the rule for refunds are read off the edges. `SlotInv` adds that a booking has its terms and
that no date is held twice: the unique index covers exactly the statuses in which a booking is
live. Keys and events are inductive together with the types; deliverables and notices join
`EscrowInv`, since the guards that make them true are those on the booking and the payment.
`HeldMoneyIsNeverTrapped` needs all of these: the payment is held because the rows agree, the id
of its settlement is free because the events explain the payment and nobody else has taken it
(`KeptIdsAreFree`), so that `SettlementsAreAdmitted`, and whom the money is for is known because
a booking has its terms. For `ServicesKeepThePromise`, each edge is one action of the promise or
a stutter (`MovePromise`); `HoldersStep` follows the slots, which a booking finds empty when it
becomes live and gives up when it concludes.

**The transactions** (`BookingTransactionsProofs`). `SessionsInv` says of every request which
rows it holds at its step (`Holds`, along `LockOrder`), that what it read under them is current,
that its decision stands and the event it staged is new (`Stands`), and of every two requests
that they hold no row and insert no event id together. The one write without a lock of its own
row is the insertion of a dispute; it is harmless because the booking's lock is held and nobody
locks a dispute that does not exist. With `SessionsInv`, `Commit` satisfies the guard of the
atomic operation, which gives the refinement in the same step that preserves the invariant.
Nobody waits in a circle because rows are ranked, dispute before booking before payment before
event id: a request waits for a higher rank than any it has (`RowsInOrder`, `WaitsGoUp`), so
that of any requests the one with the highest waits for none (`SomebodyGoesOn`). `CallsInv`
counts the provider's calls against the faults and the one settlement that is recorded or on its
way.

**The pages** (`BookingPagesProofs`, `WorkspaceProofs`). A page shows what it last read. Two
orders keep it from showing what was before an answer: the services never take a booking or a
payment back (`BookingsAdvance`, `PaymentsAdvance`, `PastIsPast`, from `StepMoves`), and the
read that ends a mutation was asked for after it (`ReadsFollowActions`, `AnswersAreFetched`,
`ReadsFollowActs`), because an invalidation gives up the fetch under way wherever there is data,
and buttons are offered only where there is. `ListsAssumption` therefore says that the data of a
query that was never fetched is no list.

That pages offer what is admitted compares two lists of conditions. The pages look at less: that
a confirmed booking's payment is held follows from `EscrowAgrees`, that an id is free from
`EventsExplainPayment`, that a booking without a payment has used no key from
`KeysIdentifyPayments`. A row can be shown only to who may ask for it (`ShownToParticipants`), a
payment only with one that was created (`ShownPaymentsExist`), and nobody books themselves, so
that a viewer is client or creator and not both. The panel: `PanelInductive` follows an upload
through browser, wire, API and storage. A deliverable keeps its object because only rejected
intents are cleaned up (`ObjectsAreKept`); a cancelled upload stays out because a completion is
only asked for by an upload that can no longer be cancelled (`CompletionsWereAsked`).

**Administration** (`AdministrationProofs`). `ReviewInv`: admins who have read a profile exclude each
other and see it as it is; rows that were read still exist. `CarefulInv` adds, under the
assumption `[]OneAtATime` that no owner has two requests in progress, that owners see the row as
it is, too. `ApplicationsInductive` adds the page, `DisputesInductive` what the one form shared by all
disputes may contain while it is closed, open or being sent. `AccountInv` says of every query and
answer that it is of an account with a given name, and that a form nobody types in is that of
the cache also while a failed fetch hides it.

**Reviews** (`ReviewProofs`). The inductive `AggregateInv` says that a booking and a profile are not
locked by two transactions in conflicting modes, and that the aggregate a transaction has
calculated is, until its commit, that of the committed reviews and its own
(`CalculationsStayCurrent`). The second follows from the first because a review commits only
with the profile `FOR UPDATE`, which excludes every transaction that has inserted. That an
average is between 0 and 500 hundredths needs the sum of a finite set to be what its recursive
definition says: two functions that satisfy the definition agree (`SumsAgree`) and one exists
(`SumsExist`), each shown at a smallest set where it would fail. For `ReadersSeeAll`, `ReaderInv` says
that a page which was read goes on after the cursor and leaves out only what lies behind its
last row (`PageGoesOn`), and that what there was at the first page is in the list or behind its
cursor (`KnownAreCovered`). It survives the writers because a review that is stored keeps its
time, and a booking has one review (`ReviewedOnce`).

**Conversations** (`ConversationProofs`). For the feed, what a fetch of this visit has read lacks a
delivered message only if it was kept aside (`FetchMisses`). A message stays on its way because a
closed socket has no frames left and the hub serves only sockets that are not closed
(`SocketKnown`): what a full queue or a lost connection takes away ends in `needsRefetch`, and
that in a fetch which has not read the page (`StaysOnItsWay`). For the composer, calls are
numbered, and the call with an id's number made the attempt (`CallsBegin`), so that an id never
changes its meaning; `AttemptsAreRemembered` says that the panel goes on with the attempt it made
for its text unless an attachment made it forget. The attempt to prove this showed that an
earlier form of `DuplicatesNeedAttachment`, which every instance with three calls satisfied, is
false with four: the attachment may have been sent before both texts and answered between
them. The property was corrected and the run's bounds were raised to reach the case.

**The process** (`ApiProcessProofs`). The heap matches the dictionary because every change of a
window changes its pair; the bound on memory then needs only that the victims are not empty
at capacity. For the two properties about time, the invariants join each open window with the
admissions in the history since its start, and those before it with the window before. `HubInv`
joins the types with three parts: when the flags of closing may be set (`CloseInv`), which
positions of handler, writer and ending task go together for one socket (`SocketInv`), and how
many events are where (`EventsInv`). On it rests that a writer somebody waits for was cancelled
(`NextAwaited`): who begins to wait cancels first, and no writer begins later.

Assumptions are those of the modules (`ConstantsAssumption`, `LimiterAssumption`, `HubAssumption`,
...), all on constants: owners are users, prices are natural numbers, limits and sizes are
positive, null values are no values. TLC evaluates them in each run.

Model-checked only: the part `GuardsDecide` of `HeldMoneyCanMove`, which says that the guards are the
`ENABLED` of the actions, and liveness (`RequestsFinish`, `RequestsEnd`, `OnItsWayArrives`,
`HubTasksEnd`, and `AccountHeals` but for the types in it): both are beyond the prover. Of the first,
the third and the fourth the proofs give the half that is safety: no requests and no tasks wait in
a circle, and a message stays on its way. Every other property of the passing runs is stated by a theorem.

## 5. Not modelled

- Read positions, read receipts and unread counts (`services/conversations.py`,
  `web/lib/conversations.ts`): `ChatFeed` has the refetch that a receipt causes, not the counts.
- `replaces_deliverable_id`: the service checks it, but no page sends it.
- Expiry, rotation and hashing of session tokens, password hashing, signatures: the models take
  a session or a webhook as accepted or not.
- Two registrations of one address at a time: the second meets the unique constraint and fails
  with an unhandled error; no document promises an answer.
- The creator's profile form, the catalogue's filters and explorer, the admin overview: forms
  and reads whose state nothing else relies on. The cursor of the catalogue is the one of `ReviewList`.
- Rendering, layout, formatting of prices and dates, the Android shell, schemas and
  serialisation (the models start from validated inputs), logs and notifications, migrations
  and seeds, deployment.

What would come next: read positions; the catalogue's explorer with its filters. Attachments and
deliverables are both made of uploads, but an upload has one of the two purposes
(`services/deliverables.py:157`, `services/conversations.py:309`), so `DeliverablesPanel` and
`MessageComposer` need not be composed.
