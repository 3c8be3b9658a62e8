------------------------------ MODULE ChatFeed ------------------------------
(***************************************************************************)
(* One viewer's feed of one conversation: the hook useConversation of      *)
(* apps/web/src/lib/conversations.ts, which keeps a React Query cache of   *)
(* the first page of messages, a socket that pushes new messages, and the  *)
(* polling that replaces the socket while it is down, composed with what   *)
(* the API does for it (list_messages, create_message, ConnectionHub).     *)
(*                                                                         *)
(* A message is the number of its created_at time.  That time is the start *)
(* of its transaction, so messages may be committed in any order.  The     *)
(* panel never asks for a second page, so the cache holds one page.        *)
(***************************************************************************)
EXTENDS Integers, FiniteSets, Sequences

CONSTANTS
  Messages,    \* messages ever sent in the conversation, by created_at
  Mine,        \* those the viewer sends
  PageSize,    \* messages list_messages returns for one request
  QueueSize,   \* frames the hub keeps for one socket
  MaxNotices,  \* bound of the model on frames that carry no message
  MaxLosses,   \* bound of the model on lost connections and restarts
  MaxVisits    \* bound of the model on how often the panel is mounted

ASSUME FeedAssumption ==
  /\ Messages \subseteq Nat
  /\ IsFiniteSet(Messages)
  /\ Mine \subseteq Messages
  /\ PageSize \in Nat \ {0}
  /\ QueueSize \in Nat \ {0}
  /\ MaxNotices \in Nat
  /\ MaxLosses \in Nat
  /\ MaxVisits \in Nat

VARIABLES
  stored,        \* committed messages
  unsent,        \* committed messages whose broadcast is yet to come
  answers,       \* the viewer's messages whose POST is yet to be answered
  notices,       \* number of frames without a message sent so far
  losses,        \* number of connections lost so far
  hub,           \* the viewer's socket at the server: "out", "accepted", "in", "gone"
  queue,         \* frames on their way to the viewer
  mounted,       \* whether the panel is on the screen
  visits,        \* how often it was mounted
  link,          \* the socket at the client
  connected,     \* the state the hook returns and polling depends on
  needsRefetch,  \* needsRefetchOnOpenRef
  hasData,       \* the query has data
  cache,         \* items of the cached page, which the panel lists
  failed,        \* the query is in its error state
  fetch,         \* the query's fetch in flight
  strays,        \* a cancelled fetch whose queryFn still runs
  pending,       \* pendingMessagesRef for the conversation
  delivered,     \* history: messages the socket handed to this visit
  taken          \* history: pending messages that a stray consumed

feedServerVars == <<stored, unsent, answers, notices, losses>>
socketVars == <<hub, queue, link, connected, needsRefetch>>
visitVars == <<mounted, visits>>
queryVars == <<hasData, cache, failed, fetch, strays>>
pushVars == <<pending, delivered, taken>>
feedVars == <<feedServerVars, socketVars, visitVars, queryVars, pushVars>>
-----------------------------------------------------------------------------
Created(m) == [type |-> "message.created", message |-> m]
Notices == {[type |-> "message.read"], [type |-> "booking.updated"]}
Frames == {Created(m) : m \in Messages} \cup Notices

(* A fetch is idle, asked (the request is on its way) or read (the server  *)
(* has put the page together).  It belongs to this visit of the panel or,  *)
(* with its own pendingMessagesRef, to an earlier one.                     *)
Fetches == [phase : {"idle", "asked", "read"}, page : SUBSET Messages, mine : BOOLEAN]

Idle == [phase |-> "idle", page |-> {}, mine |-> TRUE]
Asked == [Idle EXCEPT !.phase = "asked"]

FeedTypeOK ==
  /\ stored \subseteq Messages
  /\ unsent \subseteq stored
  /\ answers \subseteq Mine \cap stored
  /\ notices \in 0..MaxNotices /\ losses \in 0..MaxLosses
  /\ hub \in {"out", "accepted", "in", "gone"}
  /\ queue \in Seq(Frames)
  /\ mounted \in BOOLEAN /\ visits \in 0..MaxVisits
  /\ link \in {"down", "connecting", "open", "closing"}
  /\ connected \in BOOLEAN /\ needsRefetch \in BOOLEAN
  /\ hasData \in BOOLEAN /\ cache \subseteq Messages
  /\ failed \in BOOLEAN
  /\ fetch \in Fetches
  /\ strays \in BOOLEAN
  /\ pending \subseteq Messages /\ delivered \subseteq Messages /\ taken \subseteq Messages

FeedInit ==
  /\ stored \in SUBSET (Messages \ Mine)
  /\ unsent = {} /\ answers = {} /\ notices = 0 /\ losses = 0
  /\ hub = "out" /\ queue = <<>>
  /\ mounted = FALSE /\ visits = 0
  /\ link = "down" /\ connected = FALSE /\ needsRefetch = FALSE
  /\ hasData = FALSE /\ cache = {} /\ failed = FALSE /\ fetch = Idle /\ strays = FALSE
  /\ pending = {} /\ delivered = {} /\ taken = {}

(* list_messages: the oldest PageSize messages.                            *)
Page(log) == {m \in log : Cardinality({k \in log : k < m}) < PageSize}

(* appendMessage on the single page.                                       *)
AppendMessage(m) ==
  /\ hasData' = TRUE
  /\ cache' = cache \cup {m}
  /\ failed' = FALSE
-----------------------------------------------------------------------------
(* The socket is gone at the server; the frames it had queued are lost,    *)
(* those already on the wire arrive.                                       *)
Drop ==
  /\ hub' = "gone"
  /\ \E n \in 0..Len(queue) : queue' = SubSeq(queue, 1, n)

(* ConnectionHub.broadcast: a socket whose queue is full is closed.        *)
Push(frame) ==
  IF hub # "in" THEN UNCHANGED <<hub, queue>>
  ELSE IF Len(queue) >= QueueSize THEN Drop
  ELSE queue' = Append(queue, frame) /\ UNCHANGED hub

(* create_message commits.  A message of the viewer is sent from the panel.*)
Store(m) ==
  /\ m \notin stored
  /\ m \in Mine => mounted
  /\ stored' = stored \cup {m}
  /\ unsent' = unsent \cup {m}
  /\ answers' = answers \cup ({m} \cap Mine)
  /\ UNCHANGED <<notices, losses, socketVars, visitVars, queryVars, pushVars>>

(* open_dispute and resolve_dispute_for_admin commit a system message too, *)
(* which nobody broadcasts.                                                *)
StoreDisputeNotice(m) ==
  /\ m \notin stored \cup Mine
  /\ stored' = stored \cup {m}
  /\ UNCHANGED <<unsent, answers, notices, losses, socketVars, visitVars, queryVars, pushVars>>

(* safe_broadcast, after the commit and before the response.               *)
Broadcast(m) ==
  /\ m \in unsent
  /\ unsent' = unsent \ {m}
  /\ Push(Created(m))
  /\ UNCHANGED <<stored, answers, notices, losses, link, connected, needsRefetch,
                 visitVars, queryVars, pushVars>>

(* Somebody marked messages as read, or moved the booking or a deliverable.*)
Announce(frame) ==
  /\ notices < MaxNotices
  /\ notices' = notices + 1
  /\ Push(frame)
  /\ UNCHANGED <<stored, unsent, answers, losses, link, connected, needsRefetch,
                 visitVars, queryVars, pushVars>>

(* The API stops between commits and their broadcasts.                     *)
Restart ==
  /\ losses < MaxLosses
  /\ losses' = losses + 1
  /\ unsent' = {}
  /\ answers' = {}
  /\ IF hub \in {"accepted", "in"} THEN Drop ELSE UNCHANGED <<hub, queue>>
  /\ UNCHANGED <<stored, notices, link, connected, needsRefetch, visitVars, queryVars, pushVars>>

(* ConnectionHub.connect accepts the socket, which opens it at the client, *)
(* and registers it afterwards, when it gets the lock.                     *)
Accept ==
  /\ link = "connecting" /\ hub = "out"
  /\ hub' = "accepted"
  /\ UNCHANGED <<queue, link, connected, needsRefetch, feedServerVars, visitVars, queryVars,
                 pushVars>>

Register ==
  /\ hub = "accepted"
  /\ hub' = "in"
  /\ UNCHANGED <<queue, link, connected, needsRefetch, feedServerVars, visitVars, queryVars,
                 pushVars>>

(* A failing connection, a writer whose send times out, a refused client.  *)
Lose ==
  /\ hub \in {"accepted", "in"}
  /\ losses < MaxLosses
  /\ losses' = losses + 1
  /\ Drop
  /\ UNCHANGED <<stored, unsent, answers, notices, link, connected, needsRefetch, visitVars,
                 queryVars, pushVars>>
-----------------------------------------------------------------------------
(* A poll or a focus event joins the fetch in flight.                      *)
StartFetch ==
  /\ fetch.phase = "idle"
  /\ fetch' = Asked
  /\ UNCHANGED strays

(* invalidateQueries and refetchQueries start a new fetch.  The one in     *)
(* flight is joined while there is no data, and otherwise cancelled: its   *)
(* result will be dropped, but its queryFn runs on.                        *)
Refetch ==
  IF fetch.phase # "idle" /\ ~hasData
    THEN UNCHANGED <<fetch, strays>>
    ELSE /\ fetch' = Asked
         /\ strays' = (strays \/ (fetch.phase # "idle" /\ fetch.mine))

FetchReads ==
  /\ fetch.phase = "asked"
  /\ fetch' = [fetch EXCEPT !.phase = "read", !.page = Page(stored)]
  /\ UNCHANGED <<feedServerVars, socketVars, visitVars, hasData, cache, failed, strays, pushVars>>

(* The queryFn merges and forgets the pending messages of its own visit.   *)
FetchResolves ==
  /\ fetch.phase = "read"
  /\ hasData' = TRUE
  /\ cache' = fetch.page \cup (IF fetch.mine THEN pending ELSE {})
  /\ pending' = IF fetch.mine THEN {} ELSE pending
  /\ failed' = FALSE
  /\ fetch' = Idle
  /\ UNCHANGED <<feedServerVars, socketVars, visitVars, strays, delivered, taken>>

(* retry is false: one failed request ends the fetch, cached data stays.   *)
FetchFails ==
  /\ fetch.phase # "idle"
  /\ failed' = TRUE
  /\ fetch' = Idle
  /\ UNCHANGED <<feedServerVars, socketVars, visitVars, hasData, cache, strays, pushVars>>

(* A cancelled queryFn resolves: it takes the pending messages with it, if *)
(* its request succeeded.  Others may still run.                           *)
StrayEnds ==
  /\ strays
  /\ strays' \in BOOLEAN
  /\ \/ taken' = taken \cup pending /\ pending' = {}
     \/ UNCHANGED <<taken, pending>>
  /\ UNCHANGED <<feedServerVars, socketVars, visitVars, hasData, cache, failed, fetch, delivered>>

(* refetchInterval, while the socket is not connected.                     *)
Poll ==
  /\ mounted /\ ~connected
  /\ StartFetch
  /\ UNCHANGED <<feedServerVars, socketVars, visitVars, hasData, cache, failed, pushVars>>

(* refetchOnWindowFocus, when the data is older than its staleTime.        *)
Focus ==
  /\ mounted
  /\ StartFetch
  /\ UNCHANGED <<feedServerVars, socketVars, visitVars, hasData, cache, failed, pushVars>>

(* sendMessage's onSuccess: the created message joins the cached page.     *)
Answer(m) ==
  /\ m \in answers /\ m \notin unsent
  /\ answers' = answers \ {m}
  /\ AppendMessage(m)
  /\ UNCHANGED <<stored, unsent, notices, losses, socketVars, visitVars, fetch, strays, pushVars>>
-----------------------------------------------------------------------------
(* connect(), from the effect or from the reconnect timer.                 *)
Connect ==
  /\ mounted /\ link = "down"
  /\ link' = "connecting"
  /\ hub' = "out" /\ queue' = <<>>
  /\ UNCHANGED <<connected, needsRefetch, feedServerVars, visitVars, queryVars, pushVars>>

OnOpen ==
  /\ link = "connecting" /\ hub # "out"
  /\ link' = "open"
  /\ connected' = TRUE
  /\ needsRefetch' = FALSE
  /\ IF needsRefetch THEN Refetch ELSE UNCHANGED <<fetch, strays>>
  /\ UNCHANGED <<hub, queue, feedServerVars, visitVars, hasData, cache, failed, pushVars>>

(* Variant: a message that arrives during a fetch is not kept aside.       *)
OnMessage_NotKept ==
  /\ link = "open" /\ queue # <<>>
  /\ queue' = Tail(queue)
  /\ LET frame == Head(queue) IN
     \/ /\ frame.type = "message.created"
        /\ pending' = pending
        /\ AppendMessage(frame.message)
        /\ delivered' = delivered \cup {frame.message}
        /\ UNCHANGED <<fetch, strays>>
     \/ /\ frame.type = "message.read"
        /\ Refetch
        /\ UNCHANGED <<pending, hasData, cache, delivered, failed>>
     \/ /\ frame.type = "booking.updated"
        /\ UNCHANGED <<pending, hasData, cache, delivered, failed, fetch, strays>>
  /\ UNCHANGED <<hub, link, connected, needsRefetch, feedServerVars, visitVars, taken>>

(* A pushed message is appended, and kept aside too while a fetch runs,    *)
(* whose page may be older.  A read receipt refetches the page.  The other *)
(* events concern the workspace.                                           *)
OnMessage ==
  /\ link = "open" /\ queue # <<>>
  /\ queue' = Tail(queue)
  /\ LET frame == Head(queue) IN
     \/ /\ frame.type = "message.created"
        /\ pending' = IF fetch.phase = "idle" THEN pending ELSE pending \cup {frame.message}
        /\ AppendMessage(frame.message)
        /\ delivered' = delivered \cup {frame.message}
        /\ UNCHANGED <<fetch, strays>>
     \/ /\ frame.type = "message.read"
        /\ Refetch
        /\ UNCHANGED <<pending, hasData, cache, delivered, failed>>
     \/ /\ frame.type = "booking.updated"
        /\ UNCHANGED <<pending, hasData, cache, delivered, failed, fetch, strays>>
  /\ UNCHANGED <<hub, link, connected, needsRefetch, feedServerVars, visitVars, taken>>

(* The connection was lost, or refused before it was made.                 *)
Ended == hub = "gone" \/ (link = "connecting" /\ hub = "out")

(* After an error the socket is closed and delivers nothing more.          *)
OnError ==
  /\ link \in {"connecting", "open"} /\ Ended
  /\ link' = "closing"
  /\ hub' = "gone" /\ queue' = <<>>
  /\ needsRefetch' = TRUE
  /\ connected' = FALSE
  /\ UNCHANGED <<feedServerVars, visitVars, queryVars, pushVars>>

(* Variant: only an error asks for a refetch on the next opening.          *)
OnClose_NoRefetch ==
  /\ link # "down" /\ Ended /\ queue = <<>>
  /\ link' = "down"
  /\ connected' = FALSE
  /\ UNCHANGED <<hub, queue, needsRefetch, feedServerVars, visitVars, queryVars, pushVars>>

(* The close event comes after the frames that arrived, and arms the timer *)
(* of the next connect().                                                  *)
OnClose ==
  /\ link # "down" /\ Ended /\ queue = <<>>
  /\ link' = "down"
  /\ needsRefetch' = TRUE
  /\ connected' = FALSE
  /\ UNCHANGED <<hub, queue, feedServerVars, visitVars, queryVars, pushVars>>

(* The panel mounts with new refs.  The query fetches if it has no data or *)
(* stale data, or joins the fetch an earlier visit started.                *)
Mount ==
  /\ ~mounted /\ visits < MaxVisits
  /\ mounted' = TRUE
  /\ visits' = visits + 1
  /\ \/ StartFetch
     \/ (fetch.phase # "idle" \/ hasData) /\ UNCHANGED <<fetch, strays>>
  /\ UNCHANGED <<feedServerVars, socketVars, hasData, cache, failed, pushVars>>

(* The effect's cleanup: handlers are removed and sockets closed, the refs *)
(* die with the panel, the cache and its fetch do not.                     *)
Unmount ==
  /\ mounted
  /\ mounted' = FALSE
  /\ hub' = "out" /\ queue' = <<>> /\ link' = "down"
  /\ connected' = FALSE /\ needsRefetch' = FALSE
  /\ fetch' = [fetch EXCEPT !.mine = fetch.phase = "idle"]
  /\ strays' = FALSE
  /\ pending' = {} /\ delivered' = {} /\ taken' = {}
  /\ UNCHANGED <<feedServerVars, visits, hasData, cache, failed>>

ServerStep ==
  \/ \E m \in Messages : Store(m) \/ StoreDisputeNotice(m) \/ Broadcast(m)
  \/ \E frame \in Notices : Announce(frame)
  \/ Restart \/ Accept \/ Register \/ Lose

QueryStep ==
  \/ FetchReads \/ FetchResolves \/ FetchFails \/ StrayEnds
  \/ Poll \/ Focus
  \/ \E m \in Messages : Answer(m)

SocketStep == Connect \/ OnOpen \/ OnMessage \/ OnError \/ OnClose

FeedNext == ServerStep \/ QueryStep \/ SocketStep \/ Mount \/ Unmount

FeedSpec == FeedInit /\ [][FeedNext]_feedVars

(* Timers fire, requests end one way or the other, frames on the wire      *)
(* arrive and the end of a connection is noticed.  Nothing is assumed about*)
(* connections being accepted, nor about the user.                         *)
FeedFairness ==
  /\ \A m \in Messages : WF_feedVars(Broadcast(m))
  /\ WF_feedVars(Register)
  /\ WF_feedVars(FetchReads)
  /\ WF_feedVars(FetchResolves)
  /\ WF_feedVars(Poll)
  /\ WF_feedVars(Connect)
  /\ WF_feedVars(OnOpen)
  /\ WF_feedVars(OnMessage)
  /\ WF_feedVars(OnClose)

FeedFairSpec == FeedSpec /\ FeedFairness
-----------------------------------------------------------------------------
(* A message the socket has delivered stays on the screen, although any    *)
(* fetch may bring back a page that was read before the message was stored.*)
(* It may vanish only when it lies beyond the first page, when the pending *)
(* messages were consumed by a cancelled fetch, or when the fetch was      *)
(* started by an earlier visit and knows nothing of them.                  *)
DeliveredStays ==
  [][\A m \in delivered :
       m \in cache /\ m \notin cache' =>
         \/ m \notin Page(stored)
         \/ m \in taken
         \/ ~fetch.mine]_feedVars

(* The messages among the frames of a queue.                               *)
Carried(frames) ==
  {frames[i].message : i \in {j \in DOMAIN frames : frames[j].type = "message.created"}}

(* What will bring message m to the screen: the broadcast, the queue, the  *)
(* end of the connection, which asks for a refetch, the opening that makes *)
(* it, or a fetch that has not read the page or found m on it.             *)
OnItsWay(m) ==
  \/ m \in unsent /\ hub = "in"
  \/ m \in Carried(queue)
  \/ hub = "gone" /\ link # "down"
  \/ needsRefetch
  \/ fetch.phase = "asked"
  \/ fetch.phase = "read" /\ m \in fetch.page

(* Once the conversation is loaded, a message that is on its way to the    *)
(* screen stays on some way, whatever is lost, refused, restarted, given up*)
(* or overflows: it is shown, a fetch fails, the panel is left, or the     *)
(* message lies beyond the first page.  The panel shows nothing of a fetch *)
(* that failed, so a message that was only on this way is missed silently. *)
NothingForgotten ==
  [][\A m \in stored :
       mounted /\ hasData /\ m \notin cache /\ OnItsWay(m) =>
         \/ m \in cache' \/ OnItsWay(m)'
         \/ failed' /\ fetch.phase # "idle" /\ fetch'.phase = "idle"
         \/ ~mounted'
         \/ m \notin Page(stored)']_feedVars

(* The feed loses neither what it shows nor what is on its way.            *)
FeedKeepsMessages == DeliveredStays /\ NothingForgotten

(* Nothing is on its way for ever: once the conversation is loaded, a      *)
(* message that a broadcast, the queue or the end of a connection could    *)
(* still bring is shown, whatever mixture of crashes, overflowing queues,  *)
(* failing polls and closed or refused sockets comes in between.  Excused  *)
(* are a panel that is left, a message beyond the first page, an outage in *)
(* which polls fail for ever, and the loss that the hook does not notice:  *)
(* a fetch fails after which nothing is asked for again, as the refetch of *)
(* a reopened socket, whose opening ended polling and cleared needsRefetch.*)
(* A fetch that failed before, while something was still to come, excuses  *)
(* nothing.                                                                *)
OnItsWayArrives ==
  \/ []<><<FetchFails /\ ~connected>>_feedVars
  \/ \A m \in Messages :
       m \in stored /\ mounted /\ hasData /\ OnItsWay(m)
         ~> \/ m \in cache \/ ~mounted \/ m \notin Page(stored)
            \/ failed /\ ~OnItsWay(m)

(* What the design says of the page: the client can always catch up with   *)
(* the messages of the server through the REST cursor.                     *)
CatchesUp ==
  \A m \in Messages : m \in stored /\ mounted ~> m \in cache \/ failed \/ ~mounted
=============================================================================
