----------------------------- MODULE MCWebHeals -----------------------------
(***************************************************************************)
(* What the web client and the hub recover from, for TLC: the accounts of  *)
(* AccountPages, a ChatFeed whose connections are lost, and the tasks of a *)
(* ConnectionHub.  They share nothing here (ChatFeed has a hub of its own, *)
(* of one socket and without tasks), so a behaviour is about one of them,  *)
(* the part, and the others do not move.                                   *)
(***************************************************************************)
EXTENDS AccountPages, Naturals

CONSTANTS Messages, Sockets

VARIABLES
  part,
  stored, unsent, answers, notices, losses, hub, queue, mounted, visits, link, connected,
  needsRefetch, hasData, cache, failed, fetch, strays, pending, delivered, taken,
  conns, hubClosed, shutdown, handler, writer, cancelled, term, queued, closed, present,
  events, offered, sent

feedVars ==
  <<stored, unsent, answers, notices, losses, hub, queue, mounted, visits, link, connected,
    needsRefetch, hasData, cache, failed, fetch, strays, pending, delivered, taken>>
hubVars ==
  <<conns, hubClosed, shutdown, handler, writer, cancelled, term, queued, closed, present,
    events, offered, sent>>

(* No message of the viewer's own: those come back with their answer.      *)
Feed == INSTANCE ChatFeed
  WITH Mine <- {}, PageSize <- 2, QueueSize <- 1, MaxNotices <- 1, MaxLosses <- 1,
       MaxVisits <- 1

Hub == INSTANCE ConnectionHub WITH QueueSize <- 1, MaxEvents <- 4, queue <- queued

(* Of the initial states of the other parts one is enough.                 *)
MCInit ==
  /\ AccountInit /\ Feed!FeedInit /\ Hub!HubInit
  /\ part \in {"account", "feed", "hub"}
  /\ part # "account" => \A u \in Users : fullName[u] = CHOOSE name \in Names : TRUE
  /\ part # "feed" => stored = {}

(* Bound: the list of bookings, which AccountHeals is not about, is not    *)
(* answered.                                                               *)
SlowList == fetching["list"].phase # "read"

(* Bound: either a connection is lost otherwise than by an overflow, or a  *)
(* frame without a message is sent.                                        *)
MCNext ==
  /\ \/ part = "account" /\ AccountNext /\ SlowList'
        /\ UNCHANGED <<feedVars, hubVars>>
     \/ part = "feed" /\ Feed!FeedNext /\ notices' + losses' <= 1
        /\ UNCHANGED <<accountVars, hubVars>>
     \/ part = "hub" /\ Hub!HubNext /\ UNCHANGED <<accountVars, feedVars>>
  /\ UNCHANGED part

MCSpec ==
  /\ MCInit /\ [][MCNext]_<<accountVars, feedVars, hubVars, part>>
  /\ \/ part = "account" /\ AccountFairness
     \/ part = "feed" /\ Feed!FeedFairness
     \/ part = "hub" /\ Hub!HubFairness

(* CacheHeals of AccountPages, whose fairness only that part has, with the *)
(* types of its variables.                                                 *)
AccountHeals == []AccountTypeOK /\ (part = "account" => CacheHeals)

(* The properties of ChatFeed and ConnectionHub in their instances.        *)
OnItsWayArrives == Feed!OnItsWayArrives
HubTasksEnd == Hub!ShutdownReturns /\ Hub!GivenUpSocketsEnd
=============================================================================
