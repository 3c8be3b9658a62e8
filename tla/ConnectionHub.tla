---------------------------- MODULE ConnectionHub ----------------------------
(***************************************************************************)
(* The hub of the API's web sockets (apps/api/app/realtime.py) and the     *)
(* route that feeds it (conversation_websocket in app/api/conversations.py)*)
(* as asyncio tasks: each socket has the handler of its route, a writer    *)
(* that empties its queue and, once it is given up, one task that ends it. *)
(*                                                                         *)
(* Tasks give way to each other at an await only.  Nothing is awaited while*)
(* the hub's lock is held, so what a task does between two awaits is one   *)
(* step.  A writer takes its first step before it can be cancelled.  Of the*)
(* route that holds because the server's receive() gives way once after the*)
(* handshake, which is taken on trust from the server; other tasks that    *)
(* cancel it are scheduled later.  The sockets here are of one             *)
(* conversation, authorised already.                                       *)
(***************************************************************************)
EXTENDS Naturals, FiniteSets

CONSTANTS
  Sockets,
  QueueSize,  \* queue_size
  MaxEvents   \* bound of the model on broadcasts and pings

ASSUME HubAssumption == QueueSize \in Nat \ {0} /\ MaxEvents \in Nat

VARIABLES
  conns,      \* the sockets in _connections
  hubClosed,  \* _closed
  shutdown,   \* the task _shutdown, and the tasks it gathers
  handler,    \* handler[w]: where the route's coroutine is
  writer,     \* writer[w]: where _writer is
  cancelled,  \* the sockets whose writer was cancelled
  term,       \* term[w]: _terminate_and_close or _close_owned
  queue,      \* queue[w]: the number of events in w's queue
  closed,     \* closed[w]: the flag of w's _Connection
  present,    \* the sockets whose other end is there
  events,     \* number of broadcasts and pings so far
  offered,    \* history: events for w since it was registered
  sent        \* history: events that w's writer has sent

taskVars == <<handler, writer, cancelled, term>>
countVars == <<events, offered, sent>>
hubVars == <<conns, hubClosed, shutdown, taskVars, queue, closed, present, countVars>>
-----------------------------------------------------------------------------
NoTask == [kind |-> "none", phase |-> "none"]
NotClosing == [phase |-> "none", writers |-> {}, cleanups |-> {}]

HubTypeOK ==
  /\ conns \subseteq Sockets /\ hubClosed \in BOOLEAN
  /\ shutdown \in [phase : {"none", "start", "gather", "done"},
                   writers : SUBSET Sockets, cleanups : SUBSET Sockets]
  /\ handler \in [Sockets -> {"new", "accepting", "refusing", "aborting", "receiving",
                              "disconnecting", "awaiting", "done"}]
  /\ writer \in [Sockets -> {"none", "waiting", "sending", "owned", "done"}]
  /\ cancelled \subseteq Sockets
  /\ term \in [Sockets -> [kind : {"none", "terminate", "close"},
                           phase : {"none", "start", "quiescing", "closing", "done"}]]
  /\ queue \in [Sockets -> 0..QueueSize]
  /\ closed \in [Sockets -> BOOLEAN] /\ present \subseteq Sockets
  /\ events \in 0..MaxEvents
  /\ offered \in [Sockets -> 0..MaxEvents] /\ sent \in [Sockets -> 0..MaxEvents]

HubInit ==
  /\ conns = {} /\ hubClosed = FALSE /\ shutdown = NotClosing
  /\ handler = [w \in Sockets |-> "new"]
  /\ writer = [w \in Sockets |-> "none"]
  /\ cancelled = {}
  /\ term = [w \in Sockets |-> NoTask]
  /\ queue = [w \in Sockets |-> 0]
  /\ closed = [w \in Sockets |-> FALSE]
  /\ present = Sockets
  /\ events = 0
  /\ offered = [w \in Sockets |-> 0] /\ sent = [w \in Sockets |-> 0]
-----------------------------------------------------------------------------
Writing(w) == writer[w] \in {"waiting", "sending", "owned"}
Ending(w) == term[w].phase \in {"start", "quiescing", "closing"}

HandlerGoes(w, step) == handler' = [handler EXCEPT ![w] = step]
WriterGoes(w, step) == writer' = [writer EXCEPT ![w] = step]
TermGoes(w, step) == term' = [term EXCEPT ![w].phase = step]

(* _schedule_termination and _schedule_close: one task for a socket.       *)
Schedule(ws, kind) ==
  term' = [w \in Sockets |->
             IF w \in ws /\ ~Ending(w) THEN [kind |-> kind, phase |-> "start"] ELSE term[w]]

(* _close_socket, up to its await: the other end will be gone.             *)
BeginClose(w) ==
  /\ closed' = [closed EXCEPT ![w] = TRUE]
  /\ present' = present \ {w}
-----------------------------------------------------------------------------
(* The route.                                                              *)
Connect(w) ==
  /\ handler[w] = "new"
  /\ HandlerGoes(w, IF hubClosed THEN "done" ELSE "accepting")
  /\ UNCHANGED <<conns, hubClosed, shutdown, writer, cancelled, term, queue, closed, present,
                 countVars>>

Register(w) ==
  /\ conns' = conns \cup {w}
  /\ WriterGoes(w, "waiting")
  /\ HandlerGoes(w, "receiving")
  /\ UNCHANGED <<closed, present>>

(* Variant: the hub is registered with whether or not it was closed.       *)
Accepted_NotRechecked(w) ==
  /\ handler[w] = "accepting"
  /\ Register(w)
  /\ UNCHANGED <<hubClosed, shutdown, cancelled, term, queue, countVars>>

(* accept() returns; the hub may have been closed meanwhile.               *)
Accepted(w) ==
  /\ handler[w] = "accepting"
  /\ IF hubClosed
       THEN /\ BeginClose(w) /\ HandlerGoes(w, "refusing")
            /\ UNCHANGED <<conns, writer>>
       ELSE Register(w)
  /\ UNCHANGED <<hubClosed, shutdown, cancelled, term, queue, countVars>>

AcceptFails(w) ==
  /\ handler[w] = "accepting"
  /\ HandlerGoes(w, "done")
  /\ present' = present \ {w}
  /\ UNCHANGED <<conns, hubClosed, shutdown, writer, cancelled, term, queue, closed, countVars>>

(* The server cancels the handler: a refusal closes the socket again, and  *)
(* nobody waits for the writer any more.                                   *)
HandlerCancelled(w) ==
  /\ \/ handler[w] = "refusing" /\ HandlerGoes(w, "aborting")
     \/ handler[w] = "disconnecting" /\ HandlerGoes(w, "done")
  /\ UNCHANGED <<conns, hubClosed, shutdown, writer, cancelled, term, queue, closed, present,
                 countVars>>

RefusalEnds(w) ==
  /\ handler[w] \in {"refusing", "aborting"}
  /\ HandlerGoes(w, "done")
  /\ UNCHANGED <<conns, hubClosed, shutdown, writer, cancelled, term, queue, closed, present,
                 countVars>>

(* hub.disconnect, when the other end has left or the handler is cancelled.*)
Disconnect(w) ==
  /\ handler[w] \in {"receiving", "awaiting"}
  /\ IF w \in conns
       THEN /\ conns' = conns \ {w}
            /\ cancelled' = cancelled \cup {w}
            /\ HandlerGoes(w, "disconnecting")
       ELSE /\ HandlerGoes(w, "done") /\ UNCHANGED <<conns, cancelled>>
  /\ present' = present \ {w}
  /\ UNCHANGED <<hubClosed, shutdown, writer, term, queue, closed, countVars>>

(* A frame that is not a ping: disconnect_and_close.                       *)
BadFrame(w) ==
  /\ handler[w] = "receiving"
  /\ HandlerGoes(w, IF Ending(w) \/ w \in conns THEN "awaiting" ELSE "done")
  /\ conns' = conns \ {w}
  /\ Schedule({w} \cap conns, "terminate")
  /\ UNCHANGED <<hubClosed, shutdown, writer, cancelled, queue, closed, present, countVars>>

(* put_nowait raises QueueFull.                                            *)
Full(ws) == {w \in ws : queue[w] = QueueSize}

(* _enqueue_locked for the sockets ws; those whose queue is full are given *)
(* up.                                                                     *)
Enqueue(ws) ==
  /\ queue' = [w \in Sockets |-> IF w \in ws \ Full(ws) THEN queue[w] + 1 ELSE queue[w]]
  /\ offered' = [w \in Sockets |-> IF w \in ws THEN offered[w] + 1 ELSE offered[w]]
  /\ conns' = conns \ Full(ws)
  /\ Schedule(Full(ws), "terminate")

(* send_to answers with a pong; the handler of a socket that is not        *)
(* registered any more ends.                                               *)
Ping(w) ==
  /\ handler[w] = "receiving"
  /\ events < MaxEvents /\ events' = events + 1
  /\ Enqueue({w} \cap conns)
  /\ IF w \in conns \ Full(conns) THEN UNCHANGED handler ELSE HandlerGoes(w, "done")
  /\ UNCHANGED <<hubClosed, shutdown, writer, cancelled, closed, present, sent>>

HandlerEnds(w) ==
  /\ \/ handler[w] = "disconnecting" /\ ~Writing(w)
     \/ handler[w] = "awaiting" /\ ~Ending(w)
  /\ HandlerGoes(w, "done")
  /\ UNCHANGED <<conns, hubClosed, shutdown, writer, cancelled, term, queue, closed, present,
                 countVars>>

(* broadcast, from the handler of a request.                               *)
Broadcast ==
  /\ events < MaxEvents /\ events' = events + 1
  /\ Enqueue(conns)
  /\ UNCHANGED <<hubClosed, shutdown, handler, writer, cancelled, closed, present, sent>>

ClientLeaves(w) ==
  /\ w \in present
  /\ present' = present \ {w}
  /\ UNCHANGED <<conns, hubClosed, shutdown, taskVars, queue, closed, countVars>>
-----------------------------------------------------------------------------
(* The writer.                                                             *)
Send(w) ==
  /\ writer[w] = "waiting" /\ w \notin cancelled /\ queue[w] > 0
  /\ queue' = [queue EXCEPT ![w] = @ - 1]
  /\ WriterGoes(w, "sending")
  /\ UNCHANGED <<conns, hubClosed, shutdown, handler, cancelled, term, closed, present, countVars>>

SendSucceeds(w) ==
  /\ writer[w] = "sending" /\ w \notin cancelled
  /\ sent' = [sent EXCEPT ![w] = @ + 1]
  /\ WriterGoes(w, "waiting")
  /\ UNCHANGED <<conns, hubClosed, shutdown, handler, cancelled, term, queue, closed, present,
                 events, offered>>

(* An error or the timeout: _detach_and_schedule_close, and the writer     *)
(* waits for whoever ends the socket.                                      *)
SendFails(w) ==
  /\ writer[w] = "sending" /\ w \notin cancelled
  /\ conns' = conns \ {w}
  /\ Schedule({w} \cap conns, "close")
  /\ WriterGoes(w, IF Ending(w) \/ w \in conns THEN "owned" ELSE "done")
  /\ UNCHANGED <<hubClosed, shutdown, handler, cancelled, queue, closed, present, countVars>>

(* Variant: the writer takes its cancellation for an error of the socket.  *)
WriterEnds_Swallows(w) ==
  /\ writer[w] = "owned" /\ ~Ending(w)
  /\ WriterGoes(w, "done")
  /\ UNCHANGED <<conns, hubClosed, shutdown, handler, cancelled, term, queue, closed, present,
                 countVars>>

WriterEnds(w) ==
  /\ Writing(w)
  /\ w \in cancelled \/ (writer[w] = "owned" /\ ~Ending(w))
  /\ WriterGoes(w, "done")
  /\ UNCHANGED <<conns, hubClosed, shutdown, handler, cancelled, term, queue, closed, present,
                 countVars>>
-----------------------------------------------------------------------------
(* The task that ends a socket.                                            *)
Close(w) ==
  IF closed[w] THEN TermGoes(w, "done") /\ UNCHANGED <<closed, present>>
  ELSE TermGoes(w, "closing") /\ BeginClose(w)

(* Variant: the socket is closed while its writer goes on.                 *)
TermStarts_NotQuiet(w) ==
  /\ term[w].phase = "start"
  /\ cancelled' = IF Writing(w) THEN cancelled \cup {w} ELSE cancelled
  /\ Close(w)
  /\ UNCHANGED <<conns, hubClosed, shutdown, handler, writer, queue, countVars>>

(* _cancel_writer, which _close_owned leaves out: the writer waits for it. *)
TermStarts(w) ==
  /\ term[w].phase = "start"
  /\ IF term[w].kind = "terminate" /\ Writing(w)
       THEN /\ cancelled' = cancelled \cup {w}
            /\ TermGoes(w, "quiescing") /\ UNCHANGED <<closed, present>>
       ELSE Close(w) /\ UNCHANGED cancelled
  /\ UNCHANGED <<conns, hubClosed, shutdown, handler, writer, queue, countVars>>

TermCloses(w) ==
  /\ term[w].phase = "quiescing" /\ ~Writing(w)
  /\ Close(w)
  /\ UNCHANGED <<conns, hubClosed, shutdown, handler, writer, cancelled, queue, countVars>>

(* close() returns, fails or times out.                                    *)
TermEnds(w) ==
  /\ term[w].phase = "closing"
  /\ TermGoes(w, "done")
  /\ UNCHANGED <<conns, hubClosed, shutdown, handler, writer, cancelled, queue, closed, present,
                 countVars>>
-----------------------------------------------------------------------------
(* close(), when the application stops.                                    *)
CloseHub ==
  /\ ~hubClosed
  /\ hubClosed' = TRUE
  /\ Schedule(conns, "terminate")
  /\ conns' = {}
  /\ shutdown' = [shutdown EXCEPT !.phase = "start"]
  /\ UNCHANGED <<handler, writer, cancelled, queue, closed, present, countVars>>

(* Variant: only the writers are waited for.                               *)
ShutdownStarts_WritersOnly ==
  LET writers == {w \in Sockets : Writing(w)} IN
  /\ shutdown.phase = "start"
  /\ shutdown' = [phase |-> "gather", writers |-> writers, cleanups |-> {}]
  /\ cancelled' = cancelled \cup writers
  /\ UNCHANGED <<conns, hubClosed, handler, writer, term, queue, closed, present, countVars>>

ShutdownStarts ==
  LET writers == {w \in Sockets : Writing(w)} IN
  /\ shutdown.phase = "start"
  /\ shutdown' = [phase |-> "gather", writers |-> writers,
                  cleanups |-> {w \in Sockets : Ending(w)}]
  /\ cancelled' = cancelled \cup writers
  /\ UNCHANGED <<conns, hubClosed, handler, writer, term, queue, closed, present, countVars>>

ShutdownEnds ==
  /\ shutdown.phase = "gather"
  /\ \A w \in shutdown.writers : ~Writing(w)
  /\ \A w \in shutdown.cleanups : ~Ending(w)
  /\ shutdown' = [shutdown EXCEPT !.phase = "done"]
  /\ UNCHANGED <<conns, hubClosed, taskVars, queue, closed, present, countVars>>

RouteStep(w) ==
  \/ Connect(w) \/ Accepted(w) \/ AcceptFails(w) \/ RefusalEnds(w) \/ HandlerCancelled(w)
  \/ Disconnect(w) \/ BadFrame(w) \/ Ping(w) \/ HandlerEnds(w) \/ ClientLeaves(w)

WriterStep(w) == Send(w) \/ SendSucceeds(w) \/ SendFails(w) \/ WriterEnds(w)

TermStep(w) == TermStarts(w) \/ TermCloses(w) \/ TermEnds(w)

ShutdownStep == ShutdownStarts \/ ShutdownEnds

HubNext ==
  \/ \E w \in Sockets : RouteStep(w) \/ WriterStep(w) \/ TermStep(w)
  \/ Broadcast \/ CloseHub \/ ShutdownStep

(* The event loop runs every task that can go on.  accept, send and close  *)
(* end: the latter two by their timeouts.  A handler is told that its      *)
(* socket is closed.                                                       *)
HubFairness ==
  /\ WF_hubVars(ShutdownStep)
  /\ \A w \in Sockets :
       /\ WF_hubVars(WriterStep(w)) /\ WF_hubVars(TermStep(w))
       /\ WF_hubVars(Accepted(w) \/ AcceptFails(w)) /\ WF_hubVars(RefusalEnds(w))
       /\ WF_hubVars(w \notin present /\ Disconnect(w)) /\ WF_hubVars(HandlerEnds(w))

HubSpec == HubInit /\ [][HubNext]_hubVars /\ HubFairness
-----------------------------------------------------------------------------
(* A registered socket is served: its writer runs, nobody ends it, and     *)
(* every event since its registration was sent, is being sent or is queued.*)
RegisteredIsServed ==
  \A w \in conns :
    /\ writer[w] \in {"waiting", "sending"} /\ w \notin cancelled
    /\ ~closed[w] /\ ~Ending(w)
    /\ offered[w] = sent[w] + queue[w] + (IF writer[w] = "sending" THEN 1 ELSE 0)

(* A socket is closed when its writer does not use it any more: the frame  *)
(* that is being sent ends first, or is given up.                          *)
QuietBeforeClose ==
  \A w \in Sockets : closed[w] => writer[w] \in {"none", "owned", "done"}

(* Who waits for a writer: _terminate_and_close and disconnect, after they *)
(* have cancelled it, and close().                                         *)
WriterIsAwaited(w) ==
  \/ term[w].phase = "quiescing"
  \/ handler[w] = "disconnecting"
  \/ shutdown.phase = "gather" /\ w \in shutdown.writers

(* A writer that somebody waits for was told to end.  Only such a writer   *)
(* ends by itself: one whose frame failed waits for the task that ends its *)
(* socket, and that task would wait for it.                                *)
AwaitedWritersEnd ==
  \A w \in Sockets : WriterIsAwaited(w) /\ Writing(w) => w \in cancelled

(* Writers end before their sockets, and nobody waits for one in vain.     *)
WritersEndFirst == QuietBeforeClose /\ AwaitedWritersEnd

(* When close() returns nothing of the hub is left: no socket, writer or   *)
(* task that ends one, although sockets are accepted, fail and are given up*)
(* while it runs.                                                          *)
ShutdownLeavesNothing ==
  shutdown.phase = "done" => conns = {} /\ \A w \in Sockets : ~Writing(w) /\ ~Ending(w)

(* The writer that waits for the task that ends its socket, that task, the *)
(* handler and the shutdown wait for each other in no circle.              *)
ShutdownReturns == hubClosed ~> shutdown.phase = "done"

(* A slow or failing socket that was given up is ended, and its tasks with *)
(* it.                                                                     *)
GivenUpSocketsEnd ==
  \A w \in Sockets :
    Writing(w) /\ w \notin conns ~> ~Writing(w) /\ ~Ending(w) /\ handler[w] = "done"
=============================================================================
