------------------------- MODULE ConversationProofs -------------------------
(***************************************************************************)
(* Theorems about ChatFeed and MessageComposer, for any messages, texts and*)
(* attachments, any page and queue, and any number of losses, visits and   *)
(* calls.                                                                  *)
(*                                                                         *)
(* The feed: a pushed message stays because whatever a fetch of this visit *)
(* has read lacks it only if the message was kept aside (FetchMisses).     *)
(* One that is on its way stays on some way because what a lost connection *)
(* takes away ends in the refetch of the next opening (StaysOnItsWay).     *)
(* The composer: an id is one message because the call with its number made*)
(* it (CallsBegin); a text is sent by two attempts only if an attachment   *)
(* made the panel forget the first (AttemptsAreRemembered).                *)
(***************************************************************************)
EXTENDS MCConversationPanel, FiniteSetTheorems, TLAPS

(* What a fetch of this visit has read is missing a delivered message only *)
(* if the message is kept aside, a stray took it, or it is not on the page.*)
FetchMisses ==
  fetch.phase = "read" /\ fetch.mine =>
    \A m \in delivered : m \in fetch.page \cup pending \cup taken \/ m \notin Page(stored)

FeedInductive ==
  /\ FeedTypeOK
  /\ Carried(queue) \cup delivered \subseteq stored
  /\ FetchMisses

LEMMA FrameShapes ==
  /\ \A frame \in Frames : frame.type = "message.created" => frame.message \in Messages
  /\ \A m \in Messages : Created(m) \in Frames /\ Created(m).message = m
  /\ Notices \subseteq Frames
  /\ \A frame \in Notices : frame.type # "message.created"
BY DEF Frames, Created, Notices

LEMMA FetchShapes ==
  /\ Idle \in Fetches /\ Asked \in Fetches
  /\ Idle.phase = "idle" /\ Asked.phase = "asked"
BY DEF Idle, Asked, Fetches

(* A message that more messages leave on the first page was on it.         *)
LEMMA PagesShrink ==
  ASSUME NEW few, NEW more, few \subseteq more, more \subseteq Messages,
         NEW m \in few, m \in Page(more)
  PROVE  m \in Page(few)
<1> DEFINE Older(s) == {k \in s : k < m}
<1>1. IsFiniteSet(Older(more))
  BY FS_Subset, FeedAssumption
<1>2. Older(few) \subseteq Older(more)
  OBVIOUS
<1>3. /\ Cardinality(Older(few)) \in Nat /\ Cardinality(Older(more)) \in Nat
      /\ Cardinality(Older(few)) <= Cardinality(Older(more))
  <2>1. IsFiniteSet(Older(few))
    BY <1>1, <1>2, FS_Subset
  <2>2. QED
    BY <1>1, <1>2, <2>1, FS_Subset, FS_CardinalityType
<1>4. Cardinality(Older(more)) < PageSize
  BY DEF Page
<1>5. Cardinality(Older(few)) < PageSize
  BY <1>3, <1>4, FeedAssumption
<1>6. QED
  BY <1>5 DEF Page

LEMMA PagesAreMessages == ASSUME NEW few \in SUBSET Messages PROVE Page(few) \in SUBSET Messages
BY DEF Page

LEMMA ShorterQueues ==
  ASSUME NEW frames \in Seq(Frames), NEW n \in 0..Len(frames), NEW fewer,
         fewer = SubSeq(frames, 1, n)
  PROVE  fewer \in Seq(Frames) /\ Carried(fewer) \subseteq Carried(frames)
<1>1. Len(frames) \in Nat /\ DOMAIN frames = 1..Len(frames)
  OBVIOUS
<1>2. fewer \in Seq(Frames) /\ Len(fewer) = n /\ \A i \in 1..n : fewer[i] = frames[i]
  BY <1>1
<1>3. DOMAIN fewer = 1..n /\ 1..n \subseteq DOMAIN frames
  BY <1>1, <1>2
<1>4. QED
  BY <1>2, <1>3 DEF Carried

LEMMA RestOfQueue ==
  ASSUME NEW frames \in Seq(Frames), frames # <<>>, NEW rest, rest = Tail(frames)
  PROVE  /\ rest \in Seq(Frames) /\ Carried(rest) \subseteq Carried(frames)
         /\ \A m \in Carried(frames) :
              m \in Carried(rest) \/ (Head(frames).type = "message.created" /\ m = Head(frames).message)
         /\ Head(frames) \in Frames
         /\ Head(frames).type = "message.created" => Head(frames).message \in Carried(frames)
<1>1. Len(frames) \in Nat \ {0} /\ DOMAIN frames = 1..Len(frames)
  OBVIOUS
<1>2. /\ rest \in Seq(Frames) /\ DOMAIN rest = 1..Len(frames) - 1
      /\ \A i \in 1..Len(frames) - 1 : rest[i] = frames[i + 1] /\ i + 1 \in DOMAIN frames
  BY <1>1
<1>3. Head(frames) = frames[1] /\ 1 \in DOMAIN frames /\ frames[1] \in Frames
  BY <1>1
<1>4. \A i \in DOMAIN frames : i = 1 \/ i - 1 \in 1..Len(frames) - 1
  BY <1>1
<1>5. \A i \in DOMAIN frames : i = 1 \/ \E j \in DOMAIN rest : rest[j] = frames[i]
  BY <1>1, <1>2, <1>4
<1>6. \A m \in Carried(frames) :
        m \in Carried(rest) \/ (Head(frames).type = "message.created" /\ m = Head(frames).message)
  <2>1. SUFFICES ASSUME NEW i \in DOMAIN frames, frames[i].type = "message.created"
                 PROVE  \/ frames[i].message \in Carried(rest)
                        \/ /\ Head(frames).type = "message.created"
                           /\ frames[i].message = Head(frames).message
    BY DEF Carried
  <2>2. CASE i = 1
    BY <1>3, <2>1, <2>2
  <2>3. CASE \E j \in DOMAIN rest : rest[j] = frames[i]
    BY <2>1, <2>3 DEF Carried
  <2>4. QED
    BY <1>5, <2>2, <2>3
<1>7. Carried(rest) \subseteq Carried(frames)
  BY <1>2 DEF Carried
<1>8. QED
  BY <1>2, <1>3, <1>6, <1>7 DEF Carried

LEMMA LongerQueues ==
  ASSUME NEW frames \in Seq(Frames), NEW frame \in Frames, NEW longer,
         longer = Append(frames, frame)
  PROVE  /\ longer \in Seq(Frames)
         /\ \A m \in Carried(longer) :
              m \in Carried(frames) \/ (frame.type = "message.created" /\ m = frame.message)
         /\ Carried(frames) \subseteq Carried(longer)
         /\ frame.type = "message.created" => frame.message \in Carried(longer)
<1>1. Len(frames) \in Nat /\ DOMAIN frames = 1..Len(frames)
  OBVIOUS
<1>2. /\ longer \in Seq(Frames) /\ DOMAIN longer = 1..Len(frames) + 1
      /\ longer[Len(frames) + 1] = frame
      /\ \A i \in 1..Len(frames) : longer[i] = frames[i]
  BY <1>1
<1>3. \A i \in 1..Len(frames) + 1 : i \in 1..Len(frames) \/ i = Len(frames) + 1
  BY <1>1
<1>4. QED
  BY <1>1, <1>2, <1>3 DEF Carried

LEMMA EmptyQueue == <<>> \in Seq(Frames) /\ Carried(<<>>) = {}
BY DEF Carried

(* What a loss and a broadcast leave in the queue.                         *)
LEMMA Dropped ==
  ASSUME FeedInductive, Drop
  PROVE  hub' = "gone" /\ queue' \in Seq(Frames) /\ Carried(queue') \subseteq stored
<1>1. PICK n \in 0..Len(queue) : queue' = SubSeq(queue, 1, n)
  BY DEF Drop
<1>2. PICK fewer : fewer = queue'
  OBVIOUS
<1>3. fewer \in Seq(Frames) /\ Carried(fewer) \subseteq Carried(queue)
  BY <1>1, <1>2, ShorterQueues DEF FeedInductive, FeedTypeOK
<1>4. QED
  BY <1>2, <1>3 DEF Drop, FeedInductive

LEMMA Pushed ==
  ASSUME FeedInductive, NEW frame \in Frames, Push(frame),
         frame.type = "message.created" => frame.message \in stored
  PROVE  /\ hub' \in {"out", "accepted", "in", "gone"}
         /\ queue' \in Seq(Frames) /\ Carried(queue') \subseteq stored
<1>1. CASE UNCHANGED <<hub, queue>>
  BY <1>1 DEF FeedInductive, FeedTypeOK
<1>2. CASE Drop
  BY <1>2, Dropped
<1>3. CASE queue' = Append(queue, frame) /\ UNCHANGED hub
  <2>1. PICK longer : longer = queue'
    OBVIOUS
  <2>2. /\ longer \in Seq(Frames)
        /\ \A m \in Carried(longer) :
             m \in Carried(queue) \/ (frame.type = "message.created" /\ m = frame.message)
    BY <1>3, <2>1, LongerQueues DEF FeedInductive, FeedTypeOK
  <2>3. QED
    BY <1>3, <2>1, <2>2 DEF FeedInductive, FeedTypeOK
<1>4. QED
  BY <1>1, <1>2, <1>3 DEF Push

LEMMA InitFeed == FeedInit => FeedInductive
<1> SUFFICES ASSUME FeedInit PROVE FeedInductive
  OBVIOUS
<1>1. FeedTypeOK
  <2>1. 0 \in 0..MaxNotices /\ 0 \in 0..MaxLosses /\ 0 \in 0..MaxVisits
    BY FeedAssumption
  <2>2. stored \subseteq Messages /\ fetch \in Fetches /\ queue \in Seq(Frames)
    BY FetchShapes, EmptyQueue DEF FeedInit
  <2>3. QED
    BY <2>1, <2>2 DEF FeedInit, FeedTypeOK
<1>2. QED
  BY <1>1, EmptyQueue DEF FeedInit, FeedInductive, FetchMisses, Idle

LEMMA ServerSteps == FeedInductive /\ ServerStep => FeedInductive'
<1> SUFFICES ASSUME FeedInductive, ServerStep PROVE FeedInductive'
  OBVIOUS
<1>0. FeedTypeOK
  BY DEF FeedInductive
<1>1. ASSUME NEW m \in Messages, Store(m) \/ StoreDisputeNotice(m) PROVE FeedInductive'
  <2>1. /\ stored' = stored \cup {m} /\ stored' \subseteq Messages
        /\ unsent' \subseteq stored' /\ answers' \subseteq Mine \cap stored'
        /\ UNCHANGED <<notices, losses, hub, queue, link, connected, needsRefetch, mounted, visits>>
        /\ UNCHANGED <<hasData, cache, failed, fetch, strays, pending, delivered, taken>>
    BY <1>0, <1>1 DEF Store, StoreDisputeNotice, FeedTypeOK, socketVars, visitVars, queryVars, pushVars
  <2>2. FeedTypeOK'
    BY <1>0, <2>1 DEF FeedTypeOK
  <2>3. \A k \in stored : k \in Page(stored') => k \in Page(stored)
    BY <2>1, PagesShrink
  <2>4. Page(stored)' = Page(stored')
    BY DEF Page
  <2>5. QED
    BY <2>1, <2>2, <2>3, <2>4 DEF FeedInductive, FetchMisses, Carried
<1>2. ASSUME hub' \in {"out", "accepted", "in", "gone"}, queue' \in Seq(Frames),
             Carried(queue') \subseteq stored,
             unsent' \subseteq unsent, answers' \subseteq answers,
             notices' \in 0..MaxNotices, losses' \in 0..MaxLosses,
             UNCHANGED <<stored, link, connected, needsRefetch, visitVars, queryVars, pushVars>>
      PROVE  FeedInductive'
  <2>1. UNCHANGED <<stored, link, connected, needsRefetch, mounted, visits, hasData, cache>>
    BY <1>2 DEF visitVars, queryVars
  <2>2. UNCHANGED <<failed, fetch, strays, pending, delivered, taken>>
    BY <1>2 DEF queryVars, pushVars
  <2>3. FeedTypeOK'
    BY <1>0, <1>2, <2>1, <2>2 DEF FeedTypeOK
  <2>4. FetchMisses'
    BY <2>1, <2>2 DEF FeedInductive, FetchMisses, Page
  <2>5. Carried(queue)' \cup delivered' \subseteq stored'
    BY <1>2, <2>1, <2>2 DEF FeedInductive, Carried
  <2>6. QED
    BY <2>3, <2>4, <2>5 DEF FeedInductive
<1>3. ASSUME NEW m \in Messages, Broadcast(m) PROVE FeedInductive'
  <2>1. m \in stored /\ Push(Created(m)) /\ unsent' \subseteq unsent
    BY <1>0, <1>3 DEF Broadcast, FeedTypeOK
  <2>2. /\ hub' \in {"out", "accepted", "in", "gone"}
        /\ queue' \in Seq(Frames) /\ Carried(queue') \subseteq stored
    BY <2>1, FrameShapes, Pushed
  <2>3. QED
    BY <1>0, <1>2, <1>3, <2>1, <2>2 DEF Broadcast, FeedTypeOK
<1>4. ASSUME NEW frame \in Notices, Announce(frame) PROVE FeedInductive'
  <2>1. Push(frame)
    BY <1>4 DEF Announce
  <2>2. /\ hub' \in {"out", "accepted", "in", "gone"}
        /\ queue' \in Seq(Frames) /\ Carried(queue') \subseteq stored
    BY <2>1, FrameShapes, Pushed
  <2>3. notices' \in 0..MaxNotices
    BY <1>0, <1>4, FeedAssumption DEF Announce, FeedTypeOK
  <2>4. QED
    BY <1>0, <1>2, <1>4, <2>2, <2>3 DEF Announce, FeedTypeOK
<1>5. ASSUME losses < MaxLosses PROVE losses + 1 \in 0..MaxLosses
  BY <1>0, <1>5, FeedAssumption DEF FeedTypeOK
<1>6. CASE Restart
  <2>1. Drop \/ UNCHANGED <<hub, queue>>
    BY <1>6 DEF Restart
  <2>2. /\ hub' \in {"out", "accepted", "in", "gone"}
        /\ queue' \in Seq(Frames) /\ Carried(queue') \subseteq stored
    BY <1>0, <2>1, Dropped DEF FeedInductive, FeedTypeOK
  <2>3. QED
    BY <1>0, <1>2, <1>5, <1>6, <2>2 DEF Restart, FeedTypeOK
<1>7. CASE Accept \/ Register
  <2>1. hub' \in {"accepted", "in"} /\ queue' = queue
    BY <1>7 DEF Accept, Register
  <2>2. QED
    BY <1>0, <1>2, <1>7, <2>1 DEF Accept, Register, FeedInductive, FeedTypeOK, feedServerVars
<1>8. CASE Lose
  BY <1>0, <1>2, <1>5, <1>8, Dropped DEF Lose, FeedTypeOK
<1>9. QED
  BY <1>1, <1>3, <1>4, <1>6, <1>7, <1>8 DEF ServerStep

(* What a fetch is after it was started, joined or given up.               *)
LEMMA Fetched ==
  ASSUME FeedInductive, StartFetch \/ Refetch \/ UNCHANGED <<fetch, strays>>
  PROVE  /\ fetch' \in Fetches /\ strays' \in BOOLEAN
         /\ fetch' = fetch \/ fetch'.phase = "asked"
<1>1. FeedTypeOK
  BY DEF FeedInductive
<1>2. QED
  BY <1>1, FetchShapes DEF StartFetch, Refetch, FeedTypeOK

LEMMA QuerySteps == FeedInductive /\ QueryStep => FeedInductive'
<1> SUFFICES ASSUME FeedInductive, QueryStep PROVE FeedInductive'
  OBVIOUS
<1>0. FeedTypeOK
  BY DEF FeedInductive
<1>1. ASSUME fetch' \in Fetches, strays' \in BOOLEAN, hasData' \in BOOLEAN, failed' \in BOOLEAN,
             cache' \subseteq Messages, pending' \subseteq Messages, taken' \subseteq Messages,
             answers' \subseteq answers, FetchMisses',
             UNCHANGED <<stored, unsent, notices, losses, socketVars, visitVars, delivered>>
      PROVE  FeedInductive'
  <2>1. UNCHANGED <<hub, queue, link, connected, needsRefetch, mounted, visits>>
    BY <1>1 DEF socketVars, visitVars
  <2>2. FeedTypeOK'
    BY <1>0, <1>1, <2>1 DEF FeedTypeOK
  <2>3. Carried(queue)' \cup delivered' \subseteq stored'
    BY <1>1, <2>1 DEF FeedInductive, Carried
  <2>4. QED
    BY <1>1, <2>2, <2>3 DEF FeedInductive
<1>2. CASE FetchReads
  <2>1. /\ fetch.phase = "asked" /\ fetch' = [fetch EXCEPT !.phase = "read", !.page = Page(stored)]
        /\ UNCHANGED <<stored, unsent, answers, notices, losses, socketVars, visitVars>>
        /\ UNCHANGED <<hasData, cache, failed, strays, pending, delivered, taken>>
    BY <1>2 DEF FetchReads, feedServerVars, pushVars
  <2>2. fetch' \in Fetches /\ fetch'.page = Page(stored)
    BY <1>0, <2>1, PagesAreMessages DEF FeedTypeOK, Fetches
  <2>3. FetchMisses'
    BY <2>1, <2>2 DEF FetchMisses, Page
  <2>4. QED
    BY <1>0, <1>1, <2>1, <2>2, <2>3 DEF FeedTypeOK
<1>3. CASE FetchResolves
  <2>1. /\ cache' \subseteq Messages /\ pending' \subseteq Messages
        /\ hasData' = TRUE /\ failed' = FALSE /\ fetch' = Idle
        /\ UNCHANGED <<feedServerVars, socketVars, visitVars, strays, delivered, taken>>
    BY <1>0, <1>3 DEF FetchResolves, FeedTypeOK, Fetches
  <2>2. FetchMisses'
    BY <2>1, FetchShapes DEF FetchMisses
  <2>3. QED
    BY <1>0, <1>1, <2>1, <2>2, FetchShapes DEF FeedTypeOK, feedServerVars
<1>4. CASE FetchFails
  <2>1. FetchMisses'
    BY <1>4, FetchShapes DEF FetchFails, FetchMisses
  <2>2. QED
    BY <1>0, <1>1, <1>4, <2>1, FetchShapes DEF FetchFails, FeedTypeOK, feedServerVars, pushVars
<1>5. CASE StrayEnds
  <2>1. /\ strays' \in BOOLEAN /\ pending' \subseteq Messages /\ taken' \subseteq Messages
        /\ pending \cup taken \subseteq pending' \cup taken'
        /\ UNCHANGED <<feedServerVars, socketVars, visitVars, hasData, cache, failed, fetch, delivered>>
    BY <1>0, <1>5 DEF StrayEnds, FeedTypeOK
  <2>2. FetchMisses'
    BY <2>1 DEF FetchMisses, FeedInductive, Page, feedServerVars
  <2>3. QED
    BY <1>0, <1>1, <2>1, <2>2 DEF FeedTypeOK, feedServerVars
<1>6. CASE Poll \/ Focus
  <2>1. /\ StartFetch
        /\ UNCHANGED <<feedServerVars, socketVars, visitVars, hasData, cache, failed, pushVars>>
    BY <1>6 DEF Poll, Focus
  <2>2. /\ fetch' \in Fetches /\ strays' \in BOOLEAN
        /\ fetch' = fetch \/ fetch'.phase = "asked"
    BY <2>1, Fetched
  <2>3. FetchMisses'
    BY <2>1, <2>2 DEF FetchMisses, FeedInductive, Page, feedServerVars, pushVars
  <2>4. QED
    BY <1>0, <1>1, <2>1, <2>2, <2>3 DEF FeedTypeOK, feedServerVars, pushVars
<1>7. ASSUME NEW m \in Messages, Answer(m) PROVE FeedInductive'
  <2>1. /\ answers' \subseteq answers /\ hasData' = TRUE /\ failed' = FALSE
        /\ cache' \subseteq Messages
        /\ UNCHANGED <<stored, unsent, notices, losses, socketVars, visitVars, fetch, strays, pushVars>>
    BY <1>0, <1>7 DEF Answer, AppendMessage, FeedTypeOK
  <2>2. FetchMisses'
    BY <2>1 DEF FetchMisses, FeedInductive, Page, pushVars
  <2>3. QED
    BY <1>0, <1>1, <2>1, <2>2 DEF FeedTypeOK, pushVars
<1>8. QED
  BY <1>2, <1>3, <1>4, <1>5, <1>6, <1>7 DEF QueryStep

LEMMA SocketSteps ==
  FeedInductive /\ (SocketStep \/ Mount \/ Unmount) => FeedInductive'
<1> SUFFICES ASSUME FeedInductive, SocketStep \/ Mount \/ Unmount PROVE FeedInductive'
  OBVIOUS
<1>0. FeedTypeOK
  BY DEF FeedInductive
<1>1. ASSUME hub' \in {"out", "accepted", "in", "gone"}, queue' \in Seq(Frames),
             Carried(queue') \subseteq stored,
             link' \in {"down", "connecting", "open", "closing"},
             connected' \in BOOLEAN, needsRefetch' \in BOOLEAN,
             mounted' \in BOOLEAN, visits' \in 0..MaxVisits,
             fetch' \in Fetches, strays' \in BOOLEAN, hasData' \in BOOLEAN, failed' \in BOOLEAN,
             cache' \subseteq Messages, pending' \subseteq Messages, taken' \subseteq Messages,
             delivered' \subseteq stored, FetchMisses', UNCHANGED feedServerVars
      PROVE  FeedInductive'
  <2>1. UNCHANGED <<stored, unsent, answers, notices, losses>>
    BY <1>1 DEF feedServerVars
  <2>2. FeedTypeOK'
    BY <1>0, <1>1, <2>1 DEF FeedTypeOK
  <2>3. Carried(queue)' \cup delivered' \subseteq stored'
    BY <1>1, <2>1 DEF Carried
  <2>4. QED
    BY <1>1, <2>2, <2>3 DEF FeedInductive
<1>2. ASSUME fetch' = fetch \/ fetch'.phase \in {"idle", "asked"}, UNCHANGED stored,
             UNCHANGED pushVars
      PROVE  FetchMisses'
  BY <1>2 DEF FetchMisses, FeedInductive, Page, pushVars
<1>3. CASE Connect \/ OnError \/ OnClose
  <2>1. /\ hub' \in {"out", "accepted", "in", "gone"}
        /\ queue' = queue \/ queue' = <<>>
        /\ link' \in {"down", "connecting", "closing"}
        /\ connected' \in BOOLEAN /\ needsRefetch' \in BOOLEAN
        /\ UNCHANGED <<feedServerVars, visitVars, queryVars, pushVars>>
    BY <1>0, <1>3 DEF Connect, OnError, OnClose, FeedTypeOK
  <2>2. queue' \in Seq(Frames) /\ Carried(queue') \subseteq stored
    BY <1>0, <2>1, EmptyQueue DEF FeedInductive, FeedTypeOK
  <2>3. FetchMisses'
    BY <1>2, <2>1 DEF feedServerVars, queryVars
  <2>4. QED
    BY <1>0, <1>1, <2>1, <2>2, <2>3 DEF FeedInductive, FeedTypeOK, visitVars, queryVars, pushVars
<1>4. CASE OnOpen
  <2>1. /\ fetch' \in Fetches /\ strays' \in BOOLEAN
        /\ fetch' = fetch \/ fetch'.phase = "asked"
    BY <1>4, Fetched DEF OnOpen
  <2>2. FetchMisses'
    BY <1>2, <1>4, <2>1 DEF OnOpen, feedServerVars
  <2>3. QED
    BY <1>0, <1>1, <1>4, <2>1, <2>2
    DEF OnOpen, FeedInductive, FeedTypeOK, visitVars, pushVars
<1>5. CASE OnMessage
  <2>1. PICK frame : frame = Head(queue)
    OBVIOUS
  <2>2. PICK rest : rest = queue'
    OBVIOUS
  <2>3. /\ rest \in Seq(Frames) /\ Carried(rest) \subseteq stored
        /\ frame \in Frames
        /\ frame.type = "message.created" => frame.message \in stored
    BY <1>0, <1>5, <2>1, <2>2, RestOfQueue DEF OnMessage, FeedInductive, FeedTypeOK
  <2>4. /\ UNCHANGED <<hub, link, connected, needsRefetch, stored, feedServerVars, visitVars, taken>>
    BY <1>5 DEF OnMessage, feedServerVars
  <2>5. ASSUME frame.type = "message.created",
               pending' = (IF fetch.phase = "idle" THEN pending ELSE pending \cup {frame.message}),
               AppendMessage(frame.message), delivered' = delivered \cup {frame.message},
               UNCHANGED <<fetch, strays>>
        PROVE  FeedInductive'
    <3>1. /\ pending' \subseteq Messages /\ delivered' \subseteq stored
          /\ cache' \subseteq Messages /\ hasData' = TRUE /\ failed' = FALSE
      BY <1>0, <2>3, <2>5 DEF FeedInductive, FeedTypeOK, AppendMessage
    <3>2. FetchMisses'
      BY <2>4, <2>5 DEF FetchMisses, FeedInductive, Page
    <3>3. QED
      BY <1>0, <1>1, <2>2, <2>3, <2>4, <2>5, <3>1, <3>2 DEF FeedTypeOK, visitVars
  <2>6. ASSUME Refetch \/ UNCHANGED <<fetch, strays>>,
               UNCHANGED <<pending, hasData, cache, delivered, failed>>
        PROVE  FeedInductive'
    <3>1. /\ fetch' \in Fetches /\ strays' \in BOOLEAN
          /\ fetch' = fetch \/ fetch'.phase = "asked"
      BY <2>6, Fetched
    <3>2. FetchMisses'
      BY <1>2, <2>4, <2>6, <3>1 DEF pushVars
    <3>3. QED
      BY <1>0, <1>1, <2>2, <2>3, <2>4, <2>6, <3>1, <3>2 DEF FeedInductive, FeedTypeOK, visitVars
  <2>7. QED
    BY <1>5, <2>1, <2>5, <2>6 DEF OnMessage
<1>6. CASE Mount
  <2>1. /\ fetch' \in Fetches /\ strays' \in BOOLEAN
        /\ fetch' = fetch \/ fetch'.phase = "asked"
    BY <1>6, Fetched DEF Mount
  <2>2. visits' \in 0..MaxVisits
    BY <1>0, <1>6, FeedAssumption DEF Mount, FeedTypeOK
  <2>3. FetchMisses'
    BY <1>2, <1>6, <2>1 DEF Mount, feedServerVars
  <2>4. QED
    BY <1>0, <1>1, <1>6, <2>1, <2>2, <2>3
    DEF Mount, FeedInductive, FeedTypeOK, socketVars, pushVars
<1>7. CASE Unmount
  <2>1. fetch' \in Fetches
    BY <1>0, <1>7 DEF Unmount, FeedTypeOK, Fetches
  <2>2. FetchMisses'
    BY <1>7 DEF Unmount, FetchMisses
  <2>3. QED
    BY <1>0, <1>1, <1>7, <2>1, <2>2, EmptyQueue DEF Unmount, FeedTypeOK
<1>8. QED
  BY <1>3, <1>4, <1>5, <1>6, <1>7 DEF SocketStep

LEMMA NextFeed == FeedInductive /\ [FeedNext]_feedVars => FeedInductive'
<1> SUFFICES ASSUME FeedInductive, [FeedNext]_feedVars PROVE FeedInductive'
  OBVIOUS
<1>1. CASE UNCHANGED feedVars
  BY <1>1
  DEF feedVars, feedServerVars, socketVars, visitVars, queryVars, pushVars, FeedInductive,
      FeedTypeOK, FetchMisses, Carried, Page
<1>2. QED
  BY <1>1, ServerSteps, QuerySteps, SocketSteps DEF FeedNext

LEMMA FeedInvariant == FeedSpec => []FeedInductive
  BY InitFeed, NextFeed, PTL DEF FeedSpec

(* Only the page that a fetch brings back takes a message off the screen.  *)
LEMMA CacheShrinks ==
  ASSUME FeedInductive, [FeedNext]_feedVars, NEW m \in delivered, m \in cache, m \notin cache'
  PROVE  m \notin Page(stored) \/ m \in taken \/ ~fetch.mine
<1>1. CASE FetchResolves
  BY <1>1 DEF FetchResolves, FeedInductive, FetchMisses
<1>2. CASE ~FetchResolves
  <2>1. CASE UNCHANGED cache
    BY <2>1
  <2>2. CASE \E k \in Messages : Answer(k)
    BY <2>2 DEF Answer, AppendMessage
  <2>3. CASE OnMessage
    BY <2>3 DEF OnMessage, AppendMessage
  <2>4. CASE ServerStep
    BY <2>1, <2>4
    DEF ServerStep, Store, StoreDisputeNotice, Broadcast, Announce, Restart, Accept, Register, Lose, queryVars
  <2>5. CASE FetchReads \/ FetchFails \/ StrayEnds \/ Poll \/ Focus
    BY <2>1, <2>5 DEF FetchReads, FetchFails, StrayEnds, Poll, Focus
  <2>6. CASE Connect \/ OnOpen \/ OnError \/ OnClose \/ Mount \/ Unmount
    BY <2>1, <2>6 DEF Connect, OnOpen, OnError, OnClose, Mount, Unmount, queryVars
  <2>7. CASE UNCHANGED feedVars
    BY <2>1, <2>7 DEF feedVars, queryVars
  <2>8. QED
    BY <1>2, <2>2, <2>3, <2>4, <2>5, <2>6, <2>7 DEF FeedNext, QueryStep, SocketStep
<1>3. QED
  BY <1>1, <1>2

(* A message the socket has delivered vanishes from the screen only for the*)
(* reasons DeliveredStays names, for any page, queue and number of losses. *)
THEOREM DeliveredMessagesStay == FeedSpec => DeliveredStays
<1>1. FeedInductive /\ [FeedNext]_feedVars =>
        [\A m \in delivered :
           m \in cache /\ m \notin cache' =>
             \/ m \notin Page(stored)
             \/ m \in taken
             \/ ~fetch.mine]_feedVars
  BY CacheShrinks
<1>2. QED
  BY <1>1, FeedInvariant, PTL DEF FeedSpec, DeliveredStays

(* A closed socket has no frames, and the hub serves an open one.          *)
SocketKnown ==
  /\ link = "down" => queue = <<>>
  /\ hub \in {"accepted", "in"} => link \in {"connecting", "open"}

LEMMA NextSocketKnown == FeedInductive /\ SocketKnown /\ [FeedNext]_feedVars => SocketKnown'
<1> SUFFICES ASSUME FeedInductive, SocketKnown, [FeedNext]_feedVars PROVE SocketKnown'
  OBVIOUS
<1>1. ASSUME UNCHANGED <<hub, queue, link>> PROVE SocketKnown'
  BY <1>1 DEF SocketKnown
<1>2. ASSUME NEW frame, Push(frame), UNCHANGED link PROVE SocketKnown'
  BY <1>2 DEF Push, Drop, SocketKnown
<1>3. CASE ServerStep
  <2>1. CASE (\E m \in Messages : Broadcast(m)) \/ (\E frame \in Notices : Announce(frame))
    BY <1>2, <2>1 DEF Broadcast, Announce
  <2>2. CASE \E m \in Messages : Store(m) \/ StoreDisputeNotice(m)
    BY <1>1, <2>2 DEF Store, StoreDisputeNotice, socketVars
  <2>3. CASE Restart \/ Lose
    BY <2>3 DEF Restart, Lose, Drop, SocketKnown
  <2>4. CASE Accept \/ Register
    BY <2>4 DEF Accept, Register, SocketKnown
  <2>5. QED
    BY <1>3, <2>1, <2>2, <2>3, <2>4 DEF ServerStep
<1>4. CASE QueryStep \/ Mount
  BY <1>1, <1>4 DEF QueryStep, FetchReads, FetchResolves, FetchFails, StrayEnds, Poll, Focus,
                    Answer, Mount, socketVars
<1>5. CASE SocketStep \/ Unmount
  BY <1>5 DEF SocketStep, Connect, OnOpen, OnMessage, OnError, OnClose, Unmount, Ended, SocketKnown
<1>6. CASE UNCHANGED feedVars
  BY <1>1, <1>6 DEF feedVars, socketVars
<1>7. QED
  BY <1>3, <1>4, <1>5, <1>6 DEF FeedNext

(* Where a message that was on its way is after the step.                  *)
Arrives(m) ==
  \/ m \in cache' \/ OnItsWay(m)'
  \/ failed' /\ fetch.phase # "idle" /\ fetch'.phase = "idle"
  \/ ~mounted'
  \/ m \notin Page(stored)'

(* The queue and the hub, when something is pushed, lost or received.      *)
LEMMA PushKeeps ==
  ASSUME FeedInductive, SocketKnown, NEW frame \in Frames, Push(frame), UNCHANGED link
  PROVE  \/ hub' = "gone" /\ link' # "down"
         \/ /\ hub' = hub /\ Carried(queue) \subseteq Carried(queue')
            /\ hub = "in" /\ frame.type = "message.created" => frame.message \in Carried(queue')
<1>1. CASE UNCHANGED <<hub, queue>> /\ hub # "in"
  BY <1>1
<1>2. CASE Drop /\ hub = "in"
  BY <1>2 DEF Drop, SocketKnown
<1>3. CASE queue' = Append(queue, frame) /\ UNCHANGED hub
  <2>1. PICK longer : longer = queue'
    OBVIOUS
  <2>2. /\ Carried(queue) \subseteq Carried(longer)
        /\ frame.type = "message.created" => frame.message \in Carried(longer)
    BY <1>3, <2>1, LongerQueues DEF FeedInductive, FeedTypeOK
  <2>3. QED
    BY <1>3, <2>1, <2>2
<1>4. QED
  BY <1>1, <1>2, <1>3 DEF Push

LEMMA StaysOnItsWay ==
  ASSUME FeedInductive, SocketKnown, [FeedNext]_feedVars,
         NEW m \in stored, mounted, hasData, m \notin cache, OnItsWay(m)
  PROVE  Arrives(m)
<1>1. ASSUME UNCHANGED <<unsent, hub, queue, link, needsRefetch, fetch>> PROVE Arrives(m)
  BY <1>1 DEF OnItsWay, Arrives, Carried
<1>2. ASSUME UNCHANGED <<unsent, hub, queue, link, needsRefetch>>, fetch' = Asked
      PROVE  Arrives(m)
  BY <1>2, FetchShapes DEF OnItsWay, Arrives
<1>3. ASSUME UNCHANGED <<link, needsRefetch, fetch>>, hub' = "gone", hub \in {"accepted", "in"}
      PROVE  Arrives(m)
  BY <1>3 DEF OnItsWay, Arrives, SocketKnown
<1>4. CASE \E k \in Messages : Store(k) \/ StoreDisputeNotice(k)
  <2>1. UNCHANGED <<hub, queue, link, needsRefetch, fetch>> /\ unsent \subseteq unsent'
    BY <1>4 DEF Store, StoreDisputeNotice, socketVars, queryVars
  <2>2. QED
    BY <2>1 DEF OnItsWay, Arrives, Carried
<1>5. ASSUME NEW k \in Messages, Broadcast(k) PROVE Arrives(m)
  <2>1. /\ UNCHANGED <<link, needsRefetch, fetch>> /\ unsent' = unsent \ {k}
        /\ Push(Created(k)) /\ Created(k) \in Frames
        /\ Created(k).type = "message.created" /\ Created(k).message = k
    BY <1>5, FrameShapes DEF Broadcast, queryVars, Created
  <2>2. PICK frame : frame = Created(k)
    OBVIOUS
  <2>3. \/ hub' = "gone" /\ link' # "down"
        \/ /\ hub' = hub /\ Carried(queue) \subseteq Carried(queue')
           /\ hub = "in" => k \in Carried(queue')
    BY <2>1, <2>2, PushKeeps
  <2>4. QED
    BY <2>1, <2>3 DEF OnItsWay, Arrives
<1>6. ASSUME NEW frame \in Notices, Announce(frame) PROVE Arrives(m)
  <2>1. /\ UNCHANGED <<unsent, link, needsRefetch, fetch>>
        /\ Push(frame) /\ frame \in Frames
    BY <1>6, FrameShapes DEF Announce, queryVars
  <2>2. \/ hub' = "gone" /\ link' # "down"
        \/ hub' = hub /\ Carried(queue) \subseteq Carried(queue')
    BY <2>1, PushKeeps
  <2>3. QED
    BY <2>1, <2>2 DEF OnItsWay, Arrives
<1>7. CASE Restart \/ Lose
  <2>1. CASE hub \in {"accepted", "in"}
    BY <1>3, <1>7, <2>1 DEF Restart, Lose, Drop, queryVars
  <2>2. CASE hub \notin {"accepted", "in"}
    <3>1. UNCHANGED <<hub, queue, link, needsRefetch, fetch>>
      BY <1>7, <2>2 DEF Restart, Lose, queryVars
    <3>2. QED
      BY <2>2, <3>1 DEF OnItsWay, Arrives, Carried
  <2>3. QED
    BY <2>1, <2>2
<1>8. CASE Accept \/ Register
  <2>1. /\ UNCHANGED <<unsent, queue, link, needsRefetch, fetch>>
        /\ hub # "in" /\ hub # "gone"
    BY <1>8 DEF Accept, Register, feedServerVars, queryVars
  <2>2. QED
    BY <2>1 DEF OnItsWay, Arrives, Carried
<1>9. CASE FetchReads
  <2>1. /\ UNCHANGED <<stored, unsent, hub, queue, link, needsRefetch>>
        /\ fetch.phase = "asked" /\ fetch' = [fetch EXCEPT !.phase = "read", !.page = Page(stored)]
    BY <1>9 DEF FetchReads, feedServerVars, socketVars
  <2>2. fetch'.phase = "read" /\ fetch'.page = Page(stored)
    BY <2>1 DEF FeedInductive, FeedTypeOK, Fetches
  <2>3. Page(stored)' = Page(stored)
    BY <2>1 DEF Page
  <2>4. QED
    BY <2>2, <2>3 DEF OnItsWay, Arrives
<1>10. CASE FetchResolves
  <2>1. /\ UNCHANGED <<unsent, hub, queue, link, needsRefetch>>
        /\ fetch.phase = "read" /\ fetch.page \subseteq cache'
    BY <1>10 DEF FetchResolves, feedServerVars, socketVars
  <2>2. QED
    BY <2>1 DEF OnItsWay, Arrives, Carried
<1>11. CASE FetchFails
  BY <1>11, FetchShapes DEF FetchFails, Arrives
<1>12. CASE StrayEnds \/ \E k \in Messages : Answer(k)
  BY <1>1, <1>12 DEF StrayEnds, Answer, feedServerVars, socketVars
<1>13. CASE Poll \/ Focus
  BY <1>2, <1>13 DEF Poll, Focus, StartFetch, feedServerVars, socketVars
<1>14. CASE Connect
  <2>1. /\ UNCHANGED <<needsRefetch, fetch>> /\ link = "down"
    BY <1>14 DEF Connect, queryVars
  <2>2. hub # "in" /\ Carried(queue) = {}
    BY <2>1, EmptyQueue DEF SocketKnown
  <2>3. QED
    BY <2>1, <2>2 DEF OnItsWay, Arrives
<1>15. CASE OnOpen
  <2>1. /\ UNCHANGED <<unsent, hub, queue>> /\ link' # "down"
        /\ fetch' = Asked \/ UNCHANGED <<needsRefetch, fetch>>
    BY <1>15 DEF OnOpen, Refetch, feedServerVars, FeedInductive, FeedTypeOK
  <2>2. CASE fetch' = Asked
    BY <2>2, FetchShapes DEF OnItsWay, Arrives
  <2>3. CASE UNCHANGED <<needsRefetch, fetch>>
    BY <2>1, <2>3 DEF OnItsWay, Arrives, Carried
  <2>4. QED
    BY <2>1, <2>2, <2>3
<1>16. CASE OnMessage
  <2>1. /\ UNCHANGED <<unsent, hub, link, needsRefetch>> /\ queue # <<>> /\ queue' = Tail(queue)
        /\ \/ Head(queue).type = "message.created" /\ Head(queue).message \in cache' /\ fetch' = fetch
           \/ Head(queue).type = "message.read" /\ fetch' = Asked
           \/ Head(queue).type = "booking.updated" /\ fetch' = fetch
    BY <1>16 DEF OnMessage, AppendMessage, Refetch, feedServerVars
  <2>2. PICK rest : rest = queue'
    OBVIOUS
  <2>3. \A k \in Carried(queue) :
          k \in Carried(rest) \/ (Head(queue).type = "message.created" /\ k = Head(queue).message)
    BY <2>1, <2>2, RestOfQueue DEF FeedInductive, FeedTypeOK
  <2>4. CASE fetch' = Asked
    BY <2>4, FetchShapes DEF OnItsWay, Arrives
  <2>5. CASE fetch' = fetch /\ Head(queue).type # "message.read"
    BY <2>1, <2>2, <2>3, <2>5 DEF OnItsWay, Arrives
  <2>6. QED
    BY <2>1, <2>4, <2>5
<1>17. CASE OnError \/ OnClose
  BY <1>17 DEF OnError, OnClose, OnItsWay, Arrives
<1>18. CASE Mount \/ Unmount
  BY <1>18 DEF Mount, Unmount, Arrives
<1>19. CASE UNCHANGED feedVars
  BY <1>1, <1>19 DEF feedVars, feedServerVars, socketVars, queryVars
<1>20. QED
  BY <1>4, <1>5, <1>6, <1>7, <1>8, <1>9, <1>10, <1>11, <1>12, <1>13, <1>14, <1>15, <1>16, <1>17,
     <1>18, <1>19 DEF FeedNext, ServerStep, QueryStep, SocketStep

(* Nothing is forgotten on its way to a loaded conversation, and nothing   *)
(* delivered vanishes, for any page, queue, number of losses and visits.   *)
THEOREM FeedKeepsWhatItGets == FeedSpec => FeedKeepsMessages
<1>1. FeedInit => SocketKnown
  BY DEF FeedInit, SocketKnown
<1>2. FeedSpec => []SocketKnown
  BY <1>1, NextSocketKnown, FeedInvariant, PTL DEF FeedSpec
<1>3. FeedInductive /\ SocketKnown /\ [FeedNext]_feedVars =>
        [\A m \in stored :
           mounted /\ hasData /\ m \notin cache /\ OnItsWay(m) =>
             \/ m \in cache' \/ OnItsWay(m)'
             \/ failed' /\ fetch.phase # "idle" /\ fetch'.phase = "idle"
             \/ ~mounted'
             \/ m \notin Page(stored)']_feedVars
  BY StaysOnItsWay DEF Arrives
<1>4. FeedSpec => NothingForgotten
  BY <1>2, <1>3, FeedInvariant, PTL DEF FeedSpec, NothingForgotten
<1>5. QED
  BY <1>4, DeliveredMessagesStay DEF FeedKeepsMessages
-----------------------------------------------------------------------------
(* The call that made an attempt is the one with its number.               *)
CallsBegin ==
  \A c \in DOMAIN calls :
    calls[c].attempt.id \in 1..c /\ calls[calls[c].attempt.id].attempt = calls[c].attempt

Made(attempt) == attempt.id \in DOMAIN calls /\ calls[attempt.id].attempt = attempt

AttemptsAreMade ==
  /\ activeAttempt # NoAttempt => Made(activeAttempt)
  /\ \A i \in DOMAIN log : Made(log[i])

AnswersAreTrue ==
  \A reply \in replies : reply.result = "ok" => calls[reply.request.call].attempt \in ToSet(log)

TextsWereTyped ==
  /\ text # NoText => text \in typed
  /\ \A c \in DOMAIN calls : calls[c].attempt.kind = "text" => calls[c].attempt.content \in typed

(* Call a made an attempt to send a text.                                  *)
Begins(a, t) ==
  calls[a].attempt.id = a /\ calls[a].attempt.kind = "text" /\ calls[a].attempt.content = t

(* An attachment before call b made the panel forget the attempt of call a.*)
Forgotten(a, b) ==
  \E c \in 1..b :
    calls[c].attempt.kind = "attachment" /\ (a < c \/ calls[c].status = "success")

(* The panel goes on with the attempt that it made for its text, unless an *)
(* attachment made it forget; so a second attempt has an attachment before.*)
AttemptsAreRemembered ==
  /\ \A a \in DOMAIN calls :
       text # NoText /\ Begins(a, text) =>
         activeAttempt = calls[a].attempt \/ Forgotten(a, Len(calls))
  /\ \A a, b \in DOMAIN calls :
       a < b /\ Begins(b, calls[b].attempt.content) /\ Begins(a, calls[b].attempt.content) =>
         Forgotten(a, b)

ComposerInductive ==
  /\ ComposerTypeOK
  /\ CallsBegin /\ AttemptsAreMade /\ AnswersAreTrue /\ TextsWereTyped /\ AttemptsAreRemembered
  /\ IdsKeepTheirMeaning /\ SuccessIsStored /\ UploadSentOnce

NewCall(attempt) == [attempt |-> attempt, try |-> 1, status |-> "pending"]

LEMMA CallsAreFunctions ==
  ASSUME NEW seq \in Seq(Calls), Len(seq) <= MaxCalls
  PROVE  /\ Len(seq) \in Nat /\ DOMAIN seq = 1..Len(seq) /\ DOMAIN seq \subseteq Ids
         /\ \A c \in DOMAIN seq : seq[c] \in Calls /\ seq[c].attempt \in Attempts
<1>1. Len(seq) \in Nat /\ DOMAIN seq = 1..Len(seq)
  OBVIOUS
<1>2. \A c \in DOMAIN seq : seq[c] \in Calls
  OBVIOUS
<1>3. DOMAIN seq \subseteq Ids
  BY <1>1, ComposerAssumption DEF Ids
<1>4. QED
  BY <1>1, <1>2, <1>3 DEF Calls

LEMMA OneMoreCall ==
  ASSUME NEW seq \in Seq(Calls), Len(seq) < MaxCalls, NEW attempt \in Attempts,
         NEW more, more = Append(seq, NewCall(attempt))
  PROVE  /\ more \in Seq(Calls) /\ Len(more) = Len(seq) + 1 /\ Len(more) <= MaxCalls
         /\ DOMAIN more = DOMAIN seq \cup {Len(seq) + 1} /\ Len(seq) + 1 \in Ids
         /\ more[Len(seq) + 1] = NewCall(attempt)
         /\ \A c \in DOMAIN seq : more[c] = seq[c] /\ c < Len(seq) + 1
<1>1. Len(seq) \in Nat /\ DOMAIN seq = 1..Len(seq)
  OBVIOUS
<1>2. NewCall(attempt) \in Calls
  BY DEF NewCall, Calls
<1>3. /\ more \in Seq(Calls) /\ Len(more) = Len(seq) + 1 /\ DOMAIN more = 1..Len(seq) + 1
      /\ more[Len(seq) + 1] = NewCall(attempt)
      /\ \A c \in 1..Len(seq) : more[c] = seq[c]
  BY <1>1, <1>2
<1>4. Len(more) <= MaxCalls /\ Len(seq) + 1 \in Ids
  BY <1>1, <1>3, ComposerAssumption DEF Ids
<1>5. QED
  BY <1>1, <1>3, <1>4

(* What a call's retry and its result change.                              *)
LEMMA CallMoves ==
  ASSUME NEW seq \in Seq(Calls), Len(seq) <= MaxCalls, NEW c \in DOMAIN seq, NEW more,
         \/ more = [seq EXCEPT ![c].status = "success"]
         \/ more = [seq EXCEPT ![c].status = "error"]
         \/ seq[c].try = 1 /\ more = [seq EXCEPT ![c].try = 2]
  PROVE  /\ more \in Seq(Calls) /\ Len(more) = Len(seq) /\ DOMAIN more = DOMAIN seq
         /\ \A d \in DOMAIN seq : more[d].attempt = seq[d].attempt /\ seq[d].try <= more[d].try
         /\ \A d \in DOMAIN seq \ {c} : more[d] = seq[d]
         /\ more[c].status \in {"success", "error", seq[c].status}
<1>0. /\ Len(seq) \in Nat /\ DOMAIN seq = 1..Len(seq)
      /\ \A d \in DOMAIN seq : seq[d] \in Calls
  BY CallsAreFunctions
<1>1. PICK call : /\ more = [seq EXCEPT ![c] = call] /\ call \in Calls
                  /\ call.attempt = seq[c].attempt /\ seq[c].try <= call.try
                  /\ call.status \in {"success", "error", seq[c].status}
  <2>0. PICK old : old = seq[c]
    OBVIOUS
  <2>1. /\ old \in Calls /\ old.try \in {1, 2}
        /\ [old EXCEPT !.status = "success"] \in Calls
        /\ [old EXCEPT !.status = "error"] \in Calls
        /\ [old EXCEPT !.try = 2] \in Calls
    BY <1>0, <2>0 DEF Calls
  <2>2. \E call \in {[old EXCEPT !.status = "success"], [old EXCEPT !.status = "error"]} \cup
                    (IF old.try = 1 THEN {[old EXCEPT !.try = 2]} ELSE {}) :
          more = [seq EXCEPT ![c] = call]
    BY <2>0
  <2>3. PICK call \in {[old EXCEPT !.status = "success"], [old EXCEPT !.status = "error"]} \cup
                      (IF old.try = 1 THEN {[old EXCEPT !.try = 2]} ELSE {}) :
          more = [seq EXCEPT ![c] = call]
    BY <2>2
  <2>4. /\ call \in Calls /\ call.attempt = old.attempt /\ old.try <= call.try
        /\ call.status \in {"success", "error", old.status}
    BY <2>1, <2>3 DEF Calls
  <2>5. QED
    BY <2>0, <2>3, <2>4
<1>2. more \in Seq(Calls) /\ Len(more) = Len(seq) /\ DOMAIN more = DOMAIN seq
  BY <1>0, <1>1
<1>3. more[c] = call /\ \A d \in DOMAIN seq \ {c} : more[d] = seq[d]
  BY <1>0, <1>1
<1>4. \A d \in DOMAIN seq : seq[d].try <= seq[d].try
  BY <1>0 DEF Calls
<1>5. QED
  BY <1>1, <1>2, <1>3, <1>4

LEMMA OneMoreRow ==
  ASSUME NEW seq \in Seq(Attempts), NEW row \in Attempts, NEW more, more = Append(seq, row)
  PROVE  /\ more \in Seq(Attempts) /\ DOMAIN more = DOMAIN seq \cup {Len(seq) + 1}
         /\ Len(seq) + 1 \notin DOMAIN seq /\ more[Len(seq) + 1] = row
         /\ \A i \in DOMAIN seq : more[i] = seq[i]
         /\ ToSet(more) = ToSet(seq) \cup {row}
<1>1. Len(seq) \in Nat /\ DOMAIN seq = 1..Len(seq)
  OBVIOUS
<1>2. /\ more \in Seq(Attempts) /\ DOMAIN more = 1..Len(seq) + 1
      /\ more[Len(seq) + 1] = row /\ \A i \in 1..Len(seq) : more[i] = seq[i]
  BY <1>1
<1>3. DOMAIN more = DOMAIN seq \cup {Len(seq) + 1} /\ Len(seq) + 1 \notin DOMAIN seq
  BY <1>1, <1>2
<1>4. ToSet(more) = ToSet(seq) \cup {row}
  BY <1>1, <1>2, <1>3 DEF ToSet
<1>5. QED
  BY <1>1, <1>2, <1>3, <1>4

LEMMA InitComposerInductive == ComposerInit => ComposerInductive
<1> SUFFICES ASSUME ComposerInit PROVE ComposerInductive
  OBVIOUS
<1>1. /\ calls \in Seq(Calls) /\ DOMAIN calls = {} /\ Len(calls) = 0
      /\ log \in Seq(Attempts) /\ DOMAIN log = {}
  BY DEF ComposerInit
<1>2. ComposerTypeOK
  BY <1>1, ComposerAssumption DEF ComposerInit, ComposerTypeOK
<1>3. QED
  BY <1>1, <1>2
  DEF ComposerInit, ComposerInductive, CallsBegin, AttemptsAreMade, AnswersAreTrue,
      TextsWereTyped, AttemptsAreRemembered, IdsKeepTheirMeaning, SuccessIsStored, UploadSentOnce

(* A call for a new attempt, or for the one the panel remembers.           *)
LEMMA MutateStep ==
  ASSUME ComposerInductive, NEW attempt \in Attempts, Mutate(attempt), activeAttempt' = attempt,
         pendingUpload' \in Uploads \cup {NoUpload}, uploaded' \subseteq Uploads,
         UNCHANGED <<text, typed>>,
         \/ attempt = activeAttempt
         \/ attempt.id = NewId /\ attempt.kind = "attachment"
         \/ /\ attempt.id = NewId /\ attempt.kind = "text" /\ attempt.content = text
            /\ text # NoText
            /\ \A a \in DOMAIN calls : Begins(a, text) => activeAttempt # calls[a].attempt
  PROVE  ComposerInductive'
<1>0. ComposerTypeOK
  BY DEF ComposerInductive
<1>new. PICK last : last = Len(calls) + 1
  OBVIOUS
<1>1. /\ Len(calls) \in Nat /\ DOMAIN calls = 1..Len(calls) /\ DOMAIN calls \subseteq Ids
      /\ \A c \in DOMAIN calls : calls[c] \in Calls /\ calls[c].attempt \in Attempts
  BY <1>0, CallsAreFunctions DEF ComposerTypeOK
<1>2. /\ calls' \in Seq(Calls) /\ Len(calls') = last /\ Len(calls') <= MaxCalls
      /\ DOMAIN calls' = DOMAIN calls \cup {last} /\ last \in Ids
      /\ calls'[last] = NewCall(attempt)
      /\ \A c \in DOMAIN calls : calls'[c] = calls[c] /\ c < last
  <2>1. PICK more : more = calls'
    OBVIOUS
  <2>2. more = Append(calls, NewCall(attempt)) /\ Len(calls) < MaxCalls
    BY <2>1 DEF Mutate, NewCall
  <2>3. calls \in Seq(Calls)
    BY <1>0 DEF ComposerTypeOK
  <2>4. /\ more \in Seq(Calls) /\ Len(more) = Len(calls) + 1 /\ Len(more) <= MaxCalls
        /\ DOMAIN more = DOMAIN calls \cup {Len(calls) + 1} /\ Len(calls) + 1 \in Ids
        /\ more[Len(calls) + 1] = NewCall(attempt)
        /\ \A c \in DOMAIN calls : more[c] = calls[c] /\ c < Len(calls) + 1
    BY <2>2, <2>3, OneMoreCall
  <2>5. QED
    BY <1>new, <2>1, <2>4
<1>3. /\ calls'[last].attempt = attempt /\ calls'[last].status = "pending"
      /\ calls'[last].try = 1 /\ last \notin DOMAIN calls
  BY <1>new, <1>1, <1>2 DEF NewCall
<1>4. /\ wire' = wire \cup {[call |-> last, try |-> 1]} /\ replies' = replies
      /\ log' = log /\ writable' = writable
  BY <1>new DEF Mutate, composerServerVars
<1>5. ComposerTypeOK'
  <2>1. [call |-> last, try |-> 1] \in Requests
    BY <1>2 DEF Requests
  <2>2. wire' \subseteq Requests
    BY <1>0, <1>4, <2>1 DEF ComposerTypeOK
  <2>3. \A request \in wire' \cup {reply.request : reply \in replies'} :
          request.call \in DOMAIN calls' /\ request.try <= calls'[request.call].try
    <3>1. \A request \in wire \cup {reply.request : reply \in replies} :
            request.call \in DOMAIN calls' /\ request.try <= calls'[request.call].try
      BY <1>0, <1>2 DEF ComposerTypeOK
    <3>2. QED
      BY <1>2, <1>3, <1>4, <3>1
  <2>4. QED
    BY <1>0, <1>2, <1>4, <2>2, <2>3 DEF ComposerTypeOK
<1>6. attempt = activeAttempt => Made(attempt)
  BY ComposerAssumption DEF ComposerInductive, AttemptsAreMade
<1>7. /\ attempt.id \in 1..last /\ calls'[attempt.id].attempt = attempt
      /\ attempt.id \in DOMAIN calls'
  BY <1>new, <1>1, <1>2, <1>3, <1>6 DEF Made, NewId
<1>8. CallsBegin'
  <2>1. \A c \in DOMAIN calls :
          calls'[c].attempt.id \in 1..c /\ calls'[calls'[c].attempt.id].attempt = calls'[c].attempt
    <3>1. \A c \in DOMAIN calls : 1..c \subseteq DOMAIN calls
      BY <1>1
    <3>2. QED
      BY <1>2, <3>1 DEF ComposerInductive, CallsBegin
  <2>2. QED
    BY <1>2, <1>3, <1>7, <2>1 DEF CallsBegin
<1>9. AttemptsAreMade'
  <2>1. \A other : Made(other) => other.id \in DOMAIN calls' /\ calls'[other.id].attempt = other
    BY <1>2 DEF Made
  <2>2. QED
    BY <1>4, <1>7, <2>1 DEF ComposerInductive, AttemptsAreMade, Made
<1>10. AnswersAreTrue' /\ IdsKeepTheirMeaning' /\ SuccessIsStored' /\ UploadSentOnce'
  <2>1. \A reply \in replies : reply.request.call \in DOMAIN calls
    BY <1>0 DEF ComposerTypeOK
  <2>2. QED
    BY <1>2, <1>3, <1>4, <2>1
    DEF ComposerInductive, AnswersAreTrue, IdsKeepTheirMeaning, SuccessIsStored, UploadSentOnce,
        ToSet
<1>11. TextsWereTyped'
  <2>1. attempt.kind = "text" => attempt.content \in typed
    BY <1>6 DEF Made, ComposerInductive, TextsWereTyped
  <2>2. QED
    BY <1>2, <1>3, <2>1 DEF ComposerInductive, TextsWereTyped
<1>12. \A a \in DOMAIN calls, b \in DOMAIN calls :
         Forgotten(a, b) => Forgotten(a, b)' /\ Forgotten(a, last)'
  <2>1. \A b \in DOMAIN calls : 1..b \subseteq DOMAIN calls /\ 1..b \subseteq 1..last
    BY <1>new, <1>1
  <2>2. QED
    BY <1>2, <2>1 DEF Forgotten
<1>13. \A a \in DOMAIN calls : Forgotten(a, Len(calls)) => Forgotten(a, last)'
  <2>1. 1..Len(calls) = DOMAIN calls /\ 1..Len(calls) \subseteq 1..last
    BY <1>new, <1>1
  <2>2. QED
    BY <1>2, <2>1 DEF Forgotten
<1>14. \A a \in DOMAIN calls : \A t : Begins(a, t)' <=> Begins(a, t)
  BY <1>2 DEF Begins
<1>15. \A t : Begins(last, t)' =>
         /\ attempt.id = last /\ attempt # activeAttempt /\ attempt.kind = "text"
         /\ attempt.content = t
  <2>1. attempt = activeAttempt => attempt.id # last
    BY <1>3, <1>6 DEF Made
  <2>2. QED
    BY <1>3, <2>1 DEF Begins
<1>16. attempt.kind = "attachment" => \A a \in DOMAIN calls : Forgotten(a, last)'
  <2>1. last \in 1..last
    BY <1>new, <1>1
  <2>2. QED
    BY <1>2, <1>3, <2>1 DEF Forgotten
<1>17. \A a \in DOMAIN calls :
         text # NoText /\ Begins(a, text) => activeAttempt' = calls'[a].attempt \/ Forgotten(a, last)'
  BY <1>2, <1>13, <1>16 DEF ComposerInductive, AttemptsAreRemembered
<1>18. \A a \in DOMAIN calls' :
         text' # NoText /\ Begins(a, text)' => activeAttempt' = calls'[a].attempt \/ Forgotten(a, last)'
  BY <1>2, <1>3, <1>14, <1>17
<1>19. \A a \in DOMAIN calls', b \in DOMAIN calls' :
         a < b /\ Begins(b, calls[b].attempt.content)' /\ Begins(a, calls[b].attempt.content)' =>
           Forgotten(a, b)'
  <2> SUFFICES ASSUME NEW a \in DOMAIN calls', NEW b \in DOMAIN calls', a < b,
                      Begins(b, calls[b].attempt.content)', Begins(a, calls[b].attempt.content)'
               PROVE  Forgotten(a, b)'
    OBVIOUS
  <2>1. a \in DOMAIN calls
    BY <1>1, <1>2
  <2>2. CASE b \in DOMAIN calls
    <3>1. calls'[b] = calls[b]
      BY <1>2, <2>2
    <3>2. Begins(b, calls[b].attempt.content) /\ Begins(a, calls[b].attempt.content)
      BY <1>14, <2>1, <2>2, <3>1
    <3>3. QED
      BY <1>12, <2>1, <2>2, <3>2 DEF ComposerInductive, AttemptsAreRemembered
  <2>3. CASE b = last
    <3>1. calls'[b].attempt.content = attempt.content
      BY <1>3, <2>3
    <3>2. /\ attempt.id = last /\ attempt # activeAttempt /\ attempt.kind = "text"
          /\ Begins(a, attempt.content)
      BY <1>14, <1>15, <2>1, <2>3, <3>1
    <3>3. attempt.content = text /\ text # NoText /\ activeAttempt # calls[a].attempt
      BY <2>1, <3>2
    <3>4. Forgotten(a, Len(calls))
      BY <2>1, <3>2, <3>3 DEF ComposerInductive, AttemptsAreRemembered
    <3>5. QED
      BY <1>13, <2>1, <2>3, <3>4
  <2>4. QED
    BY <1>2, <2>2, <2>3
<1>20. AttemptsAreRemembered'
  BY <1>2, <1>18, <1>19 DEF AttemptsAreRemembered
<1>21. QED
  BY <1>5, <1>8, <1>9, <1>10, <1>11, <1>20 DEF ComposerInductive

LEMMA WritingSteps ==
  ASSUME ComposerInductive,
         \/ \E t \in Texts : Type(t)
         \/ SendText
         \/ \E u \in Uploads : UploadCompletes(u)
         \/ SendPendingUpload
  PROVE  ComposerInductive'
<1>0. ComposerTypeOK
  BY DEF ComposerInductive
<1>1. ASSUME NEW t \in Texts, Type(t) PROVE ComposerInductive'
  <2>1. /\ t \notin typed /\ text' = t /\ typed' = typed \cup {t}
        /\ UNCHANGED <<activeAttempt, pendingUpload, calls, wire, replies, log, writable, uploaded>>
    BY <1>1 DEF Type, netVars, composerServerVars
  <2>2. ComposerTypeOK'
    BY <1>0, <2>1 DEF ComposerTypeOK
  <2>3. TextsWereTyped'
    BY <2>1 DEF ComposerInductive, TextsWereTyped
  <2>4. AttemptsAreRemembered'
    BY <2>1
    DEF ComposerInductive, AttemptsAreRemembered, TextsWereTyped, Begins, Forgotten
  <2>5. QED
    BY <2>1, <2>2, <2>3, <2>4
    DEF ComposerInductive, CallsBegin, AttemptsAreMade, Made, AnswersAreTrue,
        IdsKeepTheirMeaning, SuccessIsStored, UploadSentOnce
<1>2. \A c \in DOMAIN calls : calls[c].attempt \in Attempts
  BY <1>0, CallsAreFunctions DEF ComposerTypeOK
<1>3. ASSUME Len(calls) < MaxCalls PROVE NewId \in Ids
  BY <1>0, <1>3, ComposerAssumption DEF NewId, Ids, ComposerTypeOK
<1>4. CASE SendText
  <2>1. /\ text # NoText /\ Len(calls) < MaxCalls /\ Mutate(activeAttempt')
        /\ UNCHANGED <<text, pendingUpload, typed, uploaded>>
    BY <1>4 DEF SendText, Mutate, historyVars
  <2>2. text \in Texts
    BY <1>0, <2>1 DEF ComposerTypeOK
  <2>3. PICK attempt : attempt = activeAttempt'
    OBVIOUS
  <2>4. CASE activeAttempt # NoAttempt /\ activeAttempt.kind = "text"
    <3>1. attempt = activeAttempt /\ attempt \in Attempts
      BY <1>0, <1>4, <2>3, <2>4 DEF SendText, ComposerTypeOK
    <3>2. QED
      BY <1>0, <2>1, <2>3, <3>1, MutateStep DEF ComposerTypeOK
  <2>5. CASE ~(activeAttempt # NoAttempt /\ activeAttempt.kind = "text")
    <3>1. attempt = [id |-> NewId, kind |-> "text", content |-> text]
      BY <1>4, <2>3, <2>5 DEF SendText
    <3>2. /\ attempt \in Attempts /\ attempt.id = NewId /\ attempt.kind = "text"
          /\ attempt.content = text
      BY <1>3, <2>1, <2>2, <3>1 DEF Attempts
    <3>3. \A a \in DOMAIN calls : Begins(a, text) => activeAttempt # calls[a].attempt
      BY <1>2, <2>5, ComposerAssumption DEF Begins
    <3>4. QED
      BY <1>0, <2>1, <2>3, <3>2, <3>3, MutateStep DEF ComposerTypeOK
  <2>6. QED
    BY <2>4, <2>5
<1>5. ASSUME NEW u \in Uploads, SendAttachment(u), uploaded' \subseteq Uploads
      PROVE  ComposerInductive'
  <2>1. PICK attempt : attempt = [id |-> NewId, kind |-> "attachment", content |-> u]
    OBVIOUS
  <2>2. /\ activeAttempt' = attempt /\ Mutate(attempt) /\ Len(calls) < MaxCalls
        /\ UNCHANGED <<text, pendingUpload, typed>>
    BY <1>5, <2>1 DEF SendAttachment, Mutate
  <2>3. attempt \in Attempts /\ attempt.id = NewId /\ attempt.kind = "attachment"
    BY <1>3, <2>1, <2>2 DEF Attempts
  <2>4. QED
    BY <1>0, <1>5, <2>2, <2>3, MutateStep DEF ComposerTypeOK
<1>6. ASSUME NEW u \in Uploads, UploadCompletes(u) PROVE ComposerInductive'
  BY <1>0, <1>5, <1>6 DEF UploadCompletes, ComposerTypeOK
<1>7. CASE SendPendingUpload
  <2>1. pendingUpload \in Uploads /\ SendAttachment(pendingUpload) /\ uploaded' = uploaded
    BY <1>0, <1>7 DEF SendPendingUpload, ComposerTypeOK
  <2>2. QED
    BY <1>0, <1>5, <2>1 DEF ComposerTypeOK
<1>8. QED
  BY <1>1, <1>4, <1>6, <1>7

(* The server's steps leave the calls as they are.                         *)
LEMMA HandleStep ==
  ASSUME ComposerInductive, NEW request \in wire, Handle(request)
  PROVE  ComposerInductive'
<1>0. ComposerTypeOK
  BY DEF ComposerInductive
<1>1. PICK attempt : attempt = calls[request.call].attempt
  OBVIOUS
<1>2. /\ request \in Requests /\ request.call \in DOMAIN calls /\ attempt \in Attempts
      /\ Made(attempt) /\ log \in Seq(Attempts)
  <2>1. /\ request \in Requests /\ request.call \in DOMAIN calls /\ attempt \in Attempts
        /\ DOMAIN calls = 1..Len(calls) /\ Len(calls) \in Nat
    BY <1>0, <1>1, CallsAreFunctions DEF ComposerTypeOK
  <2>2. attempt.id \in 1..request.call /\ calls[attempt.id].attempt = attempt
    BY <1>1, <2>1 DEF ComposerInductive, CallsBegin
  <2>3. QED
    BY <1>0, <2>1, <2>2 DEF Made, ComposerTypeOK
<1>3. Stored(attempt.id) = {row \in ToSet(log) : row.id = attempt.id}
  BY DEF Stored
<1>4. \A row \in Stored(attempt.id) : row = attempt /\ row \in ToSet(log)
  BY <1>2, <1>3 DEF ComposerInductive, AttemptsAreMade, Made, ToSet
<1>5. PICK result \in Results :
        /\ replies' = replies \cup {[request |-> request, result |-> result]}
        /\ result # "IDEMPOTENCY_CONFLICT"
        /\ \/ log' = log /\ (result = "ok" => attempt \in ToSet(log))
           \/ /\ log' = Append(log, attempt) /\ Stored(attempt.id) = {}
              /\ attempt.kind = "attachment" => ~Used(attempt.content)
  <2>1. CASE Stored(attempt.id) # {}
    <3>1. attempt \in Stored(attempt.id) /\ attempt \in ToSet(log)
      BY <1>4, <2>1
    <3>2. replies' = replies \cup {[request |-> request, result |-> "ok"]} /\ log' = log
      BY <1>1, <2>1, <3>1 DEF Handle, Respond
    <3>3. QED
      BY <3>1, <3>2 DEF Results
  <2>2. CASE Stored(attempt.id) = {} /\ log' = log
    <3>1. \/ replies' = replies \cup {[request |-> request, result |-> "CONVERSATION_READ_ONLY"]}
          \/ replies' = replies \cup {[request |-> request, result |-> "UPLOAD_ALREADY_USED"]}
          \/ log' = Append(log, attempt)
      BY <1>1, <2>2 DEF Handle, Respond
    <3>2. log # Append(log, attempt)
      BY <1>2
    <3>3. QED
      BY <2>2, <3>1, <3>2 DEF Results
  <2>3. CASE Stored(attempt.id) = {} /\ log' # log
    <3>1. /\ replies' = replies \cup {[request |-> request, result |-> "ok"]}
          /\ log' = Append(log, attempt)
          /\ attempt.kind = "attachment" => ~Used(attempt.content)
      BY <1>1, <2>3 DEF Handle, Respond
    <3>2. QED
      BY <2>3, <3>1 DEF Results
  <2>4. QED
    BY <2>1, <2>2, <2>3
<1>6. /\ wire' = wire \ {request}
      /\ UNCHANGED <<text, activeAttempt, pendingUpload, calls, writable, typed, uploaded>>
  BY DEF Handle, panelVars, historyVars
<1>7. /\ log' \in Seq(Attempts) /\ ToSet(log) \subseteq ToSet(log')
      /\ result = "ok" => attempt \in ToSet(log')
      /\ \A i \in DOMAIN log' : Made(log'[i])
      /\ \A i, j \in DOMAIN log' : log'[i].id = log'[j].id => i = j
      /\ \A i, j \in DOMAIN log' :
           log'[i].kind = "attachment" /\ log'[j].kind = "attachment"
             /\ log'[i].content = log'[j].content => i = j
  <2>1. CASE log' = log
    BY <1>2, <1>5, <2>1
    DEF ComposerInductive, AttemptsAreMade, SuccessIsStored, UploadSentOnce, Stored
  <2>2. CASE log' # log
    <3>1. PICK more : more = log'
      OBVIOUS
    <3>2. more = Append(log, attempt) /\ log \in Seq(Attempts) /\ attempt \in Attempts
      BY <1>2, <1>5, <2>2, <3>1
    <3>3. more \in Seq(Attempts)
      BY <3>2, OneMoreRow
    <3>4. DOMAIN more = DOMAIN log \cup {Len(log) + 1}
      BY <3>2, OneMoreRow
    <3>5. Len(log) + 1 \notin DOMAIN log /\ more[Len(log) + 1] = attempt
      BY <3>2, OneMoreRow
    <3>6. \A i \in DOMAIN log : more[i] = log[i]
      BY <3>2, OneMoreRow
    <3>7. ToSet(more) = ToSet(log) \cup {attempt}
      BY <3>2, OneMoreRow
    <3>8. /\ more \in Seq(Attempts) /\ DOMAIN more = DOMAIN log \cup {Len(log) + 1}
          /\ Len(log) + 1 \notin DOMAIN log /\ more[Len(log) + 1] = attempt
          /\ \A i \in DOMAIN log : more[i] = log[i]
          /\ ToSet(more) = ToSet(log) \cup {attempt}
      BY <3>3, <3>4, <3>5, <3>6, <3>7
    <3>9. \A i \in DOMAIN log : log[i].id # attempt.id
      BY <1>3, <1>5, <2>2 DEF ToSet
    <3>10. \A i \in DOMAIN log :
            log[i].kind = "attachment" /\ attempt.kind = "attachment" =>
              log[i].content # attempt.content
      BY <1>5, <2>2 DEF Used
    <3>11. \A i \in DOMAIN more : Made(more[i])
      BY <1>2, <3>8 DEF ComposerInductive, AttemptsAreMade
    <3>12. \A i, j \in DOMAIN more : more[i].id = more[j].id => i = j
      BY <3>8, <3>9 DEF ComposerInductive, SuccessIsStored
    <3>13. \A i, j \in DOMAIN more :
            more[i].kind = "attachment" /\ more[j].kind = "attachment"
              /\ more[i].content = more[j].content => i = j
      BY <3>8, <3>10 DEF ComposerInductive, UploadSentOnce
    <3>14. QED
      BY <3>1, <3>8, <3>11, <3>12, <3>13
  <2>3. QED
    BY <2>1, <2>2
<1>8. ComposerTypeOK'
  <2>1. [request |-> request, result |-> result] \in Replies
    BY <1>2 DEF Replies
  <2>2. replies' \subseteq Replies /\ wire' \subseteq Requests
    BY <1>0, <1>5, <1>6, <2>1 DEF ComposerTypeOK
  <2>3. wire' \cup {reply.request : reply \in replies'} \subseteq
          wire \cup {reply.request : reply \in replies}
    BY <1>5, <1>6
  <2>4. QED
    BY <1>0, <1>6, <1>7, <2>2, <2>3 DEF ComposerTypeOK
<1>9. AttemptsAreMade'
  BY <1>6, <1>7 DEF ComposerInductive, AttemptsAreMade, Made
<1>10. AnswersAreTrue' /\ IdsKeepTheirMeaning'
  BY <1>1, <1>5, <1>6, <1>7 DEF ComposerInductive, AnswersAreTrue, IdsKeepTheirMeaning
<1>11. SuccessIsStored' /\ UploadSentOnce'
  BY <1>6, <1>7 DEF ComposerInductive, SuccessIsStored, UploadSentOnce
<1>12. CallsBegin' /\ TextsWereTyped' /\ AttemptsAreRemembered'
  BY <1>6
  DEF ComposerInductive, CallsBegin, TextsWereTyped, AttemptsAreRemembered, Begins, Forgotten
<1>13. QED
  BY <1>8, <1>9, <1>10, <1>11, <1>12 DEF ComposerInductive

(* The attempts of the calls stay; a success is an answer's, and answers   *)
(* about attachments make the panel forget its attempt.                    *)
LEMMA ResultStep ==
  ASSUME ComposerInductive, NEW c \in DOMAIN calls,
         \/ calls' = [calls EXCEPT ![c].status = "success"]
         \/ calls' = [calls EXCEPT ![c].status = "error"]
         \/ calls[c].try = 1 /\ calls' = [calls EXCEPT ![c].try = 2]
         \/ calls' = calls,
         calls[c].status = "pending" \/ calls' = calls,
         calls'[c].status = "success" =>
           calls[c].status = "success" \/ calls[c].attempt \in ToSet(log),
         wire' \subseteq Requests, replies' \subseteq replies,
         \A request \in wire' :
           request \in wire \/ (request.call = c /\ request.try <= calls'[c].try),
         \/ text' = text /\ activeAttempt' = activeAttempt
         \/ text' = NoText /\ activeAttempt' = NoAttempt
         \/ /\ text' = text /\ activeAttempt' = NoAttempt
            /\ calls[c].attempt.kind = "attachment" /\ calls'[c].status = "success",
         pendingUpload' \in Uploads \cup {NoUpload},
         UNCHANGED <<log, writable, typed, uploaded>>
  PROVE  ComposerInductive'
<1>0. ComposerTypeOK
  BY DEF ComposerInductive
<1>1. /\ Len(calls) \in Nat /\ DOMAIN calls = 1..Len(calls)
      /\ \A d \in DOMAIN calls : calls[d] \in Calls /\ calls[d].attempt \in Attempts
  BY <1>0, CallsAreFunctions DEF ComposerTypeOK
<1>2. /\ calls' \in Seq(Calls) /\ Len(calls') = Len(calls) /\ DOMAIN calls' = DOMAIN calls
      /\ \A d \in DOMAIN calls :
           calls'[d].attempt = calls[d].attempt /\ calls[d].try <= calls'[d].try
      /\ \A d \in DOMAIN calls \ {c} : calls'[d] = calls[d]
  <2>1. CASE calls' = calls
    BY <1>0, <1>1, <2>1 DEF ComposerTypeOK, Calls
  <2>2. CASE calls' # calls
    <3>1. PICK more : more = calls'
      OBVIOUS
    <3>2. calls \in Seq(Calls) /\ Len(calls) <= MaxCalls
      BY <1>0 DEF ComposerTypeOK
    <3>3. \/ more = [calls EXCEPT ![c].status = "success"]
          \/ more = [calls EXCEPT ![c].status = "error"]
          \/ calls[c].try = 1 /\ more = [calls EXCEPT ![c].try = 2]
      BY <2>2, <3>1
    <3>4. /\ more \in Seq(Calls) /\ Len(more) = Len(calls) /\ DOMAIN more = DOMAIN calls
          /\ \A d \in DOMAIN calls :
               more[d].attempt = calls[d].attempt /\ calls[d].try <= more[d].try
          /\ \A d \in DOMAIN calls \ {c} : more[d] = calls[d]
      BY <3>2, <3>3, CallMoves
    <3>5. QED
      BY <3>1, <3>4
  <2>3. QED
    BY <2>1, <2>2
<1>3. \A d \in DOMAIN calls : calls[d].status = "success" => calls'[d].status = "success"
  BY <1>2
<1>4. ComposerTypeOK'
  <2>1. \A request \in wire \cup {reply.request : reply \in replies} :
          request.call \in DOMAIN calls' /\ request.try <= calls'[request.call].try
    <3>1. \A d \in DOMAIN calls : calls[d].try \in Int /\ calls'[d].try \in Int
      BY <1>1, <1>2 DEF Calls
    <3>2. \A request \in wire \cup {reply.request : reply \in replies} :
            request.try \in Int /\ request.call \in DOMAIN calls
            /\ request.try <= calls[request.call].try
      BY <1>0 DEF ComposerTypeOK, Requests, Replies
    <3>3. QED
      BY <1>2, <3>1, <3>2
  <2>2. \A request \in wire' \cup {reply.request : reply \in replies'} :
          request.call \in DOMAIN calls' /\ request.try <= calls'[request.call].try
    BY <1>2, <2>1
  <2>3. replies' \subseteq Replies /\ Len(calls') <= MaxCalls
    BY <1>0, <1>2 DEF ComposerTypeOK
  <2>4. QED
    BY <1>0, <1>2, <2>2, <2>3 DEF ComposerTypeOK
<1>5. CallsBegin'
  <2>1. \A d \in DOMAIN calls : 1..d \subseteq DOMAIN calls
    BY <1>1
  <2>2. QED
    BY <1>2, <2>1 DEF ComposerInductive, CallsBegin
<1>6. AttemptsAreMade'
  <2>1. \A attempt : Made(attempt) => attempt.id \in DOMAIN calls' /\ calls'[attempt.id].attempt = attempt
    BY <1>2 DEF Made
  <2>2. QED
    BY <2>1 DEF ComposerInductive, AttemptsAreMade, Made
<1>7. AnswersAreTrue' /\ IdsKeepTheirMeaning'
  <2>1. \A reply \in replies : reply.request.call \in DOMAIN calls
    BY <1>0 DEF ComposerTypeOK
  <2>2. QED
    BY <1>2, <2>1 DEF ComposerInductive, AnswersAreTrue, IdsKeepTheirMeaning
<1>8. SuccessIsStored' /\ UploadSentOnce'
  BY <1>2 DEF ComposerInductive, SuccessIsStored, UploadSentOnce
<1>9. TextsWereTyped'
  BY <1>2 DEF ComposerInductive, TextsWereTyped
<1>10. \A a, b \in DOMAIN calls : Forgotten(a, b) => Forgotten(a, b)'
  <2>1. \A b \in DOMAIN calls : 1..b \subseteq DOMAIN calls
    BY <1>1
  <2>2. QED
    BY <1>2, <1>3, <2>1 DEF Forgotten
<1>11. \A a \in DOMAIN calls : Forgotten(a, Len(calls)) => Forgotten(a, Len(calls))'
  BY <1>1, <1>2, <1>3 DEF Forgotten
<1>12. \A a \in DOMAIN calls : \A t : Begins(a, t)' <=> Begins(a, t)
  BY <1>2 DEF Begins
<1>13. \A a \in DOMAIN calls :
         text' # NoText /\ Begins(a, text') =>
           activeAttempt' = calls'[a].attempt \/ Forgotten(a, Len(calls))'
  <2>1. CASE text' = text /\ activeAttempt' = activeAttempt
    BY <1>2, <1>11, <2>1 DEF ComposerInductive, AttemptsAreRemembered
  <2>2. CASE calls[c].attempt.kind = "attachment" /\ calls'[c].status = "success"
    BY <1>1, <1>2, <2>2 DEF Forgotten
  <2>3. QED
    BY <2>1, <2>2
<1>14. \A a, b \in DOMAIN calls :
         a < b /\ Begins(b, calls'[b].attempt.content) /\ Begins(a, calls'[b].attempt.content) =>
           Forgotten(a, b)'
  BY <1>2, <1>10 DEF ComposerInductive, AttemptsAreRemembered
<1>15. AttemptsAreRemembered'
  BY <1>2, <1>12, <1>13, <1>14 DEF AttemptsAreRemembered
<1>16. QED
  BY <1>4, <1>5, <1>6, <1>7, <1>8, <1>9, <1>15 DEF ComposerInductive

(* A try that fails.                                                       *)
LEMMA FailStep ==
  ASSUME ComposerInductive, NEW c \in DOMAIN calls, calls[c].status = "pending", FailTry(c),
         replies' \subseteq replies, UNCHANGED <<log, writable, typed, uploaded>>
  PROVE  ComposerInductive'
<1>0. ComposerTypeOK
  BY DEF ComposerInductive
<1>1. calls \in Seq(Calls) /\ c \in Ids /\ calls[c] \in Calls /\ calls[c].attempt \in Attempts
  BY <1>0, CallsAreFunctions DEF ComposerTypeOK
<1>2. CASE calls[c].try = 1
  <2>1. /\ calls' = [calls EXCEPT ![c].try = 2]
        /\ wire' = wire \cup {[call |-> c, try |-> 2]}
        /\ UNCHANGED <<text, activeAttempt, pendingUpload>>
    BY <1>2 DEF FailTry, panelVars
  <2>2. calls'[c].try = 2 /\ calls'[c].status = "pending"
    BY <1>1, <2>1 DEF Calls
  <2>3. [call |-> c, try |-> 2] \in Requests
    BY <1>1 DEF Requests
  <2>4. wire' \subseteq Requests
    BY <1>0, <2>1, <2>3 DEF ComposerTypeOK
  <2>5. \A request \in wire' :
          request \in wire \/ (request.call = c /\ request.try <= calls'[c].try)
    BY <2>1, <2>2
  <2>6. UNCHANGED pendingUpload /\ pendingUpload \in Uploads \cup {NoUpload}
    BY <1>0, <2>1 DEF ComposerTypeOK
  <2>7. QED
    BY <1>2, <2>1, <2>2, <2>4, <2>5, <2>6, ResultStep
<1>3. CASE calls[c].try # 1
  <2>1. /\ calls' = [calls EXCEPT ![c].status = "error"]
        /\ pendingUpload' = IF calls[c].attempt.kind = "attachment"
                              THEN calls[c].attempt.content ELSE pendingUpload
        /\ UNCHANGED <<wire, text, activeAttempt>>
    BY <1>3 DEF FailTry
  <2>2. calls'[c].status = "error"
    BY <1>1, <2>1 DEF Calls
  <2>3. pendingUpload' \in Uploads \cup {NoUpload}
    BY <1>0, <1>1, <2>1 DEF ComposerTypeOK, Attempts
  <2>4. QED
    BY <1>0, <2>1, <2>2, <2>3, ResultStep DEF ComposerTypeOK
<1>4. QED
  BY <1>2, <1>3

LEMMA AnswerSteps ==
  ASSUME ComposerInductive,
         \/ \E reply \in replies : Receive(reply)
         \/ \E c \in DOMAIN calls : ConnectionBreaks(c)
  PROVE  ComposerInductive'
<1>0. ComposerTypeOK
  BY DEF ComposerInductive
<1>1. ASSUME NEW c \in DOMAIN calls, ConnectionBreaks(c) PROVE ComposerInductive'
  BY <1>1, FailStep DEF ConnectionBreaks, composerServerVars
<1>2. ASSUME NEW reply \in replies, Receive(reply) PROVE ComposerInductive'
  <2>1. PICK c : c = reply.request.call
    OBVIOUS
  <2>2. c \in DOMAIN calls /\ calls \in Seq(Calls) /\ calls[c] \in Calls
    BY <1>0, <2>1, CallsAreFunctions DEF ComposerTypeOK
  <2>3. replies' \subseteq replies /\ UNCHANGED <<log, writable, typed, uploaded>>
    BY <1>2 DEF Receive, composerServerVars
  <2>4. CASE reply.result = "ok" /\ Succeed(c) /\ Awaits(c, reply.request.try)
    <3>1. calls' = [calls EXCEPT ![c].status = "success"] /\ wire' = wire
      BY <2>4 DEF Succeed
    <3>2. calls'[c].status = "success" /\ calls[c].status = "pending"
      BY <2>2, <2>4, <3>1 DEF Calls, Awaits
    <3>3. calls[c].attempt \in ToSet(log)
      BY <2>1, <2>4 DEF ComposerInductive, AnswersAreTrue
    <3>4. calls[c].attempt.kind \in {"text", "attachment"}
      BY <2>2 DEF Calls, Attempts
    <3>5. CASE calls[c].attempt.kind = "text"
      <4>1. text' = NoText /\ activeAttempt' = NoAttempt /\ pendingUpload' = pendingUpload
        BY <2>4, <3>5 DEF Succeed
      <4>2. QED
        BY <1>0, <2>2, <2>3, <3>1, <3>2, <3>3, <4>1, ResultStep DEF ComposerTypeOK
    <3>6. CASE calls[c].attempt.kind = "attachment"
      <4>1. text' = text /\ activeAttempt' = NoAttempt /\ pendingUpload' = NoUpload
        BY <2>4, <3>6 DEF Succeed
      <4>2. QED
        BY <1>0, <2>2, <2>3, <3>1, <3>2, <3>3, <3>6, <4>1, ResultStep DEF ComposerTypeOK
    <3>7. QED
      BY <3>4, <3>5, <3>6
  <2>5. CASE Awaits(c, reply.request.try) /\ FailTry(c)
    BY <2>2, <2>3, <2>5, FailStep DEF Awaits
  <2>6. CASE UNCHANGED <<calls, wire, panelVars>>
    <3>1. UNCHANGED <<calls, wire, text, activeAttempt, pendingUpload>>
      BY <2>6 DEF panelVars
    <3>2. QED
      BY <1>0, <2>2, <2>3, <3>1, ResultStep DEF ComposerTypeOK
  <2>7. QED
    BY <1>2, <2>1, <2>4, <2>5, <2>6 DEF Receive
<1>3. QED
  BY <1>1, <1>2

LEMMA NextComposerInductive ==
  ComposerInductive /\ [ComposerNext]_composerVars => ComposerInductive'
<1> SUFFICES ASSUME ComposerInductive, [ComposerNext]_composerVars PROVE ComposerInductive'
  OBVIOUS
<1>1. CASE Conclude \/ UNCHANGED composerVars
  <2>1. /\ UNCHANGED <<text, activeAttempt, pendingUpload, calls, wire, replies, log>>
        /\ UNCHANGED <<typed, uploaded>>
        /\ writable' = FALSE \/ writable' = writable
    BY <1>1
    DEF Conclude, composerVars, panelVars, netVars, composerServerVars, historyVars
  <2>2. ComposerTypeOK'
    BY <2>1 DEF ComposerInductive, ComposerTypeOK
  <2>3. QED
    BY <2>1, <2>2
    DEF ComposerInductive, CallsBegin, AttemptsAreMade, Made, AnswersAreTrue, TextsWereTyped,
        AttemptsAreRemembered, Begins, Forgotten, IdsKeepTheirMeaning, SuccessIsStored,
        UploadSentOnce
<1>2. QED
  BY <1>1, WritingSteps, HandleStep, AnswerSteps DEF ComposerNext

LEMMA ComposerFromInductive == ComposerInductive => ComposerInv
<1> SUFFICES ASSUME ComposerInductive PROVE ComposerInv
  OBVIOUS
<1>1. DuplicatesNeedAttachment
  <2> SUFFICES ASSUME NEW i \in DOMAIN log, NEW j \in DOMAIN log,
                      log[i].kind = "text" /\ log[j].kind = "text",
                      log[i].content = log[j].content /\ log[i].id < log[j].id
               PROVE  \E c \in 1..log[j].id :
                        /\ calls[c].attempt.kind = "attachment"
                        /\ log[i].id < c \/ calls[c].status = "success"
    BY DEF DuplicatesNeedAttachment
  <2>1. /\ log[i].id \in DOMAIN calls /\ calls[log[i].id].attempt = log[i]
        /\ log[j].id \in DOMAIN calls /\ calls[log[j].id].attempt = log[j]
    BY DEF ComposerInductive, AttemptsAreMade, Made
  <2>2. Forgotten(log[i].id, log[j].id)
    BY <2>1 DEF ComposerInductive, AttemptsAreRemembered, Begins
  <2>3. QED
    BY <2>2 DEF Forgotten
<1>2. QED
  BY <1>1 DEF ComposerInductive, ComposerInv

LEMMA ComposerInvariant == ComposerSpec => []ComposerInv
<1>1. ComposerSpec => []ComposerInductive
  BY InitComposerInductive, NextComposerInductive, PTL DEF ComposerSpec
<1>2. QED
  BY <1>1, ComposerFromInductive, PTL

(* The two halves of the panel, however their steps meet: no message is    *)
(* announced before it is stored; whatever is edited, lost, retried or late*)
(* an id is one message, a success is a stored message, an uploaded file is*)
(* sent once, and a text is sent twice only after an attachment.           *)
THEOREM ConversationIsKept == FeedSpec /\ ComposerSpec => []ConversationInv
<1>1. FeedInductive => FeedTypeOK
  BY DEF FeedInductive
<1>2. QED
  BY <1>1, FeedInvariant, ComposerInvariant, PTL DEF ConversationInv
=============================================================================
