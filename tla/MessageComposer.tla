-------------------------- MODULE MessageComposer --------------------------
(***************************************************************************)
(* The composer of ConversationPanel (apps/web/src/components/workspace/   *)
(* conversation-panel.tsx), the mutation it sends with, which React Query  *)
(* retries once (conversations.ts), and create_message of the API behind   *)
(* requests whose answers may be lost.  A request may still be handled     *)
(* after the client has given it up and sent it again.                     *)
(*                                                                         *)
(* createMessageAttempt draws the client_message_id; attempts are numbered *)
(* in the order they are made.                                             *)
(***************************************************************************)
EXTENDS Integers, Sequences, FiniteSets, SequencesExt

CONSTANTS
  Texts,      \* texts typed into the input, each typed at most once
  Uploads,    \* chat attachments whose upload gets completed
  MaxCalls,   \* bound of the model on the number of mutations started
  NoText, NoUpload, NoAttempt

Ids == 1..MaxCalls
Attempts ==
  [id : Ids, kind : {"text"}, content : Texts] \cup
  [id : Ids, kind : {"attachment"}, content : Uploads]

ASSUME ComposerAssumption ==
  /\ MaxCalls \in Nat
  /\ NoText \notin Texts
  /\ NoUpload \notin Uploads
  /\ NoAttempt \notin Attempts

VARIABLES
  text,           \* the input
  activeAttempt,  \* the attempt a text is sent again with
  pendingUpload,  \* the attachment the panel offers to send again
  calls,          \* every mutateAsync, the last one is the one shown
  wire,           \* requests the server has not handled yet
  replies,        \* its answers on their way back
  log,            \* rows of messages, in the order of their commits
  writable,       \* the booking's status admits messages
  typed,          \* history: texts typed so far
  uploaded        \* history: attachments uploaded so far

panelVars == <<text, activeAttempt, pendingUpload>>
netVars == <<calls, wire, replies>>
composerServerVars == <<log, writable>>
historyVars == <<typed, uploaded>>
composerVars == <<panelVars, netVars, composerServerVars, historyVars>>
-----------------------------------------------------------------------------
Results == {"ok", "IDEMPOTENCY_CONFLICT", "UPLOAD_ALREADY_USED", "CONVERSATION_READ_ONLY"}

(* A mutation and the number of its current try.                           *)
Calls == [attempt : Attempts, try : {1, 2}, status : {"pending", "success", "error"}]
Requests == [call : Ids, try : {1, 2}]
Replies == [request : Requests, result : Results]

ComposerTypeOK ==
  /\ text \in Texts \cup {NoText}
  /\ activeAttempt \in Attempts \cup {NoAttempt}
  /\ pendingUpload \in Uploads \cup {NoUpload}
  /\ calls \in Seq(Calls) /\ Len(calls) <= MaxCalls
  /\ wire \subseteq Requests /\ replies \subseteq Replies
  /\ \A request \in wire \cup {reply.request : reply \in replies} :
       request.call \in DOMAIN calls /\ request.try <= calls[request.call].try
  /\ log \in Seq(Attempts)
  /\ writable \in BOOLEAN
  /\ typed \subseteq Texts /\ uploaded \subseteq Uploads

ComposerInit ==
  /\ text = NoText /\ activeAttempt = NoAttempt /\ pendingUpload = NoUpload
  /\ calls = <<>> /\ wire = {} /\ replies = {}
  /\ log = <<>> /\ writable = TRUE
  /\ typed = {} /\ uploaded = {}

(* sendMessage.isPending: the observer follows the newest mutation.        *)
IsPending == calls # <<>> /\ Last(calls).status = "pending"

NewId == Len(calls) + 1

Mutate(attempt) ==
  /\ Len(calls) < MaxCalls
  /\ calls' = Append(calls, [attempt |-> attempt, try |-> 1, status |-> "pending"])
  /\ wire' = wire \cup {[call |-> Len(calls) + 1, try |-> 1]}
  /\ UNCHANGED <<replies, composerServerVars>>
-----------------------------------------------------------------------------
Type(t) ==
  /\ ~IsPending
  /\ t \in Texts \ typed
  /\ text' = t
  /\ typed' = typed \cup {t}
  /\ UNCHANGED <<activeAttempt, pendingUpload, netVars, composerServerVars, uploaded>>

(* Variant: a text that is sent again gets a new client_message_id.        *)
SendText_NewId ==
  /\ text # NoText /\ ~IsPending
  /\ activeAttempt' = [id |-> NewId, kind |-> "text", content |-> text]
  /\ Mutate(activeAttempt')
  /\ UNCHANGED <<text, pendingUpload, historyVars>>

(* handleSendText: a text attempt that failed is sent again as it was,     *)
(* whatever the input shows now.                                           *)
SendText ==
  /\ text # NoText /\ ~IsPending
  /\ activeAttempt' =
       IF activeAttempt # NoAttempt /\ activeAttempt.kind = "text"
         THEN activeAttempt
         ELSE [id |-> NewId, kind |-> "text", content |-> text]
  /\ Mutate(activeAttempt')
  /\ UNCHANGED <<text, pendingUpload, historyVars>>

(* handleSendAttachment: always a new attempt, also while a mutation runs. *)
SendAttachment(u) ==
  /\ activeAttempt' = [id |-> NewId, kind |-> "attachment", content |-> u]
  /\ Mutate(activeAttempt')
  /\ UNCHANGED <<text, pendingUpload, typed>>

(* onUploaded of the upload field, whose upload may have begun long before.*)
UploadCompletes(u) ==
  /\ u \notin uploaded
  /\ uploaded' = uploaded \cup {u}
  /\ SendAttachment(u)

(* The button "Kirim lampiran", which is never disabled.                   *)
SendPendingUpload ==
  /\ pendingUpload # NoUpload
  /\ SendAttachment(pendingUpload)
  /\ UNCHANGED uploaded
-----------------------------------------------------------------------------
Stored(id) == {row \in ToSet(log) : row.id = id}
Used(u) == \E i \in DOMAIN log : log[i].kind = "attachment" /\ log[i].content = u

Respond(request, result) ==
  replies' = replies \cup {[request |-> request, result |-> result]}

(* create_message, which holds the booking's lock: a known id is answered  *)
(* with the stored message before anything else is checked.                *)
Handle(request) ==
  LET attempt == calls[request.call].attempt IN
  /\ request \in wire
  /\ wire' = wire \ {request}
  /\ \/ /\ Stored(attempt.id) # {}
        /\ Respond(request, IF attempt \in Stored(attempt.id)
                              THEN "ok" ELSE "IDEMPOTENCY_CONFLICT")
        /\ UNCHANGED log
     \/ /\ Stored(attempt.id) = {} /\ ~writable
        /\ Respond(request, "CONVERSATION_READ_ONLY")
        /\ UNCHANGED log
     \/ /\ Stored(attempt.id) = {} /\ writable
        /\ attempt.kind = "attachment" /\ Used(attempt.content)
        /\ Respond(request, "UPLOAD_ALREADY_USED")
        /\ UNCHANGED log
     \/ /\ Stored(attempt.id) = {} /\ writable
        /\ attempt.kind = "attachment" => ~Used(attempt.content)
        /\ Respond(request, "ok")
        /\ log' = Append(log, attempt)
  /\ UNCHANGED <<calls, writable, panelVars, historyVars>>

(* The booking concludes.                                                  *)
Conclude ==
  /\ writable
  /\ writable' = FALSE
  /\ UNCHANGED <<panelVars, netVars, log, historyVars>>
-----------------------------------------------------------------------------
Awaits(c, try) == calls[c].status = "pending" /\ calls[c].try = try

(* The rest of handleSendText or handleSendAttachment after a success.     *)
Succeed(c) ==
  /\ calls' = [calls EXCEPT ![c].status = "success"]
  /\ activeAttempt' = NoAttempt
  /\ IF calls[c].attempt.kind = "text"
       THEN text' = NoText /\ UNCHANGED pendingUpload
       ELSE pendingUpload' = NoUpload /\ UNCHANGED text
  /\ UNCHANGED wire

(* A failed try: the mutation retries once and then reports its error.     *)
FailTry(c) ==
  IF calls[c].try = 1
    THEN /\ calls' = [calls EXCEPT ![c].try = 2]
         /\ wire' = wire \cup {[call |-> c, try |-> 2]}
         /\ UNCHANGED panelVars
    ELSE /\ calls' = [calls EXCEPT ![c].status = "error"]
         /\ pendingUpload' = IF calls[c].attempt.kind = "attachment"
                               THEN calls[c].attempt.content ELSE pendingUpload
         /\ UNCHANGED <<wire, text, activeAttempt>>

Receive(reply) ==
  LET c == reply.request.call IN
  /\ reply \in replies
  /\ replies' = replies \ {reply}
  /\ \/ Awaits(c, reply.request.try) /\ reply.result = "ok" /\ Succeed(c)
     \/ Awaits(c, reply.request.try) /\ reply.result # "ok" /\ FailTry(c)
     \/ ~Awaits(c, reply.request.try) /\ UNCHANGED <<calls, wire, panelVars>>
  /\ UNCHANGED <<composerServerVars, typed, uploaded>>

(* The connection breaks before an answer: the request may be handled yet. *)
ConnectionBreaks(c) ==
  /\ calls[c].status = "pending"
  /\ FailTry(c)
  /\ UNCHANGED <<replies, composerServerVars, typed, uploaded>>

ComposerNext ==
  \/ \E t \in Texts : Type(t)
  \/ SendText
  \/ \E u \in Uploads : UploadCompletes(u)
  \/ SendPendingUpload
  \/ \E request \in wire : Handle(request)
  \/ \E reply \in replies : Receive(reply)
  \/ \E c \in DOMAIN calls : ConnectionBreaks(c)
  \/ Conclude

ComposerSpec == ComposerInit /\ [][ComposerNext]_composerVars
-----------------------------------------------------------------------------
(* A client_message_id keeps its meaning: whatever is edited, retried or   *)
(* sent in between, the client never makes the server refuse an id because *)
(* it was used for something else.                                         *)
IdsKeepTheirMeaning ==
  \A reply \in replies : reply.result # "IDEMPOTENCY_CONFLICT"

(* A call that succeeded is for a message in the log, and the log has one  *)
(* row for an id, although its requests may be handled twice and late.     *)
SuccessIsStored ==
  /\ \A c \in DOMAIN calls :
       calls[c].status = "success" => calls[c].attempt \in ToSet(log)
  /\ \A i, j \in DOMAIN log : log[i].id = log[j].id => i = j

(* An uploaded file appears in one message, although each attempt to send  *)
(* it again has a client_message_id of its own.                            *)
UploadSentOnce ==
  \A i, j \in DOMAIN log :
    log[i].kind = "attachment" /\ log[j].kind = "attachment"
      /\ log[i].content = log[j].content => i = j

(* When a text does appear twice, an attachment made the panel forget the  *)
(* first attempt: it was sent after that attempt, or its success was       *)
(* answered.  Lost answers, retries and late requests alone duplicate      *)
(* nothing.                                                                *)
DuplicatesNeedAttachment ==
  \A i, j \in DOMAIN log :
    /\ log[i].kind = "text" /\ log[j].kind = "text"
    /\ log[i].content = log[j].content /\ log[i].id < log[j].id
    => \E c \in 1..log[j].id :
         /\ calls[c].attempt.kind = "attachment"
         /\ log[i].id < c \/ calls[c].status = "success"

(* What the composer's retries keep: an id is one message, a success is a  *)
(* stored message, and nothing is sent twice but a text whose attempt an   *)
(* attachment made the panel forget.                                       *)
ComposerInv ==
  /\ ComposerTypeOK
  /\ IdsKeepTheirMeaning /\ SuccessIsStored /\ UploadSentOnce /\ DuplicatesNeedAttachment
=============================================================================
