------------------------- MODULE DeliverablesPanel -------------------------
(***************************************************************************)
(* Work handed over through DeliverablesPanel and its UploadField          *)
(* (apps/web/src/components/workspace), the upload workflow of             *)
(* lib/uploads.ts, and the API and object storage behind it.  An upload is *)
(* an intent, a PUT straight to the storage and a completion that the API  *)
(* verifies; a deliverable is recorded from it by a separate request.  The *)
(* browser is the creator's; requests may be answered late or never, may be*)
(* handled after the browser gave them up, and the panel may go away and   *)
(* come back while they run.                                               *)
(***************************************************************************)
EXTENDS Integers, Sequences, FiniteSets

CONSTANTS
  Files,            \* what the creator can pick
  Valid,            \* files validateUploadFile lets through
  Genuine,          \* files whose bytes have the type they claim
  MaxUploads,       \* bound of the model on uploads started
  MaxRows           \* bound of the model on rows at a time

ASSUME PanelAssumption ==
  /\ Valid \subseteq Files /\ Genuine \subseteq Files
  /\ MaxUploads \in Nat /\ MaxRows \in Nat

VARIABLES
  uploads,        \* every run of uploadBookingFile
  field,          \* status of UploadField and the upload it shows
  addMode,        \* which form the panel shows
  uploadedFile,   \* the upload "Simpan Berkas Hasil" would record
  create,         \* createDeliverable, the mutation
  removal,        \* deleteDeliverable, the mutation
  shown,          \* status and deliverables of the cached workspace
  mounted,        \* the page shows the panel
  wire,           \* upload requests not handled yet
  replies,        \* their successful answers
  strays,         \* creations the browser gave up
  inProgress,     \* the booking is in progress
  intents,        \* status of each upload intent
  objects,        \* objects in the storage
  rows,           \* rows of deliverables
  completing,     \* the completion that holds the booking's lock
  cleaning        \* objects to delete after a deletion committed

uploadVars == <<uploads, field, uploadedFile>>
formVars == <<addMode, create, removal>>
viewVars == <<shown, mounted>>
netVars == <<wire, replies, strays>>
apiVars == <<inProgress, intents, rows, completing>>
storageVars == <<objects, cleaning>>
panelVars == <<uploadVars, formVars, viewVars, netVars, apiVars, storageVars>>
-----------------------------------------------------------------------------
Ids == 1..MaxUploads
None == 0

(* owner: who still listens when the upload ends - the field that shows it,*)
(* only the panel after the field was unmounted, or nobody.                *)
Uploads ==
  [file : Files, owner : {"field", "panel", "nobody"},
   phase : {"intent", "put", "complete", "success", "cancelled", "failed"}]
Requests == [type : {"intent", "put", "complete"}, upload : Ids]
Rows == [id : 1..MaxRows, upload : Ids \cup {None}]

PanelTypeOK ==
  /\ uploads \in Seq(Uploads) /\ Len(uploads) <= MaxUploads
  /\ field \in [status : {"idle", "uploading", "error", "success"}, upload : Ids \cup {None}]
  /\ field.status = "uploading" =>
       /\ uploads[field.upload].owner = "field"
       /\ uploads[field.upload].phase \in {"intent", "put", "complete"}
  /\ addMode \in {"file", "link"}
  /\ uploadedFile \in Ids \cup {None}
  /\ create \in [phase : {"idle", "sent", "stored"}, upload : Ids \cup {None}]
  /\ removal \in [phase : {"idle", "sent", "done"}, id : 0..MaxRows]
  /\ shown \in [inProgress : BOOLEAN, rows : SUBSET Rows]
  /\ mounted \in BOOLEAN /\ inProgress \in BOOLEAN
  /\ wire \subseteq Requests
  /\ replies \subseteq Requests
  /\ strays \subseteq Ids \cup {None}
  /\ intents \in [Ids -> {"none", "pending", "completed", "expired", "rejected"}]
  /\ objects \subseteq Ids /\ cleaning \subseteq Ids
  /\ rows \subseteq Rows
  /\ completing \in Ids \cup {None}

NoField == [status |-> "idle", upload |-> None]
NoCreate == [phase |-> "idle", upload |-> None]
NoRemoval == [phase |-> "idle", id |-> 0]

PanelInit ==
  /\ uploads = <<>> /\ field = NoField /\ uploadedFile = None
  /\ addMode = "file" /\ create = NoCreate /\ removal = NoRemoval
  /\ mounted = TRUE
  /\ shown = [inProgress |-> TRUE, rows |-> {}]
  /\ wire = {} /\ replies = {} /\ strays = {}
  /\ inProgress = TRUE /\ intents = [n \in Ids |-> "none"]
  /\ rows = {} /\ completing = None
  /\ objects = {} /\ cleaning = {}

CanEdit == mounted /\ shown.inProgress
Request(type, n) == [type |-> type, upload |-> n]
-----------------------------------------------------------------------------
(* validateUploadFile and the limits it checks against. *)
Accepted(file) == file \in Valid

(* handleStartUpload: a file that fails the check never reaches the API;   *)
(* each call of uploadBookingFile asks for an intent of its own.           *)
StartUpload(file) ==
  LET n == Len(uploads) + 1 IN
  /\ n <= MaxUploads
  /\ IF Accepted(file)
       THEN /\ uploads' = Append(uploads, [file |-> file, owner |-> "field", phase |-> "intent"])
            /\ field' = [status |-> "uploading", upload |-> n]
            /\ wire' = wire \cup {Request("intent", n)}
       ELSE /\ uploads' = Append(uploads, [file |-> file, owner |-> "field", phase |-> "failed"])
            /\ field' = [status |-> "error", upload |-> n]
            /\ UNCHANGED wire
  /\ UNCHANGED <<uploadedFile, formVars, viewVars, replies, strays, apiVars, storageVars>>

(* handleFileChange: the input is disabled only while an upload runs.      *)
ChooseFile(file) ==
  /\ CanEdit /\ addMode = "file" /\ field.status # "uploading"
  /\ StartUpload(file)

(* handleRetry *)
Retry ==
  /\ CanEdit /\ addMode = "file" /\ field.status = "error"
  /\ StartUpload(uploads[field.upload].file)

(* The end of handleStartUpload for upload n, in whichever way.  onUploaded*)
(* reaches the panel even after the field that started it is gone.         *)
Finish(n, phase) ==
  /\ uploads' = [uploads EXCEPT ![n].phase = phase]
  /\ field' = IF uploads[n].owner # "field" THEN field
              ELSE CASE phase = "success"   -> [status |-> "success", upload |-> n]
                     [] phase = "cancelled" -> NoField
                     [] phase = "failed"    -> [status |-> "error", upload |-> n]
  /\ uploadedFile' = IF phase = "success" /\ uploads[n].owner # "nobody"
                       THEN n ELSE uploadedFile

(* handleCancel: the abort ends the intent request or the PUT, which may   *)
(* have reached the other side; a completion that was sent ignores it.     *)
Cancel ==
  /\ CanEdit /\ addMode = "file" /\ field.status = "uploading"
  /\ IF uploads[field.upload].phase = "complete"
       THEN UNCHANGED uploadVars
       ELSE Finish(field.upload, "cancelled")
  /\ UNCHANGED <<formVars, viewVars, netVars, apiVars, storageVars>>

(* An error answer, or none: the upload ends in an error, and the request  *)
(* may still be handled.                                                   *)
UploadFails(n) ==
  /\ uploads[n].phase \in {"intent", "put", "complete"}
  /\ Finish(n, "failed")
  /\ UNCHANGED <<formVars, viewVars, netVars, apiVars, storageVars>>

(* Variant: a load event that was queued wins over the abort.              *)
UploadProceeds_LoadWins(n) ==
  \E request \in {r \in replies : r.upload = n} :
    /\ replies' = replies \ {request}
    /\ \/ /\ request.type = "intent"
          /\ uploads' = [uploads EXCEPT ![n].phase = "put"]
          /\ wire' = wire \cup {Request("put", n)}
          /\ UNCHANGED <<field, uploadedFile>>
       \/ /\ request.type = "put"
          /\ uploads' = [uploads EXCEPT ![n].phase = IF @ = "put" THEN "complete" ELSE @]
          /\ wire' = wire \cup {Request("complete", n)}
          /\ UNCHANGED <<field, uploadedFile>>
       \/ /\ request.type = "complete" /\ uploads[n].phase = "complete"
          /\ Finish(n, "success")
          /\ UNCHANGED wire
    /\ UNCHANGED <<strays, formVars, viewVars, apiVars, storageVars>>

(* uploadBookingFile: the intent's answer starts the PUT, its success the  *)
(* completion, and only the completion's answer is the upload.             *)
UploadProceeds(n) ==
  LET request == Request(uploads[n].phase, n) IN
  /\ request \in replies
  /\ replies' = replies \ {request}
  /\ \/ /\ request.type = "intent"
        /\ uploads' = [uploads EXCEPT ![n].phase = "put"]
        /\ wire' = wire \cup {Request("put", n)}
        /\ UNCHANGED <<field, uploadedFile>>
     \/ /\ request.type = "put"
        /\ uploads' = [uploads EXCEPT ![n].phase = "complete"]
        /\ wire' = wire \cup {Request("complete", n)}
        /\ UNCHANGED <<field, uploadedFile>>
     \/ /\ request.type = "complete"
        /\ Finish(n, "success")
        /\ UNCHANGED wire
  /\ UNCHANGED <<strays, formVars, viewVars, apiVars, storageVars>>
-----------------------------------------------------------------------------
Disown(owners, owner) ==
  [n \in DOMAIN uploads |->
     IF uploads[n].owner \in owners THEN [uploads[n] EXCEPT !.owner = owner] ELSE uploads[n]]

(* The buttons above the form; the field of the file form is unmounted     *)
(* without an abort.                                                       *)
SwitchForm(mode) ==
  /\ CanEdit /\ mode # addMode
  /\ addMode' = mode
  /\ field' = NoField
  /\ uploads' = Disown({"field"}, "panel")
  /\ UNCHANGED <<uploadedFile, create, removal, viewVars, netVars, apiVars, storageVars>>

(* handleCreateFile                                                        *)
CreateFile ==
  /\ CanEdit /\ addMode = "file"
  /\ uploadedFile # None /\ create.phase = "idle"
  /\ create' = [phase |-> "sent", upload |-> uploadedFile]
  /\ UNCHANGED <<addMode, removal, uploadVars, viewVars, netVars, apiVars, storageVars>>

(* handleCreateLink                                                        *)
CreateLink ==
  /\ CanEdit /\ addMode = "link"
  /\ create.phase = "idle"
  /\ create' = [phase |-> "sent", upload |-> None]
  /\ UNCHANGED <<addMode, removal, uploadVars, viewVars, netVars, apiVars, storageVars>>

(* The workspace was refetched; without canEdit the panel has no form.     *)
ShowWorkspace ==
  /\ shown' = [inProgress |-> inProgress, rows |-> rows]
  /\ IF inProgress THEN UNCHANGED <<field, uploads>>
     ELSE field' = NoField /\ uploads' = Disown({"field"}, "panel")

(* What onSuccess of both mutations waits for, unless the refetch fails.   *)
Settle == ShowWorkspace \/ UNCHANGED <<shown, field, uploads>>

(* A stored creation has cleared its form once the workspace was refetched *)
(* or that failed; an upload that ended meanwhile is cleared with it.      *)
CreateSucceeds ==
  /\ create.phase = "stored"
  /\ create' = NoCreate
  /\ uploadedFile' = IF create.upload = None THEN uploadedFile ELSE None
  /\ Settle
  /\ UNCHANGED <<addMode, removal, mounted, netVars, apiVars, storageVars>>

(* The form keeps its contents after an error; the request may be handled  *)
(* all the same.                                                           *)
CreateFails ==
  /\ create.phase # "idle"
  /\ create' = NoCreate
  /\ strays' = IF create.phase = "sent" THEN strays \cup {create.upload} ELSE strays
  /\ UNCHANGED <<addMode, removal, uploadVars, viewVars, wire, replies, apiVars,
                 storageVars>>

(* The button "Hapus" of a row that is shown.                              *)
ClickDelete(row) ==
  /\ CanEdit /\ row \in shown.rows /\ removal.phase = "idle"
  /\ removal' = [phase |-> "sent", id |-> row.id]
  /\ UNCHANGED <<addMode, create, uploadVars, viewVars, netVars, apiVars, storageVars>>

(* The end of deleteDeliverable; an error is shown nowhere.                *)
DeleteEnds ==
  /\ removal.phase # "idle"
  /\ removal' = NoRemoval
  /\ \/ removal.phase = "done" /\ Settle
     \/ removal.phase = "sent" /\ UNCHANGED <<shown, field, uploads>>
  /\ UNCHANGED <<addMode, create, uploadedFile, mounted, netVars,
                 apiVars, storageVars>>

(* The workspace is refetched: on an event of the socket, a focus or a     *)
(* mount.                                                                  *)
Refetch ==
  /\ ShowWorkspace
  /\ mounted' = TRUE
  /\ UNCHANGED <<uploadedFile, formVars, netVars, apiVars, storageVars>>

(* A refetch that fails replaces the whole page, and the panel's state is  *)
(* gone while what it started goes on.                                     *)
RefetchFails ==
  /\ mounted
  /\ mounted' = FALSE
  /\ field' = NoField /\ uploadedFile' = None
  /\ uploads' = Disown({"field", "panel"}, "nobody")
  /\ addMode' = "file" /\ create' = NoCreate /\ removal' = NoRemoval
  /\ strays' = IF create.phase = "sent" THEN strays \cup {create.upload} ELSE strays
  /\ UNCHANGED <<shown, wire, replies, apiVars, storageVars>>

-----------------------------------------------------------------------------
(* Every write below locks the booking's row, which a completion holds     *)
(* while it waits for the storage.                                         *)
BookingFree == completing = None

Answer(request) ==
  replies' = IF uploads[request.upload].phase = request.type
               THEN replies \cup {request} ELSE replies

(* create_intent                                                           *)
CreateIntent(n) ==
  /\ Request("intent", n) \in wire /\ BookingFree /\ inProgress
  /\ wire' = wire \ {Request("intent", n)}
  /\ intents' = [intents EXCEPT ![n] = "pending"]
  /\ Answer(Request("intent", n))
  /\ UNCHANGED <<strays, uploadVars, formVars, viewVars, inProgress, rows,
                 completing, storageVars>>

(* The storage takes the PUT; If-None-Match keeps it from replacing an     *)
(* object, and each intent has a key of its own.                           *)
StoreObject(n) ==
  /\ Request("put", n) \in wire
  /\ wire' = wire \ {Request("put", n)}
  /\ objects' = objects \cup {n}
  /\ Answer(Request("put", n))
  /\ UNCHANGED <<strays, cleaning, uploadVars, formVars, viewVars, apiVars>>

(* complete_intent up to the question to the storage.  Only the two places *)
(* that compare expires_at with the clock see the time pass.               *)
BeginCompletion(n) ==
  /\ Request("complete", n) \in wire /\ BookingFree
  /\ wire' = wire \ {Request("complete", n)}
  /\ \/ UNCHANGED intents
     \/ intents[n] = "pending" /\ intents' = [intents EXCEPT ![n] = "expired"]
  /\ completing' = IF intents'[n] = "pending" /\ inProgress THEN n ELSE None
  /\ UNCHANGED <<replies, strays, uploadVars, formVars, viewVars, inProgress,
                 rows, storageVars>>

(* The rest of complete_intent: a storage that fails or an object that is  *)
(* missing or not what it claims leaves the intent pending, and the intent *)
(* may expire meanwhile.                                                   *)
EndCompletion ==
  /\ completing # None
  /\ completing' = None
  /\ \/ UNCHANGED <<intents, replies>>
     \/ /\ completing \in objects /\ uploads[completing].file \in Genuine
        /\ \/ intents' = [intents EXCEPT ![completing] = "expired"] /\ UNCHANGED replies
           \/ /\ intents' = [intents EXCEPT ![completing] = "completed"]
              /\ Answer(Request("complete", completing))
  /\ UNCHANGED <<wire, strays, uploadVars, formVars, viewVars, inProgress, rows,
                 storageVars>>

RowIds(some) == {row.id : row \in some}
FreshIds == (1..MaxRows) \ (RowIds(rows \cup shown.rows) \cup {removal.id})
Recorded(n) == \E row \in rows : row.upload = n

AddRow(n) ==
  \E id \in FreshIds :
    /\ \A other \in FreshIds : id <= other
    /\ rows' = rows \cup {[id |-> id, upload |-> n]}

(* create_deliverable; the form never replaces an earlier deliverable.     *)
CreateDeliverable(n) ==
  IF inProgress /\ (n # None => intents[n] = "completed" /\ ~Recorded(n))
    THEN AddRow(n) ELSE UNCHANGED rows

HandleCreate ==
  /\ create.phase = "sent" /\ BookingFree
  /\ CreateDeliverable(create.upload)
  /\ create' = IF rows' # rows
                 THEN [create EXCEPT !.phase = "stored"] ELSE NoCreate
  /\ UNCHANGED <<addMode, removal, uploadVars, viewVars, netVars, inProgress, intents,
                 completing, storageVars>>

HandleStray(n) ==
  /\ n \in strays /\ BookingFree
  /\ strays' = strays \ {n}
  /\ CreateDeliverable(n)
  /\ UNCHANGED <<uploadVars, formVars, viewVars, wire, replies, inProgress, intents,
                 completing, storageVars>>

(* delete_deliverable, whose object is deleted after the commit; the web   *)
(* client makes no revisions, which would forbid it.                       *)
DeleteRow(row) ==
  /\ BookingFree /\ inProgress
  /\ rows' = rows \ {row}
  /\ intents' = [n \in Ids |-> IF n = row.upload THEN "rejected" ELSE intents[n]]
  /\ cleaning' = cleaning \cup ({row.upload} \ {None})

HandleRemoval ==
  /\ removal.phase = "sent" /\ BookingFree
  /\ \/ /\ removal' = [removal EXCEPT !.phase = "done"]
        /\ \E row \in rows : row.id = removal.id /\ DeleteRow(row)
     \/ /\ ~inProgress \/ removal.id \notin RowIds(rows)
        /\ removal' = NoRemoval
        /\ UNCHANGED <<rows, intents, cleaning>>
  /\ UNCHANGED <<addMode, create, uploadVars, viewVars, netVars, inProgress,
                 completing, objects>>

(* The creator's other session, or a deletion that was given up.           *)
DeleteElsewhere(row) ==
  /\ row \in rows
  /\ DeleteRow(row)
  /\ UNCHANGED <<uploadVars, formVars, viewVars, netVars, inProgress, completing, objects>>

(* cleanup_deleted_object, which may fail.                                 *)
Cleanup(n) ==
  /\ n \in cleaning
  /\ cleaning' = cleaning \ {n}
  /\ objects' \in {objects, objects \ {n}}
  /\ UNCHANGED <<uploadVars, formVars, viewVars, netVars, apiVars>>

(* authorize_download, which waits for the booking's lock: what the button *)
(* "Unduh berkas" of a row gets; a refusal is silent.  It changes no state.*)
DownloadGranted(row) == row.upload # None /\ BookingFree /\ intents[row.upload] = "completed"

(* The work is handed over, or the booking is disputed.                    *)
LeaveInProgress ==
  /\ inProgress /\ BookingFree
  /\ inProgress' = FALSE
  /\ UNCHANGED <<uploadVars, formVars, viewVars, netVars, intents, rows, completing,
                 storageVars>>
-----------------------------------------------------------------------------
UploadStep ==
  \/ \E file \in Files : ChooseFile(file)
  \/ Retry \/ Cancel
  \/ \E n \in DOMAIN uploads : UploadFails(n) \/ UploadProceeds(n)

PanelStep ==
  \/ \E mode \in {"file", "link"} : SwitchForm(mode)
  \/ CreateFile \/ CreateLink \/ CreateSucceeds \/ CreateFails
  \/ \E row \in shown.rows : ClickDelete(row)
  \/ DeleteEnds \/ Refetch \/ RefetchFails

ServerStep ==
  \/ \E n \in DOMAIN uploads :
       CreateIntent(n) \/ StoreObject(n) \/ BeginCompletion(n)
  \/ EndCompletion
  \/ HandleCreate \/ HandleRemoval
  \/ \E n \in strays : HandleStray(n)
  \/ \E row \in rows : DeleteElsewhere(row)
  \/ \E n \in cleaning : Cleanup(n)
  \/ LeaveInProgress

PanelNext == UploadStep \/ PanelStep \/ ServerStep

PanelSpec == PanelInit /\ [][PanelNext]_panelVars
-----------------------------------------------------------------------------
(* A deliverable that is a file has a completed upload whose object is in  *)
(* the storage and is what it claims to be: the record is made only after  *)
(* the completion was verified, and its object outlives every deletion,    *)
(* retry and late request of the others.                                   *)
RecordsAreVerified ==
  \A row \in rows : row.upload # None =>
    /\ intents[row.upload] = "completed"
    /\ row.upload \in objects \ cleaning
    /\ uploads[row.upload].file \in Genuine

(* An upload is in one deliverable, although a creation whose answer was   *)
(* lost is sent again and the first request may be handled afterwards.     *)
EachUploadDeliveredOnce ==
  \A a, b \in rows : a.upload = b.upload /\ a.upload # None => a = b

(* What the form offers to record, and what the field reports as uploaded, *)
(* is an upload the API completed.                                         *)
OfferedFileIsComplete ==
  \A n \in DOMAIN uploads :
    n = uploadedFile \/ uploads[n].phase = "success" => intents[n] \in {"completed", "rejected"}

(* An upload the creator cancelled in time is never completed, whatever the*)
(* storage or the API had received of it.                                  *)
CancelledStaysOut ==
  \A n \in DOMAIN uploads : uploads[n].phase = "cancelled" => intents[n] # "completed"

(* A download that is granted finds its object, also on a page that shows a*)
(* row deleted since.                                                      *)
GrantedDownloadsExist ==
  \A row \in shown.rows : DownloadGranted(row) => row.upload \in objects \ cleaning

(* From the file input to the download: only verified files are delivered, *)
(* each once, cancelled ones never, and what is offered is there.          *)
PanelInv ==
  /\ PanelTypeOK
  /\ RecordsAreVerified /\ EachUploadDeliveredOnce /\ GrantedDownloadsExist
  /\ OfferedFileIsComplete /\ CancelledStaysOut
=============================================================================
