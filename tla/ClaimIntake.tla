------------------------------- MODULE ClaimIntake -------------------------------
(***************************************************************************)
(* Importing documents: the upload dialog of the web application           *)
(* (UploadFilesModal.tsx, leftPanelSlice.ts, httpUtility.ts) against the   *)
(* claim endpoints of the API (routers/claimprocessor.py and               *)
(* logics/claimbatchpocessor.py).  The dialog creates a claim, uploads the *)
(* files one after the other and submits the claim when at least one was   *)
(* accepted.  A request whose answer is lost still runs in its API worker, *)
(* next to the ones that follow.                                           *)
(***************************************************************************)
EXTENDS Integers, SequencesExt, FiniteSetsExt

CONSTANTS
  Claims,       \* the ids uuid4 gives
  Picks,        \* the files a user picks, as records, see Verdict
  Nothing,      \* no claim, no manifest
  MaxMegabytes, \* app_cps_max_filesize_mb
  MaxFiles,     \* MAX_FILES, the files of one selection
  MaxPicked,    \* bound: the files in the dialog
  MaxLost       \* bound: the answers that get lost

ASSUME IntakeAssumption ==
  /\ Nothing \notin Claims /\ Nothing \notin Seq(Picks)
  /\ {MaxMegabytes, MaxFiles, MaxPicked, MaxLost} \subseteq Nat
  /\ \A d \in Picks : d.megabytes \in Nat

VARIABLES
  dialog,      \* the component's state and where handleUpload is
  manifests,   \* the claims' manifest.json: the files listed, or Nothing
  blobs,       \* the claims' other blobs, by file name
  handlers,    \* the upload requests being handled by API workers
  queue,       \* the claims in claim-process-queue
  finished,    \* the claims the workflow has completed
  accepted,    \* history: the files answered with 200, per claim
  lost         \* history: the claims with a request whose answer got lost

intakeVars == <<dialog, manifests, blobs, handlers, queue, finished, accepted, lost>>

Closed == [at |-> "closed", files |-> <<>>, claim |-> Nothing, next |-> 1,
           count |-> 0, error |-> FALSE, fresh |-> FALSE]

IntakeInit ==
  /\ dialog = Closed
  /\ manifests = [c \in Claims |-> Nothing] /\ blobs = [c \in Claims |-> {}]
  /\ handlers = {} /\ queue = <<>> /\ finished = {}
  /\ accepted = [c \in Claims |-> {}] /\ lost = {}

-------------------------------------------------------------------------------
(* The validation of an upload (utils/upload_validation.py).               *)

(* sanitize_filename: unsafe characters are replaced, so that different    *)
(* names may become one; "safe" is the name it returns.                    *)
TooLong(d) == d.safe = "too long"

(* sniff_mime_type_from_magic, against the type of the extension.          *)
TypeOfExtension(d) ==
  CASE d.ext = "pdf" -> "pdf" [] d.ext \in {"jpg", "jpeg"} -> "jpeg"
    [] d.ext = "png" -> "png" [] OTHER -> "none"

Sniffed(d) == IF d.magic \in {"pdf", "jpeg", "png"} THEN d.magic ELSE "other"

Verdict(d) ==
  IF d.safe = "" \/ TooLong(d) THEN 400
  ELSE IF Sniffed(d) # TypeOfExtension(d) THEN 415
  ELSE IF d.type \notin {TypeOfExtension(d), "octet-stream"} THEN 415
  ELSE IF ~d.sized THEN 400
  ELSE IF d.megabytes > MaxMegabytes THEN 413
  ELSE 200

-------------------------------------------------------------------------------
(* The API.                                                                *)
Handler(c, d) == [claim |-> c, doc |-> d, at |-> "blob", read |-> <<>>]

Move(h, g) == handlers' = (handlers \ {h}) \union {g}

(* add_file_to_claim: the blob is uploaded, over one of the same name.     *)
StoreBlob(h) ==
  /\ h.at = "blob" /\ Move(h, [h EXCEPT !.at = "read"])
  /\ blobs' = [blobs EXCEPT ![h.claim] = @ \union {h.doc.safe}]
  /\ UNCHANGED manifests

(* add_claim_item: read the manifest, append the item, write it back.      *)
ReadManifest(h) ==
  /\ h.at = "read" /\ manifests[h.claim] # Nothing
  /\ Move(h, [h EXCEPT !.at = "write", !.read = manifests[h.claim]])
  /\ UNCHANGED <<manifests, blobs>>

(* Mutant: the item replaces the ones that were read.                      *)
WriteManifestAnew(h) ==
  /\ h.at = "write" /\ Move(h, [h EXCEPT !.at = "answer"])
  /\ manifests' = [manifests EXCEPT ![h.claim] = <<h.doc>>]
  /\ UNCHANGED blobs

WriteManifest(h) ==
  /\ h.at = "write" /\ Move(h, [h EXCEPT !.at = "answer"])
  /\ manifests' = [manifests EXCEPT ![h.claim] = Append(h.read, h.doc)]
  /\ UNCHANGED blobs

HandlerStep ==
  /\ \E h \in handlers : StoreBlob(h) \/ ReadManifest(h) \/ WriteManifest(h)
  /\ UNCHANGED <<dialog, queue, finished, accepted, lost>>

(* The workflow has processed a claim it took from the queue (external).   *)
Complete ==
  /\ queue # <<>>
  /\ finished' = finished \union {Head(queue)} /\ queue' = Tail(queue)
  /\ UNCHANGED <<dialog, manifests, blobs, handlers, accepted, lost>>

(* delete_claim_container, for a claim that the grid shows as completed:   *)
(* the blobs of the claim's folder, the manifest among them.               *)
DeleteContainer ==
  \E c \in finished :
    /\ manifests[c] # Nothing
    /\ manifests' = [manifests EXCEPT ![c] = Nothing]
    /\ blobs' = [blobs EXCEPT ![c] = {}]
    /\ UNCHANGED <<dialog, handlers, queue, finished, accepted, lost>>

-------------------------------------------------------------------------------
(* The dialog.                                                             *)
serverVars == <<manifests, blobs, handlers, queue, finished, accepted, lost>>

Names(fs) == {fs[i].name : i \in DOMAIN fs}

(* handleFileSelect and handleDrop: after an import the new files replace  *)
(* the old ones, before it they are added when their names are new.        *)
Pick ==
  /\ dialog.at \in {"closed", "open", "done"}
  /\ \E S \in SUBSET Picks :
       LET new   == {d \in S : d.name \notin Names(dialog.files)}
           order == SetToSeq(IF dialog.at = "done" THEN S ELSE new)
       IN  /\ S # {} /\ IsFiniteSet(S) /\ Cardinality(S) <= MaxFiles
           /\ Len(order) > 0
           /\ Cardinality({d.name : d \in S}) = Cardinality(S)
           /\ dialog' = IF dialog.at = "done"
                          THEN [Closed EXCEPT !.at = "open", !.files = order, !.fresh = TRUE]
                          ELSE [dialog EXCEPT !.at = "open", !.files = @ \o order,
                                              !.fresh = TRUE, !.error = FALSE]
           /\ Len(dialog'.files) <= MaxPicked
  /\ UNCHANGED serverVars

Close ==
  /\ dialog.at \in {"open", "done"}
  /\ dialog' = Closed
  /\ UNCHANGED serverVars

(* The button waits for a schema for every file, which the user chooses.   *)
CanImport == dialog.at = "open" /\ dialog.fresh

(* create_claim_container: a new id with an empty manifest.                *)
CreateClaim(c) ==
  /\ manifests[c] = Nothing /\ accepted[c] = {} /\ c \notin finished \union lost
  /\ manifests' = [manifests EXCEPT ![c] = <<>>]

(* handleUpload, its first step: createBatch.                              *)
Import ==
  /\ CanImport
  /\ \E c \in Claims :
       /\ CreateClaim(c)
       /\ dialog' = [dialog EXCEPT !.at = "upload", !.claim = c, !.next = 1, !.count = 0]
  /\ UNCHANGED <<blobs, handlers, queue, finished, accepted, lost>>

(* createBatch is rejected: the error is shown, nothing is uploaded.       *)
ImportFails ==
  /\ CanImport
  /\ dialog' = [dialog EXCEPT !.at = "done", !.error = TRUE, !.fresh = FALSE]
  /\ UNCHANGED serverVars

Current == dialog.files[dialog.next]

Uploading == dialog.at = "upload" /\ dialog.next <= Len(dialog.files)

(* uploadFile: the request reaches a worker, which validates it.           *)
Upload ==
  /\ Uploading
  /\ IF Verdict(Current) = 200
       THEN /\ dialog' = [dialog EXCEPT !.at = "wait"]
            /\ handlers' = handlers \union {Handler(dialog.claim, Current)}
       ELSE /\ dialog' = [dialog EXCEPT !.next = @ + 1]
            /\ UNCHANGED handlers
  /\ UNCHANGED <<manifests, blobs, queue, finished, accepted, lost>>

(* The request whose answer the dialog waits for.                          *)
Awaited ==
  IF dialog.at # "wait" THEN {}
  ELSE {h \in handlers : h.claim = dialog.claim /\ h.doc = Current}

(* The answer of the request that the dialog waits for.                    *)
Answered ==
  /\ dialog.at = "wait"
  /\ \E h \in Awaited :
       /\ h.at = "answer" /\ handlers' = handlers \ {h}
       /\ dialog' = [dialog EXCEPT !.at = "upload", !.next = @ + 1, !.count = @ + 1]
       /\ accepted' = [accepted EXCEPT ![h.claim] = @ \union {h.doc}]
  /\ UNCHANGED <<manifests, blobs, queue, finished, lost>>

(* The handler raises, at any of its steps: a 500.                         *)
Refused ==
  /\ dialog.at = "wait"
  /\ \E h \in Awaited : handlers' = handlers \ {h}
  /\ dialog' = [dialog EXCEPT !.at = "upload", !.next = @ + 1]
  /\ UNCHANGED <<manifests, blobs, queue, finished, accepted, lost>>

(* fetch throws while the request is handled: the dialog goes on, the      *)
(* handler too.                                                            *)
AnswerLost ==
  /\ dialog.at = "wait" /\ Awaited # {} /\ Cardinality(lost) < MaxLost
  /\ dialog' = [dialog EXCEPT !.at = "upload", !.next = @ + 1]
  /\ lost' = lost \union {dialog.claim}
  /\ UNCHANGED <<manifests, blobs, handlers, queue, finished, accepted>>

(* The end of a request nobody waits for.                                  *)
Orphaned ==
  /\ \E h \in handlers \ Awaited : handlers' = handlers \ {h}
  /\ UNCHANGED <<dialog, manifests, blobs, queue, finished, accepted, lost>>

(* drop_message, by start_claim_process.                                   *)
Enqueued(c) == queue' = Append(queue, c)

AllSent == dialog.at = "upload" /\ dialog.next > Len(dialog.files)

Finish(error) == dialog' = [dialog EXCEPT !.at = "done", !.fresh = FALSE, !.error = error]

(* Mutant: the claim is submitted whatever the uploads gave.               *)
SubmitAnyway ==
  /\ AllSent
  /\ Finish(FALSE) /\ Enqueued(dialog.claim)
  /\ UNCHANGED <<manifests, blobs, handlers, finished, accepted, lost>>

(* submitBatchClaim when uploadCount > 0.                                  *)
Submit ==
  /\ AllSent
  /\ IF dialog.count > 0
       THEN Finish(FALSE) /\ Enqueued(dialog.claim)
       ELSE Finish(FALSE) /\ UNCHANGED queue
  /\ UNCHANGED <<manifests, blobs, handlers, finished, accepted, lost>>

(* The submission fails, or only its answer does.                          *)
SubmitFails ==
  /\ AllSent /\ dialog.count > 0 /\ Finish(TRUE)
  /\ Enqueued(dialog.claim) \/ UNCHANGED queue
  /\ UNCHANGED <<manifests, blobs, handlers, finished, accepted, lost>>

IntakeNext ==
  \/ Pick \/ Close \/ Import \/ ImportFails \/ Upload \/ Answered \/ Refused
  \/ AnswerLost \/ Orphaned \/ Submit \/ SubmitFails
  \/ HandlerStep \/ Complete \/ DeleteContainer

IntakeSpec == IntakeInit /\ [][IntakeNext]_intakeVars

-------------------------------------------------------------------------------
(* A claim in the queue has a file to process: its manifest lists one,     *)
(* and every file it lists is in its container, even while requests whose  *)
(* answers were lost still rewrite the manifest.                           *)
SubmittedClaimHasFiles ==
  \A i \in DOMAIN queue :
    LET listed == manifests[queue[i]] IN
    /\ listed # <<>>
    /\ \A k \in DOMAIN listed : listed[k].safe \in blobs[queue[i]]

(* What the user was told is imported will be processed: unless an answer  *)
(* was lost, the manifest lists every accepted file, once.                 *)
AcceptedIsListed ==
  \A c \in Claims \ lost :
    manifests[c] # Nothing =>
      /\ accepted[c] \subseteq ToSet(manifests[c])
      /\ IsInjective(manifests[c])
===============================================================================
