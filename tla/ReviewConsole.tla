------------------------------ MODULE ReviewConsole ------------------------------
(***************************************************************************)
(* The review page of the web application: the queue grid, the centre      *)
(* panel with the JSON editor and the comments, the right panel with the   *)
(* source document (ProcessQueueGrid.tsx, PanelLeft.tsx, PanelCenter.tsx,  *)
(* PanelRight.tsx, JSONEditor.tsx and the redux slices they dispatch to),  *)
(* against the content and claim endpoints of the API.  Requests are not   *)
(* cancelled: the answers of an earlier selection arrive in any order      *)
(* while the user looks at, and edits, another one.                        *)
(***************************************************************************)
EXTENDS Integers, FiniteSets

CONSTANTS
  Documents,   \* process ids
  Batches,     \* claim ids
  ClaimOf,     \* the claim of each document
  Running,     \* the documents still being processed (subset of Documents)
  Newest,      \* the first claim of the grid
  None,        \* no id, no data
  MaxActs,     \* bound: what the user does
  MaxFlying    \* bound: requests in flight when the user does something

ASSUME ConsoleAssumption ==
  /\ ClaimOf \in [Documents -> Batches] /\ Newest \in Batches
  /\ Running \subseteq Documents
  /\ None \notin Documents \union Batches
  /\ MaxActs \in Nat /\ MaxFlying \in Nat

VARIABLES
  page,       \* the state of the panels and of their slices
  flying,     \* the requests in flight
  record,     \* the server's documents: whose result and comment they hold
  remark,     \* the server's claim comments: whose they are, None if none
  claims,     \* the server's claims
  overtaken,  \* history: the claims in whose view an answer about another claim came
  acts        \* how much the user has done

consoleVars == <<page, flying, record, remark, claims, overtaken, acts>>

Blank ==
  [grid |-> [b \in {} |-> {}],                \* the claims shown: what is completed
   doc |-> None, claim |-> None, done |-> TRUE, \* processId, selectedClaim, the status
   content |-> None, loading |-> FALSE,       \* contentData, cLoader
   modified |-> None, comments |-> None,      \* modified_result, comments
   typed |-> None,                            \* the comment in the text area
   details |-> None, detailsLoading |-> FALSE,
   savedComment |-> None,                     \* the process_comment of the details shown
   claimTyped |-> None,                       \* the text area of a claim, None if empty
   files |-> {}, fileLoading |-> FALSE,       \* fileResponse, rLoader
   deleting |-> {}]                           \* deleteClaimsLoader

Request(kind, id, no) == [kind |-> kind, id |-> id, result |-> None, comment |-> None,
                          parts |-> {}, no |-> no]

Unused(kind, id) ==
  CHOOSE n \in 0..Cardinality(flying) : \A r \in flying :
    r.kind # kind \/ r.id # id \/ r.no # n

Ask(kind, id) == Request(kind, id, Unused(kind, id))

(* fetchContentTableData; "trigger" when refreshGrid asks.                 *)
GridRequest(trigger) == [Ask("grid", None) EXCEPT !.parts = IF trigger THEN {"trigger"} ELSE {}]

ConsoleInit ==
  /\ page = Blank
  /\ flying = {Request("grid", None, 0)}
  /\ record = [d \in Documents |-> [result |-> d, comment |-> None, done |-> d \notin Running]]
  /\ remark = [b \in Batches |-> None] /\ claims = Batches
  /\ overtaken = {} /\ acts = 0

-------------------------------------------------------------------------------
(* What the page shows.                                                    *)

EditorVisible(p) == p.claim = None /\ p.doc # None /\ p.done

(* The reducers of the pending actions.                                    *)
ContentPending(p) == [p EXCEPT !.loading = TRUE, !.modified = None, !.comments = None,
                               !.typed = IF p.comments # None THEN None ELSE @]

(* The effect that fetches the selected document's content.                *)
FetchContent(p) ==
  IF EditorVisible(p) THEN ContentPending(p) ELSE p

(* fetchContentJsonData.                                                   *)
ContentAsked(p) == IF EditorVisible(p) THEN {Ask("content", p.doc)} ELSE {}

(* The effects of a claim's selection: the pending details, an empty text. *)
FetchDetails(p) ==
  [p EXCEPT !.detailsLoading = TRUE, !.details = None, !.savedComment = None, !.claimTyped = None]

(* fetchClaimDetails.                                                      *)
DetailsAsked(p, b) == IF p.claim = b THEN {} ELSE {Ask("details", b)}

(* The right panel's effect: a file is fetched once.                       *)
FetchFile(p) == [p EXCEPT !.fileLoading = @ \/ p.doc \notin p.files]

FileAsked(p) == IF p.doc \in p.files THEN {} ELSE {Ask("file", p.doc)}

(* The effects of refreshTrigger: what is selected is fetched again.       *)
Refetch(p) == IF p.claim # None THEN FetchDetails(p) ELSE FetchContent(p)

Refetched(p) ==
  IF p.claim # None THEN {[Ask("details", p.claim) EXCEPT !.parts = {"again"}]}
  ELSE ContentAsked(p)

-------------------------------------------------------------------------------
(* The user.  Effects run before the next event.                           *)
Act ==
  /\ acts < MaxActs /\ Cardinality(flying) <= MaxFlying
  /\ acts' = acts + 1
  /\ UNCHANGED <<record, remark, claims, overtaken>>

(* handleDocumentClick, setSelectedGridRow and the effects of both panels; *)
(* a click on the selected document changes nothing.                       *)
SelectDocument ==
  \E d \in Documents \ {page.doc} :
    /\ Act /\ ClaimOf[d] \in DOMAIN page.grid
    /\ LET p == [page EXCEPT !.doc = d, !.claim = None, !.typed = None,
                             !.done = d \in page.grid[ClaimOf[d]]]
       IN  /\ page' = FetchContent(FetchFile(p))
           /\ flying' = flying \union ContentAsked(p) \union FileAsked(p)

(* setSelectedClaim.                                                       *)
Select(p, b) ==
  [(IF p.claim = b THEN p ELSE FetchDetails(p)) EXCEPT
     !.doc = None, !.claim = b, !.typed = IF p.claim = b THEN @ ELSE None]

(* handleClaimClick.                                                       *)
SelectClaim ==
  \E b \in DOMAIN page.grid :
    /\ Act
    /\ page' = Select(page, b) /\ flying' = flying \union DetailsAsked(page, b)

(* The editor gives the whole data back with every change.                 *)
Edit ==
  /\ Act /\ EditorVisible(page) /\ ~page.loading /\ page.content # None
  /\ page' = [page EXCEPT !.modified = page.content]
  /\ UNCHANGED flying

Type ==
  /\ Act /\ page.claim = None /\ page.doc # None
  /\ page' = [page EXCEPT !.typed = page.doc]
  /\ UNCHANGED flying

(* isButtonSaveDisabledCheck.                                              *)
CanSave(p) ==
  EditorVisible(p) /\ (p.modified # None \/ p.typed # None \/ p.comments # None)

(* saveContentJson: a PUT for the data, one for the comment.               *)
SaveRequest(p) ==
  LET parts == (IF p.modified # None THEN {"result"} ELSE {})
               \union (IF p.typed # None \/ p.comments # None THEN {"comment"} ELSE {})
  IN  [Ask("save", p.doc) EXCEPT !.result = p.modified, !.comment = p.typed, !.parts = parts]

(* handleSave.                                                             *)
Save ==
  /\ Act /\ CanSave(page)
  /\ flying' = flying \union {SaveRequest(page)}
  /\ page' = [page EXCEPT !.modified = None, !.comments = page.typed]

TypeOnClaim ==
  /\ Act /\ page.claim # None
  /\ page' = [page EXCEPT !.claimTyped = page.claim]
  /\ UNCHANGED flying

(* isClaimSaveDisabled: one at a time (claimCommentSaving), and when the   *)
(* text has changed: one claim has many texts, but one empty text.         *)
CanSaveClaim(p) ==
  /\ p.claim # None /\ p.details # None /\ \A r \in flying : r.kind # "remark"
  /\ p.claimTyped # None \/ p.savedComment # None

(* saveClaimComment.                                                       *)
RemarkRequest(p) == [Ask("remark", p.claim) EXCEPT !.comment = p.claimTyped]

(* handleClaimSave.                                                        *)
SaveClaimComment ==
  /\ Act /\ CanSaveClaim(page)
  /\ flying' = flying \union {RemarkRequest(page)}
  /\ UNCHANGED page

(* refreshGrid, by its button.                                             *)
Refresh ==
  /\ Act /\ flying' = flying \union {GridRequest(TRUE)}
  /\ UNCHANGED page

(* isDeleteDisabled: the claim is completed, when its documents are, and   *)
(* is not being deleted.                                                   *)
CanDelete(b) ==
  {d \in Documents : ClaimOf[d] = b} \subseteq page.grid[b] /\ b \notin page.deleting

(* handleDelete, for a claim whose button is enabled.                      *)
DeleteClaim ==
  \E b \in DOMAIN page.grid :
    /\ Act /\ CanDelete(b)
    /\ page' = [page EXCEPT !.deleting = @ \union {b}]
    /\ flying' = flying \union {Ask("delete", b)}

-------------------------------------------------------------------------------
(* The answers.                                                            *)
storedVars == <<record, remark, claims>>

Received(r, more) == flying' = (flying \ {r}) \union more

(* What get_process returns of a document, and retrieve_claim_details of a *)
(* claim.                                                                  *)
Content(d) == record[d].result

Comment(d) == record[d].comment

Remark(b) == remark[b]

(* Mutant: the data is taken whatever document is active.                  *)
ContentArrivesAnywhere(r) ==
  /\ r.kind = "content" /\ Received(r, {})
  /\ page' = [page EXCEPT !.content = Content(r.id), !.loading = FALSE,
                          !.comments = Comment(r.id), !.typed = Comment(r.id)]
  /\ UNCHANGED <<storedVars, overtaken>>

(* fetchContentJsonData.fulfilled: only for the active document.           *)
ContentArrives(r) ==
  /\ r.kind = "content" /\ Received(r, {})
  /\ LET text == Comment(r.id) IN
     page' = IF page.doc # r.id THEN page
             ELSE [page EXCEPT !.content = Content(r.id), !.loading = FALSE,
                               !.comments = text,
                               !.typed = IF text # page.comments THEN text ELSE @]
  /\ UNCHANGED <<storedVars, overtaken>>

(* Mutant: the loader is left on.                                          *)
ContentFailsLoading(r) ==
  /\ r.kind = "content" /\ Received(r, {})
  /\ page' = [page EXCEPT !.content = None, !.comments = None,
                          !.typed = IF page.comments # None THEN None ELSE @]
  /\ UNCHANGED <<storedVars, overtaken>>

(* fetchContentJsonData.rejected: for whatever document it was.            *)
ContentFails(r) ==
  /\ r.kind = "content" /\ Received(r, {})
  /\ page' = [page EXCEPT !.content = None, !.loading = FALSE, !.comments = None,
                          !.typed = IF page.comments # None THEN None ELSE @]
  /\ UNCHANGED <<storedVars, overtaken>>

(* The answer is about b, and the view is another claim's.                 *)
Overtaken(b) == IF page.claim \in {b, None} THEN overtaken ELSE overtaken \union {page.claim}

(* fetchClaimDetails: not compared with the selected claim.  A claim that  *)
(* was deleted is a 404.                                                   *)
DetailsArrive(r) ==
  /\ r.kind = "details" /\ r.id \in claims /\ Received(r, {})
  /\ page' = [page EXCEPT !.details = r.id, !.detailsLoading = FALSE,
                          !.savedComment = Remark(r.id), !.claimTyped = Remark(r.id)]
  /\ overtaken' = Overtaken(r.id)
  /\ UNCHANGED storedVars

DetailsFail(r) ==
  /\ r.kind = "details" /\ Received(r, {})
  /\ page' = [page EXCEPT !.details = None, !.detailsLoading = FALSE, !.savedComment = None]
  /\ UNCHANGED <<storedVars, overtaken>>

(* The right panel's slice: the files are kept by process id.              *)
FileFulfilled(p, d) == [p EXCEPT !.files = @ \union {d}, !.fileLoading = FALSE]

FileRejected(p) == [p EXCEPT !.fileLoading = FALSE]

(* get_original_file: the file, or a failure.                              *)
FileArrives(r) ==
  /\ r.kind = "file" /\ Received(r, {})
  /\ page' \in {FileFulfilled(page, r.id), FileRejected(page)}
  /\ UNCHANGED <<storedVars, overtaken>>

(* The two updates of ContentProcess.                                      *)
UpdateResult(r, ok) == IF "result" \in ok THEN r.result ELSE record[r.id].result

UpdateComment(r, ok) == IF "comment" \in ok THEN r.comment ELSE record[r.id].comment

(* Promise.all over the PUTs: responses[0] decides.                        *)
First(parts) == IF "result" \in parts THEN "result" ELSE "comment"

(* update_process_result, once per part, and some of them fail.            *)
Saved(r) ==
  /\ r.kind = "save"
  /\ \E ok \in SUBSET r.parts :
       /\ record' = [record EXCEPT ![r.id].result = UpdateResult(r, ok),
                                  ![r.id].comment = UpdateComment(r, ok)]
       /\ Received(r, IF First(r.parts) \in ok THEN {GridRequest(TRUE)} ELSE {})
  /\ UNCHANGED <<page, remark, claims, overtaken>>

(* The saved text becomes the one of the details shown, whoever's they     *)
(* are, and the effect on the details copies it to the text area when it   *)
(* is another text than before.                                            *)
CommentShown(p, text) ==
  LET q == [p EXCEPT !.savedComment = text, !.claimTyped = text] IN
  IF p.details = None THEN {p}
  ELSE IF text # p.savedComment THEN {q}
  ELSE IF text = None THEN {p} ELSE {p, q}

(* add_comment_to_claim, and saveClaimComment.fulfilled: not compared with *)
(* the selected claim either.                                              *)
ClaimCommentSaved(r) ==
  /\ r.kind = "remark" /\ r.id \in claims /\ Received(r, {})
  /\ remark' = [remark EXCEPT ![r.id] = r.comment]
  /\ page' \in CommentShown(page, r.comment)
  /\ overtaken' = IF page.details = None THEN overtaken ELSE Overtaken(r.id)
  /\ UNCHANGED <<record, claims>>

(* saveClaimComment.rejected: nothing was stored, or its answer is lost.   *)
ClaimCommentFails(r) ==
  /\ r.kind = "remark" /\ Received(r, {})
  /\ \/ r.id \in claims /\ remark' = [remark EXCEPT ![r.id] = r.comment]
     \/ UNCHANGED remark
  /\ UNCHANGED <<page, record, claims, overtaken>>

(* get_all_claim_batches.                                                  *)
Shown == [b \in claims |-> {d \in Documents : ClaimOf[d] = b /\ record[d].done}]

(* fetchContentTableData.fulfilled: the first claim is selected.  After    *)
(* refreshGrid the trigger fetches what is selected once more.             *)
FirstClaim == IF Newest \in claims THEN Newest ELSE CHOOSE b \in claims : TRUE

GridArrives(r) ==
  /\ r.kind = "grid"
  /\ LET p == IF claims = {} THEN [page EXCEPT !.grid = Shown, !.doc = None, !.claim = None,
                                                !.typed = None]
              ELSE Select([page EXCEPT !.grid = Shown], FirstClaim)
         asked == IF claims = {} THEN {} ELSE DetailsAsked(page, FirstClaim)
         again == "trigger" \in r.parts
     IN  /\ page' = IF again THEN Refetch(p) ELSE p
         /\ Received(r, asked \union (IF again THEN Refetched(p) ELSE {}))
  /\ UNCHANGED <<storedVars, overtaken>>

(* It is rejected: refreshGrid still increments the trigger.               *)
GridFails(r) ==
  /\ r.kind = "grid"
  /\ LET again == "trigger" \in r.parts IN
       /\ page' = IF again THEN Refetch(page) ELSE page
       /\ Received(r, IF again THEN Refetched(page) ELSE {})
  /\ UNCHANGED <<storedVars, overtaken>>

(* deleteClaim: unwrap() throws when it fails, else the grid is fetched.   *)
Deleted(r) ==
  /\ r.kind = "delete"
  /\ \/ claims' = claims \ {r.id} /\ Received(r, {GridRequest(FALSE)})
     \/ UNCHANGED claims /\ Received(r, {})
  /\ page' = [page EXCEPT !.deleting = @ \ {r.id}]
  /\ UNCHANGED <<record, remark, overtaken>>

Answer ==
  /\ UNCHANGED acts
  /\ \E r \in flying :
       \/ ContentArrives(r) \/ ContentFails(r) \/ DetailsArrive(r) \/ DetailsFail(r)
       \/ FileArrives(r) \/ Saved(r) \/ ClaimCommentSaved(r) \/ ClaimCommentFails(r)
       \/ GridArrives(r) \/ GridFails(r) \/ Deleted(r)

(* The pipeline completes a document (external).                           *)
Processed ==
  \E d \in Documents :
    /\ ~record[d].done
    /\ record' = [record EXCEPT ![d].done = TRUE]
    /\ UNCHANGED <<page, flying, remark, claims, overtaken, acts>>

ConsoleNext ==
  \/ SelectDocument \/ SelectClaim \/ Edit \/ Type \/ Save
  \/ TypeOnClaim \/ SaveClaimComment \/ Refresh \/ DeleteClaim
  \/ Answer \/ Processed

ConsoleSpec == ConsoleInit /\ [][ConsoleNext]_consoleVars

-------------------------------------------------------------------------------
(* What a reviewer changes is stored where it was shown: no document ever  *)
(* holds the data or the comment of another one, in whatever order the     *)
(* answers of earlier selections come; a claim holds the comment of        *)
(* another only when an answer about another claim (its details, or that   *)
(* its comment is saved) had come to this claim's view.                    *)
EditsGoHome ==
  /\ \A d \in Documents : record[d].result = d /\ record[d].comment \in {d, None}
  /\ \A b \in Batches : b \in overtaken \/ remark[b] \in {b, None}

(* Nobody is left before a loader: whatever was overtaken or failed, a     *)
(* request that will end it is in flight; for the content and the details  *)
(* it is one for the selection that is shown, the files share one loader,  *)
(* which the answer about any of them ends.                                *)
LoaderHasCause ==
  /\ EditorVisible(page) /\ page.loading => \E r \in flying : r.kind = "content" /\ r.id = page.doc
  /\ page.claim # None /\ page.detailsLoading =>
       \E r \in flying : r.kind = "details" /\ r.id = page.claim
  /\ page.fileLoading => \E r \in flying : r.kind = "file"
===============================================================================
