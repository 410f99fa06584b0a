------------------------------ MODULE ContentRecords ------------------------------
(***************************************************************************)
(* The record and the files of one document: submitted by the content API  *)
(* or by the workflow service, processed by the pipeline, corrected,       *)
(* commented on and deleted by users of the API (routers/contentprocessor, *)
(* models/contentprocess/content_process, content_process_service and the  *)
(* ContentProcess of the pipeline).  Nobody locks anything: every update   *)
(* is a lookup, then an update of the first record found or an insertion,  *)
(* and the id of a document is not unique in the collection.  Each step    *)
(* has one process and one delivery at a time here; what lapsed leases,    *)
(* duplicate messages and failing reports add is in ContentPipeline.       *)
(***************************************************************************)
EXTENDS Integers, SequencesExt, FiniteSetsExt

CONSTANTS
  Routes,      \* the ways of submission, "claim" (the workflow) and "single" (the API)
  Users,
  LastStep,    \* the number of steps; the last one saves
  MaxRuns,     \* the runs of a step after which it is dead-lettered
  Unset,       \* no value
  MaxReviews   \* bound: the requests of the users

ASSUME RecordsAssumption ==
  /\ Routes \subseteq {"claim", "single"}
  /\ {LastStep, MaxRuns} \subseteq Nat \ {0} /\ MaxReviews \in Nat
  /\ Unset \notin {"extracted", "corrected", "made"}

VARIABLES
  route,
  submission,  \* the request that submits the document: [todo, found, state]
  entries,     \* its records in the collection, in the order of a lookup
  stored,      \* its files: "source", "outputs" (of the steps), "status" (what they log)
  jobs,        \* the handlers at work on it: [step, at, found, runs]
  reviews,     \* the request of each user
  asked,       \* how many there were
  deleted,     \* history: a deletion was asked for
  settled,     \* history: the requests done that began when all else had ended
  doubled      \* history: two lookups found no record at the same time

recordVars ==
  <<route, submission, entries, stored, jobs, reviews, asked, deleted, settled, doubled>>

(* Mutant: the workflow enqueues before it inserts the record.             *)
OrderSwapped(r) == <<"blob", "enqueue", "record">>

(* What the two submissions do, in this order: the workflow's "avoids the  *)
(* duplicate-document race".                                               *)
Order(r) ==
  IF r = "claim" THEN <<"blob", "record", "enqueue">> ELSE <<"blob", "enqueue", "record">>

Resting == [op |-> "none", at |-> "idle", found |-> "unknown", late |-> FALSE]

RecordsInit ==
  /\ route \in Routes
  /\ submission = [todo |-> Order(route), found |-> "unknown", state |-> "open"]
  /\ entries = <<>> /\ stored = {} /\ jobs = {}
  /\ reviews = [u \in Users |-> Resting] /\ asked = 0
  /\ deleted = FALSE /\ settled = {} /\ doubled = FALSE

-------------------------------------------------------------------------------
(* The collection.                                                         *)

NewEntry == [status |-> Unset, result |-> Unset, comment |-> Unset]

Found == IF entries = <<>> THEN "no" ELSE "yes"

(* $set.                                                                   *)
Updated(entry, fields) ==
  [x \in DOMAIN entry |-> IF x \in DOMAIN fields THEN fields[x] ELSE entry[x]]

(* update_one sets the fields of the first record, if there is one.        *)
SetFirst(fields) ==
  entries' = IF entries = <<>> THEN entries ELSE [entries EXCEPT ![1] = Updated(@, fields)]

(* The writes that follow a lookup.                                        *)
Upsert(found, fields) ==
  IF found = "yes" THEN SetFirst(fields) ELSE entries' = Append(entries, Updated(NewEntry, fields))

(* The writers whose lookup found nothing.                                 *)
Inserters ==
  {j \in jobs : j.found = "no"} \union {s \in {submission} : s.found = "no"}

LookedUp == doubled' = (doubled \/ (Found = "no" /\ Inserters # {}))

-------------------------------------------------------------------------------
(* Submission.                                                             *)
NewJob(step) == [step |-> step, at |-> "start", found |-> "unknown", runs |-> 1]

Submitting(todo) == submission.state = "open" /\ submission.todo # <<>> /\ Head(submission.todo) = todo

SubmissionGoesOn ==
  submission' =
    LET rest == Tail(submission.todo)
    IN  [todo |-> rest, found |-> "unknown",
         state |-> IF rest = <<>> THEN "accepted" ELSE "open"]

UploadSource ==
  /\ Submitting("blob") /\ SubmissionGoesOn
  /\ stored' = stored \union {"source"}
  /\ UNCHANGED <<route, entries, jobs, reviews, asked, deleted, settled, doubled>>

EnqueueFirst ==
  /\ Submitting("enqueue") /\ SubmissionGoesOn
  /\ jobs' = jobs \union {NewJob(1)}
  /\ UNCHANGED <<route, entries, stored, reviews, asked, deleted, settled, doubled>>

(* The workflow inserts the record as it is.                               *)
InsertEntry ==
  /\ Submitting("record") /\ route = "claim" /\ SubmissionGoesOn
  /\ entries' = Append(entries, [NewEntry EXCEPT !.status = "running"])
  /\ UNCHANGED <<route, stored, jobs, reviews, asked, deleted, settled, doubled>>

(* update_process_status_to_cosmos of the API.                             *)
SubmissionLooks ==
  /\ Submitting("record") /\ route = "single" /\ submission.found = "unknown"
  /\ submission' = [submission EXCEPT !.found = Found] /\ LookedUp
  /\ UNCHANGED <<route, entries, stored, jobs, reviews, asked, deleted, settled>>

SubmissionWrites ==
  /\ Submitting("record") /\ submission.found # "unknown" /\ SubmissionGoesOn
  /\ Upsert(submission.found, [status |-> "running"])
  /\ UNCHANGED <<route, stored, jobs, reviews, asked, deleted, settled, doubled>>

SubmissionFails ==
  /\ submission.state = "open"
  /\ submission' = [todo |-> <<>>, found |-> "unknown", state |-> "failed"]
  /\ UNCHANGED <<route, entries, stored, jobs, reviews, asked, deleted, settled, doubled>>

-------------------------------------------------------------------------------
(* The pipeline.                                                           *)
Advance(j, more) == jobs' = (jobs \ {j}) \union more

Reports(j) == j.at \in {"start", "save", "report", "error", "bury"}

JobLooks(j) ==
  /\ Reports(j) /\ j.found = "unknown"
  /\ Advance(j, {[j EXCEPT !.found = Found]}) /\ LookedUp
  /\ UNCHANGED <<route, submission, entries, stored, reviews, asked, deleted, settled>>

(* What is written: the status alone, or all of the record.                *)
Written(j) ==
  CASE j.at = "start"  -> [status |-> "running"]
    [] j.at = "save"   -> [NewEntry EXCEPT !.status = "running", !.result = "extracted"]
    [] j.at = "report" -> [status |-> IF j.step = LastStep THEN "Completed" ELSE "running"]
    [] OTHER           -> [NewEntry EXCEPT !.status = "Error"]

Onward(j, at) == {[j EXCEPT !.at = at, !.found = "unknown"]}

(* And what follows: a failed step is dead-lettered in the end.            *)
Follows(j) ==
  CASE j.at = "start" -> Onward(j, "execute")
    [] j.at = "save"  -> Onward(j, "pass")
    [] j.at = "error" -> Onward(j, IF j.runs = MaxRuns THEN "bury" ELSE "log")
    [] j.at = "bury"  -> Onward(j, "log")
    [] OTHER          -> {}

JobWrites(j) ==
  /\ Reports(j) /\ j.found # "unknown"
  /\ Upsert(j.found, Written(j)) /\ Advance(j, Follows(j))
  /\ UNCHANGED <<route, submission, stored, reviews, asked, deleted, settled, doubled>>

(* The first steps read the source, the later ones what was stored by the  *)
(* steps before.                                                           *)
Needs(j) == IF j.step = 1 THEN "source" ELSE "outputs"

Executes(j) ==
  /\ j.at = "execute" /\ Needs(j) \in stored
  /\ stored' = stored \union {"outputs"}
  /\ Advance(j, Onward(j, IF j.step = LastStep THEN "save" ELSE "pass"))
  /\ UNCHANGED <<route, submission, entries, reviews, asked, deleted, settled, doubled>>

(* It may fail all the same, and so may what it saves after that.          *)
StepFails(j) ==
  /\ j.at \in {"execute", "pass"}
  /\ stored' = stored \union {"status"}
  /\ Advance(j, Onward(j, "error"))
  /\ UNCHANGED <<route, submission, entries, reviews, asked, deleted, settled, doubled>>

(* The document is passed on before the report of this step is written.    *)
PassesOn(j) ==
  /\ j.at = "pass" /\ stored' = stored \union {"status"}
  /\ Advance(j, Onward(j, "report")
                  \union (IF j.step < LastStep THEN {NewJob(j.step + 1)} ELSE {}))
  /\ UNCHANGED <<route, submission, entries, reviews, asked, deleted, settled, doubled>>

(* A failed run uploads its step outputs last; then the same process takes *)
(* the message again, unless it is dead-lettered.                          *)
LogsOutputs(j) ==
  /\ j.at = "log"
  /\ Advance(j, {[NewJob(j.step) EXCEPT !.runs = r] : r \in {j.runs + 1} \intersect 1 .. MaxRuns})
  /\ stored' = stored \union {"status"}
  /\ UNCHANGED <<route, submission, entries, reviews, asked, deleted, settled, doubled>>

-------------------------------------------------------------------------------
(* The users' requests.                                                    *)
Review(u, r) == reviews' = [reviews EXCEPT ![u] = r]

Settled(u) ==
  settled' = settled \union (IF reviews[u].late THEN {reviews[u].op} ELSE {})

(* Nothing but requests of users is, or will be, under way.                *)
Quiet == jobs = {} /\ submission.state # "open" /\ ~doubled

AskReview(u) ==
  /\ reviews[u] = Resting /\ asked < MaxReviews /\ asked' = asked + 1
  /\ entries # <<>> \/ submission.state = "accepted"
  /\ \E op \in {"correct", "comment", "delete"} :
       /\ Review(u, [Resting EXCEPT !.op = op, !.at = "look", !.late = Quiet])
       /\ deleted' = (deleted \/ op = "delete")
  /\ UNCHANGED <<route, submission, entries, stored, jobs, settled, doubled>>

ReviewLooks(u) ==
  /\ reviews[u].at = "look"
  /\ Review(u, IF Found = "no" /\ reviews[u].op # "delete" THEN Resting
               ELSE [reviews[u] EXCEPT !.at = "act", !.found = Found])
  /\ UNCHANGED <<route, submission, entries, stored, jobs, asked, deleted, settled, doubled>>

(* update_process_result and update_process_comment.                       *)
Corrects(u) ==
  /\ reviews[u].at = "act" /\ reviews[u].op # "delete" /\ Review(u, Resting)
  /\ SetFirst(IF reviews[u].op = "correct" THEN [result |-> "corrected"]
              ELSE [comment |-> "made"])
  /\ Settled(u)
  /\ UNCHANGED <<route, submission, stored, jobs, asked, deleted, doubled>>

(* delete_processed_file: the lookup, the folder, then one record.         *)
DeletesFolder(u) ==
  /\ reviews[u].at = "act" /\ reviews[u].op = "delete"
  /\ Review(u, [reviews[u] EXCEPT !.at = "record"])
  /\ stored' = {}
  /\ UNCHANGED <<route, submission, entries, jobs, asked, deleted, settled, doubled>>

DeletesEntry(u) ==
  /\ reviews[u].at = "record" /\ Review(u, Resting)
  /\ entries' = IF reviews[u].found = "no" \/ entries = <<>> THEN entries ELSE Tail(entries)
  /\ Settled(u)
  /\ UNCHANGED <<route, submission, stored, jobs, asked, deleted, doubled>>

ReviewFails(u) ==
  /\ reviews[u] # Resting /\ Review(u, Resting)
  /\ UNCHANGED <<route, submission, entries, stored, jobs, asked, deleted, settled, doubled>>

RecordsNext ==
  \/ UploadSource \/ EnqueueFirst \/ InsertEntry
  \/ SubmissionLooks \/ SubmissionWrites \/ SubmissionFails
  \/ \E j \in jobs : JobLooks(j) \/ JobWrites(j) \/ Executes(j) \/ StepFails(j)
                       \/ PassesOn(j) \/ LogsOutputs(j)
  \/ \E u \in Users :
       AskReview(u) \/ ReviewLooks(u) \/ Corrects(u) \/ DeletesFolder(u) \/ DeletesEntry(u)
         \/ ReviewFails(u)

RecordsSpec == RecordsInit /\ [][RecordsNext]_recordVars

-------------------------------------------------------------------------------
(* A document that was accepted has a record until somebody deletes it,    *)
(* and has one only, unless two of its writers found none at once: with    *)
(* the workflow's submission that takes a deletion, with the API's not.    *)
(* Completed is never shown without a result.  What users ask for after    *)
(* all the processing is never undone by requests that overlap: the record *)
(* and the files stay deleted, a corrected result and a comment are both   *)
(* kept.                                                                   *)
RecordFollowsDocument ==
  /\ submission.state = "accepted" /\ ~deleted => entries # <<>>
  /\ Len(entries) <= 1 \/ doubled
  /\ doubled => route = "single" \/ deleted
  /\ \A i \in DOMAIN entries :
       entries[i].status = "Completed" => entries[i].result # Unset \/ deleted
  /\ "delete" \in settled => entries = <<>> /\ stored = {}
  /\ ~deleted =>
       /\ "correct" \in settled => Head(entries).result = "corrected"
       /\ "comment" \in settled => Head(entries).comment # Unset
===============================================================================
