# Verification of the content processing solution accelerator

This directory holds TLA+ models of the accelerator's services, the TLC runs
that check them on small instances and the TLAPS proofs about them. Every
definition is translated from the code under `src/` (paths below are relative to
the repository's `src/` directory; the services live in
`ContentProcessorWorkflow`, `ContentProcessor`, `ContentProcessorAPI` and
`ContentProcessorWeb`). `PROJECT.json` names, for every definition, the lines it
stands for, and lists runs, mutants, findings, hazards and theorems.

- `tlc -workers 2 -config <run>.cfg MC<Module>.tla` checks a run,
- `tlapm <Module>Proofs.tla` checks the proofs; `tlapm WebProofs.tla` and
  `tlapm ClientProofs.tla` check those of the smaller components.

## 1. Inventory

A claim is a set of documents. The **API** stores it and puts a request on
`claim-process-queue`. The **Workflow** service takes the request, submits each
document to the extraction pipeline, waits for the results, and summarises and
checks them. The **ContentProcessor** runs the extraction pipeline, one process
per step, connected by queues. Cosmos DB holds the status records that the
**Web** front end polls; blob storage holds documents and intermediate results.

| Component | State | Operations | Interacts with | What is hard | What makes it correct |
| --- | --- | --- | --- | --- | --- |
| Claim queue service (`Workflow/src/services/queue_service.py`) | in-flight dictionaries per worker, worker and job tasks, `is_running`; in the storage account: messages, leases, pop receipts, dequeue counts | worker loop, job, renewal loop, success and failure handlers, `stop_process`, `stop_worker`, `stop_service` | claim queue and dead-letter queue, claim workflow, other replicas through the queue | tasks and threads interleave; cancellation does not stop a thread; receipts go stale; crashes and redelivery | no request is lost; none runs twice at once; the retry budget; a finished or killed request stays so |
| Content pipeline (`ContentProcessor/src/libs/pipeline`) | a queue and a dead-letter queue per step; the document's record, `process-status.json`; the handler's current message | receive, run the step, record, pass on, delete, report; error path: record, retry or dead-letter | queues of the steps, Cosmos DB, blob storage, the host | every call may fail; leases are not renewed; a message is passed on before it is deleted; two handlers write one record | no document is dropped; steps in order; status and results agree; every document gets an outcome |
| Handler process host (`ContentProcessor/src/libs/process_host`) | list of handlers with their processes | start, sweep, replace | handler processes | the list is changed while it is iterated | one process per handler; each one that ends is started again |
| Claim workflow (`Workflow/src/steps`, `repositories`) | claim record with status, comment, per-document entries, summaries; the workflow's event stream | event consumer, four executors, repository read-modify-writes, document submission and polling | queue service, content pipeline, Cosmos DB, agent framework | consumer and executors write the same record with no guard; documents run concurrently | no update is lost; the status ends terminal; failure reaches the queue service |
| Claim and content API (`API/app/routers`) | claim manifests in blob storage, records in Cosmos DB | create a claim, add and remove files, submit, status, delete | queues, Cosmos DB, the running workflow | request order versus the workflow; manifests are written without a condition | a submitted claim holds the files that were added; a record never goes back |
| Schema vault and sets (`API/app/routers/logics`) | schemas, sets and their members | register, update, add, remove, delete | Cosmos DB, blob storage | several writes per operation, any may fail | a registered schema has its file; a set holds what its edits make of it (a deleted schema stays in its sets) |
| Dependency container (`application_context.py`, three copies) | registrations, singletons, scopes, the current scope | get, async get, create and dispose scopes, shut down | all services | the current scope is shared by all coroutines and changes at their awaits | a scope keeps its instances; an async object is entered before and closed once |
| Agent conversation (`groupchat_orchestrator.py`) | rounds, progress counters, last selections | select, respond, detect loops, terminate | agent framework | termination of a conversation of several parties | the conversation ends and its result is the coordinator's |
| Retrying model clients (`azure_openai_response_retry.py`, two copies) | the messages, attempts | call with back-off, trim the prompt, call once more | Azure OpenAI | two kinds of retry meet; the prompt is trimmed in place | bounded attempts, each with a reason; the instructions are kept |
| HTTP client (`http_request.py`) | token and its lock, attempts | request, poll, fetch a token | OAuth and HTTP services | coroutines find the token stale at once, fetches fail | one fetch per token |
| Field scores (`evaluate_handler/*`, `save_handler.py`), schema loader, upload validation | none (pure) | score, merge and sum up; build classes; accept uploads | step handlers, API | trees of different shape, boundaries | every field is counted once with a score given to it |
| Web front end (`Web/src/store/slices`, `Pages/DefaultPage`, `UploadFilesModal`) | slices of the store, state of the panels, upload list | fetch, select, edit, save, import, refresh, delete | API | answers overtake each other, get lost or are failures | what is edited is stored where it was shown; what was accepted is processed |
| Configuration, credentials, logging, entry points | settings | read once at start | all | - | - |
| Infrastructure (`infra/`) | - | deployment | - | - | not modelled |

## 2. Modules

| Module | Contents | Composition, abstract specification | Checks and proofs |
| --- | --- | --- | --- |
| `QueueService` | claim queue service | implements `ClaimDelivery` | 4 runs; type, no loss, retry budget, exclusive runs, current receipts and the safety part of `ClaimDelivery` proved |
| `ContentPipeline` | step queues and handlers | its handlers' restarts are the promise of `Supervision` | 3 runs; all its invariants proved |
| `HandlerHost` | supervisor | implements `Supervision` | 1 run; type, one process, bounded neglect and the safety part of `Supervision` proved |
| `ClaimWorkflow` | event consumer, executors, document tasks, claim repository | its documents are those of `ContentPipeline`, its end is the outcome of a job of `QueueService` | 2 runs; all its invariants and `StatusForward` proved |
| `GroupChat` | one run of the agents' chat | what an executor of `ClaimWorkflow` calls | 1 run; all its invariants proved |
| `SchemaVault` | schemas, sets and their requests | - | part of the run `components`; both properties proved |
| `ClaimIntake` | import dialog and claim endpoints | front end and API together; its queue is that of `QueueService` | part of `components`; both properties proved |
| `ReviewConsole` | review page and the endpoints it calls | front end and API together | part of `components`; both properties proved |
| `ServiceContainer` | dependency container | - | part of `components`; both properties proved |
| `ModelCalls` | retrying model clients | - | part of `components`; both properties proved |
| `HttpClient` | HTTP requests, polling, token | - | part of `components`; its property proved |
| `FieldScores` | scoring of fields | what the steps of `ContentPipeline` compute | part of `components`; its property proved |
| `ContentRecords` | a document's record and files: submission, processing, requests of users | content API, workflow service and pipeline together | part of `components`; its property proved |

`OrderLemmas` holds the lemmas several proofs share: the library's induction theorems
take an operator as parameter, which no backend instantiates, so induction is stated for
sets. An interval that contains 0 and with each number the next is the whole one
(`IntervalInduction`), which follows from the finiteness of its subsets; from it come
least and greatest members, the increasing enumeration of a finite set
(`AscendingExists`), recursive functions on an interval (`RecursionExists`) and sums
(`SumsExist`, `SumsAre`).

Every invariant of a passing run is proved for all values of the constants; what stays with
TLC is said in section 9.

## 3. The claim queue service: `QueueService`

**State.** The storage account (`queued`, `lease`, `receipt`, `dequeues`, `dead`)
and, per worker loop, one record `wk[w]`: the phase of its job, the message, the
receipt the message was received with (`held`), the receipt the service tracks
for it (`tracked`, `_worker_inflight_message`), whether the in-flight
dictionaries list it, and its renewal loop. `running`, `registered` and
`stopping` are `is_running`, the keys of `_worker_tasks` and the calls of
`stop_worker` that wait. History variables record what was worked off, killed
and refused.

**Steps.** A replica runs on one event loop, so a step is the code between two
awaits. A storage call goes through `asyncio.to_thread`: its effect at the
account and its return to the coroutine are two steps, and when the coroutine is
cancelled in between the call stays in its thread (`orphans`). Receive and
delete calls whose interleaving cannot be observed are one step. `Env` selects
the faults and operator calls (crash, stop_service, stop_worker, stop_process, a
failing start of the workflow, failing or slow storage calls); `Budget` bounds
how many of them happen.

**Promise.** `ClaimDelivery` says what the API relies on: a request leaves the
queue only with an outcome (worked off, dead-lettered or killed), outcomes are
never taken back, and every request gets one.

| Run | Question | Result |
| --- | --- | --- |
| `claim_leases` | do leases keep a request from running twice, is the tracked receipt the accepted one, as long as renewals succeed and are not slow? | holds |
| `claim_delivery` | nothing lost, retry budget, `ClaimDelivery` under any single fault or operator call: safety, and every request gets an outcome | holds, the latter under fairness |
| `success_final` | the cancelled renewal prevents duplicate processing | violated: a renewal in its thread makes the delete fail silently |
| `kill_target` | `stop_process` cancels only its own job | violated: the task is looked up after an await |

Four more places where the model deviates from what comments or docs say are
seen in the module but have no run: `stop_process` (line 498) suffers from the same
stale receipt as the success path; a worker that `stop_worker` cancels while it
awaits a job swallows the cancellation (line 879) and goes on polling
unregistered; every failure of an executor is dead-lettered on its first delivery
(line 1068) although the docs say that failures are retried; `stop_service` leaves the messages of the jobs it cancels on the
queue although the docs say they are deleted, which is the safer of the two.

**Bounds.** Two workers, in one replica or two, are the fewest that compete; two
messages the fewest for a worker to go on with while something of the last one is
pending; two deliveries the fewest at which a retry and a last attempt differ; a
lease of two or three ticks leaves room for a renewal in time and for one too
late. One fault is enough for every transition; the proofs below have no such
bounds.

**Fairness.** Weak fairness of the steps of each job, renewal loop and thread
call (the event loop runs what is ready, the SDK's calls return), of receiving
(a worker loop polls for ever), of time, and of starting a replica that is down
(the container platform restarts it). There is none for faults and for the
workflow's success.

**Proofs** (`QueueServiceProofs`). `TypeCorrect` needs more than types:
a job that is not idle has a message, and only finitely many calls are in flight,
so that a fresh receipt exists (`FreeNumber`, `NewReceiptFresh`). `NoLoss` is
inductive together with what the phases promise: a job that is about to
delete has run to the end or has sent the dead letter, and a pending call of
`stop_process` is for a killed message. `Refinement` maps every step to a step
of `ClaimDelivery` or a stutter from the same invariant.

`RetriesExhausted` (`RetryBudget`) rests on `BudgetInv`: a job knows the attempt
it is, or fewer, and once it is about to send the dead letter, itself or in a
thread that outlives it, the request was refused or delivered
`MaxReceive` times. `RunsExclude` (`ExclusiveRun`) and `ReceiptsCurrent`
(`TrackedIsCurrent`) hold for the sets of faults without slow calls, failing renewals
and `stop_worker` (`Undisturbed`), whatever else fails: `LeaseInv` says that a
running job's lease has time left for the renewal that is due, so that nobody
else can receive its message. TLC shows that each of the three excluded faults breaks
`ExclusiveRun` by itself; a slow call keeps the renewal loop from its deadline, and
a stopped worker leaves its message to others while its thread goes on.

## 4. The document pipeline: `ContentPipeline`

**State.** Messages are `<<document, step, copy>>`; `hidden` are those whose
lease or delay runs; `count` is the dequeue count, which also serves as receipt,
since a delete or update is refused exactly when the message was delivered again
or is gone. `proc[h]` is the handler process of one step in one replica: the call
of `_connect_async` it is about to make and its message. `status` and `results`
are the document's record in Cosmos DB, `marked` the `completed_steps` in
`process-status.json`, `executed` is history.

**Steps.** One per call with the code around it: `Receive`, `Start`, `Execute`,
`Record`, `Pass`, `Delete`, `Report` and, when one raises (`TryFails`),
`MarkFailed`, `RecordError`, then `Retry` or `Bury`, `Unqueue`, `Rereport`. An
exception in the error path or in the poll ends the process (`Dies`), and so does
a message that does not parse; the host starts it again (`Restart`). A step
may fail at any time at no cost; faults of the environment (`Env`) are bounded by
`Budget`. The dequeue count of a malformed message is not counted: nothing reads
it.

| Run | Question | Result |
| --- | --- | --- |
| `pipeline_faults` | no document is dropped; steps in order, Completed only after all steps; as long as the environment is faultless, a completed record has its results and a document is saved or dead-lettered, never both | holds |
| `pipeline_progress` | every document is handled and the queues drain | holds under fairness |
| `pipeline_stuck` | the status ends terminal | violated: a late report of an earlier step |

`CompletedHasResults` and `OneOutcome` need the faultless environment: the
message of a handler that is slower than its lease is delivered again and may be
finished by the other replica; the slow one's delete is then refused, and its
error path replaces the finished record and may even dead-letter the document.
Three more deviations are visible in the module and have no run: a malformed
message is not dead-lettered but ends the process at each delivery; every failure,
also one that will be retried, writes the status `Error`, which the workflow
service takes for final; and the error path appends the failed step to
`completed_steps`.

**Bounds.** Two steps: the last one and one that passes on; the step in between
would do nothing that these do not. Two replicas race for one message and two
copies allow one duplicate. `DeadAfter = 1` (5 in the code) gives a retried and a
last delivery. `pipeline_progress` has one replica, since the liveness question
does not need the race, which `pipeline_faults` covers.

**Fairness.** Handlers poll and run, calls return, the host restarts
(`ImplementsSupervision` below is what justifies it), leases run out.

**Proofs** (`ContentPipelineProofs`), for any number of steps, replicas,
documents, copies and faults. `NoDocumentDropped` is not inductive: a handler that
is about to delete its message must have left something behind. `HandlerSafe` says
what: behind `Pass`, a message of a later step or a saved document; behind `Bury`,
an entry in the dead-letter queue. `StepsInOrder` is strengthened by the same
order for the messages that handlers hold.

`ResultsStay` and `OneOfTwo` state the properties as the run does, for states in
which nothing has disturbed the document (`Undisturbed`). `DocumentInv` adds `FlowInv`
to the invariants above: a message that a handler holds is hidden from the others
(`Leases`), the messages of a document are all of one step, the front, behind which the
results are complete (`Front`), and a document that is saved or buried has no
message left but the one about to be deleted (`Ends`).

## 5. The handler host: `HandlerHost`

`handlers` is the list, `next` the index of Python's list iterator, `processes`
counts the processes of each handler. `Replace` removes the current entry,
starts a process and appends its entry: as the iterator is an index, the entry
behind the removed one is skipped in this sweep. `missed` counts, per handler, the
sweeps in a row that skipped it. The check of a process and the append are one
step, since only the end of the new process could come between, which the next
sweep sees in any case.

`host_restarts` checks that every handler keeps one entry and one process, that
no handler is skipped `N` times in a row, and that the host implements
`Supervision`: every handler that has ended is started again, under weak fairness
of the supervisor alone and with processes that may end at any moment. Four
handlers are those of the shipped configuration.

**Proofs** (`ProcessorProofs`), for any number of handlers. `TypeCorrect` and
`OneProcessEach` follow from the invariant `HostInv`. `NeglectIsBounded`
rests on a measure: a skip moves the handler one place forward in the list, so
its place plus the sweeps that missed it stays within `N`.
`Refinement` maps the host to `Supervision`'s safety part: a process counts as up
when one runs, and since every handler has one at most (`OneProcess`), `Replace`
is a start and nothing else changes what is up.

## 6. The claim workflow: `ClaimWorkflow`

**State.** One claim. `records` are the documents with its id in the collection,
in the order in which a lookup finds them: nothing makes the id unique, and a
delete and add that meet another leave two. `con` is the consumer of
`ClaimProcessor.run` with the record updates (`todo`) that the event at hand
still needs, `inbox` the events it has not seen, `exec` the running executor,
`task[d]` the task of a document in `_process_one`. `api` is the progress of
`start_claim_process`, `user` a comment being written. `queued` and `attempts`
are what the queue service keeps of the claim.

**Steps.** An update of a record is a read and a write of the whole record, by
whoever makes it; each is a step. `Create` is `Create_Claim_Process` call by
call. A task takes a slot, submits its document, upserts its entry under
`_upsert_lock` (the lock is held by the task that is writing), polls, reads the
final status anew and upserts again. What the pipeline's record may say next is
`Later`: an `Error` may be retried and a late report may follow `Completed`, as
`ContentPipeline` shows. An executor fails whenever it likes; the consumer then
writes status, comment and processed time in three updates. `EndRun` is what the
queue service makes of the result.

**Assumptions on the frameworks.** Events arrive in order; the next executor
starts when all events of the last one are consumed; when the consumer raises, its
executor stops; a lookup returns the oldest record, an update inserts none, and a
call that raises had no effect. An executor may run ahead of the consumer, but a
read-modify-write of one does not overlap one of the other, unless the disturbance
`overlap` is in `Env`.

| Run | Question | Result |
| --- | --- | --- |
| `claim_faults` | the record keeps all that one run produces, it tells how the run ended, its status only moves forward | holds with crashes, failing calls and new submissions |
| `claim_settles` | a submitted claim leaves the queue, with a final status | holds under fairness; the status only if nobody but the workflow wrote the record and no update of the consumer failed |

Submission enqueues the claim before it replaces the record, so `Pending` may
follow `Processing`, contrary to the docs; `EventuallySettled` holds all the same.

The conditions of the properties are the deviations. A comment of a user, a
deletion or an overlapping update writes back a record that is out of date, and
whatever was written in between is lost. An exception in the consumer's own
updates leaves the claim without a final status even when its message is
dead-lettered, as the queue service writes no status. A disturbance between the
delete and the add of `Create` leaves no record, and later updates do nothing. A
claim is `Completed` even when none of its documents was.

**Bounds.** Three documents for two slots: the semaphore and the lock are
contended. One disturbance per behaviour; a crash, a failing update or a new
submission gives a second run over the record of the first. `claim_settles` has
one document and no RAI stage, since its question is about the claim.

**Fairness.** The event loop runs the consumer, the executor and every task, the
API finishes its request, polling ends by a status or by its timeout. There is
none for faults, comments and failures of executors.

**Proofs** (`ClaimWorkflowProofs`), for any number of documents, slots, attempts and
disturbances. `ClaimInv` has four parts: `Types`; `Shape`, where an executor and its
tasks can be and that a writer holds the record it has read; `Flow`, how the
consumer's work, the inbox and the running executor fit together; and `Sound`, which
says of undisturbed states what the one record holds by then (`Held`), which results each
stage has left in it (`Results`) and how far its status is (`Progress`). `Shape` and
`Flow` hold with every disturbance, so that `ClaimTypes` and the steps of the
consumer need no condition. `RecordKept` and `OutcomeTold` follow at once, and
`StatusMovesForward`, an action property, from `Progress`: each update writes a status
later than the one it read.

## 7. The agents' chat: `GroupChat`

**State.** `said` is the framework's conversation, `o` the orchestrator's fields:
the last speaker, the buffer of the turn under way, `agent_responses`, the
conversation it is given with the output, the reviewers' progress, the
Coordinator's last selection with its streak, and whether and why the chat is
stopped (`stopped` by the Coordinator, `forced` by the orchestrator). `args`,
`recorded` and `usage` are the bookkeeping of tool calls.

**Steps.** One per event of the stream: the first update of a turn
(`CoordinatorTurn`, `ReviewerTurn`), a further one with a fragment of a call's
arguments (`ToolTurn`), the output (`Output`); and `Clock`, with which
`max_seconds` have passed. Each runs the whole of `_handle_agent_update`: a switch
of speakers completes the turn before, a completed decision of the Coordinator
is looked at for a loop and for the end. Then come the generator's answer, valid or
not, its one retry with a smaller excerpt, and `on_workflow_complete`. The
framework is external: it alternates the Coordinator and a reviewer, whom it
takes from a decision it can read, and may end the chat after any turn.

`group_chat` checks that every turn becomes one response (`OneResponsePerTurn`), a
loop is only seen where there is one and is never missed (`LoopIsReal`), a typed
result is only given to a chat that ran its course (`ResultIsEarned`), tool calls
are recorded once each although they are seen in fragments and again in the
conversation (`ToolCallsOnce`), the excerpts keep their limits (`ExcerptsFit`), and
every run returns (`EventuallyReturns`).

The sign-off gate deviates from its comments: it reads a conversation that is only set
when the stream has ended, so it accepts every "complete", and it would take a
reviewer's oldest sign-off for the last one. `ResultIsEarned` is stated without it.
`max_seconds` is only looked at when an event arrives.

**Bounds.** Two reviewers are the fewest whose selections differ. Four responses
(`MaxRounds`) are the fewest that hold a loop and a limit; one turn with a tool
call, in up to two fragments. The limits of the excerpts (three messages, then two) let a
text be taken whole, cut to its ends, and cut to what room is left. **Fairness.** An agent that is called answers or
raises and the generator returns; without that a hanging agent hangs the chat,
timeout or not.

**Proofs** (`GroupChatProofs`), for any reviewers, decisions, sign-offs and limits and
chats of any length. `ChatInv`: while the chat streams the buffer holds the text of
the turn under way (`TurnInv`), and with it the responses are the turns with a text
(`ResponseInv`), counted, since the k-th turn with a text is the k-th response.
`LoopInv` ties the streak to the responses: it is 1 when the last selection repeats
none before it, 3 when it repeats one that does, and the progress has moved since
(`seen`) just when a reviewer has answered since. `EarnedInv` says that the
instruction kept is that of the last decision that has one, and `ToolInv` that the
usage lists just the recorded calls. `TurnsAnswered`, `LoopsAreReal`, `ResultsAreEarned` and
`CallsRecordedOnce` follow from it. The calls that the output adds are a set that is
put in the order of the turns; `AscendingIs` shows by a count of predecessors that
such an order exists and leaves none out. `ExcerptsKeepLimits` follows the two loops that pick
messages from the newest back (`ExcerptIs` unfolds the recursion): each keeps its limits (`Within`), the
first message picked stays the last (`NewestStays`), and until the second excerpt is at its end both
have picked the same (`Beside`). What it takes of the limits, in `ChatAssumption`, the configured ones
(12 messages of 8000 characters up to 60000, then 6 of 4000 up to 20000) satisfy: the second are no
larger, a text it takes whole is no longer than one the first has cut, and the
first does not run short before the second is at its end.

## 8. Components that share no state: `MCComponents`

Eight smaller components are checked by the run `components`. They share no
state, so `MCComponents` lets one of them move in each behaviour, chosen by
`part`, and keeps the others in their initial states: the reachable states are the
union of those of the eight.

**`SchemaVault`.** `schemas`, `files` and `sets` are the collections and blobs, and
`request[w]` what a worker process of the API is doing, one store call per step;
any call may fail and end the request (`RequestFails`). `SchemaHasFile`: a
registered schema always has its validated file, however requests overlap and fail; the
order of the calls, file before document and back, is what keeps it.
`SetKeepsEdits`: a set's list is what its edits make of it, except when two
overlapped, when the later write undoes the earlier. Two workers, two schemas and
five requests let a registration, an edit and a deletion meet.

**`ClaimIntake`.** The dialog creates a claim, uploads its files in turn and
submits the claim when one was accepted; the API stores the blob, then reads and
writes back the manifest, a step each. A request whose answer is lost goes on.
`SubmittedClaimHasFiles`: a queued claim lists a file and each one it lists is stored.
`AcceptedIsListed`: what was answered with 200 is in the manifest, once. It leaves
out claims with a lost answer, where the request still running overwrites the
manifest of the next one and a file is silently left out. Two different names may be
sanitised to one, and the later file then replaces the earlier blob while the
manifest lists both. Three files and one lost answer are the fewest for that.

**`ReviewConsole`.** `page` holds the state of the panels and slices, `flying` the
requests whose answers may come in any order, `record` and `remark` what the
server stores: values name the document they belong to. An action of the user runs
to the end of the effects it triggers. `EditsGoHome`: no document is ever stored with
data or a comment of another one. For claims it does not hold: unlike the reducer for
documents, `fetchClaimDetails.fulfilled` and `saveClaimComment.fulfilled` do not compare
the selection. The first shows the details of a claim that was left, the second
writes the saved comment into whatever details are shown, from where the effect in
`PanelCenter.tsx` copies it into the text area (`CommentShown`), over what was
typed meanwhile; Save then stores it in the wrong claim. The property takes out just the claims
in whose view such an answer about another one came (`overtaken`), and says that
every other claim keeps its own comment. `LoaderHasCause`: whenever a panel shows a
loader for what is selected, a request is in flight that will end it. For content and
claim details that is a request for this very selection; the files share one loader,
which the answer about any file ends, so there it is a request for some file. Also visible
in the module: of the two PUTs of a save only the first one's response is looked at;
`deleteClaim.fulfilled` waits for the status `Success` while the API says `success`;
the API has two routes for DELETE on a claim, of which the first always wins.
Two documents in two claims, four actions of the user with up to two requests in
flight at each are the fewest for an answer to overtake another selection and a save.

**`ServiceContainer`.** `current` is `_current_scope_id`, `singles` and `scoped` are
the kept instances, `caller[c]` a coroutine at an await of `get_service_async`, of
the end of its scope or of none. `SyncScopeIsolated`: the handle of a scope
returns one instance of a service and none of another scope, because it sets and restores
the current scope without an await. `LifecycleKept`: what is kept was entered,
what is disposed of was entered and is disposed of once. What is not true, and
not claimed: an async singleton is created once (two coroutines both find it
missing), an async scoped service is kept in the scope that asked for it (the current
scope may have changed while it was entered), and all services of a scope are
disposed of (a dictionary that changes meanwhile, or one disposal that raises,
ends the loop). The loops over a dictionary take its keys when they start (`left`) and its size to notice
a change, where Python iterates over the live dictionary. No call follows a completed `shutdown_async`. Two coroutines, two
scopes, three objects and a service of each kept lifetime.

**`ModelCalls`.** One call of a model by either copy of the client: the prompt is
trimmed when it is too long, a transient error is retried, and an error that looks
like a too long context leads to one more round with a trimmed prompt. Texts are lengths and
fingerprints. `PromptKept`: the leading system messages survive every trimming,
order is kept, and what still exceeds the limit cannot be cut further.
`RetriesWarranted`: each request after the first follows a failure that warrants it,
within the budgets. The differences of the copies are part of the model: the content
processor's may repeat the instructions among the newest messages, cannot cut framework
messages and may send an empty list; both drop messages with equal ends, and take
every 400 and 413 for a too long context. Prompts of up to three messages of four kinds.

**`HttpClient`.** Coroutines that share a token, fetched under a lock, with retries
and polling. `TokenShared`: one fetch at a time, and none while the last token is good.
Not claimed: a poll ends when its time is up (looked at between requests only),
and a request is sent at most once (all methods are retried, POST, too). After
exhausted retries the retry library's error is raised, and the code behind it that would raise
`HttpRequestError` is not reached. Two coroutines, two lifetimes of tokens, five ticks.

**`FieldScores`.** A document's extracted fields get a score from the OCR lines
and one from the model's token probabilities; the two trees are merged and
summed up, and the save step derives the totals. `ScoresAddUp`: no field is lost or
counted twice, each is reported within half a thousandth of a score that an evaluator gave
to it, and the totals are consistent. Scores are exact multiples of `Unit` (the code's are
floats) and are rounded where the code rounds: merged leaves and the mean to three digits, the
reported percentage to two, shares to three. The least score and what only one tree has are not rounded, so
the least may be up to half a thousandth above the mean, and the schema's score is full just
when at most one field of 2000 has a zero; only the proof reaches that many fields, in the
run it is full when there is no zero. `Unit` is 2 in the run, for scores that lie between
two thousandths, half way between them, and so low that they are rounded to 0. A docstring
(`save_handler.py`, 265-268) calls the schema's score the ratio of the fields above the threshold, but the
code counts those that are not 0 (295-299), however low. Other deviations are visible in `Leaf` and `Merged`: a test says that
merging takes the lesser score, a docstring the average, but the leaves of Content Understanding
carry more keys than a leaf may have, so its score is taken and the model's, even a
lower one, never is; a field called "confidence" loses its score, and an object called
"confidence" is taken for a leaf and loses all its fields but one; names that start with an
underscore are left out wherever both trees have the object;
when all scores are 0 the totals are the share of filled fields, so that a document in
which OCR found nothing may be saved with 100 %; and an OCR line without words fails the step.
Names are assumed to be such that `flatten_dict` keeps them apart and none is a key of the sums.
Five extractions, flat, nested, with the special names and empty; up to two lines and
three tokens, which suffice for equal and contained values, repeated ones and zeros.

**`ContentRecords`.** One document: `submission` is the request that submits it, of
the content API or of the workflow service, `jobs` the handlers at work on it, `reviews[u]`
what a user asks for, `entries` its records in Cosmos DB and `stored` its files. Every
write of a record is a lookup, then an update of the first one found or an insertion, two steps
between which anybody may write; the id is not unique. Unlike in `ContentPipeline`
a step has one delivery at a time. `RecordFollowsDocument`: an accepted document has a
record until somebody deletes it; it gets a second one only when two lookups found none at
the same time; Completed comes with a result; a deletion, correction or comment asked for after
the processing stays, also next to other requests, since each writes its own field only.
What does not hold, and is taken out by name: the content API sends the message before it
looks for the record, so that two records may arise and its "processing" may land after
"Completed" (the workflow service inserts first, "avoids duplicate-document race" as its
docstring says); a deletion during processing is undone by the next report, and may leave a
record that is Completed without a result and without files; the save step and the error path
write the whole record and so remove a comment or correction made meanwhile;
`delete_folder` ends with the deletion of a marker that need not exist, and the
record stays when this raises. Two steps, two runs of a step and two requests of two users
are the fewest for a report to meet a submission, a retry and two edits at once.

**Proofs.** `WebProofs`: `RegisteredHasFile` from who holds which file in which
phase (`FileInv`), `NoEditLost` from `EditInv`, that without overlap the one request that
edits a set has read what the set still holds; `EditsStayHome` and `NoLoaderForever`
from invariants of the page: everything shown, edited and in flight
names its document, and what a loader waits for is on its way (`ConsoleInv`, `PageInv`);
`SubmittedHasFiles` and `AcceptedStaysListed` from `IntakeInv`, for any files the user
may pick: what a manifest, or a copy of it read by a request, lists is stored, a claim is
enqueued once, after an accepted file, and of the claim at hand the manifest lists
what was accepted, once, unless an answer was lost.

`ClientProofs`: `OneTokenForAll` from `TokenInv`, the lock is held just during a fetch
that was warranted when it began; `RetriesHaveCause` from `CallInv`, which relates the log to
the round (`RoundsInv`), each entry to the one before (`ReasonInv`) and the entries of a
round to its budget (`BudgetInv`); `InstructionsStay` from an invariant of the prompt that is sent
and lemmas that follow it through cleaning, dropping and shortening, each keeping the leading
instructions and the order of the rest; `ScopesIsolated` and `ObjectsLive` from `ContainerInv`: an
object belongs to one scope or is a singleton (`IsolatedInv`), what will be disposed of
is due in exactly one place, a scope's list, the shutdown's or a loop under way
(`DuesInv`, `LoopsInv`), and what is due was entered (`EnteredInv`).

`RecordFollows` (`WebProofs`) from `RecordsInv`: one job is at work, earlier ones only
report (`StepsInv`); an unduplicated document has one record (`OneRecord`), whoever has
reported can rely on it (`SeenInv`), one at most inserts into an empty collection
(`InsertInv`), Completed comes after the result (`ResultInv`), and what users ask for late
meets no job (`LateInv`).

The constants' assumptions say what the code guarantees: the user picks finitely many files and
no pick is the end of a list (`IntakeAssumption`), the value of an unset field is
none that is written (`RecordsAssumption`), the Coordinator's decisions are no sign-offs
(`ChatAssumption`).

`ProcessorProofs`: `ScoresAreSound` for all extractions, scans and answers, from `ScoresInv`,
which says of what the evaluate step saves that it is sound. Each score in the merged tree
stands for a field (`OneShown`, `RepExists`), no two for one, and each field that no name hides has
its own (`FieldShown`, `OneField`), so that injections both ways give the count; every
score that is reported is near one that comes from an evaluator or is 0; that the mean is a share and at
most half a thousandth below the least score, and when a share is full, is arithmetic of sums
(`SumWithin`) and of rounding to the nearest (`NearestIs`, `NearestAtMost`, `MeanWithin`, `ShareIs`).
`ScoresAssumption` says that no scalar of a JSON value lies within another and that scores are
multiples of the unit between 0 and 1.

No liveness is claimed of these eight, and they state no fairness.
`CHECK_DEADLOCK` is off in this run, since requests, clocks and calls are bounded, and a
call or a score that is finished stays so.

## 9. What is only model-checked

Liveness: `EventuallyHandled`, `EventuallySettled`, `EventuallyReturns` and the liveness
parts of `ClaimDelivery` (`ImplementsDelivery`) and `Supervision` (`ImplementsSupervision`),
since the prover has no rule for fairness and `ENABLED`. Their safety parts are proved
as the two theorems named `Refinement`.

Every invariant of a passing run is the conclusion of a theorem, and so is the action property
`StatusForward`.

The properties of the two runs that expect a violation (`SuccessIsFinal`,
`KillHitsTarget`) are false.

## 10. What is not modelled

The components with status `not_modelled` in `PROJECT.json`, each with its reason:
start-up, configuration, credentials, logging and the agent builders keep no state a property
could be about; the checkpoint storage is not used; the schema loader and the Content
Understanding client are a conversion and calls to one external service.
Infrastructure templates are not part of the program.

Left out of components that are modelled in part: streamed responses, which the
model clients do not treat apart, and the length of their delays, queries of records,
a second `run_stream` of one orchestrator, the re-sending of multipart forms, nested constructor injection, pagination, the panel of process steps,
prompts and everything a language model is asked.
