------------------------------ MODULE ClaimWorkflow ------------------------------
(***************************************************************************)
(* One claim and the workflow that processes it (ContentProcessorWorkflow: *)
(* steps/, repositories/claim_processes.py, services/                      *)
(* content_process_service.py), with the operations of the API that touch  *)
(* the claim's record.                                                     *)
(*                                                                         *)
(* Everything meets in one Cosmos DB document, the claim record, which     *)
(* nobody locks: the event consumer of ClaimProcessor.run, the executor    *)
(* that is running, the concurrent tasks of the document executor and the  *)
(* API each read the whole record and write the whole record back.  A step *)
(* of this module is one such read or write, or a call to another service. *)
(***************************************************************************)
EXTENDS Integers, Sequences, FiniteSets

CONSTANTS
  Docs,          \* the documents in the claim's manifest
  Slots,         \* max_concurrency of the document executor
  MaxAttempts,   \* deliveries after which the queue service gives up
  RaiEnabled,    \* app_rai_enabled
  Env,           \* the disturbances that may happen
  Budget         \* how many of them may happen in one behaviour

ASSUME ConstantsAssumption ==
  /\ IsFiniteSet(Docs)
  /\ Slots \in Nat \ {0}
  /\ MaxAttempts \in Nat \ {0}
  /\ RaiEnabled \in BOOLEAN
  /\ Env \subseteq {"crash", "callFails", "updateFails", "resubmit",
                    "early", "comment", "delete", "overlap"}
  /\ Budget \in Nat

(* An executor is named by the status that its invocation gives the claim. *)
Stages == {"Processing", "RAIAnalysis", "Summarizing", "GapAnalysis"}
Statuses == Stages \cup {"Pending", "Failed", "Completed"}

(* Statuses of a document; "step" stands for any pipeline step's name.     *)
DocStatuses == {"processing", "step", "Completed", "Error", "Failed"}

VARIABLES
  records,       \* the claim's records in the collection; calls hit the first
  queued,        \* the claim's message is in the queue
  attempts,      \* its dequeue count
  run,           \* history: the number of workflow runs
  api,           \* progress of start_claim_process
  user,          \* the record read by add_comment_to_claim, if it is running
  con,           \* ClaimProcessor.run: the consumer of the workflow's events
  inbox,         \* events it has not seen
  exec,          \* the executor that is running
  task,          \* the task of each document in the document executor
  budget, happened

faults == <<budget, happened>>
message == <<queued, attempts, run>>
vars == <<records, message, api, user, con, inbox, exec, task, faults>>

Occurs(f) ==
  /\ f \in Env /\ budget > 0
  /\ budget' = budget - 1
  /\ happened' = happened \cup {f}

NoFault == UNCHANGED faults

-------------------------------------------------------------------------------
(* The collection.  A read gives the empty sequence or the record found.   *)
Claim == [status : Statuses, named : BOOLEAN, summary : BOOLEAN, gaps : BOOLEAN,
          comment : {"none", "failure", "user"},
          docs : SUBSET [doc : Docs, run : Nat, status : DocStatuses]]

Blank(s, named) == [status |-> s, named |-> named, summary |-> FALSE,
                    gaps |-> FALSE, comment |-> "none", docs |-> {}]

First == IF records = <<>> THEN <<>> ELSE <<Head(records)>>

RemoveFirst == IF records = <<>> THEN <<>> ELSE Tail(records)

(* update_async replaces a record and does not insert one.                 *)
Store(c) == IF records = <<>> THEN <<>> ELSE <<c>> \o Tail(records)

(* The calls of the consumer are not interleaved with a read-modify-write  *)
(* of the executor, unless the disturbance "overlap" happens.              *)
ConsumerBusy == con.pc = "write"

ExecutorBusy ==
  \/ exec.pc \in {"delete", "add", "write"}
  \/ exec.pc = "tasks" /\ \E d \in Docs : task[d].pc = "write"

Enters(busy) == IF busy THEN Occurs("overlap") ELSE NoFault

-------------------------------------------------------------------------------
(* The API.  Submission enqueues first and then replaces the record.       *)
NoRun == [pc |-> "off", todo |-> <<>>, snap |-> <<>>, verdict |-> "none"]

Submit ==
  /\ \/ api = "idle" /\ NoFault
     \/ api = "done" /\ ~queued /\ con.pc = "off" /\ Occurs("resubmit")
  /\ queued' = TRUE /\ attempts' = 0
  /\ api' = "get"
  /\ con' = NoRun
  /\ UNCHANGED <<records, run, user, inbox, exec, task>>

ApiCall ==
  /\ \/ api = "get" /\ api' = (IF records = <<>> THEN "add" ELSE "delete")
                    /\ UNCHANGED records
     \/ api = "delete" /\ api' = "add" /\ records' = RemoveFirst
     \/ api = "add" /\ api' = "done"
                    /\ records' = Append(records, Blank("Pending", FALSE))
  /\ UNCHANGED <<message, user, con, inbox, exec, task, faults>>

ApiFails ==
  /\ api \in {"get", "delete", "add"} /\ Occurs("updateFails")
  /\ api' = "done"
  /\ UNCHANGED <<records, message, user, con, inbox, exec, task>>

Comment ==
  /\ \/ /\ user = <<>> /\ records # <<>> /\ Occurs("comment")
        /\ user' = First
        /\ UNCHANGED records
     \/ /\ user # <<>> /\ NoFault
        /\ records' = Store([user[1] EXCEPT !.comment = "user"])
        /\ user' = <<>>
  /\ UNCHANGED <<message, api, con, inbox, exec, task>>

DeleteClaim ==
  /\ records # <<>> /\ Occurs("delete")
  /\ records' = Tail(records)
  /\ UNCHANGED <<message, api, user, con, inbox, exec, task>>

-------------------------------------------------------------------------------
(* The consumer.  "todo" holds the record updates that the handling of an  *)
(* event still has to make; "time" is the one of the finally block.        *)
NoExecutor == [stage |-> "none", pc |-> "off", snap |-> <<>>]

NoTask == [pc |-> "waiting", status |-> "processing", last |-> "none",
           snap |-> <<>>, final |-> FALSE]

StartRun ==
  /\ queued /\ con.pc = "off"
  /\ IF api = "done" THEN NoFault ELSE Occurs("early")
  /\ attempts' = attempts + 1 /\ run' = run + 1
  /\ con' = [NoRun EXCEPT !.pc = "next"]
  /\ exec' = [stage |-> "Processing", pc |-> "get", snap |-> <<>>]
  /\ inbox' = <<"Processing">>
  /\ task' = [d \in Docs |-> NoTask]
  /\ UNCHANGED <<records, queued, api, user>>

Verdict(event) ==
  CASE event = "output" -> "returned" [] event = "failed" -> "failed" [] OTHER -> "none"

(* Mutant: a failure is commented but the status stays.                    *)
PlanSilent(event) ==
  CASE event = "output" -> <<"Completed", "time">>
    [] event = "failed" -> <<"comment", "time">>
    [] OTHER -> <<event>>

Plan(event) ==
  CASE event = "output" -> <<"Completed", "time">>
    [] event = "failed" -> <<"Failed", "comment", "time">>
    [] OTHER -> <<event>>

Consume ==
  /\ con.pc = "next" /\ inbox # <<>>
  /\ con' = [pc |-> "read", todo |-> Plan(Head(inbox)), snap |-> <<>>,
             verdict |-> Verdict(Head(inbox))]
  /\ inbox' = Tail(inbox)
  /\ UNCHANGED <<records, message, api, user, exec, task, faults>>

Updated(c, update) ==
  CASE update = "time" -> c
    [] update = "comment" -> [c EXCEPT !.comment = "failure"]
    [] OTHER -> [c EXCEPT !.status = update]

NextUpdate ==
  LET rest == Tail(con.todo)
  IN [con EXCEPT !.todo = rest, !.snap = <<>>,
                 !.pc = IF rest # <<>> THEN "read"
                        ELSE IF con.verdict = "none" THEN "next" ELSE "end"]

ReadClaim ==
  /\ con.pc = "read" /\ Enters(ExecutorBusy)
  /\ con' = IF records = <<>> THEN NextUpdate
                              ELSE [con EXCEPT !.pc = "write", !.snap = First]
  /\ UNCHANGED <<records, message, api, user, inbox, exec, task>>

(* Mutant: the next update starts from the record that this one read.      *)
WriteClaimStale ==
  /\ con.pc = "write"
  /\ records' = Store(Updated(con.snap[1], Head(con.todo)))
  /\ con' = IF Tail(con.todo) = <<>> THEN NextUpdate
                                     ELSE [con EXCEPT !.todo = Tail(@)]
  /\ UNCHANGED <<message, api, user, inbox, exec, task, faults>>

WriteClaim ==
  /\ con.pc = "write"
  /\ records' = Store(Updated(con.snap[1], Head(con.todo)))
  /\ con' = NextUpdate
  /\ UNCHANGED <<message, api, user, inbox, exec, task, faults>>

(* Mutant: the loop waits for the next event after a failing update.       *)
UpdateFailsIgnored ==
  /\ con.pc \in {"read", "write"} /\ Occurs("updateFails")
  /\ con' = [NoRun EXCEPT !.pc = "next"]
  /\ exec' = NoExecutor /\ inbox' = <<>>
  /\ UNCHANGED <<records, message, api, user, task>>

(* A failing update leaves the loop by way of the finally block; one in    *)
(* the finally block replaces the result of run by its exception.          *)
UpdateFails ==
  /\ con.pc \in {"read", "write"} /\ Occurs("updateFails")
  /\ con' = IF Head(con.todo) = "time"
            THEN [NoRun EXCEPT !.pc = "end", !.verdict = "raised"]
            ELSE [NoRun EXCEPT !.pc = "read", !.todo = <<"time">>, !.verdict = "raised"]
  /\ exec' = NoExecutor /\ inbox' = <<>>
  /\ UNCHANGED <<records, message, api, user, task>>

(* The queue service keeps the message for a retry, or deletes it: after a *)
(* success, or for the dead-letter queue, where a failed executor sends it *)
(* at once and any other exception at the last attempt.                    *)
EndRun ==
  /\ con.pc = "end"
  /\ queued' = (con.verdict = "raised" /\ attempts < MaxAttempts)
  /\ con' = [con EXCEPT !.pc = "off"]
  /\ exec' = NoExecutor /\ inbox' = <<>>
  /\ UNCHANGED <<records, attempts, run, api, user, task, faults>>

Crash ==
  /\ con.pc # "off" /\ Occurs("crash")
  /\ con' = NoRun /\ exec' = NoExecutor /\ inbox' = <<>>
  /\ UNCHANGED <<records, message, api, user, task>>

-------------------------------------------------------------------------------
(* The executors.                                                          *)
Emit(event) == inbox' = Append(inbox, event)

(* Create_Claim_Process.                                                   *)
Create ==
  /\ \/ /\ exec.pc = "get" /\ Enters(ConsumerBusy)
        /\ exec' = [exec EXCEPT !.pc = IF records = <<>> THEN "add" ELSE "delete"]
        /\ UNCHANGED records
     \/ /\ exec.pc = "delete" /\ NoFault
        /\ exec' = [exec EXCEPT !.pc = "add"]
        /\ records' = RemoveFirst
     \/ /\ exec.pc = "add" /\ NoFault
        /\ exec' = [exec EXCEPT !.pc = "tasks"]
        /\ records' = Append(records, Blank("Processing", TRUE))
  /\ UNCHANGED <<message, api, user, con, inbox, task>>

TasksDone ==
  /\ exec.pc = "tasks" /\ \A d \in Docs : task[d].pc = "done"
  /\ exec' = [exec EXCEPT !.pc = "sent"]
  /\ UNCHANGED <<records, message, api, user, con, inbox, task, faults>>

(* The RAI executor writes nothing.                                        *)
Approve ==
  /\ exec.stage = "RAIAnalysis" /\ exec.pc = "work"
  /\ exec' = [exec EXCEPT !.pc = "sent"]
  /\ UNCHANGED <<records, message, api, user, con, inbox, task, faults>>

(* Only the last executor yields an output.                                *)
Deliver ==
  IF exec.stage = "GapAnalysis"
  THEN exec' = NoExecutor /\ Emit("output")
  ELSE exec' = [exec EXCEPT !.pc = "sent", !.snap = <<>>] /\ UNCHANGED inbox

(* The answer of the model is there: read the claim to update it.          *)
Analyse ==
  /\ exec.stage \in {"Summarizing", "GapAnalysis"} /\ exec.pc = "work"
  /\ Enters(ConsumerBusy)
  /\ IF records = <<>> THEN Deliver
     ELSE exec' = [exec EXCEPT !.pc = "write", !.snap = First] /\ UNCHANGED inbox
  /\ UNCHANGED <<records, message, api, user, con, task>>

SaveAnalysis ==
  /\ exec.pc = "write"
  /\ records' = Store(IF exec.stage = "GapAnalysis"
                      THEN [exec.snap[1] EXCEPT !.gaps = TRUE]
                      ELSE [exec.snap[1] EXCEPT !.summary = TRUE])
  /\ Deliver
  /\ UNCHANGED <<message, api, user, con, task, faults>>

(* The manifest, the model or its answer is no good, or a call fails.      *)
ExecutorFails ==
  /\ \/ exec.pc \in {"get", "work"} /\ NoFault
     \/ exec.pc \in {"delete", "add", "write"} /\ Occurs("callFails")
  /\ exec' = NoExecutor /\ Emit("failed")
  /\ UNCHANGED <<records, message, api, user, con, task>>

Follows ==
  [Processing |-> IF RaiEnabled THEN "RAIAnalysis" ELSE "Summarizing",
   RAIAnalysis |-> "Summarizing", Summarizing |-> "GapAnalysis"]

(* The framework starts the next executor once the events are consumed.    *)
NextStage ==
  /\ exec.pc = "sent" /\ inbox = <<>> /\ con.pc = "next"
  /\ exec' = [stage |-> Follows[exec.stage], pc |-> "work", snap |-> <<>>]
  /\ Emit(Follows[exec.stage])
  /\ UNCHANGED <<records, message, api, user, con, task, faults>>

-------------------------------------------------------------------------------
(* _process_one, for each document.                                        *)
Become(d, t) == exec.pc = "tasks" /\ task' = [task EXCEPT ![d] = t]

Rejected == [NoTask EXCEPT !.pc = "done", !.status = "exception"]

Running == {d \in Docs : task[d].pc \notin {"waiting", "done"}}

(* Takes a slot of the semaphore, downloads the file and submits it.       *)
SubmitDoc(d) ==
  /\ task[d].pc = "waiting" /\ Cardinality(Running) < Slots
  /\ \/ Become(d, [NoTask EXCEPT !.pc = "upsert"])
     \/ Become(d, Rejected)
  /\ UNCHANGED <<records, message, api, user, con, inbox, exec, faults>>

(* What the pipeline's record can say after it has said s.  An Error may   *)
(* be retried and a late report may follow Completed.                      *)
Later(s) ==
  CASE s \in {"none", "processing"} -> {"processing", "step", "Completed", "Error"}
    [] s \in {"step", "Error"} -> {"step", "Completed", "Error"}
    [] s = "Completed" -> {"Completed", "step"}
    [] s = "Failed" -> {"Failed"}

(* Mutant: the callback stores the terminal statuses, too.                 *)
PollStoresTerminal(d) ==
  /\ task[d].pc = "poll"
  /\ \E s \in Later(task[d].last) \ {task[d].last} :
       Become(d, [task[d] EXCEPT !.pc = "upsert", !.status = s, !.last = s])
  /\ UNCHANGED <<records, message, api, user, con, inbox, exec, faults>>

(* poll_status with its callback: the status changed, is terminal, the     *)
(* record is gone, or time is up.                                          *)
Poll(d) ==
  /\ task[d].pc = "poll"
  /\ \/ \E s \in (Later(task[d].last) \ {task[d].last}) \cap {"processing", "step"} :
          Become(d, [task[d] EXCEPT !.pc = "upsert", !.status = s, !.last = s])
     \/ \E s \in Later(task[d].last) \cap {"Completed", "Error"} :
          Become(d, [task[d] EXCEPT !.pc = "fetch", !.status = s])
     \/ Become(d, [task[d] EXCEPT !.pc = "fetch", !.status = "Failed"])
     \/ /\ task[d].last # "none"
        /\ Become(d, [task[d] EXCEPT !.pc = "fetch"])
  /\ UNCHANGED <<records, message, api, user, con, inbox, exec, faults>>

(* get_processed: the final status is read anew.                           *)
Fetch(d) ==
  /\ task[d].pc = "fetch"
  /\ \E s \in Later(task[d].status) :
       Become(d, [task[d] EXCEPT !.pc = "upsert", !.status = s, !.final = TRUE])
  /\ UNCHANGED <<records, message, api, user, con, inbox, exec, faults>>

Upserted(d) ==
  [task[d] EXCEPT !.snap = <<>>, !.pc = IF task[d].final THEN "done" ELSE "poll"]

(* Mutant: the upserts are not serialised by _upsert_lock.                 *)
ReadUnlocked(d) ==
  /\ task[d].pc = "upsert"
  /\ Enters(ConsumerBusy)
  /\ Become(d, IF records = <<>> THEN Upserted(d)
               ELSE [task[d] EXCEPT !.pc = "write", !.snap = First])
  /\ UNCHANGED <<records, message, api, user, con, inbox, exec>>

(* Upsert_Content_Process under _upsert_lock, which the task in "write"    *)
(* holds.                                                                  *)
ReadForUpsert(d) ==
  /\ task[d].pc = "upsert" /\ \A other \in Docs : task[other].pc # "write"
  /\ Enters(ConsumerBusy)
  /\ Become(d, IF records = <<>> THEN Upserted(d)
               ELSE [task[d] EXCEPT !.pc = "write", !.snap = First])
  /\ UNCHANGED <<records, message, api, user, con, inbox, exec>>

Upsert(d) ==
  /\ task[d].pc = "write"
  /\ records' = Store([task[d].snap[1] EXCEPT
                  !.docs = {e \in @ : e.doc # d \/ e.run # run}
                           \cup {[doc |-> d, run |-> run, status |-> task[d].status]}])
  /\ Become(d, Upserted(d))
  /\ UNCHANGED <<message, api, user, con, inbox, exec, faults>>

(* Any exception of the task becomes its result.                           *)
TaskFails(d) ==
  /\ d \in Running /\ Occurs("callFails")
  /\ Become(d, Rejected)
  /\ UNCHANGED <<records, message, api, user, con, inbox, exec>>

-------------------------------------------------------------------------------
Init ==
  /\ records = <<>>
  /\ queued = FALSE /\ attempts = 0 /\ run = 0
  /\ api = "idle" /\ user = <<>>
  /\ con = NoRun /\ inbox = <<>> /\ exec = NoExecutor
  /\ task = [d \in Docs |-> NoTask]
  /\ budget = Budget /\ happened = {}

Consumer == StartRun \/ Consume \/ ReadClaim \/ WriteClaim \/ EndRun

Executor ==
  \/ Create \/ TasksDone \/ Approve \/ Analyse \/ SaveAnalysis \/ NextStage

Task(d) == SubmitDoc(d) \/ Poll(d) \/ Fetch(d) \/ ReadForUpsert(d) \/ Upsert(d)

Next ==
  \/ Submit \/ ApiCall \/ ApiFails \/ Comment \/ DeleteClaim
  \/ Consumer \/ UpdateFails \/ Crash
  \/ Executor \/ ExecutorFails
  \/ \E d \in Docs : Task(d) \/ TaskFails(d)

Spec == Init /\ [][Next]_vars

(* Every coroutine keeps running and every call is answered.  The faults   *)
(* and the failures of executors need no fairness.                         *)
FairSpec ==
  /\ Spec
  /\ WF_vars(api = "idle" /\ Submit) /\ WF_vars(ApiCall)
  /\ WF_vars(Consumer) /\ WF_vars(Executor)
  /\ \A d \in Docs : WF_vars(Task(d))

-------------------------------------------------------------------------------
TypeOK ==
  /\ records \in Seq(Claim)
  /\ queued \in BOOLEAN /\ attempts \in Nat /\ run \in Nat
  /\ api \in {"idle", "get", "delete", "add", "done"}
  /\ user \in Seq(Claim) /\ Len(user) <= 1
  /\ con \in [pc : {"off", "next", "read", "write", "end"},
              todo : Seq(Statuses \cup {"comment", "time"}), snap : Seq(Claim),
              verdict : {"none", "returned", "failed", "raised"}]
  /\ inbox \in Seq(Stages \cup {"failed", "output"})
  /\ exec \in [stage : Stages \cup {"none"}, snap : Seq(Claim),
               pc : {"off", "get", "delete", "add", "tasks", "work", "write", "sent"}]
  /\ task \in [Docs -> [pc : {"waiting", "upsert", "write", "poll", "fetch", "done"},
                        status : DocStatuses \cup {"exception"},
                        last : {"none", "processing", "step"},
                        snap : Seq(Claim), final : BOOLEAN]]
  /\ budget \in 0 .. Budget /\ happened \subseteq Env

(* Crashes, failing calls and a new submission are what the code means to  *)
(* survive; the other disturbances are races of writers without a lock.    *)
Undisturbed == happened \subseteq {"crash", "callFails", "updateFails", "resubmit"}

(* The record keeps what its run produced: for every document whose task   *)
(* ended without an exception exactly one entry, with the task's final     *)
(* status, and no entry of an earlier run; the summary once it is in gap   *)
(* analysis, and the gaps once it is Completed.  This is what _upsert_lock *)
(* and the rule that every update reads the record anew are there for.     *)
RecordIsComplete ==
  (Undisturbed /\ records # <<>>) =>
    LET c == Head(records)
    IN /\ Len(records) = 1
       /\ \A d \in Docs : c.named /\ task[d].pc = "done" /\ task[d].status # "exception" =>
            {e.status : e \in {f \in c.docs : f.doc = d}} = {task[d].status}
       /\ (\E d \in Docs : task[d].pc # "waiting") => \A e \in c.docs : e.run = run
       /\ c.status \in {"GapAnalysis", "Completed"} => c.summary
       /\ c.status = "Completed" => c.gaps /\ c.named

(* When run has ended, the record tells how: Completed if it returned,     *)
(* Failed with the reason as comment if an executor failed, whatever calls *)
(* failed inside executors and whatever crashed before; only a disturbance *)
(* of Create leaves a failed claim without a record.                       *)
OutcomeAgrees ==
  (happened \subseteq {"crash", "callFails", "resubmit"} /\ con.pc = "off") =>
    /\ con.verdict = "returned" =>
         records # <<>> /\ Head(records).status = "Completed"
    /\ con.verdict = "failed" =>
         \/ records = <<>> /\ happened # {}
         \/ /\ records # <<>>
            /\ Head(records).status = "Failed" /\ Head(records).comment = "failure"

Rank ==
  [Pending |-> 0, Processing |-> 1, RAIAnalysis |-> 2, Summarizing |-> 3,
   GapAnalysis |-> 4, Completed |-> 5, Failed |-> 5]

(* Once a run has created its record, or knows its outcome, the status of  *)
(* the claim only moves forward until the run has ended, and Failed and    *)
(* Completed are final: no update, by consumer, executor or task, undoes   *)
(* another one.                                                            *)
StatusForward ==
  [][(/\ Undisturbed /\ con.pc # "off" /\ run' = run
      /\ exec.pc \in {"tasks", "work", "write", "sent"} \/ con.verdict # "none"
      /\ records # <<>> /\ records' # <<>>)
     => LET s == Head(records).status  t == Head(records').status
        IN Rank[s] < Rank[t] \/ s = t]_vars

(* A submitted claim leaves the queue whatever happens.  If the only       *)
(* writers were the workflow's and no call of the consumer failed, then    *)
(* with a final status, or, when a disturbance hit Create between delete   *)
(* and add, without a record.                                              *)
EventuallySettled ==
  (api # "idle") ~>
    /\ ~queued /\ con.pc = "off"
    /\ (Undisturbed /\ "updateFails" \notin happened) =>
         \/ records = <<>> /\ happened # {}
         \/ records # <<>> /\ Head(records).status \in {"Completed", "Failed"}
===============================================================================
