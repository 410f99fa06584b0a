------------------------------ MODULE QueueService ------------------------------
(***************************************************************************)
(* ClaimProcessingQueueService (ContentProcessorWorkflow,                  *)
(* services/queue_service.py): worker loops that take claim requests from  *)
(* an Azure Storage queue, run the claim workflow for each, renew the      *)
(* message's visibility meanwhile, and finish it by deleting it, by making *)
(* it visible again soon or by moving it to the dead-letter queue.         *)
(* Several replicas of the service share the queue.                        *)
(*                                                                         *)
(* Within a replica everything runs on one event loop, so a step of this   *)
(* module is the code between two awaits.  Storage calls made through      *)
(* asyncio.to_thread take two steps, the effect at the storage account and *)
(* the return to the coroutine; a call whose coroutine is cancelled keeps  *)
(* running in its thread and is kept in "orphans".                         *)
(*                                                                         *)
(* Time is counted in ticks of a message lease (visibility timeout).       *)
(***************************************************************************)
EXTENDS Integers, FiniteSets

CONSTANTS
  Msgs,          \* the requests on claim-process-queue
  Malformed,     \* those of them that _build_task_param rejects
  Replicas,      \* the processes that run the service
  Workers,       \* the worker loops of all replicas
  ReplicaOf,     \* the replica each worker loop runs in
  MaxReceive,    \* config.max_receive_attempts
  VisTicks,      \* config.visibility_timeout_minutes
  RenewTicks,    \* the sleep of the renewal loop, about 60% of VisTicks
  RetryTicks,    \* config.retry_visibility_delay_seconds
  ExtendTicks,   \* the visibility set when the dead-letter send failed
  Env,           \* the faults and operator calls that may happen
  Budget,        \* how many of them may happen in one behaviour
  NoMsg

Faults ==
  {"crash", "stopService", "stopWorker", "kill", "startFails", "renewFails",
   "updateFails", "dlqFails", "deleteFails", "slow"}

ASSUME ConstantsAssumption ==
  /\ IsFiniteSet(Msgs) /\ IsFiniteSet(Workers)
  /\ Malformed \subseteq Msgs
  /\ NoMsg \notin Msgs
  /\ ReplicaOf \in [Workers -> Replicas]
  /\ MaxReceive \in Nat \ {0}
  /\ VisTicks \in Nat \ {0}
  /\ RenewTicks \in 1 .. VisTicks - 1
  /\ RetryTicks \in 0 .. VisTicks
  /\ ExtendTicks \in 0 .. VisTicks
  /\ Env \subseteq Faults
  /\ Budget \in Nat

VARIABLES
  \* the storage account
  queued,        \* the messages on the main queue
  lease,         \* ticks until a message becomes visible; 0: it is visible
  receipt,       \* the pop receipt that currently authorises delete / update
  dequeues,      \* dequeue_count, saturated at MaxReceive
  dead,          \* entries of a message in the dead-letter queue, up to "many"
  \* the service
  running,       \* replicas whose is_running flag is set
  wk,            \* the state of each worker loop and of its job
  registered,    \* the keys of _worker_tasks, over all replicas
  stopping,      \* workers a stop_worker call waits for
  kills,         \* stop_process calls between their delete and their cancel
  orphans,       \* storage calls of cancelled coroutines, still in a thread
  \* history and environment
  done,          \* messages whose workflow ran to the end
  killed,        \* messages stop_process was called for
  refused,       \* messages of which a run failed for good, or malformed
  budget         \* how many faults may still happen

storage == <<queued, lease, receipt, dequeues>>
history == <<done, killed, refused>>
calls == <<kills, orphans>>
loops == <<running, registered, stopping>>
vars == <<storage, dead, wk, loops, calls, history, budget>>

Many == 2
NoReceipt == -1
Receipt == Nat \cup {NoReceipt}

Phase ==
  {"off", "poll", "run", "settle", "retry", "dlq", "extend", "updated",
   "cleanup"}
Outcome == {"none", "ok", "failed", "error", "startFailed", "malformed"}

WorkerState ==
  [pc : Phase,
   msg : Msgs \cup {NoMsg},         \* the message of the job
   attempt : 0 .. MaxReceive,       \* queue_message.dequeue_count
   held : Receipt,                  \* queue_message.pop_receipt
   tracked : Receipt,               \* _worker_inflight_message[w]
   listed : BOOLEAN,                \* _worker_inflight*[w] are set
   outcome : Outcome,               \* how the run of the job ended
   jcall : Receipt,                 \* the receipt of the job's update call
   renew : {"off", "sleep", "call", "reply"},
   timer : 0 .. RenewTicks,         \* ticks the renewal loop still sleeps
   rcall : Receipt]                 \* the receipt sent, or the one returned

Idle(p) ==
  [pc |-> p, msg |-> NoMsg, attempt |-> 0, held |-> NoReceipt,
   tracked |-> NoReceipt, listed |-> FALSE, outcome |-> "none",
   jcall |-> NoReceipt, renew |-> "off", timer |-> 0, rcall |-> NoReceipt]

OrphanCall ==
  [op : {"renew", "retry", "extend", "dlq"}, worker : Workers, msg : Msgs,
   rcpt : Receipt]

-------------------------------------------------------------------------------
(* The storage account, as the service uses it.                            *)

InUse ==
  {receipt[m] : m \in Msgs}
    \cup {wk[w].held : w \in Workers} \cup {wk[w].tracked : w \in Workers}
    \cup {wk[w].jcall : w \in Workers} \cup {wk[w].rcall : w \in Workers}
    \cup {c.rcpt : c \in orphans}

(* Every receive and update_message makes a new pop receipt, different     *)
(* from all those that anyone still holds; the smallest one keeps the      *)
(* state space small.                                                      *)
NewReceipt == CHOOSE r \in 0 .. Cardinality(InUse) : r \notin InUse

Accepts(m, r) == m \in queued /\ receipt[m] = r

(* Mutant: update_message without a visibility_timeout.                    *)
UpdateKeepsLease(m, ticks) ==
  /\ receipt' = [receipt EXCEPT ![m] = NewReceipt]
  /\ UNCHANGED <<queued, lease, dequeues>>

(* update_message with a valid receipt.                                    *)
Update(m, ticks) ==
  /\ lease' = [lease EXCEPT ![m] = ticks]
  /\ receipt' = [receipt EXCEPT ![m] = NewReceipt]
  /\ UNCHANGED <<queued, dequeues>>

(* delete_message; the callers log and swallow its errors, so a delete     *)
(* with a stale receipt changes nothing.                                   *)
Delete(m, r) ==
  \/ /\ Accepts(m, r)
     /\ queued' = queued \ {m}
     /\ lease' = [lease EXCEPT ![m] = 0]
     /\ receipt' = [receipt EXCEPT ![m] = 0]
     /\ UNCHANGED dequeues
  \/ /\ ~Accepts(m, r)
     /\ UNCHANGED storage

SendDead(m) ==
  dead' = [dead EXCEPT ![m] = IF @ < Many THEN @ + 1 ELSE Many]

-------------------------------------------------------------------------------
(* The service's bookkeeping.                                              *)

InFlight(w) == wk[w].listed /\ wk[w].msg \notin Malformed

(* The handlers prefer the tracked receipt to the one of the message.      *)
BestReceipt(w) ==
  IF wk[w].tracked # NoReceipt THEN wk[w].tracked ELSE wk[w].held

RenewOrphan(w) ==
  IF wk[w].renew = "call"
  THEN {[op |-> "renew", worker |-> w, msg |-> wk[w].msg, rcpt |-> wk[w].rcall]}
  ELSE {}

JobOrphan(w) ==
  IF wk[w].pc \in {"retry", "extend", "dlq"}
  THEN {[op |-> wk[w].pc, worker |-> w, msg |-> wk[w].msg, rcpt |-> wk[w].jcall]}
  ELSE {}

Occurs(f) == f \in Env /\ budget > 0 /\ budget' = budget - 1

(* The finally block of _process_queue_message, and the worker loop going  *)
(* on to its next poll.                                                    *)
EndJob(w) ==
  /\ wk' = [wk EXCEPT ![w] = Idle("poll")]
  /\ orphans' = orphans \cup RenewOrphan(w)

Forced(o) == o \in {"failed", "malformed"}

(* Mutants: one attempt too few, no attempt limit, and a failed message    *)
(* that is deleted without being dead-lettered.                            *)
FailurePhaseEarly(o, attempt) ==
  IF Forced(o) \/ attempt + 1 >= MaxReceive THEN "dlq" ELSE "retry"
FailurePhaseForever(o, attempt) == IF Forced(o) THEN "dlq" ELSE "retry"
FailurePhaseDeletes(o, attempt) ==
  IF Forced(o) \/ attempt >= MaxReceive THEN "cleanup" ELSE "retry"

(* Whether a failed job is retried or dead-lettered.                       *)
FailurePhase(o, attempt) ==
  IF Forced(o) \/ attempt >= MaxReceive THEN "dlq" ELSE "retry"

-------------------------------------------------------------------------------
(* Taking a message.  The job parses it, registers itself in the in-flight *)
(* dictionaries and starts the renewal loop before it first awaits.        *)

Job(m, o, n, r) ==
  [pc |-> IF o = "none" THEN "run" ELSE FailurePhase(o, n),
   msg |-> m, attempt |-> n, held |-> r, jcall |-> r, listed |-> TRUE,
   tracked |-> IF o = "malformed" THEN NoReceipt ELSE r,
   outcome |-> o,
   renew |-> IF o = "malformed" THEN "off" ELSE "sleep",
   timer |-> IF o = "malformed" THEN 0 ELSE RenewTicks,
   rcall |-> NoReceipt]

Take(w, m, o) ==
  LET n == IF dequeues[m] < MaxReceive THEN dequeues[m] + 1 ELSE MaxReceive
      r == NewReceipt
  IN /\ wk[w].pc = "poll"
     /\ m \in queued /\ lease[m] = 0
     /\ queued' = queued
     /\ lease' = [lease EXCEPT ![m] = VisTicks]
     /\ receipt' = [receipt EXCEPT ![m] = r]
     /\ dequeues' = [dequeues EXCEPT ![m] = n]
     /\ wk' = [wk EXCEPT ![w] = Job(m, o, n, r)]
     /\ UNCHANGED <<dead, loops, calls, done, killed>>

Receive(w, m) ==
  \/ /\ m \notin Malformed
     /\ Take(w, m, "none")
     /\ UNCHANGED <<refused, budget>>
  \/ /\ m \in Malformed
     /\ Take(w, m, "malformed")
     /\ refused' = refused \cup {m}
     /\ UNCHANGED budget
  \/ \* app_context.get_service raises: the last-resort handler retries
     \* while the renewal loop is still alive
     /\ m \notin Malformed
     /\ Occurs("startFails")
     /\ Take(w, m, "startFailed")
     /\ UNCHANGED refused

(* claim_processor.run returns or raises; the renewal loop is cancelled.   *)
RunEnds(w, o) ==
  /\ wk[w].pc = "run"
  /\ wk' = [wk EXCEPT ![w] = [@ EXCEPT !.pc = "settle", !.outcome = o,
                                       !.renew = "off", !.timer = 0,
                                       !.rcall = NoReceipt]]
  /\ orphans' = orphans \cup RenewOrphan(w)
  /\ done' = IF o = "ok" THEN done \cup {wk[w].msg} ELSE done
  /\ refused' = IF Forced(o) THEN refused \cup {wk[w].msg} ELSE refused
  /\ UNCHANGED <<storage, dead, loops, kills, killed, budget>>

(* _handle_successful_processing.                                          *)
SettleSuccess(w) ==
  /\ wk[w].pc = "settle" /\ wk[w].outcome = "ok"
  /\ \/ Delete(wk[w].msg, BestReceipt(w)) /\ UNCHANGED budget
     \/ Occurs("deleteFails") /\ UNCHANGED storage
  /\ EndJob(w)
  /\ UNCHANGED <<dead, loops, kills, history>>

(* _handle_failed_no_retry up to its first await.                          *)
SettleFailure(w) ==
  /\ wk[w].pc = "settle" /\ wk[w].outcome # "ok"
  /\ wk' = [wk EXCEPT ![w] =
               [@ EXCEPT !.pc = FailurePhase(wk[w].outcome, wk[w].attempt),
                         !.jcall = BestReceipt(w)]]
  /\ UNCHANGED <<storage, dead, loops, calls, history, budget>>

(* The update_message call of a retry, or after a failed dead-letter send. *)
UpdateTicks(w) == IF wk[w].pc = "retry" THEN RetryTicks ELSE ExtendTicks

JobUpdates(w) ==
  /\ wk[w].pc \in {"retry", "extend"}
  /\ \/ /\ Accepts(wk[w].msg, wk[w].jcall)
        /\ Update(wk[w].msg, UpdateTicks(w))
        /\ UNCHANGED budget
     \/ /\ ~Accepts(wk[w].msg, wk[w].jcall)
        /\ UNCHANGED <<storage, budget>>
     \/ /\ Occurs("updateFails")
        /\ UNCHANGED storage
  /\ wk' = [wk EXCEPT ![w].pc = "updated"]
  /\ UNCHANGED <<dead, loops, calls, history>>

UpdateReturns(w) ==
  /\ wk[w].pc = "updated"
  /\ EndJob(w)
  /\ UNCHANGED <<storage, dead, loops, kills, history, budget>>

(* Mutant: the message is deleted even when the dead-letter send failed.   *)
DeadLetterDropped(w) ==
  /\ wk[w].pc = "dlq"
  /\ \/ SendDead(wk[w].msg) /\ UNCHANGED budget
     \/ Occurs("dlqFails") /\ UNCHANGED dead
  /\ wk' = [wk EXCEPT ![w].pc = "cleanup"]
  /\ UNCHANGED <<storage, loops, calls, history>>

(* The payload is stored in the dead-letter queue, or the send fails.      *)
DeadLetter(w) ==
  /\ wk[w].pc = "dlq"
  /\ \/ /\ SendDead(wk[w].msg)
        /\ wk' = [wk EXCEPT ![w].pc = "cleanup"]
        /\ UNCHANGED budget
     \/ /\ Occurs("dlqFails")
        /\ wk' = [wk EXCEPT ![w] = [@ EXCEPT !.pc = "extend",
                                             !.jcall = BestReceipt(w)]]
        /\ UNCHANGED dead
  /\ UNCHANGED <<storage, loops, calls, history>>

(* The output blobs are gone; the message is deleted.                      *)
DeleteDead(w) ==
  /\ wk[w].pc = "cleanup"
  /\ \/ Delete(wk[w].msg, BestReceipt(w)) /\ UNCHANGED budget
     \/ Occurs("deleteFails") /\ UNCHANGED storage
  /\ EndJob(w)
  /\ UNCHANGED <<dead, loops, kills, history>>

-------------------------------------------------------------------------------
(* _renew_visibility_loop.                                                 *)

RenewWakes(w) ==
  /\ wk[w].renew = "sleep" /\ wk[w].timer = 0
  /\ wk' = IF wk[w].tracked = NoReceipt
           THEN [wk EXCEPT ![w].timer = RenewTicks]
           ELSE [wk EXCEPT ![w] = [@ EXCEPT !.renew = "call",
                                            !.rcall = wk[w].tracked]]
  /\ UNCHANGED <<storage, dead, loops, calls, history, budget>>

RenewCalls(w) ==
  LET m == wk[w].msg
      again == [wk EXCEPT ![w] = [@ EXCEPT !.renew = "sleep",
                                           !.timer = RenewTicks,
                                           !.rcall = NoReceipt]]
  IN /\ wk[w].renew = "call"
     /\ \/ /\ Accepts(m, wk[w].rcall)
           /\ Update(m, VisTicks)
           /\ wk' = [wk EXCEPT ![w] = [@ EXCEPT !.renew = "reply",
                                                !.rcall = NewReceipt]]
           /\ UNCHANGED budget
        \/ \* ResourceNotFoundError ends the loop
           /\ m \notin queued
           /\ wk' = [wk EXCEPT ![w] = [@ EXCEPT !.renew = "off",
                                                !.rcall = NoReceipt]]
           /\ UNCHANGED <<storage, budget>>
        \/ \* any other error is logged
           /\ m \in queued /\ receipt[m] # wk[w].rcall
           /\ wk' = again
           /\ UNCHANGED <<storage, budget>>
        \/ /\ Occurs("renewFails")
           /\ wk' = again
           /\ UNCHANGED storage
     /\ UNCHANGED <<dead, loops, calls, history>>

(* Mutant: the new pop receipt is not stored.                              *)
RenewForgets(w) ==
  /\ wk[w].renew = "reply"
  /\ wk' = [wk EXCEPT ![w] = [@ EXCEPT !.renew = "sleep", !.timer = RenewTicks,
                                       !.rcall = NoReceipt]]
  /\ UNCHANGED <<storage, dead, loops, calls, history, budget>>

RenewReturns(w) ==
  /\ wk[w].renew = "reply"
  /\ wk' = [wk EXCEPT ![w] = [@ EXCEPT !.renew = "sleep", !.timer = RenewTicks,
                                       !.tracked = wk[w].rcall,
                                       !.rcall = NoReceipt]]
  /\ UNCHANGED <<storage, dead, loops, calls, history, budget>>

(* A call whose coroutine was cancelled takes effect, or fails.            *)
OrphanTicks(op) ==
  CASE op = "renew" -> VisTicks [] op = "retry" -> RetryTicks
    [] OTHER -> ExtendTicks

OrphanEffect(c) ==
  /\ c \in orphans
  /\ orphans' = orphans \ {c}
  /\ \/ /\ c.op = "dlq"
        /\ SendDead(c.msg)
        /\ UNCHANGED storage
     \/ /\ c.op # "dlq" /\ Accepts(c.msg, c.rcpt)
        /\ Update(c.msg, OrphanTicks(c.op))
        /\ UNCHANGED dead
     \/ /\ c.op # "dlq" /\ ~Accepts(c.msg, c.rcpt)
        /\ UNCHANGED <<storage, dead>>
  /\ UNCHANGED <<wk, loops, kills, history, budget>>

-------------------------------------------------------------------------------
(* stop_process(m): the tracked message is deleted, the output blobs are   *)
(* cleaned up in a thread, and then the job task of the worker found in    *)
(* the first step is cancelled.                                            *)

(* Cancelling a job: its calls go on in their threads; the worker loop     *)
(* swallows the CancelledError and polls again while the service runs.     *)
CancelJob(w) ==
  /\ wk' = [wk EXCEPT ![w] = Idle("poll")]
  /\ orphans' = orphans \cup RenewOrphan(w) \cup JobOrphan(w)

BeginKill(w) ==
  LET m == wk[w].msg
  IN /\ InFlight(w)
     /\ Occurs("kill")
     /\ \/ Delete(m, wk[w].tracked)
        \/ "deleteFails" \in Env /\ UNCHANGED storage
     /\ kills' = kills \cup {[worker |-> w, msg |-> m]}
     /\ killed' = killed \cup {m}
     /\ UNCHANGED <<dead, wk, loops, orphans, done, refused>>

EndKill(k) ==
  /\ k \in kills
  /\ kills' = kills \ {k}
  /\ IF wk[k.worker].listed THEN CancelJob(k.worker) ELSE UNCHANGED <<wk, orphans>>
  /\ UNCHANGED <<storage, dead, loops, history, budget>>

(* stop_worker(w): cancels the worker task, waits for it for a while and   *)
(* drops what is tracked for it.  Awaiting its job, the worker loop takes  *)
(* the CancelledError for the job's.                                       *)
BeginStopWorker(w) ==
  /\ w \in registered \ stopping
  /\ Occurs("stopWorker")
  /\ stopping' = stopping \cup {w}
  /\ \/ /\ wk[w].pc \in {"off", "poll"}
        /\ wk' = [wk EXCEPT ![w] = Idle("off")]
        /\ UNCHANGED orphans
     \/ /\ wk[w].pc \notin {"off", "poll"}
        /\ CancelJob(w)
  /\ UNCHANGED <<storage, dead, running, registered, kills, history>>

EndStopWorker(w) ==
  /\ w \in stopping
  /\ stopping' = stopping \ {w}
  /\ registered' = registered \ {w}
  /\ wk' = [wk EXCEPT ![w] = [@ EXCEPT !.tracked = NoReceipt, !.listed = FALSE]]
  /\ UNCHANGED <<storage, dead, running, calls, history, budget>>

(* A replica goes down: stop_service cancels its workers and jobs, whose   *)
(* calls still finish; a crash takes the threads with it.                  *)
Local(r) == {w \in Workers : ReplicaOf[w] = r}

GoDown(r) ==
  /\ r \in running
  /\ running' = running \ {r}
  /\ wk' = [w \in Workers |-> IF w \in Local(r) THEN Idle("off") ELSE wk[w]]
  /\ registered' = registered \ Local(r)
  /\ stopping' = stopping \ Local(r)
  /\ kills' = {k \in kills : k.worker \notin Local(r)}
  /\ UNCHANGED <<storage, dead, history>>

StopService(r) ==
  /\ Occurs("stopService")
  /\ GoDown(r)
  /\ orphans' = orphans \cup UNION {RenewOrphan(w) \cup JobOrphan(w) : w \in Local(r)}

Crash(r) ==
  /\ Occurs("crash")
  /\ GoDown(r)
  /\ orphans' = {c \in orphans : c.worker \notin Local(r)}

(* All worker loops have ended: the gather of start_service returns.       *)
ServiceReturns(r) ==
  /\ r \in running
  /\ \A w \in Local(r) : wk[w].pc = "off"
  /\ running' = running \ {r}
  /\ registered' = registered \ Local(r)
  /\ UNCHANGED <<storage, dead, wk, stopping, calls, history, budget>>

(* start_service of a new process.                                         *)
StartService(r) ==
  /\ r \notin running
  /\ running' = running \cup {r}
  /\ wk' = [w \in Workers |-> IF w \in Local(r) THEN Idle("poll") ELSE wk[w]]
  /\ registered' = registered \cup Local(r)
  /\ UNCHANGED <<storage, dead, stopping, calls, history, budget>>

-------------------------------------------------------------------------------
(* Time.  Calls and bookkeeping take far less than a tick, unless the      *)
(* storage account or the event loop is slow; a sleep ends on time.        *)

(* Mutant: the sleep of the renewal loop outlasts its timer.               *)
DueLate(w) == wk[w].renew = "sleep" /\ wk[w].timer < 0
Due(w) == wk[w].renew = "sleep" /\ wk[w].timer = 0

Quiet ==
  /\ orphans = {}
  /\ \A w \in Workers : /\ wk[w].pc \in {"off", "poll", "run"}
                        /\ wk[w].renew \in {"off", "sleep"} /\ ~Due(w)

Tick ==
  /\ \/ Quiet /\ UNCHANGED budget
     \/ ~Quiet /\ Occurs("slow")
  /\ \/ \E m \in queued : lease[m] > 0
     \/ \E w \in Workers : wk[w].renew = "sleep"
  /\ lease' = [m \in Msgs |-> IF lease[m] > 0 THEN lease[m] - 1 ELSE 0]
  /\ wk' = [w \in Workers |->
              IF wk[w].renew = "sleep" /\ ~Due(w)
              THEN [wk[w] EXCEPT !.timer = wk[w].timer - 1] ELSE wk[w]]
  /\ UNCHANGED <<queued, receipt, dequeues, dead, loops, calls, history>>

(* An empty receive: the worker sleeps and polls again.                    *)
PollEmpty(w) ==
  /\ wk[w].pc = "poll"
  /\ \A m \in queued : lease[m] > 0
  /\ UNCHANGED vars

-------------------------------------------------------------------------------
Init ==
  /\ queued = Msgs
  /\ lease = [m \in Msgs |-> 0]
  /\ receipt = [m \in Msgs |-> 0]
  /\ dequeues = [m \in Msgs |-> 0]
  /\ dead = [m \in Msgs |-> 0]
  /\ running = Replicas
  /\ wk = [w \in Workers |-> Idle("poll")]
  /\ registered = Workers
  /\ stopping = {}
  /\ kills = {}
  /\ orphans = {}
  /\ done = {} /\ killed = {} /\ refused = {}
  /\ budget = Budget

JobStep(w) ==
  \/ \E o \in {"ok", "failed", "error"} : RunEnds(w, o)
  \/ SettleSuccess(w)
  \/ SettleFailure(w)
  \/ JobUpdates(w)
  \/ UpdateReturns(w)
  \/ DeadLetter(w)
  \/ DeleteDead(w)

RenewStep(w) == RenewWakes(w) \/ RenewCalls(w) \/ RenewReturns(w)

WorkerStep(w) ==
  \/ \E m \in Msgs : Receive(w, m)
  \/ JobStep(w)
  \/ RenewStep(w)
  \/ PollEmpty(w)
  \/ BeginKill(w)
  \/ BeginStopWorker(w)
  \/ EndStopWorker(w)

Next ==
  \/ \E w \in Workers : WorkerStep(w)
  \/ \E c \in orphans : OrphanEffect(c)
  \/ \E k \in kills : EndKill(k)
  \/ \E r \in Replicas : \/ StopService(r) \/ Crash(r)
                         \/ ServiceReturns(r) \/ StartService(r)
  \/ Tick

Spec == Init /\ [][Next]_vars

(* Fairness: the event loop runs what is ready, a thread finishes its call,*)
(* claim_processor.run returns, time passes, and the platform restarts a   *)
(* replica that is down.                                                   *)
Fairness ==
  /\ \A w \in Workers : /\ WF_vars(\E m \in Msgs : Receive(w, m))
                        /\ WF_vars(JobStep(w))
                        /\ WF_vars(RenewStep(w))
                        /\ WF_vars(EndStopWorker(w))
  /\ WF_vars(\E c \in orphans : OrphanEffect(c))
  /\ WF_vars(\E k \in kills : EndKill(k))
  /\ \A r \in Replicas : WF_vars(ServiceReturns(r)) /\ WF_vars(StartService(r))
  /\ WF_vars(Tick)

FairSpec == Spec /\ Fairness

-------------------------------------------------------------------------------
(* Type correctness.                                                       *)
TypeOK ==
  /\ queued \subseteq Msgs
  /\ lease \in [Msgs -> 0 .. VisTicks]
  /\ receipt \in [Msgs -> Nat]
  /\ dequeues \in [Msgs -> 0 .. MaxReceive]
  /\ dead \in [Msgs -> 0 .. Many]
  /\ running \subseteq Replicas
  /\ wk \in [Workers -> WorkerState]
  /\ registered \subseteq Workers
  /\ stopping \subseteq Workers
  /\ kills \subseteq [worker : Workers, msg : Msgs]
  /\ orphans \subseteq OrphanCall
  /\ done \subseteq Msgs /\ killed \subseteq Msgs /\ refused \subseteq Msgs
  /\ budget \in 0 .. Budget

(* No request is lost silently: one that is no longer on the main queue    *)
(* was worked off, is in the dead-letter queue or was killed, whatever     *)
(* fails, crashes, is cancelled or redelivered in between                  *)
(* (_handle_failed_no_retry: "do NOT delete the original message to avoid  *)
(* silent loss").                                                          *)
Reached(m) ==
  (IF m \in done THEN {"done"} ELSE {})
    \cup (IF dead[m] > 0 THEN {"dead"} ELSE {})
    \cup (IF m \in killed THEN {"killed"} ELSE {})

NoSilentLoss == \A m \in Msgs \ queued : Reached(m) # {}

(* Two worker loops, of one replica or of two, never run the workflow of   *)
(* the same request at the same time (_renew_visibility_loop: so that      *)
(* long-running jobs don't become visible to other consumers).             *)
ExclusiveRun ==
  \A v, w \in Workers :
    wk[v].pc = "run" /\ wk[w].pc = "run" /\ wk[v].msg = wk[w].msg => v = w

(* While a job runs, the receipt the service tracks for it is the one the  *)
(* storage account accepts, unless the message is gone or a renewal is     *)
(* under way: a later delete or retry of this job will not be refused.     *)
TrackedIsCurrent ==
  \A w \in Workers :
    wk[w].pc = "run" /\ wk[w].renew = "sleep" /\ wk[w].msg \in queued
      => wk[w].tracked = receipt[wk[w].msg]

(* A request none of whose runs failed for good reaches the dead-letter    *)
(* queue only after max_receive_attempts deliveries.                       *)
RetryBudget ==
  \A m \in Msgs \ refused : dead[m] > 0 => dequeues[m] = MaxReceive

(* A request that was worked off is never run again (comment at the        *)
(* cancellation of the renewal loop: it prevents that "the delete silently *)
(* fails - leaving the message in the queue for duplicate processing").    *)
SuccessIsFinal ==
  [][\A w \in Workers :
       wk[w].pc = "poll" /\ wk'[w].pc = "run" => wk'[w].msg \notin done]_vars

(* The last step of stop_process cancels the job of the process it was     *)
(* called for and no other ("cancels only the per-message asyncio.Task").  *)
KillHitsTarget ==
  [][\A k \in kills \ kills' :
       wk[k.worker].msg # k.msg /\ ReplicaOf[k.worker] \in running'
         => wk'[k.worker].msg = wk[k.worker].msg]_vars

Delivery ==
  INSTANCE ClaimDelivery WITH
    pending <- queued, reached <- [m \in Msgs |-> Reached(m)]

(* The service implements the safety part of its promise to the API: a     *)
(* request leaves the queue only with an outcome, whatever its several     *)
(* copies, receipts and jobs do.                                           *)
ImplementsSafety == Delivery!Safety

(* And the whole of it: once the faults have ceased, every request is      *)
(* worked off, dead-lettered or killed: retries end, leases run out, a     *)
(* failed dead-letter send is tried again.                                 *)
ImplementsDelivery == Delivery!Spec
===============================================================================
