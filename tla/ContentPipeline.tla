----------------------------- MODULE ContentPipeline -----------------------------
(***************************************************************************)
(* The document pipeline of ContentProcessor (libs/pipeline): one handler  *)
(* process per step and replica takes a document from the queue of its     *)
(* step, runs the step, hands the document to the queue of the next step   *)
(* and reports the step in the document's Cosmos DB record.  A failing     *)
(* step is retried and, after some deliveries, dead-lettered.              *)
(*                                                                         *)
(* A step of this module is one call to the queue, to Cosmos DB or to blob *)
(* storage with the code around it.  Leases are not renewed: a message     *)
(* whose handler is slow or has ended becomes visible again.  As nothing   *)
(* but a new delivery invalidates a receipt that is still used, the        *)
(* dequeue count of a delivery serves as its receipt.                      *)
(***************************************************************************)
EXTENDS Integers, FiniteSets

CONSTANTS
  Docs,          \* the documents (process ids) submitted
  Malformed,     \* those whose message DataPipeline.get_object rejects
  LastStep,      \* the number of steps; the last one is "save"
  Replicas,      \* the containers, each with one handler process per step
  Copies,        \* tells messages of one document and step apart
  DeadAfter,     \* the deliveries after which a failure is dead-lettered
  Env,           \* the faults that may happen
  Budget,        \* how many of them may happen in one behaviour
  NoMsg

ASSUME ConstantsAssumption ==
  /\ Malformed \subseteq Docs
  /\ LastStep \in Nat \ {0}
  /\ DeadAfter \in Nat
  /\ Env \subseteq {"crash", "slow", "callFails"}
  /\ Budget \in Nat
  /\ Copies # {}

Steps == 1 .. LastStep
Messages == [doc : Docs, step : Steps, copy : Copies]
Handlers == [replica : Replicas, step : Steps]

(* The status of a document's record: a step, or one of these.             *)
Submitted == 0
Completed == LastStep + 1
Error == LastStep + 2

VARIABLES
  queue,         \* the messages in the step queues
  hidden,        \* those of them that are leased or delayed
  count,         \* dequeue_count of each message
  sent,          \* the messages ever sent
  dead,          \* the <<document, step>> pairs in dead-letter queues
  proc,          \* the state of each handler process
  status,        \* the status field of each document's record
  results,       \* documents whose record holds extraction results
  marked,        \* completed_steps in each document's process-status.json
  executed,      \* history: the <<document, step>> pairs that succeeded
  budget

queues == <<queue, hidden, count, sent>>
record == <<status, results>>
vars == <<queues, dead, proc, record, marked, executed, budget>>

TryPhases == {"start", "execute", "record", "pass", "delete", "report"}
ErrorPhases == {"fail", "error", "retry", "bury", "unqueue", "rereport"}
Phases == {"down", "poll"} \cup TryPhases \cup ErrorPhases

Poll == [pc |-> "poll", msg |-> NoMsg, n |-> 0]
Down == [pc |-> "down", msg |-> NoMsg, n |-> 0]

Occurs(f) == f \in Env /\ budget > 0 /\ budget' = budget - 1

Goto(h, p) == proc' = [proc EXCEPT ![h].pc = p]

Doc(h) == proc[h].msg.doc

(* delete_message and update_message fail once the message was delivered   *)
(* again or is gone.                                                       *)
Holds(h) == proc[h].msg \in queue /\ count[proc[h].msg] = proc[h].n

Remove(m) ==
  /\ queue' = queue \ {m}
  /\ hidden' = hidden \ {m}
  /\ UNCHANGED <<count, sent>>

SetStatus(d, s) == status' = [status EXCEPT ![d] = s]

-------------------------------------------------------------------------------
(* A handler takes a message.  The parser is not inside the try: a message *)
(* that it rejects ends the process.                                       *)
Receive(h, m) ==
  /\ proc[h].pc = "poll"
  /\ m \in queue \ hidden /\ m.step = h.step
  /\ hidden' = hidden \cup {m}
  /\ \/ /\ m.doc \in Malformed
        /\ proc' = [proc EXCEPT ![h] = Down]
        /\ UNCHANGED count
     \/ /\ m.doc \notin Malformed
        /\ count' = [count EXCEPT ![m] = @ + 1]
        /\ proc' = [proc EXCEPT ![h] = [pc |-> "start", msg |-> m, n |-> count[m] + 1]]
  /\ UNCHANGED <<queue, sent, dead, record, marked, executed, budget>>

(* Peeking finds nothing: the handler sleeps and looks again.              *)
PollEmpty(h) ==
  /\ proc[h].pc = "poll"
  /\ \A m \in queue \ hidden : m.step # h.step
  /\ UNCHANGED vars

(* The success path.                                                       *)
Start(h) ==
  /\ proc[h].pc = "start"
  /\ SetStatus(Doc(h), h.step)
  /\ Goto(h, "execute")
  /\ UNCHANGED <<queues, dead, results, marked, executed, budget>>

(* The handler's execute; that of "save" writes the whole record.          *)
Execute(h) ==
  /\ proc[h].pc = "execute"
  /\ executed' = executed \cup {<<Doc(h), h.step>>}
  /\ IF h.step = LastStep
     THEN SetStatus(Doc(h), h.step) /\ results' = results \cup {Doc(h)}
     ELSE UNCHANGED record
  /\ Goto(h, "record")
  /\ UNCHANGED <<queues, dead, marked, budget>>

(* Mutant: update_step also marks the step that comes next.                *)
RecordAhead(h) ==
  /\ proc[h].pc = "record"
  /\ marked' = [marked EXCEPT ![Doc(h)] = 1 .. h.step + 1]
  /\ Goto(h, "pass")
  /\ UNCHANGED <<queues, dead, record, executed, budget>>

(* update_step and process-status.json.                                    *)
Record(h) ==
  /\ proc[h].pc = "record"
  /\ marked' = [marked EXCEPT ![Doc(h)] = 1 .. h.step]
  /\ Goto(h, "pass")
  /\ UNCHANGED <<queues, dead, record, executed, budget>>

Send(m) ==
  /\ m \notin sent
  /\ sent' = sent \cup {m}
  /\ queue' = queue \cup {m}
  /\ UNCHANGED <<hidden, count>>

(* Mutant: get_next_step_name finds no step after the last but one.        *)
PassTooShort(h) ==
  /\ proc[h].pc = "pass"
  /\ IF h.step + 1 >= LastStep
     THEN UNCHANGED queues
     ELSE \E c \in Copies : Send([doc |-> Doc(h), step |-> h.step + 1, copy |-> c])
  /\ Goto(h, "delete")
  /\ UNCHANGED <<dead, record, marked, executed, budget>>

Pass(h) ==
  /\ proc[h].pc = "pass"
  /\ IF h.step = LastStep
     THEN UNCHANGED queues
     ELSE \E c \in Copies : Send([doc |-> Doc(h), step |-> h.step + 1, copy |-> c])
  /\ Goto(h, "delete")
  /\ UNCHANGED <<dead, record, marked, executed, budget>>

(* Mutant: the success path ends without deleting the message.             *)
DeleteForgotten(h) ==
  /\ proc[h].pc = "delete"
  /\ Goto(h, "report")
  /\ UNCHANGED <<queues, dead, record, marked, executed, budget>>

Delete(h) ==
  /\ proc[h].pc = "delete"
  /\ IF Holds(h) THEN Remove(proc[h].msg) /\ Goto(h, "report")
                 ELSE UNCHANGED queues /\ Goto(h, "fail")
  /\ UNCHANGED <<dead, record, marked, executed, budget>>

(* Mutant: the report overwrites the whole record.                         *)
ReportWhole(h) ==
  /\ proc[h].pc = "report"
  /\ SetStatus(Doc(h), IF h.step = LastStep THEN Completed ELSE h.step)
  /\ results' = results \ {Doc(h)}
  /\ proc' = [proc EXCEPT ![h] = Poll]
  /\ UNCHANGED <<queues, dead, marked, executed, budget>>

Report(h) ==
  /\ proc[h].pc = "report"
  /\ SetStatus(Doc(h), IF h.step = LastStep THEN Completed ELSE h.step)
  /\ proc' = [proc EXCEPT ![h] = Poll]
  /\ UNCHANGED <<queues, dead, results, marked, executed, budget>>

(* Mutant: the failure of a step is swallowed.                             *)
TryFailsSilently(h) ==
  /\ proc[h].pc \in TryPhases
  /\ IF proc[h].pc = "execute" THEN UNCHANGED budget ELSE Occurs("callFails")
  /\ Goto(h, IF proc[h].pc = "execute" THEN "record" ELSE "fail")
  /\ UNCHANGED <<queues, dead, record, marked, executed>>

(* The step itself or any call of the success path raises.                 *)
TryFails(h) ==
  /\ proc[h].pc \in TryPhases
  /\ IF proc[h].pc = "execute" THEN UNCHANGED budget ELSE Occurs("callFails")
  /\ Goto(h, "fail")
  /\ UNCHANGED <<queues, dead, record, marked, executed>>

-------------------------------------------------------------------------------
(* The error path.  Saving the status runs update_step for the failed step,*)
(* and the whole record is overwritten with one that has no results.       *)
MarkFailed(h) ==
  /\ proc[h].pc = "fail"
  /\ marked' = [marked EXCEPT ![Doc(h)] = 1 .. h.step]
  /\ Goto(h, "error")
  /\ UNCHANGED <<queues, dead, record, executed, budget>>

WriteError(h) ==
  /\ SetStatus(Doc(h), Error)
  /\ results' = results \ {Doc(h)}

RecordError(h) ==
  /\ proc[h].pc = "error"
  /\ WriteError(h)
  /\ Goto(h, IF proc[h].n > DeadAfter THEN "bury" ELSE "retry")
  /\ UNCHANGED <<queues, dead, marked, executed, budget>>

(* update_message sets the delay; if it is refused the process ends.       *)
Retry(h) ==
  /\ proc[h].pc = "retry"
  /\ IF Holds(h)
     THEN /\ hidden' = hidden \cup {proc[h].msg}
          /\ proc' = [proc EXCEPT ![h] = Poll]
     ELSE /\ proc' = [proc EXCEPT ![h] = Down]
          /\ UNCHANGED hidden
  /\ UNCHANGED <<queue, count, sent, dead, record, marked, executed, budget>>

Bury(h) ==
  /\ proc[h].pc = "bury"
  /\ dead' = dead \cup {<<Doc(h), h.step>>}
  /\ Goto(h, "unqueue")
  /\ UNCHANGED <<queues, record, marked, executed, budget>>

Unqueue(h) ==
  /\ proc[h].pc = "unqueue"
  /\ IF Holds(h) THEN Remove(proc[h].msg) /\ Goto(h, "rereport")
                 ELSE UNCHANGED queues /\ proc' = [proc EXCEPT ![h] = Down]
  /\ UNCHANGED <<dead, record, marked, executed, budget>>

Rereport(h) ==
  /\ proc[h].pc = "rereport"
  /\ WriteError(h)
  /\ proc' = [proc EXCEPT ![h] = Poll]
  /\ UNCHANGED <<queues, dead, marked, executed, budget>>

(* Nothing catches an exception of the error path or of the poll.          *)
Dies(h) ==
  /\ proc[h].pc \in ErrorPhases \cup {"poll"}
  /\ Occurs("callFails")
  /\ proc' = [proc EXCEPT ![h] = Down]
  /\ UNCHANGED <<queues, dead, record, marked, executed>>

(* Mutant: the sweep of the supervisor leaves out the first handler.       *)
RestartSkipsFirst(h) ==
  /\ proc[h].pc = "down" /\ h.step # 1
  /\ proc' = [proc EXCEPT ![h] = Poll]
  /\ UNCHANGED <<queues, dead, record, marked, executed, budget>>

-------------------------------------------------------------------------------
(* The supervisor starts a process that ended again.                       *)
Restart(h) ==
  /\ proc[h].pc = "down"
  /\ proc' = [proc EXCEPT ![h] = Poll]
  /\ UNCHANGED <<queues, dead, record, marked, executed, budget>>

(* The platform ends a container.                                          *)
Crash(r) ==
  /\ Occurs("crash")
  /\ proc' = [h \in Handlers |-> IF h.replica = r THEN Down ELSE proc[h]]
  /\ UNCHANGED <<queues, dead, record, marked, executed>>

(* A lease or a delay runs out, before the handler is done if it is slow.  *)
Held(m) == \E h \in Handlers : proc[h].msg = m /\ proc[h].n = count[m]

Expire(m) ==
  /\ m \in hidden
  /\ IF Held(m) THEN Occurs("slow") ELSE UNCHANGED budget
  /\ hidden' = hidden \ {m}
  /\ UNCHANGED <<queue, count, sent, dead, proc, record, marked, executed>>

-------------------------------------------------------------------------------
FirstMessages(c) == {[doc |-> d, step |-> 1, copy |-> c] : d \in Docs}

Init ==
  /\ \E c \in Copies : queue = FirstMessages(c) /\ sent = FirstMessages(c)
  /\ hidden = {}
  /\ count = [m \in Messages |-> 0]
  /\ dead = {}
  /\ proc = [h \in Handlers |-> Poll]
  /\ status = [d \in Docs |-> Submitted]
  /\ results = {}
  /\ marked = [d \in Docs |-> {}]
  /\ executed = {}
  /\ budget = Budget

HandlerStep(h) ==
  \/ Start(h) \/ Execute(h) \/ Record(h) \/ Pass(h) \/ Delete(h) \/ Report(h)
  \/ TryFails(h)
  \/ MarkFailed(h) \/ RecordError(h) \/ Retry(h)
  \/ Bury(h) \/ Unqueue(h) \/ Rereport(h)

Next ==
  \/ \E h \in Handlers : \/ \E m \in queue : Receive(h, m)
                         \/ PollEmpty(h)
                         \/ HandlerStep(h)
                         \/ Dies(h)
                         \/ Restart(h)
  \/ \E r \in Replicas : Crash(r)
  \/ \E m \in hidden : Expire(m)

Spec == Init /\ [][Next]_vars

(* Fairness: handlers poll and run, calls return, the supervisor restarts, *)
(* leases run out.                                                         *)
Fairness ==
  /\ \A h \in Handlers : /\ WF_vars(\E m \in queue : Receive(h, m))
                         /\ WF_vars(HandlerStep(h))
                         /\ WF_vars(Restart(h))
  /\ \A m \in Messages : WF_vars(Expire(m))

FairSpec == Spec /\ Fairness

-------------------------------------------------------------------------------
(* Type correctness.                                                       *)
TypeOK ==
  /\ queue \subseteq sent /\ hidden \subseteq queue /\ sent \subseteq Messages
  /\ count \in [Messages -> Nat]
  /\ dead \subseteq Docs \X Steps
  /\ proc \in [Handlers -> [pc : Phases, msg : Messages \cup {NoMsg}, n : Nat]]
  /\ status \in [Docs -> Submitted .. Error]
  /\ results \subseteq Docs
  /\ marked \in [Docs -> SUBSET Steps]
  /\ executed \subseteq Docs \X Steps
  /\ budget \in 0 .. Budget

Saved(d) == <<d, LastStep>> \in executed
Buried(d) == \E s \in Steps : <<d, s>> \in dead
Pending(d) == \E m \in queue : m.doc = d

(* A document never drops out of the pipeline: as long as it is neither    *)
(* saved nor in a dead-letter queue, one of its messages is in a queue, so *)
(* that some handler will pick it up again.                                *)
NoDocumentDropped == \A d \in Docs : Pending(d) \/ Saved(d) \/ Buried(d)

(* No step runs on a document whose earlier steps have not all succeeded,  *)
(* however its messages are duplicated and retried; and only a document    *)
(* that went through all of them is reported Completed.                    *)
StepsInOrder ==
  /\ \A m \in queue : \A s \in 1 .. m.step - 1 : <<m.doc, s>> \in executed
  /\ \A d \in Docs : status[d] = Completed => \A s \in Steps : <<d, s>> \in executed

(* As long as no handler is slow, crashes or loses a call, however often   *)
(* steps fail: a record that says Completed holds the extraction results   *)
(* (no later write of a handler of an earlier step takes them away), ...   *)
Undisturbed == budget = Budget

CompletedHasResults ==
  Undisturbed => \A d \in Docs : status[d] = Completed => d \in results

(* ... and a document has one outcome: what was saved is not dead-lettered. *)
OneOutcome == Undisturbed => \A d \in Docs : ~(Saved(d) /\ Buried(d))

(* Every document is eventually saved or dead-lettered, and then no        *)
(* message is left behind that would be delivered for ever.                *)
EventuallyHandled ==
  /\ \A d \in Docs : <>(Saved(d) \/ Buried(d))
  /\ <>[](queue = {})

(* A document ends with a status at which the workflow service stops       *)
(* polling it ("Polls ... until terminal status").                         *)
EventuallyTerminal == \A d \in Docs : <>[](status[d] \in {Completed, Error})
===============================================================================
