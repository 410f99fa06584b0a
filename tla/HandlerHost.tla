------------------------------- MODULE HandlerHost -------------------------------
(***************************************************************************)
(* HandlerHostManager (libs/process_host/handler_process_host.py): the     *)
(* supervisor of the handler processes.  It sweeps over the list of its    *)
(* handlers and replaces each one that has ended, removing it from the     *)
(* list and appending the new one, while it iterates over that list: the   *)
(* iterator is an index, so the entry after a removed one is skipped.      *)
(***************************************************************************)
EXTENDS Integers, FiniteSets

CONSTANT Handlers      \* the names of the handlers, one per pipeline step

ASSUME HandlersAssumption == IsFiniteSet(Handlers) /\ Handlers # {}

N == Cardinality(Handlers)
Places == 1 .. N

VARIABLES
  handlers,    \* the list: at each place a name and whether its process runs
  processes,   \* the number of processes of each handler that run
  phase,       \* "start" while the first processes are started, then "sweep"
  next,        \* the place the iterator yields next; N + 1 at the end
  missed       \* history: the sweeps in a row that left a handler out

vars == <<handlers, processes, phase, next, missed>>

Entry == [name : Handlers, running : BOOLEAN]

Name(p) == handlers[p].name

EachOnce ==
  /\ \A n \in Handlers : \E p \in Places : Name(p) = n
  /\ \A p, q \in Places : Name(p) = Name(q) => p = q

-------------------------------------------------------------------------------
(* add_handlers_as_process for each step, in any order.                    *)
Init ==
  /\ handlers \in [Places -> [name : Handlers, running : {FALSE}]]
  /\ EachOnce
  /\ processes = [n \in Handlers |-> 0]
  /\ phase = "start"
  /\ next = 1
  /\ missed = [n \in Handlers |-> 0]

StartNext ==
  /\ phase = "start" /\ next \in Places
  /\ handlers' = [handlers EXCEPT ![next].running = TRUE]
  /\ processes' = [processes EXCEPT ![Name(next)] = @ + 1]
  /\ next' = next + 1
  /\ UNCHANGED <<phase, missed>>

(* Mutant: the supervisor passes over a process whether it runs or not.    *)
KeepBlindly ==
  /\ phase = "sweep" /\ next \in Places
  /\ next' = next + 1
  /\ missed' = [missed EXCEPT ![Name(next)] = 0]
  /\ UNCHANGED <<handlers, processes, phase>>

(* join returns within a second and the process still runs.                *)
Keep ==
  /\ phase = "sweep" /\ next \in Places
  /\ handlers[next].running
  /\ next' = next + 1
  /\ missed' = [missed EXCEPT ![Name(next)] = 0]
  /\ UNCHANGED <<handlers, processes, phase>>

(* The list without its p-th entry and with e at the end.                  *)
Replaced(p, e) ==
  [q \in Places |-> IF q < p THEN handlers[q] ELSE IF q < N THEN handlers[q + 1] ELSE e]

(* The skipped entry, if there is one, is the one after the removed one.   *)
Skip(p) ==
  missed' = [n \in Handlers |->
               IF n = Name(p) THEN 0
               ELSE IF p < N /\ n = Name(p + 1) THEN missed[n] + 1 ELSE missed[n]]

(* Mutant: the entry of the process that has ended is appended again.      *)
ReplaceStale ==
  /\ phase = "sweep" /\ next \in Places
  /\ ~handlers[next].running
  /\ handlers' = Replaced(next, [name |-> Name(next), running |-> FALSE])
  /\ processes' = [processes EXCEPT ![Name(next)] = @ + 1]
  /\ next' = next + 1
  /\ Skip(next)
  /\ UNCHANGED phase

(* Mutant: the new process takes the place of the one that has ended, and  *)
(* the sweep starts over.                                                  *)
ReplaceInPlace ==
  /\ phase = "sweep" /\ next \in Places
  /\ ~handlers[next].running
  /\ handlers' = [handlers EXCEPT ![next].running = TRUE]
  /\ processes' = [processes EXCEPT ![Name(next)] = @ + 1]
  /\ next' = 1
  /\ missed' = [n \in Handlers |->
                  IF \E p \in Places : p > next /\ n = Name(p) THEN missed[n] + 1 ELSE 0]
  /\ UNCHANGED phase

Replace ==
  /\ phase = "sweep" /\ next \in Places
  /\ ~handlers[next].running
  /\ handlers' = Replaced(next, [name |-> Name(next), running |-> TRUE])
  /\ processes' = [processes EXCEPT ![Name(next)] = @ + 1]
  /\ next' = next + 1
  /\ Skip(next)
  /\ UNCHANGED phase

(* The end of the start loop or of a sweep.                                *)
NextSweep ==
  /\ next \notin Places
  /\ phase' = "sweep"
  /\ next' = 1
  /\ UNCHANGED <<handlers, processes, missed>>

(* A handler process ends: an uncaught exception, or it is killed.         *)
End(p) ==
  /\ handlers[p].running
  /\ handlers' = [handlers EXCEPT ![p].running = FALSE]
  /\ processes' = [processes EXCEPT ![Name(p)] = @ - 1]
  /\ UNCHANGED <<phase, next, missed>>

Supervise == StartNext \/ Keep \/ Replace \/ NextSweep

Next == Supervise \/ \E p \in Places : End(p)

Spec == Init /\ [][Next]_vars

(* Fairness: the supervisor keeps running.                                 *)
FairSpec == Spec /\ WF_vars(Supervise)

-------------------------------------------------------------------------------
(* Type correctness.                                                       *)
TypeOK ==
  /\ handlers \in [Places -> Entry]
  /\ processes \in [Handlers -> Nat]
  /\ phase \in {"start", "sweep"}
  /\ next \in 1 .. N + 1
  /\ missed \in [Handlers -> Nat]

(* Every handler stays in the list, once, and has the one process that its *)
(* entry refers to: a second one would take messages of the same queue     *)
(* that nobody watches.                                                    *)
OneProcess ==
  /\ EachOnce
  /\ \A p \in Places : processes[Name(p)] = IF handlers[p].running THEN 1 ELSE 0

(* Removing from the list while iterating over it makes a sweep skip a     *)
(* handler, but never more than N - 1 sweeps in a row.                     *)
BoundedNeglect == \A n \in Handlers : missed[n] < N

(* The supervisor keeps the promise of Supervision: whatever ends when,    *)
(* and however often, each handler is started again.                       *)
S == INSTANCE Supervision WITH up <- {n \in Handlers : processes[n] > 0}

ImplementsSupervision == S!Spec
===============================================================================
