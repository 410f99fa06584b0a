-------------------------- MODULE ContentPipelineProofs --------------------------
(***************************************************************************)
(* Theorems about ContentPipeline for every set of documents, steps and    *)
(* replicas and every combination of faults.                               *)
(***************************************************************************)
EXTENDS ContentPipeline, TLAPS

(* The phases in which a handler holds a message.                          *)
Busy(h) == proc[h].pc \notin {"poll", "down"}

(* The inductive invariant for types: a busy handler has a message of its  *)
(* own step.                                                               *)
TypeInv ==
  /\ TypeOK
  /\ \A h \in Handlers : Busy(h) => proc[h].msg \in sent /\ proc[h].msg.step = h.step

USE DEF Steps, Messages, Handlers, Submitted, Completed, Error, TryPhases, ErrorPhases,
        Phases, Poll, Down

(* What is known of the handler that takes a step.                         *)
LEMMA HandlerTyped ==
  ASSUME TypeInv, NEW h \in Handlers
  PROVE  /\ h.step \in Steps /\ h.replica \in Replicas
         /\ proc[h] \in [pc : Phases, msg : Messages \cup {NoMsg}, n : Nat]
         /\ Busy(h) => /\ proc[h].msg \in Messages /\ proc[h].msg \in sent
                       /\ proc[h].msg.step = h.step /\ Doc(h) \in Docs
         /\ LastStep \in Nat \ {0}
         /\ h.step \in Submitted .. Error
         /\ 1 .. h.step \in SUBSET Steps
<1>1. LastStep \in Nat \ {0} /\ h.step \in Steps /\ h.replica \in Replicas
  BY ConstantsAssumption
<1>2. proc[h] \in [pc : Phases, msg : Messages \cup {NoMsg}, n : Nat]
  BY DEF TypeInv, TypeOK
<1>3. Busy(h) => /\ proc[h].msg \in Messages /\ proc[h].msg \in sent
                 /\ proc[h].msg.step = h.step /\ Doc(h) \in Docs
  BY DEF TypeInv, TypeOK, Doc
<1> QED
  BY <1>1, <1>2, <1>3

(* A handler that changes its phase only stays typed.                      *)
LEMMA GotoTyped ==
  ASSUME TypeInv, NEW h \in Handlers, NEW p \in Phases, Goto(h, p), Busy(h), sent \subseteq sent'
  PROVE  /\ proc' \in [Handlers -> [pc : Phases, msg : Messages \cup {NoMsg}, n : Nat]]
         /\ \A k \in Handlers : Busy(k)' => proc'[k].msg \in sent' /\ proc'[k].msg.step = k.step
BY HandlerTyped DEF TypeInv, TypeOK, Goto, Busy

(* So does one that gives up its message.                                  *)
LEMMA IdleTyped ==
  ASSUME TypeInv, NEW h \in Handlers, NEW r \in {Poll, Down},
         proc' = [proc EXCEPT ![h] = r], sent \subseteq sent'
  PROVE  /\ proc' \in [Handlers -> [pc : Phases, msg : Messages \cup {NoMsg}, n : Nat]]
         /\ \A k \in Handlers : Busy(k)' => proc'[k].msg \in sent' /\ proc'[k].msg.step = k.step
BY DEF TypeInv, TypeOK, Busy

(* Removing and sending a message keep the queues typed.                   *)
LEMMA RemoveTyped ==
  ASSUME TypeInv, NEW m, Remove(m)
  PROVE  /\ queue' \subseteq sent' /\ hidden' \subseteq queue' /\ sent' \subseteq Messages
         /\ count' \in [Messages -> Nat] /\ sent' = sent
BY DEF TypeInv, TypeOK, Remove

LEMMA SendTyped ==
  ASSUME TypeInv, NEW m \in Messages, Send(m)
  PROVE  /\ queue' \subseteq sent' /\ hidden' \subseteq queue' /\ sent' \subseteq Messages
         /\ count' \in [Messages -> Nat] /\ sent \subseteq sent'
BY DEF TypeInv, TypeOK, Send

(* The message that Pass sends.                                            *)
LEMMA NextMessage ==
  ASSUME TypeInv, NEW h \in Handlers, Busy(h), h.step # LastStep, NEW c \in Copies
  PROVE  [doc |-> Doc(h), step |-> h.step + 1, copy |-> c] \in Messages
<1>1. h.step + 1 \in Steps
  BY HandlerTyped
<1> QED
  BY <1>1, HandlerTyped

(* One step per action.                                                    *)
LEMMA TypeStep ==
  ASSUME TypeInv, [Next]_vars
  PROVE  TypeInv'
<1> USE HandlerTyped, ConstantsAssumption DEF vars, queues, record
<1>1. CASE UNCHANGED vars
  BY <1>1 DEF TypeInv, TypeOK, Busy
<1>2. ASSUME NEW h \in Handlers, NEW m \in queue, Receive(h, m)
      PROVE  TypeInv'
  <2>1. m \in Messages /\ m \in sent /\ count[m] \in Nat
    BY DEF TypeInv, TypeOK
  <2>2. CASE m.doc \in Malformed
    <3>1. proc' = [proc EXCEPT ![h] = Down] /\ UNCHANGED count
      BY <1>2, <2>2 DEF Receive
    <3>2. sent' = sent /\ queue' = queue /\ hidden' = hidden \cup {m}
      BY <1>2 DEF Receive
    <3>3. /\ proc' \in [Handlers -> [pc : Phases, msg : Messages \cup {NoMsg}, n : Nat]]
          /\ \A k \in Handlers : Busy(k)' => proc'[k].msg \in sent' /\ proc'[k].msg.step = k.step
      BY <3>1, <3>2, IdleTyped
    <3> QED
      BY <1>2, <3>1, <3>2, <3>3 DEF TypeInv, TypeOK, Receive
  <2>3. CASE m.doc \notin Malformed
    <3> DEFINE held == [pc |-> "start", msg |-> m, n |-> count[m] + 1]
    <3>1. /\ proc' = [proc EXCEPT ![h] = held] /\ count' = [count EXCEPT ![m] = @ + 1]
          /\ m.step = h.step
      BY <1>2, <2>3 DEF Receive
    <3>2. /\ held \in [pc : Phases, msg : Messages \cup {NoMsg}, n : Nat]
          /\ held.msg = m
      BY <2>1
    <3> HIDE DEF held
    <3>3. /\ proc' \in [Handlers -> [pc : Phases, msg : Messages \cup {NoMsg}, n : Nat]]
          /\ \A k \in Handlers : Busy(k)' => proc'[k].msg \in sent /\ proc'[k].msg.step = k.step
      BY <2>1, <3>1, <3>2 DEF TypeInv, TypeOK, Busy
    <3>4. count' \in [Messages -> Nat]
      BY <2>1, <3>1 DEF TypeInv, TypeOK
    <3> QED
      BY <1>2, <3>3, <3>4 DEF TypeInv, TypeOK, Receive
  <2> QED
    BY <2>2, <2>3
<1>3. ASSUME NEW h \in Handlers, Start(h)
      PROVE  TypeInv'
  BY <1>3, GotoTyped DEF TypeInv, TypeOK, Start, SetStatus, Busy
<1>4. ASSUME NEW h \in Handlers, Execute(h)
      PROVE  TypeInv'
  BY <1>4, GotoTyped DEF TypeInv, TypeOK, Execute, SetStatus, Busy
<1>5. ASSUME NEW h \in Handlers, Record(h)
      PROVE  TypeInv'
  BY <1>5, GotoTyped DEF TypeInv, TypeOK, Record, Busy
<1>6. ASSUME NEW h \in Handlers, Pass(h)
      PROVE  TypeInv'
  <2>1. Busy(h) /\ Goto(h, "delete") /\ UNCHANGED <<dead, record, marked, executed, budget>>
    BY <1>6 DEF Pass, Busy
  <2>2. /\ queue' \subseteq sent' /\ hidden' \subseteq queue' /\ sent' \subseteq Messages
        /\ count' \in [Messages -> Nat] /\ sent \subseteq sent'
    <3>1. CASE h.step = LastStep
      BY <1>6, <3>1 DEF Pass, TypeInv, TypeOK
    <3>2. CASE h.step # LastStep
      <4>1. PICK c \in Copies : Send([doc |-> Doc(h), step |-> h.step + 1, copy |-> c])
        BY <1>6, <3>2 DEF Pass
      <4> QED
        BY <2>1, <3>2, <4>1, NextMessage, SendTyped
    <3> QED
      BY <3>1, <3>2
  <2>3. /\ proc' \in [Handlers -> [pc : Phases, msg : Messages \cup {NoMsg}, n : Nat]]
        /\ \A k \in Handlers : Busy(k)' => proc'[k].msg \in sent' /\ proc'[k].msg.step = k.step
    BY <2>1, <2>2, GotoTyped
  <2> QED
    BY <2>1, <2>2, <2>3 DEF TypeInv, TypeOK
<1>7. ASSUME NEW h \in Handlers, Delete(h)
      PROVE  TypeInv'
  <2>1. /\ Busy(h) /\ (Goto(h, "report") \/ Goto(h, "fail"))
        /\ Remove(proc[h].msg) \/ UNCHANGED queues
        /\ UNCHANGED <<dead, record, marked, executed, budget>>
    BY <1>7 DEF Delete, Busy
  <2>2. /\ queue' \subseteq sent' /\ hidden' \subseteq queue' /\ sent' \subseteq Messages
        /\ count' \in [Messages -> Nat] /\ sent' = sent
    <3>1. CASE Remove(proc[h].msg)
      BY <3>1, RemoveTyped
    <3>2. CASE UNCHANGED queues
      BY <3>2 DEF TypeInv, TypeOK
    <3> QED
      BY <2>1, <3>1, <3>2
  <2>3. /\ proc' \in [Handlers -> [pc : Phases, msg : Messages \cup {NoMsg}, n : Nat]]
        /\ \A k \in Handlers : Busy(k)' => proc'[k].msg \in sent' /\ proc'[k].msg.step = k.step
    BY <2>1, <2>2, GotoTyped
  <2> QED
    BY <2>1, <2>2, <2>3 DEF TypeInv, TypeOK
<1>8. ASSUME NEW h \in Handlers, Report(h)
      PROVE  TypeInv'
  BY <1>8, IdleTyped DEF TypeInv, TypeOK, Report, SetStatus, Busy
<1>9. ASSUME NEW h \in Handlers, TryFails(h)
      PROVE  TypeInv'
  BY <1>9, GotoTyped DEF TypeInv, TypeOK, TryFails, Occurs, Busy
<1>10. ASSUME NEW h \in Handlers, MarkFailed(h)
       PROVE  TypeInv'
  BY <1>10, GotoTyped DEF TypeInv, TypeOK, MarkFailed, Busy
<1>11. ASSUME NEW h \in Handlers, RecordError(h)
       PROVE  TypeInv'
  BY <1>11, GotoTyped DEF TypeInv, TypeOK, RecordError, WriteError, SetStatus, Busy
<1>12. ASSUME NEW h \in Handlers, Retry(h)
       PROVE  TypeInv'
  BY <1>12, IdleTyped DEF TypeInv, TypeOK, Retry, Holds, Busy
<1>13. ASSUME NEW h \in Handlers, Bury(h)
       PROVE  TypeInv'
  BY <1>13, GotoTyped DEF TypeInv, TypeOK, Bury, Busy
<1>14. ASSUME NEW h \in Handlers, Unqueue(h)
       PROVE  TypeInv'
  <2>1. /\ Busy(h) /\ (Goto(h, "rereport") \/ proc' = [proc EXCEPT ![h] = Down])
        /\ Remove(proc[h].msg) \/ UNCHANGED queues
        /\ UNCHANGED <<dead, record, marked, executed, budget>>
    BY <1>14 DEF Unqueue, Busy
  <2>2. /\ queue' \subseteq sent' /\ hidden' \subseteq queue' /\ sent' \subseteq Messages
        /\ count' \in [Messages -> Nat] /\ sent' = sent
    <3>1. CASE Remove(proc[h].msg)
      BY <3>1, RemoveTyped
    <3>2. CASE UNCHANGED queues
      BY <3>2 DEF TypeInv, TypeOK
    <3> QED
      BY <2>1, <3>1, <3>2
  <2>3. /\ proc' \in [Handlers -> [pc : Phases, msg : Messages \cup {NoMsg}, n : Nat]]
        /\ \A k \in Handlers : Busy(k)' => proc'[k].msg \in sent' /\ proc'[k].msg.step = k.step
    BY <2>1, <2>2, GotoTyped, IdleTyped
  <2> QED
    BY <2>1, <2>2, <2>3 DEF TypeInv, TypeOK
<1>15. ASSUME NEW h \in Handlers, Rereport(h)
       PROVE  TypeInv'
  BY <1>15, IdleTyped DEF TypeInv, TypeOK, Rereport, WriteError, SetStatus, Busy
<1>16. ASSUME NEW h \in Handlers, Dies(h)
       PROVE  TypeInv'
  BY <1>16, IdleTyped DEF TypeInv, TypeOK, Dies, Occurs, Busy
<1>17. ASSUME NEW h \in Handlers, Restart(h)
       PROVE  TypeInv'
  BY <1>17, IdleTyped DEF TypeInv, TypeOK, Restart, Busy
<1>18. ASSUME NEW r \in Replicas, Crash(r)
       PROVE  TypeInv'
  BY <1>18 DEF TypeInv, TypeOK, Crash, Occurs, Busy
<1>19. ASSUME NEW m \in hidden, Expire(m)
       PROVE  TypeInv'
  BY <1>19 DEF TypeInv, TypeOK, Expire, Occurs, Busy
<1>20. ASSUME NEW h \in Handlers, PollEmpty(h)
       PROVE  TypeInv'
  BY <1>1, <1>20 DEF PollEmpty
<1> QED
  BY <1>1, <1>2, <1>3, <1>4, <1>5, <1>6, <1>7, <1>8, <1>9, <1>10, <1>11, <1>12, <1>13,
     <1>14, <1>15, <1>16, <1>17, <1>18, <1>19, <1>20
     DEF Next, HandlerStep

LEMMA TypeInit == Init => TypeInv
<1> SUFFICES ASSUME Init
             PROVE  TypeInv
  OBVIOUS
<1>1. PICK c \in Copies : queue = FirstMessages(c) /\ sent = FirstMessages(c)
  BY DEF Init
<1>2. FirstMessages(c) \subseteq Messages
  BY ConstantsAssumption DEF FirstMessages
<1> QED
  BY <1>1, <1>2, ConstantsAssumption DEF Init, TypeInv, TypeOK, Busy

(* Every variable keeps its type, and a busy handler works on a message    *)
(* of the step it was started for.                                         *)
THEOREM TypeCorrect == Spec => []TypeOK
<1>1. TypeInv /\ [Next]_vars => TypeInv'
  BY TypeStep
<1>2. TypeInv => TypeOK
  BY DEF TypeInv
<1> QED
  BY <1>1, <1>2, TypeInit, PTL DEF Spec

-------------------------------------------------------------------------------
(***************************************************************************)
(* No document is dropped.  NoDocumentDropped is not inductive: Delete     *)
(* removes a message, so a handler that is about to delete must have left  *)
(* a later message of the document behind it, unless the document reached  *)
(* its end.  For that, the handler must have executed its step.            *)
(***************************************************************************)
Later(d, s) == \E m \in queue : m.doc = d /\ m.step > s

Executed(h) == <<Doc(h), h.step>> \in executed

HandlerSafe(h) ==
  /\ proc[h].pc \in {"record", "pass", "delete", "report"} => Executed(h)
  /\ proc[h].pc = "delete" => Saved(Doc(h)) \/ Buried(Doc(h)) \/ Later(Doc(h), h.step)
  /\ proc[h].pc = "unqueue" => Buried(Doc(h))

ProgressInv ==
  /\ NoDocumentDropped
  /\ \A h \in Handlers : HandlerSafe(h)

(* A step that removes nothing keeps what is said of the documents and of  *)
(* the handlers it leaves alone.                                           *)
LEMMA Grows ==
  ASSUME ProgressInv, queue \subseteq queue', dead \subseteq dead', executed \subseteq executed'
  PROVE  /\ NoDocumentDropped'
         /\ \A k \in Handlers : proc'[k] = proc[k] => HandlerSafe(k)'
BY DEF ProgressInv, NoDocumentDropped, HandlerSafe, Executed, Doc, Saved, Buried, Pending, Later

(* Nor does the removal of a message that a later one follows.             *)
LEMMA Shrinks ==
  ASSUME TypeInv, ProgressInv, NEW h \in Handlers, Busy(h),
         Remove(proc[h].msg), UNCHANGED <<dead, executed>>,
         Saved(Doc(h)) \/ Buried(Doc(h)) \/ Later(Doc(h), h.step)
  PROVE  /\ NoDocumentDropped'
         /\ \A k \in Handlers : proc'[k] = proc[k] => HandlerSafe(k)'
<1> DEFINE m == proc[h].msg
<1>1. m \in Messages /\ m.doc = Doc(h) /\ m.step = h.step /\ h.step \in Int
  BY HandlerTyped DEF Doc
<1>2. queue \subseteq Messages /\ queue' = queue \ {m}
  BY DEF TypeInv, TypeOK, Remove
<1>3. \A d : (Saved(d) <=> Saved(d)') /\ (Buried(d) <=> Buried(d)')
  BY DEF Saved, Buried
<1>4. ASSUME NEW d, NEW s \in Int, Later(d, s)
      PROVE  Saved(d) \/ Buried(d) \/ Later(d, s)'
  <2>1. PICK x \in queue : x.doc = d /\ x.step > s
    BY <1>4 DEF Later
  <2>2. CASE x # m
    BY <1>2, <2>1, <2>2 DEF Later
  <2>3. CASE x = m
    <3>1. CASE Later(Doc(h), h.step)
      <4>1. PICK y \in queue : y.doc = Doc(h) /\ y.step > h.step
        BY <3>1 DEF Later
      <4>2. y # m /\ y.step > s /\ y.doc = d
        BY <1>1, <1>2, <2>1, <2>3, <4>1
      <4> QED
        BY <1>2, <4>1, <4>2 DEF Later
    <3> QED
      BY <1>1, <2>1, <2>3, <3>1
  <2> QED
    BY <2>2, <2>3
<1>5. NoDocumentDropped'
  <2> SUFFICES ASSUME NEW d \in Docs
               PROVE  Pending(d)' \/ Saved(d)' \/ Buried(d)'
    BY DEF NoDocumentDropped
  <2>1. CASE Pending(d)
    <3>1. PICK x \in queue : x.doc = d
      BY <2>1 DEF Pending
    <3>2. CASE x # m
      BY <1>2, <3>1, <3>2 DEF Pending
    <3>3. CASE x = m
      <4>1. CASE Later(Doc(h), h.step)
        <5>1. PICK y \in queue : y.doc = Doc(h) /\ y.step > h.step
          BY <4>1 DEF Later
        <5> QED
          BY <1>1, <1>2, <3>1, <3>3, <5>1 DEF Pending
      <4> QED
        BY <1>1, <1>3, <3>1, <3>3, <4>1
    <3> QED
      BY <3>2, <3>3
  <2> QED
    BY <1>3, <2>1 DEF ProgressInv, NoDocumentDropped
<1>6. ASSUME NEW k \in Handlers, proc'[k] = proc[k]
      PROVE  HandlerSafe(k)'
  <2>1. k.step \in Int /\ Doc(k)' = Doc(k) /\ HandlerSafe(k) /\ (Executed(k) <=> Executed(k)')
    BY <1>6, HandlerTyped DEF Doc, ProgressInv, Executed
  <2> QED
    BY <1>3, <1>4, <1>6, <2>1 DEF HandlerSafe
<1> QED
  BY <1>5, <1>6

(* A move of one handler, to a new phase or to idleness.                   *)
LEMMA GotoMoves ==
  ASSUME TypeInv, NEW h \in Handlers, NEW p, Goto(h, p)
  PROVE  /\ proc'[h] = [proc[h] EXCEPT !.pc = p] /\ proc'[h].pc = p
         /\ \A k \in Handlers \ {h} : proc'[k] = proc[k]
<1>1. proc[h] \in [pc : Phases, msg : Messages \cup {NoMsg}, n : Nat]
  BY DEF TypeInv, TypeOK
<1>2. proc'[h] = [proc[h] EXCEPT !.pc = p]
  BY DEF TypeInv, TypeOK, Goto
<1> QED
  BY <1>1, <1>2 DEF TypeInv, TypeOK, Goto

LEMMA AssignMoves ==
  ASSUME TypeInv, NEW h \in Handlers, NEW r, proc' = [proc EXCEPT ![h] = r]
  PROVE  /\ proc'[h] = r
         /\ \A k \in Handlers \ {h} : proc'[k] = proc[k]
BY DEF TypeInv, TypeOK

LEMMA IdleMoves ==
  ASSUME TypeInv, NEW h \in Handlers, NEW r \in {Poll, Down}, proc' = [proc EXCEPT ![h] = r]
  PROVE  /\ proc'[h].pc \in {"poll", "down"}
         /\ \A k \in Handlers \ {h} : proc'[k] = proc[k]
<1>1. r.pc \in {"poll", "down"}
  OBVIOUS
<1> QED
  BY <1>1, AssignMoves

(* One step per action: what the handler that moved must know.             *)
LEMMA ProgressStep ==
  ASSUME TypeInv, ProgressInv, [Next]_vars
  PROVE  ProgressInv'
<1> USE DEF vars, queues, record
<1>0. \A h \in Handlers : HandlerSafe(h) /\ proc[h] \in [pc : Phases, msg : Messages \cup {NoMsg}, n : Nat]
  BY DEF ProgressInv, TypeInv, TypeOK
<1>1. ASSUME NEW h \in Handlers, \A k \in Handlers \ {h} : proc'[k] = proc[k],
             queue \subseteq queue', dead \subseteq dead', executed \subseteq executed',
             HandlerSafe(h)'
      PROVE  ProgressInv'
  BY <1>1, Grows DEF ProgressInv
<1>2. CASE UNCHANGED vars
  BY <1>2, Grows DEF ProgressInv
<1>3. ASSUME NEW h \in Handlers, NEW m \in queue, Receive(h, m)
      PROVE  ProgressInv'
  <2>1. proc'[h].pc \in {"start", "down"} /\ \A k \in Handlers \ {h} : proc'[k] = proc[k]
    <3>1. \/ proc' = [proc EXCEPT ![h] = Down]
          \/ proc' = [proc EXCEPT ![h] = [pc |-> "start", msg |-> m, n |-> count[m] + 1]]
      BY <1>3 DEF Receive
    <3>2. CASE proc' = [proc EXCEPT ![h] = Down]
      <4>1. proc'[h] = Down /\ \A k \in Handlers \ {h} : proc'[k] = proc[k]
        BY <3>2, AssignMoves
      <4> QED
        BY <4>1
    <3>3. CASE proc' = [proc EXCEPT ![h] = [pc |-> "start", msg |-> m, n |-> count[m] + 1]]
      <4> DEFINE r == [pc |-> "start", msg |-> m, n |-> count[m] + 1]
      <4>1. r.pc = "start"
        OBVIOUS
      <4> HIDE DEF r
      <4>2. proc' = [proc EXCEPT ![h] = r]
        BY <3>3 DEF r
      <4> QED
        BY <4>1, <4>2, AssignMoves
    <3> QED
      BY <3>1, <3>2, <3>3
  <2> QED
    BY <1>1, <1>3, <2>1 DEF Receive, HandlerSafe
<1>4. ASSUME NEW h \in Handlers,
             Start(h) \/ Record(h) \/ Report(h) \/ TryFails(h) \/ MarkFailed(h) \/ RecordError(h)
             \/ Retry(h) \/ Rereport(h) \/ Dies(h) \/ Restart(h)
      PROVE  ProgressInv'
  <2>1. /\ \A k \in Handlers \ {h} : proc'[k] = proc[k]
        /\ UNCHANGED <<queue, dead, executed>>
    BY <1>4 DEF Start, Record, Report, TryFails, MarkFailed, RecordError, Retry, Rereport, Dies,
                Restart, Goto, TypeInv, TypeOK
  <2>2. \/ proc'[h].pc \in {"execute", "fail", "error", "retry", "bury", "poll", "down"}
        \/ proc[h].pc = "record" /\ proc'[h] = [proc[h] EXCEPT !.pc = "pass"]
    <3>1. CASE Record(h)
      BY <3>1, GotoMoves DEF Record
    <3>2. CASE Start(h) \/ TryFails(h) \/ MarkFailed(h) \/ RecordError(h)
      BY <3>2, GotoMoves DEF Start, TryFails, MarkFailed, RecordError
    <3>3. CASE Report(h) \/ Retry(h) \/ Rereport(h) \/ Dies(h) \/ Restart(h)
      BY <3>3, IdleMoves DEF Report, Retry, Rereport, Dies, Restart
    <3> QED
      BY <1>4, <3>1, <3>2, <3>3
  <2>3. HandlerSafe(h)'
    BY <1>0, <2>1, <2>2 DEF HandlerSafe, Executed, Doc
  <2> QED
    BY <1>1, <2>1, <2>3
<1>5. ASSUME NEW h \in Handlers, Execute(h)
      PROVE  ProgressInv'
  <2>1. /\ \A k \in Handlers \ {h} : proc'[k] = proc[k]
        /\ proc'[h] = [proc[h] EXCEPT !.pc = "record"]
        /\ UNCHANGED <<queue, dead>> /\ executed' = executed \cup {<<Doc(h), h.step>>}
    BY <1>5 DEF Execute, Goto, TypeInv, TypeOK
  <2>2. proc'[h].pc = "record" /\ Doc(h)' = Doc(h)
    BY <1>0, <2>1 DEF Doc
  <2>3. HandlerSafe(h)'
    BY <2>1, <2>2 DEF HandlerSafe, Executed
  <2> QED
    BY <1>1, <2>1, <2>3
<1>6. ASSUME NEW h \in Handlers, Pass(h)
      PROVE  ProgressInv'
  <2>1. /\ \A k \in Handlers \ {h} : proc'[k] = proc[k]
        /\ proc'[h] = [proc[h] EXCEPT !.pc = "delete"]
        /\ UNCHANGED <<dead, executed>> /\ queue \subseteq queue' /\ proc[h].pc = "pass"
    BY <1>6 DEF Pass, Send, Goto, TypeInv, TypeOK
  <2>2. proc'[h].pc = "delete" /\ Doc(h)' = Doc(h) /\ Executed(h) /\ Executed(h)'
    BY <1>0, <2>1 DEF HandlerSafe, Executed, Doc
  <2>3. Saved(Doc(h))' \/ Later(Doc(h), h.step)'
    <3>1. CASE h.step = LastStep
      BY <2>1, <2>2, <3>1 DEF Executed, Saved
    <3>2. CASE h.step # LastStep
      <4>1. PICK c \in Copies : Send([doc |-> Doc(h), step |-> h.step + 1, copy |-> c])
        BY <1>6, <3>2 DEF Pass
      <4>2. h.step \in Int
        BY HandlerTyped
      <4> QED
        BY <2>2, <4>1, <4>2 DEF Send, Later
    <3> QED
      BY <3>1, <3>2
  <2>4. HandlerSafe(h)'
    BY <2>2, <2>3 DEF HandlerSafe
  <2> QED
    BY <1>1, <2>1, <2>4
<1>7. ASSUME NEW h \in Handlers, Delete(h)
      PROVE  ProgressInv'
  <2>1. /\ \A k \in Handlers \ {h} : proc'[k] = proc[k]
        /\ UNCHANGED <<dead, executed>> /\ proc[h].pc = "delete"
    BY <1>7 DEF Delete, Goto, TypeInv, TypeOK
  <2>2. CASE Holds(h)
    <3>1. Remove(proc[h].msg) /\ proc'[h] = [proc[h] EXCEPT !.pc = "report"]
      BY <1>7, <2>2 DEF Delete, Goto, TypeInv, TypeOK
    <3>2. HandlerSafe(h)'
      BY <1>0, <2>1, <3>1 DEF HandlerSafe, Executed, Doc
    <3>3. /\ NoDocumentDropped'
          /\ \A k \in Handlers : proc'[k] = proc[k] => HandlerSafe(k)'
      BY <1>0, <2>1, <3>1, Shrinks DEF HandlerSafe, Busy
    <3> QED
      BY <2>1, <3>2, <3>3 DEF ProgressInv
  <2>3. CASE ~Holds(h)
    <3>1. UNCHANGED queue /\ proc'[h].pc = "fail"
      BY <1>7, <2>3, GotoMoves DEF Delete
    <3> QED
      BY <1>1, <2>1, <3>1 DEF HandlerSafe
  <2> QED
    BY <2>2, <2>3
<1>8. ASSUME NEW h \in Handlers, Bury(h)
      PROVE  ProgressInv'
  <2>1. /\ \A k \in Handlers \ {h} : proc'[k] = proc[k]
        /\ proc'[h] = [proc[h] EXCEPT !.pc = "unqueue"]
        /\ UNCHANGED <<queue, executed>> /\ dead' = dead \cup {<<Doc(h), h.step>>}
    BY <1>8 DEF Bury, Goto, TypeInv, TypeOK
  <2>2. proc'[h].pc = "unqueue" /\ Doc(h)' = Doc(h) /\ h.step \in Steps
    BY <1>0, <2>1 DEF Doc
  <2>3. HandlerSafe(h)'
    BY <2>1, <2>2 DEF HandlerSafe, Buried
  <2> QED
    BY <1>1, <2>1, <2>3
<1>9. ASSUME NEW h \in Handlers, Unqueue(h)
      PROVE  ProgressInv'
  <2>1. /\ \A k \in Handlers \ {h} : proc'[k] = proc[k]
        /\ proc'[h].pc \in {"rereport", "down"}
        /\ UNCHANGED <<dead, executed>> /\ proc[h].pc = "unqueue"
    <3>1. Goto(h, "rereport") \/ proc' = [proc EXCEPT ![h] = Down]
      BY <1>9 DEF Unqueue
    <3>2. CASE Goto(h, "rereport")
      BY <1>9, <3>2, GotoMoves DEF Unqueue
    <3>3. CASE proc' = [proc EXCEPT ![h] = Down]
      <4>1. proc'[h] = Down /\ \A k \in Handlers \ {h} : proc'[k] = proc[k]
        BY <3>3, AssignMoves
      <4> QED
        BY <1>9, <4>1 DEF Unqueue
    <3> QED
      BY <3>1, <3>2, <3>3
  <2>2. HandlerSafe(h)'
    BY <2>1 DEF HandlerSafe
  <2>3. CASE Holds(h)
    <3>1. Remove(proc[h].msg)
      BY <1>9, <2>3 DEF Unqueue
    <3>2. /\ NoDocumentDropped'
          /\ \A k \in Handlers : proc'[k] = proc[k] => HandlerSafe(k)'
      BY <1>0, <2>1, <3>1, Shrinks DEF HandlerSafe, Busy
    <3> QED
      BY <2>1, <2>2, <3>2 DEF ProgressInv
  <2>4. CASE ~Holds(h)
    BY <1>1, <1>9, <2>1, <2>2, <2>4 DEF Unqueue
  <2> QED
    BY <2>3, <2>4
<1>10. ASSUME NEW r \in Replicas, Crash(r)
       PROVE  ProgressInv'
  <2>1. UNCHANGED <<queue, dead, executed>>
    BY <1>10 DEF Crash
  <2>2. \A k \in Handlers : proc'[k] = proc[k] \/ proc'[k].pc = "down"
    BY <1>10 DEF Crash
  <2> QED
    BY <2>1, <2>2, Grows DEF ProgressInv, HandlerSafe
<1>11. ASSUME NEW m \in hidden, Expire(m)
       PROVE  ProgressInv'
  BY <1>11, Grows DEF Expire, ProgressInv
<1>12. ASSUME NEW h \in Handlers, PollEmpty(h)
       PROVE  ProgressInv'
  BY <1>2, <1>12 DEF PollEmpty
<1> QED
  BY <1>2, <1>3, <1>4, <1>5, <1>6, <1>7, <1>8, <1>9, <1>10, <1>11, <1>12 DEF Next, HandlerStep

LEMMA ProgressInit == Init => ProgressInv
<1> SUFFICES ASSUME Init
             PROVE  ProgressInv
  OBVIOUS
<1>1. PICK c \in Copies : queue = FirstMessages(c)
  BY DEF Init
<1>2. \A d \in Docs : [doc |-> d, step |-> 1, copy |-> c] \in queue
  BY <1>1 DEF FirstMessages
<1>3. NoDocumentDropped
  BY <1>2 DEF NoDocumentDropped, Pending
<1> QED
  BY <1>3 DEF Init, ProgressInv, HandlerSafe

(* Whatever crashes, slow handlers and failing calls do to the pipeline, a *)
(* document is in a queue until it is saved or dead-lettered.              *)
THEOREM NothingDropped == Spec => []NoDocumentDropped
<1>1. TypeInv /\ ProgressInv /\ [Next]_vars => TypeInv' /\ ProgressInv'
  BY TypeStep, ProgressStep
<1>2. ProgressInv => NoDocumentDropped
  BY DEF ProgressInv
<1> QED
  BY <1>1, <1>2, TypeInit, ProgressInit, PTL DEF Spec

-------------------------------------------------------------------------------
(***************************************************************************)
(* The order of the steps.  StepsInOrder speaks of the messages in the     *)
(* queues; a message that is no longer there may still be in the hands of  *)
(* a handler, so the invariant speaks of every message ever sent.          *)
(***************************************************************************)
OrderInv ==
  /\ \A m \in sent : \A s \in 1 .. m.step - 1 : <<m.doc, s>> \in executed
  /\ \A h \in Handlers :
       proc[h].pc \in {"record", "pass", "delete", "report"} => Executed(h)
  /\ \A d \in Docs : status[d] = Completed => \A s \in Steps : <<d, s>> \in executed

(* A handler that has executed its step has all steps up to it executed.   *)
LEMMA UpToStep ==
  ASSUME TypeInv, OrderInv, NEW h \in Handlers, Busy(h), Executed(h)
  PROVE  \A s \in 1 .. h.step : <<Doc(h), s>> \in executed
<1>1. proc[h].msg \in sent /\ proc[h].msg.step = h.step /\ h.step \in Nat
  BY HandlerTyped
<1>2. \A s \in 1 .. h.step - 1 : <<Doc(h), s>> \in executed
  BY <1>1 DEF OrderInv, Doc
<1> QED
  BY <1>1, <1>2 DEF Executed

(* The status a step writes: only the report of the last step says         *)
(* Completed.                                                              *)
LEMMA StatusStep ==
  ASSUME TypeInv, ProgressInv, OrderInv, [Next]_vars, NEW d \in Docs, status'[d] = Completed
  PROVE  \/ status[d] = Completed
         \/ \E h \in Handlers : /\ Busy(h) /\ Doc(h) = d /\ h.step = LastStep /\ Executed(h)
<1> USE DEF vars, queues, record
<1>1. ASSUME NEW h \in Handlers, NEW x, x # Completed, SetStatus(Doc(h), x)
      PROVE  status[d] = Completed
  BY <1>1 DEF SetStatus, TypeInv, TypeOK
<1>2. \A h \in Handlers : h.step # Completed /\ Error # Completed
  BY HandlerTyped
<1>3. ASSUME NEW h \in Handlers, Report(h)
      PROVE  \/ status[d] = Completed
             \/ Busy(h) /\ Doc(h) = d /\ h.step = LastStep /\ Executed(h)
  <2>1. Busy(h) /\ Executed(h)
    BY <1>3 DEF Report, Busy, OrderInv
  <2>2. CASE h.step = LastStep
    <3>1. Doc(h) = d \/ status'[d] = status[d]
      BY <1>3 DEF Report, SetStatus, TypeInv, TypeOK
    <3> QED
      BY <2>1, <2>2, <3>1
  <2>3. CASE h.step # LastStep
    BY <1>1, <1>2, <1>3, <2>3 DEF Report
  <2> QED
    BY <2>2, <2>3
<1>4. ASSUME NEW h \in Handlers, Start(h) \/ Execute(h) \/ RecordError(h) \/ Rereport(h)
      PROVE  status[d] = Completed
  <2>1. SetStatus(Doc(h), h.step) \/ SetStatus(Doc(h), Error) \/ UNCHANGED status
    BY <1>4 DEF Start, Execute, RecordError, Rereport, WriteError
  <2> QED
    BY <1>1, <1>2, <2>1
<1>5. CASE UNCHANGED status
  BY <1>5
<1> QED
  BY <1>3, <1>4, <1>5
     DEF Next, HandlerStep, Receive, PollEmpty, Record, Pass, Delete, TryFails, MarkFailed, Retry,
         Bury, Unqueue, Dies, Restart, Crash, Expire

(* What is executed stays executed, and only Execute of a handler brings   *)
(* it to the phases after.                                                 *)
LEMMA ExecutedStep ==
  ASSUME TypeInv, [Next]_vars
  PROVE  executed \subseteq executed'
BY DEF Next, HandlerStep, vars, Receive, PollEmpty, Start, Execute, Record, Pass, Delete, Report,
       TryFails, MarkFailed, RecordError, Retry, Bury, Unqueue, Rereport, Dies, Restart, Crash,
       Expire

(* A message is only sent by Pass.                                         *)
LEMMA SentStep ==
  ASSUME TypeInv, OrderInv, [Next]_vars, NEW m \in sent'
  PROVE  m \in sent \/ \E h \in Handlers : /\ Busy(h) /\ Executed(h)
                                          /\ m.doc = Doc(h) /\ m.step = h.step + 1
<1> USE DEF vars, queues
<1>1. CASE UNCHANGED sent
  BY <1>1
<1>2. ASSUME NEW h \in Handlers, Pass(h)
      PROVE  m \in sent \/ (Busy(h) /\ Executed(h) /\ m.doc = Doc(h) /\ m.step = h.step + 1)
  <2>1. Busy(h) /\ Executed(h)
    BY <1>2 DEF Pass, Busy, OrderInv
  <2>2. sent' = sent \/ \E c \in Copies :
          sent' = sent \cup {[doc |-> Doc(h), step |-> h.step + 1, copy |-> c]}
    BY <1>2 DEF Pass, Send
  <2> QED
    BY <2>1, <2>2
<1> QED
  BY <1>1, <1>2
     DEF Next, HandlerStep, Receive, PollEmpty, Start, Execute, Record, Delete, Remove, Report,
         TryFails, MarkFailed, RecordError, Retry, Bury, Unqueue, Rereport, Dies, Restart, Crash,
         Expire

LEMMA OrderStep ==
  ASSUME TypeInv, ProgressInv, OrderInv, ProgressInv', [Next]_vars
  PROVE  OrderInv'
<1>1. executed \subseteq executed'
  BY ExecutedStep
<1>2. ASSUME NEW m \in sent', NEW s \in 1 .. m.step - 1
      PROVE  <<m.doc, s>> \in executed'
  <2>1. CASE m \in sent
    BY <1>1, <1>2, <2>1 DEF OrderInv
  <2>2. ASSUME NEW h \in Handlers, Busy(h), Executed(h), m.doc = Doc(h), m.step = h.step + 1
        PROVE  <<m.doc, s>> \in executed
    <3>1. s \in 1 .. h.step
      BY <1>2, <2>2, HandlerTyped
    <3> QED
      BY <2>2, <3>1, UpToStep
  <2> QED
    BY <1>1, <1>2, <2>1, <2>2, SentStep
<1>3. \A h \in Handlers :
        proc'[h].pc \in {"record", "pass", "delete", "report"} => Executed(h)'
  BY DEF ProgressInv, HandlerSafe
<1>4. ASSUME NEW d \in Docs, status'[d] = Completed, NEW s \in Steps
      PROVE  <<d, s>> \in executed'
  <2>1. CASE status[d] = Completed
    BY <1>1, <1>4, <2>1 DEF OrderInv
  <2>2. ASSUME NEW h \in Handlers, Busy(h), Doc(h) = d, h.step = LastStep, Executed(h)
        PROVE  <<d, s>> \in executed
    BY <1>4, <2>2, UpToStep
  <2> QED
    BY <1>1, <1>4, <2>1, <2>2, StatusStep
<1> QED
  BY <1>2, <1>3, <1>4 DEF OrderInv

LEMMA OrderInit == Init => OrderInv
<1> SUFFICES ASSUME Init
             PROVE  OrderInv
  OBVIOUS
<1>1. \A m \in sent : 1 .. m.step - 1 = {}
  BY DEF Init, FirstMessages
<1>2. \A d \in Docs : status[d] # Completed
  BY ConstantsAssumption DEF Init
<1> QED
  BY <1>1, <1>2 DEF Init, OrderInv

(* No step runs on a document whose earlier steps have not all succeeded,  *)
(* and only a document that went through all of them is Completed.         *)
THEOREM InOrder == Spec => []StepsInOrder
<1>1. TypeInv /\ ProgressInv /\ OrderInv /\ [Next]_vars => TypeInv' /\ ProgressInv' /\ OrderInv'
  BY TypeStep, ProgressStep, OrderStep
<1>2. TypeInv /\ OrderInv => StepsInOrder
  BY DEF TypeInv, TypeOK, OrderInv, StepsInOrder
<1> QED
  BY <1>1, <1>2, TypeInit, ProgressInit, OrderInit, PTL DEF Spec

-------------------------------------------------------------------------------
(***************************************************************************)
(* Without faults of the environment.  A handler owns its message until it *)
(* has removed it from the queue: the message is leased and no other       *)
(* handler owns it.  So each document moves through the steps with one     *)
(* message per step, the front is the one with the greatest step, and an   *)
(* older one that is still in a queue is about to be deleted.  What is     *)
(* dead-lettered is the front, and nothing moves it on after that.         *)
(***************************************************************************)
Owner(h) == Busy(h) /\ proc[h].pc \notin {"report", "rereport"}

(* The step of the handler has not been passed on (and, when undisturbed,  *)
(* an error is always one of the step itself).                             *)
Unpassed(h) == proc[h].pc \in {"start", "execute", "record", "pass"} \cup ErrorPhases

HeldAt(m, phases) == \E h \in Handlers : proc[h].msg = m /\ proc[h].pc \in phases

Leases ==
  /\ \A h \in Handlers : Owner(h) => Holds(h) /\ proc[h].msg \in hidden
  /\ \A h, k \in Handlers : Owner(h) /\ Owner(k) /\ proc[h].msg = proc[k].msg => h = k

Front ==
  /\ \A m, n \in sent : m.doc = n.doc /\ m.step = n.step => m = n
  /\ \A h \in Handlers : Unpassed(h) => \A m \in sent : m.doc = Doc(h) => m.step <= h.step
  /\ \A m \in queue, n \in sent : n.doc = m.doc /\ n.step > m.step => HeldAt(m, {"delete"})

BuriedForGood(d, s) ==
  /\ ~Saved(d)
  /\ \E m \in sent : m.doc = d /\ m.step = s
  /\ \A m \in sent : m.doc = d => m.step <= s
  /\ \A m \in queue : m.doc = d /\ m.step = s => HeldAt(m, {"unqueue"})

Ends ==
  /\ \A m \in queue : m.step = LastStep /\ Saved(m.doc) => HeldAt(m, {"record", "pass", "delete"})
  /\ \A e \in executed : \E m \in sent : m.doc = e[1] /\ m.step = e[2]
  /\ \A h \in Handlers : proc[h].pc \in {"unqueue", "rereport"} => <<Doc(h), h.step>> \in dead
  /\ \A d \in Docs, s \in Steps : <<d, s>> \in dead => BuriedForGood(d, s)
  /\ \A d \in Docs : Saved(d) => d \in results

FlowInv == Leases /\ Front /\ Ends

(* A fault spends some of the budget for good.                             *)
LEMMA FaultsDisturb ==
  ASSUME TypeInv, Undisturbed'
  PROVE  \A f : ~Occurs(f)
BY ConstantsAssumption DEF TypeInv, TypeOK, Undisturbed, Occurs

LEMMA StaysDisturbed ==
  ASSUME TypeInv, [Next]_vars, Undisturbed'
  PROVE  Undisturbed
<1>1. \A f : ~Occurs(f)
  BY FaultsDisturb
<1>2. CASE UNCHANGED vars
  BY <1>2 DEF vars, Undisturbed
<1>3. budget' = budget
  BY <1>1, <1>2
     DEF Next, HandlerStep, vars, Receive, PollEmpty, Start, Execute, Record, Pass, Delete,
         Report, TryFails, MarkFailed, RecordError, Retry, Bury, Unqueue, Rereport, Dies,
         Restart, Crash, Expire
<1> QED
  BY <1>3 DEF Undisturbed

(* A handler that changes its phase keeps its message.                     *)
LEMMA GotoKeeps ==
  ASSUME TypeInv, NEW h \in Handlers, NEW p, Goto(h, p)
  PROVE  /\ proc'[h].pc = p /\ proc'[h].msg = proc[h].msg /\ proc'[h].n = proc[h].n
         /\ Doc(h)' = Doc(h)
         /\ \A k \in Handlers \ {h} : proc'[k] = proc[k]
<1>1. proc[h] \in [pc : Phases, msg : Messages \cup {NoMsg}, n : Nat]
  BY DEF TypeInv, TypeOK
<1>2. proc'[h] = [proc[h] EXCEPT !.pc = p] /\ proc'[h].pc = p
  BY GotoMoves
<1>3. proc'[h].msg = proc[h].msg /\ proc'[h].n = proc[h].n
  BY <1>1, <1>2
<1> QED
  BY <1>2, <1>3, GotoMoves DEF Doc

-------------------------------------------------------------------------------
(* Leases.  They are kept when nothing but the owner's phase changes, ...  *)
LEMMA LeasesKept ==
  ASSUME Leases, NEW h \in Handlers, \A k \in Handlers \ {h} : proc'[k] = proc[k],
         queue \subseteq queue', hidden \subseteq hidden', count' = count,
         Owner(h)' => Owner(h) /\ proc'[h].msg = proc[h].msg /\ proc'[h].n = proc[h].n
  PROVE  Leases'
<1>1. \A k \in Handlers : Owner(k)' => /\ Owner(k) /\ proc'[k].msg = proc[k].msg
                                      /\ proc'[k].n = proc[k].n
  BY DEF Owner, Busy
<1> QED
  BY <1>1 DEF Leases, Holds

(* ... when the owner removes its message, ...                             *)
LEMMA LeasesRemoved ==
  ASSUME Leases, NEW h \in Handlers, \A k \in Handlers \ {h} : proc'[k] = proc[k],
         Owner(h), ~Owner(h)', Remove(proc[h].msg)
  PROVE  Leases'
<1>1. \A k \in Handlers : Owner(k)' => k # h /\ Owner(k) /\ proc'[k] = proc[k]
  BY DEF Owner, Busy
<1>2. \A k \in Handlers : Owner(k)' => proc[k].msg # proc[h].msg
  BY <1>1 DEF Leases
<1> QED
  BY <1>1, <1>2 DEF Leases, Holds, Remove

(* ... when a visible message is received, and when a lease nobody uses    *)
(* runs out.                                                               *)
LEMMA LeasesReceived ==
  ASSUME TypeInv, Leases, NEW h \in Handlers, NEW m \in queue, Receive(h, m)
  PROVE  Leases'
<1>1. /\ hidden' = hidden \cup {m} /\ queue' = queue /\ m \notin hidden /\ m \in Messages
      /\ count[m] \in Nat /\ proc[h].pc = "poll"
  BY DEF Receive, TypeInv, TypeOK
<1>2. CASE proc' = [proc EXCEPT ![h] = Down] /\ UNCHANGED count
  <2>1. proc'[h].pc \in {"poll", "down"} /\ \A k \in Handlers \ {h} : proc'[k] = proc[k]
    BY <1>2, IdleMoves
  <2> QED
    BY <1>1, <1>2, <2>1, LeasesKept DEF Owner, Busy
<1>3. CASE /\ count' = [count EXCEPT ![m] = @ + 1]
           /\ proc' = [proc EXCEPT ![h] = [pc |-> "start", msg |-> m, n |-> count[m] + 1]]
  <2> DEFINE r == [pc |-> "start", msg |-> m, n |-> count[m] + 1]
  <2>1. r.msg = m /\ r.n = count[m] + 1
    OBVIOUS
  <2>2. proc' = [proc EXCEPT ![h] = r]
    BY <1>3
  <2> HIDE DEF r
  <2>3. proc'[h] = r /\ \A k \in Handlers \ {h} : proc'[k] = proc[k]
    BY <2>2, AssignMoves
  <2>4. count'[m] = count[m] + 1 /\ \A x \in Messages \ {m} : count'[x] = count[x]
    BY <1>1, <1>3 DEF TypeInv, TypeOK
  <2>5. \A k \in Handlers \ {h} : Owner(k)' => /\ Owner(k) /\ proc'[k] = proc[k]
                                               /\ proc[k].msg \in Messages /\ proc[k].msg # m
    BY <1>1, <2>3 DEF Owner, Busy, Leases, TypeInv, TypeOK
  <2>6. Holds(h)' /\ proc'[h].msg = m
    BY <1>1, <2>1, <2>3, <2>4 DEF Holds
  <2>7. \A k \in Handlers \ {h} : Owner(k)' => Holds(k)' /\ proc'[k].msg \in hidden'
    BY <1>1, <2>4, <2>5 DEF Leases, Holds
  <2> QED
    BY <1>1, <2>5, <2>6, <2>7 DEF Leases
<1> QED
  BY <1>2, <1>3 DEF Receive

LEMMA LeasesExpired ==
  ASSUME TypeInv, Leases, Undisturbed', NEW m \in hidden, Expire(m)
  PROVE  Leases'
<1>1. ~Held(m) /\ hidden' = hidden \ {m} /\ UNCHANGED <<queue, count, proc>>
  BY FaultsDisturb DEF Expire
<1>2. \A k \in Handlers : Owner(k) => proc[k].msg # m
  BY <1>1 DEF Leases, Held, Holds
<1> QED
  BY <1>1, <1>2 DEF Leases, Holds, Owner, Busy
-------------------------------------------------------------------------------
(* The front.  It is kept by a step that sends nothing, leaves the deletes *)
(* to come as they are and lets nobody start on a step.                    *)
LEMMA FrontKept ==
  ASSUME Front, NEW h \in Handlers, \A k \in Handlers \ {h} : proc'[k] = proc[k],
         sent' = sent, queue' \subseteq queue,
         Unpassed(h)' => Unpassed(h) /\ Doc(h)' = Doc(h),
         proc[h].pc = "delete" => proc[h].msg \notin queue'
  PROVE  Front'
<1>1. \A k \in Handlers : Unpassed(k)' => Unpassed(k) /\ Doc(k)' = Doc(k)
  BY DEF Unpassed, Doc
<1>2. \A m \in queue' : HeldAt(m, {"delete"}) => HeldAt(m, {"delete"})'
  BY DEF HeldAt
<1> QED
  BY <1>1, <1>2 DEF Front

(* A message that is received is the front: older ones are leased.         *)
LEMMA FrontReceived ==
  ASSUME TypeInv, Leases, Front, NEW h \in Handlers, NEW m \in queue, Receive(h, m)
  PROVE  Front'
<1>1. /\ queue' = queue /\ sent' = sent /\ m \notin hidden /\ m.step = h.step
      /\ proc[h].pc = "poll" /\ m \in sent /\ sent \subseteq Messages
  BY DEF Receive, TypeInv, TypeOK
<1>2. CASE proc' = [proc EXCEPT ![h] = Down]
  <2>1. proc'[h].pc \in {"poll", "down"} /\ \A k \in Handlers \ {h} : proc'[k] = proc[k]
    BY <1>2, IdleMoves
  <2> QED
    BY <1>1, <2>1, FrontKept DEF Unpassed
<1>3. CASE proc' = [proc EXCEPT ![h] = [pc |-> "start", msg |-> m, n |-> count[m] + 1]]
  <2> DEFINE r == [pc |-> "start", msg |-> m, n |-> count[m] + 1]
  <2>1. r.msg = m
    OBVIOUS
  <2>2. proc' = [proc EXCEPT ![h] = r]
    BY <1>3
  <2> HIDE DEF r
  <2>3. proc'[h] = r /\ \A k \in Handlers \ {h} : proc'[k] = proc[k]
    BY <2>2, AssignMoves
  <2>4. ~HeldAt(m, {"delete"})
    BY <1>1 DEF HeldAt, Leases, Owner, Busy
  <2>5. \A n \in sent : n.doc = m.doc => n.step <= m.step
    BY <1>1, <2>4 DEF Front
  <2>6. \A k \in Handlers \ {h} : Unpassed(k)' => Unpassed(k) /\ Doc(k)' = Doc(k)
    BY <2>3 DEF Unpassed, Doc
  <2>7. \A x \in queue : HeldAt(x, {"delete"}) => HeldAt(x, {"delete"})'
    BY <1>1, <2>3 DEF HeldAt
  <2>8. Doc(h)' = m.doc
    BY <2>1, <2>3 DEF Doc
  <2> QED
    BY <1>1, <2>5, <2>6, <2>7, <2>8 DEF Front
<1> QED
  BY <1>2, <1>3 DEF Receive

(* Nobody else is at the front with a handler that is about to pass on.    *)
LEMMA AloneAtFront ==
  ASSUME TypeInv, FlowInv, NEW h \in Handlers, Owner(h), Unpassed(h), proc[h].pc # "unqueue",
         NEW k \in Handlers \ {h}, Unpassed(k), Doc(k) = Doc(h)
  PROVE  FALSE
<1>1. /\ Busy(h) /\ Busy(k) /\ h.step \in Nat /\ k.step \in Nat
      /\ proc[h].msg \in sent /\ proc[h].msg.step = h.step
      /\ proc[k].msg \in sent /\ proc[k].msg.step = k.step
      /\ proc[h].msg.doc = Doc(h) /\ proc[k].msg.doc = Doc(k)
      /\ Doc(h) \in Docs /\ h.step \in Steps
  BY HandlerTyped DEF Unpassed, Busy, Doc
<1>2. h.step <= k.step /\ k.step <= h.step
  BY <1>1 DEF FlowInv, Front
<1>3. h.step = k.step
  BY <1>1, <1>2
<1>4. proc[h].msg = proc[k].msg
  BY <1>1, <1>3 DEF FlowInv, Front
<1>5. CASE Owner(k)
  BY <1>4, <1>5 DEF FlowInv, Leases
<1>6. CASE proc[k].pc = "rereport"
  <2>1. <<Doc(h), h.step>> \in dead
    BY <1>3, <1>6 DEF FlowInv, Ends
  <2>2. proc[h].msg \in queue
    BY DEF FlowInv, Leases, Holds
  <2>3. HeldAt(proc[h].msg, {"unqueue"})
    BY <1>1, <2>1, <2>2 DEF FlowInv, Ends, BuriedForGood
  <2>4. PICK x \in Handlers : proc[x].msg = proc[h].msg /\ proc[x].pc = "unqueue"
    BY <2>3 DEF HeldAt
  <2>5. Owner(x)
    BY <2>4 DEF Owner, Busy
  <2> QED
    BY <2>4, <2>5 DEF FlowInv, Leases
<1> QED
  BY <1>1, <1>5, <1>6 DEF Owner, Unpassed, Busy

LEMMA FrontPassed ==
  ASSUME TypeInv, FlowInv, NEW h \in Handlers, Pass(h)
  PROVE  Front'
<1>1. /\ proc[h].pc = "pass" /\ Goto(h, "delete") /\ Owner(h) /\ Unpassed(h) /\ Busy(h)
  BY DEF Pass, Owner, Busy, Unpassed
<1>2. /\ proc'[h].pc = "delete" /\ proc'[h].msg = proc[h].msg
      /\ \A k \in Handlers \ {h} : proc'[k] = proc[k]
  BY <1>1, GotoKeeps
<1>3. /\ proc[h].msg \in sent /\ proc[h].msg.step = h.step /\ h.step \in Nat
      /\ proc[h].msg.doc = Doc(h) /\ proc[h].msg \in queue /\ sent \subseteq Messages
      /\ queue \subseteq sent
  BY <1>1, HandlerTyped DEF Doc, FlowInv, Leases, Holds, TypeInv, TypeOK
<1>4. \A x \in queue : HeldAt(x, {"delete"}) => HeldAt(x, {"delete"})'
  BY <1>1, <1>2 DEF HeldAt
<1>6. \A k \in Handlers : Unpassed(k)' => k # h /\ Unpassed(k) /\ Doc(k)' = Doc(k)
  BY <1>2 DEF Unpassed, Doc
<1>7. \A k \in Handlers : Unpassed(k)' => Doc(k) # Doc(h)
  BY <1>1, <1>6, AloneAtFront
<1>8. CASE h.step = LastStep
  <2>1. UNCHANGED <<queue, sent>>
    BY <1>8 DEF Pass, queues
  <2> QED
    BY <1>4, <1>6, <2>1 DEF FlowInv, Front
<1>9. CASE h.step # LastStep
  <2>1. PICK c \in Copies : Send([doc |-> Doc(h), step |-> h.step + 1, copy |-> c])
    BY <1>9 DEF Pass
  <2> DEFINE new == [doc |-> Doc(h), step |-> h.step + 1, copy |-> c]
  <2>2. /\ new.doc = Doc(h) /\ new.step = h.step + 1
        /\ sent' = sent \cup {new} /\ queue' = queue \cup {new}
    BY <2>1 DEF Send
  <2> HIDE DEF new
  <2>3. \A m \in sent : m.doc = Doc(h) => m.step <= h.step /\ m.step \in Nat
    BY <1>1, <1>3 DEF FlowInv, Front
  <2>4. \A m, n \in sent' : m.doc = n.doc /\ m.step = n.step => m = n
    BY <1>3, <2>2, <2>3 DEF FlowInv, Front
  <2>5. \A k \in Handlers : Unpassed(k)' => \A m \in sent' : m.doc = Doc(k)' => m.step <= k.step
    BY <1>6, <1>7, <2>2 DEF FlowInv, Front
  <2>6. ASSUME NEW m \in queue', NEW n \in sent', n.doc = m.doc, n.step > m.step
        PROVE  HeldAt(m, {"delete"})'
    <3>1. m \in queue
      BY <1>3, <2>2, <2>3, <2>6
    <3>2. CASE n \in sent
      BY <1>4, <2>6, <3>1, <3>2 DEF FlowInv, Front
    <3>3. CASE n = new
      <4>1. m \in sent /\ m.doc = Doc(h)
        BY <1>3, <2>2, <2>6, <3>1, <3>3
      <4>2. m.step <= h.step /\ m.step \in Nat
        BY <2>3, <4>1
      <4>3. CASE m.step = h.step
        <5>1. m = proc[h].msg
          BY <1>3, <4>1, <4>3 DEF FlowInv, Front
        <5> QED
          BY <1>2, <5>1 DEF HeldAt
      <4>4. CASE m.step < h.step
        BY <1>3, <1>4, <3>1, <4>1, <4>4 DEF FlowInv, Front
      <4> QED
        BY <1>3, <4>2, <4>3, <4>4
    <3> QED
      BY <2>2, <2>6, <3>2, <3>3
  <2> QED
    BY <2>4, <2>5, <2>6 DEF Front
<1> QED
  BY <1>8, <1>9
-------------------------------------------------------------------------------
(* How a document ends.  Most steps leave it open.                         *)
LEMMA EndsKept ==
  ASSUME Ends, NEW h \in Handlers, \A k \in Handlers \ {h} : proc'[k] = proc[k],
         queue' \subseteq queue, UNCHANGED <<sent, executed, dead, results>>,
         proc[h].pc \in {"record", "pass", "delete"} =>
           \/ proc'[h].msg = proc[h].msg /\ proc'[h].pc \in {"record", "pass", "delete"}
           \/ proc[h].msg \notin queue',
         proc[h].pc = "unqueue" => proc[h].msg \notin queue',
         proc'[h].pc \in {"unqueue", "rereport"} =>
           proc[h].pc \in {"unqueue", "rereport"} /\ Doc(h)' = Doc(h)
  PROVE  Ends'
<1>1. \A m \in queue' : HeldAt(m, {"record", "pass", "delete"})
                          => HeldAt(m, {"record", "pass", "delete"})'
  BY DEF HeldAt
<1>2. \A m \in queue' : HeldAt(m, {"unqueue"}) => HeldAt(m, {"unqueue"})'
  BY DEF HeldAt
<1>3. \A k \in Handlers : proc'[k].pc \in {"unqueue", "rereport"} =>
        proc[k].pc \in {"unqueue", "rereport"} /\ Doc(k)' = Doc(k)
  BY DEF Doc
<1>4. \A d : Saved(d)' <=> Saved(d)
  BY DEF Saved
<1>5. \A d \in Docs, s \in Steps : BuriedForGood(d, s) => BuriedForGood(d, s)'
  BY <1>2, <1>4 DEF BuriedForGood
<1> QED
  BY <1>1, <1>3, <1>4, <1>5 DEF Ends

(* A handler that owns the front and has not executed the step works on a  *)
(* document that is not saved, and is not buried unless it buries it.      *)
LEMMA NotSaved ==
  ASSUME TypeInv, FlowInv, NEW h \in Handlers, Owner(h), Unpassed(h),
         proc[h].pc \notin {"record", "pass"}
  PROVE  ~Saved(Doc(h))
<1>1. /\ proc[h].msg \in queue /\ proc[h].msg \in sent /\ proc[h].msg.step = h.step
      /\ proc[h].msg.doc = Doc(h) /\ h.step \in 1 .. LastStep /\ LastStep \in Nat
  BY HandlerTyped DEF Owner, FlowInv, Leases, Holds, Doc
<1>2. SUFFICES ASSUME Saved(Doc(h)) PROVE FALSE
  OBVIOUS
<1>3. PICK m \in sent : m.doc = Doc(h) /\ m.step = LastStep
  BY <1>2 DEF FlowInv, Ends, Saved
<1>4. h.step = LastStep
  BY <1>1, <1>3 DEF FlowInv, Front
<1>5. PICK k \in Handlers : /\ proc[k].msg = proc[h].msg
                            /\ proc[k].pc \in {"record", "pass", "delete"}
  BY <1>1, <1>2, <1>4 DEF FlowInv, Ends, HeldAt
<1>6. Owner(k)
  BY <1>5 DEF Owner, Busy
<1>7. k = h
  BY <1>5, <1>6 DEF FlowInv, Leases
<1> QED
  BY <1>5, <1>7 DEF Unpassed

LEMMA NotBuried ==
  ASSUME TypeInv, FlowInv, NEW h \in Handlers, Owner(h), Unpassed(h),
         proc[h].pc # "unqueue", NEW s \in Steps
  PROVE  <<Doc(h), s>> \notin dead
<1>1. /\ proc[h].msg \in queue /\ proc[h].msg \in sent /\ proc[h].msg.step = h.step
      /\ proc[h].msg.doc = Doc(h) /\ h.step \in Nat /\ Doc(h) \in Docs
      /\ sent \subseteq Messages
  BY HandlerTyped DEF Owner, FlowInv, Leases, Holds, Doc, TypeInv, TypeOK
<1>2. SUFFICES ASSUME <<Doc(h), s>> \in dead PROVE FALSE
  OBVIOUS
<1>3. BuriedForGood(Doc(h), s)
  BY <1>1, <1>2 DEF FlowInv, Ends
<1>4. h.step <= s /\ s <= h.step /\ s \in Nat
  BY <1>1, <1>3 DEF BuriedForGood, FlowInv, Front
<1>5. HeldAt(proc[h].msg, {"unqueue"})
  BY <1>1, <1>3, <1>4 DEF BuriedForGood
<1>6. PICK k \in Handlers : proc[k].msg = proc[h].msg /\ proc[k].pc = "unqueue"
  BY <1>5 DEF HeldAt
<1>7. Owner(k)
  BY <1>6 DEF Owner, Busy
<1> QED
  BY <1>6, <1>7 DEF FlowInv, Leases

(* What a document's saving and burying need for the others.               *)
LEMMA EndsExecuted ==
  ASSUME TypeInv, FlowInv, NEW h \in Handlers, Execute(h)
  PROVE  Ends'
<1>1. /\ proc[h].pc = "execute" /\ Goto(h, "record") /\ Owner(h) /\ Unpassed(h) /\ Busy(h)
      /\ UNCHANGED <<queue, sent, dead>> /\ executed' = executed \cup {<<Doc(h), h.step>>}
      /\ results' = IF h.step = LastStep THEN results \cup {Doc(h)} ELSE results
  BY DEF Execute, Owner, Busy, Unpassed, queues, record
<1>2. /\ proc'[h].pc = "record" /\ proc'[h].msg = proc[h].msg
      /\ \A k \in Handlers \ {h} : proc'[k] = proc[k]
  BY <1>1, GotoKeeps
<1>3. /\ proc[h].msg \in sent /\ proc[h].msg.step = h.step /\ h.step \in Steps
      /\ proc[h].msg.doc = Doc(h) /\ proc[h].msg \in queue /\ queue \subseteq sent
  BY <1>1, HandlerTyped DEF Doc, FlowInv, Leases, Holds, TypeInv, TypeOK
<1>4. \A d : Saved(d)' <=> Saved(d) \/ (d = Doc(h) /\ h.step = LastStep)
  BY <1>1 DEF Saved
<1>5. ASSUME NEW m \in queue', m.step = LastStep, Saved(m.doc)'
      PROVE  HeldAt(m, {"record", "pass", "delete"})'
  <2>1. CASE Saved(m.doc)
    <3>1. PICK k \in Handlers : proc[k].msg = m /\ proc[k].pc \in {"record", "pass", "delete"}
      BY <1>1, <1>5, <2>1 DEF FlowInv, Ends, HeldAt
    <3>2. proc'[k] = proc[k]
      BY <1>1, <1>2, <3>1
    <3> QED
      BY <3>1, <3>2 DEF HeldAt
  <2>2. CASE m.doc = Doc(h) /\ h.step = LastStep
    <3>1. m = proc[h].msg
      BY <1>1, <1>3, <1>5, <2>2 DEF FlowInv, Front
    <3> QED
      BY <1>2, <3>1 DEF HeldAt
  <2> QED
    BY <1>4, <1>5, <2>1, <2>2
<1>6. \A e \in executed' : \E m \in sent' : m.doc = e[1] /\ m.step = e[2]
  BY <1>1, <1>3 DEF FlowInv, Ends
<1>7. \A k \in Handlers : proc'[k].pc \in {"unqueue", "rereport"} =>
        <<Doc(k), k.step>>' \in dead'
  BY <1>1, <1>2 DEF FlowInv, Ends, Doc
<1>8. ASSUME NEW d \in Docs, NEW s \in Steps, <<d, s>> \in dead'
      PROVE  BuriedForGood(d, s)'
  <2>1. d # Doc(h) /\ BuriedForGood(d, s)
    BY <1>1, <1>8, NotBuried DEF FlowInv, Ends
  <2>2. \A m \in queue : HeldAt(m, {"unqueue"}) => HeldAt(m, {"unqueue"})'
    BY <1>1, <1>2 DEF HeldAt
  <2> QED
    BY <1>1, <1>4, <2>1, <2>2 DEF BuriedForGood
<1>9. \A d \in Docs : Saved(d)' => d \in results'
  BY <1>1, <1>4 DEF FlowInv, Ends
<1> QED
  BY <1>5, <1>6, <1>7, <1>8, <1>9 DEF Ends

LEMMA EndsPassed ==
  ASSUME TypeInv, FlowInv, NEW h \in Handlers, Pass(h)
  PROVE  Ends'
<1>1. /\ proc[h].pc = "pass" /\ Goto(h, "delete") /\ Owner(h) /\ Unpassed(h) /\ Busy(h)
      /\ UNCHANGED <<executed, dead, results>>
  BY DEF Pass, Owner, Busy, Unpassed, record
<1>2. /\ proc'[h].pc = "delete" /\ proc'[h].msg = proc[h].msg
      /\ \A k \in Handlers \ {h} : proc'[k] = proc[k]
  BY <1>1, GotoKeeps
<1>3. h.step \in Steps /\ Doc(h) \in Docs /\ LastStep \in Nat
  BY <1>1, HandlerTyped
<1>4. CASE h.step = LastStep
  <2>1. UNCHANGED <<queue, sent>>
    BY <1>4 DEF Pass, queues
  <2> QED
    BY <1>1, <1>2, <2>1, EndsKept DEF FlowInv
<1>5. CASE h.step # LastStep
  <2>1. PICK c \in Copies : Send([doc |-> Doc(h), step |-> h.step + 1, copy |-> c])
    BY <1>5 DEF Pass
  <2> DEFINE new == [doc |-> Doc(h), step |-> h.step + 1, copy |-> c]
  <2>2. /\ new.doc = Doc(h) /\ new.step = h.step + 1
        /\ sent' = sent \cup {new} /\ queue' = queue \cup {new}
    BY <2>1 DEF Send
  <2> HIDE DEF new
  <2>3. ~Saved(Doc(h))
    <3>1. SUFFICES ASSUME Saved(Doc(h)) PROVE FALSE
      OBVIOUS
    <3>2. PICK m \in sent : m.doc = Doc(h) /\ m.step = LastStep
      BY <3>1 DEF FlowInv, Ends, Saved
    <3> QED
      BY <1>1, <1>3, <1>5, <3>2 DEF FlowInv, Front
  <2>4. \A d : Saved(d)' <=> Saved(d)
    BY <1>1 DEF Saved
  <2>5. \A m \in queue : HeldAt(m, {"record", "pass", "delete"})
                            => HeldAt(m, {"record", "pass", "delete"})'
    BY <1>2 DEF HeldAt
  <2>6. \A m \in queue : HeldAt(m, {"unqueue"}) => HeldAt(m, {"unqueue"})'
    BY <1>1, <1>2 DEF HeldAt
  <2>7. \A m \in queue' : m.step = LastStep /\ Saved(m.doc)'
                             => HeldAt(m, {"record", "pass", "delete"})'
    BY <2>2, <2>3, <2>4, <2>5 DEF FlowInv, Ends
  <2>8. \A k \in Handlers : proc'[k].pc \in {"unqueue", "rereport"} =>
          <<Doc(k), k.step>>' \in dead'
    BY <1>1, <1>2 DEF FlowInv, Ends, Doc
  <2>9. ASSUME NEW d \in Docs, NEW s \in Steps, <<d, s>> \in dead'
        PROVE  BuriedForGood(d, s)'
    <3>1. d # Doc(h) /\ BuriedForGood(d, s)
      BY <1>1, <2>9, NotBuried DEF FlowInv, Ends
    <3> QED
      BY <2>2, <2>4, <2>6, <3>1 DEF BuriedForGood
  <2>10. \A e \in executed' : \E m \in sent' : m.doc = e[1] /\ m.step = e[2]
    BY <1>1, <2>2 DEF FlowInv, Ends
  <2> QED
    BY <1>1, <2>4, <2>7, <2>8, <2>9, <2>10 DEF FlowInv, Ends
<1> QED
  BY <1>4, <1>5
(* The error path takes results away, but not those of a saved document.   *)
LEMMA EndsErrorWritten ==
  ASSUME TypeInv, FlowInv, NEW h \in Handlers, RecordError(h) \/ Rereport(h)
  PROVE  Ends'
<1>1. /\ UNCHANGED <<queue, sent, executed, dead>> /\ Busy(h)
      /\ proc[h].pc \in {"error", "rereport"} /\ results' = results \ {Doc(h)}
  BY DEF RecordError, Rereport, WriteError, queues, Busy
<1>2. /\ proc'[h].pc \in {"bury", "retry", "poll", "down"}
      /\ \A k \in Handlers \ {h} : proc'[k] = proc[k]
  <2>1. CASE RecordError(h)
    BY <2>1, GotoKeeps DEF RecordError
  <2>2. CASE Rereport(h)
    BY <2>2, IdleMoves DEF Rereport
  <2> QED
    BY <2>1, <2>2
<1>3. ~Saved(Doc(h))
  <2>1. CASE proc[h].pc = "error"
    BY <2>1, NotSaved DEF Owner, Unpassed, Busy
  <2>2. CASE proc[h].pc = "rereport"
    BY <1>1, <2>2, HandlerTyped DEF FlowInv, Ends, BuriedForGood
  <2> QED
    BY <1>1, <2>1, <2>2
<1>4. \A d : Saved(d)' <=> Saved(d)
  BY <1>1 DEF Saved
<1>5. \A m \in queue : HeldAt(m, {"record", "pass", "delete"})
                         => HeldAt(m, {"record", "pass", "delete"})'
  BY <1>1, <1>2 DEF HeldAt
<1>6. \A m \in queue : HeldAt(m, {"unqueue"}) => HeldAt(m, {"unqueue"})'
  BY <1>1, <1>2 DEF HeldAt
<1>7. \A d \in Docs, s \in Steps : BuriedForGood(d, s) => BuriedForGood(d, s)'
  BY <1>1, <1>4, <1>6 DEF BuriedForGood
<1>8. \A k \in Handlers : proc'[k].pc \in {"unqueue", "rereport"} =>
        proc[k].pc \in {"unqueue", "rereport"} /\ Doc(k)' = Doc(k)
  BY <1>2 DEF Doc
<1>9. \A d \in Docs : Saved(d)' => d \in results'
  BY <1>1, <1>3, <1>4 DEF FlowInv, Ends
<1> QED
  BY <1>1, <1>4, <1>5, <1>7, <1>8, <1>9 DEF FlowInv, Ends

LEMMA EndsBuried ==
  ASSUME TypeInv, FlowInv, NEW h \in Handlers, Bury(h)
  PROVE  Ends'
<1>1. /\ proc[h].pc = "bury" /\ Goto(h, "unqueue") /\ Owner(h) /\ Unpassed(h) /\ Busy(h)
      /\ UNCHANGED <<queue, sent, executed, results>> /\ dead' = dead \cup {<<Doc(h), h.step>>}
  BY DEF Bury, Owner, Busy, Unpassed, queues, record
<1>2. /\ proc'[h].pc = "unqueue" /\ proc'[h].msg = proc[h].msg /\ Doc(h)' = Doc(h)
      /\ \A k \in Handlers \ {h} : proc'[k] = proc[k]
  BY <1>1, GotoKeeps
<1>3. /\ proc[h].msg \in sent /\ proc[h].msg.step = h.step /\ h.step \in Steps
      /\ proc[h].msg.doc = Doc(h) /\ queue \subseteq sent
  BY <1>1, HandlerTyped DEF Doc, TypeInv, TypeOK
<1>4. \A d : Saved(d)' <=> Saved(d)
  BY <1>1 DEF Saved
<1>5. \A m \in queue : HeldAt(m, {"record", "pass", "delete"})
                         => HeldAt(m, {"record", "pass", "delete"})'
  BY <1>1, <1>2 DEF HeldAt
<1>6. \A m \in queue : HeldAt(m, {"unqueue"}) => HeldAt(m, {"unqueue"})'
  BY <1>1, <1>2 DEF HeldAt
<1>7. ASSUME NEW d \in Docs, NEW s \in Steps, <<d, s>> \in dead'
      PROVE  BuriedForGood(d, s)'
  <2>1. CASE <<d, s>> \in dead
    BY <1>1, <1>4, <1>6, <2>1 DEF FlowInv, Ends, BuriedForGood
  <2>2. CASE d = Doc(h) /\ s = h.step
    <3>1. ~Saved(d)' /\ \A m \in sent' : m.doc = d => m.step <= s
      BY <1>1, <1>4, <2>2, NotSaved DEF FlowInv, Front
    <3>2. ASSUME NEW m \in queue', m.doc = d, m.step = s
          PROVE  HeldAt(m, {"unqueue"})'
      <4>1. m = proc[h].msg
        BY <1>1, <1>3, <2>2, <3>2 DEF FlowInv, Front
      <4> QED
        BY <1>2, <4>1 DEF HeldAt
    <3>3. \E m \in sent' : m.doc = d /\ m.step = s
      BY <1>1, <1>3, <2>2
    <3> QED
      BY <3>1, <3>2, <3>3 DEF BuriedForGood
  <2> QED
    BY <1>1, <1>7, <2>1, <2>2
<1>8. \A k \in Handlers : proc'[k].pc \in {"unqueue", "rereport"} =>
        <<Doc(k), k.step>>' \in dead'
  BY <1>1, <1>2 DEF FlowInv, Ends, Doc
<1> QED
  BY <1>1, <1>4, <1>5, <1>7, <1>8 DEF FlowInv, Ends

-------------------------------------------------------------------------------
(* One step per action.                                                    *)
LEMMA FlowStep ==
  ASSUME TypeInv, FlowInv, Undisturbed', [Next]_vars
  PROVE  FlowInv'
<1>0. Leases /\ Front /\ Ends /\ \A f : ~Occurs(f)
  BY FaultsDisturb DEF FlowInv
<1> USE DEF queues, record
<1>1. CASE UNCHANGED vars
  BY <1>1 DEF vars, FlowInv, Leases, Front, Ends, Owner, Busy, Holds, Unpassed, HeldAt, Doc,
              BuriedForGood, Saved
<1>2. ASSUME NEW h \in Handlers, NEW m \in queue, Receive(h, m)
      PROVE  FlowInv'
  <2>1. proc[h].pc = "poll" /\ proc'[h].pc \in {"start", "down"}
        /\ UNCHANGED <<queue, sent, executed, dead, results>>
        /\ \A k \in Handlers \ {h} : proc'[k] = proc[k]
    <3>1. CASE proc' = [proc EXCEPT ![h] = Down]
      BY <1>2, <3>1, IdleMoves DEF Receive, TypeInv, TypeOK
    <3>2. CASE proc' = [proc EXCEPT ![h] = [pc |-> "start", msg |-> m, n |-> count[m] + 1]]
      <4> DEFINE r == [pc |-> "start", msg |-> m, n |-> count[m] + 1]
      <4>1. r.pc = "start" /\ proc' = [proc EXCEPT ![h] = r]
        BY <3>2
      <4> HIDE DEF r
      <4> QED
        BY <1>2, <4>1, AssignMoves DEF Receive
    <3> QED
      BY <1>2, <3>1, <3>2 DEF Receive
  <2>2. Ends'
    BY <1>0, <2>1, EndsKept
  <2> QED
    BY <1>0, <1>2, <2>2, LeasesReceived, FrontReceived DEF FlowInv
<1>3. ASSUME NEW h \in Handlers, Start(h) \/ Record(h) \/ TryFails(h) \/ MarkFailed(h)
      PROVE  FlowInv'
  <2>1. /\ UNCHANGED <<queue, hidden, count, sent, executed, dead, results>>
        /\ \/ proc[h].pc = "start" /\ Goto(h, "execute")
           \/ proc[h].pc = "record" /\ Goto(h, "pass")
           \/ proc[h].pc = "execute" /\ Goto(h, "fail")
           \/ proc[h].pc = "fail" /\ Goto(h, "error")
    BY <1>0, <1>3 DEF Start, Record, TryFails, MarkFailed
  <2>2. /\ proc'[h].msg = proc[h].msg /\ proc'[h].n = proc[h].n /\ Doc(h)' = Doc(h)
        /\ \A k \in Handlers \ {h} : proc'[k] = proc[k]
        /\ \/ proc[h].pc = "start" /\ proc'[h].pc = "execute"
           \/ proc[h].pc = "record" /\ proc'[h].pc = "pass"
           \/ proc[h].pc = "execute" /\ proc'[h].pc = "fail"
           \/ proc[h].pc = "fail" /\ proc'[h].pc = "error"
    BY <2>1, GotoKeeps
  <2>3. Leases'
    BY <1>0, <2>1, <2>2, LeasesKept DEF Owner, Busy
  <2>4. Front'
    BY <1>0, <2>1, <2>2, FrontKept DEF Unpassed
  <2>5. Ends'
    BY <1>0, <2>1, <2>2, EndsKept
  <2> QED
    BY <2>3, <2>4, <2>5 DEF FlowInv
<1>4. ASSUME NEW h \in Handlers, Execute(h)
      PROVE  FlowInv'
  <2>1. /\ UNCHANGED <<queue, hidden, count, sent>> /\ proc[h].pc = "execute" /\ Goto(h, "record")
    BY <1>4 DEF Execute
  <2>2. /\ proc'[h].msg = proc[h].msg /\ proc'[h].n = proc[h].n /\ Doc(h)' = Doc(h)
        /\ proc'[h].pc = "record" /\ \A k \in Handlers \ {h} : proc'[k] = proc[k]
    BY <2>1, GotoKeeps
  <2>3. Leases'
    BY <1>0, <2>1, <2>2, LeasesKept DEF Owner, Busy
  <2>4. Front'
    BY <1>0, <2>1, <2>2, FrontKept DEF Unpassed
  <2> QED
    BY <1>4, <2>3, <2>4, EndsExecuted DEF FlowInv
<1>5. ASSUME NEW h \in Handlers, Pass(h)
      PROVE  FlowInv'
  <2>1. /\ UNCHANGED <<hidden, count>> /\ queue \subseteq queue'
        /\ proc[h].pc = "pass" /\ Goto(h, "delete")
    BY <1>5 DEF Pass, Send
  <2>2. /\ proc'[h].msg = proc[h].msg /\ proc'[h].n = proc[h].n
        /\ \A k \in Handlers \ {h} : proc'[k] = proc[k]
    BY <2>1, GotoKeeps
  <2>3. Leases'
    BY <1>0, <2>1, <2>2, LeasesKept DEF Owner, Busy
  <2> QED
    BY <1>5, <2>3, FrontPassed, EndsPassed DEF FlowInv
<1>6. ASSUME NEW h \in Handlers, Delete(h) \/ Unqueue(h)
      PROVE  FlowInv'
  <2>1. Owner(h) /\ Holds(h) /\ proc[h].pc \in {"delete", "unqueue"}
    BY <1>0, <1>6 DEF Delete, Unqueue, Owner, Busy, Leases
  <2>2. /\ Remove(proc[h].msg) /\ UNCHANGED <<executed, dead, results>>
        /\ \/ proc[h].pc = "delete" /\ Goto(h, "report")
           \/ proc[h].pc = "unqueue" /\ Goto(h, "rereport")
    BY <1>6, <2>1 DEF Delete, Unqueue
  <2>3. /\ Doc(h)' = Doc(h) /\ \A k \in Handlers \ {h} : proc'[k] = proc[k]
        /\ \/ proc[h].pc = "delete" /\ proc'[h].pc = "report"
           \/ proc[h].pc = "unqueue" /\ proc'[h].pc = "rereport"
    BY <2>2, GotoKeeps
  <2>4. proc[h].msg \notin queue' /\ queue' \subseteq queue /\ sent' = sent
    BY <2>2 DEF Remove
  <2>5. Leases'
    BY <1>0, <2>1, <2>2, <2>3, LeasesRemoved DEF Owner, Busy
  <2>6. Front'
    BY <1>0, <2>3, <2>4, FrontKept DEF Unpassed
  <2>7. Ends'
    BY <1>0, <2>2, <2>3, <2>4, EndsKept
  <2> QED
    BY <2>5, <2>6, <2>7 DEF FlowInv
<1>7. ASSUME NEW h \in Handlers, Report(h) \/ Retry(h) \/ Restart(h)
      PROVE  FlowInv'
  <2>1. /\ UNCHANGED <<queue, count, sent, executed, dead, results>> /\ hidden \subseteq hidden'
        /\ proc[h].pc \in {"report", "retry", "down"}
        /\ \E r \in {Poll, Down} : proc' = [proc EXCEPT ![h] = r]
    BY <1>7 DEF Report, Retry, Restart
  <2>2. /\ proc'[h].pc \in {"poll", "down"}
        /\ \A k \in Handlers \ {h} : proc'[k] = proc[k]
    BY <2>1, IdleMoves
  <2>3. Leases'
    BY <1>0, <2>1, <2>2, LeasesKept DEF Owner, Busy
  <2>4. Front'
    BY <1>0, <2>1, <2>2, FrontKept DEF Unpassed
  <2>5. Ends'
    BY <1>0, <2>1, <2>2, EndsKept
  <2> QED
    BY <2>3, <2>4, <2>5 DEF FlowInv
<1>8. ASSUME NEW h \in Handlers, RecordError(h) \/ Rereport(h) \/ Bury(h)
      PROVE  FlowInv'
  <2>1. /\ UNCHANGED <<queue, hidden, count, sent>>
        /\ \/ proc[h].pc = "error" /\ (Goto(h, "bury") \/ Goto(h, "retry"))
           \/ proc[h].pc = "bury" /\ Goto(h, "unqueue")
           \/ proc[h].pc = "rereport" /\ proc' = [proc EXCEPT ![h] = Poll]
    BY <1>8 DEF RecordError, Rereport, Bury
  <2>2. /\ \A k \in Handlers \ {h} : proc'[k] = proc[k]
        /\ \/ /\ proc[h].pc \in {"error", "bury"} /\ proc'[h].pc \in {"bury", "retry", "unqueue"}
              /\ proc'[h].msg = proc[h].msg /\ proc'[h].n = proc[h].n /\ Doc(h)' = Doc(h)
           \/ proc[h].pc = "rereport" /\ proc'[h].pc \in {"poll", "down"}
    BY <2>1, GotoKeeps, IdleMoves
  <2>3. Leases'
    BY <1>0, <2>1, <2>2, LeasesKept DEF Owner, Busy
  <2>4. Front'
    BY <1>0, <2>1, <2>2, FrontKept DEF Unpassed
  <2> QED
    BY <1>8, <2>3, <2>4, EndsErrorWritten, EndsBuried DEF FlowInv
<1>9. ASSUME NEW m \in hidden, Expire(m)
      PROVE  FlowInv'
  <2>1. UNCHANGED <<queue, sent, proc, executed, dead, results>>
    BY <1>9 DEF Expire
  <2>2. Front' /\ Ends'
    BY <1>0, <2>1 DEF Front, Ends, Unpassed, HeldAt, Doc, BuriedForGood, Saved
  <2> QED
    BY <1>0, <1>9, <2>2, LeasesExpired DEF FlowInv
<1> QED
  BY <1>0, <1>1, <1>2, <1>3, <1>4, <1>5, <1>6, <1>7, <1>8, <1>9
     DEF Next, HandlerStep, PollEmpty, Dies, Crash

LEMMA FlowInit == Init => FlowInv
<1> SUFFICES ASSUME Init
             PROVE  FlowInv
  OBVIOUS
<1>1. PICK c \in Copies : sent = FirstMessages(c) /\ queue = FirstMessages(c)
  BY DEF Init
<1>2. /\ \A m \in sent : m.step = 1 /\ m = [doc |-> m.doc, step |-> 1, copy |-> c]
      /\ \A h \in Handlers : proc[h].pc = "poll"
      /\ executed = {} /\ dead = {} /\ queue = sent
  BY <1>1 DEF Init, FirstMessages
<1>3. Leases
  BY <1>2 DEF Leases, Owner, Busy
<1>4. Front
  BY <1>2 DEF Front, Unpassed
<1>5. Ends
  BY <1>2 DEF Ends, Saved
<1> QED
  BY <1>3, <1>4, <1>5 DEF FlowInv

(* What the next theorems rest on.                                         *)
DocumentInv == TypeInv /\ ProgressInv /\ OrderInv /\ (Undisturbed => FlowInv)

LEMMA DocumentStep == DocumentInv /\ [Next]_vars => DocumentInv'
<1>1. TypeInv /\ ProgressInv /\ OrderInv /\ [Next]_vars => TypeInv' /\ ProgressInv' /\ OrderInv'
  BY TypeStep, ProgressStep, OrderStep
<1>2. DocumentInv /\ [Next]_vars /\ Undisturbed' => FlowInv'
  BY FlowStep, StaysDisturbed DEF DocumentInv
<1> QED
  BY <1>1, <1>2 DEF DocumentInv

LEMMA DocumentInit == Init => DocumentInv
BY TypeInit, ProgressInit, OrderInit, FlowInit DEF DocumentInv

(* As long as no handler is slow, crashes or loses a call, a record that   *)
(* says Completed has its results: no late write of an error path takes    *)
(* them away, however often steps failed before.                           *)
THEOREM ResultsStay == Spec => []CompletedHasResults
<1>1. DocumentInv => CompletedHasResults
  <2> SUFFICES ASSUME DocumentInv, Undisturbed, NEW d \in Docs, status[d] = Completed
               PROVE  d \in results
    BY DEF CompletedHasResults
  <2>1. LastStep \in Steps
    BY ConstantsAssumption
  <2>2. Saved(d)
    BY <2>1 DEF DocumentInv, OrderInv, Saved
  <2> QED
    BY <2>2 DEF DocumentInv, FlowInv, Ends
<1> QED
  BY <1>1, DocumentInit, DocumentStep, PTL DEF Spec

(* And what was saved is not dead-lettered, nor the other way round.       *)
THEOREM OneOfTwo == Spec => []OneOutcome
<1>1. DocumentInv => OneOutcome
  <2> SUFFICES ASSUME DocumentInv, Undisturbed, NEW d \in Docs, Saved(d), Buried(d)
               PROVE  FALSE
    BY DEF OneOutcome
  <2>1. PICK s \in Steps : <<d, s>> \in dead
    BY DEF Buried
  <2> QED
    BY <2>1 DEF DocumentInv, FlowInv, Ends, BuriedForGood
<1> QED
  BY <1>1, DocumentInit, DocumentStep, PTL DEF Spec
=================================================================================
