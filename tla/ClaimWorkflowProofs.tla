--------------------------- MODULE ClaimWorkflowProofs ---------------------------
(***************************************************************************)
(* Theorems about the workflow of a claim: the types, the record that a    *)
(* run leaves (RecordIsComplete), the outcome that the record tells        *)
(* (OutcomeAgrees) and the direction of its status (StatusForward).        *)
(***************************************************************************)
EXTENDS ClaimWorkflow, SequenceTheorems, TLAPS

-------------------------------------------------------------------------------
(* The invariant.  First what no disturbance breaks: where the executor    *)
(* can be, that a writer holds a record it read, and which events are      *)
(* still to be consumed.                                                   *)
ConPlaces == {"off", "next", "read", "write", "end"}
Updates == Seq(Statuses \cup {"comment", "time"})
Verdicts == {"none", "returned", "failed", "raised"}
ConSet == [pc : ConPlaces, todo : Updates, snap : Seq(Claim), verdict : Verdicts]

ExecPlaces == {"off", "get", "delete", "add", "tasks", "work", "write", "sent"}
ExecSet == [stage : Stages \cup {"none"}, snap : Seq(Claim), pc : ExecPlaces]

TaskPlaces == {"waiting", "upsert", "write", "poll", "fetch", "done"}
TaskStatuses == DocStatuses \cup {"exception"}
Reports == {"none", "processing", "step"}
TaskSet == [pc : TaskPlaces, status : TaskStatuses, last : Reports, snap : Seq(Claim),
            final : BOOLEAN]

Events == Stages \cup {"failed", "output"}

Creating == exec.pc \in {"get", "delete", "add"}

Created == exec.pc \in {"tasks", "work", "write", "sent"}

(* Where an executor can be, and that a writer holds the record it read.   *)
Shape ==
  /\ exec.stage = "none" <=> exec.pc = "off"
  /\ Creating \/ exec.pc = "tasks" => exec.stage = "Processing"
  /\ exec.pc = "work" => exec.stage \in Stages \ {"Processing"}
  /\ exec.pc = "write" => exec.stage \in {"Summarizing", "GapAnalysis"} /\ Len(exec.snap) = 1
  /\ exec.pc = "sent" => exec.stage \in Stages \ {"GapAnalysis"}
  /\ con.pc \in {"read", "write"} => con.todo # <<>>
  /\ con.pc = "write" => Len(con.snap) = 1
  /\ \A d \in Docs : /\ task[d].pc = "write" => Len(task[d].snap) = 1
                     /\ task[d].pc # "done" => task[d].status # "exception"

(* The event that ends the workflow comes after x.                         *)
Coming(x, event) ==
  \/ con.pc = "next" /\ inbox = <<x, event>>
  \/ con.pc \in {"read", "write"} /\ con.todo = <<x>> /\ inbox = <<event>>

Ending == exec.stage = "none" /\ con.pc # "off" /\ con.verdict = "none"

Handling == con.pc \in {"read", "write"}

Flow ==
  /\ exec.stage # "none" =>
       /\ con.pc \in {"next", "read", "write"} /\ con.verdict = "none"
       /\ con.pc = "next" => inbox = <<>> \/ inbox = <<exec.stage>>
       /\ Handling => inbox = <<>> /\ con.todo = <<exec.stage>>
  /\ Ending =>
       \E event \in {"failed", "output"} :
         \/ con.pc = "next" /\ inbox = <<event>>
         \/ \E x \in Stages : (event = "output" => x = "GapAnalysis") /\ Coming(x, event)
  /\ con.verdict # "none" => exec.stage = "none" /\ inbox = <<>> /\ con.pc # "next"
  /\ Handling /\ con.verdict = "returned" => con.todo \in {<<"Completed", "time">>, <<"time">>}
  /\ Handling /\ con.verdict = "failed" =>
       con.todo \in {<<"Failed", "comment", "time">>, <<"comment", "time">>, <<"time">>}
  /\ Handling /\ con.verdict = "raised" => con.todo = <<"time">>
  /\ con.pc = "off" => exec.stage = "none" /\ inbox = <<>>
  /\ api = "idle" => con.pc = "off" /\ ~queued
  /\ con.pc = "end" => con.verdict # "none"

Held ==
  /\ Len(records) <= 1 /\ user = <<>>
  /\ api # "done" => con.pc = "off" /\ con.verdict = "none"
  /\ api = "add" \/ exec.pc = "add" => records = <<>>
  /\ con.pc = "write" => con.snap = records /\ ~ExecutorBusy
  /\ exec.pc = "write" => exec.snap = records
  /\ \A d \in Docs : exec.pc = "tasks" /\ task[d].pc = "write" =>
       task[d].snap = records /\ \A e \in Docs : task[e].pc = "write" => e = d
  /\ records = <<>> /\ happened = {} => api # "done" \/ exec.pc = "add"

(* What the record c keeps of the documents' tasks.                        *)
Kept(c) ==
  /\ (\E d \in Docs : task[d].pc # "waiting") \/ exec.pc = "tasks" =>
       \A e \in c.docs : e.run = run
  /\ \A d \in Docs : c.named /\ task[d].pc = "done" /\ task[d].status # "exception" =>
       /\ \E e \in c.docs : e.doc = d
       /\ \A e \in c.docs : e.doc = d => e.status = task[d].status

Results ==
  /\ Creating => \A d \in Docs : task[d].pc = "waiting"
  /\ records # <<>> => Kept(records[1])

(* What the record c tells: the analyses that were made, the stage that is *)
(* running, the event that is to come and the verdict.                     *)
Waiting == inbox # <<>> \/ Handling

Analysed(c) ==
  /\ c.status \in {"GapAnalysis", "Completed"} => c.summary
  /\ c.status = "Completed" => c.gaps /\ c.named
  /\ Created => c.named
  /\ exec.stage = "GapAnalysis" => c.summary
  /\ exec.stage = "Summarizing" /\ exec.pc = "sent" => c.summary

Staged(c) ==
  /\ Creating /\ ~Waiting => c.status = "Processing"
  /\ Created => IF exec.stage # "Processing" /\ Waiting
                  THEN c.status \in Stages /\ Rank[c.status] < Rank[exec.stage]
                  ELSE c.status = exec.stage

Returning == inbox = <<"output">> \/ inbox = <<"GapAnalysis", "output">>

Ended(c) ==
  Ending =>
    /\ inbox = <<"failed">> /\ con.pc = "next" => c.status \in Stages
    /\ inbox = <<"output">> /\ con.pc = "next" => c.status = "GapAnalysis"
    /\ Returning => c.summary /\ c.gaps /\ c.named
    /\ Coming("GapAnalysis", "failed") => c.summary

Judged(c) ==
  /\ con.verdict = "failed" =>
       /\ IF Handling /\ con.todo = <<"Failed", "comment", "time">>
            THEN c.status \in Stages ELSE c.status = "Failed"
       /\ (Handling /\ con.todo # <<"time">>) \/ c.comment = "failure"
  /\ con.verdict = "returned" =>
       /\ c.summary /\ c.gaps /\ c.named
       /\ c.status = IF Handling /\ con.todo = <<"Completed", "time">>
                       THEN "GapAnalysis" ELSE "Completed"

Told(c) == Analysed(c) /\ Staged(c) /\ Ended(c) /\ Judged(c)

Progress ==
  /\ Created => records # <<>>
  /\ Ending /\ Returning => records # <<>>
  /\ con.verdict = "returned" => records # <<>>
  /\ records # <<>> => Told(records[1])

Types ==
  /\ records \in Seq(Claim)
  /\ queued \in BOOLEAN /\ attempts \in Nat /\ run \in Nat
  /\ api \in {"idle", "get", "delete", "add", "done"}
  /\ user \in Seq(Claim) /\ Len(user) <= 1
  /\ con \in ConSet /\ inbox \in Seq(Events) /\ exec \in ExecSet
  /\ task \in [Docs -> TaskSet]
  /\ budget \in 0 .. Budget /\ happened \subseteq Env

Steady == Held /\ Results /\ Progress

Sound == Undisturbed => Steady

ClaimInv == Types /\ Shape /\ Flow /\ Sound

-------------------------------------------------------------------------------
(* Short sequences: events, updates, and the collection.                   *)
LEMMA OneOrTwo ==
  ASSUME NEW x, NEW y, NEW z
  PROVE  /\ Tail(<<x>>) = <<>> /\ Tail(<<x, y>>) = <<y>> /\ Tail(<<x, y, z>>) = <<y, z>>
         /\ Head(<<x>>) = x /\ Head(<<x, y>>) = x /\ Head(<<x, y, z>>) = x
         /\ <<x>> # <<>> /\ <<x, y>> # <<>> /\ <<x, y, z>> # <<>>
         /\ <<x, y>> # <<z>>
<1>1. Tail(<<x>>) = <<>> /\ Tail(<<x, y>>) = <<y>> /\ Tail(<<x, y, z>>) = <<y, z>>
  OBVIOUS
<1>2. Head(<<x>>) = x /\ Head(<<x, y>>) = x /\ Head(<<x, y, z>>) = x
  OBVIOUS
<1>3. <<x>> # <<>> /\ <<x, y>> # <<>> /\ <<x, y, z>> # <<>> /\ <<x, y>> # <<z>>
  OBVIOUS
<1> QED
  BY <1>1, <1>2, <1>3

LEMMA Appended ==
  ASSUME NEW S, NEW x \in S, NEW y \in S
  PROVE  Append(<<>>, x) = <<x>> /\ Append(<<x>>, y) = <<x, y>>
<1> DEFINE s == <<x>>
<1>1. Append(<<>>, x) = <<x>>
  OBVIOUS
<1>2. s \in Seq(S) /\ Len(s) = 1 /\ s[1] = x
  OBVIOUS
<1> HIDE DEF s
<1> DEFINE q == Append(s, y)
<1>3. q \in Seq(S) /\ Len(q) = 2 /\ q[1] = x /\ q[2] = y
  BY <1>2 DEF s
<1> HIDE DEF q
<1>4. q = <<q[1], q[2]>>
  BY <1>3
<1> QED
  BY <1>1, <1>3, <1>4 DEF q, s

LEMMA AtMostOne ==
  ASSUME NEW S, NEW r \in Seq(S), Len(r) <= 1
  PROVE  r = <<>> \/ (r[1] \in S /\ r = <<r[1]>> /\ Len(r) = 1)
<1>1. CASE Len(r) = 0
  BY <1>1, EmptySeq
<1>2. CASE Len(r) = 1
  BY <1>2
<1>3. Len(r) \in Nat
  OBVIOUS
<1> QED
  BY <1>1, <1>2, <1>3

LEMMA Replaced ==
  ASSUME NEW S, NEW r \in Seq(S), NEW c \in S, r # <<>>
  PROVE  /\ <<c>> \o Tail(r) \in Seq(S) /\ Len(<<c>> \o Tail(r)) = Len(r)
         /\ (<<c>> \o Tail(r))[1] = c /\ <<Head(r)>> \in Seq(S) /\ Len(<<Head(r)>>) = 1
         /\ Head(r) = r[1] /\ r[1] \in S /\ Len(r) >= 1
<1>1. Len(r) \in Nat \ {0}
  BY EmptySeq
<1> QED
  BY <1>1

-------------------------------------------------------------------------------
(* Records, and what EXCEPT does to them.                                  *)
IsClaim(c, status, named, summary, gaps, comment, docs) ==
  /\ c \in Claim /\ c.status = status /\ c.named = named /\ c.summary = summary
  /\ c.gaps = gaps /\ c.comment = comment /\ c.docs = docs

IsCon(r, pc, todo, snap, verdict) ==
  r \in ConSet /\ r.pc = pc /\ r.todo = todo /\ r.snap = snap /\ r.verdict = verdict

IsExec(r, stage, pc, snap) ==
  r \in ExecSet /\ r.stage = stage /\ r.pc = pc /\ r.snap = snap

IsTask(r, pc, status, last, snap, final) ==
  /\ r \in TaskSet /\ r.pc = pc /\ r.status = status /\ r.last = last /\ r.snap = snap
  /\ r.final = final

LEMMA ClaimWith ==
  ASSUME NEW c \in Claim
  PROVE  /\ \A v \in Statuses :
              IsClaim([c EXCEPT !.status = v], v, c.named, c.summary, c.gaps, c.comment, c.docs)
         /\ \A v \in {"failure", "user"} :
              IsClaim([c EXCEPT !.comment = v], c.status, c.named, c.summary, c.gaps, v, c.docs)
         /\ IsClaim([c EXCEPT !.summary = TRUE],
                    c.status, c.named, TRUE, c.gaps, c.comment, c.docs)
         /\ IsClaim([c EXCEPT !.gaps = TRUE],
                    c.status, c.named, c.summary, TRUE, c.comment, c.docs)
         /\ \A D \in SUBSET [doc : Docs, run : Nat, status : DocStatuses] :
              IsClaim([c EXCEPT !.docs = D],
                      c.status, c.named, c.summary, c.gaps, c.comment, D)
         /\ \A s \in Statuses, named \in BOOLEAN :
              IsClaim(Blank(s, named), s, named, FALSE, FALSE, "none", {})
BY DEF Claim, Blank, IsClaim

LEMMA ConWith ==
  ASSUME NEW r \in ConSet
  PROVE  /\ \A v \in ConPlaces : IsCon([r EXCEPT !.pc = v], v, r.todo, r.snap, r.verdict)
         /\ \A v \in Updates : IsCon([r EXCEPT !.todo = v], r.pc, v, r.snap, r.verdict)
         /\ \A v \in Seq(Claim) : IsCon([r EXCEPT !.snap = v], r.pc, r.todo, v, r.verdict)
         /\ \A v \in Verdicts : IsCon([r EXCEPT !.verdict = v], r.pc, r.todo, r.snap, v)
BY DEF ConSet, IsCon

LEMMA ExecWith ==
  ASSUME NEW r \in ExecSet
  PROVE  /\ \A v \in ExecPlaces : IsExec([r EXCEPT !.pc = v], r.stage, v, r.snap)
         /\ \A v \in Seq(Claim) : IsExec([r EXCEPT !.snap = v], r.stage, r.pc, v)
         /\ \A v \in ExecPlaces, s \in Seq(Claim) :
              IsExec([r EXCEPT !.pc = v, !.snap = s], r.stage, v, s)
         /\ IsExec(NoExecutor, "none", "off", <<>>)
<1>1. \A v \in ExecPlaces : IsExec([r EXCEPT !.pc = v], r.stage, v, r.snap)
  BY DEF ExecSet, IsExec
<1>2. ASSUME NEW q \in ExecSet
      PROVE  \A v \in Seq(Claim) : IsExec([q EXCEPT !.snap = v], q.stage, q.pc, v)
  BY DEF ExecSet, IsExec
<1>3. ASSUME NEW v \in ExecPlaces, NEW s \in Seq(Claim)
      PROVE  IsExec([r EXCEPT !.pc = v, !.snap = s], r.stage, v, s)
  <2> DEFINE q == [r EXCEPT !.pc = v]
  <2>1. IsExec(q, r.stage, v, r.snap)
    BY <1>1
  <2>2. [r EXCEPT !.pc = v, !.snap = s] = [q EXCEPT !.snap = s]
    BY Zenon
  <2> HIDE DEF q
  <2>3. IsExec([q EXCEPT !.snap = s], r.stage, v, s)
    BY <1>2, <2>1 DEF IsExec
  <2> QED
    BY <2>2, <2>3
<1>4. IsExec(NoExecutor, "none", "off", <<>>)
  BY DEF NoExecutor, IsExec, ExecSet, ExecPlaces
<1> QED
  BY <1>1, <1>2, <1>3, <1>4

LEMMA TaskWith ==
  ASSUME NEW r \in TaskSet
  PROVE  /\ \A v \in TaskPlaces :
              IsTask([r EXCEPT !.pc = v], v, r.status, r.last, r.snap, r.final)
         /\ \A v \in TaskStatuses :
              IsTask([r EXCEPT !.status = v], r.pc, v, r.last, r.snap, r.final)
         /\ \A v \in Reports :
              IsTask([r EXCEPT !.last = v], r.pc, r.status, v, r.snap, r.final)
         /\ \A v \in Seq(Claim) :
              IsTask([r EXCEPT !.snap = v], r.pc, r.status, r.last, v, r.final)
         /\ \A v \in BOOLEAN :
              IsTask([r EXCEPT !.final = v], r.pc, r.status, r.last, r.snap, v)
BY DEF TaskSet, IsTask

LEMMA TypesAreTypeOK == Types <=> TypeOK
BY DEF Types, TypeOK, ConSet, ConPlaces, Updates, Verdicts, ExecSet, ExecPlaces, TaskSet,
       TaskPlaces, TaskStatuses, Reports, Events

(* The disturbances of a step are counted and remembered.                  *)
Counted ==
  /\ budget' \in 0 .. Budget /\ happened' \subseteq Env
  /\ happened \subseteq happened'

LEMMA Faulty ==
  ASSUME Types, NEW f, Occurs(f) \/ NoFault
  PROVE  Counted
<1>1. CASE Occurs(f)
  <2>1. budget \in 0 .. Budget /\ Budget \in Nat /\ budget > 0 /\ budget' = budget - 1
    BY <1>1, ConstantsAssumption DEF Types, Occurs
  <2>2. budget' \in 0 .. Budget
    BY <2>1
  <2> QED
    BY <1>1, <2>2 DEF Types, Occurs, Counted
<1>2. CASE NoFault
  BY <1>2 DEF Types, NoFault, faults, Counted
<1> QED
  BY <1>1, <1>2

LEMMA Entering ==
  ASSUME Types, NEW busy, Enters(busy)
  PROVE  /\ Counted
         /\ busy => "overlap" \in happened'
<1>1. Occurs("overlap") \/ NoFault
  BY DEF Enters
<1>2. busy => "overlap" \in happened'
  BY DEF Enters, Occurs
<1> QED
  BY <1>1, <1>2, Faulty

-------------------------------------------------------------------------------
(* The steps of the consumer.                                              *)
LEMMA NextUpdateIs ==
  ASSUME Types, con.todo # <<>>
  PROVE  IsCon(NextUpdate,
               IF Tail(con.todo) # <<>> THEN "read"
               ELSE IF con.verdict = "none" THEN "next" ELSE "end",
               Tail(con.todo), <<>>, con.verdict)
<1> DEFINE rest == Tail(con.todo)
           pc   == IF rest # <<>> THEN "read"
                   ELSE IF con.verdict = "none" THEN "next" ELSE "end"
           a == [con EXCEPT !.todo = rest]
           b == [a EXCEPT !.snap = <<>>]
           c == [b EXCEPT !.pc = pc]
<1>1. con \in ConSet /\ con.todo \in Updates
  BY DEF Types, ConSet
<1>2. rest \in Updates /\ pc \in ConPlaces /\ <<>> \in Seq(Claim)
  <2>1. rest \in Updates
    BY <1>1 DEF Updates
  <2>2. pc \in ConPlaces
    BY DEF ConPlaces
  <2>3. <<>> \in Seq(Claim)
    OBVIOUS
  <2> QED
    BY <2>1, <2>2, <2>3
<1>3. NextUpdate = c
  BY Zenon DEF NextUpdate
<1> HIDE DEF pc
<1>4. IsCon(a, con.pc, rest, con.snap, con.verdict)
  BY <1>1, <1>2, ConWith
<1> HIDE DEF a
<1>5. IsCon(b, con.pc, rest, <<>>, con.verdict)
  BY <1>2, <1>4, ConWith DEF IsCon
<1> HIDE DEF b
<1>6. IsCon(c, pc, rest, <<>>, con.verdict)
  BY <1>2, <1>5, ConWith DEF IsCon
<1> HIDE DEF c
<1> QED
  BY <1>3, <1>6 DEF pc

LEMMA StartRunIs ==
  ASSUME Types, StartRun
  PROVE  /\ queued /\ con.pc = "off" /\ IsCon(con', "next", <<>>, <<>>, "none")
         /\ IsExec(exec', "Processing", "get", <<>>)
         /\ inbox' = <<"Processing">> /\ run' = run + 1 /\ attempts' = attempts + 1
         /\ \A d \in Docs : IsTask(task'[d], "waiting", "processing", "none", <<>>, FALSE)
         /\ task' \in [Docs -> TaskSet]
         /\ UNCHANGED <<records, queued, api, user>>
         /\ Counted
         /\ api = "done" \/ "early" \in happened'
<1>1. <<>> \in Seq(Claim) /\ <<>> \in Updates
  BY DEF Updates
<1>2. IsCon(con', "next", <<>>, <<>>, "none")
  <2>1. NoRun \in ConSet /\ NoRun.todo = <<>> /\ NoRun.snap = <<>> /\ NoRun.verdict = "none"
    BY <1>1 DEF NoRun, ConSet, ConPlaces, Verdicts
  <2>2. con' = [NoRun EXCEPT !.pc = "next"]
    BY DEF StartRun
  <2>3. "next" \in ConPlaces
    BY DEF ConPlaces
  <2> QED
    BY <2>1, <2>2, <2>3, ConWith
<1>3. IsExec(exec', "Processing", "get", <<>>)
  BY <1>1 DEF StartRun, IsExec, ExecSet, ExecPlaces, Stages
<1>4. IsTask(NoTask, "waiting", "processing", "none", <<>>, FALSE)
  BY <1>1 DEF NoTask, IsTask, TaskSet, TaskPlaces, TaskStatuses, DocStatuses, Reports
<1>5. task' = [d \in Docs |-> NoTask]
  BY DEF StartRun
<1>6. NoFault \/ Occurs("early")
  BY DEF StartRun
<1>7. api = "done" \/ "early" \in happened'
  BY DEF StartRun, Occurs
<1>8. /\ \A d \in Docs : IsTask(task'[d], "waiting", "processing", "none", <<>>, FALSE)
      /\ task' \in [Docs -> TaskSet]
  BY <1>4, <1>5 DEF IsTask
<1>9. Counted
  BY <1>6, Faulty
<1> QED
  BY <1>2, <1>3, <1>7, <1>8, <1>9 DEF StartRun

LEMMA ConsumeIs ==
  ASSUME Types, Consume
  PROVE  /\ con.pc = "next" /\ inbox # <<>> /\ inbox' = Tail(inbox) /\ Head(inbox) \in Events
         /\ inbox' \in Seq(Events)
         /\ IsCon(con', "read", Plan(Head(inbox)), <<>>, Verdict(Head(inbox)))
         /\ Plan(Head(inbox)) # <<>>
         /\ UNCHANGED <<records, message, api, user, exec, task, faults>>
<1>1. Head(inbox) \in Events /\ Tail(inbox) \in Seq(Events)
  BY EmptySeq DEF Consume, Types
<1>2. Plan(Head(inbox)) \in Updates /\ Plan(Head(inbox)) # <<>>
  <2> DEFINE e == Head(inbox)
  <2>1. CASE e = "output"
    BY <2>1 DEF Plan, Updates, Statuses
  <2>2. CASE e = "failed"
    BY <2>2 DEF Plan, Updates, Statuses
  <2>3. CASE e \in Stages
    BY <2>3 DEF Plan, Updates, Statuses, Stages
  <2> QED
    BY <1>1, <2>1, <2>2, <2>3 DEF Events
<1>3. Verdict(Head(inbox)) \in Verdicts
  BY DEF Verdict, Verdicts
<1>4. <<>> \in Seq(Claim)
  OBVIOUS
<1> QED
  BY <1>1, <1>2, <1>3, <1>4 DEF Consume, IsCon, ConSet, ConPlaces

LEMMA ReadClaimIs ==
  ASSUME Types, Shape, ReadClaim
  PROVE  /\ con.pc = "read" /\ con.todo # <<>>
         /\ \/ records = <<>> /\ con' = NextUpdate
            \/ records # <<>> /\ IsCon(con', "write", con.todo, <<records[1]>>, con.verdict)
         /\ UNCHANGED <<records, message, api, user, inbox, exec, task>>
         /\ Counted
         /\ ExecutorBusy => "overlap" \in happened'
<1>1. con.pc = "read" /\ con.todo # <<>> /\ con \in ConSet
  BY DEF ReadClaim, Shape, Types
<1>2. CASE records # <<>>
  <2> DEFINE a == [con EXCEPT !.pc = "write"]
             b == [a EXCEPT !.snap = <<records[1]>>]
  <2>1. First = <<records[1]>> /\ <<records[1]>> \in Seq(Claim)
    <3>1. <<Head(records)>> \in Seq(Claim) /\ Head(records) = records[1]
      BY <1>2, EmptySeq DEF Types
    <3> QED
      BY <1>2, <3>1 DEF First
  <2>2. con' = b
    <3>1. con' = [con EXCEPT !.pc = "write", !.snap = <<records[1]>>]
      BY <1>2, <2>1 DEF ReadClaim
    <3> QED
      BY <3>1, Zenon
  <2>3. IsCon(a, "write", con.todo, con.snap, con.verdict)
    BY <1>1, ConWith DEF ConPlaces
  <2> HIDE DEF a
  <2>4. IsCon(b, "write", con.todo, <<records[1]>>, con.verdict)
    BY <2>1, <2>3, ConWith DEF IsCon
  <2> HIDE DEF b
  <2> QED
    BY <1>1, <1>2, <2>2, <2>4, Entering DEF ReadClaim
<1>3. CASE records = <<>>
  BY <1>1, <1>3, Entering DEF ReadClaim
<1> QED
  BY <1>2, <1>3

(* What a record becomes.                                                  *)
LEMMA UpdatedIs ==
  ASSUME NEW c \in Claim, NEW u \in Statuses \cup {"comment", "time"}
  PROVE  /\ Updated(c, u) \in Claim
         /\ LET e == Updated(c, u)
            IN /\ e.named = c.named /\ e.summary = c.summary /\ e.gaps = c.gaps
               /\ e.docs = c.docs
               /\ e.status = IF u \in Statuses THEN u ELSE c.status
               /\ e.comment = IF u = "comment" THEN "failure" ELSE c.comment
<1>1. "comment" \notin Statuses /\ "time" \notin Statuses
  BY DEF Statuses, Stages
<1>2. CASE u = "time"
  BY <1>1, <1>2 DEF Updated
<1>3. CASE u = "comment"
  <2>1. Updated(c, u) = [c EXCEPT !.comment = "failure"]
    BY <1>3 DEF Updated
  <2>2. IsClaim(Updated(c, u), c.status, c.named, c.summary, c.gaps, "failure", c.docs)
    BY <2>1, ClaimWith
  <2> QED
    BY <1>1, <1>3, <2>2 DEF IsClaim
<1>4. CASE u \in Statuses
  <2>1. Updated(c, u) = [c EXCEPT !.status = u]
    BY <1>1, <1>4 DEF Updated
  <2>2. IsClaim(Updated(c, u), u, c.named, c.summary, c.gaps, c.comment, c.docs)
    BY <1>4, <2>1, ClaimWith
  <2> QED
    BY <1>1, <1>4, <2>2 DEF IsClaim
<1> QED
  BY <1>2, <1>3, <1>4

LEMMA StoreIs ==
  ASSUME Types, NEW c \in Claim
  PROVE  /\ Store(c) \in Seq(Claim) /\ Len(Store(c)) = Len(records)
         /\ records # <<>> => Store(c) # <<>> /\ Store(c)[1] = c
         /\ records = <<>> => Store(c) = <<>>
<1>1. CASE records = <<>>
  BY <1>1 DEF Store, Types
<1>2. CASE records # <<>>
  <2>1. Store(c) = <<c>> \o Tail(records)
    BY <1>2 DEF Store
  <2>2. /\ Store(c) \in Seq(Claim) /\ Len(Store(c)) = Len(records) /\ Store(c)[1] = c
        /\ Len(records) >= 1
    BY <1>2, <2>1, Replaced DEF Types
  <2> QED
    BY <1>2, <2>2, EmptySeq
<1> QED
  BY <1>1, <1>2

LEMMA WriteClaimIs ==
  ASSUME Types, Shape, WriteClaim
  PROVE  /\ con.pc = "write" /\ con.todo # <<>> /\ con' = NextUpdate
         /\ con.snap[1] \in Claim /\ Head(con.todo) \in Statuses \cup {"comment", "time"}
         /\ records' = Store(Updated(con.snap[1], Head(con.todo)))
         /\ Updated(con.snap[1], Head(con.todo)) \in Claim
         /\ UNCHANGED <<message, api, user, inbox, exec, task, faults>>
<1>1. con.pc = "write" /\ con.todo # <<>> /\ Len(con.snap) = 1 /\ con \in ConSet
  BY DEF WriteClaim, Shape, Types
<1>2. con.snap \in Seq(Claim) /\ con.todo \in Seq(Statuses \cup {"comment", "time"})
  BY <1>1 DEF ConSet, Updates
<1>3. con.snap[1] \in Claim /\ Head(con.todo) \in Statuses \cup {"comment", "time"}
  BY <1>1, <1>2, EmptySeq
<1> QED
  BY <1>1, <1>3, UpdatedIs DEF WriteClaim

LEMMA NoRunIs == IsCon(NoRun, "off", <<>>, <<>>, "none")
<1>1. <<>> \in Seq(Statuses \cup {"comment", "time"}) /\ <<>> \in Seq(Claim)
  OBVIOUS
<1> QED
  BY <1>1 DEF NoRun, IsCon, ConSet, ConPlaces, Verdicts, Updates

LEMMA UpdateFailsIs ==
  ASSUME Types, Shape, UpdateFails
  PROVE  /\ con.pc \in {"read", "write"}
         /\ \/ IsCon(con', "end", <<>>, <<>>, "raised")
            \/ IsCon(con', "read", <<"time">>, <<>>, "raised")
         /\ IsExec(exec', "none", "off", <<>>) /\ inbox' = <<>>
         /\ UNCHANGED <<records, message, api, user, task>>
         /\ Counted /\ happened' # {}
<1>1. IsCon(NoRun, "off", <<>>, <<>>, "none")
  BY NoRunIs
<1>2. IsCon([NoRun EXCEPT !.pc = "end", !.verdict = "raised"], "end", <<>>, <<>>, "raised")
  <2> DEFINE a == [NoRun EXCEPT !.pc = "end"]
  <2>1. IsCon(a, "end", <<>>, <<>>, "none")
    BY <1>1, ConWith DEF IsCon, ConPlaces
  <2>2. [NoRun EXCEPT !.pc = "end", !.verdict = "raised"] = [a EXCEPT !.verdict = "raised"]
    BY Zenon
  <2> HIDE DEF a
  <2>3. IsCon([a EXCEPT !.verdict = "raised"], "end", <<>>, <<>>, "raised")
    BY <2>1, ConWith DEF IsCon, Verdicts
  <2> QED
    BY <2>2, <2>3
<1>3. IsCon([NoRun EXCEPT !.pc = "read", !.todo = <<"time">>, !.verdict = "raised"],
            "read", <<"time">>, <<>>, "raised")
  <2> DEFINE a == [NoRun EXCEPT !.pc = "read"]
             b == [a EXCEPT !.todo = <<"time">>]
  <2>1. IsCon(a, "read", <<>>, <<>>, "none")
    BY <1>1, ConWith DEF IsCon, ConPlaces
  <2>2. [NoRun EXCEPT !.pc = "read", !.todo = <<"time">>, !.verdict = "raised"]
          = [b EXCEPT !.verdict = "raised"]
    BY Zenon
  <2> HIDE DEF a
  <2>3. <<"time">> \in Updates
    BY DEF Updates
  <2>4. IsCon(b, "read", <<"time">>, <<>>, "none")
    BY <2>1, <2>3, ConWith DEF IsCon
  <2> HIDE DEF b
  <2>5. IsCon([b EXCEPT !.verdict = "raised"], "read", <<"time">>, <<>>, "raised")
    BY <2>4, ConWith DEF IsCon, Verdicts
  <2> QED
    BY <2>2, <2>5
<1>4. IsExec(NoExecutor, "none", "off", <<>>)
  BY ExecWith DEF Types
<1>5. Counted /\ happened' # {}
  BY Faulty DEF UpdateFails, Occurs
<1> QED
  BY <1>2, <1>3, <1>4, <1>5 DEF UpdateFails

LEMMA EndRunIs ==
  ASSUME Types, EndRun
  PROVE  /\ con.pc = "end" /\ IsCon(con', "off", con.todo, con.snap, con.verdict)
         /\ IsExec(exec', "none", "off", <<>>) /\ inbox' = <<>> /\ queued' \in BOOLEAN
         /\ UNCHANGED <<records, attempts, run, api, user, task, faults>>
<1>1. IsExec(NoExecutor, "none", "off", <<>>)
  BY ExecWith DEF Types
<1>2. IsCon([con EXCEPT !.pc = "off"], "off", con.todo, con.snap, con.verdict)
  BY ConWith DEF Types, ConPlaces
<1> QED
  BY <1>1, <1>2 DEF EndRun

LEMMA CrashIs ==
  ASSUME Types, Crash
  PROVE  /\ con.pc # "off" /\ IsCon(con', "off", <<>>, <<>>, "none")
         /\ IsExec(exec', "none", "off", <<>>) /\ inbox' = <<>>
         /\ UNCHANGED <<records, message, api, user, task>>
         /\ Counted /\ happened' # {}
<1>1. IsExec(NoExecutor, "none", "off", <<>>)
  BY ExecWith DEF Types
<1>2. IsCon(NoRun, "off", <<>>, <<>>, "none")
  BY NoRunIs
<1>3. Counted /\ happened' # {}
  BY Faulty DEF Crash, Occurs
<1> QED
  BY <1>1, <1>2, <1>3 DEF Crash

LEMMA SubmitIs ==
  ASSUME Types, Shape, Flow, Submit
  PROVE  /\ con.pc = "off" /\ IsCon(con', "off", <<>>, <<>>, "none")
         /\ queued' = TRUE /\ attempts' = 0 /\ api' = "get"
         /\ UNCHANGED <<records, run, user, inbox, exec, task>>
         /\ Counted
<1>1. IsCon(NoRun, "off", <<>>, <<>>, "none")
  BY NoRunIs
<1>2. con.pc = "off"
  BY DEF Submit, Flow
<1>3. Counted
  BY Faulty DEF Submit
<1> QED
  BY <1>1, <1>2, <1>3 DEF Submit

-------------------------------------------------------------------------------
(* The steps of the executors.                                             *)
ExecTo(pc) == IsExec(exec', exec.stage, pc, exec.snap)

NoExec == IsExec(exec', "none", "off", <<>>)

Delivered ==
  \/ exec.stage = "GapAnalysis" /\ NoExec /\ inbox' = Append(inbox, "output")
  \/ exec.stage # "GapAnalysis" /\ IsExec(exec', exec.stage, "sent", <<>>) /\ inbox' = inbox

LEMMA DeliverIs ==
  ASSUME Types, Deliver
  PROVE  Delivered
<1>1. IsExec(NoExecutor, "none", "off", <<>>)
  BY ExecWith DEF Types
<1>2. IsExec([exec EXCEPT !.pc = "sent", !.snap = <<>>], exec.stage, "sent", <<>>)
  <2>1. <<>> \in Seq(Claim)
    OBVIOUS
  <2> QED
    BY <2>1, ExecWith DEF Types, ExecPlaces
<1> QED
  BY <1>1, <1>2 DEF Deliver, Delivered, NoExec, Emit

LEMMA CollectionIs ==
  ASSUME Types
  PROVE  /\ RemoveFirst \in Seq(Claim)
         /\ Len(records) <= 1 => RemoveFirst = <<>>
         /\ \A c \in Claim : /\ Append(records, c) \in Seq(Claim) /\ Append(records, c) # <<>>
                             /\ records = <<>> => Append(records, c) = <<c>>
<1>1. CASE records = <<>>
  <2>1. \A c \in Claim : Append(<<>>, c) = <<c>>
    BY Appended
  <2>2. \A c \in Claim : <<c>> \in Seq(Claim) /\ <<c>> # <<>>
    OBVIOUS
  <2> QED
    BY <1>1, <2>1, <2>2 DEF RemoveFirst, Types
<1>2. CASE records # <<>>
  <2>1. records \in Seq(Claim) /\ Len(records) \in Nat \ {0}
    BY <1>2, EmptySeq DEF Types
  <2>2. Tail(records) \in Seq(Claim) /\ Len(Tail(records)) = Len(records) - 1
    BY <2>1
  <2>3. Len(records) <= 1 => Tail(records) = <<>>
    BY <2>1, <2>2, EmptySeq
  <2>4. \A c \in Claim : Append(records, c) \in Seq(Claim) /\ Len(Append(records, c)) # 0
    BY <2>1
  <2>5. \A c \in Claim : Append(records, c) # <<>>
    BY <2>4, EmptySeq
  <2> QED
    BY <1>2, <2>2, <2>3, <2>4, <2>5 DEF RemoveFirst
<1> QED
  BY <1>1, <1>2

LEMMA CreateIs ==
  ASSUME Types, Create
  PROVE  /\ \/ /\ exec.pc = "get" /\ records' = records
               /\ ExecTo(IF records = <<>> THEN "add" ELSE "delete")
               /\ ConsumerBusy => "overlap" \in happened'
            \/ exec.pc = "delete" /\ records' = RemoveFirst /\ ExecTo("add")
            \/ /\ exec.pc = "add" /\ records' = Append(records, Blank("Processing", TRUE))
               /\ ExecTo("tasks")
         /\ Counted
         /\ UNCHANGED <<message, api, user, con, inbox, task>>
<1>1. \A v \in {"add", "delete", "tasks"} : IsExec([exec EXCEPT !.pc = v], exec.stage, v, exec.snap)
  BY ExecWith DEF Types, ExecPlaces
<1>2. CASE exec.pc = "get" /\ Enters(ConsumerBusy)
           /\ exec' = [exec EXCEPT !.pc = IF records = <<>> THEN "add" ELSE "delete"]
           /\ UNCHANGED records
  <2>1. Counted /\ (ConsumerBusy => "overlap" \in happened')
    BY <1>2, Entering
  <2> QED
    BY <1>1, <1>2, <2>1 DEF ExecTo, Create
<1>3. CASE exec.pc \in {"delete", "add"} /\ NoFault
  <2>1. Counted
    BY <1>3, Faulty
  <2> QED
    BY <1>1, <1>3, <2>1 DEF ExecTo, Create
<1> QED
  BY <1>2, <1>3 DEF Create

LEMMA SentIs ==
  ASSUME Types, TasksDone \/ Approve
  PROVE  /\ exec.pc \in {"tasks", "work"} /\ ExecTo("sent")
         /\ exec.pc = "work" => exec.stage = "RAIAnalysis"
         /\ UNCHANGED <<records, message, api, user, con, inbox, task, faults>>
<1>1. IsExec([exec EXCEPT !.pc = "sent"], exec.stage, "sent", exec.snap)
  BY ExecWith DEF Types, ExecPlaces
<1> QED
  BY <1>1 DEF TasksDone, Approve, ExecTo

LEMMA AnalyseIs ==
  ASSUME Types, Analyse
  PROVE  /\ exec.pc = "work" /\ exec.stage \in {"Summarizing", "GapAnalysis"}
         /\ \/ records = <<>> /\ Delivered
            \/ /\ records # <<>> /\ inbox' = inbox
               /\ IsExec(exec', exec.stage, "write", <<records[1]>>)
         /\ Counted /\ (ConsumerBusy => "overlap" \in happened')
         /\ UNCHANGED <<records, message, api, user, con, task>>
<1>1. Counted /\ (ConsumerBusy => "overlap" \in happened')
  BY Entering DEF Analyse
<1>2. CASE records = <<>>
  BY <1>1, <1>2, DeliverIs DEF Analyse
<1>3. CASE records # <<>>
  <2>1. <<Head(records)>> \in Seq(Claim) /\ Head(records) = records[1]
    BY <1>3, EmptySeq DEF Types
  <2>2. First = <<records[1]>> /\ <<records[1]>> \in Seq(Claim)
    BY <1>3, <2>1 DEF First
  <2>3. IsExec([exec EXCEPT !.pc = "write", !.snap = <<records[1]>>],
               exec.stage, "write", <<records[1]>>)
    BY <2>2, ExecWith DEF Types, ExecPlaces
  <2> QED
    BY <1>1, <1>3, <2>2, <2>3 DEF Analyse
<1> QED
  BY <1>2, <1>3

LEMMA SaveAnalysisIs ==
  ASSUME Types, Shape, SaveAnalysis
  PROVE  /\ exec.pc = "write" /\ Delivered /\ exec.snap[1] \in Claim
         /\ \E c \in Claim :
              /\ records' = Store(c)
              /\ LET o == exec.snap[1]
                 IN  \/ /\ exec.stage = "GapAnalysis"
                        /\ IsClaim(c, o.status, o.named, o.summary, TRUE, o.comment, o.docs)
                     \/ /\ exec.stage # "GapAnalysis"
                        /\ IsClaim(c, o.status, o.named, TRUE, o.gaps, o.comment, o.docs)
         /\ UNCHANGED <<message, api, user, con, task, faults>>
<1> DEFINE o == exec.snap[1]
           c == IF exec.stage = "GapAnalysis" THEN [o EXCEPT !.gaps = TRUE]
                                              ELSE [o EXCEPT !.summary = TRUE]
<1>1. exec.pc = "write" /\ Len(exec.snap) = 1 /\ exec.snap \in Seq(Claim)
  BY DEF SaveAnalysis, Shape, Types, ExecSet
<1>2. o \in Claim
  BY <1>1
<1>3. \/ /\ exec.stage = "GapAnalysis"
         /\ IsClaim(c, o.status, o.named, o.summary, TRUE, o.comment, o.docs)
      \/ /\ exec.stage # "GapAnalysis"
         /\ IsClaim(c, o.status, o.named, TRUE, o.gaps, o.comment, o.docs)
  BY <1>2, ClaimWith
<1>4. records' = Store(c)
  BY DEF SaveAnalysis
<1>5. Delivered
  BY DeliverIs DEF SaveAnalysis
<1>6. UNCHANGED <<message, api, user, con, task, faults>>
  BY DEF SaveAnalysis
<1> HIDE DEF c
<1> QED
  BY <1>1, <1>2, <1>3, <1>4, <1>5, <1>6 DEF IsClaim

LEMMA ExecutorFailsIs ==
  ASSUME Types, ExecutorFails
  PROVE  /\ exec.pc \in {"get", "work", "delete", "add", "write"}
         /\ NoExec /\ inbox' = Append(inbox, "failed") /\ Counted
         /\ exec.pc \in {"get", "work"} \/ happened' # {}
         /\ UNCHANGED <<records, message, api, user, con, task>>
<1>1. IsExec(NoExecutor, "none", "off", <<>>)
  BY ExecWith DEF Types
<1>2. Counted /\ (exec.pc \in {"get", "work"} \/ happened' # {})
  BY Faulty DEF ExecutorFails, Occurs
<1> QED
  BY <1>1, <1>2 DEF ExecutorFails, NoExec, Emit

LEMMA NextStageIs ==
  ASSUME Types, Shape, NextStage
  PROVE  /\ exec.pc = "sent" /\ inbox = <<>> /\ con.pc = "next"
         /\ \E x \in Stages \ {"Processing"} :
              /\ IsExec(exec', x, "work", <<>>) /\ inbox' = <<x>>
              /\ Rank[exec.stage] < Rank[x]
              /\ x = "GapAnalysis" => exec.stage = "Summarizing"
         /\ UNCHANGED <<records, message, api, user, con, task, faults>>
<1> DEFINE x == Follows[exec.stage]
<1>1. exec.stage \in {"Processing", "RAIAnalysis", "Summarizing"}
  BY DEF Shape, NextStage, Stages
<1>2. /\ x \in Stages \ {"Processing"} /\ Rank[exec.stage] < Rank[x]
      /\ x = "GapAnalysis" => exec.stage = "Summarizing"
  BY <1>1 DEF Follows, Stages, Rank
<1>3. inbox = <<>> /\ inbox' = Append(inbox, x)
  BY DEF NextStage, Emit
<1>4. exec' = [stage |-> x, pc |-> "work", snap |-> <<>>]
  BY DEF NextStage
<1> HIDE DEF x
<1>5. inbox' = <<x>>
  BY <1>3, Appended
<1>6. IsExec(exec', x, "work", <<>>)
  <2>1. <<>> \in Seq(Claim)
    OBVIOUS
  <2> QED
    BY <1>2, <1>4, <2>1 DEF IsExec, ExecSet, ExecPlaces
<1> QED
  BY <1>2, <1>5, <1>6 DEF NextStage

-------------------------------------------------------------------------------
(* The steps of the tasks.                                                 *)
TaskTo(d, pc, status, last, snap, final) ==
  /\ exec.pc = "tasks" /\ task' \in [Docs -> TaskSet]
  /\ \A e \in Docs \ {d} : task'[e] = task[e]
  /\ IsTask(task'[d], pc, status, last, snap, final)

LEMMA Becomes ==
  ASSUME Types, NEW d \in Docs, NEW t, Become(d, t), NEW pc, NEW status, NEW last, NEW snap,
         NEW final, IsTask(t, pc, status, last, snap, final)
  PROVE  TaskTo(d, pc, status, last, snap, final)
BY DEF Types, Become, TaskTo, IsTask

LEMMA NoTaskIs == IsTask(NoTask, "waiting", "processing", "none", <<>>, FALSE)
<1>1. <<>> \in Seq(Claim)
  OBVIOUS
<1> QED
  BY <1>1 DEF NoTask, IsTask, TaskSet, TaskPlaces, TaskStatuses, DocStatuses, Reports

LEMMA RejectedIs == IsTask(Rejected, "done", "exception", "none", <<>>, FALSE)
<1> DEFINE a == [NoTask EXCEPT !.pc = "done"]
           b == [a EXCEPT !.status = "exception"]
<1>1. NoTask \in TaskSet
  BY NoTaskIs DEF IsTask
<1>2. IsTask(a, "done", "processing", "none", <<>>, FALSE)
  BY <1>1, NoTaskIs, TaskWith DEF IsTask, TaskPlaces
<1>3. Rejected = b
  BY Zenon DEF Rejected
<1> HIDE DEF a
<1>4. a \in TaskSet
  BY <1>2 DEF IsTask
<1>5. IsTask(b, "done", "exception", "none", <<>>, FALSE)
  BY <1>2, <1>4, TaskWith DEF IsTask, TaskStatuses
<1> HIDE DEF b
<1> QED
  BY <1>3, <1>5

LEMMA UpsertedIs ==
  ASSUME Types, NEW d \in Docs
  PROVE  IsTask(Upserted(d), IF task[d].final THEN "done" ELSE "poll", task[d].status,
                task[d].last, <<>>, task[d].final)
<1> DEFINE pc == IF task[d].final THEN "done" ELSE "poll"
           a == [task[d] EXCEPT !.snap = <<>>]
           b == [a EXCEPT !.pc = pc]
<1>1. task[d] \in TaskSet /\ <<>> \in Seq(Claim)
  BY DEF Types
<1>2. IsTask(a, task[d].pc, task[d].status, task[d].last, <<>>, task[d].final)
  BY <1>1, TaskWith
<1>3. Upserted(d) = b
  BY Zenon DEF Upserted
<1> HIDE DEF a
<1>4. pc \in TaskPlaces
  BY DEF TaskPlaces
<1> HIDE DEF pc
<1>5. IsTask(b, pc, task[d].status, task[d].last, <<>>, task[d].final)
  <2>1. a \in TaskSet
    BY <1>2 DEF IsTask
  <2> QED
    BY <1>2, <1>4, <2>1, TaskWith DEF IsTask
<1> HIDE DEF b
<1> QED
  BY <1>3, <1>5 DEF pc

LEMMA SubmitDocIs ==
  ASSUME Types, NEW d \in Docs, SubmitDoc(d)
  PROVE  /\ task[d].pc = "waiting"
         /\ \/ TaskTo(d, "upsert", "processing", "none", <<>>, FALSE)
            \/ TaskTo(d, "done", "exception", "none", <<>>, FALSE)
         /\ UNCHANGED <<records, message, api, user, con, inbox, exec, faults>>
<1>1. IsTask([NoTask EXCEPT !.pc = "upsert"], "upsert", "processing", "none", <<>>, FALSE)
  <2>1. NoTask \in TaskSet
    BY NoTaskIs DEF IsTask
  <2> QED
    BY <2>1, NoTaskIs, TaskWith DEF IsTask, TaskPlaces
<1>2. CASE Become(d, [NoTask EXCEPT !.pc = "upsert"])
  BY <1>1, <1>2, Becomes DEF SubmitDoc
<1>3. CASE Become(d, Rejected)
  BY <1>3, RejectedIs, Becomes DEF SubmitDoc
<1> QED
  BY <1>2, <1>3 DEF SubmitDoc

LEMMA PollIs ==
  ASSUME Types, Shape, NEW d \in Docs, Poll(d)
  PROVE  /\ task[d].pc = "poll"
         /\ \/ \E s \in {"processing", "step"} :
                 TaskTo(d, "upsert", s, s, task[d].snap, task[d].final)
            \/ \E s \in DocStatuses :
                 TaskTo(d, "fetch", s, task[d].last, task[d].snap, task[d].final)
         /\ UNCHANGED <<records, message, api, user, con, inbox, exec, faults>>
<1>1. task[d] \in TaskSet /\ task[d].pc = "poll"
      /\ UNCHANGED <<records, message, api, user, con, inbox, exec, faults>>
  BY DEF Types, Poll
<1>2. ASSUME NEW s \in {"processing", "step"},
             Become(d, [task[d] EXCEPT !.pc = "upsert", !.status = s, !.last = s])
      PROVE  TaskTo(d, "upsert", s, s, task[d].snap, task[d].final)
  <2> DEFINE a == [task[d] EXCEPT !.pc = "upsert"]
             b == [a EXCEPT !.status = s]
             c == [b EXCEPT !.last = s]
  <2>1. c = [task[d] EXCEPT !.pc = "upsert", !.status = s, !.last = s]
    BY Zenon
  <2>2. IsTask(a, "upsert", task[d].status, task[d].last, task[d].snap, task[d].final)
    BY <1>1, TaskWith DEF TaskPlaces
  <2> HIDE DEF a
  <2>3. s \in TaskStatuses /\ s \in Reports /\ a \in TaskSet
    BY <2>2 DEF TaskStatuses, DocStatuses, Reports, IsTask
  <2>4. IsTask(b, "upsert", s, task[d].last, task[d].snap, task[d].final)
    BY <2>2, <2>3, TaskWith DEF IsTask
  <2> HIDE DEF b
  <2>5. IsTask(c, "upsert", s, s, task[d].snap, task[d].final)
    <3>1. b \in TaskSet
      BY <2>4 DEF IsTask
    <3> QED
      BY <2>3, <2>4, <3>1, TaskWith DEF IsTask
  <2> HIDE DEF c
  <2> QED
    BY <1>2, <2>1, <2>5, Becomes
<1>3. ASSUME NEW s \in DocStatuses,
             Become(d, [task[d] EXCEPT !.pc = "fetch", !.status = s])
      PROVE  TaskTo(d, "fetch", s, task[d].last, task[d].snap, task[d].final)
  <2> DEFINE a == [task[d] EXCEPT !.pc = "fetch"]
             b == [a EXCEPT !.status = s]
  <2>1. b = [task[d] EXCEPT !.pc = "fetch", !.status = s]
    BY Zenon
  <2>2. IsTask(a, "fetch", task[d].status, task[d].last, task[d].snap, task[d].final)
    BY <1>1, TaskWith DEF TaskPlaces
  <2> HIDE DEF a
  <2>3. s \in TaskStatuses /\ a \in TaskSet
    BY <2>2 DEF TaskStatuses, IsTask
  <2>4. IsTask(b, "fetch", s, task[d].last, task[d].snap, task[d].final)
    BY <2>2, <2>3, TaskWith DEF IsTask
  <2> HIDE DEF b
  <2> QED
    BY <1>3, <2>1, <2>4, Becomes
<1>4. ASSUME Become(d, [task[d] EXCEPT !.pc = "fetch"])
      PROVE  TaskTo(d, "fetch", task[d].status, task[d].last, task[d].snap, task[d].final)
             /\ task[d].status \in DocStatuses
  <2>1. IsTask([task[d] EXCEPT !.pc = "fetch"],
               "fetch", task[d].status, task[d].last, task[d].snap, task[d].final)
    BY <1>1, TaskWith DEF TaskPlaces
  <2>2. task[d].status \in DocStatuses
    BY <1>1 DEF Shape, TaskSet, TaskStatuses
  <2> QED
    BY <1>4, <2>1, <2>2, Becomes
<1>5. "Completed" \in DocStatuses /\ "Error" \in DocStatuses /\ "Failed" \in DocStatuses
  BY DEF DocStatuses
<1>6. \/ \E s \in {"processing", "step"} :
           Become(d, [task[d] EXCEPT !.pc = "upsert", !.status = s, !.last = s])
      \/ \E s \in {"Completed", "Error", "Failed"} :
           Become(d, [task[d] EXCEPT !.pc = "fetch", !.status = s])
      \/ Become(d, [task[d] EXCEPT !.pc = "fetch"])
  <2> HIDE DEF Become
  <2> QED
    BY Zenon DEF Poll
<1> QED
  BY <1>1, <1>2, <1>3, <1>4, <1>5, <1>6

LEMMA FetchIs ==
  ASSUME Types, Shape, NEW d \in Docs, Fetch(d)
  PROVE  /\ task[d].pc = "fetch"
         /\ \E s \in DocStatuses : TaskTo(d, "upsert", s, task[d].last, task[d].snap, TRUE)
         /\ UNCHANGED <<records, message, api, user, con, inbox, exec, faults>>
<1>1. task[d] \in TaskSet /\ task[d].pc = "fetch"
      /\ UNCHANGED <<records, message, api, user, con, inbox, exec, faults>>
  BY DEF Types, Fetch
<1>2. task[d].status \in DocStatuses
  BY <1>1 DEF Shape, TaskSet, TaskStatuses
<1>3. Later(task[d].status) \subseteq DocStatuses
  BY <1>2 DEF Later, DocStatuses
<1>4. PICK s \in Later(task[d].status) :
        Become(d, [task[d] EXCEPT !.pc = "upsert", !.status = s, !.final = TRUE])
  BY DEF Fetch
<1> DEFINE a == [task[d] EXCEPT !.pc = "upsert"]
           b == [a EXCEPT !.status = s]
           c == [b EXCEPT !.final = TRUE]
<1>5. c = [task[d] EXCEPT !.pc = "upsert", !.status = s, !.final = TRUE]
  BY Zenon
<1>6. IsTask(a, "upsert", task[d].status, task[d].last, task[d].snap, task[d].final)
  BY <1>1, TaskWith DEF TaskPlaces
<1> HIDE DEF a
<1>7. s \in TaskStatuses /\ a \in TaskSet
  BY <1>3, <1>6 DEF TaskStatuses, IsTask
<1>8. IsTask(b, "upsert", s, task[d].last, task[d].snap, task[d].final)
  BY <1>6, <1>7, TaskWith DEF IsTask
<1> HIDE DEF b
<1>9. IsTask(c, "upsert", s, task[d].last, task[d].snap, TRUE)
  <2>1. b \in TaskSet
    BY <1>8 DEF IsTask
  <2> QED
    BY <1>8, <2>1, TaskWith DEF IsTask
<1> HIDE DEF c
<1>10. TaskTo(d, "upsert", s, task[d].last, task[d].snap, TRUE)
  BY <1>4, <1>5, <1>9, Becomes
<1> QED
  BY <1>1, <1>3, <1>10

Stored(d) ==
  TaskTo(d, IF task[d].final THEN "done" ELSE "poll", task[d].status, task[d].last, <<>>,
         task[d].final)

LEMMA ReadForUpsertIs ==
  ASSUME Types, NEW d \in Docs, ReadForUpsert(d)
  PROVE  /\ task[d].pc = "upsert" /\ \A e \in Docs : task[e].pc # "write"
         /\ \/ records = <<>> /\ Stored(d)
            \/ /\ records # <<>>
               /\ TaskTo(d, "write", task[d].status, task[d].last, <<records[1]>>,
                         task[d].final)
         /\ Counted /\ (ConsumerBusy => "overlap" \in happened')
         /\ UNCHANGED <<records, message, api, user, con, inbox, exec>>
<1>1. Counted /\ (ConsumerBusy => "overlap" \in happened')
  BY Entering DEF ReadForUpsert
<1>2. task[d] \in TaskSet
  BY DEF Types
<1>3. CASE records = <<>>
  <2>1. Become(d, Upserted(d))
    BY <1>3 DEF ReadForUpsert
  <2>2. Stored(d)
    BY <2>1, UpsertedIs, Becomes DEF Stored
  <2> QED
    BY <1>1, <1>3, <2>2 DEF ReadForUpsert
<1>4. CASE records # <<>>
  <2> DEFINE r == <<records[1]>>
             a == [task[d] EXCEPT !.pc = "write"]
             b == [a EXCEPT !.snap = r]
  <2>1. <<Head(records)>> \in Seq(Claim) /\ Head(records) = records[1]
    BY <1>4, EmptySeq DEF Types
  <2>2. First = r /\ r \in Seq(Claim)
    BY <1>4, <2>1 DEF First
  <2>3. Become(d, [task[d] EXCEPT !.pc = "write", !.snap = r])
    BY <1>4, <2>2 DEF ReadForUpsert
  <2>4. b = [task[d] EXCEPT !.pc = "write", !.snap = r]
    BY Zenon
  <2> HIDE DEF r
  <2>5. IsTask(a, "write", task[d].status, task[d].last, task[d].snap, task[d].final)
    BY <1>2, TaskWith DEF TaskPlaces
  <2> HIDE DEF a
  <2>6. a \in TaskSet
    BY <2>5 DEF IsTask
  <2>7. IsTask(b, "write", task[d].status, task[d].last, r, task[d].final)
    BY <2>2, <2>5, <2>6, TaskWith DEF IsTask
  <2> HIDE DEF b
  <2>8. TaskTo(d, "write", task[d].status, task[d].last, r, task[d].final)
    BY <2>3, <2>4, <2>7, Becomes
  <2> QED
    BY <1>1, <1>4, <2>8 DEF ReadForUpsert, r
<1> QED
  BY <1>3, <1>4

(* The entry that the task of d writes, in the place of the one it wrote.  *)
EntryOf(d) == [doc |-> d, run |-> run, status |-> task[d].status]

WithEntry(d, docs) == {e \in docs : e.doc # d \/ e.run # run} \cup {EntryOf(d)}

LEMMA UpsertIs ==
  ASSUME Types, Shape, NEW d \in Docs, Upsert(d)
  PROVE  /\ task[d].pc = "write" /\ Stored(d) /\ task[d].snap[1] \in Claim
         /\ \E c \in Claim :
              /\ records' = Store(c)
              /\ LET o == task[d].snap[1]
                 IN  IsClaim(c, o.status, o.named, o.summary, o.gaps, o.comment,
                             WithEntry(d, o.docs))
         /\ UNCHANGED <<message, api, user, con, inbox, exec, faults>>
<1> DEFINE o == task[d].snap[1]
           Entries == [doc : Docs, run : Nat, status : DocStatuses]
           c == [o EXCEPT !.docs = WithEntry(d, o.docs)]
<1>1. task[d].pc = "write" /\ Len(task[d].snap) = 1 /\ task[d].snap \in Seq(Claim)
      /\ task[d].status \in DocStatuses
  BY DEF Upsert, Shape, Types, TaskSet, TaskStatuses
<1>2. o \in Claim
  BY <1>1
<1>3. EntryOf(d) \in Entries
  BY <1>1 DEF EntryOf, Types
<1>4. o.docs \in SUBSET Entries
  BY <1>2 DEF Claim
<1>5. WithEntry(d, o.docs) \in SUBSET Entries
  BY <1>3, <1>4 DEF WithEntry
<1>6. IsClaim(c, o.status, o.named, o.summary, o.gaps, o.comment, WithEntry(d, o.docs))
  BY <1>2, <1>5, ClaimWith
<1>7. records' = Store(c)
  <2>1. c = [o EXCEPT !.docs = {e \in @ : e.doc # d \/ e.run # run}
                           \cup {[doc |-> d, run |-> run, status |-> task[d].status]}]
    BY Zenon DEF WithEntry, EntryOf
  <2> QED
    BY <2>1, Zenon DEF Upsert
<1>8. Stored(d)
  BY UpsertedIs, Becomes DEF Upsert, Stored
<1>9. UNCHANGED <<message, api, user, con, inbox, exec, faults>>
  BY DEF Upsert
<1> HIDE DEF c
<1> QED
  BY <1>1, <1>2, <1>6, <1>7, <1>8, <1>9 DEF IsClaim

LEMMA TaskFailsIs ==
  ASSUME Types, NEW d \in Docs, TaskFails(d)
  PROVE  /\ TaskTo(d, "done", "exception", "none", <<>>, FALSE)
         /\ task[d].pc # "waiting" /\ Counted
         /\ UNCHANGED <<records, message, api, user, con, inbox, exec>>
<1>1. Counted
  BY Faulty DEF TaskFails
<1>2. TaskTo(d, "done", "exception", "none", <<>>, FALSE)
  BY RejectedIs, Becomes DEF TaskFails
<1> QED
  BY <1>1, <1>2 DEF TaskFails, Running

-------------------------------------------------------------------------------
(* The steps of the API.                                                   *)
LEMMA ApiIs ==
  ASSUME Types, ApiCall \/ ApiFails \/ Comment \/ DeleteClaim
  PROVE  /\ \/ api = "get" /\ api' = "add" /\ records = <<>> /\ UNCHANGED <<records, user>>
            \/ api = "get" /\ api' = "delete" /\ UNCHANGED <<records, user>>
            \/ api = "delete" /\ api' = "add" /\ records' = RemoveFirst /\ user' = user
            \/ /\ api = "add" /\ api' = "done" /\ user' = user
               /\ records' = Append(records, Blank("Pending", FALSE))
            \/ /\ api \in {"get", "delete", "add"} /\ api' = "done" /\ happened' # {}
               /\ UNCHANGED <<records, user>>
            \/ "comment" \in happened' /\ records' = records /\ api' = api
            \/ user # <<>> /\ api' = api
            \/ "delete" \in happened' /\ api' = api
         /\ records' \in Seq(Claim) /\ user' \in Seq(Claim) /\ Len(user') <= 1
         /\ api' \in {"idle", "get", "delete", "add", "done"} /\ (api' = "idle" => api = "idle")
         /\ Counted /\ UNCHANGED <<message, con, inbox, exec, task>>
<1>0. NoFault => Counted
  BY Faulty
<1>1. CASE ApiCall
  <2>1. Blank("Pending", FALSE) \in Claim
    <3>1. "Pending" \in Statuses
      BY DEF Statuses
    <3> QED
      BY <3>1 DEF Blank, Claim
  <2>2. NoFault /\ UNCHANGED <<message, con, inbox, exec, task, user>>
    BY <1>1 DEF ApiCall, NoFault
  <2>3. \/ api = "get" /\ api' = "add" /\ records = <<>> /\ records' = records
        \/ api = "get" /\ api' = "delete" /\ records' = records
        \/ api = "delete" /\ api' = "add" /\ records' = RemoveFirst
        \/ /\ api = "add" /\ api' = "done"
           /\ records' = Append(records, Blank("Pending", FALSE))
    BY <1>1 DEF ApiCall
  <2>4. records' \in Seq(Claim)
    BY <2>1, <2>3, CollectionIs DEF Types
  <2> QED
    BY <1>0, <2>2, <2>3, <2>4 DEF Types
<1>2. CASE ApiFails
  <2>1. Counted /\ happened' # {}
    BY <1>2, Faulty DEF ApiFails, Occurs
  <2> QED
    BY <1>2, <2>1 DEF ApiFails, Types
<1>3. CASE Comment
  <2>1. CASE user = <<>>
    <3>1. Counted /\ "comment" \in happened'
      BY <1>3, <2>1, Faulty DEF Comment, Occurs
    <3>2. records # <<>> /\ user' = First /\ records' = records
      BY <1>3, <2>1 DEF Comment
    <3>3. user' \in Seq(Claim) /\ Len(user') <= 1
      BY <3>2, Replaced DEF Types, First
    <3> QED
      BY <1>3, <3>1, <3>2, <3>3 DEF Comment, Types
  <2>2. CASE user # <<>>
    <3>1. user[1] \in Claim
      BY <2>2, Replaced DEF Types
    <3>2. [user[1] EXCEPT !.comment = "user"] \in Claim
      BY <3>1, ClaimWith DEF IsClaim
    <3>3. records' = Store([user[1] EXCEPT !.comment = "user"]) /\ NoFault /\ user' = <<>>
      BY <1>3, <2>2 DEF Comment
    <3>4. records' \in Seq(Claim)
      BY <3>2, <3>3, StoreIs
    <3>5. user' \in Seq(Claim) /\ Len(user') <= 1
      BY <3>3
    <3> QED
      BY <1>0, <1>3, <2>2, <3>3, <3>4, <3>5 DEF Comment, Types
  <2> QED
    BY <2>1, <2>2
<1>4. CASE DeleteClaim
  <2>1. Counted /\ "delete" \in happened'
    BY <1>4, Faulty DEF DeleteClaim, Occurs
  <2>2. records' \in Seq(Claim)
    BY <1>4, CollectionIs DEF DeleteClaim, RemoveFirst
  <2> QED
    BY <1>4, <2>1, <2>2 DEF DeleteClaim, Types
<1> QED
  BY <1>1, <1>2, <1>3, <1>4

-------------------------------------------------------------------------------
(* Types, places and events.                                               *)
Basics == Types /\ Shape /\ Flow

LEMMA FaultsKept ==
  ASSUME Types, UNCHANGED faults
  PROVE  Counted
BY DEF Types, faults, Counted

LEMMA BasicsApi ==
  ASSUME Basics, Submit \/ ApiCall \/ ApiFails \/ Comment \/ DeleteClaim
  PROVE  Basics'
<1>. Types /\ Shape /\ Flow
  BY DEF Basics
<1>1. CASE Submit
  <2>1. Types'
    <3>1. con' \in ConSet /\ queued' \in BOOLEAN /\ attempts' \in Nat /\ api' = "get" /\ Counted
          /\ UNCHANGED <<records, run, user, inbox, exec, task>>
      BY <1>1, SubmitIs DEF IsCon
    <3> QED
      BY <3>1 DEF Types, Counted
  <2>2. Shape'
    BY <1>1, SubmitIs DEF Shape, IsCon, Creating
  <2>3. Flow'
    BY <1>1, SubmitIs DEF Flow, IsCon, Ending, Handling
  <2> QED
    BY <2>1, <2>2, <2>3 DEF Basics
<1>2. CASE ApiCall \/ ApiFails \/ Comment \/ DeleteClaim
  <2>1. Types'
    BY <1>2, ApiIs DEF Types, Counted, message
  <2>2. Shape'
    BY <1>2, ApiIs DEF Shape, Creating
  <2>3. Flow'
    <3>1. UNCHANGED <<con, inbox, exec, queued>> /\ (api' = "idle" => api = "idle")
      BY <1>2, ApiIs DEF message
    <3> QED
      BY <3>1 DEF Flow, Ending, Handling, Coming
  <2> QED
    BY <2>1, <2>2, <2>3 DEF Basics
<1> QED
  BY <1>1, <1>2

(* What a step of a task leaves alone, and what becomes of its task.       *)
Fine(t) == /\ t.pc = "write" => Len(t.snap) = 1
           /\ t.pc # "done" => t.status # "exception"

TaskMoves(d) ==
  /\ task' \in [Docs -> TaskSet] /\ \A e \in Docs \ {d} : task'[e] = task[e]
  /\ Fine(task'[d])
  /\ records' \in Seq(Claim) /\ Counted
  /\ UNCHANGED <<message, api, user, con, inbox, exec>>

LEMMA TasksMove ==
  ASSUME Types, Shape, NEW d \in Docs, Task(d) \/ TaskFails(d)
  PROVE  TaskMoves(d)
<1>1. \A s \in DocStatuses : s # "exception"
  BY DEF DocStatuses
<1>2. task[d] \in TaskSet /\ (task[d].pc # "done" => task[d].status # "exception")
  BY DEF Types, Shape
<1>3. ASSUME SubmitDoc(d) PROVE TaskMoves(d)
  <2>1. Fine(task'[d]) /\ task' \in [Docs -> TaskSet] /\ \A e \in Docs \ {d} : task'[e] = task[e]
    BY <1>3, SubmitDocIs DEF TaskTo, IsTask, Fine
  <2> QED
    BY <1>3, <2>1, SubmitDocIs, FaultsKept DEF TaskMoves, Types
<1>4. ASSUME Poll(d) PROVE TaskMoves(d)
  <2>1. \/ \E s \in {"processing", "step"} :
             TaskTo(d, "upsert", s, s, task[d].snap, task[d].final)
        \/ \E s \in DocStatuses :
             TaskTo(d, "fetch", s, task[d].last, task[d].snap, task[d].final)
    BY <1>4, PollIs
  <2>2. Fine(task'[d]) /\ task' \in [Docs -> TaskSet] /\ \A e \in Docs \ {d} : task'[e] = task[e]
    BY <1>1, <2>1 DEF TaskTo, IsTask, Fine
  <2> QED
    BY <1>4, <2>2, PollIs, FaultsKept DEF TaskMoves, Types
<1>5. ASSUME Fetch(d) PROVE TaskMoves(d)
  <2>1. \E s \in DocStatuses : TaskTo(d, "upsert", s, task[d].last, task[d].snap, TRUE)
    BY <1>5, FetchIs
  <2>2. Fine(task'[d]) /\ task' \in [Docs -> TaskSet] /\ \A e \in Docs \ {d} : task'[e] = task[e]
    BY <1>1, <2>1 DEF TaskTo, IsTask, Fine
  <2> QED
    BY <1>5, <2>2, FetchIs, FaultsKept DEF TaskMoves, Types
<1>6. ASSUME ReadForUpsert(d) PROVE TaskMoves(d)
  <2>1. Len(<<records[1]>>) = 1
    OBVIOUS
  <2>2. task[d].pc = "upsert" /\ UNCHANGED <<records, message, api, user, con, inbox, exec>>
        /\ Counted
    BY <1>6, ReadForUpsertIs
  <2>3. \/ Stored(d)
        \/ TaskTo(d, "write", task[d].status, task[d].last, <<records[1]>>, task[d].final)
    BY <1>6, ReadForUpsertIs
  <2>4. Fine(task'[d]) /\ task' \in [Docs -> TaskSet] /\ \A e \in Docs \ {d} : task'[e] = task[e]
    BY <1>2, <2>1, <2>2, <2>3 DEF TaskTo, IsTask, Stored, Fine
  <2> QED
    BY <2>2, <2>4 DEF TaskMoves, Types
<1>7. ASSUME Upsert(d) PROVE TaskMoves(d)
  <2>1. task[d].pc = "write" /\ Stored(d)
        /\ UNCHANGED <<message, api, user, con, inbox, exec, faults>>
    BY <1>7, UpsertIs
  <2>2. Fine(task'[d]) /\ task' \in [Docs -> TaskSet] /\ \A e \in Docs \ {d} : task'[e] = task[e]
    BY <1>2, <2>1 DEF TaskTo, IsTask, Stored, Fine
  <2>3. PICK c \in Claim : records' = Store(c)
    BY <1>7, UpsertIs
  <2>4. records' \in Seq(Claim)
    BY <2>3, StoreIs
  <2> QED
    BY <2>1, <2>2, <2>4, FaultsKept DEF TaskMoves
<1>8. ASSUME TaskFails(d) PROVE TaskMoves(d)
  <2>1. Fine(task'[d]) /\ task' \in [Docs -> TaskSet] /\ \A e \in Docs \ {d} : task'[e] = task[e]
    BY <1>8, TaskFailsIs DEF TaskTo, IsTask, Fine
  <2> QED
    BY <1>8, <2>1, TaskFailsIs DEF TaskMoves, Types
<1> QED
  BY <1>3, <1>4, <1>5, <1>6, <1>7, <1>8 DEF Task

LEMMA BasicsTasks ==
  ASSUME Basics, NEW d \in Docs, Task(d) \/ TaskFails(d)
  PROVE  Basics'
<1>. Types /\ Shape /\ Flow
  BY DEF Basics
<1>1. TaskMoves(d)
  BY TasksMove
<1>2. Types'
  BY <1>1 DEF TaskMoves, Types, Counted, message
<1>3. Shape'
  <2>1. \A e \in Docs : Fine(task'[e])
    <3>1. \A e \in Docs \ {d} : Fine(task'[e])
      BY <1>1 DEF TaskMoves, Shape, Fine
    <3> QED
      BY <1>1, <3>1 DEF TaskMoves
  <2> QED
    BY <1>1, <2>1 DEF TaskMoves, Shape, Fine, Creating
<1>4. Flow'
  <2>1. UNCHANGED <<con, inbox, exec, api, queued>>
    BY <1>1 DEF TaskMoves, message
  <2> QED
    BY <2>1 DEF Flow, Ending, Handling, Coming
<1> QED
  BY <1>2, <1>3, <1>4 DEF Basics

(* What the consumer plans for an event.                                   *)
LEMMA PlanIs ==
  /\ \A x \in Stages : Plan(x) = <<x>> /\ Verdict(x) = "none"
  /\ Plan("output") = <<"Completed", "time">> /\ Verdict("output") = "returned"
  /\ Plan("failed") = <<"Failed", "comment", "time">> /\ Verdict("failed") = "failed"
BY DEF Plan, Verdict, Stages

(* The update of an event is done or was not needed.                       *)
LEMMA UpdateDone ==
  ASSUME Basics, Handling, con' = NextUpdate, UNCHANGED <<inbox, exec, task, api, queued>>
  PROVE  Shape' /\ Flow' /\ con' \in ConSet
<1>. Types /\ Shape /\ Flow
  BY DEF Basics
<1>1. con.todo # <<>>
  BY DEF Shape, Handling
<1>2. IsCon(con', IF Tail(con.todo) # <<>> THEN "read"
                  ELSE IF con.verdict = "none" THEN "next" ELSE "end",
            Tail(con.todo), <<>>, con.verdict)
  BY <1>1, NextUpdateIs
<1>3. Shape'
  BY <1>2 DEF Shape, IsCon, Creating
<1>4. CASE exec.stage # "none"
  <2>1. con.todo = <<exec.stage>> /\ inbox = <<>> /\ con.verdict = "none"
    BY <1>4 DEF Flow, Handling
  <2>2. con'.pc = "next" /\ con'.verdict = "none"
    BY <1>2, <2>1, OneOrTwo DEF IsCon
  <2>3. api # "idle" /\ con.pc # "off"
    BY DEF Flow, Handling
  <2> QED
    BY <1>2, <1>3, <1>4, <2>1, <2>2, <2>3 DEF Flow, Ending, Handling, IsCon
<1>5. CASE exec.stage = "none" /\ con.verdict = "none"
  <2>1. PICK event \in {"failed", "output"}, x \in Stages :
          con.todo = <<x>> /\ inbox = <<event>>
    BY <1>5 DEF Flow, Handling, Ending, Coming
  <2>2. con'.pc = "next" /\ con'.verdict = "none"
    BY <1>2, <1>5, <2>1, OneOrTwo DEF IsCon
  <2>3. api # "idle" /\ con.pc # "off"
    BY DEF Flow, Handling
  <2> QED
    BY <1>2, <1>3, <1>5, <2>1, <2>2, <2>3 DEF Flow, Ending, Handling, IsCon
<1>6. CASE con.verdict # "none"
  <2>1. exec.stage = "none" /\ inbox = <<>> /\ con'.verdict = con.verdict
    BY <1>2, <1>6 DEF Flow, IsCon
  <2>2. con'.pc \in {"read", "end"} /\ con'.todo = Tail(con.todo)
        /\ (con'.pc = "read" => Tail(con.todo) # <<>>)
    BY <1>2, <1>6 DEF IsCon
  <2>3. ASSUME con.verdict = "returned" PROVE Tail(con.todo) \in {<<"time">>, <<>>}
    <3>1. con.todo = <<"Completed", "time">> \/ con.todo = <<"time">>
      BY <2>3 DEF Flow, Handling
    <3>2. Tail(<<"Completed", "time">>) = <<"time">> /\ Tail(<<"time">>) = <<>>
      BY OneOrTwo
    <3> QED
      BY <3>1, <3>2, Zenon
  <2>4. ASSUME con.verdict = "failed"
        PROVE  Tail(con.todo) \in {<<"comment", "time">>, <<"time">>, <<>>}
    <3>1. \/ con.todo = <<"Failed", "comment", "time">>
          \/ con.todo = <<"comment", "time">> \/ con.todo = <<"time">>
      BY <2>4 DEF Flow, Handling
    <3>2. /\ Tail(<<"Failed", "comment", "time">>) = <<"comment", "time">>
          /\ Tail(<<"comment", "time">>) = <<"time">> /\ Tail(<<"time">>) = <<>>
      BY OneOrTwo
    <3> QED
      BY <3>1, <3>2, Zenon
  <2>5. con.verdict = "raised" => Tail(con.todo) = <<>>
    BY OneOrTwo DEF Flow, Handling
  <2>6. api # "idle"
    BY DEF Flow, Handling
  <2> QED
    BY <1>2, <1>3, <1>6, <2>1, <2>2, <2>3, <2>4, <2>5, <2>6
    DEF Flow, Ending, Handling, IsCon
<1> QED
  BY <1>2, <1>3, <1>4, <1>5, <1>6 DEF IsCon

LEMMA BasicsConsume ==
  ASSUME Basics, Consume
  PROVE  Basics'
<1>. Types /\ Shape /\ Flow
  BY DEF Basics
<1>1. /\ con.pc = "next" /\ inbox # <<>> /\ inbox' = Tail(inbox) /\ inbox' \in Seq(Events)
      /\ IsCon(con', "read", Plan(Head(inbox)), <<>>, Verdict(Head(inbox)))
      /\ Plan(Head(inbox)) # <<>>
      /\ UNCHANGED <<records, message, api, user, exec, task, faults>>
  BY ConsumeIs
<1>2. Types'
  BY <1>1 DEF Types, IsCon, message, faults
<1>3. Shape'
  BY <1>1 DEF Shape, IsCon, Creating
<1>4. con.verdict = "none" /\ api' # "idle" /\ exec' = exec
  BY <1>1 DEF Flow
<1>5. CASE exec.stage # "none"
  <2>1. inbox = <<exec.stage>> /\ exec.stage \in Stages
    BY <1>1, <1>5 DEF Flow, Types, ExecSet
  <2>2. inbox' = <<>> /\ con'.todo = <<exec.stage>> /\ con'.verdict = "none"
    BY <1>1, <2>1, OneOrTwo, PlanIs DEF IsCon
  <2> QED
    BY <1>1, <1>2, <1>3, <1>4, <1>5, <2>2 DEF Basics, Flow, Ending, Handling, IsCon
<1>6. CASE exec.stage = "none"
  <2>1. PICK event \in {"failed", "output"} :
          \/ inbox = <<event>>
          \/ \E x \in Stages : (event = "output" => x = "GapAnalysis") /\ inbox = <<x, event>>
    BY <1>1, <1>4, <1>6 DEF Flow, Ending, Coming
  <2>2. CASE inbox = <<event>>
    <3>1. inbox' = <<>> /\ con'.todo = Plan(event) /\ con'.verdict = Verdict(event)
      BY <1>1, <2>2, OneOrTwo DEF IsCon
    <3>2. \/ con'.todo = <<"Completed", "time">> /\ con'.verdict = "returned"
          \/ con'.todo = <<"Failed", "comment", "time">> /\ con'.verdict = "failed"
      BY <2>1, <3>1, PlanIs
    <3> QED
      BY <1>1, <1>2, <1>3, <1>4, <1>6, <3>1, <3>2 DEF Basics, Flow, Ending, Handling, IsCon
  <2>3. ASSUME NEW x \in Stages, event = "output" => x = "GapAnalysis", inbox = <<x, event>>
        PROVE  Flow'
    <3>1. inbox' = <<event>> /\ con'.todo = <<x>> /\ con'.verdict = "none"
      BY <1>1, <2>3, OneOrTwo, PlanIs DEF IsCon
    <3>2. Coming(x, event)'
      BY <1>1, <3>1 DEF Coming, IsCon
    <3> QED
      BY <1>1, <1>4, <1>6, <2>1, <2>3, <3>1, <3>2 DEF Flow, Ending, Handling, IsCon
  <2> QED
    BY <1>2, <1>3, <2>1, <2>2, <2>3 DEF Basics
<1> QED
  BY <1>5, <1>6

LEMMA BasicsConsumer ==
  ASSUME Basics, Consumer \/ UpdateFails \/ Crash
  PROVE  Basics'
<1>. Types /\ Shape /\ Flow
  BY DEF Basics
<1>1. CASE StartRun
  <2>1. /\ queued /\ IsCon(con', "next", <<>>, <<>>, "none")
        /\ IsExec(exec', "Processing", "get", <<>>)
        /\ inbox' = <<"Processing">> /\ run' = run + 1 /\ attempts' = attempts + 1
        /\ \A d \in Docs : IsTask(task'[d], "waiting", "processing", "none", <<>>, FALSE)
        /\ task' \in [Docs -> TaskSet]
        /\ UNCHANGED <<records, queued, api, user>> /\ Counted
    BY <1>1, StartRunIs
  <2>2. <<"Processing">> \in Seq(Events)
    BY DEF Events, Stages
  <2>3. Types'
    BY <2>1, <2>2 DEF Types, Counted, IsCon, IsExec
  <2>4. Shape'
    BY <2>1 DEF Shape, Creating, IsCon, IsExec, IsTask
  <2>5. api' # "idle"
    BY <2>1 DEF Flow
  <2>6. Flow'
    BY <2>1, <2>5 DEF Flow, Ending, Handling, IsCon, IsExec
  <2> QED
    BY <2>3, <2>4, <2>6 DEF Basics
<1>2. CASE Consume
  BY <1>2, BasicsConsume
<1>3. CASE ReadClaim
  <2>1. /\ con.pc = "read" /\ con.todo # <<>>
        /\ UNCHANGED <<records, message, api, user, inbox, exec, task>> /\ Counted
    BY <1>3, ReadClaimIs
  <2>2. CASE con' = NextUpdate
    <3>1. Shape' /\ Flow' /\ con' \in ConSet
      BY <2>1, <2>2, UpdateDone DEF message, Handling
    <3> QED
      BY <2>1, <3>1 DEF Types, Counted, Basics, message
  <2>3. CASE IsCon(con', "write", con.todo, <<records[1]>>, con.verdict)
    <3>1. Len(<<records[1]>>) = 1
      OBVIOUS
    <3>2. Types'
      BY <2>1, <2>3 DEF Types, Counted, message, IsCon
    <3>3. Shape'
      BY <2>1, <2>3, <3>1 DEF Shape, Creating, IsCon
    <3>4. Flow'
      BY <2>1, <2>3 DEF Flow, Handling, Ending, Coming, IsCon, message
    <3> QED
      BY <3>2, <3>3, <3>4 DEF Basics
  <2> QED
    BY <1>3, <2>2, <2>3, ReadClaimIs
<1>4. CASE WriteClaim
  <2>1. /\ con.pc = "write" /\ con' = NextUpdate
        /\ records' = Store(Updated(con.snap[1], Head(con.todo)))
        /\ Updated(con.snap[1], Head(con.todo)) \in Claim
        /\ UNCHANGED <<message, api, user, inbox, exec, task, faults>>
    BY <1>4, WriteClaimIs
  <2>2. Shape' /\ Flow' /\ con' \in ConSet
    BY <2>1, UpdateDone DEF message, Handling
  <2>3. records' \in Seq(Claim) /\ Counted
    BY <2>1, StoreIs, FaultsKept
  <2> QED
    BY <2>1, <2>2, <2>3 DEF Types, Counted, Basics, message
<1>5. CASE EndRun
  <2>1. /\ con.pc = "end" /\ IsCon(con', "off", con.todo, con.snap, con.verdict)
        /\ IsExec(exec', "none", "off", <<>>) /\ inbox' = <<>> /\ queued' \in BOOLEAN
        /\ UNCHANGED <<records, attempts, run, api, user, task, faults>>
    BY <1>5, EndRunIs
  <2>2. Types'
    BY <2>1 DEF Types, IsCon, IsExec, faults
  <2>3. Shape'
    BY <2>1 DEF Shape, Creating, IsCon, IsExec
  <2>4. api' # "idle"
    BY <2>1 DEF Flow
  <2>5. Flow'
    BY <2>1, <2>4 DEF Flow, Handling, Ending, IsCon, IsExec
  <2> QED
    BY <2>2, <2>3, <2>5 DEF Basics
<1>6. CASE UpdateFails
  <2>1. /\ con.pc \in {"read", "write"}
        /\ \/ IsCon(con', "end", <<>>, <<>>, "raised")
           \/ IsCon(con', "read", <<"time">>, <<>>, "raised")
        /\ IsExec(exec', "none", "off", <<>>) /\ inbox' = <<>>
        /\ UNCHANGED <<records, message, api, user, task>> /\ Counted
    BY <1>6, UpdateFailsIs
  <2>2. Types'
    BY <2>1 DEF Types, Counted, message, IsCon, IsExec
  <2>3. Shape'
    <3>1. con'.pc # "write" /\ (con'.pc = "read" => con'.todo # <<>>)
      BY <2>1, OneOrTwo DEF IsCon
    <3> QED
      BY <2>1, <3>1 DEF Shape, Creating, IsExec
  <2>4. api' # "idle"
    BY <2>1 DEF Flow
  <2>5. Flow'
    BY <2>1, <2>4 DEF Flow, Handling, Ending, IsCon, IsExec
  <2> QED
    BY <2>2, <2>3, <2>5 DEF Basics
<1>7. CASE Crash
  <2>1. /\ con.pc # "off" /\ IsCon(con', "off", <<>>, <<>>, "none")
        /\ IsExec(exec', "none", "off", <<>>) /\ inbox' = <<>>
        /\ UNCHANGED <<records, message, api, user, task>> /\ Counted
    BY <1>7, CrashIs
  <2>2. Types'
    BY <2>1 DEF Types, Counted, message, IsCon, IsExec
  <2>3. Shape'
    BY <2>1 DEF Shape, Creating, IsCon, IsExec
  <2>4. Flow'
    BY <2>1 DEF Flow, Handling, Ending, IsCon, IsExec, message
  <2> QED
    BY <2>2, <2>3, <2>4 DEF Basics
<1> QED
  BY <1>1, <1>2, <1>3, <1>4, <1>5, <1>6, <1>7 DEF Consumer

(* The event that an executor leaves when it is gone.                      *)
LEMMA ExecutorGone ==
  ASSUME Basics, NoExec, NEW event \in {"failed", "output"}, inbox' = Append(inbox, event),
         event = "output" => exec.stage = "GapAnalysis", NEW stage, exec.stage = stage,
         stage # "none",
         UNCHANGED <<con, task, api, queued>>
  PROVE  /\ Shape' /\ Flow' /\ exec' \in ExecSet /\ inbox' \in Seq(Events) /\ Ending'
         /\ stage \in Stages /\ con.verdict = "none"
         /\ \/ con.pc = "next" /\ inbox' = <<event>>
            \/ Waiting /\ Coming(stage, event)'
<1>. Types /\ Shape /\ Flow
  BY DEF Basics
<1>1. stage \in Stages /\ con.verdict = "none" /\ con.pc \in {"next", "read", "write"}
  BY DEF Types, ExecSet, Flow
<1>2. event \in Events /\ stage \in Events
  BY <1>1 DEF Events
<1>3. inbox' \in Seq(Events)
  BY <1>2 DEF Types
<1>4. Shape'
  BY DEF Shape, NoExec, IsExec, Creating
<1>5. \/ con.pc = "next" /\ inbox = <<>> /\ inbox' = <<event>>
      \/ Waiting /\ Coming(stage, event)'
  <2>0. Append(<<>>, event) = <<event>> /\ Append(<<stage>>, event) = <<stage, event>>
    BY <1>2, Appended
  <2>1. CASE con.pc = "next" /\ inbox = <<>>
    BY <2>0, <2>1
  <2>2. CASE con.pc = "next" /\ inbox = <<stage>>
    <3>1. inbox' = <<stage, event>> /\ inbox # <<>>
      BY <2>0, <2>2, OneOrTwo
    <3> QED
      BY <2>2, <3>1 DEF Coming, Waiting
  <2>3. CASE con.pc \in {"read", "write"}
    <3>1. inbox = <<>> /\ con.todo = <<stage>>
      BY <2>3 DEF Flow, Handling
    <3>2. inbox' = <<event>>
      BY <2>0, <3>1
    <3> QED
      BY <2>3, <3>1, <3>2 DEF Coming, Waiting, Handling
  <2> QED
    BY <1>1, <2>1, <2>2, <2>3 DEF Flow
<1>6. exec'.stage = "none" /\ exec'.pc = "off" /\ exec' \in ExecSet
  BY DEF NoExec, IsExec
<1>7. Ending'
  BY <1>1, <1>6 DEF Ending
<1>8. Flow'
  <2>1. \E e \in {"failed", "output"} :
          \/ con'.pc = "next" /\ inbox' = <<e>>
          \/ \E x \in Stages : (e = "output" => x = "GapAnalysis") /\ Coming(x, e)'
    BY <1>1, <1>5
  <2>2. con' = con /\ con.verdict = "none" /\ con.pc \in {"next", "read", "write"}
    BY <1>1
  <2>3. api' # "idle"
    BY <2>2 DEF Flow
  <2>4. con'.pc # "off" /\ con'.pc # "end" /\ con'.verdict = "none"
    BY <2>2
  <2> QED
    BY <1>6, <2>1, <2>3, <2>4 DEF Flow
<1> QED
  BY <1>1, <1>3, <1>4, <1>5, <1>6, <1>7, <1>8

(* The executor moves on and the consumer has what it had.                 *)
LEMMA ExecutorMoves ==
  ASSUME Basics, exec.stage # "none", NEW pc, NEW snap, IsExec(exec', exec.stage, pc, snap),
         UNCHANGED <<con, inbox, task, api, queued>>,
         pc # "off", pc \in {"get", "delete", "add", "tasks"} => exec.stage = "Processing",
         pc = "work" => exec.stage # "Processing",
         pc = "write" => exec.stage \in {"Summarizing", "GapAnalysis"} /\ Len(snap) = 1,
         pc = "sent" => exec.stage # "GapAnalysis"
  PROVE  Shape' /\ Flow' /\ exec' \in ExecSet
<1>. Types /\ Shape /\ Flow
  BY DEF Basics
<1>1. exec.stage \in Stages
  BY DEF Types, ExecSet
<1>2. Shape'
  BY <1>1 DEF Shape, IsExec, Creating
<1>3. Flow'
  BY <1>1 DEF Flow, IsExec, Ending, Handling
<1> QED
  BY <1>2, <1>3 DEF IsExec

LEMMA BasicsExecutor ==
  ASSUME Basics, Executor \/ ExecutorFails
  PROVE  Basics'
<1>. Types /\ Shape /\ Flow
  BY DEF Basics
<1>1. CASE Create
  <2>1. exec.pc \in {"get", "delete", "add"} /\ exec.stage = "Processing" /\ Counted
        /\ UNCHANGED <<message, api, user, con, inbox, task>>
    BY <1>1, CreateIs DEF Shape, Creating
  <2>2. ExecTo("add") \/ ExecTo("delete") \/ ExecTo("tasks")
    BY <1>1, CreateIs
  <2>3. Shape' /\ Flow' /\ exec' \in ExecSet
    BY <2>1, <2>2, ExecutorMoves DEF ExecTo, message
  <2>4. Blank("Processing", TRUE) \in Claim
    BY ClaimWith DEF Blank, Claim, Statuses, Stages
  <2>5. records' \in Seq(Claim)
    BY <1>1, <2>4, CreateIs, CollectionIs DEF Types
  <2> QED
    BY <2>1, <2>3, <2>5 DEF Basics, Types, Counted, message
<1>2. CASE TasksDone \/ Approve
  <2>1. /\ exec.pc \in {"tasks", "work"} /\ ExecTo("sent")
        /\ exec.pc = "work" => exec.stage = "RAIAnalysis"
        /\ UNCHANGED <<records, message, api, user, con, inbox, task, faults>>
    BY <1>2, SentIs
  <2>2. exec.stage \notin {"none", "GapAnalysis"}
    BY <2>1 DEF Shape
  <2>3. Shape' /\ Flow' /\ exec' \in ExecSet
    BY <2>1, <2>2, ExecutorMoves DEF ExecTo, message
  <2> QED
    BY <2>1, <2>3 DEF Basics, Types, message, faults
<1>3. ASSUME Delivered, exec.pc \in {"work", "write"},
             exec.stage \in {"Summarizing", "GapAnalysis"},
             UNCHANGED <<message, api, user, con, task>>, Counted, records' \in Seq(Claim)
      PROVE  Basics'
  <2>1. CASE exec.stage = "GapAnalysis"
    <3>1. NoExec /\ inbox' = Append(inbox, "output")
      BY <1>3, <2>1 DEF Delivered
    <3>2. Shape' /\ Flow' /\ exec' \in ExecSet /\ inbox' \in Seq(Events)
      BY <1>3, <2>1, <3>1, ExecutorGone DEF message
    <3> QED
      BY <1>3, <3>2 DEF Basics, Types, Counted, message
  <2>2. CASE exec.stage = "Summarizing"
    <3>1. IsExec(exec', exec.stage, "sent", <<>>) /\ inbox' = inbox
      BY <1>3, <2>2 DEF Delivered
    <3>2. Shape' /\ Flow' /\ exec' \in ExecSet
      BY <1>3, <2>2, <3>1, ExecutorMoves DEF message
    <3> QED
      BY <1>3, <3>1, <3>2 DEF Basics, Types, Counted, message
  <2> QED
    BY <1>3, <2>1, <2>2
<1>4. CASE Analyse
  <2>1. /\ exec.pc = "work" /\ exec.stage \in {"Summarizing", "GapAnalysis"}
        /\ \/ Delivered
           \/ /\ inbox' = inbox
              /\ IsExec(exec', exec.stage, "write", <<records[1]>>)
        /\ Counted /\ UNCHANGED <<records, message, api, user, con, task>>
    BY <1>4, AnalyseIs
  <2>2. CASE Delivered
    BY <1>3, <2>1, <2>2 DEF Types
  <2>3. CASE inbox' = inbox /\ IsExec(exec', exec.stage, "write", <<records[1]>>)
    <3>1. Len(<<records[1]>>) = 1
      OBVIOUS
    <3>2. Shape' /\ Flow' /\ exec' \in ExecSet
      BY <2>1, <2>3, <3>1, ExecutorMoves DEF message
    <3> QED
      BY <2>1, <2>3, <3>2 DEF Basics, Types, Counted, message
  <2> QED
    BY <2>1, <2>2, <2>3
<1>5. CASE SaveAnalysis
  <2>1. PICK c \in Claim : records' = Store(c)
    BY <1>5, SaveAnalysisIs
  <2>2. records' \in Seq(Claim)
    BY <2>1, StoreIs
  <2>3. exec.pc = "write" /\ Delivered /\ UNCHANGED <<message, api, user, con, task>> /\ Counted
    BY <1>5, SaveAnalysisIs, FaultsKept
  <2>4. exec.stage \in {"Summarizing", "GapAnalysis"}
    BY <2>3 DEF Shape
  <2> QED
    BY <1>3, <2>2, <2>3, <2>4
<1>6. CASE NextStage
  <2>1. PICK x \in Stages \ {"Processing"} :
          /\ exec.pc = "sent" /\ inbox = <<>> /\ con.pc = "next"
          /\ IsExec(exec', x, "work", <<>>) /\ inbox' = <<x>>
          /\ UNCHANGED <<records, message, api, user, con, task, faults>>
    BY <1>6, NextStageIs
  <2>2. x # "none" /\ <<x>> \in Seq(Events) /\ exec.stage # "none"
    BY <2>1 DEF Stages, Events, Shape
  <2>3. Shape'
    BY <2>1, <2>2 DEF Shape, IsExec, Creating
  <2>4. Flow'
    <3>1. con.verdict = "none" /\ api # "idle" /\ con' = con
      BY <2>1, <2>2 DEF Flow
    <3> QED
      BY <2>1, <2>2, <3>1 DEF Flow, Ending, Handling, IsExec
  <2> QED
    BY <2>1, <2>2, <2>3, <2>4 DEF Basics, Types, message, faults, IsExec
<1>7. CASE ExecutorFails
  <2>1. /\ exec.pc \in {"get", "work", "delete", "add", "write"}
        /\ NoExec /\ inbox' = Append(inbox, "failed") /\ Counted
        /\ UNCHANGED <<records, message, api, user, con, task>>
    BY <1>7, ExecutorFailsIs
  <2>2. exec.stage # "none"
    BY <2>1 DEF Shape
  <2>3. Shape' /\ Flow' /\ exec' \in ExecSet /\ inbox' \in Seq(Events)
    BY <2>1, <2>2, ExecutorGone DEF message
  <2> QED
    BY <2>1, <2>3 DEF Basics, Types, Counted, message
<1> QED
  BY <1>1, <1>2, <1>4, <1>5, <1>6, <1>7 DEF Executor

LEMMA BasicsStep ==
  ASSUME Basics, [Next]_vars
  PROVE  Basics'
<1>1. CASE UNCHANGED vars
  <2>1. UNCHANGED <<records, queued, attempts, run, api, user, con, inbox, exec, task, budget,
                    happened>>
    BY <1>1 DEF vars, message, faults
  <2>2. Types'
    BY <2>1 DEF Basics, Types
  <2>3. Shape'
    BY <2>1 DEF Basics, Shape, Creating
  <2>4. Flow'
    BY <2>1 DEF Basics, Flow, Ending, Handling, Coming
  <2> QED
    BY <2>2, <2>3, <2>4 DEF Basics
<1>2. CASE Next
  <2>1. \/ Submit \/ ApiCall \/ ApiFails \/ Comment \/ DeleteClaim
        \/ Consumer \/ UpdateFails \/ Crash \/ Executor \/ ExecutorFails
        \/ \E d \in Docs : Task(d) \/ TaskFails(d)
    BY <1>2 DEF Next
  <2> QED
    BY <2>1, BasicsApi, BasicsConsumer, BasicsExecutor, BasicsTasks
<1> QED
  BY <1>1, <1>2

LEMMA BasicsStart ==
  ASSUME Init
  PROVE  Basics
<1>1. IsCon(con, "off", <<>>, <<>>, "none")
  BY NoRunIs DEF Init
<1>2. <<>> \in Seq(Claim) /\ <<>> \in Seq(Events) /\ Len(<<>>) = 0
  OBVIOUS
<1>3. exec \in ExecSet /\ exec.stage = "none" /\ exec.pc = "off"
  BY <1>2 DEF Init, NoExecutor, ExecSet, ExecPlaces
<1>4. task \in [Docs -> TaskSet]
      /\ \A d \in Docs : task[d].pc = "waiting" /\ task[d].status = "processing"
  BY NoTaskIs DEF Init, IsTask
<1>5. Types
  <2>1. Budget \in Nat
    BY ConstantsAssumption
  <2>2. records \in Seq(Claim) /\ user \in Seq(Claim) /\ Len(user) <= 1 /\ inbox \in Seq(Events)
    <3>1. records = <<>> /\ user = <<>> /\ inbox = <<>>
      BY DEF Init
    <3> QED
      BY <1>2, <3>1
  <2>3. budget \in 0 .. Budget /\ happened \subseteq Env /\ attempts \in Nat /\ run \in Nat
        /\ api \in {"idle", "get", "delete", "add", "done"}
    BY <2>1 DEF Init
  <2>4. queued \in BOOLEAN
    BY Zenon DEF Init
  <2> QED
    BY <1>1, <1>3, <1>4, <2>2, <2>3, <2>4 DEF Types, IsCon
<1>6. Shape
  BY <1>1, <1>3, <1>4 DEF Shape, Creating, IsCon
<1>7. Flow
  BY <1>1, <1>3 DEF Init, Flow, Ending, Handling, IsCon
<1> QED
  BY <1>5, <1>6, <1>7 DEF Basics

(* Every behaviour, whatever disturbs it, keeps the types: a record that   *)
(* is written is one that was read, a task has a status that it may store, *)
(* and a stage has a stage that follows it.                                *)
THEOREM ClaimTypes == Spec => []TypeOK
<1>1. Init => Basics
  BY BasicsStart
<1>2. Basics /\ [Next]_vars => Basics'
  BY BasicsStep
<1>3. Basics => TypeOK
  BY TypesAreTypeOK DEF Basics
<1> QED
  BY <1>1, <1>2, <1>3, PTL DEF Spec

-------------------------------------------------------------------------------
(* What the workflow's own writers preserve, as long as no other one does  *)
(* anything to the record.                                                 *)
LEMMA Undisturbing ==
  ASSUME Counted, Undisturbed'
  PROVE  /\ Undisturbed /\ (happened' = {} => happened = {})
         /\ "overlap" \notin happened' /\ "comment" \notin happened'
         /\ "delete" \notin happened' /\ "early" \notin happened'
BY DEF Counted, Undisturbed

(* A record with the documents of r keeps what r keeps.                    *)
LEMMA KeptSame ==
  ASSUME NEW r, NEW c, c.docs = r.docs, c.named = r.named, Kept(r), UNCHANGED <<task, run>>,
         exec'.pc = "tasks" => exec.pc = "tasks", records'[1] = c
  PROVE  Kept(records[1])'
BY DEF Kept

LEMMA ToldOf ==
  ASSUME NEW c, records'[1] = c, Told(c)'
  PROVE  Told(records[1])'
<1>1. Analysed(records[1])'
  BY DEF Told, Analysed, Created
<1>2. Staged(records[1])'
  BY DEF Told, Staged, Created, Creating, Waiting, Handling
<1>3. Ended(records[1])'
  BY DEF Told, Ended
<1>4. Judged(records[1])'
  BY DEF Told, Judged
<1> QED
  BY <1>1, <1>2, <1>3, <1>4 DEF Told

LEMMA SteadyApi ==
  ASSUME Basics, Steady, Undisturbed', Submit \/ ApiCall \/ ApiFails \/ Comment \/ DeleteClaim
  PROVE  Steady'
<1>. Types /\ Shape /\ Flow /\ Held /\ Results /\ Progress
  BY DEF Basics, Steady
<1>1. CASE Submit
  <2>1. /\ con.pc = "off" /\ IsCon(con', "off", <<>>, <<>>, "none") /\ api' = "get"
        /\ UNCHANGED <<records, run, user, inbox, exec, task>> /\ Counted
    BY <1>1, SubmitIs
  <2>2. exec.stage = "none" /\ exec.pc = "off"
    BY <2>1 DEF Flow, Shape
  <2>3. Held'
    BY <2>1, <2>2 DEF Held, IsCon
  <2>4. Results'
    BY <2>1, <2>2, KeptSame DEF Results, Creating
  <2>5. ASSUME records # <<>> PROVE Told(records[1])'
    <3>1. Analysed(records[1])
      BY <2>5 DEF Progress, Told
    <3> QED
      BY <2>1, <2>2, <3>1
      DEF Told, Analysed, Staged, Ended, Judged, Creating, Created, Ending, IsCon
  <2>6. Progress'
    BY <2>1, <2>2, <2>5 DEF Progress, Created, Ending, IsCon
  <2> QED
    BY <2>3, <2>4, <2>6 DEF Steady
<1>2. CASE ApiCall \/ ApiFails \/ Comment \/ DeleteClaim
  <2>1. Counted /\ UNCHANGED <<message, con, inbox, exec, task>>
    BY <1>2, ApiIs
  <2>2. "comment" \notin happened' /\ "delete" \notin happened' /\ user = <<>>
        /\ (happened' = {} => happened = {})
    BY <2>1, Undisturbing DEF Held
  <2>3. \/ api = "get" /\ api' = "add" /\ records = <<>> /\ UNCHANGED <<records, user>>
        \/ api = "get" /\ api' = "delete" /\ UNCHANGED <<records, user>>
        \/ api = "delete" /\ api' = "add" /\ records' = RemoveFirst /\ user' = user
        \/ /\ api = "add" /\ api' = "done" /\ user' = user
           /\ records' = Append(records, Blank("Pending", FALSE))
        \/ /\ api \in {"get", "delete", "add"} /\ api' = "done" /\ happened' # {}
           /\ UNCHANGED <<records, user>>
    BY <1>2, <2>2, ApiIs, Zenon
  <2>4. con.pc = "off" /\ con.verdict = "none" /\ exec.stage = "none" /\ exec.pc = "off"
    BY <2>3 DEF Held, Flow, Shape
  <2>5. Blank("Pending", FALSE) \in Claim /\ Blank("Pending", FALSE).status = "Pending"
        /\ Blank("Pending", FALSE).named = FALSE /\ Blank("Pending", FALSE).docs = {}
    BY DEF Blank, Claim, Statuses
  <2>6. \/ records' = records /\ api' = "add" /\ records = <<>>
        \/ records' = records /\ api' = "delete"
        \/ records' = records /\ api' = "done" /\ happened' # {}
        \/ records' = <<>> /\ api' = "add"
        \/ records' = <<Blank("Pending", FALSE)>> /\ api' = "done"
    <3>1. api = "delete" => RemoveFirst = <<>>
      BY CollectionIs DEF Held
    <3>2. api = "add" => Append(records, Blank("Pending", FALSE)) = <<Blank("Pending", FALSE)>>
      BY <2>5, CollectionIs DEF Held
    <3> QED
      BY <2>3, <3>1, <3>2
  <2>7. PICK b \in Claim : b = Blank("Pending", FALSE)
    BY <2>5
  <2>8. Len(<<b>>) = 1 /\ <<b>> # <<>> /\ <<b>>[1] = b /\ Len(<<>>) = 0
    OBVIOUS
  <2>9. user' = <<>> /\ Len(records') <= 1
    <3>1. user' = <<>>
      BY <2>2, <2>3
    <3>2. Len(records) <= 1
      BY DEF Held
    <3>3. records' = records \/ records' = <<>> \/ records' = <<b>>
      BY <2>6, <2>7, Zenon
    <3>4. Len(<<b>>) <= 1 /\ Len(<<>>) <= 1
      BY <2>8
    <3> QED
      BY <3>1, <3>2, <3>3, <3>4, Zenon
  <2>10. Held'
    BY <2>1, <2>4, <2>6, <2>7, <2>8, <2>9 DEF Held
  <2>11. Results'
    <3>1. CASE records' = records
      BY <2>1, <2>4, <3>1, KeptSame DEF Results, Creating, message
    <3>2. CASE records' = <<>>
      BY <2>1, <2>4, <3>2 DEF Results, Creating
    <3>3. CASE records' = <<b>>
      <4>1. Kept(records[1])'
        BY <2>1, <2>4, <2>5, <2>7, <2>8, <3>3 DEF Kept
      <4> QED
        BY <2>1, <2>4, <4>1 DEF Results, Creating
    <3> QED
      BY <2>6, <2>7, <3>1, <3>2, <3>3
  <2>12. ASSUME records' # <<>> PROVE Told(records[1])'
    <3>1. Analysed(records[1])'
      <4>1. CASE records' = records
        <5>1. Analysed(records[1])
          BY <2>12, <4>1 DEF Progress, Told
        <5> QED
          BY <2>1, <4>1, <5>1 DEF Analysed, Created
      <4>2. CASE records' = <<b>>
        BY <2>1, <2>4, <2>5, <2>7, <2>8, <4>2 DEF Analysed, Created
      <4> QED
        BY <2>6, <2>7, <2>12, <4>1, <4>2
    <3> QED
      BY <2>1, <2>4, <3>1 DEF Told, Staged, Ended, Judged, Creating, Created, Ending
  <2>13. Progress'
    BY <2>1, <2>4, <2>12 DEF Progress, Created, Ending
  <2> QED
    BY <2>10, <2>11, <2>13 DEF Steady
<1> QED
  BY <1>1, <1>2

LEMMA SteadyStartRun ==
  ASSUME Basics, Steady, Undisturbed', StartRun
  PROVE  Steady'
<1>. Types /\ Shape /\ Flow /\ Held /\ Results /\ Progress
  BY DEF Basics, Steady
<1>1. /\ con.pc = "off" /\ IsCon(con', "next", <<>>, <<>>, "none")
      /\ IsExec(exec', "Processing", "get", <<>>) /\ inbox' = <<"Processing">>
      /\ \A d \in Docs : IsTask(task'[d], "waiting", "processing", "none", <<>>, FALSE)
      /\ UNCHANGED <<records, queued, api, user>> /\ Counted
      /\ api = "done" \/ "early" \in happened'
  BY StartRunIs
<1>2. api = "done" /\ (happened' = {} => happened = {}) /\ exec.pc = "off"
  BY <1>1, Undisturbing DEF Flow, Shape
<1>3. Held'
  BY <1>1, <1>2 DEF Held, IsCon, IsExec
<1>4. Results'
  <2>1. Kept(records[1])'
    BY <1>1 DEF Kept, IsExec, IsTask
  <2> QED
    BY <1>1, <2>1 DEF Results, IsTask
<1>5. inbox' # <<>>
  BY <1>1, OneOrTwo
<1>6. ASSUME records # <<>> PROVE Told(records[1])'
  <2>1. Analysed(records[1])
    BY <1>6 DEF Progress, Told
  <2>2. Analysed(records[1])'
    BY <1>1, <2>1 DEF Analysed, Created, IsExec
  <2>3. Staged(records[1])'
    BY <1>1, <1>5 DEF Staged, Created, Waiting, IsExec
  <2> QED
    BY <1>1, <2>2, <2>3 DEF Told, Ended, Judged, Ending, IsCon, IsExec
<1>7. Progress'
  BY <1>1, <1>6 DEF Progress, Created, Ending, IsCon, IsExec
<1> QED
  BY <1>3, <1>4, <1>7 DEF Steady

LEMMA SteadyConsume ==
  ASSUME Basics, Steady, Undisturbed', Consume
  PROVE  Steady'
<1>. Types /\ Shape /\ Flow /\ Held /\ Results /\ Progress
  BY DEF Basics, Steady
<1>1. /\ con.pc = "next" /\ inbox # <<>> /\ inbox' = Tail(inbox)
      /\ IsCon(con', "read", Plan(Head(inbox)), <<>>, Verdict(Head(inbox)))
      /\ UNCHANGED <<records, message, api, user, exec, task, faults>>
  BY ConsumeIs
<1>2. con'.pc = "read" /\ con'.todo = Plan(Head(inbox)) /\ con'.verdict = Verdict(Head(inbox))
  BY <1>1 DEF IsCon
<1>3. con.verdict = "none" /\ api = "done"
  BY <1>1 DEF Flow, Held
<1>4. Held'
  BY <1>1, <1>2, <1>3 DEF Held, faults
<1>5. Results'
  BY <1>1, KeptSame DEF Results, Creating, message
<1>6. Waiting /\ Waiting' /\ Handling'
  BY <1>1, <1>2 DEF Waiting, Handling
<1>7. ASSUME records # <<>> PROVE Analysed(records[1])' /\ Staged(records[1])'
  <2>1. Analysed(records[1]) /\ Staged(records[1])
    BY <1>7 DEF Progress, Told
  <2> QED
    BY <1>1, <1>6, <2>1 DEF Analysed, Staged, Created, Creating
<1>8. (Created' => records' # <<>>) /\ Created' = Created
  BY <1>1 DEF Progress, Created
<1>9. CASE exec.stage # "none"
  <2>1. inbox = <<exec.stage>> /\ exec.stage \in Stages
    BY <1>1, <1>9 DEF Flow, Types, ExecSet
  <2>2. con'.verdict = "none" /\ exec'.stage # "none"
    BY <1>1, <1>2, <1>9, <2>1, OneOrTwo, PlanIs
  <2> QED
    BY <1>1, <1>4, <1>5, <1>7, <1>8, <2>2 DEF Steady, Progress, Told, Ended, Judged, Ending
<1>10. CASE exec.stage = "none"
  <2>0. Ending
    BY <1>1, <1>3, <1>10 DEF Ending
  <2>1. PICK event \in {"failed", "output"} :
          \/ inbox = <<event>>
          \/ \E x \in Stages : (event = "output" => x = "GapAnalysis") /\ inbox = <<x, event>>
    BY <1>1, <2>0 DEF Flow, Coming
  <2>2. CASE inbox = <<event>>
    <3>1. con'.todo = Plan(event) /\ con'.verdict = Verdict(event) /\ con'.verdict # "none"
      BY <1>2, <2>2, OneOrTwo, PlanIs
    <3>2. ~Ending'
      BY <3>1 DEF Ending
    <3>3. CASE event = "failed"
      <4>1. con'.todo = <<"Failed", "comment", "time">> /\ con'.verdict = "failed"
        BY <3>1, <3>3, PlanIs
      <4>2. con'.todo # <<"time">>
        BY <4>1
      <4>3. ASSUME records # <<>> PROVE Judged(records[1])'
        <5>1. records[1].status \in Stages
          BY <1>1, <2>0, <2>2, <3>3, <4>3 DEF Progress, Told, Ended
        <5> QED
          BY <1>1, <1>6, <4>1, <4>2, <5>1 DEF Judged
      <4> QED
        BY <1>1, <1>4, <1>5, <1>7, <1>8, <3>2, <4>1, <4>3 DEF Steady, Progress, Told, Ended
    <3>4. CASE event = "output"
      <4>1. con'.todo = <<"Completed", "time">> /\ con'.verdict = "returned"
        BY <3>1, <3>4, PlanIs
      <4>2. Returning
        BY <2>2, <3>4 DEF Returning
      <4>3. records # <<>>
        BY <2>0, <4>2 DEF Progress
      <4>4. Judged(records[1])'
        <5>1. records[1].status = "GapAnalysis" /\ records[1].summary /\ records[1].gaps
              /\ records[1].named
          BY <1>1, <2>0, <2>2, <3>4, <4>2, <4>3 DEF Progress, Told, Ended
        <5> QED
          BY <1>1, <1>6, <4>1, <5>1 DEF Judged
      <4> QED
        BY <1>1, <1>4, <1>5, <1>7, <1>8, <3>2, <4>1, <4>3, <4>4
        DEF Steady, Progress, Told, Ended
    <3> QED
      BY <2>1, <3>3, <3>4
  <2>3. ASSUME NEW x \in Stages, event = "output" => x = "GapAnalysis", inbox = <<x, event>>
        PROVE  Steady'
    <3>1. inbox' = <<event>> /\ con'.todo = <<x>> /\ con'.verdict = "none"
      BY <1>1, <1>2, <2>3, OneOrTwo, PlanIs
    <3>2. Returning' => event = "output"
      BY <2>1, <3>1, OneOrTwo DEF Returning
    <3>3. Returning' => Returning
      BY <2>3, <3>2 DEF Returning
    <3>4. Coming("GapAnalysis", "failed")' => Coming("GapAnalysis", "failed")
      <4>1. ASSUME Coming("GapAnalysis", "failed")' PROVE inbox = <<"GapAnalysis", "failed">>
        <5>1. con'.todo = <<"GapAnalysis">> /\ inbox' = <<"failed">>
          BY <1>2, <4>1 DEF Coming
        <5>2. x = "GapAnalysis" /\ event = "failed"
          BY <3>1, <5>1
        <5> QED
          BY <2>3, <5>2
      <4> QED
        BY <1>1, <4>1 DEF Coming
    <3>5. ASSUME records # <<>> PROVE Ended(records[1])' /\ Judged(records[1])'
      <4>1. Ended(records[1])
        BY <3>5 DEF Progress, Told
      <4>2. Ended(records[1])'
        BY <1>1, <1>2, <2>0, <3>3, <3>4, <4>1 DEF Ended
      <4> QED
        BY <3>1, <4>2 DEF Judged
    <3> QED
      BY <1>1, <1>4, <1>5, <1>7, <1>8, <2>0, <3>1, <3>3, <3>5 DEF Steady, Progress, Told
  <2> QED
    BY <2>1, <2>2, <2>3
<1> QED
  BY <1>9, <1>10

LEMMA SteadyReadClaim ==
  ASSUME Basics, Steady, Undisturbed', ReadClaim
  PROVE  Steady'
<1>. Types /\ Shape /\ Flow /\ Held /\ Results /\ Progress
  BY DEF Basics, Steady
<1>1. /\ con.pc = "read" /\ con.todo # <<>> /\ Counted
      /\ \/ records = <<>> /\ con' = NextUpdate
         \/ records # <<>> /\ IsCon(con', "write", con.todo, <<records[1]>>, con.verdict)
      /\ UNCHANGED <<records, message, api, user, inbox, exec, task>>
      /\ ExecutorBusy => "overlap" \in happened'
  BY ReadClaimIs
<1>2. ~ExecutorBusy /\ (happened' = {} => happened = {}) /\ api = "done"
  BY <1>1, Undisturbing DEF Held
<1>3. ~ExecutorBusy'
  BY <1>1, <1>2 DEF ExecutorBusy
<1>4. Results'
  BY <1>1, KeptSame DEF Results, Creating, message
<1>5. CASE records = <<>>
  <2>1. con'.pc \in {"read", "next", "end"} /\ con'.verdict = con.verdict
    BY <1>1, <1>5, NextUpdateIs DEF IsCon
  <2>2. Held'
    BY <1>1, <1>2, <2>1 DEF Held
  <2>3. Progress'
    BY <1>1, <1>5, <2>1 DEF Progress, Created, Ending, Returning
  <2> QED
    BY <1>4, <2>2, <2>3 DEF Steady
<1>6. CASE records # <<>>
  <2>1. con'.pc = "write" /\ con'.todo = con.todo /\ con'.verdict = con.verdict
        /\ con'.snap = <<records[1]>>
    BY <1>1, <1>6 DEF IsCon
  <2>2. con'.snap = records
    BY <1>6, <2>1, AtMostOne DEF Held, Types
  <2>3. Held'
    BY <1>1, <1>2, <1>3, <2>1, <2>2 DEF Held
  <2>4. Told(records[1])
    BY <1>6 DEF Progress
  <2>5. Told(records[1])'
    BY <1>1, <2>1, <2>4
    DEF Told, Analysed, Staged, Ended, Judged, Created, Creating, Waiting, Handling, Ending,
        Returning, Coming
  <2>6. Progress'
    BY <1>1, <2>1, <2>5 DEF Progress, Created, Ending, Returning
  <2> QED
    BY <1>4, <2>3, <2>6 DEF Steady
<1> QED
  BY <1>5, <1>6

LEMMA SteadyWriteClaim ==
  ASSUME Basics, Steady, Undisturbed', WriteClaim
  PROVE  Steady'
<1>. Types /\ Shape /\ Flow /\ Held /\ Results /\ Progress
  BY DEF Basics, Steady
<1> DEFINE u == Head(con.todo)
<1>1. /\ con.pc = "write" /\ con.todo # <<>> /\ con' = NextUpdate
      /\ con.snap[1] \in Claim /\ u \in Statuses \cup {"comment", "time"}
      /\ records' = Store(Updated(con.snap[1], u)) /\ Updated(con.snap[1], u) \in Claim
      /\ UNCHANGED <<message, api, user, inbox, exec, task, faults>>
  BY WriteClaimIs
<1>2. con.snap = records /\ ~ExecutorBusy /\ api = "done" /\ Len(con.snap) = 1
  BY <1>1 DEF Held, Shape
<1>3. records # <<>> /\ records[1] \in Claim
  <2>1. records[1] \in Claim /\ Len(records) = 1
    BY <1>1, <1>2
  <2>2. Len(<<>>) = 0
    OBVIOUS
  <2> QED
    BY <2>1, <2>2
<1>4. IsCon(con', IF Tail(con.todo) # <<>> THEN "read"
                  ELSE IF con.verdict = "none" THEN "next" ELSE "end",
            Tail(con.todo), <<>>, con.verdict)
  BY <1>1, NextUpdateIs
<1>5. PICK r \in Claim : r = records[1]
  BY <1>3
<1>6. PICK c \in Claim : c = Updated(r, u)
  BY <1>1, <1>2, <1>5
<1>7. /\ c.named = r.named /\ c.summary = r.summary /\ c.gaps = r.gaps /\ c.docs = r.docs
      /\ c.status = IF u \in Statuses THEN u ELSE r.status
      /\ c.comment = IF u = "comment" THEN "failure" ELSE r.comment
  BY <1>1, <1>6, UpdatedIs
<1>8. records' # <<>> /\ records'[1] = c /\ Len(records') = Len(records)
  BY <1>1, <1>2, <1>3, <1>5, <1>6, StoreIs
<1> HIDE DEF u
<1>9. /\ con'.verdict = con.verdict /\ con'.todo = Tail(con.todo)
      /\ con'.pc = IF Tail(con.todo) # <<>> THEN "read"
                   ELSE IF con.verdict = "none" THEN "next" ELSE "end"
  BY <1>4 DEF IsCon
<1>10. Held'
  <2>1. exec.pc \notin {"write", "add"} /\ con'.pc \notin {"off", "write"}
        /\ \A d \in Docs : exec.pc = "tasks" => task[d].pc # "write"
    BY <1>2, <1>9 DEF ExecutorBusy
  <2> QED
    BY <1>1, <1>2, <1>8, <2>1 DEF Held
<1>11. Results'
  <2>1. Kept(r)
    BY <1>3, <1>5 DEF Results
  <2>2. Kept(records[1])'
    BY <1>1, <1>7, <1>8, <2>1, KeptSame DEF message
  <2> QED
    BY <1>1, <2>2 DEF Results, Creating
<1>12. Told(r)
  BY <1>3, <1>5 DEF Progress
<1>13. ASSUME Told(c)' PROVE Steady'
  <2>1. Told(records[1])'
    BY <1>8, <1>13, ToldOf
  <2>2. Progress'
    BY <1>8, <2>1 DEF Progress
  <2> QED
    BY <1>10, <1>11, <2>2 DEF Steady
<1>14. CASE exec.stage # "none"
  <2>1. con.todo = <<exec.stage>> /\ inbox = <<>> /\ con.verdict = "none" /\ exec.stage \in Stages
    BY <1>1, <1>14 DEF Flow, Handling, Types, ExecSet
  <2>2. u = exec.stage /\ con'.pc = "next" /\ inbox' = <<>> /\ c.status = exec.stage
    BY <1>1, <1>7, <1>9, <2>1, OneOrTwo DEF u, Statuses
  <2>3. ~Waiting' /\ ~Ending' /\ con'.verdict = "none"
    BY <1>1, <1>9, <1>14, <2>1, <2>2 DEF Waiting, Handling, Ending
  <2>4. exec.stage # "Completed"
    BY <2>1 DEF Stages
  <2>5. Analysed(c)'
    BY <1>1, <1>7, <1>12, <2>2, <2>4 DEF Told, Analysed, Created
  <2>6. Staged(c)'
    BY <1>1, <2>2, <2>3 DEF Staged, Created, Creating, Shape
  <2> QED
    BY <1>13, <2>3, <2>5, <2>6 DEF Told, Ended, Judged
<1>15. CASE exec.stage = "none" /\ con.verdict = "none"
  <2>1. Ending /\ exec.pc = "off"
    BY <1>1, <1>15 DEF Ending, Shape
  <2>2. PICK event \in {"failed", "output"}, x \in Stages :
          /\ event = "output" => x = "GapAnalysis"
          /\ con.todo = <<x>> /\ inbox = <<event>>
    BY <1>1, <2>1 DEF Flow, Coming
  <2>3. u = x /\ con'.pc = "next" /\ inbox' = <<event>> /\ c.status = x
    BY <1>1, <1>7, <1>9, <1>15, <2>2, OneOrTwo DEF u, Statuses
  <2>4. x # "Completed" /\ ~(\E y, z : inbox = <<y, z>>)
    BY <2>2, OneOrTwo DEF Stages
  <2>5. Ended(r)
    BY <1>12 DEF Told
  <2>6. x = "GapAnalysis" => r.summary
    <3>1. CASE event = "failed"
      <4>1. x = "GapAnalysis" => Coming("GapAnalysis", "failed")
        BY <1>1, <2>2, <3>1 DEF Coming
      <4> QED
        BY <2>1, <2>5, <4>1 DEF Ended
    <3>2. CASE event = "output"
      BY <2>1, <2>2, <2>5, <3>2 DEF Ended, Returning
    <3> QED
      BY <2>2, <3>1, <3>2
  <2>7. event = "output" => r.summary /\ r.gaps /\ r.named
    BY <2>1, <2>2, <2>5 DEF Ended, Returning
  <2>8. Analysed(c)'
    BY <1>1, <1>7, <1>15, <2>1, <2>3, <2>4, <2>6 DEF Analysed, Created
  <2>9. Ended(c)'
    <3>1. Returning' => event = "output"
      BY <1>1, <2>2, <2>4 DEF Returning
    <3>2. ~Coming("GapAnalysis", "failed")'
      BY <1>1, <2>3, <2>4 DEF Coming
    <3>3. inbox' = <<"output">> => event = "output"
      BY <2>3
    <3> QED
      BY <1>7, <2>2, <2>3, <2>7, <3>1, <3>2, <3>3 DEF Ended
  <2>10. Staged(c)' /\ Judged(c)'
    BY <1>1, <1>9, <1>15, <2>1 DEF Staged, Created, Creating, Judged
  <2> QED
    BY <1>13, <2>8, <2>9, <2>10 DEF Told
<1>16. CASE con.verdict # "none"
  <2>1. exec.stage = "none" /\ exec.pc = "off" /\ ~Ending'
    BY <1>1, <1>9, <1>16 DEF Flow, Shape, Ending
  <2>2. Staged(c)' /\ Ended(c)'
    BY <1>1, <2>1 DEF Staged, Ended, Created, Creating
  <2>3. Analysed(r) /\ Judged(r)
    BY <1>12 DEF Told
  <2>4. "time" \notin Statuses /\ "comment" \notin Statuses
        /\ "Failed" \in Statuses /\ "Completed" \in Statuses
    BY DEF Statuses, Stages
  <2>5. Handling
    BY <1>1 DEF Handling
  <2>6. CASE con.verdict = "failed"
    <3>1. CASE con.todo = <<"Failed", "comment", "time">>
      <4>1. u = "Failed" /\ con'.todo = <<"comment", "time">> /\ con'.todo # <<"time">>
            /\ con'.pc = "read" /\ con'.todo # <<"Failed", "comment", "time">>
        BY <1>9, <3>1, OneOrTwo DEF u
      <4>2. c.status = "Failed"
        BY <1>7, <2>4, <4>1
      <4>3. Analysed(c)' /\ Judged(c)'
        BY <1>1, <1>9, <2>1, <2>6, <4>1, <4>2 DEF Analysed, Judged, Created, Handling
      <4> QED
        BY <1>13, <2>2, <4>3 DEF Told
    <3>2. CASE con.todo = <<"comment", "time">>
      <4>1. u = "comment" /\ con'.todo = <<"time">>
            /\ con'.pc = "read" /\ con'.todo # <<"Failed", "comment", "time">>
            /\ con.todo # <<"Failed", "comment", "time">>
        BY <1>9, <3>2, OneOrTwo DEF u
      <4>2. c.status = "Failed" /\ c.comment = "failure"
        BY <1>7, <2>3, <2>4, <2>6, <4>1 DEF Judged
      <4>3. Analysed(c)' /\ Judged(c)'
        BY <1>1, <1>9, <2>1, <2>6, <4>1, <4>2 DEF Analysed, Judged, Created, Handling
      <4> QED
        BY <1>13, <2>2, <4>3 DEF Told
    <3>3. CASE con.todo = <<"time">>
      <4>1. u = "time" /\ con'.pc = "end" /\ con.todo # <<"Failed", "comment", "time">>
        BY <1>9, <2>6, <3>3, OneOrTwo DEF u
      <4>2. c.status = "Failed" /\ c.comment = "failure"
        BY <1>7, <2>3, <2>4, <2>5, <2>6, <3>3, <4>1 DEF Judged
      <4>3. Analysed(c)' /\ Judged(c)'
        BY <1>1, <1>9, <2>1, <2>6, <4>1, <4>2 DEF Analysed, Judged, Created, Handling
      <4> QED
        BY <1>13, <2>2, <4>3 DEF Told
    <3> QED
      BY <2>5, <2>6, <3>1, <3>2, <3>3 DEF Flow
  <2>7. CASE con.verdict = "returned"
    <3>0. r.summary /\ r.gaps /\ r.named
      BY <2>3, <2>7 DEF Judged
    <3>1. CASE con.todo = <<"Completed", "time">>
      <4>1. u = "Completed" /\ con'.todo = <<"time">> /\ con'.todo # <<"Completed", "time">>
        BY <1>9, <3>1, OneOrTwo DEF u
      <4>2. c.status = "Completed"
        BY <1>7, <2>4, <4>1
      <4>3. Analysed(c)' /\ Judged(c)'
        BY <1>1, <1>7, <1>9, <2>1, <2>7, <3>0, <4>1, <4>2 DEF Analysed, Judged, Created
      <4> QED
        BY <1>13, <2>2, <4>3 DEF Told
    <3>2. CASE con.todo = <<"time">>
      <4>1. u = "time" /\ con'.pc = "end" /\ con.todo # <<"Completed", "time">>
        BY <1>9, <2>7, <3>2, OneOrTwo DEF u
      <4>2. c.status = "Completed"
        BY <1>7, <2>3, <2>4, <2>7, <4>1 DEF Judged
      <4>3. Analysed(c)' /\ Judged(c)'
        BY <1>1, <1>7, <1>9, <2>1, <2>7, <3>0, <4>1, <4>2
        DEF Analysed, Judged, Created, Handling
      <4> QED
        BY <1>13, <2>2, <4>3 DEF Told
    <3> QED
      BY <2>5, <2>7, <3>1, <3>2 DEF Flow
  <2>8. CASE con.verdict = "raised"
    <3>1. u = "time"
      BY <2>5, <2>8, OneOrTwo DEF Flow, u
    <3>2. c.status = r.status
      BY <1>7, <2>4, <3>1
    <3>3. Analysed(c)' /\ Judged(c)'
      BY <1>1, <1>7, <1>9, <2>1, <2>3, <2>8, <3>2 DEF Analysed, Judged, Created
    <3> QED
      BY <1>13, <2>2, <3>3 DEF Told
  <2> QED
    BY <1>16, <2>6, <2>7, <2>8 DEF Types, ConSet, Verdicts
<1> QED
  BY <1>14, <1>15, <1>16

LEMMA SteadyEnd ==
  ASSUME Basics, Steady, Undisturbed', EndRun \/ UpdateFails \/ Crash
  PROVE  Steady'
<1>. Types /\ Shape /\ Flow /\ Held /\ Results /\ Progress
  BY DEF Basics, Steady
<1>1. /\ con.pc # "off" /\ exec'.pc = "off" /\ exec'.stage = "none" /\ inbox' = <<>>
      /\ UNCHANGED <<records, run, api, user, task>> /\ Counted
      /\ con'.pc \in {"off", "read", "end"} /\ (con'.pc = "read" => con'.verdict = "raised")
      /\ con'.verdict \in {con.verdict, "raised", "none"}
      /\ con'.verdict = con.verdict => con.pc \in {"end", "read", "write"} \/ con'.verdict = "none"
  <2>1. CASE EndRun
    BY <2>1, EndRunIs, FaultsKept DEF IsCon, IsExec
  <2>2. CASE UpdateFails
    BY <2>2, UpdateFailsIs DEF IsCon, IsExec, message
  <2>3. CASE Crash
    BY <2>3, CrashIs DEF IsCon, IsExec, message
  <2> QED
    BY <2>1, <2>2, <2>3
<1>2. \/ con.pc = "end" /\ con'.pc = "off" /\ con'.verdict = con.verdict /\ UNCHANGED faults
      \/ happened' # {} /\ con'.verdict \in {"raised", "none"}
         /\ (con'.verdict = "none" => con'.pc = "off")
  <2>1. CASE EndRun
    BY <2>1, EndRunIs DEF IsCon
  <2>2. CASE UpdateFails
    BY <2>2, UpdateFailsIs DEF IsCon
  <2>3. CASE Crash
    BY <2>3, CrashIs DEF IsCon
  <2> QED
    BY <2>1, <2>2, <2>3
<1>3. api = "done" /\ (happened' = {} => happened = {})
  BY <1>1, Undisturbing DEF Held
<1>4. Held'
  <2>1. con.pc = "end" => exec.pc = "off"
    BY DEF Flow, Shape
  <2>2. records = <<>> => happened' # {}
    BY <1>2, <1>3, <2>1 DEF Held
  <2> QED
    BY <1>1, <1>3, <2>2 DEF Held
<1>5. Results'
  <2>1. records # <<>> => Kept(records[1])'
    BY <1>1, KeptSame DEF Results
  <2> QED
    BY <1>1, <2>1 DEF Results, Creating
<1>6. ~Ending' /\ ~Created' /\ ~Creating'
  <2>1. con'.pc # "off" => con'.verdict # "none"
    <3>1. con.pc = "end" => con.verdict # "none"
      BY DEF Flow
    <3> QED
      BY <1>1, <1>2, <3>1
  <2> QED
    BY <1>1, <2>1 DEF Ending, Created, Creating
<1>7. ASSUME records # <<>> PROVE Told(records[1])'
  <2>1. Analysed(records[1]) /\ Judged(records[1])
    BY <1>7 DEF Progress, Told
  <2>2. Analysed(records[1])'
    BY <1>1, <2>1 DEF Analysed, Created
  <2>3. Judged(records[1])'
    BY <1>1, <1>2, <2>1 DEF Judged, Handling
  <2> QED
    BY <1>6, <2>2, <2>3 DEF Told, Staged, Ended
<1>8. con'.verdict = "returned" => records # <<>>
  BY <1>2 DEF Progress
<1>9. Progress'
  BY <1>1, <1>6, <1>7, <1>8 DEF Progress
<1> QED
  BY <1>4, <1>5, <1>9 DEF Steady

LEMMA SteadyCreate ==
  ASSUME Basics, Steady, Undisturbed', Create
  PROVE  Steady'
<1>. Types /\ Shape /\ Flow /\ Held /\ Results /\ Progress
  BY DEF Basics, Steady
<1>1. /\ \/ /\ exec.pc = "get" /\ records' = records
            /\ ExecTo(IF records = <<>> THEN "add" ELSE "delete")
            /\ ConsumerBusy => "overlap" \in happened'
         \/ exec.pc = "delete" /\ records' = RemoveFirst /\ ExecTo("add")
         \/ /\ exec.pc = "add" /\ records' = Append(records, Blank("Processing", TRUE))
            /\ ExecTo("tasks")
      /\ Counted
      /\ UNCHANGED <<message, api, user, con, inbox, task>>
  BY CreateIs
<1>2. "overlap" \notin happened' /\ (happened' = {} => happened = {})
  BY <1>1, Undisturbing
<1>3. con.pc # "write" /\ exec.stage = "Processing" /\ con.verdict = "none" /\ Creating
      /\ api = "done" /\ exec'.stage = "Processing"
  <2>1. con.pc # "write"
    BY <1>1, <1>2 DEF Held, ExecutorBusy, ConsumerBusy
  <2>2. Creating /\ exec.stage = "Processing"
    BY <1>1 DEF Shape, Creating
  <2>3. con.verdict = "none" /\ api = "done"
    BY <2>2 DEF Flow, Held
  <2> QED
    BY <1>1, <2>1, <2>2, <2>3 DEF ExecTo, IsExec
<1>4. \A d \in Docs : task[d].pc = "waiting"
  BY <1>3 DEF Results
<1>5. ~Ending' /\ con'.verdict = "none"
  BY <1>1, <1>3 DEF Ending
<1>6. CASE exec.pc = "get"
  <2>1. records' = records /\ exec'.pc \in {"add", "delete"}
        /\ (records = <<>> => exec'.pc = "add") /\ (exec'.pc = "add" => records = <<>>)
    BY <1>1, <1>6 DEF ExecTo, IsExec
  <2>2. Held'
    BY <1>1, <1>3, <2>1 DEF Held
  <2>3. Results'
    BY <1>1, <1>4, <2>1, KeptSame DEF Results, message
  <2>4. ASSUME records # <<>> PROVE Told(records[1])'
    <3>1. Analysed(records[1]) /\ Staged(records[1])
      BY <2>4 DEF Progress, Told
    <3>2. Analysed(records[1])' /\ Staged(records[1])'
      BY <1>1, <1>3, <2>1, <3>1 DEF Analysed, Staged, Creating, Created, Waiting, Handling
    <3> QED
      BY <1>5, <3>2 DEF Told, Ended, Judged
  <2>5. Progress'
    BY <1>5, <2>1, <2>4 DEF Progress, Created
  <2> QED
    BY <2>2, <2>3, <2>5 DEF Steady
<1>7. CASE exec.pc = "delete"
  <2>1. records' = <<>> /\ exec'.pc = "add"
    BY <1>1, <1>7, CollectionIs DEF ExecTo, IsExec, Held
  <2>2. Held'
    BY <1>1, <1>3, <2>1 DEF Held
  <2>3. Results'
    BY <1>1, <1>4, <2>1 DEF Results
  <2>4. Progress'
    BY <1>5, <2>1 DEF Progress, Created
  <2> QED
    BY <2>2, <2>3, <2>4 DEF Steady
<1>8. CASE exec.pc = "add"
  <2>1. PICK b \in Claim : b = Blank("Processing", TRUE)
    BY DEF Blank, Claim, Statuses, Stages
  <2>2. b.status = "Processing" /\ b.named = TRUE /\ b.docs = {}
    BY <2>1 DEF Blank
  <2>3. records' = <<b>> /\ exec'.pc = "tasks"
    BY <1>1, <1>8, <2>1, CollectionIs DEF ExecTo, IsExec, Held
  <2>4. Len(<<b>>) = 1 /\ <<b>> # <<>> /\ <<b>>[1] = b
    OBVIOUS
  <2>5. Held'
    BY <1>1, <1>3, <1>4, <2>3, <2>4 DEF Held
  <2>6. Results'
    <3>1. Kept(records[1])'
      BY <1>1, <1>4, <2>2, <2>3, <2>4 DEF Kept
    <3> QED
      BY <1>1, <1>4, <3>1 DEF Results
  <2>7. Told(b)'
    <3>1. Analysed(b)' /\ Staged(b)'
      BY <1>3, <2>2, <2>3 DEF Analysed, Staged, Creating, Created
    <3> QED
      BY <1>5, <3>1 DEF Told, Ended, Judged
  <2>8. Told(records[1])'
    BY <2>3, <2>4, <2>7, ToldOf
  <2>9. Progress'
    BY <1>5, <2>3, <2>4, <2>8 DEF Progress
  <2> QED
    BY <2>5, <2>6, <2>9 DEF Steady
<1> QED
  BY <1>1, <1>6, <1>7, <1>8

(* The executor has delivered what it worked on: c is what the record now  *)
(* is.                                                                     *)
LEMMA SteadyDelivered ==
  ASSUME Basics, Steady, Delivered, exec.pc \in {"work", "write"}, con.pc # "write",
         exec.stage \in {"Summarizing", "GapAnalysis"}, NEW r, NEW c, r = records[1],
         c = records'[1], records' # <<>>, Len(records') <= 1,
         c.docs = r.docs, c.named = r.named, c.status = r.status, c.summary, c.gaps \in BOOLEAN,
         exec.stage = "GapAnalysis" => c.gaps, r.gaps => c.gaps,
         UNCHANGED <<message, api, user, con, task>>, Counted
  PROVE  Steady'
<1>. Types /\ Shape /\ Flow /\ Held /\ Results /\ Progress
  BY DEF Basics, Steady
<1>1. Created /\ records # <<>> /\ Told(r) /\ api = "done" /\ con.verdict = "none"
  BY DEF Created, Progress, Held, Flow
<1>2. exec'.pc \in {"off", "sent"} /\ exec'.stage \in {"none", "Summarizing"}
      /\ (exec'.pc = "off" => exec'.stage = "none" /\ exec.stage = "GapAnalysis"
                              /\ NoExec /\ inbox' = Append(inbox, "output"))
      /\ (exec'.pc = "sent" => exec'.stage = "Summarizing" /\ exec.stage = "Summarizing"
                               /\ inbox' = inbox)
  BY DEF Delivered, NoExec, IsExec
<1>3. Held'
  BY <1>1, <1>2 DEF Held
<1>4. Results'
  <2>1. Kept(records[1])'
    BY <1>1, <1>2, KeptSame DEF Results, message
  <2> QED
    BY <1>2, <2>1 DEF Results, Creating
<1>5. Analysed(r) /\ Staged(r) /\ r.named
  BY <1>1 DEF Told, Analysed
<1>6. Analysed(c)'
  BY <1>2, <1>5 DEF Analysed, Created
<1>7. CASE exec'.pc = "sent"
  <2>1. ~Ending' /\ con'.verdict = "none"
    BY <1>1, <1>2, <1>7 DEF Ending
  <2>2. Staged(c)'
    BY <1>1, <1>2, <1>5, <1>7 DEF Staged, Created, Creating, Waiting, Handling
  <2>3. Told(records[1])'
    BY <1>6, <2>1, <2>2, ToldOf DEF Told, Ended, Judged
  <2>4. Progress'
    BY <2>1, <2>3 DEF Progress
  <2> QED
    BY <1>3, <1>4, <2>4 DEF Steady
<1>8. CASE exec'.pc = "off"
  <2>1. NoExec /\ inbox' = Append(inbox, "output") /\ exec.stage = "GapAnalysis"
        /\ exec'.stage = "none"
    BY <1>2, <1>8
  <2>2. \/ con.pc = "next" /\ inbox = <<>> /\ inbox' = <<"output">>
        \/ Waiting /\ Coming("GapAnalysis", "output")'
    BY <2>1, ExecutorGone DEF message
  <2>3. inbox' = <<"output">> \/ inbox' = <<"GapAnalysis", "output">>
    BY <2>2 DEF Coming
  <2>4. ASSUME inbox' = <<"output">>, con'.pc = "next" PROVE c.status = "GapAnalysis"
    <3>1. ~Waiting
      <4>1. ~Coming("GapAnalysis", "output")'
        BY <2>4, OneOrTwo DEF Coming
      <4> QED
        BY <2>2, <2>4, <4>1 DEF Waiting, Handling
    <3> QED
      BY <1>1, <1>5, <2>1, <3>1 DEF Staged
  <2>5. inbox' # <<"failed">> /\ ~Coming("GapAnalysis", "failed")'
    BY <2>3, OneOrTwo DEF Coming
  <2>6. Ended(c)'
    BY <1>5, <2>1, <2>4, <2>5 DEF Ended
  <2>7. Staged(c)' /\ Judged(c)'
    BY <1>1, <1>8 DEF Staged, Judged, Creating, Created
  <2>8. Told(records[1])'
    BY <1>6, <2>6, <2>7, ToldOf DEF Told
  <2>9. Progress'
    BY <1>1, <2>8 DEF Progress
  <2> QED
    BY <1>3, <1>4, <2>9 DEF Steady
<1> QED
  BY <1>2, <1>7, <1>8

LEMMA SteadyAnalysis ==
  ASSUME Basics, Steady, Undisturbed', TasksDone \/ Approve \/ Analyse \/ SaveAnalysis
  PROVE  Steady'
<1>. Types /\ Shape /\ Flow /\ Held /\ Results /\ Progress
  BY DEF Basics, Steady
<1>1. ASSUME Created, NEW pc \in {"sent", "write"}, exec'.stage = exec.stage, exec'.pc = pc,
             UNCHANGED <<records, run, api, user, con, inbox, task>>, Counted,
             pc = "write" => con.pc # "write" /\ exec'.snap = records,
             pc = "sent" => exec.stage # "Summarizing"
      PROVE  Steady'
  <2>1. records # <<>> /\ api = "done" /\ con.verdict = "none" /\ exec.stage # "none"
    BY <1>1 DEF Progress, Created, Held, Flow, Shape
  <2>2. Held'
    <3>1. con.pc = "write" => ~ExecutorBusy'
      BY <1>1 DEF ExecutorBusy
    <3> QED
      BY <1>1, <2>1, <3>1 DEF Held
  <2>3. Results'
    <3>1. Kept(records[1])'
      BY <1>1, <2>1, KeptSame DEF Results
    <3> QED
      BY <1>1, <3>1 DEF Results, Creating
  <2>4. Analysed(records[1]) /\ Staged(records[1])
    BY <2>1 DEF Progress, Told
  <2>5. Analysed(records[1])' /\ Staged(records[1])'
    BY <1>1, <2>4 DEF Analysed, Staged, Created, Creating, Waiting, Handling
  <2>6. ~Ending'
    BY <1>1, <2>1 DEF Ending
  <2>7. Told(records[1])'
    BY <1>1, <2>1, <2>5, <2>6 DEF Told, Ended, Judged
  <2>8. Progress'
    BY <1>1, <2>1, <2>6, <2>7 DEF Progress
  <2> QED
    BY <2>2, <2>3, <2>8 DEF Steady
<1>2. CASE TasksDone \/ Approve
  <2>1. /\ exec.pc \in {"tasks", "work"} /\ exec'.pc = "sent" /\ exec'.stage = exec.stage
        /\ exec.pc = "work" => exec.stage = "RAIAnalysis"
        /\ UNCHANGED <<records, message, api, user, con, inbox, task, faults>>
    BY <1>2, SentIs DEF ExecTo, IsExec
  <2>2. Created /\ exec.stage # "Summarizing"
    BY <2>1 DEF Created, Shape
  <2> QED
    BY <1>1, <2>1, <2>2, FaultsKept DEF message
<1>3. CASE Analyse
  <2>1. /\ exec.pc = "work" /\ exec.stage \in {"Summarizing", "GapAnalysis"}
        /\ \/ records = <<>> /\ Delivered
           \/ /\ records # <<>> /\ inbox' = inbox
              /\ IsExec(exec', exec.stage, "write", <<records[1]>>)
        /\ Counted /\ (ConsumerBusy => "overlap" \in happened')
        /\ UNCHANGED <<records, message, api, user, con, task>>
    BY <1>3, AnalyseIs
  <2>2. Created /\ records # <<>> /\ con.pc # "write"
    BY <2>1, Undisturbing DEF Created, Progress, ConsumerBusy
  <2>3. exec'.pc = "write" /\ exec'.stage = exec.stage /\ exec'.snap = <<records[1]>>
        /\ inbox' = inbox
    BY <2>1, <2>2 DEF IsExec
  <2>4. exec'.snap = records
    BY <2>2, <2>3, AtMostOne DEF Held, Types
  <2> QED
    BY <1>1, <2>1, <2>2, <2>3, <2>4 DEF message
<1>4. CASE SaveAnalysis
  <2>1. PICK c \in Claim :
          /\ records' = Store(c)
          /\ \/ /\ exec.stage = "GapAnalysis"
                /\ IsClaim(c, exec.snap[1].status, exec.snap[1].named, exec.snap[1].summary, TRUE,
                           exec.snap[1].comment, exec.snap[1].docs)
             \/ /\ exec.stage # "GapAnalysis"
                /\ IsClaim(c, exec.snap[1].status, exec.snap[1].named, TRUE, exec.snap[1].gaps,
                           exec.snap[1].comment, exec.snap[1].docs)
    BY <1>4, SaveAnalysisIs
  <2>2. exec.pc = "write" /\ Delivered /\ UNCHANGED <<message, api, user, con, task, faults>>
    BY <1>4, SaveAnalysisIs
  <2>3. exec.snap = records /\ con.pc # "write" /\ Created
        /\ exec.stage \in {"Summarizing", "GapAnalysis"}
    BY <2>2 DEF Held, ExecutorBusy, Created, Shape
  <2>4. records # <<>> /\ records[1] \in Claim
    BY <2>3, Replaced DEF Progress, Types
  <2>5. records' # <<>> /\ records'[1] = c /\ Len(records') <= 1
    BY <2>1, <2>4, StoreIs DEF Held
  <2>6. PICK r \in Claim : r = records[1]
    BY <2>4
  <2>7. r.summary \/ exec.stage # "GapAnalysis"
    BY <2>4, <2>6 DEF Progress, Told, Analysed
  <2>8. /\ c.docs = r.docs /\ c.named = r.named /\ c.status = r.status /\ c.summary
        /\ c.gaps \in BOOLEAN
        /\ exec.stage = "GapAnalysis" => c.gaps
        /\ r.gaps => c.gaps
    <3>1. CASE exec.stage = "GapAnalysis"
      <4>1. IsClaim(c, r.status, r.named, r.summary, TRUE, r.comment, r.docs)
        BY <2>1, <2>3, <2>6, <3>1
      <4> QED
        BY <2>7, <3>1, <4>1 DEF IsClaim
    <3>2. CASE exec.stage # "GapAnalysis"
      <4>1. IsClaim(c, r.status, r.named, TRUE, r.gaps, r.comment, r.docs)
        BY <2>1, <2>3, <2>6, <3>2
      <4> QED
        BY <3>2, <4>1 DEF IsClaim, Claim
    <3> QED
      BY <3>1, <3>2
  <2>9. Counted
    BY <2>2, FaultsKept
  <2> QED
    BY <2>2, <2>3, <2>5, <2>6, <2>8, <2>9, SteadyDelivered
<1> QED
  BY <1>2, <1>3, <1>4

LEMMA SteadyExecutorFails ==
  ASSUME Basics, Steady, Undisturbed', ExecutorFails
  PROVE  Steady'
<1>. Types /\ Shape /\ Flow /\ Held /\ Results /\ Progress
  BY DEF Basics, Steady
<1>1. /\ exec.pc \in {"get", "work", "delete", "add", "write"}
      /\ NoExec /\ inbox' = Append(inbox, "failed") /\ Counted
      /\ exec.pc \in {"get", "work"} \/ happened' # {}
      /\ UNCHANGED <<records, message, api, user, con, task>>
  BY ExecutorFailsIs
<1>2. exec.stage # "none" /\ (happened' = {} => happened = {}) /\ exec'.pc = "off"
      /\ exec'.stage = "none"
  BY <1>1, Undisturbing DEF Shape, NoExec, IsExec
<1>3. PICK stage \in Stages : stage = exec.stage
  BY <1>2 DEF Types, ExecSet
<1>4. /\ con.verdict = "none" /\ Ending'
      /\ \/ con.pc = "next" /\ inbox = <<>> /\ inbox' = <<"failed">>
         \/ Waiting /\ Coming(stage, "failed")'
  BY <1>1, <1>2, <1>3, ExecutorGone DEF message
<1>5. Held'
  <2>1. ~ExecutorBusy' /\ api = "done"
    BY <1>2 DEF ExecutorBusy, Held, Flow
  <2>2. records = <<>> /\ happened' = {} => exec.pc = "add"
    BY <1>2, <2>1 DEF Held
  <2>3. records = <<>> => happened' # {}
    BY <1>1, <2>2
  <2> QED
    BY <1>1, <1>2, <2>1, <2>3 DEF Held
<1>6. Results'
  <2>1. records # <<>> => Kept(records[1])'
    BY <1>1, <1>2, KeptSame DEF Results, message
  <2> QED
    BY <1>1, <1>2, <2>1 DEF Results, Creating
<1>7. ~Returning' /\ inbox' # <<"output">>
  <2>1. inbox' = <<"failed">> \/ inbox' = <<stage, "failed">>
    BY <1>4 DEF Coming
  <2> QED
    BY <2>1, OneOrTwo DEF Returning
<1>8. ASSUME records # <<>> PROVE Told(records[1])'
  <2>1. Analysed(records[1]) /\ Staged(records[1])
    BY <1>8 DEF Progress, Told
  <2>2. Analysed(records[1])'
    BY <1>1, <1>2, <2>1 DEF Analysed, Created
  <2>3. ASSUME inbox' = <<"failed">>, con'.pc = "next" PROVE records[1].status \in Stages
    <3>1. ~Coming(stage, "failed")'
      BY <2>3, OneOrTwo DEF Coming
    <3>2. ~Waiting
      BY <1>1, <1>4, <2>3, <3>1 DEF Waiting, Handling
    <3>3. Creating \/ Created
      BY <1>1 DEF Creating, Created
    <3> QED
      BY <1>3, <2>1, <3>2, <3>3 DEF Staged, Stages
  <2>4. ASSUME Coming("GapAnalysis", "failed")' PROVE records[1].summary
    <3>1. inbox' = <<"GapAnalysis", "failed">> \/ con'.todo = <<"GapAnalysis">>
      BY <2>4 DEF Coming
    <3>2. stage = "GapAnalysis"
      <4>1. CASE con.pc = "next"
        <5>1. inbox' = <<"GapAnalysis", "failed">>
          BY <1>1, <2>4, <4>1 DEF Coming
        <5>2. inbox' = <<"failed">> \/ inbox' = <<stage, "failed">>
          BY <1>4 DEF Coming
        <5> QED
          BY <5>1, <5>2, OneOrTwo
      <4>2. CASE con.pc # "next"
        <5>1. con'.todo = <<stage>> /\ con'.todo = <<"GapAnalysis">>
          BY <1>1, <1>4, <2>4, <4>2 DEF Coming
        <5> QED
          BY <5>1
      <4> QED
        BY <4>1, <4>2
    <3> QED
      BY <1>3, <2>1, <3>2 DEF Analysed
  <2>5. Ended(records[1])'
    BY <1>1, <1>7, <2>3, <2>4 DEF Ended
  <2>6. Staged(records[1])' /\ Judged(records[1])'
    BY <1>1, <1>2, <1>4 DEF Staged, Judged, Creating, Created
  <2> QED
    BY <2>2, <2>5, <2>6 DEF Told
<1>9. Progress'
  BY <1>1, <1>2, <1>4, <1>7, <1>8 DEF Progress, Created
<1> QED
  BY <1>5, <1>6, <1>9 DEF Steady

LEMMA SteadyNextStage ==
  ASSUME Basics, Steady, Undisturbed', NextStage
  PROVE  Steady'
<1>. Types /\ Shape /\ Flow /\ Held /\ Results /\ Progress
  BY DEF Basics, Steady
<1>1. PICK x \in Stages \ {"Processing"} :
        /\ exec.pc = "sent" /\ inbox = <<>> /\ con.pc = "next"
        /\ IsExec(exec', x, "work", <<>>) /\ inbox' = <<x>>
        /\ Rank[exec.stage] < Rank[x]
        /\ x = "GapAnalysis" => exec.stage = "Summarizing"
        /\ UNCHANGED <<records, message, api, user, con, task, faults>>
  BY NextStageIs
<1>2. exec'.stage = x /\ exec'.pc = "work" /\ x # "none" /\ x # "Processing"
  BY <1>1 DEF IsExec, Stages
<1>3. records # <<>> /\ Created /\ exec.stage \in Stages /\ con.verdict = "none"
  BY <1>1 DEF Progress, Created, Shape, Flow
<1>4. Held'
  BY <1>1, <1>2 DEF Held, faults
<1>5. Results'
  <2>1. Kept(records[1])'
    BY <1>1, <1>2, <1>3, KeptSame DEF Results, message
  <2> QED
    BY <1>1, <1>2, <2>1 DEF Results, Creating
<1>6. Analysed(records[1]) /\ Staged(records[1])
  BY <1>3 DEF Progress, Told
<1>7. records[1].status = exec.stage
  <2>1. ~Waiting
    BY <1>1 DEF Waiting, Handling
  <2> QED
    BY <1>3, <1>6, <2>1 DEF Staged
<1>8. Analysed(records[1])'
  BY <1>1, <1>2, <1>3, <1>6 DEF Analysed, Created
<1>9. Staged(records[1])'
  <2>1. inbox' # <<>>
    BY <1>1, OneOrTwo
  <2> QED
    BY <1>1, <1>2, <1>3, <1>7, <2>1 DEF Staged, Created, Creating, Waiting
<1>10. ~Ending'
  BY <1>2 DEF Ending
<1>11. Told(records[1])'
  BY <1>1, <1>3, <1>8, <1>9, <1>10 DEF Told, Ended, Judged
<1>12. Progress'
  BY <1>1, <1>3, <1>10, <1>11 DEF Progress
<1> QED
  BY <1>4, <1>5, <1>12 DEF Steady

(* A task writes the documents of the record and nothing else.             *)
LEMMA ToldSame ==
  ASSUME NEW r, NEW c, records'[1] = c, Told(r), UNCHANGED <<exec, con, inbox>>,
         c.status = r.status, c.named = r.named, c.summary = r.summary, c.gaps = r.gaps,
         c.comment = r.comment
  PROVE  Told(records[1])'
<1>1. Analysed(c)'
  BY DEF Told, Analysed, Created
<1>2. Staged(c)'
  BY DEF Told, Staged, Created, Creating, Waiting, Handling
<1>3. Ended(c)'
  BY DEF Told, Ended, Ending, Returning, Coming
<1>4. Judged(c)'
  BY DEF Told, Judged, Handling
<1> QED
  BY <1>1, <1>2, <1>3, <1>4, ToldOf DEF Told

LEMMA SteadyTasks ==
  ASSUME Basics, Steady, Undisturbed', NEW d \in Docs, Task(d) \/ TaskFails(d)
  PROVE  Steady'
<1>. Types /\ Shape /\ Flow /\ Held /\ Results /\ Progress
  BY DEF Basics, Steady
<1>1. TaskMoves(d)
  BY TasksMove
<1>2. exec.pc = "tasks"
  BY DEF Task, TaskFails, SubmitDoc, Poll, Fetch, ReadForUpsert, Upsert, Become
<1>3. records # <<>> /\ Told(records[1]) /\ Kept(records[1]) /\ api = "done"
      /\ records[1] \in Claim /\ Len(records) = 1
  <2>1. records # <<>> /\ exec.stage # "none"
    BY <1>2 DEF Progress, Created, Shape
  <2> QED
    BY <2>1, AtMostOne DEF Progress, Results, Held, Flow, Types
<1>4. PICK r \in Claim : r = records[1]
  BY <1>3
<1>5. \A e \in r.docs : e.run = run
  BY <1>2, <1>3, <1>4 DEF Kept
<1>6. "overlap" \notin happened' /\ (happened' = {} => happened = {})
  BY <1>1, Undisturbing DEF TaskMoves
(* What is left to show of each step.                                      *)
<1> DEFINE HoldsWrite == /\ task'[d].pc = "write" =>
                              /\ task'[d].snap = records' /\ con.pc # "write"
                              /\ \A e \in Docs \ {d} : task[e].pc # "write"
           KeepsIt(c) == /\ \A e \in c.docs : e.run = run
                         /\ \A f \in Docs :
                              /\ c.named /\ task'[f].pc = "done" /\ task'[f].status # "exception"
                              => /\ \E e \in c.docs : e.doc = f
                                 /\ \A e \in c.docs : e.doc = f => e.status = task'[f].status
<1>7. ASSUME NEW c \in Claim, records'[1] = c, records' # <<>>, Len(records') = 1,
             c.status = r.status, c.named = r.named, c.summary = r.summary, c.gaps = r.gaps,
             c.comment = r.comment, KeepsIt(c), HoldsWrite,
             records' = records \/ ((\A e \in Docs : task'[e].pc # "write") /\ con.pc # "write")
      PROVE  Steady'
  <2>1. Told(records[1])'
    BY <1>1, <1>3, <1>4, <1>7, ToldSame DEF TaskMoves
  <2>2. Progress'
    BY <1>7, <2>1 DEF Progress
  <2>3. Results'
    <3>1. Kept(records[1])'
      BY <1>1, <1>7 DEF Kept, TaskMoves, message
    <3> QED
      BY <1>1, <1>2, <3>1 DEF Results, Creating, TaskMoves
  <2>4. \A e \in Docs : task'[e].pc = "write" =>
          task'[e].snap = records' /\ \A f \in Docs : task'[f].pc = "write" => f = e
    BY <1>1, <1>2, <1>7 DEF TaskMoves, Held
  <2>5. con'.pc = "write" => con'.snap = records' /\ ~ExecutorBusy'
    <3>1. con.pc = "write" => records' = records /\ con.snap = records
                              /\ \A e \in Docs : task[e].pc # "write"
      BY <1>2, <1>7 DEF Held, ExecutorBusy
    <3>2. con.pc = "write" => \A e \in Docs : task'[e].pc # "write"
      BY <1>1, <1>7, <3>1 DEF TaskMoves
    <3> QED
      BY <1>1, <1>2, <3>1, <3>2 DEF TaskMoves, ExecutorBusy
  <2>6. Held'
    BY <1>1, <1>2, <1>3, <1>7, <2>4, <2>5 DEF Held, TaskMoves
  <2> QED
    BY <2>2, <2>3, <2>6 DEF Steady
<1>8. ASSUME records' = records, HoldsWrite,
             task'[d].pc # "done" \/ task'[d].status = "exception"
      PROVE  Steady'
  <2>1. KeepsIt(r)
    BY <1>1, <1>3, <1>4, <1>5, <1>8 DEF Kept, TaskMoves
  <2> QED
    BY <1>3, <1>4, <1>7, <1>8, <2>1
<1>9. ASSUME SubmitDoc(d) \/ Poll(d) \/ Fetch(d) \/ TaskFails(d)
      PROVE  Steady'
  <2> DEFINE Lively(t) ==
               t.pc \in {"upsert", "fetch"} \/ (t.pc = "done" /\ t.status = "exception")
  <2>1. CASE SubmitDoc(d)
    <3>1. /\ \/ TaskTo(d, "upsert", "processing", "none", <<>>, FALSE)
             \/ TaskTo(d, "done", "exception", "none", <<>>, FALSE)
          /\ records' = records
      BY <2>1, SubmitDocIs
    <3>2. Lively(task'[d])
      BY <3>1 DEF TaskTo, IsTask
    <3> QED
      BY <1>8, <3>1, <3>2
  <2>2. CASE Poll(d)
    <3>1. /\ \/ \E s \in {"processing", "step"} :
                  TaskTo(d, "upsert", s, s, task[d].snap, task[d].final)
             \/ \E s \in DocStatuses :
                  TaskTo(d, "fetch", s, task[d].last, task[d].snap, task[d].final)
          /\ records' = records
      BY <2>2, PollIs
    <3>2. Lively(task'[d])
      BY <3>1 DEF TaskTo, IsTask
    <3> QED
      BY <1>8, <3>1, <3>2
  <2>3. CASE Fetch(d)
    <3>1. /\ \E s \in DocStatuses : TaskTo(d, "upsert", s, task[d].last, task[d].snap, TRUE)
          /\ records' = records
      BY <2>3, FetchIs
    <3>2. Lively(task'[d])
      BY <3>1 DEF TaskTo, IsTask
    <3> QED
      BY <1>8, <3>1, <3>2
  <2>4. CASE TaskFails(d)
    <3>1. TaskTo(d, "done", "exception", "none", <<>>, FALSE) /\ records' = records
      BY <2>4, TaskFailsIs
    <3>2. Lively(task'[d])
      BY <3>1 DEF TaskTo, IsTask
    <3> QED
      BY <1>8, <3>1, <3>2
  <2> QED
    BY <1>9, <2>1, <2>2, <2>3, <2>4
<1>10. ASSUME ReadForUpsert(d) PROVE Steady'
  <2>1. /\ task[d].pc = "upsert" /\ \A e \in Docs : task[e].pc # "write"
        /\ TaskTo(d, "write", task[d].status, task[d].last, <<records[1]>>, task[d].final)
        /\ records' = records /\ (ConsumerBusy => "overlap" \in happened')
    BY <1>3, <1>10, ReadForUpsertIs
  <2>2. task'[d].pc = "write" /\ task'[d].snap = <<records[1]>>
    BY <2>1 DEF TaskTo, IsTask
  <2>3. records = <<records[1]>>
    BY <1>3, AtMostOne DEF Types
  <2>4. con.pc # "write"
    BY <1>6, <2>1 DEF ConsumerBusy
  <2>5. HoldsWrite
    BY <2>1, <2>2, <2>3, <2>4
  <2>6. task'[d].pc # "done"
    BY <2>2
  <2> HIDE DEF HoldsWrite
  <2> QED
    BY <1>8, <2>1, <2>5, <2>6
<1>11. ASSUME Upsert(d) PROVE Steady'
  <2>1. PICK c \in Claim :
          /\ records' = Store(c)
          /\ IsClaim(c, task[d].snap[1].status, task[d].snap[1].named, task[d].snap[1].summary,
                     task[d].snap[1].gaps, task[d].snap[1].comment,
                     WithEntry(d, task[d].snap[1].docs))
    BY <1>11, UpsertIs
  <2>2. task[d].pc = "write" /\ Stored(d)
    BY <1>11, UpsertIs
  <2>3. /\ task[d].snap = records /\ con.pc # "write"
        /\ \A e \in Docs : task[e].pc = "write" => e = d
    BY <1>2, <2>2 DEF Held, ExecutorBusy
  <2>4. IsClaim(c, r.status, r.named, r.summary, r.gaps, r.comment, WithEntry(d, r.docs))
    BY <1>4, <2>1, <2>3
  <2>5. records' # <<>> /\ records'[1] = c /\ Len(records') = 1
    BY <1>3, <2>1, StoreIs
  <2>6. task'[d].pc \in {"done", "poll"} /\ task'[d].status = task[d].status
    BY <2>2 DEF Stored, TaskTo, IsTask
  <2>7. \A e \in Docs : task'[e].pc # "write"
    BY <1>1, <2>3, <2>6 DEF TaskMoves
  <2>8. /\ \A e \in c.docs : e = EntryOf(d) \/ (e \in r.docs /\ e.doc # d)
        /\ EntryOf(d) \in c.docs
        /\ \A e \in r.docs : e.doc # d => e \in c.docs
    BY <1>5, <2>4 DEF IsClaim, WithEntry
  <2>9. EntryOf(d).doc = d /\ EntryOf(d).run = run /\ EntryOf(d).status = task[d].status
    BY DEF EntryOf
  <2>10. KeepsIt(c)
    <3>1. \A e \in c.docs : e.run = run
      BY <1>5, <2>8, <2>9
    <3>2. ASSUME NEW f \in Docs, c.named, task'[f].pc = "done", task'[f].status # "exception"
          PROVE  /\ \E e \in c.docs : e.doc = f
                 /\ \A e \in c.docs : e.doc = f => e.status = task'[f].status
      <4>1. CASE f = d
        BY <2>6, <2>8, <2>9, <4>1
      <4>2. CASE f # d
        <5>1. task'[f] = task[f] /\ r.named
          BY <1>1, <2>4, <3>2, <4>2 DEF TaskMoves, IsClaim
        <5>2. /\ \E e \in r.docs : e.doc = f
              /\ \A e \in r.docs : e.doc = f => e.status = task[f].status
          BY <1>3, <1>4, <3>2, <5>1 DEF Kept
        <5> QED
          BY <2>8, <2>9, <4>2, <5>1, <5>2
      <4> QED
        BY <4>1, <4>2
    <3> QED
      BY <3>1, <3>2
  <2>11. HoldsWrite
    BY <2>7
  <2>12. c.status = r.status /\ c.named = r.named /\ c.summary = r.summary /\ c.gaps = r.gaps
         /\ c.comment = r.comment
    BY <2>4 DEF IsClaim
  <2> HIDE DEF HoldsWrite, KeepsIt
  <2> QED
    BY <1>7, <2>3, <2>5, <2>7, <2>10, <2>11, <2>12
<1> QED
  BY <1>9, <1>10, <1>11 DEF Task

-------------------------------------------------------------------------------
(* The invariant and what follows from it.                                 *)
LEMMA StepCounted ==
  ASSUME Basics, Next
  PROVE  Counted
<1>. Types /\ Shape /\ Flow
  BY DEF Basics
<1>1. Submit \/ ApiCall \/ ApiFails \/ Comment \/ DeleteClaim => Counted
  BY SubmitIs, ApiIs
<1>2. Consumer \/ UpdateFails \/ Crash => Counted
  BY StartRunIs, ConsumeIs, ReadClaimIs, WriteClaimIs, EndRunIs, UpdateFailsIs, CrashIs, FaultsKept
  DEF Consumer
<1>3. Executor \/ ExecutorFails => Counted
  BY CreateIs, SentIs, AnalyseIs, SaveAnalysisIs, NextStageIs, ExecutorFailsIs, FaultsKept
  DEF Executor
<1>4. (\E d \in Docs : Task(d) \/ TaskFails(d)) => Counted
  BY TasksMove DEF TaskMoves
<1> QED
  BY <1>1, <1>2, <1>3, <1>4 DEF Next

LEMMA SteadyStep ==
  ASSUME Basics, Steady, Undisturbed', Next
  PROVE  Steady'
<1>1. Submit \/ ApiCall \/ ApiFails \/ Comment \/ DeleteClaim => Steady'
  BY SteadyApi
<1>2. Consumer \/ UpdateFails \/ Crash => Steady'
  BY SteadyStartRun, SteadyConsume, SteadyReadClaim, SteadyWriteClaim, SteadyEnd DEF Consumer
<1>3. Executor \/ ExecutorFails => Steady'
  BY SteadyCreate, SteadyAnalysis, SteadyExecutorFails, SteadyNextStage DEF Executor
<1>4. (\E d \in Docs : Task(d) \/ TaskFails(d)) => Steady'
  BY SteadyTasks
<1> QED
  BY <1>1, <1>2, <1>3, <1>4 DEF Next

LEMMA ClaimStep ==
  ASSUME ClaimInv, [Next]_vars
  PROVE  ClaimInv'
<1>1. Basics /\ Basics'
  BY BasicsStep DEF ClaimInv, Basics
<1>2. CASE Next
  <2>1. ASSUME Undisturbed' PROVE Steady'
    <3>1. Undisturbed
      BY <1>1, <1>2, <2>1, StepCounted, Undisturbing
    <3> QED
      BY <1>1, <1>2, <2>1, <3>1, SteadyStep DEF ClaimInv, Sound
  <2> QED
    BY <1>1, <2>1 DEF ClaimInv, Sound, Basics
<1>3. CASE UNCHANGED vars
  <2>1. UNCHANGED <<records, queued, attempts, run, api, user, con, inbox, exec, task, budget,
                    happened>>
    BY <1>3 DEF vars, message, faults
  <2>2. ASSUME Steady PROVE Steady'
    <3>1. Held'
      BY <2>1, <2>2 DEF Steady, Held, ExecutorBusy
    <3>2. Results'
      BY <2>1, <2>2, KeptSame DEF Steady, Results, Creating
    <3>3. Progress'
      BY <2>1, <2>2, ToldSame DEF Steady, Progress, Created, Ending, Returning
    <3> QED
      BY <3>1, <3>2, <3>3 DEF Steady
  <2> QED
    BY <1>1, <2>1, <2>2 DEF ClaimInv, Sound, Basics, Undisturbed
<1> QED
  BY <1>2, <1>3

LEMMA ClaimStart ==
  ASSUME Init
  PROVE  ClaimInv
<1>1. Basics
  BY BasicsStart
<1>2. records = <<>> /\ user = <<>> /\ api = "idle" /\ con = NoRun /\ exec = NoExecutor
      /\ Len(<<>>) = 0
  BY DEF Init
<1>3. con.pc = "off" /\ con.verdict = "none" /\ exec.pc = "off"
  BY <1>2 DEF NoRun, NoExecutor
<1>4. Steady
  BY <1>2, <1>3 DEF Steady, Held, Results, Progress, Creating, Created, Ending
<1> QED
  BY <1>1, <1>4 DEF ClaimInv, Sound, Basics

LEMMA ClaimAlways == Spec => []ClaimInv
<1>1. Init => ClaimInv
  BY ClaimStart
<1>2. ClaimInv /\ [Next]_vars => ClaimInv'
  BY ClaimStep
<1> QED
  BY <1>1, <1>2, PTL DEF Spec

(* Whatever crashes, fails or is submitted again, the record of a claim    *)
(* has the results that its run has produced: exactly one entry, with the  *)
(* final status, for every document whose task ended, none of an earlier   *)
(* run, and the summary and the gaps by the time its status says so.       *)
THEOREM RecordKept == Spec => []RecordIsComplete
<1>1. ClaimInv => RecordIsComplete
  <2> SUFFICES ASSUME ClaimInv, Undisturbed, records # <<>>
               PROVE  LET c == Head(records)
                      IN /\ Len(records) = 1
                         /\ \A d \in Docs :
                              c.named /\ task[d].pc = "done" /\ task[d].status # "exception" =>
                                {e.status : e \in {f \in c.docs : f.doc = d}} = {task[d].status}
                         /\ (\E d \in Docs : task[d].pc # "waiting") =>
                              \A e \in c.docs : e.run = run
                         /\ c.status \in {"GapAnalysis", "Completed"} => c.summary
                         /\ c.status = "Completed" => c.gaps /\ c.named
    BY DEF RecordIsComplete
  <2>1. Types /\ Held /\ Kept(records[1]) /\ Analysed(records[1])
    BY DEF ClaimInv, Sound, Steady, Results, Progress, Told
  <2>2. Len(records) = 1
    BY <2>1, AtMostOne DEF Held, Types
  <2>3. PICK c \in Claim : c = records[1] /\ c = Head(records)
    BY <2>1, Replaced DEF Types
  <2>4. ASSUME NEW d \in Docs, c.named, task[d].pc = "done", task[d].status # "exception"
        PROVE  {e.status : e \in {f \in c.docs : f.doc = d}} = {task[d].status}
    <3>1. /\ \E e \in c.docs : e.doc = d
          /\ \A e \in c.docs : e.doc = d => e.status = task[d].status
      BY <2>1, <2>3, <2>4 DEF Kept
    <3> QED
      BY <3>1
  <2>5. (\E d \in Docs : task[d].pc # "waiting") => \A e \in c.docs : e.run = run
    BY <2>1, <2>3 DEF Kept
  <2>6. /\ c.status \in {"GapAnalysis", "Completed"} => c.summary
        /\ c.status = "Completed" => c.gaps /\ c.named
    BY <2>1, <2>3 DEF Analysed
  <2> QED
    BY <2>2, <2>3, <2>4, <2>5, <2>6
<1> QED
  BY <1>1, ClaimAlways, PTL

(* When no call of the consumer fails, the record tells how the run ended: *)
(* Completed if it returned, Failed with the reason if an executor failed, *)
(* and only after a disturbance of Create is there no record to tell it.   *)
THEOREM OutcomeTold == Spec => []OutcomeAgrees
<1>1. ClaimInv => OutcomeAgrees
  <2> SUFFICES ASSUME ClaimInv, happened \subseteq {"crash", "callFails", "resubmit"},
                      con.pc = "off"
               PROVE  /\ con.verdict = "returned" =>
                           records # <<>> /\ Head(records).status = "Completed"
                      /\ con.verdict = "failed" =>
                           \/ records = <<>> /\ happened # {}
                           \/ /\ records # <<>> /\ Head(records).status = "Failed"
                              /\ Head(records).comment = "failure"
    BY DEF OutcomeAgrees
  <2>1. Types /\ Shape /\ Flow /\ Held /\ Progress
    BY DEF ClaimInv, Sound, Steady, Undisturbed
  <2>2. ~Handling /\ exec.pc = "off"
    BY <2>1 DEF Handling, Flow, Shape
  <2>3. records # <<>> => Head(records) = records[1] /\ Judged(records[1])
    BY <2>1, Replaced DEF Types, Progress, Told
  <2>4. ASSUME con.verdict = "returned"
        PROVE  records # <<>> /\ Head(records).status = "Completed"
    BY <2>1, <2>2, <2>3, <2>4 DEF Progress, Judged
  <2>5. ASSUME con.verdict = "failed", records # <<>>
        PROVE  Head(records).status = "Failed" /\ Head(records).comment = "failure"
    BY <2>2, <2>3, <2>5 DEF Judged
  <2>6. ASSUME con.verdict = "failed", records = <<>>
        PROVE  happened # {}
    BY <2>1, <2>2, <2>6 DEF Held
  <2> QED
    BY <2>4, <2>5, <2>6
<1> QED
  BY <1>1, ClaimAlways, PTL

-------------------------------------------------------------------------------
(* The direction of the status: the writers other than the consumer keep   *)
(* it, and what the consumer writes comes later.                           *)
LEMMA ConsumerForward ==
  ASSUME Basics, Steady, WriteClaim, Created \/ con.verdict # "none"
  PROVE  Rank[records[1].status] < Rank[records'[1].status]
         \/ records[1].status = records'[1].status
<1>. Types /\ Shape /\ Flow /\ Held /\ Results /\ Progress
  BY DEF Basics, Steady
<1> DEFINE u == Head(con.todo)
<1>1. /\ con.pc = "write" /\ con.todo # <<>> /\ con.snap[1] \in Claim
      /\ u \in Statuses \cup {"comment", "time"}
      /\ records' = Store(Updated(con.snap[1], u)) /\ Updated(con.snap[1], u) \in Claim
  BY WriteClaimIs
<1>2. con.snap = records /\ Len(con.snap) = 1
  BY <1>1 DEF Held, Shape
<1>3. records # <<>> /\ records[1] \in Claim
  <2>1. records[1] \in Claim /\ Len(records) = 1
    BY <1>1, <1>2
  <2>2. Len(<<>>) = 0
    OBVIOUS
  <2> QED
    BY <2>1, <2>2
<1>4. PICK r \in Claim : r = records[1]
  BY <1>3
<1>5. PICK c \in Claim : c = Updated(r, u)
  BY <1>1, <1>2, <1>4
<1>6. c.status = IF u \in Statuses THEN u ELSE r.status
  BY <1>1, <1>5, UpdatedIs
<1>7. records'[1] = c
  BY <1>1, <1>2, <1>3, <1>4, <1>5, StoreIs
<1> HIDE DEF u
<1>8. Staged(r) /\ Judged(r) /\ Handling
  BY <1>1, <1>3, <1>4 DEF Progress, Told, Handling
<1>9. "Failed" \in Statuses /\ "Completed" \in Statuses /\ "time" \notin Statuses
      /\ "comment" \notin Statuses
  BY DEF Statuses, Stages
<1>10. CASE con.verdict = "none"
  <2>1. Created /\ exec.stage \in Stages
    BY <1>10 DEF Created, Shape, Types, ExecSet
  <2>2. con.todo = <<exec.stage>>
    BY <1>8, <2>1 DEF Flow, Stages
  <2>3. u = exec.stage /\ u \in Statuses
    BY <2>1, <2>2, OneOrTwo DEF u, Statuses
  <2>4. Rank[r.status] < Rank[exec.stage] \/ r.status = exec.stage
    BY <1>8, <2>1 DEF Staged
  <2> QED
    BY <1>4, <1>6, <1>7, <2>3, <2>4
<1>11. CASE con.verdict = "failed"
  <2>1. CASE con.todo = <<"Failed", "comment", "time">>
    <3>1. u = "Failed" /\ r.status \in Stages
      BY <1>8, <1>11, <2>1, OneOrTwo DEF u, Judged
    <3>2. c.status = "Failed"
      BY <1>6, <1>9, <3>1
    <3>3. Rank[r.status] < Rank["Failed"]
      BY <3>1 DEF Rank, Stages
    <3> QED
      BY <1>4, <1>7, <3>2, <3>3
  <2>2. CASE con.todo = <<"comment", "time">> \/ con.todo = <<"time">>
    <3>1. u \in {"comment", "time"}
      BY <2>2, OneOrTwo DEF u
    <3> QED
      BY <1>4, <1>6, <1>7, <1>9, <3>1
  <2> QED
    BY <1>8, <1>11, <2>1, <2>2 DEF Flow
<1>12. CASE con.verdict = "returned"
  <2>1. CASE con.todo = <<"Completed", "time">>
    <3>1. u = "Completed" /\ r.status = "GapAnalysis"
      BY <1>8, <1>12, <2>1, OneOrTwo DEF u, Judged
    <3>2. c.status = "Completed"
      BY <1>6, <1>9, <3>1
    <3>3. Rank[r.status] < Rank["Completed"]
      BY <3>1 DEF Rank
    <3> QED
      BY <1>4, <1>7, <3>2, <3>3
  <2>2. CASE con.todo = <<"time">>
    <3>1. u = "time"
      BY <2>2, OneOrTwo DEF u
    <3> QED
      BY <1>4, <1>6, <1>7, <1>9, <3>1
  <2> QED
    BY <1>8, <1>12, <2>1, <2>2 DEF Flow
<1>13. CASE con.verdict = "raised"
  <2>1. u = "time"
    BY <1>8, <1>13, OneOrTwo DEF Flow, u
  <2> QED
    BY <1>4, <1>6, <1>7, <1>9, <2>1
<1> QED
  BY <1>10, <1>11, <1>12, <1>13 DEF Types, ConSet, Verdicts

LEMMA OthersKeep ==
  ASSUME Basics, Steady, Next, ~WriteClaim, con.pc # "off", Created \/ con.verdict # "none",
         records # <<>>, records' # <<>>
  PROVE  records'[1].status = records[1].status
<1>. Types /\ Shape /\ Flow /\ Held /\ Results /\ Progress
  BY DEF Basics, Steady
<1>1. ~Creating /\ user = <<>> /\ api = "done" /\ Len(records) <= 1
  BY DEF Creating, Created, Flow, Shape, Held
<1>2. CASE Submit
  BY <1>2, SubmitIs
<1>3. CASE ApiCall \/ ApiFails
  BY <1>1, <1>3 DEF ApiCall, ApiFails
<1>4. CASE Comment
  BY <1>1, <1>4 DEF Comment
<1>5. CASE DeleteClaim
  <2>1. records' = RemoveFirst
    BY <1>5 DEF DeleteClaim, RemoveFirst
  <2> QED
    BY <1>1, <2>1, CollectionIs
<1>6. CASE Consumer \/ UpdateFails \/ Crash
  <2>1. StartRun \/ Consume \/ ReadClaim \/ EndRun \/ UpdateFails \/ Crash
    BY <1>6 DEF Consumer
  <2>2. records' = records
    BY <2>1, StartRunIs, ConsumeIs, ReadClaimIs, EndRunIs, UpdateFailsIs, CrashIs
  <2> QED
    BY <2>2
<1>7. CASE TasksDone \/ Approve \/ Analyse \/ NextStage \/ ExecutorFails
  <2>1. records' = records
    BY <1>7, SentIs, AnalyseIs, NextStageIs, ExecutorFailsIs
  <2> QED
    BY <2>1
<1>8. CASE Create
  BY <1>1, <1>8, CreateIs DEF Creating
<1>9. CASE SaveAnalysis
  <2>1. PICK c \in Claim : records' = Store(c) /\ c.status = exec.snap[1].status
    BY <1>9, SaveAnalysisIs DEF IsClaim
  <2>2. exec.snap = records
    BY <1>9 DEF SaveAnalysis, Held
  <2> QED
    BY <2>1, <2>2, StoreIs
<1>10. ASSUME NEW d \in Docs, Task(d) \/ TaskFails(d)
       PROVE  records'[1].status = records[1].status
  <2>1. CASE Upsert(d)
    <3>1. PICK c \in Claim : records' = Store(c) /\ c.status = task[d].snap[1].status
      BY <2>1, UpsertIs DEF IsClaim
    <3>2. task[d].snap = records
      BY <2>1 DEF Upsert, Become, Held
    <3> QED
      BY <3>1, <3>2, StoreIs
  <2>2. CASE SubmitDoc(d) \/ Poll(d) \/ Fetch(d) \/ ReadForUpsert(d) \/ TaskFails(d)
    <3>1. records' = records
      BY <2>2 DEF SubmitDoc, Poll, Fetch, ReadForUpsert, TaskFails
    <3> QED
      BY <3>1
  <2> QED
    BY <1>10, <2>1, <2>2 DEF Task
<1> QED
  BY <1>2, <1>3, <1>4, <1>5, <1>6, <1>7, <1>8, <1>9, <1>10 DEF Next, Executor

(* No update of the record, by the consumer, an executor or a task, takes  *)
(* the claim back to a status it has passed, and nothing follows Completed *)
(* and Failed, from the creation of the record to the end of the run.      *)
THEOREM StatusMovesForward == Spec => StatusForward
<1> DEFINE Goal ==
             (/\ Undisturbed /\ con.pc # "off" /\ run' = run
              /\ exec.pc \in {"tasks", "work", "write", "sent"} \/ con.verdict # "none"
              /\ records # <<>> /\ records' # <<>>)
             => LET s == Head(records).status  t == Head(records').status
                IN Rank[s] < Rank[t] \/ s = t
<1>1. ASSUME ClaimInv, Next PROVE Goal
  <2> SUFFICES ASSUME Undisturbed, con.pc # "off", Created \/ con.verdict # "none",
                      records # <<>>, records' # <<>>
               PROVE  Rank[Head(records).status] < Rank[Head(records').status]
                      \/ Head(records).status = Head(records').status
    BY DEF Created
  <2>1. Basics /\ Steady /\ Basics'
    BY <1>1, BasicsStep DEF ClaimInv, Sound, Basics
  <2>2. Head(records) = records[1] /\ Head(records') = records'[1]
    BY <2>1, Replaced DEF Basics, Types
  <2>3. Rank[records[1].status] < Rank[records'[1].status]
        \/ records[1].status = records'[1].status
    BY <1>1, <2>1, ConsumerForward, OthersKeep
  <2> QED
    BY <2>2, <2>3
<1>2. ClaimInv /\ [Next]_vars => [Goal]_vars
  BY <1>1
<1>3. Spec => [][Goal]_vars
  BY <1>2, ClaimAlways, PTL DEF Spec
<1> QED
  BY <1>3 DEF StatusForward
====
