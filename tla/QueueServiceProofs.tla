---------------------------- MODULE QueueServiceProofs ----------------------------
(***************************************************************************)
(* Theorems about QueueService for every set of messages, workers and      *)
(* replicas, every timeout and every set of faults: its types, delivery    *)
(* and completions; how often a request is delivered before it is given    *)
(* up; and that the renewal loop keeps a running request to one worker     *)
(* loop.                                                                   *)
(***************************************************************************)
EXTENDS QueueService, FiniteSetTheorems, FunctionTheorems, TLAPS

(***************************************************************************)
(* The inductive invariant for types: besides TypeOK, a worker that is     *)
(* neither off nor polling has a message, and so has its renewal loop; and *)
(* only finitely many calls are in flight, so that a fresh receipt exists. *)
(***************************************************************************)
Busy(w) == wk[w].pc \notin {"off", "poll"} \/ wk[w].renew # "off"

TypeInv ==
  /\ TypeOK
  /\ \A w \in Workers : Busy(w) => wk[w].msg \in Msgs
  /\ \A w \in Workers : wk[w].listed => wk[w].msg \in Msgs
  /\ IsFiniteSet(orphans)

USE DEF Receipt, NoReceipt, Many

-------------------------------------------------------------------------------
(* A finite set of receipts leaves a natural number up to its size free.   *)
LEMMA FreeNumber ==
  ASSUME NEW S, IsFiniteSet(S)
  PROVE  \E r \in 0 .. Cardinality(S) : r \notin S
<1> DEFINE n == Cardinality(S)
<1>1. n \in Nat
  BY FS_CardinalityType
<1> HIDE DEF n
<1> SUFFICES ASSUME 0 .. n \subseteq S
             PROVE  FALSE
  BY DEF n
<1>2. IsFiniteSet(0 .. n) /\ Cardinality(0 .. n) = n + 1
  BY <1>1, FS_Interval
<1>3. Cardinality(0 .. n) <= n
  BY FS_Subset DEF n
<1> QED
  BY <1>1, <1>2, <1>3

(* The receipts that anyone holds are finitely many.                       *)
LEMMA InUseFinite ==
  ASSUME TypeInv
  PROVE  IsFiniteSet(InUse)
<1>0. IsFiniteSet(Msgs) /\ IsFiniteSet(Workers) /\ IsFiniteSet(orphans)
  BY ConstantsAssumption DEF TypeInv
<1>1. IsFiniteSet({receipt[m] : m \in Msgs})
  <2>1. [m \in Msgs |-> receipt[m]] \in Surjection(Msgs, {receipt[m] : m \in Msgs})
    BY DEF Surjection
  <2> QED
    BY <1>0, <2>1, FS_Surjection
<1>2. IsFiniteSet({wk[w].held : w \in Workers})
  <2>1. [w \in Workers |-> wk[w].held] \in Surjection(Workers, {wk[w].held : w \in Workers})
    BY DEF Surjection
  <2> QED
    BY <1>0, <2>1, FS_Surjection
<1>3. IsFiniteSet({wk[w].tracked : w \in Workers})
  <2>1. [w \in Workers |-> wk[w].tracked] \in Surjection(Workers, {wk[w].tracked : w \in Workers})
    BY DEF Surjection
  <2> QED
    BY <1>0, <2>1, FS_Surjection
<1>4. IsFiniteSet({wk[w].jcall : w \in Workers})
  <2>1. [w \in Workers |-> wk[w].jcall] \in Surjection(Workers, {wk[w].jcall : w \in Workers})
    BY DEF Surjection
  <2> QED
    BY <1>0, <2>1, FS_Surjection
<1>5. IsFiniteSet({wk[w].rcall : w \in Workers})
  <2>1. [w \in Workers |-> wk[w].rcall] \in Surjection(Workers, {wk[w].rcall : w \in Workers})
    BY DEF Surjection
  <2> QED
    BY <1>0, <2>1, FS_Surjection
<1>6. IsFiniteSet({c.rcpt : c \in orphans})
  <2>1. [c \in orphans |-> c.rcpt] \in Surjection(orphans, {c.rcpt : c \in orphans})
    BY DEF Surjection
  <2> QED
    BY <1>0, <2>1, FS_Surjection
<1> QED
  BY <1>1, <1>2, <1>3, <1>4, <1>5, <1>6, FS_Union DEF InUse

(* A new receipt is a natural number that nobody holds.                    *)
LEMMA NewReceiptFresh ==
  ASSUME TypeInv
  PROVE  NewReceipt \in Nat /\ NewReceipt \notin InUse
<1>1. \E r \in 0 .. Cardinality(InUse) : r \notin InUse
  BY InUseFinite, FreeNumber
<1>2. NewReceipt \in 0 .. Cardinality(InUse) /\ NewReceipt \notin InUse
  BY <1>1 DEF NewReceipt
<1>3. Cardinality(InUse) \in Nat
  BY InUseFinite, FS_CardinalityType
<1> QED
  BY <1>2, <1>3

-------------------------------------------------------------------------------
(* Type correctness.                                                       *)

LEMMA IdleTyped ==
  ASSUME NEW p \in {"off", "poll"}
  PROVE  /\ Idle(p) \in WorkerState
         /\ Idle(p).pc = p /\ Idle(p).renew = "off" /\ ~Idle(p).listed
BY ConstantsAssumption DEF Idle, WorkerState, Phase, Outcome

(* Storage operations keep the storage variables typed.                    *)
LEMMA UpdateTyped ==
  ASSUME TypeInv, NEW m \in Msgs, NEW t \in 0 .. VisTicks, Update(m, t)
  PROVE  /\ queued' \subseteq Msgs
         /\ lease' \in [Msgs -> 0 .. VisTicks]
         /\ receipt' \in [Msgs -> Nat]
         /\ dequeues' \in [Msgs -> 0 .. MaxReceive]
BY NewReceiptFresh DEF TypeInv, TypeOK, Update

LEMMA DeleteTyped ==
  ASSUME TypeInv, NEW m \in Msgs, NEW r, Delete(m, r)
  PROVE  /\ queued' \subseteq Msgs
         /\ lease' \in [Msgs -> 0 .. VisTicks]
         /\ receipt' \in [Msgs -> Nat]
         /\ dequeues' \in [Msgs -> 0 .. MaxReceive]
BY ConstantsAssumption DEF TypeInv, TypeOK, Delete, storage

(* The calls left behind by a worker are typed, and finitely many.         *)
LEMMA OrphansTyped ==
  ASSUME TypeInv, NEW w \in Workers
  PROVE  /\ RenewOrphan(w) \subseteq OrphanCall /\ IsFiniteSet(RenewOrphan(w))
         /\ JobOrphan(w) \subseteq OrphanCall /\ IsFiniteSet(JobOrphan(w))
<1>1. wk[w] \in WorkerState /\ (Busy(w) => wk[w].msg \in Msgs)
  BY DEF TypeInv, TypeOK
<1>2. RenewOrphan(w) \subseteq OrphanCall
  BY <1>1 DEF RenewOrphan, OrphanCall, WorkerState, Busy
<1>3. JobOrphan(w) \subseteq OrphanCall
  BY <1>1 DEF JobOrphan, OrphanCall, WorkerState, Busy
<1>4. IsFiniteSet(RenewOrphan(w)) /\ IsFiniteSet(JobOrphan(w))
  BY FS_EmptySet, FS_Singleton DEF RenewOrphan, JobOrphan
<1> QED
  BY <1>2, <1>3, <1>4

(* The parts of TypeInv that a step of one worker's job can disturb.       *)
WorkersInv ==
  /\ wk \in [Workers -> WorkerState]
  /\ \A w \in Workers : Busy(w) => wk[w].msg \in Msgs
  /\ \A w \in Workers : wk[w].listed => wk[w].msg \in Msgs
CallsInv ==
  /\ kills \subseteq [worker : Workers, msg : Msgs]
  /\ orphans \subseteq OrphanCall
  /\ IsFiniteSet(orphans)
StorageInv ==
  /\ queued \subseteq Msgs
  /\ lease \in [Msgs -> 0 .. VisTicks]
  /\ receipt \in [Msgs -> Nat]
  /\ dequeues \in [Msgs -> 0 .. MaxReceive]
LoopsInv == running \subseteq Replicas /\ registered \subseteq Workers /\ stopping \subseteq Workers
HistoryInv == done \subseteq Msgs /\ killed \subseteq Msgs /\ refused \subseteq Msgs
RestInv == dead \in [Msgs -> 0 .. Many] /\ budget \in 0 .. Budget

LEMMA TypeInvParts ==
  /\ TypeInv <=> WorkersInv /\ CallsInv /\ StorageInv /\ LoopsInv /\ HistoryInv /\ RestInv
  /\ TypeInv' <=> (WorkersInv /\ CallsInv /\ StorageInv /\ LoopsInv /\ HistoryInv /\ RestInv)'
BY DEF TypeInv, TypeOK, WorkersInv, CallsInv, StorageInv, LoopsInv, HistoryInv, RestInv

(* Changing a field of a worker's record within its type.                  *)
LEMMA FieldTyped ==
  ASSUME NEW s \in WorkerState
  PROVE  /\ \A p \in Phase : [s EXCEPT !.pc = p] \in WorkerState
         /\ \A o \in Outcome : [s EXCEPT !.outcome = o] \in WorkerState
         /\ \A r \in Receipt : /\ [s EXCEPT !.rcall = r] \in WorkerState
                               /\ [s EXCEPT !.jcall = r] \in WorkerState
                               /\ [s EXCEPT !.tracked = r] \in WorkerState
         /\ \A t \in 0 .. RenewTicks : [s EXCEPT !.timer = t] \in WorkerState
         /\ \A v \in {"off", "sleep", "call", "reply"} : [s EXCEPT !.renew = v] \in WorkerState
         /\ [s EXCEPT !.listed = FALSE] \in WorkerState
<1>1. \A p \in Phase : [s EXCEPT !.pc = p] \in WorkerState
  BY DEF WorkerState
<1>2. \A o \in Outcome : [s EXCEPT !.outcome = o] \in WorkerState
  BY DEF WorkerState
<1>3. \A r \in Receipt : [s EXCEPT !.rcall = r] \in WorkerState
  BY DEF WorkerState
<1>4. \A r \in Receipt : [s EXCEPT !.jcall = r] \in WorkerState
  BY DEF WorkerState
<1>5. \A r \in Receipt : [s EXCEPT !.tracked = r] \in WorkerState
  BY DEF WorkerState
<1>6. \A t \in 0 .. RenewTicks : [s EXCEPT !.timer = t] \in WorkerState
  BY DEF WorkerState
<1>7. \A v \in {"off", "sleep", "call", "reply"} : [s EXCEPT !.renew = v] \in WorkerState
  BY DEF WorkerState
<1>8. [s EXCEPT !.listed = FALSE] \in WorkerState
  BY DEF WorkerState
<1> QED
  BY <1>1, <1>2, <1>3, <1>4, <1>5, <1>6, <1>7, <1>8

(* The records that the end of a run and the renewal loop produce.         *)
LEMMA SettleTyped ==
  ASSUME NEW s \in WorkerState, NEW o \in Outcome
  PROVE  [s EXCEPT !.pc = "settle", !.outcome = o, !.renew = "off", !.timer = 0,
                   !.rcall = NoReceipt] \in WorkerState
<1> DEFINE s1 == [s EXCEPT !.pc = "settle"]
           s2 == [s1 EXCEPT !.outcome = o]
           s3 == [s2 EXCEPT !.renew = "off"]
           s4 == [s3 EXCEPT !.timer = 0]
           s5 == [s4 EXCEPT !.rcall = NoReceipt]
<1>1. s1 \in WorkerState
  BY FieldTyped DEF Phase
<1>2. s5 = [s EXCEPT !.pc = "settle", !.outcome = o, !.renew = "off", !.timer = 0,
                     !.rcall = NoReceipt]
  OBVIOUS
<1> HIDE DEF s1
<1>3. s2 \in WorkerState
  BY <1>1, FieldTyped
<1> HIDE DEF s2
<1>4. s3 \in WorkerState
  BY <1>3, FieldTyped
<1> HIDE DEF s3
<1>5. s4 \in WorkerState
  <2>1. 0 \in 0 .. RenewTicks
    BY ConstantsAssumption
  <2> QED
    BY <1>4, <2>1, FieldTyped
<1> HIDE DEF s4
<1>6. s5 \in WorkerState
  BY <1>5, FieldTyped
<1> HIDE DEF s5
<1> QED
  BY <1>2, <1>6

LEMMA SleepTyped ==
  ASSUME NEW s \in WorkerState, NEW r \in Receipt
  PROVE  /\ [s EXCEPT !.renew = "sleep", !.timer = RenewTicks, !.rcall = NoReceipt]
              \in WorkerState
         /\ [s EXCEPT !.renew = "sleep", !.timer = RenewTicks, !.tracked = r,
                      !.rcall = NoReceipt] \in WorkerState
<1> DEFINE s1 == [s EXCEPT !.renew = "sleep"]
           s2 == [s1 EXCEPT !.timer = RenewTicks]
           s3 == [s2 EXCEPT !.rcall = NoReceipt]
           t3 == [s2 EXCEPT !.tracked = r]
           t4 == [t3 EXCEPT !.rcall = NoReceipt]
<1>1. s1 \in WorkerState
  BY FieldTyped
<1>2. /\ s3 = [s EXCEPT !.renew = "sleep", !.timer = RenewTicks, !.rcall = NoReceipt]
      /\ t4 = [s EXCEPT !.renew = "sleep", !.timer = RenewTicks, !.tracked = r,
                        !.rcall = NoReceipt]
  OBVIOUS
<1> HIDE DEF s1
<1>3. s2 \in WorkerState
  <2>1. RenewTicks \in 0 .. RenewTicks
    BY ConstantsAssumption
  <2> QED
    BY <1>1, <2>1, FieldTyped
<1> HIDE DEF s2
<1>4. s3 \in WorkerState /\ t3 \in WorkerState
  BY <1>3, FieldTyped
<1> HIDE DEF s3, t3
<1>5. t4 \in WorkerState
  BY <1>4, FieldTyped
<1> HIDE DEF t4
<1> QED
  BY <1>2, <1>4, <1>5

(* Changing one worker's record keeps the records typed.                   *)
LEMMA OneWorkerTyped ==
  ASSUME TypeInv, NEW w \in Workers, NEW s \in WorkerState,
         wk' = [wk EXCEPT ![w] = s],
         s.pc \notin {"off", "poll"} \/ s.renew # "off" \/ s.listed => s.msg \in Msgs
  PROVE  WorkersInv'
BY DEF TypeInv, TypeOK, WorkersInv, Busy

LEMMA OccursTyped ==
  ASSUME TypeInv, NEW f, Occurs(f) PROVE budget' \in 0 .. Budget
BY ConstantsAssumption DEF TypeInv, TypeOK, Occurs

LEMMA EndJobTyped ==
  ASSUME TypeInv, NEW w \in Workers, EndJob(w), UNCHANGED kills
  PROVE  WorkersInv' /\ CallsInv'
<1>1. WorkersInv'
  BY IdleTyped DEF TypeInv, TypeOK, EndJob, WorkersInv, Busy
<1>2. CallsInv'
  BY OrphansTyped, FS_Union DEF TypeInv, TypeOK, EndJob, CallsInv
<1> QED
  BY <1>1, <1>2

LEMMA CancelJobTyped ==
  ASSUME TypeInv, NEW w \in Workers, CancelJob(w), kills' \subseteq kills
  PROVE  WorkersInv' /\ CallsInv'
<1>1. WorkersInv'
  BY IdleTyped DEF TypeInv, TypeOK, CancelJob, WorkersInv, Busy
<1>2. CallsInv'
  BY OrphansTyped, FS_Union DEF TypeInv, TypeOK, CancelJob, CallsInv
<1> QED
  BY <1>1, <1>2
LEMMA SendDeadTyped ==
  ASSUME TypeInv, NEW m \in Msgs, SendDead(m)
  PROVE  dead' \in [Msgs -> 0 .. Many]
BY DEF TypeInv, TypeOK, SendDead

LEMMA JobTyped ==
  ASSUME NEW m \in Msgs, NEW r \in Nat,
         NEW o \in {"none", "malformed", "startFailed"}, NEW n \in 0 .. MaxReceive
  PROVE  Job(m, o, n, r) \in WorkerState /\ Job(m, o, n, r).msg = m
BY ConstantsAssumption
   DEF Job, Idle, WorkerState, Phase, Outcome, FailurePhase, Forced

LEMMA ReceiveTyped ==
  ASSUME TypeInv, NEW w \in Workers, NEW m \in Msgs, Receive(w, m)
  PROVE  TypeInv'
<1>1. ASSUME NEW o \in {"none", "malformed", "startFailed"}, Take(w, m, o)
      PROVE  StorageInv' /\ WorkersInv' /\ CallsInv' /\ LoopsInv'
             /\ done' \subseteq Msgs /\ killed' \subseteq Msgs /\ dead' \in [Msgs -> 0 .. Many]
  <2> DEFINE n == IF dequeues[m] < MaxReceive THEN dequeues[m] + 1 ELSE MaxReceive
             r == NewReceipt
  <2>1. n \in 0 .. MaxReceive
    BY ConstantsAssumption DEF TypeInv, TypeOK
  <2>2. r \in Nat
    BY NewReceiptFresh
  <2>3. /\ lease' = [lease EXCEPT ![m] = VisTicks]
        /\ receipt' = [receipt EXCEPT ![m] = r]
        /\ dequeues' = [dequeues EXCEPT ![m] = n]
        /\ wk' = [wk EXCEPT ![w] = Job(m, o, n, r)]
    BY <1>1 DEF Take
  <2> HIDE DEF n, r
  <2>4. StorageInv'
    BY <1>1, <2>1, <2>2, <2>3, ConstantsAssumption DEF Take, TypeInv, TypeOK, StorageInv
  <2>5. WorkersInv'
    BY <2>1, <2>2, <2>3, JobTyped DEF TypeInv, TypeOK, WorkersInv, Busy
  <2>6. CallsInv' /\ LoopsInv' /\ dead' \in [Msgs -> 0 .. Many]
        /\ done' \subseteq Msgs /\ killed' \subseteq Msgs
    BY <1>1 DEF Take, TypeInv, TypeOK, CallsInv, LoopsInv, calls, loops
  <2> QED
    BY <2>4, <2>5, <2>6
<1>2. refused' \subseteq Msgs /\ budget' \in 0 .. Budget
  BY OccursTyped DEF Receive, TypeInv, TypeOK
<1>3. PICK o \in {"none", "malformed", "startFailed"} : Take(w, m, o)
  BY DEF Receive
<1> QED
  BY <1>1, <1>2, <1>3, TypeInvParts DEF HistoryInv, RestInv

(* The steps of a job.                                                     *)
LEMMA JobStepTyped ==
  ASSUME TypeInv, NEW w \in Workers, JobStep(w)
  PROVE  TypeInv'
<1> USE TypeInvParts
<1>0. wk[w] \in WorkerState /\ (Busy(w) => wk[w].msg \in Msgs)
  BY DEF TypeInv, TypeOK
<1>1. ASSUME NEW o \in {"ok", "failed", "error"}, RunEnds(w, o)
      PROVE  TypeInv'
  <2>1. WorkersInv'
    <3> DEFINE t == [wk[w] EXCEPT !.pc = "settle", !.outcome = o, !.renew = "off",
                                  !.timer = 0, !.rcall = NoReceipt]
    <3>1. t \in WorkerState /\ t.msg \in Msgs
      <4>1. t \in WorkerState
        BY <1>0, SettleTyped DEF Outcome
      <4>2. t.msg = wk[w].msg
        BY <1>0 DEF WorkerState
      <4> QED
        BY <1>0, <1>1, <4>1, <4>2 DEF RunEnds, Busy
    <3>2. wk' = [wk EXCEPT ![w] = t]
      BY <1>1 DEF RunEnds
    <3> QED
      BY <3>1, <3>2, OneWorkerTyped
  <2>2. CallsInv'
    BY <1>1, OrphansTyped, FS_Union DEF RunEnds, TypeInv, TypeOK, CallsInv
  <2>3. StorageInv' /\ LoopsInv' /\ RestInv'
    BY <1>1 DEF RunEnds, TypeInv, TypeOK, StorageInv, LoopsInv, RestInv, storage, loops
  <2>4. HistoryInv'
    BY <1>0, <1>1 DEF RunEnds, TypeInv, TypeOK, HistoryInv, Busy
  <2> QED
    BY <2>1, <2>2, <2>3, <2>4
<1>2. ASSUME \/ wk[w].pc = "settle"
             \/ wk[w].pc = "cleanup",
             \/ Delete(wk[w].msg, BestReceipt(w)) /\ UNCHANGED budget
             \/ Occurs("deleteFails") /\ UNCHANGED storage,
             EndJob(w), UNCHANGED <<dead, loops, kills, history>>
      PROVE  TypeInv'
  <2>1. WorkersInv' /\ CallsInv'
    BY <1>2, EndJobTyped
  <2>2. StorageInv'
    BY <1>0, <1>2, DeleteTyped DEF StorageInv, TypeInv, TypeOK, Busy, storage
  <2>3. budget' \in 0 .. Budget
    BY <1>2, OccursTyped DEF TypeInv, TypeOK
  <2>4. LoopsInv' /\ HistoryInv' /\ RestInv'
    BY <1>2, <2>3 DEF TypeInv, TypeOK, LoopsInv, HistoryInv, RestInv, loops, history
  <2> QED
    BY <2>1, <2>2, <2>4
<1>3. CASE SettleFailure(w)
  <2>1. FailurePhase(wk[w].outcome, wk[w].attempt) \in {"retry", "dlq"}
    BY DEF FailurePhase
  <2>2. BestReceipt(w) \in Receipt
    BY <1>0 DEF BestReceipt, WorkerState
  <2>3. WorkersInv'
    BY <1>0, <1>3, <2>1, <2>2 DEF SettleFailure, TypeInv, TypeOK, WorkersInv, WorkerState, Phase, Busy
  <2> QED
    BY <1>3, <2>3 DEF SettleFailure, TypeInv, TypeOK, CallsInv, StorageInv, LoopsInv,
       HistoryInv, RestInv, storage, loops, calls, history
<1>4. CASE JobUpdates(w)
  <2>1. WorkersInv'
    BY <1>0, <1>4 DEF JobUpdates, TypeInv, TypeOK, WorkersInv, WorkerState, Phase, Busy
  <2>2. UpdateTicks(w) \in 0 .. VisTicks
    BY ConstantsAssumption DEF UpdateTicks
  <2>3. StorageInv'
    BY <1>0, <1>4, <2>2, UpdateTyped DEF JobUpdates, StorageInv, TypeInv, TypeOK, Busy, storage
  <2>4. budget' \in 0 .. Budget
    BY <1>4, OccursTyped DEF JobUpdates, TypeInv, TypeOK
  <2> QED
    BY <1>4, <2>1, <2>3, <2>4 DEF JobUpdates, TypeInv, TypeOK, CallsInv, LoopsInv,
       HistoryInv, RestInv, loops, calls, history
<1>5. CASE UpdateReturns(w)
  <2>1. WorkersInv' /\ CallsInv'
    BY <1>5, EndJobTyped DEF UpdateReturns
  <2> QED
    BY <1>5, <2>1 DEF UpdateReturns, TypeInv, TypeOK, StorageInv, LoopsInv,
       HistoryInv, RestInv, storage, loops, history
<1>6. CASE DeadLetter(w)
  <2>1. BestReceipt(w) \in Receipt
    BY <1>0 DEF BestReceipt, WorkerState
  <2>2. WorkersInv'
    <3>1. [wk[w] EXCEPT !.pc = "cleanup"] \in WorkerState
      BY <1>0 DEF WorkerState, Phase
    <3>2. [wk[w] EXCEPT !.pc = "extend", !.jcall = BestReceipt(w)] \in WorkerState
      BY <1>0, <2>1 DEF WorkerState, Phase
    <3>3. wk[w].msg \in Msgs
      BY <1>0, <1>6 DEF DeadLetter, Busy
    <3>4. PICK t : /\ wk' = [wk EXCEPT ![w] = t]
                   /\ \/ t = [wk[w] EXCEPT !.pc = "cleanup"]
                      \/ t = [wk[w] EXCEPT !.pc = "extend", !.jcall = BestReceipt(w)]
      BY <1>0, <1>6 DEF DeadLetter, TypeInv, TypeOK
    <3>5. t.msg = wk[w].msg
      BY <1>0, <3>4 DEF WorkerState
    <3> QED
      BY <3>1, <3>2, <3>3, <3>4, <3>5, OneWorkerTyped
  <2>3. dead' \in [Msgs -> 0 .. Many]
    BY <1>0, <1>6, SendDeadTyped DEF DeadLetter, TypeInv, TypeOK, Busy
  <2>4. budget' \in 0 .. Budget
    BY <1>6, OccursTyped DEF DeadLetter, TypeInv, TypeOK
  <2> QED
    BY <1>6, <2>2, <2>3, <2>4 DEF DeadLetter, TypeInv, TypeOK, CallsInv, StorageInv,
       LoopsInv, HistoryInv, RestInv, storage, loops, calls, history
<1> QED
  BY <1>1, <1>2, <1>3, <1>4, <1>5, <1>6 DEF JobStep, SettleSuccess, DeleteDead

(* The steps of a renewal loop.                                            *)
LEMMA RenewStepTyped ==
  ASSUME TypeInv, NEW w \in Workers, RenewStep(w)
  PROVE  TypeInv'
<1> USE TypeInvParts, ConstantsAssumption
<1>0. wk[w] \in WorkerState /\ (Busy(w) => wk[w].msg \in Msgs)
  BY DEF TypeInv, TypeOK
<1>1. CASE RenewWakes(w)
  <2>1. WorkersInv'
    <3>1. wk[w].msg \in Msgs
      BY <1>0, <1>1 DEF RenewWakes, Busy
    <3>2. CASE wk[w].tracked = NoReceipt
      <4> DEFINE t == [wk[w] EXCEPT !.timer = RenewTicks]
      <4>1. t \in WorkerState /\ t.msg \in Msgs
        BY <1>0, <3>1 DEF WorkerState
      <4>2. wk' = [wk EXCEPT ![w] = t]
        BY <1>1, <3>2 DEF RenewWakes
      <4> QED
        BY <4>1, <4>2, OneWorkerTyped
    <3>3. CASE wk[w].tracked # NoReceipt
      <4> DEFINE t == [wk[w] EXCEPT !.renew = "call", !.rcall = wk[w].tracked]
      <4>1. t \in WorkerState /\ t.msg \in Msgs
        BY <1>0, <3>1 DEF WorkerState
      <4>2. wk' = [wk EXCEPT ![w] = t]
        BY <1>1, <3>3 DEF RenewWakes
      <4> QED
        BY <4>1, <4>2, OneWorkerTyped
    <3> QED
      BY <3>2, <3>3
  <2> QED
    BY <1>1, <2>1 DEF RenewWakes, TypeInv, TypeOK, CallsInv, StorageInv, LoopsInv,
       HistoryInv, RestInv, storage, loops, calls, history
<1>2. CASE RenewCalls(w)
  <2>1. WorkersInv'
    <3>1. wk[w].msg \in Msgs
      BY <1>0, <1>2 DEF RenewCalls, Busy
    <3>2. PICK t : /\ wk' = [wk EXCEPT ![w] = t]
                   /\ \/ t = [wk[w] EXCEPT !.renew = "reply", !.rcall = NewReceipt]
                      \/ t = [wk[w] EXCEPT !.renew = "off", !.rcall = NoReceipt]
                      \/ t = [wk[w] EXCEPT !.renew = "sleep", !.timer = RenewTicks,
                                           !.rcall = NoReceipt]
      BY <1>2 DEF RenewCalls
    <3>3. t \in WorkerState /\ t.msg \in Msgs
      <4>1. [wk[w] EXCEPT !.renew = "reply", !.rcall = NewReceipt] \in WorkerState
        BY <1>0, NewReceiptFresh DEF WorkerState
      <4>2. [wk[w] EXCEPT !.renew = "off", !.rcall = NoReceipt] \in WorkerState
        BY <1>0 DEF WorkerState
      <4>3. [wk[w] EXCEPT !.renew = "sleep", !.timer = RenewTicks, !.rcall = NoReceipt]
              \in WorkerState
        BY <1>0, SleepTyped
      <4>4. t.msg = wk[w].msg
        <5>1. CASE t = [wk[w] EXCEPT !.renew = "reply", !.rcall = NewReceipt]
          BY <1>0, <5>1 DEF WorkerState
        <5>2. CASE t = [wk[w] EXCEPT !.renew = "off", !.rcall = NoReceipt]
          BY <1>0, <5>2 DEF WorkerState
        <5>3. CASE t = [wk[w] EXCEPT !.renew = "sleep", !.timer = RenewTicks, !.rcall = NoReceipt]
          BY <1>0, <5>3 DEF WorkerState
        <5> QED
          BY <3>2, <5>1, <5>2, <5>3
      <4>5. t \in WorkerState
        BY <3>2, <4>1, <4>2, <4>3
      <4> QED
        BY <3>1, <4>4, <4>5
    <3> QED
      BY <3>2, <3>3, OneWorkerTyped
  <2>2. StorageInv'
    BY <1>0, <1>2, UpdateTyped DEF RenewCalls, StorageInv, TypeInv, TypeOK, Busy, storage
  <2>3. budget' \in 0 .. Budget
    BY <1>2, OccursTyped DEF RenewCalls, TypeInv, TypeOK
  <2> QED
    BY <1>2, <2>1, <2>2, <2>3 DEF RenewCalls, TypeInv, TypeOK, CallsInv, LoopsInv,
       HistoryInv, RestInv, loops, calls, history
<1>3. CASE RenewReturns(w)
  <2>1. WorkersInv'
    <3> DEFINE t == [wk[w] EXCEPT !.renew = "sleep", !.timer = RenewTicks,
                                  !.tracked = wk[w].rcall, !.rcall = NoReceipt]
    <3>1. t \in WorkerState /\ t.msg \in Msgs
      <4>1. wk[w].rcall \in Receipt
        BY <1>0 DEF WorkerState
      <4>2. t \in WorkerState
        BY <1>0, <4>1, SleepTyped
      <4>3. t.msg = wk[w].msg
        BY <1>0 DEF WorkerState
      <4> QED
        BY <1>0, <1>3, <4>2, <4>3 DEF RenewReturns, Busy
    <3>2. wk' = [wk EXCEPT ![w] = t]
      BY <1>3 DEF RenewReturns
    <3> QED
      BY <3>1, <3>2, OneWorkerTyped
  <2> QED
    BY <1>3, <2>1 DEF RenewReturns, TypeInv, TypeOK, CallsInv, StorageInv, LoopsInv,
       HistoryInv, RestInv, storage, loops, calls, history
<1> QED
  BY <1>1, <1>2, <1>3 DEF RenewStep

(* A call of a cancelled coroutine.                                        *)
LEMMA OrphanTyped ==
  ASSUME TypeInv, NEW c \in orphans, OrphanEffect(c)
  PROVE  TypeInv'
<1>1. c.msg \in Msgs /\ OrphanTicks(c.op) \in 0 .. VisTicks
  BY ConstantsAssumption DEF TypeInv, TypeOK, OrphanCall, OrphanTicks
<1>2. StorageInv'
  BY <1>1, UpdateTyped DEF OrphanEffect, StorageInv, TypeInv, TypeOK, storage
<1>3. dead' \in [Msgs -> 0 .. Many]
  BY <1>1, SendDeadTyped DEF OrphanEffect, TypeInv, TypeOK
<1>4. CallsInv'
  BY FS_Subset DEF OrphanEffect, CallsInv, TypeInv, TypeOK
<1>5. WorkersInv' /\ LoopsInv' /\ HistoryInv' /\ RestInv'
  BY <1>3 DEF OrphanEffect, WorkersInv, LoopsInv, HistoryInv, RestInv, TypeInv, TypeOK,
     Busy, loops, history
<1> QED
  BY <1>2, <1>4, <1>5, TypeInvParts

(* stop_process and stop_worker.                                           *)
LEMMA StopTyped ==
  ASSUME TypeInv,
         \/ \E w \in Workers : BeginKill(w) \/ BeginStopWorker(w) \/ EndStopWorker(w)
         \/ \E k \in kills : EndKill(k)
  PROVE  TypeInv'
<1> USE TypeInvParts
<1>1. ASSUME NEW w \in Workers, BeginKill(w)
      PROVE  TypeInv'
  <2>1. wk[w].msg \in Msgs
    BY <1>1 DEF BeginKill, InFlight, TypeInv
  <2>2. StorageInv'
    BY <1>1, <2>1, DeleteTyped DEF BeginKill, StorageInv, TypeInv, TypeOK, storage
  <2>3. WorkersInv' /\ CallsInv' /\ LoopsInv' /\ HistoryInv' /\ RestInv'
    BY <1>1, <2>1, OccursTyped DEF BeginKill, WorkersInv, CallsInv, LoopsInv, HistoryInv,
       RestInv, TypeInv, TypeOK, Busy, loops
  <2> QED
    BY <2>2, <2>3
<1>2. ASSUME NEW k \in kills, EndKill(k)
      PROVE  TypeInv'
  <2>1. k.worker \in Workers
    BY DEF TypeInv, TypeOK
  <2>2. WorkersInv' /\ CallsInv'
    <3>1. CASE wk[k.worker].listed
      BY <1>2, <2>1, <3>1, CancelJobTyped DEF EndKill
    <3>2. CASE ~wk[k.worker].listed
      BY <1>2, <3>2 DEF EndKill, WorkersInv, CallsInv, TypeInv, TypeOK, Busy
    <3> QED
      BY <3>1, <3>2
  <2>3. StorageInv' /\ LoopsInv' /\ HistoryInv' /\ RestInv'
    BY <1>2 DEF EndKill, StorageInv, LoopsInv, HistoryInv, RestInv, TypeInv, TypeOK,
       storage, loops, history
  <2> QED
    BY <2>2, <2>3
<1>3. ASSUME NEW w \in Workers, BeginStopWorker(w)
      PROVE  TypeInv'
  <2>1. WorkersInv' /\ CallsInv'
    <3>1. CASE wk[w].pc \in {"off", "poll"}
      <4>1. wk' = [wk EXCEPT ![w] = Idle("off")] /\ UNCHANGED <<kills, orphans>>
        BY <1>3, <3>1 DEF BeginStopWorker
      <4> QED
        BY <4>1, IdleTyped DEF WorkersInv, CallsInv, TypeInv, TypeOK, Busy
    <3>2. CASE wk[w].pc \notin {"off", "poll"}
      BY <1>3, <3>2, CancelJobTyped DEF BeginStopWorker
    <3> QED
      BY <3>1, <3>2
  <2>2. StorageInv' /\ LoopsInv' /\ HistoryInv' /\ RestInv'
    BY <1>3, OccursTyped DEF BeginStopWorker, StorageInv, LoopsInv, HistoryInv, RestInv,
       TypeInv, TypeOK, storage, history
  <2> QED
    BY <2>1, <2>2
<1>4. ASSUME NEW w \in Workers, EndStopWorker(w)
      PROVE  TypeInv'
  <2> DEFINE t == [wk[w] EXCEPT !.tracked = NoReceipt, !.listed = FALSE]
  <2>1. wk[w] \in WorkerState /\ (Busy(w) => wk[w].msg \in Msgs)
    BY DEF TypeInv, TypeOK
  <2>2. t \in WorkerState
    BY <2>1 DEF WorkerState
  <2>3. t.pc = wk[w].pc /\ t.renew = wk[w].renew /\ t.msg = wk[w].msg /\ ~t.listed
    BY <2>1 DEF WorkerState
  <2>4. wk' = [wk EXCEPT ![w] = t]
    BY <1>4 DEF EndStopWorker
  <2>5. WorkersInv'
    BY <2>1, <2>2, <2>3, <2>4, OneWorkerTyped DEF Busy
  <2>6. CallsInv' /\ StorageInv' /\ LoopsInv' /\ HistoryInv' /\ RestInv'
    BY <1>4 DEF EndStopWorker, CallsInv, StorageInv, LoopsInv, HistoryInv, RestInv,
       TypeInv, TypeOK, storage, calls, history
  <2> QED
    BY <2>5, <2>6
<1> QED
  BY <1>1, <1>2, <1>3, <1>4

(* A replica goes down or comes up.                                        *)
LEMMA ReplicaTyped ==
  ASSUME TypeInv, NEW r \in Replicas,
         StopService(r) \/ Crash(r) \/ ServiceReturns(r) \/ StartService(r)
  PROVE  TypeInv'
<1> USE TypeInvParts
<1>1. ASSUME NEW p \in {"off", "poll"},
             wk' = [w \in Workers |-> IF w \in Local(r) THEN Idle(p) ELSE wk[w]]
      PROVE  WorkersInv'
  BY <1>1, IdleTyped DEF TypeInv, TypeOK, WorkersInv, Busy
<1>2. ASSUME GoDown(r)
      PROVE  WorkersInv' /\ StorageInv' /\ LoopsInv' /\ HistoryInv'
             /\ dead' \in [Msgs -> 0 .. Many] /\ kills' \subseteq kills
  BY <1>1, <1>2 DEF GoDown, TypeInv, TypeOK, StorageInv, LoopsInv, HistoryInv, storage, history
<1>3. CASE StopService(r)
  <2> DEFINE left(w) == RenewOrphan(w) \cup JobOrphan(w)
             all == UNION {left(w) : w \in Local(r)}
  <2>1. \A w \in Workers : left(w) \subseteq OrphanCall /\ IsFiniteSet(left(w))
    BY OrphansTyped, FS_Union
  <2>2. IsFiniteSet({left(w) : w \in Local(r)})
    <3>1. IsFiniteSet(Local(r))
      BY ConstantsAssumption, FS_Subset DEF Local
    <3>2. [w \in Local(r) |-> left(w)] \in Surjection(Local(r), {left(w) : w \in Local(r)})
      BY DEF Surjection
    <3> QED
      BY <3>1, <3>2, FS_Surjection
  <2>3. Local(r) \subseteq Workers
    BY DEF Local
  <2>4. all \subseteq OrphanCall /\ IsFiniteSet(all)
    BY <2>1, <2>2, <2>3, FS_UNION
  <2>5. orphans' = orphans \cup all
    BY <1>3 DEF StopService
  <2> HIDE DEF all, left
  <2>6. CallsInv'
    <3>1. IsFiniteSet(orphans) /\ orphans \subseteq OrphanCall
          /\ kills \subseteq [worker : Workers, msg : Msgs]
      BY DEF TypeInv, TypeOK
    <3>2. IsFiniteSet(orphans') /\ orphans' \subseteq OrphanCall
      BY <2>4, <2>5, <3>1, FS_Union
    <3>3. kills' \subseteq kills
      BY <1>2, <1>3 DEF StopService
    <3> QED
      BY <3>1, <3>2, <3>3 DEF CallsInv
  <2> QED
    BY <1>2, <1>3, <2>6, OccursTyped DEF StopService, RestInv
<1>4. CASE Crash(r)
  <2>1. orphans' \subseteq orphans
    BY <1>4 DEF Crash
  <2>2. CallsInv'
    BY <1>2, <1>4, <2>1, FS_Subset DEF Crash, CallsInv, TypeInv, TypeOK
  <2> QED
    BY <1>2, <1>4, <2>2, OccursTyped DEF Crash, RestInv
<1>5. CASE ServiceReturns(r)
  BY <1>5 DEF ServiceReturns, TypeInv, TypeOK, WorkersInv, CallsInv, StorageInv, LoopsInv,
     HistoryInv, RestInv, Busy, storage, calls, history
<1>6. CASE StartService(r)
  BY <1>1, <1>6 DEF StartService, Local, TypeInv, TypeOK, CallsInv, StorageInv, LoopsInv,
     HistoryInv, RestInv, storage, calls, history
<1> QED
  BY <1>3, <1>4, <1>5, <1>6

LEMMA TickTyped ==
  ASSUME TypeInv, Tick
  PROVE  TypeInv'
<1> USE TypeInvParts
<1>1. WorkersInv'
  <2> SUFFICES ASSUME NEW w \in Workers
               PROVE  /\ wk'[w] \in WorkerState
                      /\ wk'[w].pc = wk[w].pc /\ wk'[w].renew = wk[w].renew
                      /\ wk'[w].msg = wk[w].msg /\ wk'[w].listed = wk[w].listed
    BY DEF Tick, TypeInv, TypeOK, WorkersInv, Busy
  <2>1. wk[w] \in WorkerState
    BY DEF TypeInv, TypeOK
  <2>2. CASE wk[w].renew = "sleep" /\ ~Due(w)
    <3>1. wk'[w] = [wk[w] EXCEPT !.timer = wk[w].timer - 1]
      BY <2>2 DEF Tick
    <3>2. wk[w].timer - 1 \in 0 .. RenewTicks
      BY <2>1, <2>2, ConstantsAssumption DEF Due, WorkerState
    <3>3. wk'[w] \in WorkerState
      BY <2>1, <3>1, <3>2, FieldTyped
    <3>4. [wk[w] EXCEPT !.timer = wk[w].timer - 1].pc = wk[w].pc
      BY <2>1 DEF WorkerState
    <3>5. [wk[w] EXCEPT !.timer = wk[w].timer - 1].renew = wk[w].renew
      BY <2>1 DEF WorkerState
    <3>6. [wk[w] EXCEPT !.timer = wk[w].timer - 1].msg = wk[w].msg
      BY <2>1 DEF WorkerState
    <3>7. [wk[w] EXCEPT !.timer = wk[w].timer - 1].listed = wk[w].listed
      BY <2>1 DEF WorkerState
    <3> QED
      BY <3>1, <3>3, <3>4, <3>5, <3>6, <3>7
  <2>3. CASE ~(wk[w].renew = "sleep" /\ ~Due(w))
    BY <2>1, <2>3 DEF Tick
  <2> QED
    BY <2>2, <2>3
<1>2. StorageInv'
  BY ConstantsAssumption DEF Tick, StorageInv, TypeInv, TypeOK
<1> QED
  BY <1>1, <1>2, OccursTyped DEF Tick, CallsInv, LoopsInv, HistoryInv, RestInv, TypeInv,
     TypeOK, loops, calls, history

LEMMA InitTyped == Init => TypeInv
<1> SUFFICES ASSUME Init PROVE TypeInv
  OBVIOUS
<1>1. WorkersInv
  BY IdleTyped DEF Init, WorkersInv, Busy
<1> QED
  BY <1>1, ConstantsAssumption, FS_EmptySet, TypeInvParts DEF Init, CallsInv, StorageInv,
     LoopsInv, HistoryInv, RestInv

LEMMA NextTyped == TypeInv /\ [Next]_vars => TypeInv'
<1> SUFFICES ASSUME TypeInv, [Next]_vars
             PROVE  TypeInv'
  OBVIOUS
<1>1. CASE UNCHANGED vars
  BY <1>1 DEF vars, storage, loops, calls, history, TypeInv, TypeOK, Busy
<1>2. ASSUME NEW w \in Workers, WorkerStep(w)
      PROVE  TypeInv'
  BY <1>1, <1>2, ReceiveTyped, JobStepTyped, RenewStepTyped, StopTyped
     DEF WorkerStep, PollEmpty
<1> QED
  BY <1>1, <1>2, OrphanTyped, StopTyped, ReplicaTyped, TickTyped DEF Next

(* Every variable keeps its type, for every number of workers, replicas    *)
(* and messages and every fault: in particular a fresh pop receipt always  *)
(* exists, and a timer or a lease never runs below zero.                   *)
THEOREM TypeCorrect == Spec => []TypeOK
<1>1. TypeInv => TypeOK
  BY DEF TypeInv
<1> QED
  BY <1>1, InitTyped, NextTyped, PTL DEF Spec

-------------------------------------------------------------------------------
(* No request is lost.  A message is deleted only by a job that has settled*)
(* with success, by one that has sent it to the dead-letter queue, or by   *)
(* stop_process; the strengthening says that the first two find the        *)
(* outcome already recorded.                                               *)
LossInv ==
  /\ NoSilentLoss
  /\ \A w \in Workers : wk[w].pc = "settle" /\ wk[w].outcome = "ok" => wk[w].msg \in done
  /\ \A w \in Workers : wk[w].pc = "cleanup" => dead[wk[w].msg] > 0

LEMMA ReachedNonempty ==
  ASSUME NEW m \in Msgs
  PROVE  /\ Reached(m) # {} <=> m \in done \/ dead[m] > 0 \/ m \in killed
         /\ Reached(m)' # {} <=> m \in done' \/ dead'[m] > 0 \/ m \in killed'
BY DEF Reached

(* The workers' part of LossInv survives every step that leaves the        *)
(* settled and the cleaning-up jobs alone and forgets no outcome.          *)
SettledInv ==
  /\ \A w \in Workers : wk[w].pc = "settle" /\ wk[w].outcome = "ok" => wk[w].msg \in done
  /\ \A w \in Workers : wk[w].pc = "cleanup" => dead[wk[w].msg] > 0

LEMMA LossStep ==
  ASSUME LossInv, TypeInv, TypeInv',
         \A m \in queued \ queued' : m \in done' \/ dead'[m] > 0 \/ m \in killed',
         done \subseteq done', killed \subseteq killed',
         \A m \in Msgs : dead[m] > 0 => dead'[m] > 0,
         SettledInv'
  PROVE  LossInv'
<1>1. ASSUME NEW m \in Msgs \ queued'
      PROVE  m \in done' \/ dead'[m] > 0 \/ m \in killed'
  <2>1. CASE m \in queued
    BY <1>1, <2>1
  <2>2. CASE m \notin queued
    <3>1. m \in done \/ dead[m] > 0 \/ m \in killed
      BY <1>1, <2>2, ReachedNonempty DEF LossInv, NoSilentLoss
    <3> QED
      BY <1>1, <3>1
  <2> QED
    BY <2>1, <2>2
<1>2. NoSilentLoss'
  <2> SUFFICES ASSUME NEW m \in Msgs \ queued'
               PROVE  Reached(m)' # {}
    BY DEF NoSilentLoss
  <2> QED
    BY <1>1, ReachedNonempty
<1> QED
  BY <1>2 DEF LossInv, SettledInv

(* A step that changes no record but w's, to one that is neither settled   *)
(* nor cleaning up, or is so rightly.                                      *)
LEMMA SettledOne ==
  ASSUME LossInv, TypeInv, NEW w \in Workers,
         \A v \in Workers \ {w} : wk'[v] = wk[v],
         done \subseteq done',
         \A m \in Msgs : dead[m] > 0 => dead'[m] > 0,
         wk'[w].pc = "settle" /\ wk'[w].outcome = "ok" => wk'[w].msg \in done',
         wk'[w].pc = "cleanup" => dead'[wk'[w].msg] > 0
  PROVE  SettledInv'
<1>1. \A v \in Workers : wk[v].pc = "cleanup" => wk[v].msg \in Msgs
  BY DEF TypeInv, Busy
<1> QED
  BY <1>1 DEF LossInv, SettledInv

LEMMA SendDeadGrows ==
  ASSUME TypeInv, NEW m \in Msgs, SendDead(m)
  PROVE  dead'[m] > 0 /\ \A x \in Msgs : dead[x] > 0 => dead'[x] > 0
BY DEF TypeInv, TypeOK, SendDead

LEMMA LossReceive ==
  ASSUME LossInv, TypeInv, TypeInv', NEW w \in Workers, NEW m \in Msgs, Receive(w, m)
  PROVE  LossInv'
<1>1. PICK o \in {"none", "malformed", "startFailed"} : Take(w, m, o)
  BY DEF Receive
<1>2. PICK n, r : wk' = [wk EXCEPT ![w] = Job(m, o, n, r)]
  BY <1>1 DEF Take
<1>3. wk'[w].pc \in {"run", "retry", "dlq"} /\ \A v \in Workers \ {w} : wk'[v] = wk[v]
  BY <1>2 DEF Job, FailurePhase, TypeInv, TypeOK
<1>4. UNCHANGED <<queued, dead, done, killed>>
  BY <1>1 DEF Take
<1>5. SettledInv'
  BY <1>3, <1>4, SettledOne
<1> QED
  BY <1>4, <1>5, LossStep

LEMMA LossJobStep ==
  ASSUME LossInv, TypeInv, TypeInv', NEW w \in Workers, JobStep(w)
  PROVE  LossInv'
<1>0. wk[w] \in WorkerState /\ (Busy(w) => wk[w].msg \in Msgs) /\ wk \in [Workers -> WorkerState]
  BY DEF TypeInv, TypeOK
<1>1. ASSUME NEW o \in {"ok", "failed", "error"}, RunEnds(w, o)
      PROVE  LossInv'
  <2>1. wk'[w].msg = wk[w].msg /\ wk'[w].outcome = o /\ wk'[w].pc = "settle"
        /\ \A v \in Workers \ {w} : wk'[v] = wk[v]
    BY <1>0, <1>1 DEF RunEnds, WorkerState
  <2>2. UNCHANGED <<queued, dead, killed>> /\ done \subseteq done'
        /\ (o = "ok" => wk[w].msg \in done')
    BY <1>1 DEF RunEnds, storage
  <2>3. SettledInv'
    BY <2>1, <2>2, SettledOne
  <2> QED
    BY <2>2, <2>3, LossStep
<1>2. ASSUME Delete(wk[w].msg, BestReceipt(w)) \/ UNCHANGED storage,
             EndJob(w), UNCHANGED <<dead, history>>,
             wk[w].msg \in done \/ dead[wk[w].msg] > 0
      PROVE  LossInv'
  <2>1. wk'[w].pc = "poll" /\ \A v \in Workers \ {w} : wk'[v] = wk[v]
    BY <1>0, <1>2 DEF EndJob, Idle
  <2>2. UNCHANGED <<dead, done, killed>>
    BY <1>2 DEF history
  <2>3. queued \ queued' \subseteq {wk[w].msg}
    BY <1>2 DEF Delete, storage
  <2>4. SettledInv'
    BY <2>1, <2>2, SettledOne
  <2> QED
    BY <1>2, <2>2, <2>3, <2>4, LossStep
<1>3. CASE SettleSuccess(w)
  <2>1. wk[w].msg \in done
    BY <1>3 DEF SettleSuccess, LossInv
  <2> QED
    BY <1>2, <1>3, <2>1 DEF SettleSuccess
<1>4. CASE DeleteDead(w)
  <2>1. dead[wk[w].msg] > 0
    BY <1>4 DEF DeleteDead, LossInv
  <2> QED
    BY <1>2, <1>4, <2>1 DEF DeleteDead
<1>5. ASSUME UNCHANGED <<queued, dead, done, killed>>,
             wk'[w].pc \in {"retry", "dlq", "updated", "poll"},
             \A v \in Workers \ {w} : wk'[v] = wk[v]
      PROVE  LossInv'
  <2>1. SettledInv'
    BY <1>5, SettledOne
  <2> QED
    BY <1>5, <2>1, LossStep
<1>6. CASE SettleFailure(w)
  <2>1. wk'[w].pc \in {"retry", "dlq"} /\ \A v \in Workers \ {w} : wk'[v] = wk[v]
    BY <1>0, <1>6 DEF SettleFailure, FailurePhase, WorkerState
  <2>2. UNCHANGED <<queued, dead, done, killed>>
    BY <1>6 DEF SettleFailure, storage, history
  <2> QED
    BY <1>5, <2>1, <2>2
<1>7. CASE JobUpdates(w)
  <2>1. wk'[w].pc = "updated" /\ \A v \in Workers \ {w} : wk'[v] = wk[v]
    BY <1>0, <1>7 DEF JobUpdates, WorkerState
  <2>2. UNCHANGED <<queued, dead, done, killed>>
    BY <1>7 DEF JobUpdates, Update, storage, history
  <2> QED
    BY <1>5, <2>1, <2>2
<1>8. CASE UpdateReturns(w)
  <2>1. wk'[w].pc = "poll" /\ \A v \in Workers \ {w} : wk'[v] = wk[v]
    BY <1>0, <1>8 DEF UpdateReturns, EndJob, Idle
  <2>2. UNCHANGED <<queued, dead, done, killed>>
    BY <1>8 DEF UpdateReturns, storage, history
  <2> QED
    BY <1>5, <2>1, <2>2
<1>9. CASE DeadLetter(w)
  <2>1. UNCHANGED <<queued, done, killed>> /\ wk[w].msg \in Msgs
        /\ \A v \in Workers \ {w} : wk'[v] = wk[v]
    BY <1>0, <1>9 DEF DeadLetter, storage, history, Busy
  <2>2. \/ SendDead(wk[w].msg) /\ wk'[w] = [wk[w] EXCEPT !.pc = "cleanup"]
        \/ UNCHANGED dead /\ wk'[w] = [wk[w] EXCEPT !.pc = "extend", !.jcall = BestReceipt(w)]
    BY <1>0, <1>9 DEF DeadLetter
  <2>3. CASE SendDead(wk[w].msg) /\ wk'[w] = [wk[w] EXCEPT !.pc = "cleanup"]
    <3>1. wk'[w].pc = "cleanup" /\ wk'[w].msg = wk[w].msg
      BY <1>0, <2>3 DEF WorkerState
    <3>2. dead'[wk[w].msg] > 0 /\ \A x \in Msgs : dead[x] > 0 => dead'[x] > 0
      BY <2>1, <2>3, SendDeadGrows
    <3>3. SettledInv'
      BY <2>1, <3>1, <3>2, SettledOne
    <3> QED
      BY <2>1, <3>2, <3>3, LossStep
  <2>4. CASE UNCHANGED dead /\ wk'[w] = [wk[w] EXCEPT !.pc = "extend", !.jcall = BestReceipt(w)]
    <3>1. wk'[w].pc = "extend"
      BY <1>0, <2>4 DEF WorkerState
    <3>2. SettledInv'
      BY <2>1, <2>4, <3>1, SettledOne
    <3> QED
      BY <2>1, <2>4, <3>2, LossStep
  <2> QED
    BY <2>2, <2>3, <2>4
<1> QED
  BY <1>1, <1>3, <1>4, <1>6, <1>7, <1>8, <1>9 DEF JobStep

(* Steps that leave every job where it is or end it, and delete nothing    *)
(* that has no outcome.                                                    *)
LEMMA LossQuiet ==
  ASSUME LossInv, TypeInv, TypeInv',
         \A m \in queued \ queued' : m \in done' \/ dead'[m] > 0 \/ m \in killed',
         done \subseteq done', killed \subseteq killed',
         \A m \in Msgs : dead[m] > 0 => dead'[m] > 0,
         \A w \in Workers :
           \/ wk'[w].pc \in {"off", "poll"}
           \/ /\ wk'[w].pc = wk[w].pc /\ wk'[w].msg = wk[w].msg
              /\ wk'[w].outcome = wk[w].outcome
  PROVE  LossInv'
<1>1. \A w \in Workers : wk[w].pc = "cleanup" => wk[w].msg \in Msgs
  BY DEF TypeInv, Busy
<1>2. SettledInv'
  BY <1>1 DEF LossInv, SettledInv
<1> QED
  BY <1>2, LossStep

LEMMA LossRenewStep ==
  ASSUME LossInv, TypeInv, TypeInv', NEW w \in Workers, RenewStep(w)
  PROVE  LossInv'
<1>0. wk[w] \in WorkerState /\ wk \in [Workers -> WorkerState]
  BY DEF TypeInv, TypeOK
<1>1. UNCHANGED <<queued, dead, done, killed>>
  BY DEF RenewStep, RenewWakes, RenewCalls, RenewReturns, Update, storage, history
<1>2. /\ \A v \in Workers \ {w} : wk'[v] = wk[v]
      /\ wk'[w].pc = wk[w].pc /\ wk'[w].msg = wk[w].msg
      /\ wk'[w].outcome = wk[w].outcome
  <2>1. CASE RenewWakes(w)
    BY <1>0, <2>1 DEF RenewWakes, WorkerState
  <2>2. CASE RenewCalls(w)
    <3>1. \/ wk' = [wk EXCEPT ![w] = [@ EXCEPT !.renew = "reply", !.rcall = NewReceipt]]
          \/ wk' = [wk EXCEPT ![w] = [@ EXCEPT !.renew = "off", !.rcall = NoReceipt]]
          \/ wk' = [wk EXCEPT ![w] = [@ EXCEPT !.renew = "sleep", !.timer = RenewTicks,
                                              !.rcall = NoReceipt]]
      BY <2>2 DEF RenewCalls
    <3>2. CASE wk' = [wk EXCEPT ![w] = [@ EXCEPT !.renew = "reply", !.rcall = NewReceipt]]
      BY <1>0, <3>2 DEF WorkerState
    <3>3. CASE wk' = [wk EXCEPT ![w] = [@ EXCEPT !.renew = "off", !.rcall = NoReceipt]]
      BY <1>0, <3>3 DEF WorkerState
    <3>4. CASE wk' = [wk EXCEPT ![w] = [@ EXCEPT !.renew = "sleep", !.timer = RenewTicks,
                                                 !.rcall = NoReceipt]]
      BY <1>0, <3>4 DEF WorkerState
    <3> QED
      BY <3>1, <3>2, <3>3, <3>4
  <2>3. CASE RenewReturns(w)
    BY <1>0, <2>3 DEF RenewReturns, WorkerState
  <2> QED
    BY <2>1, <2>2, <2>3 DEF RenewStep
<1> QED
  BY <1>1, <1>2, LossQuiet

LEMMA LossOrphan ==
  ASSUME LossInv, TypeInv, TypeInv', NEW c \in orphans, OrphanEffect(c)
  PROVE  LossInv'
<1>1. c.msg \in Msgs
  BY DEF TypeInv, TypeOK, OrphanCall
<1>2. UNCHANGED <<queued, wk, done, killed>>
  BY DEF OrphanEffect, Update, storage, history
<1>3. \A m \in Msgs : dead[m] > 0 => dead'[m] > 0
  BY <1>1, SendDeadGrows DEF OrphanEffect
<1> QED
  BY <1>2, <1>3, LossQuiet

LEMMA LossStop ==
  ASSUME LossInv, TypeInv, TypeInv',
         \/ \E w \in Workers : BeginKill(w) \/ BeginStopWorker(w) \/ EndStopWorker(w)
         \/ \E k \in kills : EndKill(k)
  PROVE  LossInv'
<1>0. wk \in [Workers -> WorkerState]
  BY DEF TypeInv, TypeOK
<1>1. ASSUME NEW w \in Workers, BeginKill(w) PROVE LossInv'
  <2>1. UNCHANGED <<wk, dead, done>> /\ killed' = killed \cup {wk[w].msg}
        /\ queued \ queued' \subseteq {wk[w].msg}
    BY <1>1 DEF BeginKill, Delete, storage
  <2> QED
    BY <2>1, LossQuiet
<1>2. ASSUME NEW k \in kills, EndKill(k) PROVE LossInv'
  <2>1. UNCHANGED <<queued, dead, done, killed>>
    BY <1>2 DEF EndKill, storage, history
  <2>2. k.worker \in Workers
    BY DEF TypeInv, TypeOK
  <2>3. UNCHANGED wk \/ wk' = [wk EXCEPT ![k.worker] = Idle("poll")]
    BY <1>2 DEF EndKill, CancelJob
  <2>4. \A w \in Workers : wk'[w] = wk[w] \/ wk'[w].pc = "poll"
    <3>1. CASE UNCHANGED wk
      BY <3>1
    <3>2. CASE wk' = [wk EXCEPT ![k.worker] = Idle("poll")]
      <4>1. Idle("poll").pc = "poll"
        BY IdleTyped
      <4> QED
        BY <1>0, <3>2, <4>1
    <3> QED
      BY <2>3, <3>1, <3>2
  <2> QED
    BY <2>1, <2>4, LossQuiet
<1>3. ASSUME NEW w \in Workers, BeginStopWorker(w) PROVE LossInv'
  <2>1. UNCHANGED <<queued, dead, done, killed>>
    BY <1>3 DEF BeginStopWorker, storage, history
  <2>2. \E p \in {"off", "poll"} : wk' = [wk EXCEPT ![w] = Idle(p)]
    BY <1>3 DEF BeginStopWorker, CancelJob
  <2>3. \A v \in Workers : wk'[v] = wk[v] \/ wk'[v].pc \in {"off", "poll"}
    BY <1>0, <2>2, IdleTyped
  <2> QED
    BY <2>1, <2>3, LossQuiet
<1>4. ASSUME NEW w \in Workers, EndStopWorker(w) PROVE LossInv'
  <2>1. UNCHANGED <<queued, dead, done, killed>>
    BY <1>4 DEF EndStopWorker, storage, history
  <2>2. \A v \in Workers : wk'[v].pc = wk[v].pc /\ wk'[v].msg = wk[v].msg
                           /\ wk'[v].outcome = wk[v].outcome
    <3> DEFINE t == [wk[w] EXCEPT !.tracked = NoReceipt, !.listed = FALSE]
    <3>1. wk' = [wk EXCEPT ![w] = t]
      BY <1>4 DEF EndStopWorker
    <3>2. t.pc = wk[w].pc /\ t.msg = wk[w].msg /\ t.outcome = wk[w].outcome
      BY <1>0 DEF WorkerState
    <3> HIDE DEF t
    <3> QED
      BY <1>0, <3>1, <3>2
  <2>3. done \subseteq done' /\ killed \subseteq killed' /\ queued \ queued' = {}
        /\ \A m \in Msgs : dead[m] > 0 => dead'[m] > 0
    BY <2>1
  <2> QED
    BY <2>2, <2>3, LossQuiet
<1> QED
  BY <1>1, <1>2, <1>3, <1>4

LEMMA LossReplica ==
  ASSUME LossInv, TypeInv, TypeInv', NEW r \in Replicas,
         StopService(r) \/ Crash(r) \/ ServiceReturns(r) \/ StartService(r)
  PROVE  LossInv'
<1>1. UNCHANGED <<queued, dead, done, killed>>
  BY DEF StopService, Crash, ServiceReturns, StartService, GoDown, storage, history
<1>2. \A w \in Workers : wk'[w] = wk[w] \/ wk'[w].pc \in {"off", "poll"}
  BY IdleTyped DEF StopService, Crash, ServiceReturns, StartService, GoDown
<1> QED
  BY <1>1, <1>2, LossQuiet

LEMMA LossTick ==
  ASSUME LossInv, TypeInv, TypeInv', Tick
  PROVE  LossInv'
<1>0. wk \in [Workers -> WorkerState]
  BY DEF TypeInv, TypeOK
<1>1. UNCHANGED <<queued, dead, done, killed>>
  BY DEF Tick, history
<1>2. \A w \in Workers : wk'[w].pc = wk[w].pc /\ wk'[w].msg = wk[w].msg
                         /\ wk'[w].outcome = wk[w].outcome
  BY <1>0 DEF Tick, WorkerState
<1> QED
  BY <1>1, <1>2, LossQuiet

LEMMA LossNext == LossInv /\ TypeInv /\ TypeInv' /\ [Next]_vars => LossInv'
<1> SUFFICES ASSUME LossInv, TypeInv, TypeInv', [Next]_vars
             PROVE  LossInv'
  OBVIOUS
<1>1. CASE UNCHANGED vars
  <2>1. UNCHANGED <<queued, dead, done, killed, wk>>
    BY <1>1 DEF vars, storage, history
  <2> QED
    BY <2>1, LossQuiet
<1>2. ASSUME NEW w \in Workers, WorkerStep(w)
      PROVE  LossInv'
  BY <1>1, <1>2, LossReceive, LossJobStep, LossRenewStep, LossStop
     DEF WorkerStep, PollEmpty
<1> QED
  BY <1>1, <1>2, LossOrphan, LossStop, LossReplica, LossTick DEF Next

(* No request is ever lost silently: whatever is retried, redelivered,     *)
(* cancelled, stopped or crashes, in any number of workers and replicas, a *)
(* message that left the main queue was worked off, is in the dead-letter  *)
(* queue or was killed by an operator.                                     *)
THEOREM NoLoss == Spec => []NoSilentLoss
<1>1. Init => LossInv
  BY IdleTyped DEF Init, LossInv, NoSilentLoss
<1>2. LossInv => NoSilentLoss
  BY DEF LossInv
<1> QED
  BY <1>1, <1>2, InitTyped, NextTyped, LossNext, PTL DEF Spec

-------------------------------------------------------------------------------
(* The service implements the safety part of ClaimDelivery: recording an   *)
(* outcome is a Reach step, a successful delete is a Remove step, and       *)
(* every other step leaves both the queue and the outcomes alone.          *)

AbstractStep == Delivery!Next \/ UNCHANGED Delivery!vars

(* What each outcome is, one equivalence per outcome.                      *)
LEMMA ReachedIs ==
  ASSUME NEW m \in Msgs
  PROVE  /\ Reached(m) \subseteq {"done", "dead", "killed"}
         /\ "done" \in Reached(m) <=> m \in done
         /\ "dead" \in Reached(m) <=> dead[m] > 0
         /\ "killed" \in Reached(m) <=> m \in killed
         /\ Reached(m)' \subseteq {"done", "dead", "killed"}
         /\ "done" \in Reached(m)' <=> m \in done'
         /\ "dead" \in Reached(m)' <=> dead'[m] > 0
         /\ "killed" \in Reached(m)' <=> m \in killed'
BY DEF Reached

LEMMA Stutters ==
  ASSUME UNCHANGED <<queued, dead, done, killed>>
  PROVE  AbstractStep
<1>1. \A m \in Msgs : Reached(m)' = Reached(m)
  BY DEF Reached
<1> QED
  BY <1>1 DEF AbstractStep, Delivery!vars

LEMMA Reaches ==
  ASSUME NEW m \in Msgs, NEW o \in {"done", "dead", "killed"}, UNCHANGED queued,
         Reached(m)' = Reached(m) \cup {o},
         \A x \in Msgs \ {m} : Reached(x)' = Reached(x)
  PROVE  AbstractStep
<1>1. Delivery!Reach(m, o)
  BY DEF Delivery!Reach
<1> QED
  BY <1>1 DEF AbstractStep, Delivery!Next, Delivery!Outcomes

LEMMA Removes ==
  ASSUME NEW m \in queued, m \in Msgs, NEW o \in {{}, {"killed"}},
         queued' = queued \ {m}, Reached(m) \cup o # {},
         Reached(m)' = Reached(m) \cup o,
         \A x \in Msgs \ {m} : Reached(x)' = Reached(x)
  PROVE  AbstractStep
<1>1. Delivery!Remove(m, o)
  BY DEF Delivery!Remove
<1> QED
  BY <1>1 DEF AbstractStep, Delivery!Next

(* Storing a payload in the dead-letter queue.                             *)
LEMMA DeadIsReached ==
  ASSUME TypeInv, NEW m \in Msgs, SendDead(m), UNCHANGED <<queued, done, killed>>
  PROVE  AbstractStep
<1>1. dead'[m] > 0 /\ \A x \in Msgs \ {m} : dead'[x] = dead[x]
  BY DEF SendDead, TypeInv, TypeOK
<1>2. Reached(m)' = Reached(m) \cup {"dead"}
  BY <1>1, ReachedIs
<1>3. \A x \in Msgs \ {m} : Reached(x)' = Reached(x)
  BY <1>1 DEF Reached
<1> QED
  BY <1>2, <1>3, Reaches

(* The delete of a job that settled.                                       *)
LEMMA DeleteRemoves ==
  ASSUME NEW m \in Msgs, NEW r, Delete(m, r) \/ UNCHANGED storage,
         m \in done \/ dead[m] > 0, UNCHANGED <<dead, done, killed>>
  PROVE  AbstractStep
<1>1. \A x \in Msgs : Reached(x)' = Reached(x)
  BY DEF Reached
<1>2. CASE m \in queued /\ queued' = queued \ {m}
  <2>1. Reached(m) # {}
    BY ReachedIs
  <2> QED
    BY <1>1, <1>2, <2>1, Removes
<1>3. CASE UNCHANGED queued
  BY <1>3, Stutters
<1> QED
  BY <1>2, <1>3 DEF Delete, Accepts, storage

LEMMA JobStepRefines ==
  ASSUME LossInv, TypeInv, NEW w \in Workers, JobStep(w)
  PROVE  AbstractStep
<1>0. Busy(w) => wk[w].msg \in Msgs
  BY DEF TypeInv
<1>1. ASSUME NEW o \in {"ok", "failed", "error"}, RunEnds(w, o)
      PROVE  AbstractStep
  <2>1. CASE o = "ok"
    <3>1. PICK m \in Msgs : m = wk[w].msg
      BY <1>0, <1>1 DEF RunEnds, Busy
    <3>2. done' = done \cup {m} /\ UNCHANGED <<queued, dead, killed>>
      BY <1>1, <2>1, <3>1 DEF RunEnds, storage
    <3>3. Reached(m)' = Reached(m) \cup {"done"}
      BY <3>2, ReachedIs
    <3>4. \A x \in Msgs \ {m} : Reached(x)' = Reached(x)
      BY <3>2 DEF Reached
    <3> QED
      BY <3>2, <3>3, <3>4, Reaches
  <2>2. CASE o # "ok"
    <3>1. UNCHANGED <<queued, dead, done, killed>>
      BY <1>1, <2>2 DEF RunEnds, storage
    <3> QED
      BY <3>1, Stutters
  <2> QED
    BY <2>1, <2>2
<1>2. CASE SettleSuccess(w)
  <2>1. wk[w].msg \in done /\ wk[w].msg \in Msgs
    BY <1>0, <1>2 DEF SettleSuccess, LossInv, Busy
  <2>2. Delete(wk[w].msg, BestReceipt(w)) \/ UNCHANGED storage
    BY <1>2 DEF SettleSuccess
  <2>3. UNCHANGED <<dead, done, killed>>
    BY <1>2 DEF SettleSuccess, history
  <2> QED
    BY <2>1, <2>2, <2>3, DeleteRemoves
<1>3. CASE DeleteDead(w)
  <2>1. dead[wk[w].msg] > 0 /\ wk[w].msg \in Msgs
    BY <1>0, <1>3 DEF DeleteDead, LossInv, Busy
  <2>2. Delete(wk[w].msg, BestReceipt(w)) \/ UNCHANGED storage
    BY <1>3 DEF DeleteDead
  <2>3. UNCHANGED <<dead, done, killed>>
    BY <1>3 DEF DeleteDead, history
  <2> QED
    BY <2>1, <2>2, <2>3, DeleteRemoves
<1>4. CASE DeadLetter(w)
  <2>1. wk[w].msg \in Msgs /\ UNCHANGED <<queued, done, killed>>
    BY <1>0, <1>4 DEF DeadLetter, storage, history, Busy
  <2>2. SendDead(wk[w].msg) \/ UNCHANGED dead
    BY <1>4 DEF DeadLetter
  <2> QED
    BY <2>1, <2>2, DeadIsReached, Stutters
<1>5. CASE SettleFailure(w) \/ JobUpdates(w) \/ UpdateReturns(w)
  <2>1. UNCHANGED <<queued, dead, done, killed>>
    BY <1>5 DEF SettleFailure, JobUpdates, UpdateReturns, Update, storage, history
  <2> QED
    BY <2>1, Stutters
<1> QED
  BY <1>1, <1>2, <1>3, <1>4, <1>5 DEF JobStep

LEMMA BeginKillRefines ==
  ASSUME TypeInv, NEW w \in Workers, BeginKill(w)
  PROVE  AbstractStep
<1>1. PICK m \in Msgs : m = wk[w].msg
  BY DEF BeginKill, InFlight, TypeInv
<1>2. UNCHANGED <<dead, done>> /\ killed' = killed \cup {m}
  BY <1>1 DEF BeginKill
<1>3. \/ m \in queued /\ queued' = queued \ {m}
      \/ UNCHANGED queued
  BY <1>1 DEF BeginKill, Delete, Accepts, storage
<1>4. Reached(m)' = Reached(m) \cup {"killed"}
  BY <1>1, <1>2, ReachedIs
<1>5. \A x \in Msgs \ {m} : Reached(x)' = Reached(x)
  BY <1>2 DEF Reached
<1>6. CASE m \in queued /\ queued' = queued \ {m}
  BY <1>1, <1>4, <1>5, <1>6, Removes
<1>7. CASE UNCHANGED queued
  BY <1>1, <1>4, <1>5, <1>7, Reaches
<1> QED
  BY <1>3, <1>6, <1>7

LEMMA StepRefines == LossInv /\ TypeInv /\ [Next]_vars => AbstractStep
<1> SUFFICES ASSUME LossInv, TypeInv, [Next]_vars
             PROVE  AbstractStep
  OBVIOUS
<1>1. CASE UNCHANGED vars
  <2>1. UNCHANGED <<queued, dead, done, killed>>
    BY <1>1 DEF vars, storage, history
  <2> QED
    BY <2>1, Stutters
<1>2. ASSUME NEW w \in Workers,
             \/ \E m \in Msgs : Receive(w, m)
             \/ RenewStep(w) \/ BeginStopWorker(w) \/ EndStopWorker(w)
      PROVE  AbstractStep
  <2>1. UNCHANGED <<queued, dead, done, killed>>
    BY <1>2 DEF Receive, Take, RenewStep, RenewWakes, RenewCalls, RenewReturns, Update,
       BeginStopWorker, EndStopWorker, storage, history
  <2> QED
    BY <2>1, Stutters
<1>3. ASSUME NEW w \in Workers, WorkerStep(w)
      PROVE  AbstractStep
  BY <1>1, <1>2, <1>3, JobStepRefines, BeginKillRefines DEF WorkerStep, PollEmpty
<1>4. ASSUME NEW c \in orphans, OrphanEffect(c)
      PROVE  AbstractStep
  <2>1. c.msg \in Msgs
    BY DEF TypeInv, TypeOK, OrphanCall
  <2>2. UNCHANGED <<queued, done, killed>> /\ (SendDead(c.msg) \/ UNCHANGED dead)
    BY <1>4 DEF OrphanEffect, Update, storage, history
  <2> QED
    BY <2>1, <2>2, DeadIsReached, Stutters
<1>5. ASSUME \/ \E k \in kills : EndKill(k)
             \/ \E r \in Replicas : StopService(r) \/ Crash(r) \/ ServiceReturns(r)
                                    \/ StartService(r)
             \/ Tick
      PROVE  AbstractStep
  <2>1. UNCHANGED <<queued, dead, done, killed>>
    BY <1>5 DEF EndKill, StopService, Crash, GoDown, ServiceReturns, StartService, Tick,
       storage, history
  <2> QED
    BY <2>1, Stutters
<1> QED
  BY <1>1, <1>3, <1>4, <1>5 DEF Next

(* The queue service implements the promise of ClaimDelivery: a request    *)
(* leaves the queue only with an outcome and no outcome is ever taken back,*)
(* whatever the service does about retries, leases and receipts.           *)
THEOREM Refinement == Spec => ImplementsSafety
<1>1. Init => Delivery!Init
  <2> SUFFICES ASSUME Init PROVE Delivery!Init
    OBVIOUS
  <2>1. \A m \in Msgs : Reached(m) = {}
    BY DEF Init, Reached
  <2> QED
    BY <2>1 DEF Init, Delivery!Init
<1>2. Init => LossInv
  BY IdleTyped DEF Init, LossInv, NoSilentLoss
<1>3. LossInv /\ TypeInv /\ [Next]_vars => [Delivery!Next]_(Delivery!vars)
  BY StepRefines DEF AbstractStep
<1> QED
  BY <1>1, <1>2, <1>3, InitTyped, NextTyped, LossNext, PTL
     DEF Spec, ImplementsSafety, Delivery!Safety

-------------------------------------------------------------------------------
(* The retry budget and the leases.                                        *)

(* A request may be dead-lettered: one of its runs failed for good, or it  *)
(* was delivered max_receive_attempts times.                               *)
Spent(m) == m \in refused \/ dequeues[m] = MaxReceive

(***************************************************************************)
(* The inductive invariant of the retry budget.  The decision to dead-     *)
(* letter is taken in one step from the attempt number of the job, and the *)
(* send happens in a later one, perhaps from a call that outlives its job. *)
(***************************************************************************)
JobBudget(w) ==
  /\ wk[w].attempt <= dequeues[wk[w].msg]
  /\ Forced(wk[w].outcome) => wk[w].msg \in refused
  /\ wk[w].pc = "dlq" => Spent(wk[w].msg)

BudgetInv ==
  /\ \A m \in Msgs : dead[m] > 0 => Spent(m)
  /\ \A w \in Workers : wk[w].pc \notin {"off", "poll"} => JobBudget(w)
  /\ \A c \in orphans : c.op = "dlq" => Spent(c.msg)

(* A delivery count never falls and a refusal is never forgotten.          *)
Grows ==
  /\ refused \subseteq refused'
  /\ \A m \in Msgs : dequeues[m] <= dequeues'[m]

LEMMA SpentStays ==
  ASSUME TypeInv, TypeInv', Grows, NEW m \in Msgs, Spent(m)
  PROVE  Spent(m)'
BY ConstantsAssumption DEF Spent, Grows, TypeInv, TypeOK

(* The job of w is the one it was, and is not newly being dead-lettered.   *)
SameJob(w) ==
  /\ wk'[w].msg = wk[w].msg
  /\ wk'[w].attempt = wk[w].attempt
  /\ wk'[w].outcome = wk[w].outcome
  /\ wk[w].pc \notin {"off", "poll"}
  /\ wk'[w].pc = "dlq" => wk[w].pc = "dlq"

(* A step that decides nothing about dead-lettering keeps BudgetInv.       *)
LEMMA BudgetStep ==
  ASSUME BudgetInv, TypeInv, TypeInv', Grows,
         \A m \in Msgs : dead'[m] > 0 => dead[m] > 0 \/ Spent(m)',
         \A w \in Workers : \/ wk'[w].pc \in {"off", "poll"}
                            \/ SameJob(w)
                            \/ JobBudget(w)',
         \A c \in orphans' : c \in orphans \/ c.op # "dlq" \/ Spent(c.msg)'
  PROVE  BudgetInv'
<1>1. \A m \in Msgs : dead'[m] > 0 => Spent(m)'
  BY SpentStays DEF BudgetInv
<1>2. ASSUME NEW w \in Workers, wk'[w].pc \notin {"off", "poll"}
      PROVE  JobBudget(w)'
  <2>1. CASE SameJob(w)
    <3>1. wk[w].msg \in Msgs /\ JobBudget(w)
      BY <2>1 DEF SameJob, BudgetInv, TypeInv, Busy
    <3>2. Spent(wk[w].msg) => Spent(wk[w].msg)'
      BY <2>1, <3>1, SpentStays DEF SameJob, Spent
    <3>3. wk'[w].attempt <= dequeues'[wk'[w].msg]
      <4>1. wk[w].attempt \in Nat /\ dequeues[wk[w].msg] \in Nat /\ dequeues'[wk[w].msg] \in Nat
        BY <3>1, ConstantsAssumption DEF TypeInv, TypeOK, WorkerState
      <4> QED
        BY <2>1, <3>1, <4>1 DEF SameJob, JobBudget, Grows
    <3>4. Forced(wk'[w].outcome) => wk'[w].msg \in refused'
      BY <2>1, <3>1 DEF SameJob, JobBudget, Grows
    <3> QED
      BY <2>1, <3>1, <3>2, <3>3, <3>4 DEF JobBudget, SameJob, Spent
  <2> QED
    BY <1>2, <2>1
<1>3. ASSUME NEW c \in orphans', c.op = "dlq"
      PROVE  Spent(c.msg)'
  <2>1. c.msg \in Msgs
    BY DEF TypeInv, TypeOK, OrphanCall
  <2>2. c \in orphans => Spent(c.msg)
    BY <1>3 DEF BudgetInv
  <2> QED
    BY <1>3, <2>1, <2>2, SpentStays DEF Spent
<1> QED
  BY <1>1, <1>2, <1>3 DEF BudgetInv

(* Only a receive changes a delivery count, and it raises it.              *)
LEMMA TakeGrows ==
  ASSUME TypeInv, NEW w \in Workers, NEW m \in Msgs, Receive(w, m)
  PROVE  /\ Grows
         /\ dequeues'[m] = IF dequeues[m] < MaxReceive THEN dequeues[m] + 1 ELSE MaxReceive
<1> DEFINE n == IF dequeues[m] < MaxReceive THEN dequeues[m] + 1 ELSE MaxReceive
<1>1. dequeues' = [dequeues EXCEPT ![m] = n] /\ refused \subseteq refused'
  BY DEF Receive, Take
<1>2. dequeues \in [Msgs -> 0 .. MaxReceive] /\ n \in Nat /\ dequeues[m] <= n
  BY ConstantsAssumption DEF TypeInv, TypeOK
<1> HIDE DEF n
<1> QED
  BY <1>1, <1>2, ConstantsAssumption DEF Grows, n

LEMMA BudgetReceive ==
  ASSUME BudgetInv, TypeInv, TypeInv', NEW w \in Workers, NEW m \in Msgs, Receive(w, m)
  PROVE  BudgetInv'
<1>1. PICK o \in {"none", "malformed", "startFailed"} :
        /\ Take(w, m, o)
        /\ o = "malformed" => refused' = refused \cup {m}
  BY DEF Receive
<1> DEFINE n == IF dequeues[m] < MaxReceive THEN dequeues[m] + 1 ELSE MaxReceive
<1>2. Grows /\ dequeues'[m] = n
  BY TakeGrows
<1>3. PICK r : wk' = [wk EXCEPT ![w] = Job(m, o, n, r)]
  BY <1>1 DEF Take
<1>4. n \in 0 .. MaxReceive
  BY ConstantsAssumption DEF TypeInv, TypeOK
<1> HIDE DEF n
<1>5. /\ wk'[w] = Job(m, o, n, r)
      /\ \A v \in Workers \ {w} : wk'[v] = wk[v]
  BY <1>3 DEF TypeInv, TypeOK
<1>6. JobBudget(w)'
  <2>1. /\ wk'[w].attempt = n /\ wk'[w].msg = m /\ wk'[w].outcome = o
        /\ wk'[w].pc = IF o = "none" THEN "run" ELSE FailurePhase(o, n)
    BY <1>5 DEF Job
  <2>2. Forced(o) => m \in refused'
    BY <1>1 DEF Forced
  <2>3. wk'[w].pc = "dlq" => m \in refused' \/ dequeues'[m] = MaxReceive
    BY <1>2, <1>4, <2>1, <2>2, ConstantsAssumption DEF FailurePhase
  <2> QED
    BY <1>2, <1>4, <2>1, <2>2, <2>3 DEF JobBudget, Spent
<1>7. UNCHANGED <<dead, orphans>>
  BY <1>1 DEF Take, calls
<1> QED
  BY <1>2, <1>5, <1>6, <1>7, BudgetStep DEF SameJob

LEMMA BudgetJobStep ==
  ASSUME BudgetInv, TypeInv, TypeInv', NEW w \in Workers, JobStep(w)
  PROVE  BudgetInv'
<1>0. /\ wk[w] \in WorkerState /\ wk \in [Workers -> WorkerState]
      /\ Busy(w) => wk[w].msg \in Msgs
  BY DEF TypeInv, TypeOK
<1>1. Grows
  BY ConstantsAssumption DEF JobStep, RunEnds, SettleSuccess, SettleFailure, JobUpdates,
     UpdateReturns, DeadLetter, DeleteDead, Delete, Update, Grows, storage, history,
     TypeInv, TypeOK
<1>2. ASSUME NEW o \in {"ok", "failed", "error"}, RunEnds(w, o)
      PROVE  BudgetInv'
  <2>1. /\ wk'[w].msg = wk[w].msg /\ wk'[w].attempt = wk[w].attempt
        /\ wk'[w].outcome = o /\ wk'[w].pc = "settle"
        /\ \A v \in Workers \ {w} : wk'[v] = wk[v]
    BY <1>0, <1>2 DEF RunEnds, WorkerState
  <2>2. wk[w].pc = "run" /\ UNCHANGED <<dead, dequeues>>
        /\ (Forced(o) => wk[w].msg \in refused')
    BY <1>2 DEF RunEnds, storage
  <2>3. JobBudget(w)'
    BY <2>1, <2>2 DEF JobBudget, BudgetInv
  <2>4. \A c \in orphans' : c \in orphans \/ c.op # "dlq"
    BY <1>2 DEF RunEnds, RenewOrphan
  <2> QED
    BY <1>1, <2>1, <2>2, <2>3, <2>4, BudgetStep DEF SameJob
<1>3. ASSUME EndJob(w), UNCHANGED dead
      PROVE  BudgetInv'
  <2>1. wk'[w].pc = "poll" /\ \A v \in Workers \ {w} : wk'[v] = wk[v]
    BY <1>0, <1>3 DEF EndJob, Idle
  <2>2. \A c \in orphans' : c \in orphans \/ c.op # "dlq"
    BY <1>3 DEF EndJob, RenewOrphan
  <2> QED
    BY <1>1, <1>3, <2>1, <2>2, BudgetStep DEF SameJob
<1>4. CASE SettleFailure(w)
  <2>1. /\ wk'[w].msg = wk[w].msg /\ wk'[w].attempt = wk[w].attempt
        /\ wk'[w].outcome = wk[w].outcome
        /\ wk'[w].pc = FailurePhase(wk[w].outcome, wk[w].attempt)
        /\ \A v \in Workers \ {w} : wk'[v] = wk[v]
    BY <1>0, <1>4 DEF SettleFailure, WorkerState
  <2>2. UNCHANGED <<dead, dequeues, refused, orphans>> /\ JobBudget(w) /\ wk[w].msg \in Msgs
    BY <1>0, <1>4 DEF SettleFailure, storage, history, calls, BudgetInv, Busy
  <2>3. wk'[w].pc = "dlq" => wk[w].msg \in refused \/ dequeues[wk[w].msg] = MaxReceive
    <3>1. wk[w].attempt \in 0 .. MaxReceive /\ dequeues[wk[w].msg] \in 0 .. MaxReceive
      BY <1>0, <2>2 DEF WorkerState, TypeInv, TypeOK
    <3> QED
      BY <2>1, <2>2, <3>1, ConstantsAssumption DEF FailurePhase, JobBudget
  <2>4. JobBudget(w)'
    BY <2>1, <2>2, <2>3 DEF JobBudget, Spent
  <2> QED
    BY <1>1, <2>1, <2>2, <2>4, BudgetStep DEF SameJob
<1>5. CASE JobUpdates(w)
  <2>1. /\ wk'[w].msg = wk[w].msg /\ wk'[w].attempt = wk[w].attempt
        /\ wk'[w].outcome = wk[w].outcome /\ wk'[w].pc = "updated"
        /\ \A v \in Workers \ {w} : wk'[v] = wk[v]
    BY <1>0, <1>5 DEF JobUpdates, WorkerState
  <2>2. UNCHANGED <<dead, orphans>> /\ wk[w].pc \notin {"off", "poll"}
    BY <1>5 DEF JobUpdates, calls
  <2> QED
    BY <1>1, <2>1, <2>2, BudgetStep DEF SameJob
<1>6. CASE DeadLetter(w)
  <2>1. /\ wk'[w].msg = wk[w].msg /\ wk'[w].attempt = wk[w].attempt
        /\ wk'[w].outcome = wk[w].outcome /\ wk'[w].pc \in {"cleanup", "extend"}
        /\ \A v \in Workers \ {w} : wk'[v] = wk[v]
    <3>1. \/ wk' = [wk EXCEPT ![w].pc = "cleanup"]
          \/ wk' = [wk EXCEPT ![w] = [@ EXCEPT !.pc = "extend", !.jcall = BestReceipt(w)]]
      BY <1>6 DEF DeadLetter
    <3>2. CASE wk' = [wk EXCEPT ![w].pc = "cleanup"]
      BY <1>0, <3>2 DEF WorkerState
    <3>3. CASE wk' = [wk EXCEPT ![w] = [@ EXCEPT !.pc = "extend", !.jcall = BestReceipt(w)]]
      BY <1>0, <3>3 DEF WorkerState
    <3> QED
      BY <3>1, <3>2, <3>3
  <2>2. UNCHANGED <<dequeues, refused, orphans>> /\ wk[w].pc = "dlq"
        /\ wk[w].msg \in Msgs /\ JobBudget(w)
    BY <1>0, <1>6 DEF DeadLetter, storage, history, calls, BudgetInv, Busy
  <2>3. \A m \in Msgs : dead'[m] > 0 => dead[m] > 0 \/ m = wk[w].msg
    BY <1>6, <2>2 DEF DeadLetter, SendDead, TypeInv, TypeOK
  <2>4. \A m \in Msgs : dead'[m] > 0 => dead[m] > 0 \/ Spent(m)'
    BY <2>2, <2>3 DEF JobBudget, Spent
  <2> QED
    BY <1>1, <2>1, <2>2, <2>4, BudgetStep DEF SameJob
<1>7. CASE SettleSuccess(w) \/ UpdateReturns(w) \/ DeleteDead(w)
  BY <1>3, <1>7 DEF SettleSuccess, UpdateReturns, DeleteDead
<1> QED
  BY <1>2, <1>4, <1>5, <1>6, <1>7 DEF JobStep

(* Steps that leave the job of a worker, its message and the dead-letter   *)
(* queue alone, or end the job, perhaps with its calls still under way.    *)
LEMMA BudgetQuiet ==
  ASSUME BudgetInv, TypeInv, TypeInv',
         UNCHANGED <<dead, dequeues, refused>>,
         \A w \in Workers :
           \/ wk'[w].pc \in {"off", "poll"}
           \/ /\ wk'[w].pc = wk[w].pc /\ wk'[w].msg = wk[w].msg
              /\ wk'[w].attempt = wk[w].attempt /\ wk'[w].outcome = wk[w].outcome,
         \A c \in orphans' :
           c \in orphans \/ \E w \in Workers : c \in RenewOrphan(w) \cup JobOrphan(w)
  PROVE  BudgetInv'
<1>1. Grows
  BY ConstantsAssumption DEF Grows, TypeInv, TypeOK
<1>2. ASSUME NEW c \in orphans', c.op = "dlq", c \notin orphans
      PROVE  Spent(c.msg)'
  <2>1. PICK w \in Workers : c \in RenewOrphan(w) \cup JobOrphan(w)
    BY <1>2
  <2>2. wk[w].pc = "dlq" /\ c.msg = wk[w].msg
    BY <1>2, <2>1 DEF RenewOrphan, JobOrphan
  <2>3. wk[w].msg \in refused \/ dequeues[wk[w].msg] = MaxReceive
    BY <2>2 DEF BudgetInv, JobBudget, Spent
  <2> QED
    BY <2>2, <2>3 DEF Spent
<1>3. \A w \in Workers : wk'[w].pc \in {"off", "poll"} \/ SameJob(w)
  BY DEF SameJob
<1>4. \A c \in orphans' : c \in orphans \/ c.op # "dlq" \/ Spent(c.msg)'
  BY <1>2
<1> QED
  BY <1>1, <1>3, <1>4, BudgetStep

LEMMA BudgetRenewStep ==
  ASSUME BudgetInv, TypeInv, TypeInv', NEW w \in Workers, RenewStep(w)
  PROVE  BudgetInv'
<1>0. wk[w] \in WorkerState /\ wk \in [Workers -> WorkerState]
  BY DEF TypeInv, TypeOK
<1>1. UNCHANGED <<dead, dequeues, refused, orphans>>
  BY DEF RenewStep, RenewWakes, RenewCalls, RenewReturns, Update, storage, history, calls
<1>2. /\ \A v \in Workers \ {w} : wk'[v] = wk[v]
      /\ wk'[w].pc = wk[w].pc /\ wk'[w].msg = wk[w].msg
      /\ wk'[w].attempt = wk[w].attempt /\ wk'[w].outcome = wk[w].outcome
  <2>1. CASE RenewWakes(w)
    BY <1>0, <2>1 DEF RenewWakes, WorkerState
  <2>2. CASE RenewCalls(w)
    <3>1. \/ wk' = [wk EXCEPT ![w] = [@ EXCEPT !.renew = "reply", !.rcall = NewReceipt]]
          \/ wk' = [wk EXCEPT ![w] = [@ EXCEPT !.renew = "off", !.rcall = NoReceipt]]
          \/ wk' = [wk EXCEPT ![w] = [@ EXCEPT !.renew = "sleep", !.timer = RenewTicks,
                                              !.rcall = NoReceipt]]
      BY <2>2 DEF RenewCalls
    <3>2. CASE wk' = [wk EXCEPT ![w] = [@ EXCEPT !.renew = "reply", !.rcall = NewReceipt]]
      BY <1>0, <3>2 DEF WorkerState
    <3>3. CASE wk' = [wk EXCEPT ![w] = [@ EXCEPT !.renew = "off", !.rcall = NoReceipt]]
      BY <1>0, <3>3 DEF WorkerState
    <3>4. CASE wk' = [wk EXCEPT ![w] = [@ EXCEPT !.renew = "sleep", !.timer = RenewTicks,
                                                 !.rcall = NoReceipt]]
      BY <1>0, <3>4 DEF WorkerState
    <3> QED
      BY <3>1, <3>2, <3>3, <3>4
  <2>3. CASE RenewReturns(w)
    BY <1>0, <2>3 DEF RenewReturns, WorkerState
  <2> QED
    BY <2>1, <2>2, <2>3 DEF RenewStep
<1>3. \A v \in Workers : /\ wk'[v].pc = wk[v].pc /\ wk'[v].msg = wk[v].msg
                         /\ wk'[v].attempt = wk[v].attempt
                         /\ wk'[v].outcome = wk[v].outcome
  BY <1>0, <1>2
<1> QED
  BY <1>1, <1>3, BudgetQuiet

LEMMA BudgetOrphan ==
  ASSUME BudgetInv, TypeInv, TypeInv', NEW c \in orphans, OrphanEffect(c)
  PROVE  BudgetInv'
<1>1. c.msg \in Msgs
  BY DEF TypeInv, TypeOK, OrphanCall
<1>2. UNCHANGED <<dequeues, refused, wk>> /\ orphans' \subseteq orphans
  BY DEF OrphanEffect, Update, storage, history
<1>3. Grows
  BY <1>2, ConstantsAssumption DEF Grows, TypeInv, TypeOK
<1>4. \A m \in Msgs : dead'[m] > 0 => dead[m] > 0 \/ Spent(m)'
  <2>1. CASE c.op = "dlq"
    <3>1. \A m \in Msgs : dead'[m] > 0 => dead[m] > 0 \/ m = c.msg
      BY <1>1, <2>1 DEF OrphanEffect, SendDead, TypeInv, TypeOK
    <3>2. Spent(c.msg)
      BY <2>1 DEF BudgetInv
    <3> QED
      BY <1>2, <3>1, <3>2 DEF Spent
  <2>2. CASE c.op # "dlq"
    BY <2>2 DEF OrphanEffect
  <2> QED
    BY <2>1, <2>2
<1>5. \A w \in Workers : wk'[w].pc \in {"off", "poll"} \/ SameJob(w)
  BY <1>2 DEF SameJob
<1> QED
  BY <1>2, <1>3, <1>4, <1>5, BudgetStep

LEMMA BudgetStop ==
  ASSUME BudgetInv, TypeInv, TypeInv',
         \/ \E w \in Workers : BeginKill(w) \/ BeginStopWorker(w) \/ EndStopWorker(w)
         \/ \E k \in kills : EndKill(k)
  PROVE  BudgetInv'
<1>0. wk \in [Workers -> WorkerState]
  BY DEF TypeInv, TypeOK
<1>1. ASSUME NEW w \in Workers, BeginKill(w) PROVE BudgetInv'
  BY <1>1, BudgetQuiet DEF BeginKill, Delete, storage
<1>2. ASSUME NEW w \in Workers, NEW p \in {"off", "poll"},
             wk' = [wk EXCEPT ![w] = Idle(p)] \/ UNCHANGED wk,
             orphans' = orphans \cup RenewOrphan(w) \cup JobOrphan(w) \/ UNCHANGED orphans,
             UNCHANGED <<dead, dequeues, refused>>
      PROVE  BudgetInv'
  <2>1. \A v \in Workers : wk'[v].pc \in {"off", "poll"} \/ wk'[v] = wk[v]
    BY <1>0, <1>2, IdleTyped
  <2>2. \A c \in orphans' : c \in orphans \/ c \in RenewOrphan(w) \cup JobOrphan(w)
    BY <1>2
  <2> QED
    BY <1>2, <2>1, <2>2, BudgetQuiet
<1>3. ASSUME NEW k \in kills, EndKill(k) PROVE BudgetInv'
  <2>1. k.worker \in Workers
    BY DEF TypeInv, TypeOK
  <2>2. UNCHANGED <<dead, dequeues, refused>>
    BY <1>3 DEF EndKill, storage, history
  <2> QED
    BY <1>2, <1>3, <2>1, <2>2 DEF EndKill, CancelJob
<1>4. ASSUME NEW w \in Workers, BeginStopWorker(w) PROVE BudgetInv'
  <2>1. UNCHANGED <<dead, dequeues, refused>>
    BY <1>4 DEF BeginStopWorker, storage, history
  <2> QED
    BY <1>2, <1>4, <2>1 DEF BeginStopWorker, CancelJob
<1>5. ASSUME NEW w \in Workers, EndStopWorker(w) PROVE BudgetInv'
  <2>1. UNCHANGED <<dead, dequeues, refused, orphans>>
    BY <1>5 DEF EndStopWorker, storage, history, calls
  <2>2. \A v \in Workers : wk'[v].pc = wk[v].pc /\ wk'[v].msg = wk[v].msg
                           /\ wk'[v].attempt = wk[v].attempt
                           /\ wk'[v].outcome = wk[v].outcome
    <3>1. wk' = [wk EXCEPT ![w] = [@ EXCEPT !.tracked = NoReceipt, !.listed = FALSE]]
      BY <1>5 DEF EndStopWorker
    <3>2. wk[w] \in WorkerState /\ \A v \in Workers : v # w => wk'[v] = wk[v]
      BY <1>0, <3>1
    <3>3. wk'[w].pc = wk[w].pc /\ wk'[w].msg = wk[w].msg
          /\ wk'[w].attempt = wk[w].attempt /\ wk'[w].outcome = wk[w].outcome
      BY <1>0, <3>1, <3>2 DEF WorkerState
    <3> QED
      BY <3>2, <3>3
  <2> QED
    BY <2>1, <2>2, BudgetQuiet
<1> QED
  BY <1>1, <1>3, <1>4, <1>5

LEMMA BudgetReplica ==
  ASSUME BudgetInv, TypeInv, TypeInv', NEW r \in Replicas,
         StopService(r) \/ Crash(r) \/ ServiceReturns(r) \/ StartService(r)
  PROVE  BudgetInv'
<1>1. UNCHANGED <<dead, dequeues, refused>>
  BY DEF StopService, Crash, ServiceReturns, StartService, GoDown, storage, history
<1>2. \A w \in Workers : wk'[w] = wk[w] \/ wk'[w].pc \in {"off", "poll"}
  BY IdleTyped DEF StopService, Crash, ServiceReturns, StartService, GoDown
<1>3. \A c \in orphans' :
        c \in orphans \/ \E w \in Workers : c \in RenewOrphan(w) \cup JobOrphan(w)
  BY DEF StopService, Crash, ServiceReturns, StartService, Local, calls
<1> QED
  BY <1>1, <1>2, <1>3, BudgetQuiet

LEMMA BudgetTick ==
  ASSUME BudgetInv, TypeInv, TypeInv', Tick
  PROVE  BudgetInv'
<1>0. wk \in [Workers -> WorkerState]
  BY DEF TypeInv, TypeOK
<1>1. UNCHANGED <<dead, dequeues, refused, orphans>>
  BY DEF Tick, calls, history
<1>2. \A w \in Workers : wk'[w].pc = wk[w].pc /\ wk'[w].msg = wk[w].msg
                         /\ wk'[w].attempt = wk[w].attempt
                         /\ wk'[w].outcome = wk[w].outcome
  BY <1>0 DEF Tick, WorkerState
<1> QED
  BY <1>1, <1>2, BudgetQuiet

LEMMA BudgetNext == BudgetInv /\ TypeInv /\ TypeInv' /\ [Next]_vars => BudgetInv'
<1> SUFFICES ASSUME BudgetInv, TypeInv, TypeInv', [Next]_vars
             PROVE  BudgetInv'
  OBVIOUS
<1>1. ASSUME UNCHANGED vars PROVE BudgetInv'
  <2>1. UNCHANGED <<dead, dequeues, refused, wk, orphans>>
    BY <1>1 DEF vars, storage, history, calls
  <2> QED
    BY <2>1, BudgetQuiet
<1>2. ASSUME NEW w \in Workers, WorkerStep(w)
      PROVE  BudgetInv'
  BY <1>1, <1>2, BudgetReceive, BudgetJobStep, BudgetRenewStep, BudgetStop
     DEF WorkerStep, PollEmpty
<1> QED
  BY <1>1, <1>2, BudgetOrphan, BudgetStop, BudgetReplica, BudgetTick DEF Next

(* A request none of whose runs failed for good is dead-lettered only after*)
(* max_receive_attempts deliveries, whatever crashes, is stopped, killed or*)
(* redelivered, and although a dead-letter send may outlive the job that   *)
(* decided it (_handle_failed_no_retry compares the dequeue_count of the   *)
(* message in hand, not the one at the storage account).                   *)
THEOREM RetriesExhausted == Spec => []RetryBudget
<1>1. Init => BudgetInv
  BY IdleTyped DEF Init, BudgetInv
<1>2. BudgetInv => RetryBudget
  BY DEF BudgetInv, RetryBudget, Spent
<1> QED
  BY <1>1, <1>2, InitTyped, NextTyped, BudgetNext, PTL DEF Spec

-------------------------------------------------------------------------------
(* The renewal loop keeps a running request invisible, as long as storage  *)
(* calls and the event loop are not slow, no renewal fails and stop_worker *)
(* is not used; each of the three lets two workers run one request.  Jobs  *)
(* may fail to start, crash, be killed and be redelivered, and every other *)
(* storage call may fail.                                                  *)
Undisturbed == Env \cap {"slow", "renewFails", "stopWorker"} = {}

JobReceipts(s) == {s.held, s.tracked, s.jcall, s.rcall}

(* Outside a run the renewal loop is off, or will not wake before the job  *)
(* has ended (the job failed to start).                                    *)
Dormant(s) ==
  \/ s.renew = "off"
  \/ s.pc \notin {"off", "poll"} /\ s.renew = "sleep" /\ s.timer > 0

(* The renewal loop of w will extend the lease before it runs out.         *)
Renewed(w) ==
  LET m == wk[w].msg
  IN /\ lease[m] > 0
     /\ wk[w].renew # "off"
     /\ wk[w].renew = "sleep" => wk[w].tracked = receipt[m] /\ wk[w].timer < lease[m]
     /\ wk[w].renew \in {"call", "reply"} => wk[w].rcall = receipt[m]
     /\ wk[w].renew = "reply" => lease[m] = VisTicks

(* Nobody but w holds the receipt of w's message: no other worker that had *)
(* the message before, and no call that one of them left behind.           *)
Sole(w) ==
  /\ \A v \in Workers \ {w} : wk[v].msg = wk[w].msg => receipt[wk[w].msg] \notin JobReceipts(wk[v])
  /\ \A c \in orphans : c.msg = wk[w].msg => c.rcpt # receipt[wk[w].msg]

(***************************************************************************)
(* The inductive invariant of the leases.  That two runs of a request      *)
(* exclude each other follows from the first run's lease; the lease holds  *)
(* because the receipt its renewal uses is the current one; and that stays *)
(* current because nobody else has it.                                     *)
(***************************************************************************)
Runs(w) == wk[w].pc = "run" /\ wk[w].msg \in queued

LeaseInv ==
  /\ stopping = {}
  /\ \A w \in Workers : wk[w].pc # "run" => Dormant(wk[w])
  /\ \A w \in Workers : Runs(w) => Renewed(w) /\ Sole(w)
  /\ ExclusiveRun

(* A step that neither starts a run nor touches the lease or the receipt   *)
(* of a running request; calls left behind come from jobs that ended.      *)
LEMMA LeaseStep ==
  ASSUME LeaseInv, TypeInv, stopping' = {}, queued' \subseteq queued,
         \A w \in Workers :
           wk[w].pc = "run" /\ wk'[w].pc = "run" /\ wk[w].msg \in queued'
             => lease'[wk[w].msg] = lease[wk[w].msg] /\ receipt'[wk[w].msg] = receipt[wk[w].msg],
         \A w \in Workers : wk'[w].pc = "run" => wk'[w] = wk[w],
         \A w \in Workers :
           wk'[w].pc # "run" =>
             /\ Dormant(wk'[w])
             /\ \/ wk'[w].msg = NoMsg
                \/ /\ wk'[w].msg = wk[w].msg
                   /\ JobReceipts(wk'[w]) \subseteq JobReceipts(wk[w]) \cup {NoReceipt},
         \A c \in orphans' :
           c \in orphans \/ \E v \in Workers : /\ wk'[v].pc # "run" /\ c.msg = wk[v].msg
                                               /\ c.rcpt \in JobReceipts(wk[v])
  PROVE  LeaseInv'
<1>1. ExclusiveRun'
  BY DEF LeaseInv, ExclusiveRun
<1>2. ASSUME NEW w \in Workers, Runs(w)'
      PROVE  Renewed(w)' /\ Sole(w)'
  <2> DEFINE m == wk[w].msg
  <2>1. wk'[w] = wk[w] /\ wk[w].pc = "run" /\ m \in queued /\ m \in Msgs
    BY <1>2 DEF Runs, TypeInv, TypeOK
  <2>2. lease'[m] = lease[m] /\ receipt'[m] = receipt[m] /\ receipt[m] \in Nat
    BY <1>2, <2>1 DEF Runs, TypeInv, TypeOK
  <2>3. Renewed(w) /\ Sole(w)
    BY <2>1 DEF LeaseInv, Runs
  <2>4. Renewed(w)'
    BY <2>1, <2>2, <2>3 DEF Renewed
  <2>5. ASSUME NEW v \in Workers \ {w}, wk'[v].msg = m
        PROVE  receipt[m] \notin JobReceipts(wk'[v])
    <3>1. m # NoMsg
      BY <2>1, ConstantsAssumption
    <3>2. CASE wk'[v].pc = "run"
      <4>1. wk'[v] = wk[v]
        BY <3>2
      <4>2. wk[v].msg = m
        BY <2>5, <4>1
      <4>3. receipt[m] \notin JobReceipts(wk[v])
        BY <2>3, <4>2 DEF Sole
      <4> QED
        BY <4>1, <4>3 DEF JobReceipts
    <3>3. CASE wk'[v].pc # "run"
      <4>1. wk[v].msg = m /\ JobReceipts(wk'[v]) \subseteq JobReceipts(wk[v]) \cup {NoReceipt}
        BY <2>5, <3>1, <3>3
      <4>2. receipt[m] \notin JobReceipts(wk[v])
        BY <2>3, <4>1 DEF Sole
      <4>3. receipt[m] # NoReceipt
        BY <2>2
      <4> QED
        BY <4>1, <4>2, <4>3
    <3> QED
      BY <3>2, <3>3
  <2>6. ASSUME NEW c \in orphans', c.msg = m
        PROVE  c.rcpt # receipt[m]
    <3>1. CASE c \in orphans
      BY <2>3, <2>6, <3>1 DEF Sole
    <3>2. CASE c \notin orphans
      <4>1. PICK v \in Workers : wk'[v].pc # "run" /\ c.msg = wk[v].msg
                                 /\ c.rcpt \in JobReceipts(wk[v])
        BY <3>2
      <4>2. v # w
        BY <1>2, <4>1 DEF Runs
      <4> QED
        BY <2>3, <2>6, <4>1, <4>2 DEF Sole
    <3> QED
      BY <3>1, <3>2
  <2>7. Sole(w)'
    BY <2>1, <2>2, <2>5, <2>6 DEF Sole
  <2> QED
    BY <2>4, <2>7
<1> QED
  BY <1>1, <1>2 DEF LeaseInv

(* The calls that a job leaves behind hold receipts of the job.            *)
LEMMA LeftBehind ==
  ASSUME NEW w \in Workers, NEW c \in RenewOrphan(w) \cup JobOrphan(w)
  PROVE  c.msg = wk[w].msg /\ c.rcpt \in JobReceipts(wk[w])
BY DEF RenewOrphan, JobOrphan, JobReceipts

(* A delete leaves what remains in the queue as it was.                    *)
LEMMA DeleteLeaves ==
  ASSUME TypeInv, NEW m \in Msgs, NEW r, Delete(m, r) \/ UNCHANGED storage
  PROVE  /\ queued' \subseteq queued
         /\ \A x \in queued' : lease'[x] = lease[x] /\ receipt'[x] = receipt[x]
BY DEF Delete, storage, TypeInv, TypeOK

(* Whoever still has the current receipt of a request and does not run it  *)
(* may update it: nobody runs it.                                          *)
LEMMA HolderAlone ==
  ASSUME LeaseInv, NEW m, m \in queued, NEW w \in Workers, wk[w].pc = "run",
         \/ \E v \in Workers : /\ wk[v].pc # "run" /\ wk[v].msg = m
                               /\ receipt[m] \in JobReceipts(wk[v])
         \/ \E c \in orphans : c.msg = m /\ c.rcpt = receipt[m]
  PROVE  wk[w].msg # m
BY DEF LeaseInv, Runs, Sole

(* An idle record is harmless.                                             *)
LEMMA IdleDormant ==
  ASSUME NEW p \in {"off", "poll"}
  PROVE  /\ Dormant(Idle(p)) /\ Idle(p).msg = NoMsg /\ Idle(p).pc # "run"
BY DEF Dormant, Idle

(* Ending or cancelling the jobs of some workers.                          *)
LEMMA LeaseIdle ==
  ASSUME LeaseInv, TypeInv, stopping' = {}, queued' \subseteq queued,
         \A x \in queued' : lease'[x] = lease[x] /\ receipt'[x] = receipt[x],
         \A w \in Workers : wk'[w] = wk[w] \/ wk'[w] \in {Idle("off"), Idle("poll")},
         \A c \in orphans' :
           c \in orphans \/ \E v \in Workers : /\ wk'[v] \in {Idle("off"), Idle("poll")}
                                               /\ c \in RenewOrphan(v) \cup JobOrphan(v)
  PROVE  LeaseInv'
<1>1. \A w \in Workers :
        wk[w].pc = "run" /\ wk'[w].pc = "run" /\ wk[w].msg \in queued'
          => lease'[wk[w].msg] = lease[wk[w].msg] /\ receipt'[wk[w].msg] = receipt[wk[w].msg]
  OBVIOUS
<1>2. \A w \in Workers : wk'[w].pc = "run" => wk'[w] = wk[w]
  BY IdleDormant
<1>3. \A w \in Workers :
        wk'[w].pc # "run" =>
          /\ Dormant(wk'[w])
          /\ \/ wk'[w].msg = NoMsg
             \/ /\ wk'[w].msg = wk[w].msg
                /\ JobReceipts(wk'[w]) \subseteq JobReceipts(wk[w]) \cup {NoReceipt}
  BY IdleDormant DEF LeaseInv
<1>4. \A c \in orphans' :
        c \in orphans \/ \E v \in Workers : /\ wk'[v].pc # "run" /\ c.msg = wk[v].msg
                                            /\ c.rcpt \in JobReceipts(wk[v])
  BY LeftBehind, IdleDormant
<1> QED
  BY <1>1, <1>2, <1>3, <1>4, LeaseStep

(* A step of one job that is not a run, or whose run ends, and that keeps  *)
(* the message and the receipts of the job.                                *)
LEMMA LeaseJob ==
  ASSUME LeaseInv, TypeInv, UNCHANGED <<stopping, queued>>,
         NEW w \in Workers,
         \A v \in Workers \ {w} : wk'[v] = wk[v],
         wk'[w].pc # "run", Dormant(wk'[w]), wk'[w].msg = wk[w].msg,
         JobReceipts(wk'[w]) \subseteq JobReceipts(wk[w]) \cup {NoReceipt},
         orphans' \subseteq orphans \cup RenewOrphan(w),
         \A v \in Workers \ {w} :
           wk[v].pc = "run" /\ wk[v].msg \in queued
             => lease'[wk[v].msg] = lease[wk[v].msg] /\ receipt'[wk[v].msg] = receipt[wk[v].msg]
  PROVE  LeaseInv'
<1>1. stopping' = {}
  BY DEF LeaseInv
<1>2. \A v \in Workers : wk'[v].pc = "run" => wk'[v] = wk[v]
  OBVIOUS
<1>3. \A v \in Workers :
        wk'[v].pc # "run" =>
          /\ Dormant(wk'[v])
          /\ \/ wk'[v].msg = NoMsg
             \/ /\ wk'[v].msg = wk[v].msg
                /\ JobReceipts(wk'[v]) \subseteq JobReceipts(wk[v]) \cup {NoReceipt}
  BY DEF LeaseInv
<1>4. \A c \in orphans' :
        c \in orphans \/ \E v \in Workers : /\ wk'[v].pc # "run" /\ c.msg = wk[v].msg
                                            /\ c.rcpt \in JobReceipts(wk[v])
  BY LeftBehind
<1> QED
  BY <1>1, <1>2, <1>3, <1>4, LeaseStep

LEMMA LeaseJobStep ==
  ASSUME LeaseInv, TypeInv, NEW w \in Workers, JobStep(w)
  PROVE  LeaseInv'
<1>0. /\ wk[w] \in WorkerState /\ wk \in [Workers -> WorkerState]
      /\ Busy(w) => wk[w].msg \in Msgs
  BY DEF TypeInv, TypeOK
<1>1. UNCHANGED stopping
  BY DEF JobStep, RunEnds, SettleSuccess, SettleFailure, JobUpdates, UpdateReturns,
     DeadLetter, DeleteDead, loops
<1>2. wk[w].pc # "run" => Dormant(wk[w])
  BY DEF LeaseInv
<1>3. ASSUME NEW o \in {"ok", "failed", "error"}, RunEnds(w, o)
      PROVE  LeaseInv'
  <2>1. /\ wk'[w].msg = wk[w].msg /\ wk'[w].pc = "settle" /\ wk'[w].renew = "off"
        /\ wk'[w].held = wk[w].held /\ wk'[w].tracked = wk[w].tracked
        /\ wk'[w].jcall = wk[w].jcall /\ wk'[w].rcall = NoReceipt
        /\ \A v \in Workers \ {w} : wk'[v] = wk[v]
    BY <1>0, <1>3 DEF RunEnds, WorkerState
  <2>2. UNCHANGED <<queued, lease, receipt>> /\ orphans' = orphans \cup RenewOrphan(w)
    BY <1>3 DEF RunEnds, storage
  <2>3. Dormant(wk'[w]) /\ JobReceipts(wk'[w]) \subseteq JobReceipts(wk[w]) \cup {NoReceipt}
    BY <2>1 DEF Dormant, JobReceipts
  <2> QED
    BY <1>1, <2>1, <2>2, <2>3, LeaseJob
<1>4. ASSUME EndJob(w),
             Delete(wk[w].msg, BestReceipt(w)) \/ UNCHANGED storage,
             wk[w].msg \in Msgs
      PROVE  LeaseInv'
  <2>1. stopping' = {}
    BY <1>1 DEF LeaseInv
  <2>2. wk' = [wk EXCEPT ![w] = Idle("poll")] /\ orphans' = orphans \cup RenewOrphan(w)
    BY <1>4 DEF EndJob
  <2>3. /\ queued' \subseteq queued
        /\ \A x \in queued' : lease'[x] = lease[x] /\ receipt'[x] = receipt[x]
    BY <1>4, DeleteLeaves
  <2>4. wk'[w] = Idle("poll") /\ \A v \in Workers : v = w \/ wk'[v] = wk[v]
    BY <1>0, <2>2
  <2> QED
    BY <2>1, <2>2, <2>3, <2>4, LeaseIdle
<1>5. CASE SettleFailure(w)
  <2> DEFINE p == FailurePhase(wk[w].outcome, wk[w].attempt)
  <2>1. /\ wk'[w].msg = wk[w].msg /\ wk'[w].pc = p
        /\ wk'[w].renew = wk[w].renew /\ wk'[w].timer = wk[w].timer
        /\ wk'[w].held = wk[w].held /\ wk'[w].tracked = wk[w].tracked
        /\ wk'[w].jcall = BestReceipt(w) /\ wk'[w].rcall = wk[w].rcall
        /\ \A v \in Workers \ {w} : wk'[v] = wk[v]
    BY <1>0, <1>5 DEF SettleFailure, WorkerState
  <2>2. p \in {"dlq", "retry"} /\ BestReceipt(w) \in {wk[w].tracked, wk[w].held}
    BY DEF FailurePhase, BestReceipt
  <2>3. UNCHANGED <<queued, lease, receipt, orphans>> /\ wk[w].pc = "settle"
    BY <1>5 DEF SettleFailure, storage, calls
  <2>4. Dormant(wk'[w]) /\ JobReceipts(wk'[w]) \subseteq JobReceipts(wk[w])
    BY <1>2, <2>1, <2>2, <2>3 DEF Dormant, JobReceipts
  <2> QED
    BY <1>1, <2>1, <2>2, <2>3, <2>4, LeaseJob
<1>6. CASE JobUpdates(w)
  <2>1. /\ wk'[w].msg = wk[w].msg /\ wk'[w].pc = "updated"
        /\ wk'[w].renew = wk[w].renew /\ wk'[w].timer = wk[w].timer
        /\ wk'[w].held = wk[w].held /\ wk'[w].tracked = wk[w].tracked
        /\ wk'[w].jcall = wk[w].jcall /\ wk'[w].rcall = wk[w].rcall
        /\ \A v \in Workers \ {w} : wk'[v] = wk[v]
    BY <1>0, <1>6 DEF JobUpdates, WorkerState
  <2>2. UNCHANGED <<queued, orphans>> /\ wk[w].pc \in {"retry", "extend"}
    BY <1>6 DEF JobUpdates, Update, storage, calls
  <2>3. Dormant(wk'[w]) /\ JobReceipts(wk'[w]) \subseteq JobReceipts(wk[w])
    BY <1>2, <2>1, <2>2 DEF Dormant, JobReceipts
  <2>4. ASSUME NEW v \in Workers \ {w}, wk[v].pc = "run", wk[v].msg \in queued
        PROVE  lease'[wk[v].msg] = lease[wk[v].msg] /\ receipt'[wk[v].msg] = receipt[wk[v].msg]
    <3>1. CASE UNCHANGED storage
      BY <3>1 DEF storage
    <3>2. CASE Accepts(wk[w].msg, wk[w].jcall) /\ Update(wk[w].msg, UpdateTicks(w))
      <4>1. wk[v].msg # wk[w].msg
        BY <2>2, <2>4, <3>2, HolderAlone DEF Accepts, JobReceipts
      <4> QED
        BY <2>4, <3>2, <4>1 DEF Update, TypeInv, TypeOK
    <3> QED
      BY <1>6, <3>1, <3>2 DEF JobUpdates
  <2> QED
    BY <1>1, <2>1, <2>2, <2>3, <2>4, LeaseJob
<1>7. CASE DeadLetter(w)
  <2>1. UNCHANGED <<queued, lease, receipt, orphans>> /\ wk[w].pc = "dlq"
    BY <1>7 DEF DeadLetter, storage, calls
  <2>2. \/ wk' = [wk EXCEPT ![w].pc = "cleanup"]
        \/ wk' = [wk EXCEPT ![w] = [@ EXCEPT !.pc = "extend", !.jcall = BestReceipt(w)]]
    BY <1>7 DEF DeadLetter
  <2>3. /\ wk'[w].msg = wk[w].msg /\ wk'[w].pc \in {"cleanup", "extend"}
        /\ wk'[w].renew = wk[w].renew /\ wk'[w].timer = wk[w].timer
        /\ wk'[w].held = wk[w].held /\ wk'[w].tracked = wk[w].tracked
        /\ wk'[w].jcall \in {wk[w].jcall, BestReceipt(w)} /\ wk'[w].rcall = wk[w].rcall
        /\ \A v \in Workers \ {w} : wk'[v] = wk[v]
    <3>1. CASE wk' = [wk EXCEPT ![w].pc = "cleanup"]
      BY <1>0, <3>1 DEF WorkerState
    <3>2. CASE wk' = [wk EXCEPT ![w] = [@ EXCEPT !.pc = "extend", !.jcall = BestReceipt(w)]]
      BY <1>0, <3>2 DEF WorkerState
    <3> QED
      BY <2>2, <3>1, <3>2
  <2>4. Dormant(wk'[w]) /\ JobReceipts(wk'[w]) \subseteq JobReceipts(wk[w])
    BY <1>2, <2>1, <2>3 DEF Dormant, JobReceipts, BestReceipt
  <2> QED
    BY <1>1, <2>1, <2>3, <2>4, LeaseJob
<1>8. CASE SettleSuccess(w) \/ UpdateReturns(w) \/ DeleteDead(w)
  BY <1>0, <1>4, <1>8 DEF SettleSuccess, UpdateReturns, DeleteDead, Busy
<1> QED
  BY <1>3, <1>5, <1>6, <1>7, <1>8 DEF JobStep

(* A step of the renewal of w, or the one that starts a run of w.          *)
LEMMA LeaseRuns ==
  ASSUME LeaseInv, TypeInv, UNCHANGED <<stopping, queued, orphans>>,
         NEW w \in Workers,
         \A v \in Workers \ {w} : wk'[v] = wk[v],
         wk'[w].pc = "run",
         \A v \in Workers \ {w} : wk[v].pc = "run" => wk[v].msg # wk'[w].msg,
         \A m \in Msgs \ {wk'[w].msg} : lease'[m] = lease[m] /\ receipt'[m] = receipt[m],
         wk'[w].msg \in queued => Renewed(w)' /\ Sole(w)'
  PROVE  LeaseInv'
<1>1. ExclusiveRun'
  BY DEF LeaseInv, ExclusiveRun
<1>2. ASSUME NEW v \in Workers, Runs(v)'
      PROVE  Renewed(v)' /\ Sole(v)'
  <2>1. CASE v = w
    BY <1>2, <2>1 DEF Runs
  <2>2. CASE v # w
    <3> DEFINE m == wk[v].msg
    <3>1. wk'[v] = wk[v] /\ wk[v].pc = "run" /\ m \in queued /\ m \in Msgs /\ m # wk'[w].msg
      BY <1>2, <2>2 DEF Runs, TypeInv, TypeOK
    <3>2. lease'[m] = lease[m] /\ receipt'[m] = receipt[m]
      BY <3>1
    <3>3. Renewed(v) /\ Sole(v)
      BY <3>1 DEF LeaseInv, Runs
    <3>4. Renewed(v)'
      BY <3>1, <3>2, <3>3 DEF Renewed
    <3>5. \A u \in Workers \ {v} : wk'[u].msg = m => receipt[m] \notin JobReceipts(wk'[u])
      BY <3>1, <3>3 DEF Sole
    <3>6. Sole(v)'
      BY <3>1, <3>2, <3>3, <3>5 DEF Sole
    <3> QED
      BY <3>4, <3>6
  <2> QED
    BY <2>1, <2>2
<1>3. stopping' = {} /\ \A v \in Workers : wk'[v].pc # "run" => Dormant(wk'[v])
  BY DEF LeaseInv
<1> QED
  BY <1>1, <1>2, <1>3 DEF LeaseInv

(* Nobody holds a fresh receipt.                                           *)
LEMMA FreshIsNew ==
  ASSUME TypeInv
  PROVE  /\ NewReceipt \in Nat
         /\ \A v \in Workers : NewReceipt \notin JobReceipts(wk[v])
         /\ \A c \in orphans : NewReceipt # c.rcpt
BY NewReceiptFresh DEF InUse, JobReceipts

LEMMA LeaseReceive ==
  ASSUME LeaseInv, TypeInv, NEW w \in Workers, NEW m \in Msgs, Receive(w, m)
  PROVE  LeaseInv'
<1>1. PICK o \in {"none", "malformed", "startFailed"} : Take(w, m, o)
  BY DEF Receive
<1> DEFINE n == IF dequeues[m] < MaxReceive THEN dequeues[m] + 1 ELSE MaxReceive
           r == NewReceipt
<1>2. /\ m \in queued /\ lease[m] = 0 /\ wk[w].pc = "poll"
      /\ wk' = [wk EXCEPT ![w] = Job(m, o, n, r)]
      /\ lease' = [lease EXCEPT ![m] = VisTicks]
      /\ receipt' = [receipt EXCEPT ![m] = r]
      /\ UNCHANGED <<queued, stopping, orphans>>
  BY <1>1 DEF Take, loops, calls
<1>3. /\ r \in Nat /\ \A v \in Workers : r \notin JobReceipts(wk[v])
      /\ \A c \in orphans : r # c.rcpt
  BY FreshIsNew
<1> HIDE DEF n, r
<1>4. /\ wk'[w].msg = m /\ wk'[w].held = r /\ wk'[w].jcall = r
      /\ wk'[w].pc = (IF o = "none" THEN "run" ELSE FailurePhase(o, n))
      /\ wk'[w].tracked = (IF o = "malformed" THEN NoReceipt ELSE r)
      /\ wk'[w].renew = (IF o = "malformed" THEN "off" ELSE "sleep")
      /\ wk'[w].timer = (IF o = "malformed" THEN 0 ELSE RenewTicks)
      /\ wk'[w].rcall = NoReceipt
      /\ \A v \in Workers \ {w} : wk'[v] = wk[v]
  BY <1>2 DEF Job, TypeInv, TypeOK
<1>5. lease'[m] = VisTicks /\ receipt'[m] = r
      /\ \A x \in Msgs \ {m} : lease'[x] = lease[x] /\ receipt'[x] = receipt[x]
  BY <1>2 DEF TypeInv, TypeOK
<1>6. \A v \in Workers : wk[v].pc = "run" => wk[v].msg # m
  BY <1>2 DEF LeaseInv, Runs, Renewed
<1>7. CASE o = "none"
  <2>1. Renewed(w)'
    BY <1>4, <1>5, <1>7, ConstantsAssumption DEF Renewed
  <2>2. \A v \in Workers \ {w} : r \notin JobReceipts(wk'[v])
    BY <1>3, <1>4
  <2>3. Sole(w)'
    BY <1>2, <1>3, <1>4, <1>5, <2>2 DEF Sole
  <2> QED
    BY <1>2, <1>4, <1>5, <1>6, <1>7, <2>1, <2>3, LeaseRuns
<1>8. CASE o # "none"
  <2>1. wk'[w].pc \in {"dlq", "retry"} /\ Dormant(wk'[w])
    BY <1>4, <1>8, ConstantsAssumption DEF FailurePhase, Dormant
  <2>2. ASSUME NEW v \in Workers, Runs(v)'
        PROVE  Renewed(v)' /\ Sole(v)'
    <3> DEFINE x == wk[v].msg
    <3>1. v # w /\ wk'[v] = wk[v] /\ wk[v].pc = "run" /\ x \in queued /\ x \in Msgs
      BY <1>2, <1>4, <2>1, <2>2 DEF Runs, TypeInv, TypeOK
    <3>2. x # m /\ lease'[x] = lease[x] /\ receipt'[x] = receipt[x]
      BY <1>5, <1>6, <3>1
    <3>3. Renewed(v) /\ Sole(v)
      BY <3>1 DEF LeaseInv, Runs
    <3>4. Renewed(v)'
      BY <3>1, <3>2, <3>3 DEF Renewed
    <3>5. \A u \in Workers \ {v} : wk'[u].msg = x => receipt[x] \notin JobReceipts(wk'[u])
      BY <1>4, <3>2, <3>3 DEF Sole
    <3>6. Sole(v)'
      BY <1>2, <3>1, <3>2, <3>3, <3>5 DEF Sole
    <3> QED
      BY <3>4, <3>6
  <2>3. ExclusiveRun'
    BY <1>4, <2>1 DEF LeaseInv, ExclusiveRun
  <2>4. stopping' = {} /\ \A v \in Workers : wk'[v].pc # "run" => Dormant(wk'[v])
    BY <1>2, <1>4, <2>1 DEF LeaseInv
  <2> QED
    BY <2>2, <2>3, <2>4 DEF LeaseInv
<1> QED
  BY <1>7, <1>8

(* The renewal loop: while it sleeps, calls and stores its answer, the     *)
(* receipt that it will use next is the current one.                       *)
LEMMA LeaseRenewStep ==
  ASSUME Undisturbed, LeaseInv, TypeInv, NEW w \in Workers, RenewStep(w)
  PROVE  LeaseInv'
<1> DEFINE m == wk[w].msg
<1>0. wk[w] \in WorkerState /\ wk \in [Workers -> WorkerState] /\ m \in Msgs
  BY DEF TypeInv, TypeOK, RenewStep, RenewWakes, RenewCalls, RenewReturns, Busy
<1>1. wk[w].pc = "run"
  BY DEF RenewStep, RenewWakes, RenewCalls, RenewReturns, LeaseInv, Dormant
<1>2. \A v \in Workers \ {w} : wk[v].pc = "run" => wk[v].msg # m
  BY <1>1 DEF LeaseInv, ExclusiveRun
<1>3. m \in queued => Renewed(w) /\ Sole(w)
  BY <1>1 DEF LeaseInv, Runs
<1>4. lease[m] \in Nat /\ receipt[m] \in Nat /\ lease \in [Msgs -> 0 .. VisTicks]
      /\ receipt \in [Msgs -> Nat]
  BY <1>0 DEF TypeInv, TypeOK
<1>5. ASSUME wk'[w].pc = "run", wk'[w].msg = m,
             \A v \in Workers \ {w} : wk'[v] = wk[v],
             UNCHANGED <<stopping, queued, orphans, lease, receipt>>,
             m \in queued => Renewed(w)'
      PROVE  LeaseInv'
  <2>1. m \in queued => Sole(w)'
    BY <1>3, <1>5 DEF Sole
  <2> QED
    BY <1>2, <1>5, <2>1, LeaseRuns
<1>6. CASE RenewWakes(w)
  <2>1. UNCHANGED <<stopping, queued, orphans, lease, receipt>>
    BY <1>6 DEF RenewWakes, storage, loops, calls
  <2>2. CASE wk[w].tracked = NoReceipt
    <3>1. wk' = [wk EXCEPT ![w].timer = RenewTicks]
      BY <1>6, <2>2 DEF RenewWakes
    <3>2. wk'[w].pc = "run" /\ wk'[w].msg = m /\ \A v \in Workers \ {w} : wk'[v] = wk[v]
      BY <1>0, <1>1, <3>1 DEF WorkerState
    <3>3. m \notin queued
      BY <1>3, <1>4, <1>6, <2>2 DEF RenewWakes, Renewed
    <3> QED
      BY <1>5, <2>1, <3>2, <3>3
  <2>3. CASE wk[w].tracked # NoReceipt
    <3>1. wk' = [wk EXCEPT ![w] = [@ EXCEPT !.renew = "call", !.rcall = wk[w].tracked]]
      BY <1>6, <2>3 DEF RenewWakes
    <3>2. /\ wk'[w].pc = "run" /\ wk'[w].msg = m /\ wk'[w].renew = "call"
          /\ wk'[w].rcall = wk[w].tracked
          /\ \A v \in Workers \ {w} : wk'[v] = wk[v]
      BY <1>0, <1>1, <3>1 DEF WorkerState
    <3>3. m \in queued => Renewed(w)'
      BY <1>3, <1>6, <2>1, <3>2 DEF RenewWakes, Renewed
    <3> QED
      BY <1>5, <2>1, <3>2, <3>3
  <2> QED
    BY <2>2, <2>3
<1>7. CASE RenewCalls(w)
  <2>1. UNCHANGED <<stopping, queued, orphans>> /\ wk[w].renew = "call"
    BY <1>7 DEF RenewCalls, Update, storage, loops, calls
  <2>2. CASE /\ Accepts(m, wk[w].rcall) /\ Update(m, VisTicks)
             /\ wk' = [wk EXCEPT ![w] = [@ EXCEPT !.renew = "reply", !.rcall = NewReceipt]]
    <3> DEFINE r == NewReceipt
    <3>1. /\ r \in Nat /\ \A v \in Workers : r \notin JobReceipts(wk[v])
          /\ \A c \in orphans : r # c.rcpt
      BY FreshIsNew
    <3>2. lease' = [lease EXCEPT ![m] = VisTicks] /\ receipt' = [receipt EXCEPT ![m] = r]
      BY <2>2 DEF Update
    <3>3. /\ wk'[w].pc = "run" /\ wk'[w].msg = m /\ wk'[w].renew = "reply"
          /\ wk'[w].rcall = r
          /\ \A v \in Workers \ {w} : wk'[v] = wk[v]
      <4> HIDE DEF r
      <4>1. wk' = [wk EXCEPT ![w] = [@ EXCEPT !.renew = "reply", !.rcall = r]]
        BY <2>2 DEF r
      <4> QED
        BY <1>0, <1>1, <4>1 DEF WorkerState
    <3> HIDE DEF r
    <3>4. lease'[m] = VisTicks /\ receipt'[m] = r
          /\ \A x \in Msgs \ {m} : lease'[x] = lease[x] /\ receipt'[x] = receipt[x]
      BY <1>0, <1>4, <3>2
    <3>5. Renewed(w)'
      BY <3>3, <3>4, ConstantsAssumption DEF Renewed
    <3>6. \A v \in Workers \ {w} : r \notin JobReceipts(wk'[v])
      BY <3>1, <3>3
    <3>7. Sole(w)'
      BY <2>1, <3>1, <3>3, <3>4, <3>6 DEF Sole
    <3> QED
      BY <1>1, <1>2, <2>1, <3>3, <3>4, <3>5, <3>7, LeaseRuns
  <2>3. CASE /\ m \notin queued /\ UNCHANGED storage
             /\ wk' = [wk EXCEPT ![w] = [@ EXCEPT !.renew = "off", !.rcall = NoReceipt]]
    <3>1. wk'[w].pc = "run" /\ wk'[w].msg = m /\ \A v \in Workers \ {w} : wk'[v] = wk[v]
      BY <1>0, <1>1, <2>3 DEF WorkerState
    <3> QED
      BY <1>5, <2>1, <2>3, <3>1 DEF storage
  <2>4. CASE m \in queued /\ receipt[m] # wk[w].rcall
    BY <1>3, <2>1, <2>4 DEF Renewed
  <2>5. ~Occurs("renewFails")
    BY DEF Undisturbed, Occurs
  <2> QED
    BY <1>7, <2>2, <2>3, <2>4, <2>5 DEF RenewCalls
<1>8. CASE RenewReturns(w)
  <2>1. UNCHANGED <<stopping, queued, orphans, lease, receipt>> /\ wk[w].renew = "reply"
    BY <1>8 DEF RenewReturns, storage, loops, calls
  <2>2. wk' = [wk EXCEPT ![w] = [@ EXCEPT !.renew = "sleep", !.timer = RenewTicks,
                                          !.tracked = wk[w].rcall, !.rcall = NoReceipt]]
    BY <1>8 DEF RenewReturns
  <2>3. /\ wk'[w].pc = "run" /\ wk'[w].msg = m /\ wk'[w].renew = "sleep"
        /\ wk'[w].timer = RenewTicks /\ wk'[w].tracked = wk[w].rcall
        /\ \A v \in Workers \ {w} : wk'[v] = wk[v]
    BY <1>0, <1>1, <2>2 DEF WorkerState
  <2>4. m \in queued => Renewed(w)'
    BY <1>3, <2>1, <2>3, ConstantsAssumption DEF Renewed
  <2> QED
    BY <1>5, <2>1, <2>3, <2>4
<1> QED
  BY <1>6, <1>7, <1>8 DEF RenewStep

(* A call whose coroutine was cancelled: it can still be accepted, but     *)
(* never for a request that is running.                                    *)
LEMMA LeaseOrphan ==
  ASSUME LeaseInv, TypeInv, NEW c \in orphans, OrphanEffect(c)
  PROVE  LeaseInv'
<1>1. stopping' = {} /\ UNCHANGED <<queued, wk>> /\ orphans' \subseteq orphans
  BY DEF OrphanEffect, Update, storage, loops, LeaseInv
<1>2. ASSUME NEW w \in Workers, wk[w].pc = "run", wk[w].msg \in queued
      PROVE  lease'[wk[w].msg] = lease[wk[w].msg] /\ receipt'[wk[w].msg] = receipt[wk[w].msg]
  <2>1. CASE UNCHANGED storage
    BY <2>1 DEF storage
  <2>2. CASE Accepts(c.msg, c.rcpt) /\ Update(c.msg, OrphanTicks(c.op))
    <3>1. wk[w].msg # c.msg
      BY <1>2, <2>2, HolderAlone DEF Accepts
    <3> QED
      BY <1>2, <2>2, <3>1 DEF Update, TypeInv, TypeOK
  <2> QED
    BY <2>1, <2>2 DEF OrphanEffect
<1>3. \A w \in Workers : wk'[w].pc # "run" => Dormant(wk'[w])
  BY <1>1 DEF LeaseInv
<1> QED
  BY <1>1, <1>2, <1>3, LeaseStep

LEMMA LeaseStop ==
  ASSUME Undisturbed, LeaseInv, TypeInv,
         \/ \E w \in Workers : BeginKill(w) \/ BeginStopWorker(w) \/ EndStopWorker(w)
         \/ \E k \in kills : EndKill(k)
  PROVE  LeaseInv'
<1>0. wk \in [Workers -> WorkerState]
  BY DEF TypeInv, TypeOK
<1>1. ASSUME NEW w \in Workers, BeginKill(w) PROVE LeaseInv'
  <2>1. wk[w].msg \in Msgs
    BY <1>1 DEF BeginKill, InFlight, TypeInv
  <2>2. Delete(wk[w].msg, wk[w].tracked) \/ UNCHANGED storage
    BY <1>1 DEF BeginKill
  <2>3. stopping' = {} /\ UNCHANGED <<wk, orphans>>
    BY <1>1 DEF BeginKill, loops, LeaseInv
  <2> QED
    BY <2>1, <2>2, <2>3, DeleteLeaves, LeaseIdle
<1>2. ASSUME NEW k \in kills, EndKill(k) PROVE LeaseInv'
  <2>1. k.worker \in Workers
    BY DEF TypeInv, TypeOK
  <2>2. stopping' = {} /\ UNCHANGED <<queued, lease, receipt>>
    BY <1>2 DEF EndKill, storage, loops, LeaseInv
  <2>3. CASE UNCHANGED <<wk, orphans>>
    BY <2>2, <2>3, LeaseIdle
  <2>4. CASE CancelJob(k.worker)
    <3> DEFINE w == k.worker
    <3>1. wk'[w] = Idle("poll") /\ \A v \in Workers \ {w} : wk'[v] = wk[v]
      BY <1>0, <2>1, <2>4 DEF CancelJob
    <3>2. orphans' = orphans \cup RenewOrphan(w) \cup JobOrphan(w)
      BY <2>4 DEF CancelJob
    <3> HIDE DEF w
    <3>3. w \in Workers
      BY <2>1 DEF w
    <3> QED
      BY <2>2, <3>1, <3>2, <3>3, LeaseIdle
  <2> QED
    BY <1>2, <2>3, <2>4 DEF EndKill
<1>3. \A w \in Workers : ~BeginStopWorker(w) /\ ~EndStopWorker(w)
  BY DEF BeginStopWorker, EndStopWorker, Occurs, Undisturbed, LeaseInv
<1> QED
  BY <1>1, <1>2, <1>3

LEMMA LeaseReplica ==
  ASSUME LeaseInv, TypeInv, NEW r \in Replicas,
         StopService(r) \/ Crash(r) \/ ServiceReturns(r) \/ StartService(r)
  PROVE  LeaseInv'
<1>1. stopping' = {} /\ UNCHANGED <<queued, lease, receipt>>
  BY DEF StopService, Crash, ServiceReturns, StartService, GoDown, storage, LeaseInv
<1>2. \A w \in Workers : wk'[w] = wk[w] \/ wk'[w] \in {Idle("off"), Idle("poll")}
  BY DEF StopService, Crash, ServiceReturns, StartService, GoDown
<1>3. \A c \in orphans' :
        c \in orphans \/ \E v \in Workers : /\ wk'[v] \in {Idle("off"), Idle("poll")}
                                            /\ c \in RenewOrphan(v) \cup JobOrphan(v)
  BY DEF StopService, Crash, ServiceReturns, StartService, GoDown, Local, calls
<1> QED
  BY <1>1, <1>2, <1>3, LeaseIdle

(* Time passes only when no call is under way: the timer of a renewal and  *)
(* the lease that it guards run down together.                             *)
LEMMA LeaseTick ==
  ASSUME Undisturbed, LeaseInv, TypeInv, Tick
  PROVE  LeaseInv'
<1>1. Quiet
  BY DEF Tick, Undisturbed, Occurs
<1>2. UNCHANGED <<queued, receipt, orphans, stopping>>
      /\ lease' = [m \in Msgs |-> IF lease[m] > 0 THEN lease[m] - 1 ELSE 0]
  BY DEF Tick, loops, calls
<1>3. ASSUME NEW w \in Workers
      PROVE  /\ wk'[w].pc = wk[w].pc /\ wk'[w].msg = wk[w].msg
             /\ wk'[w].renew = wk[w].renew /\ wk'[w].held = wk[w].held
             /\ wk'[w].tracked = wk[w].tracked /\ wk'[w].jcall = wk[w].jcall
             /\ wk'[w].rcall = wk[w].rcall
             /\ wk[w].renew \in {"off", "sleep"}
             /\ wk[w].renew = "sleep" =>
                  wk[w].timer \in Nat /\ wk[w].timer > 0 /\ wk'[w].timer = wk[w].timer - 1
  <2>1. wk[w] \in WorkerState
    BY DEF TypeInv, TypeOK
  <2>2. wk[w].renew \in {"off", "sleep"} /\ ~Due(w) /\ wk[w].pc \in {"off", "poll", "run"}
    BY <1>1 DEF Quiet
  <2>3. wk'[w] = IF wk[w].renew = "sleep"
                 THEN [wk[w] EXCEPT !.timer = wk[w].timer - 1] ELSE wk[w]
    BY <2>2 DEF Tick
  <2>4. wk[w].timer \in Nat /\ (wk[w].renew = "sleep" => wk[w].timer > 0)
    BY <2>1, <2>2, ConstantsAssumption DEF WorkerState, Due
  <2>5. CASE wk[w].renew = "sleep"
    <3> DEFINE t == wk[w].timer - 1
    <3>1. wk'[w] = [wk[w] EXCEPT !.timer = t]
      BY <2>3, <2>5
    <3> HIDE DEF t
    <3>2. /\ wk'[w].pc = wk[w].pc /\ wk'[w].msg = wk[w].msg
          /\ wk'[w].renew = wk[w].renew /\ wk'[w].held = wk[w].held
          /\ wk'[w].tracked = wk[w].tracked /\ wk'[w].jcall = wk[w].jcall
          /\ wk'[w].rcall = wk[w].rcall /\ wk'[w].timer = t
      BY <2>1, <3>1 DEF WorkerState
    <3> QED
      BY <2>4, <2>5, <3>2 DEF t
  <2>6. CASE wk[w].renew = "off"
    BY <2>3, <2>6
  <2> QED
    BY <2>2, <2>5, <2>6
<1>4. ASSUME NEW w \in Workers, Runs(w)'
      PROVE  Renewed(w)' /\ Sole(w)'
  <2> DEFINE m == wk[w].msg
  <2>1. wk'[w].msg = m /\ wk[w].pc = "run" /\ m \in queued /\ m \in Msgs
    BY <1>2, <1>3, <1>4 DEF Runs, TypeInv, TypeOK
  <2>2. Renewed(w) /\ Sole(w)
    BY <2>1 DEF LeaseInv, Runs
  <2>3. Renewed(w)'
    <3>1. lease[m] \in Nat
      BY <2>1 DEF TypeInv, TypeOK
    <3>2. lease'[m] = lease[m] - 1
      BY <1>2, <2>1, <2>2, <3>1 DEF Renewed
    <3> QED
      BY <1>2, <1>3, <2>1, <2>2, <3>1, <3>2 DEF Renewed
  <2>4. \A v \in Workers : JobReceipts(wk'[v]) = JobReceipts(wk[v]) /\ wk'[v].msg = wk[v].msg
    BY <1>3 DEF JobReceipts
  <2>5. Sole(w)'
    BY <1>2, <2>2, <2>4 DEF Sole
  <2> QED
    BY <2>3, <2>5
<1>5. ExclusiveRun'
  BY <1>3 DEF LeaseInv, ExclusiveRun
<1>6. \A w \in Workers : wk'[w].pc # "run" => Dormant(wk'[w])
  <2> SUFFICES ASSUME NEW w \in Workers, wk'[w].pc # "run"
               PROVE  wk'[w].renew = "off"
    BY DEF Dormant
  <2> QED
    BY <1>1, <1>3 DEF Quiet, LeaseInv, Dormant
<1> QED
  BY <1>2, <1>4, <1>5, <1>6 DEF LeaseInv

LEMMA LeaseNext ==
  ASSUME Undisturbed
  PROVE  LeaseInv /\ TypeInv /\ [Next]_vars => LeaseInv'
<1> SUFFICES ASSUME LeaseInv, TypeInv, [Next]_vars
             PROVE  LeaseInv'
  OBVIOUS
<1>1. ASSUME UNCHANGED vars PROVE LeaseInv'
  <2>1. stopping' = {} /\ UNCHANGED <<queued, lease, receipt, wk, orphans>>
    BY <1>1 DEF vars, storage, loops, calls, LeaseInv
  <2> QED
    BY <2>1, LeaseIdle
<1>2. ASSUME NEW w \in Workers, WorkerStep(w)
      PROVE  LeaseInv'
  BY <1>1, <1>2, LeaseReceive, LeaseJobStep, LeaseRenewStep, LeaseStop
     DEF WorkerStep, PollEmpty
<1> QED
  BY <1>1, <1>2, LeaseOrphan, LeaseStop, LeaseReplica, LeaseTick DEF Next

LEMMA LeaseInit == Init => LeaseInv
BY DEF Init, LeaseInv, Idle, Dormant, Runs, ExclusiveRun

LEMMA LeaseAlways ==
  ASSUME Undisturbed
  PROVE  Spec => [](LeaseInv /\ TypeInv)
BY LeaseInit, LeaseNext, InitTyped, NextTyped, PTL DEF Spec

(* No request is run by two worker loops at once, for every number of      *)
(* workers and replicas and all timeouts with the renewal shorter than the *)
(* lease, as long as time does not pass during a storage call, no renewal  *)
(* fails and stop_worker is not called (_renew_visibility_loop: so that    *)
(* long-running jobs don't become visible to other consumers).             *)
THEOREM RunsExclude ==
  ASSUME Undisturbed
  PROVE  Spec => []ExclusiveRun
<1>1. LeaseInv => ExclusiveRun
  BY DEF LeaseInv
<1> QED
  BY <1>1, LeaseAlways, PTL

(* And under the same conditions a running job whose renewal loop sleeps   *)
(* holds the receipt that the storage account will accept: its delete or   *)
(* its retry will not be refused.                                          *)
THEOREM ReceiptsCurrent ==
  ASSUME Undisturbed
  PROVE  Spec => []TrackedIsCurrent
<1>1. LeaseInv => TrackedIsCurrent
  BY DEF LeaseInv, Runs, Renewed, TrackedIsCurrent
<1> QED
  BY <1>1, LeaseAlways, PTL

===============================================================================
