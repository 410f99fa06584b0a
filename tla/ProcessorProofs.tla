----------------------------- MODULE ProcessorProofs -----------------------------
(***************************************************************************)
(* Theorems about the processes of the ContentProcessor service:           *)
(* HandlerHost for any number of handlers, FieldScores for all documents.  *)
(***************************************************************************)
EXTENDS HandlerHost, FieldScores, OrderLemmas, SequenceTheorems

LEMMA NumberOfHandlers == N \in Nat \ {0}
BY HandlersAssumption, FS_CardinalityType, FS_EmptySet DEF N

(***************************************************************************)
(* The inductive invariant.  Each sweep that leaves a handler out moves it *)
(* one place to the left, and only a handler that was looked at moves to   *)
(* the right: a handler at place p has been left out at most N - p times.  *)
(* Until the start loop has reached an entry, it has no process.           *)
(***************************************************************************)
HostInv ==
  /\ TypeOK
  /\ OneProcess
  /\ phase = "start" => \A p \in Places : p >= next => ~handlers[p].running
  /\ \A p \in Places : missed[Name(p)] <= N - p

LEMMA HostInit == Init => HostInv
<1> SUFFICES ASSUME Init
             PROVE  HostInv
  OBVIOUS
<1>1. ASSUME NEW p \in Places
      PROVE  handlers[p] \in Entry /\ Name(p) \in Handlers /\ ~handlers[p].running
  <2>1. handlers[p] \in [name : Handlers, running : {FALSE}]
    BY DEF Init
  <2>2. handlers[p].running \in {FALSE} /\ handlers[p].name \in Handlers
    BY <2>1
  <2>3. \A x : x \in {FALSE} => ~x
    BY Zenon
  <2>4. [name : Handlers, running : {FALSE}] \subseteq Entry
    BY DEF Entry
  <2> QED
    BY <2>1, <2>2, <2>3, <2>4 DEF Name
<1>2. TypeOK
  <2>1. handlers \in [Places -> Entry]
    BY <1>1 DEF Init
  <2> QED
    BY <2>1, NumberOfHandlers DEF Init, TypeOK
<1>3. OneProcess
  BY <1>1 DEF Init, OneProcess
<1>4. \A p \in Places : missed[Name(p)] <= N - p
  BY <1>1, NumberOfHandlers DEF Init, Places
<1> QED
  BY <1>1, <1>2, <1>3, <1>4 DEF HostInv

(* The entries after a replacement: those before place p stay, the others  *)
(* move one place to the left, and the new one is last.                    *)
LEMMA ReplacedEntries ==
  ASSUME NEW p \in Places, NEW e,
         handlers' = Replaced(p, e)
  PROVE  /\ \A q \in Places : q < p => handlers'[q] = handlers[q]
         /\ \A q \in Places : q >= p /\ q < N => handlers'[q] = handlers[q + 1]
         /\ handlers'[N] = e
BY NumberOfHandlers DEF Replaced, Places

(* Where the entry of place q comes from.                                  *)
Origin(p, q) == IF q < p THEN q ELSE IF q < N THEN q + 1 ELSE p

LEMMA OriginPlace ==
  ASSUME NEW p \in Places, NEW q \in Places
  PROVE  /\ Origin(p, q) \in Places
         /\ Origin(p, q) = p <=> q = N
         /\ \A r \in Places : Origin(p, q) = Origin(p, r) => q = r
         /\ \E r \in Places : Origin(p, r) = q
<1>1. Origin(p, q) \in Places /\ (Origin(p, q) = p <=> q = N)
  BY NumberOfHandlers DEF Origin, Places
<1>2. \A r \in Places : Origin(p, q) = Origin(p, r) => q = r
  BY NumberOfHandlers DEF Origin, Places
<1>3. \E r \in Places : Origin(p, r) = q
  <2>1. CASE q < p
    BY <2>1 DEF Origin
  <2>2. CASE q = p
    BY <2>2, NumberOfHandlers DEF Origin, Places
  <2>3. CASE q > p
    <3>1. q - 1 \in Places /\ Origin(p, q - 1) = q
      BY <2>3, NumberOfHandlers DEF Origin, Places
    <3> QED
      BY <3>1
  <2> QED
    BY <2>1, <2>2, <2>3, NumberOfHandlers DEF Places
<1> QED
  BY <1>1, <1>2, <1>3

LEMMA ReplaceStep ==
  ASSUME HostInv, Replace
  PROVE  HostInv'
<1> DEFINE e == [name |-> Name(next), running |-> TRUE]
<1>1. /\ next \in Places /\ ~handlers[next].running /\ handlers' = Replaced(next, e)
      /\ processes' = [processes EXCEPT ![Name(next)] = @ + 1] /\ next' = next + 1
      /\ phase = "sweep" /\ phase' = phase /\ Skip(next)
  BY DEF Replace
<1>2. e \in Entry /\ e.name = Name(next) /\ e.running = TRUE
  BY <1>1 DEF HostInv, TypeOK, Entry, Name
<1> HIDE DEF e
<1>3. \A q \in Places : /\ Name(q)' = Name(Origin(next, q))
                        /\ q # N => handlers'[q] = handlers[Origin(next, q)]
                        /\ q = N => handlers'[q] = e
  BY <1>1, <1>2, ReplacedEntries, NumberOfHandlers DEF Origin, Places, Name
<1>4. \A p \in Places : Name(p) \in Handlers /\ handlers[p] \in Entry
  BY DEF HostInv, TypeOK, Entry, Name
<1>5. TypeOK'
  <2>1. handlers' \in [Places -> Entry]
    <3>1. \A q \in Places : handlers'[q] \in Entry
      BY <1>1, <1>2, <1>3, <1>4, OriginPlace
    <3> QED
      BY <1>1, <3>1 DEF Replaced
  <2>2. processes' \in [Handlers -> Nat]
    BY <1>1, <1>4 DEF HostInv, TypeOK
  <2>3. missed' \in [Handlers -> Nat]
    BY <1>1 DEF HostInv, TypeOK, Skip
  <2>4. next' \in 1 .. N + 1
    BY <1>1, NumberOfHandlers DEF Places
  <2> QED
    BY <1>1, <2>1, <2>2, <2>3, <2>4 DEF TypeOK
<1>6. EachOnce'
  <2>1. \A n \in Handlers : \E q \in Places : Name(q)' = n
    <3> TAKE n \in Handlers
    <3>1. PICK p \in Places : Name(p) = n
      BY DEF HostInv, OneProcess, EachOnce
    <3>2. PICK q \in Places : Origin(next, q) = p
      BY <1>1, OriginPlace
    <3> QED
      BY <1>3, <3>1, <3>2
  <2>2. \A p, q \in Places : Name(p)' = Name(q)' => p = q
    BY <1>1, <1>3, OriginPlace DEF HostInv, OneProcess, EachOnce
  <2> QED
    BY <2>1, <2>2 DEF EachOnce
<1>7. ASSUME NEW q \in Places
      PROVE  processes'[Name(q)'] = IF handlers'[q].running THEN 1 ELSE 0
  <2>1. Origin(next, q) \in Places /\ (Origin(next, q) = next <=> q = N)
    BY <1>1, OriginPlace
  <2>2. CASE q = N
    <3>1. handlers'[q] = e /\ Name(q)' = Name(next) /\ Name(next) \in Handlers
      BY <1>1, <1>3, <1>4, <2>1, <2>2
    <3>2. processes[Name(next)] = 0
      BY <1>1 DEF HostInv, OneProcess
    <3>3. processes'[Name(next)] = processes[Name(next)] + 1
      BY <1>1, <3>1 DEF HostInv, TypeOK
    <3> QED
      BY <1>2, <3>1, <3>2, <3>3
  <2>3. CASE q # N
    <3>1. Name(Origin(next, q)) # Name(next)
      BY <1>1, <2>1, <2>3 DEF HostInv, OneProcess, EachOnce
    <3> DEFINE o == Origin(next, q)
    <3>2. o \in Places /\ Name(q)' = Name(o) /\ handlers'[q] = handlers[o] /\ Name(o) \in Handlers
          /\ Name(o) # Name(next)
      BY <1>3, <1>4, <2>1, <2>3, <3>1
    <3> HIDE DEF o
    <3>3. processes[Name(o)] = IF handlers[o].running THEN 1 ELSE 0
      BY <3>2 DEF HostInv, OneProcess
    <3>4. processes'[Name(o)] = processes[Name(o)]
      BY <1>1, <3>2 DEF HostInv, TypeOK
    <3> QED
      BY <3>2, <3>3, <3>4
  <2> QED
    BY <2>2, <2>3
<1>8. ASSUME NEW q \in Places
      PROVE  missed'[Name(q)'] <= N - q
  <2> DEFINE o == Origin(next, q)
  <2>1. o \in Places /\ (o = next <=> q = N) /\ Name(q)' = Name(o) /\ Name(o) \in Handlers
    BY <1>1, <1>3, <1>4, OriginPlace
  <2>2. CASE q = N
    BY <1>1, <2>1, <2>2, NumberOfHandlers DEF Skip, Places
  <2>3. CASE q # N
    <3>1. Name(o) # Name(next) /\ missed[Name(o)] <= N - o /\ missed[Name(o)] \in Nat
      BY <1>1, <2>1, <2>3 DEF HostInv, OneProcess, EachOnce, TypeOK
    <3>2. CASE o = q
      <4>1. q < next
        BY <1>1, <2>1, <2>3, <3>2, NumberOfHandlers DEF Origin, Places
      <4>2. ~(next < N /\ Name(o) = Name(next + 1))
        <5>1. next < N => next + 1 \in Places
          BY <1>1, NumberOfHandlers DEF Places
        <5> QED
          BY <1>1, <2>1, <3>2, <4>1, <5>1, NumberOfHandlers
             DEF HostInv, OneProcess, EachOnce, Places
      <4>3. missed'[Name(o)] = missed[Name(o)]
        BY <1>1, <2>1, <3>1, <4>2 DEF Skip
      <4> QED
        BY <2>1, <3>1, <3>2, <4>3
    <3>3. CASE o = q + 1
      <4>1. missed'[Name(o)] <= missed[Name(o)] + 1
        BY <1>1, <2>1, <3>1 DEF Skip
      <4>2. missed'[Name(o)] \in Nat /\ q \in Int /\ N \in Int
        BY <1>5, <2>1, NumberOfHandlers DEF TypeOK, Places
      <4> QED
        BY <2>1, <3>1, <3>3, <4>1, <4>2
    <3> QED
      BY <1>1, <2>1, <2>3, <3>2, <3>3, NumberOfHandlers DEF Origin, Places
  <2> QED
    BY <2>2, <2>3
<1> QED
  BY <1>1, <1>5, <1>6, <1>7, <1>8 DEF HostInv, OneProcess

LEMMA HostStep ==
  ASSUME HostInv, [Next]_vars
  PROVE  HostInv'
<1>0. \A p \in Places : Name(p) \in Handlers /\ handlers[p] \in Entry /\ p \in Int
  BY DEF HostInv, TypeOK, Entry, Name, Places
<1>1. CASE UNCHANGED vars
  BY <1>1 DEF vars, HostInv, TypeOK, OneProcess, EachOnce, Name
<1>2. CASE StartNext
  <2>1. next \in Places /\ ~handlers[next].running
    BY <1>2, NumberOfHandlers DEF StartNext, HostInv, Places
  <2>2. \A p \in Places : /\ Name(p)' = Name(p) /\ handlers'[p] \in Entry
                          /\ (handlers'[p].running <=> p = next \/ handlers[p].running)
    BY <1>0, <1>2, <2>1 DEF StartNext, HostInv, TypeOK, Entry, Name
  <2>3. TypeOK'
    <3>1. handlers' \in [Places -> Entry]
      BY <1>2, <2>2 DEF StartNext, HostInv, TypeOK
    <3>2. processes' \in [Handlers -> Nat]
      BY <1>0, <1>2, <2>1 DEF StartNext, HostInv, TypeOK
    <3> QED
      BY <1>2, <2>1, <3>1, <3>2, NumberOfHandlers DEF StartNext, HostInv, TypeOK, Places
  <2>4. EachOnce'
    BY <2>2 DEF HostInv, OneProcess, EachOnce
  <2>5. \A p \in Places : processes'[Name(p)'] = IF handlers'[p].running THEN 1 ELSE 0
    <3> TAKE p \in Places
    <3>1. CASE p = next
      <4>1. processes[Name(next)] = 0
        BY <2>1 DEF HostInv, OneProcess
      <4> QED
        BY <1>0, <1>2, <2>1, <2>2, <3>1, <4>1 DEF StartNext, HostInv, TypeOK
    <3>2. CASE p # next
      <4>1. Name(p) # Name(next) /\ processes[Name(p)] = IF handlers[p].running THEN 1 ELSE 0
        BY <2>1, <3>2 DEF HostInv, OneProcess, EachOnce
      <4> QED
        BY <1>0, <1>2, <2>1, <2>2, <3>2, <4>1 DEF StartNext, HostInv, TypeOK
    <3> QED
      BY <3>1, <3>2
  <2>6. \A p \in Places : p >= next' => ~handlers'[p].running
    <3>1. \A p \in Places : p >= next' => p > next /\ ~handlers[p].running
      BY <1>0, <1>2, <2>1 DEF StartNext, HostInv
    <3> QED
      BY <1>0, <2>1, <2>2, <3>1
  <2>7. \A p \in Places : missed'[Name(p)'] <= N - p
    BY <1>2, <2>2 DEF StartNext, HostInv
  <2> QED
    BY <2>3, <2>4, <2>5, <2>6, <2>7 DEF HostInv, OneProcess
<1>3. CASE Keep
  <2>1. next \in Places /\ handlers' = handlers /\ next' = next + 1 /\ phase' = "sweep"
        /\ processes' = processes /\ missed' = [missed EXCEPT ![Name(next)] = 0]
    BY <1>3 DEF Keep
  <2>2. \A p \in Places : missed'[Name(p)] <= N - p
    BY <1>0, <2>1, NumberOfHandlers DEF HostInv, TypeOK, Places
  <2> QED
    BY <1>0, <2>1, <2>2, NumberOfHandlers DEF HostInv, TypeOK, OneProcess, EachOnce, Name, Places
<1>4. CASE Replace
  BY <1>4, ReplaceStep
<1>5. CASE NextSweep
  BY <1>5, NumberOfHandlers DEF NextSweep, HostInv, TypeOK, OneProcess, EachOnce, Name, Places
<1>6. ASSUME NEW p \in Places, End(p)
      PROVE  HostInv'
  <2>1. \A q \in Places : /\ Name(q)' = Name(q) /\ handlers'[q] \in Entry
                          /\ (handlers'[q].running <=> q # p /\ handlers[q].running)
    BY <1>0, <1>6 DEF End, HostInv, TypeOK, Entry, Name
  <2>2. processes[Name(p)] = 1
    BY <1>6 DEF End, HostInv, OneProcess
  <2>3. TypeOK'
    <3>1. handlers' \in [Places -> Entry]
      BY <1>6, <2>1 DEF End, HostInv, TypeOK
    <3>2. processes' \in [Handlers -> Nat]
      BY <1>0, <1>6, <2>2 DEF End, HostInv, TypeOK
    <3> QED
      BY <1>6, <3>1, <3>2 DEF End, HostInv, TypeOK
  <2>4. EachOnce'
    BY <2>1 DEF HostInv, OneProcess, EachOnce
  <2>5. \A q \in Places : processes'[Name(q)'] = IF handlers'[q].running THEN 1 ELSE 0
    <3> TAKE q \in Places
    <3>1. CASE q = p
      BY <1>0, <1>6, <2>1, <2>2, <3>1 DEF End, HostInv, TypeOK
    <3>2. CASE q # p
      <4>1. Name(q) # Name(p) /\ processes[Name(q)] = IF handlers[q].running THEN 1 ELSE 0
        BY <3>2 DEF HostInv, OneProcess, EachOnce
      <4> QED
        BY <1>0, <1>6, <2>1, <3>2, <4>1 DEF End, HostInv, TypeOK
    <3> QED
      BY <3>1, <3>2
  <2>6. \A q \in Places : missed'[Name(q)'] <= N - q
    BY <1>6, <2>1 DEF End, HostInv
  <2>7. (phase = "start")' => \A q \in Places : q >= next' => ~handlers'[q].running
    BY <1>6, <2>1 DEF End, HostInv
  <2> QED
    BY <2>3, <2>4, <2>5, <2>6, <2>7 DEF HostInv, OneProcess
<1> QED
  BY <1>1, <1>2, <1>3, <1>4, <1>5, <1>6 DEF Next, Supervise

(* Every variable of the supervisor keeps its type; its index stays within *)
(* the list or just behind it.                                             *)
THEOREM TypeCorrect == Spec => []TypeOK
<1>1. HostInv => TypeOK
  BY DEF HostInv
<1> QED
  BY <1>1, HostInit, HostStep, PTL DEF Spec

(* However many handlers there are and whatever ends when, every handler   *)
(* keeps its one entry and has the one process the entry refers to.        *)
THEOREM OneProcessEach == Spec => []OneProcess
<1>1. HostInv => OneProcess
  BY DEF HostInv
<1> QED
  BY <1>1, HostInit, HostStep, PTL DEF Spec

(* A handler is left out of at most N - 1 sweeps in a row.                 *)
THEOREM NeglectIsBounded == Spec => []BoundedNeglect
<1>1. HostInv => BoundedNeglect
  <2> SUFFICES ASSUME HostInv, NEW n \in Handlers
               PROVE  missed[n] < N
    BY DEF BoundedNeglect
  <2>1. PICK p \in Places : Name(p) = n
    BY DEF HostInv, OneProcess, EachOnce
  <2> QED
    BY <2>1, NumberOfHandlers DEF HostInv, TypeOK, Places
<1> QED
  BY <1>1, HostInit, HostStep, PTL DEF Spec

-------------------------------------------------------------------------------
(* The host implements the safety part of Supervision: a process of a      *)
(* handler is started where none runs, ends where one does, and every      *)
(* other step leaves the processes alone.                                  *)
Up == {n \in Handlers : processes[n] > 0}

(* One process more or less of one handler.                                *)
LEMMA Counts ==
  ASSUME HostInv, NEW p \in Places, NEW k \in {0, 1},
         processes' = [processes EXCEPT ![Name(p)] = k]
  PROVE  /\ Name(p) \in Handlers
         /\ k = 1 => Up' = Up \cup {Name(p)}
         /\ k = 0 => Up' = Up \ {Name(p)}
         /\ Name(p) \in Up <=> handlers[p].running
<1>1. Name(p) \in Handlers /\ processes \in [Handlers -> Nat]
  BY DEF HostInv, TypeOK, Entry, Name, Places
<1>2. \A n \in Handlers : processes'[n] = IF n = Name(p) THEN k ELSE processes[n]
  BY <1>1
<1>3. processes[Name(p)] = IF handlers[p].running THEN 1 ELSE 0
  BY DEF HostInv, OneProcess
<1>4. Name(p) \in Up <=> handlers[p].running
  <2>1. CASE handlers[p].running
    BY <1>1, <1>3, <2>1 DEF Up
  <2>2. CASE ~handlers[p].running
    BY <1>1, <1>3, <2>2 DEF Up
  <2> QED
    BY <2>1, <2>2
<1>5. Name(p) \in Up' <=> k = 1
  BY <1>1, <1>2 DEF Up
<1>6. \A n \in Handlers \ {Name(p)} : n \in Up' <=> n \in Up
  BY <1>2 DEF Up
<1>7. Up \subseteq Handlers /\ Up' \subseteq Handlers
  BY DEF Up
<1> QED
  BY <1>1, <1>4, <1>5, <1>6, <1>7

LEMMA HostRefines ==
  ASSUME HostInv, [Next]_vars
  PROVE  (\E n \in Handlers : S!Start(n) \/ S!End(n)) \/ Up' = Up
<1>0. \A p \in Places : /\ Name(p) \in Handlers /\ processes[Name(p)] \in Nat
                        /\ handlers[p].running => processes[Name(p)] = 1
                        /\ ~handlers[p].running => processes[Name(p)] = 0
  BY DEF HostInv, OneProcess, TypeOK, Entry, Name, Places
<1>1. ASSUME StartNext \/ Replace
      PROVE  \E n \in Handlers : S!Start(n)
  <2>1. next \in Places /\ ~handlers[next].running
    <3>1. CASE StartNext
      BY <3>1, NumberOfHandlers DEF StartNext, HostInv, Places
    <3>2. CASE Replace
      BY <3>2 DEF Replace
    <3> QED
      BY <1>1, <3>1, <3>2
  <2>2. processes' = [processes EXCEPT ![Name(next)] = 1]
    <3>1. processes' = [processes EXCEPT ![Name(next)] = @ + 1]
      BY <1>1 DEF StartNext, Replace
    <3>2. processes[Name(next)] = 0
      BY <1>0, <2>1
    <3> QED
      BY <3>1, <3>2
  <2>3. Name(next) \in Handlers \ Up /\ Up' = Up \cup {Name(next)}
    BY <2>1, <2>2, Counts
  <2> QED
    BY <2>3 DEF S!Start, Up
<1>2. ASSUME NEW p \in Places, End(p)
      PROVE  \E n \in Handlers : S!End(n)
  <2>1. handlers[p].running
    BY <1>2 DEF End
  <2>2. processes' = [processes EXCEPT ![Name(p)] = 0]
    <3>1. processes' = [processes EXCEPT ![Name(p)] = @ - 1]
      BY <1>2 DEF End
    <3>2. processes[Name(p)] = 1
      BY <1>0, <2>1
    <3> QED
      BY <3>1, <3>2
  <2>3. Name(p) \in Handlers /\ Name(p) \in Up /\ Up' = Up \ {Name(p)}
    BY <2>1, <2>2, Counts
  <2> QED
    BY <2>3 DEF S!End, Up
<1>3. ASSUME Keep \/ NextSweep \/ UNCHANGED vars
      PROVE  Up' = Up
  <2>1. processes' = processes
    BY <1>3 DEF Keep, NextSweep, vars
  <2> QED
    BY <2>1 DEF Up
<1> QED
  BY <1>1, <1>2, <1>3 DEF Next, Supervise

(* Whatever ends when, a process is only ever started for a handler that   *)
(* has none: the host does nothing that Supervision does not allow.        *)
THEOREM Refinement == Spec => S!Safety
<1>1. Init => S!Init
  BY DEF Init, S!Init
<1>2. HostInv /\ [Next]_vars => [S!Next]_Up
  <2> SUFFICES ASSUME HostInv, [Next]_vars PROVE [S!Next]_Up
    OBVIOUS
  <2> QED
    BY HostRefines DEF S!Next
<1>3. Spec => Init /\ []HostInv /\ [][Next]_vars
  BY HostInit, HostStep, PTL DEF Spec
<1> QED
  BY <1>1, <1>2, <1>3, PTL DEF S!Safety, Up

-------------------------------------------------------------------------------
(* FieldScores.  Paths, and when one leads to another.  The provers do not *)
(* know that a literal is a string, so the keys are a set that has it.     *)
Word == STRING \union {"confidence", "value", "matching_lines", "_overall"}

LEMMA WordsAre ==
  /\ "confidence" \in Word /\ "value" \in Word
  /\ "matching_lines" \in Word /\ "_overall" \in Word
BY DEF Word

LEMMA PathsOfWords ==
  ASSUME NEW p \in Seq(STRING)
  PROVE  p \in Seq(Word)
<1>1. \A k \in 1 .. Len(p) : p[k] \in STRING
  BY ElementOfSeq
<1>2. \A k \in 1 .. Len(p) : p[k] \in Word
  BY <1>1 DEF Word
<1>3. p = [k \in 1 .. Len(p) |-> p[k]] /\ Len(p) \in Nat
  OBVIOUS
<1>4. p \in [1 .. Len(p) -> Word]
  BY <1>2, <1>3
<1> QED
  BY <1>3, <1>4, SeqDef

Starts(s, t) == Len(s) <= Len(t) /\ \A k \in 1 .. Len(s) : s[k] = t[k]

LEMMA PrefixIs ==
  ASSUME NEW s \in Seq(Word), NEW t \in Seq(Word)
  PROVE  IsPrefix(s, t) <=> Starts(s, t)
<1> DEFINE n == Len(s)
<1>0. n \in Nat /\ Len(t) \in Nat
  OBVIOUS
<1>1. \A k \in 1 .. n : s[k] \in Word
  BY ElementOfSeq
<1>2. SubSeq(s, 1, n) = [k \in 1 .. n |-> s[k]]
  BY ONLY <1>0, <1>1, SubSeqProperties
<1>3. ASSUME n <= Len(t)
      PROVE  SubSeq(t, 1, n) = [k \in 1 .. n |-> t[k]]
  <2>1. \A k \in 1 .. n : k \in 1 .. Len(t)
    BY <1>0, <1>3
  <2>2. \A k \in 1 .. n : t[k] \in Word
    BY <2>1, ElementOfSeq
  <2> QED
    BY ONLY <1>0, <2>2, SubSeqProperties
<1>4. [k \in 1 .. n |-> s[k]] = [k \in 1 .. n |-> t[k]] <=> \A k \in 1 .. n : s[k] = t[k]
  <2> HIDE DEF n
  <2>1. ASSUME [k \in 1 .. n |-> s[k]] = [k \in 1 .. n |-> t[k]], NEW k \in 1 .. n
        PROVE  s[k] = t[k]
    <3>1. [j \in 1 .. n |-> s[j]][k] = s[k] /\ [j \in 1 .. n |-> t[j]][k] = t[k]
      OBVIOUS
    <3> QED
      BY <2>1, <3>1
  <2>2. ASSUME \A k \in 1 .. n : s[k] = t[k]
        PROVE  [k \in 1 .. n |-> s[k]] = [k \in 1 .. n |-> t[k]]
    BY <2>2
  <2> QED
    BY <2>1, <2>2
<1> QED
  BY <1>2, <1>3, <1>4 DEF IsPrefix, Starts

LEMMA StartsEqual ==
  ASSUME NEW s \in Seq(Word), NEW t \in Seq(Word), Starts(s, t), Len(t) <= Len(s)
  PROVE  s = t
<1>1. Len(s) = Len(t) /\ \A k \in 1 .. Len(s) : s[k] = t[k]
  BY DEF Starts
<1> QED
  BY <1>1, SeqEqual

LEMMA StrictIs ==
  ASSUME NEW s \in Seq(Word), NEW t \in Seq(Word)
  PROVE  IsStrictPrefix(s, t) <=> Starts(s, t) /\ Len(s) < Len(t)
<1>1. Len(s) \in Nat /\ Len(t) \in Nat
  OBVIOUS
<1>2. Starts(s, t) /\ s # t => Len(s) < Len(t)
  BY <1>1, StartsEqual DEF Starts
<1> QED
  BY <1>1, <1>2, PrefixIs DEF IsStrictPrefix

LEMMA StartsBoth ==
  ASSUME NEW s \in Seq(Word), NEW t \in Seq(Word), NEW u \in Seq(Word),
         Starts(s, u), Starts(t, u)
  PROVE  Starts(s, t) \/ Starts(t, s)
<1>1. Len(s) \in Nat /\ Len(t) \in Nat
  OBVIOUS
<1>2. CASE Len(s) <= Len(t)
  <2>1. \A k \in 1 .. Len(s) : k \in 1 .. Len(t)
    BY <1>1, <1>2
  <2> QED
    BY <1>2, <2>1 DEF Starts
<1>3. CASE Len(t) <= Len(s)
  <2>1. \A k \in 1 .. Len(t) : k \in 1 .. Len(s)
    BY <1>1, <1>3
  <2> QED
    BY <1>3, <2>1 DEF Starts
<1> QED
  BY <1>1, <1>2, <1>3

(* A path with one more key.                                               *)
Longer(r, s, x) ==
  /\ r \in Seq(Word) /\ Len(s) \in Nat /\ Len(r) = Len(s) + 1 /\ r[Len(s) + 1] = x
  /\ \A k \in 1 .. Len(s) : r[k] = s[k]

LEMMA SeqOne ==
  ASSUME NEW Pool, NEW x \in Pool
  PROVE  <<x>> \in Seq(Pool)
OBVIOUS

LEMMA AppendIs ==
  ASSUME NEW s \in Seq(Word), NEW x \in Word
  PROVE  Longer(Append(s, x), s, x)
<1>1. /\ Append(s, x) \in Seq(Word)
      /\ Append(s, x) # <<>>
      /\ Len(Append(s, x)) = Len(s) + 1
      /\ \A k \in 1 .. Len(s) : Append(s, x)[k] = s[k]
      /\ Append(s, x)[Len(s) + 1] = x
  BY AppendProperties, Zenon
<1>2. Len(s) \in Nat
  OBVIOUS
<1> QED
  BY <1>1, <1>2 DEF Longer

LEMMA EndsAre ==
  ASSUME NEW s \in Seq(Word), NEW x \in Word
  PROVE  Last(Append(s, x)) = x /\ Front(Append(s, x)) = s
<1> DEFINE r == Append(s, x)
<1>1. Longer(r, s, x)
  BY AppendIs
<1> HIDE DEF r
<1>2. Last(r) = x
  BY <1>1 DEF Longer, Last
<1>3. SubSeq(r, 1, Len(s)) = [k \in 1 .. Len(s) |-> r[k]]
  <2> DEFINE n == Len(s)
  <2>0. n \in Nat /\ n \in Int /\ 1 \in Int
    OBVIOUS
  <2>1. \A k \in 1 .. n : k \in 1 .. Len(r)
    BY <1>1, <2>0 DEF Longer
  <2>2. \A k \in 1 .. n : r[k] \in Word
    BY <1>1, <2>1, ElementOfSeq DEF Longer
  <2> HIDE DEF n
  <2>3. SubSeq(r, 1, n) = [k \in 1 .. n |-> r[k]]
    BY ONLY <2>0, <2>2, SubSeqProperties
  <2> QED
    BY <2>3 DEF n
<1>4. s = [k \in 1 .. Len(s) |-> s[k]]
  OBVIOUS
<1>5. Len(r) - 1 = Len(s)
  BY <1>1 DEF Longer
<1>6. Front(r) = s
  BY <1>1, <1>3, <1>4, <1>5 DEF Longer, Front
<1> QED
  BY <1>2, <1>6 DEF r

LEMMA StartsLonger ==
  ASSUME NEW s \in Seq(Word), NEW x \in Word, NEW t \in Seq(Word), NEW r, Longer(r, s, x)
  PROVE  Starts(r, t) <=> Starts(s, t) /\ Len(s) < Len(t) /\ t[Len(s) + 1] = x
<1>1. /\ Len(s) \in Nat /\ Len(t) \in Nat /\ Len(r) = Len(s) + 1 /\ r[Len(s) + 1] = x
      /\ \A k \in 1 .. Len(s) : r[k] = s[k]
  BY DEF Longer
<1>2. \A k \in 1 .. Len(s) + 1 : k \in 1 .. Len(s) \/ k = Len(s) + 1
  BY <1>1
<1>3. Len(s) + 1 \in 1 .. Len(s) + 1 /\ \A k \in 1 .. Len(s) : k \in 1 .. Len(s) + 1
  BY <1>1
<1>4. Len(s) + 1 <= Len(t) <=> Len(s) < Len(t)
  BY <1>1
<1>5. Len(s) < Len(t) => Len(s) <= Len(t)
  BY <1>1
<1>6. (\A k \in 1 .. Len(r) : r[k] = t[k])
        <=> (\A k \in 1 .. Len(s) : s[k] = t[k]) /\ t[Len(s) + 1] = x
  BY <1>1, <1>2, <1>3
<1> QED
  BY <1>1, <1>4, <1>5, <1>6 DEF Starts

(* What a path that ends with a key starts with, ends there or earlier.    *)
LEMMA LongerStarts ==
  ASSUME NEW s \in Seq(Word), NEW x \in Word, NEW r, Longer(r, s, x),
         NEW t \in Seq(Word)
  PROVE  /\ Starts(t, r) /\ Len(t) < Len(r) <=> Starts(t, s)
         /\ t = r => Starts(s, t)
<1>1. /\ Len(s) \in Nat /\ Len(t) \in Nat /\ Len(r) = Len(s) + 1 /\ r[Len(s) + 1] = x
      /\ \A k \in 1 .. Len(s) : r[k] = s[k]
  BY DEF Longer
<1>2. ASSUME Len(t) <= Len(s)
      PROVE  \A k \in 1 .. Len(t) : k \in 1 .. Len(s)
  BY <1>1, <1>2
<1>3. Len(t) < Len(r) <=> Len(t) <= Len(s)
  BY <1>1
<1>4. Len(t) <= Len(s) => Len(t) <= Len(r)
  BY <1>1
<1>5. Starts(t, r) /\ Len(t) < Len(r) <=> Starts(t, s)
  BY <1>1, <1>2, <1>3, <1>4 DEF Starts
<1>6. t = r => Starts(s, t)
  BY <1>1 DEF Starts
<1> QED
  BY <1>5, <1>6

LEMMA LongerEqual ==
  ASSUME NEW s \in Seq(Word), NEW x \in Word, NEW t \in Seq(Word), NEW y \in Word,
         Append(s, x) = Append(t, y)
  PROVE  s = t /\ x = y
<1>1. Last(Append(s, x)) = x /\ Front(Append(s, x)) = s
  BY EndsAre
<1>2. Last(Append(t, y)) = y /\ Front(Append(t, y)) = t
  BY EndsAre
<1> QED
  BY <1>1, <1>2

(* What a path starts with is one of its prefixes, and those are paths.    *)
LEMMA PrefixesAre ==
  ASSUME NEW p \in Seq(Word)
  PROVE  /\ \A n \in Prefixes(p) : n \in Seq(Word)
         /\ \A n \in Seq(Word) : Starts(n, p) => n \in Prefixes(p)
<1>0. Len(p) \in Nat /\ \A k \in 1 .. Len(p) : p[k] \in Word
  BY ElementOfSeq
<1>1. ASSUME NEW l \in 0 .. Len(p)
      PROVE  SubSeq(p, 1, l) = [k \in 1 .. l |-> p[k]] /\ SubSeq(p, 1, l) \in Seq(Word)
  <2>1. l \in Nat /\ 1 \in Int /\ l \in Int /\ \A k \in 1 .. l : k \in 1 .. Len(p)
    BY <1>0
  <2>2. \A k \in 1 .. l : p[k] \in Word
    BY <1>0, <2>1
  <2>3. SubSeq(p, 1, l) = [k \in 1 .. l |-> p[k]]
    BY ONLY <2>1, <2>2, SubSeqProperties
  <2>4. [k \in 1 .. l |-> p[k]] \in [1 .. l -> Word]
    BY <2>2
  <2>5. [k \in 1 .. l |-> p[k]] \in Seq(Word)
    BY <2>1, <2>4, SeqDef
  <2> QED
    BY <2>3, <2>5
<1>2. \A n \in Prefixes(p) : n \in Seq(Word)
  BY <1>1 DEF Prefixes
<1>3. ASSUME NEW n \in Seq(Word), Starts(n, p)
      PROVE  n \in Prefixes(p)
  <2>1. Len(n) \in 0 .. Len(p) /\ \A k \in 1 .. Len(n) : n[k] = p[k]
    BY <1>0, <1>3 DEF Starts
  <2>2. n = [k \in 1 .. Len(n) |-> n[k]]
    OBVIOUS
  <2>3. n = [k \in 1 .. Len(n) |-> p[k]]
    BY <2>1, <2>2
  <2>4. n = SubSeq(p, 1, Len(n))
    BY <1>1, <2>1, <2>3
  <2> QED
    BY <2>1, <2>4 DEF Prefixes
<1> QED
  BY <1>2, <1>3

(* The fields of a document, each at a path of its own.                    *)
Path(i) == task.fields[i].path

Slot(i) == Under(i, "confidence")

Apart ==
  /\ Len(task.fields) \in Nat /\ DOMAIN task.fields = 1 .. Len(task.fields)
  /\ \A i \in DOMAIN task.fields : Path(i) \in Seq(Word)
  /\ \A i, j \in DOMAIN task.fields : Starts(Path(i), Path(j)) => i = j

LEMMA FieldsApart ==
  ASSUME task \in Tasks
  PROVE  Apart
<1> DEFINE R == [path : Seq(STRING), value : STRING]
<1>1. task.fields \in Extractions
  BY DEF Tasks
<1>2. task.fields \in Seq(R)
  BY <1>1, ScoresAssumption DEF Extraction
<1>3. Len(task.fields) \in Nat /\ DOMAIN task.fields = 1 .. Len(task.fields)
  BY <1>2
<1>4. \A i \in DOMAIN task.fields : task.fields[i] \in R
  BY <1>2, <1>3, ElementOfSeq
<1>5. \A i \in DOMAIN task.fields : Path(i) \in Seq(Word)
  BY <1>4, PathsOfWords DEF Path
<1>6. ASSUME NEW i \in DOMAIN task.fields, NEW j \in DOMAIN task.fields, Starts(Path(i), Path(j))
      PROVE  i = j
  <2>1. IsPrefix(Path(i), Path(j))
    BY <1>5, <1>6, PrefixIs
  <2> QED
    BY <1>1, <2>1, ScoresAssumption DEF Extraction, Path
<1> QED
  BY <1>3, <1>5, <1>6 DEF Apart

LEMMA UnderIs ==
  ASSUME Apart, NEW i \in DOMAIN task.fields, NEW key \in Word
  PROVE  Longer(Under(i, key), Path(i), key)
<1>1. Path(i) \in Seq(Word)
  BY DEF Apart
<1>2. Under(i, key) = Append(Path(i), key)
  BY DEF Under, Path
<1> QED
  BY <1>1, <1>2, AppendIs

-------------------------------------------------------------------------------
(* Scores are between 0 and 1.                                             *)
Score == 0 .. One

LEMMA UnitIs ==
  /\ Unit \in Nat /\ Unit > 0 /\ Thousandth \in Nat /\ Thousandth > 0 /\ One \in Nat
  /\ One = Thousandth * 1000 /\ Thousandth = 10 * Unit
<1>1. Unit \in Nat \ {0}
  BY ScoresAssumption
<1> QED
  BY <1>1 DEF One, Thousandth

LEMMA ScoresAre ==
  /\ Score \subseteq Nat /\ 0 \in Score /\ \A x \in Score : x <= One
  /\ \A x \in Nat : x <= One => x \in Score
BY UnitIs DEF Score

(* Rounding is off by half a unit at most, exact on whole numbers, and does *)
(* not pass a whole number.                                                *)
LEMMA Divided ==
  ASSUME NEW n \in Nat, NEW d \in Nat, d > 0
  PROVE  /\ n \div d \in Nat /\ n % d \in Nat /\ n % d < d
         /\ n = d * (n \div d) + (n % d)
OBVIOUS

LEMMA NearestIs ==
  ASSUME NEW n \in Nat, NEW d \in Nat, d > 0
  PROVE  /\ Nearest(n, d) \in Nat
         /\ 2 * (d * Nearest(n, d)) <= 2 * n + d
         /\ 2 * n <= 2 * (d * Nearest(n, d)) + d
<1> DEFINE w == 2 * n + d
           e == 2 * d
           q == w \div e
           r == w % e
           tie == r = 0 /\ q % 2 = 1
           x == IF tie THEN q - 1 ELSE q
<1>1. w \in Nat /\ e \in Nat /\ e > 0
  OBVIOUS
<1> HIDE DEF w, e
<1>2. q \in Nat /\ r \in Nat /\ r < e /\ w = e * q + r
  BY <1>1, Divided
<1>3. tie => q > 0
  <2>1. q = 0 => q % 2 = 0
    OBVIOUS
  <2> QED
    BY <1>2, <2>1
<1>4. Nearest(n, d) = x
  BY DEF Nearest, w, e
<1> HIDE DEF q, r, tie
<1>5. x \in Nat /\ (tie => r = 0 /\ x = q - 1) /\ (~tie => x = q)
  BY <1>2, <1>3 DEF tie
<1> HIDE DEF x
<1>6. \A y \in Nat : e * y = 2 * (d * y)
  BY DEF e
<1>7. e * (q - 1) = e * q - e
  BY <1>1, <1>2
<1>8. d * x \in Nat /\ e * q \in Nat /\ e * x = 2 * (d * x)
  BY <1>1, <1>2, <1>5, <1>6
<1>9. CASE tie
  <2>1. e * x = e * q - e /\ w = e * q
    BY <1>1, <1>2, <1>5, <1>7, <1>8, <1>9
  <2>2. 2 * (d * x) + e = 2 * n + d /\ e = 2 * d
    BY <1>1, <1>8, <2>1 DEF w, e
  <2> DEFINE z == d * x
  <2>3. 2 * z <= 2 * n + d /\ 2 * n <= 2 * z + d /\ z = d * x
    <3> HIDE DEF z
    <3>1. 2 * z + 2 * d = 2 * n + d /\ z \in Nat
      BY <1>8, <2>2 DEF z
    <3> QED
      BY <3>1 DEF z
  <2> QED
    BY <1>4, <1>5, <2>3
<1>10. CASE ~tie
  <2>1. e * x = e * q
    BY <1>5, <1>10
  <2> DEFINE z == d * x
  <2>2. 2 * n + d = 2 * z + r /\ r < 2 * d /\ z \in Nat /\ r \in Nat
    BY <1>2, <1>8, <2>1 DEF w, e
  <2> HIDE DEF z
  <2>3. 2 * z <= 2 * n + d /\ 2 * n <= 2 * z + d
    BY <2>2
  <2> QED
    BY <1>4, <1>5, <2>3 DEF z
<1> QED
  BY <1>9, <1>10

LEMMA NearestAtMost ==
  ASSUME NEW n \in Nat, NEW d \in Nat, d > 0, NEW hi \in Nat, n <= d * hi
  PROVE  Nearest(n, d) <= hi
<1> DEFINE q == Nearest(n, d)
<1>1. q \in Nat /\ 2 * (d * q) <= 2 * n + d
  BY NearestIs
<1> HIDE DEF q
<1>2. ASSUME hi < q
      PROVE  FALSE
  <2>1. d * (hi + 1) <= d * q
    BY <1>1, <1>2
  <2>2. d * (hi + 1) = d * hi + d /\ d * hi \in Nat /\ d * q \in Nat
    BY <1>1
  <2> DEFINE a == d * hi
             b == d * q
  <2>3. n <= a /\ a + d <= b /\ 2 * b <= 2 * n + d /\ a \in Nat /\ b \in Nat
    BY <1>1, <2>1, <2>2
  <2> HIDE DEF a, b
  <2> QED
    BY <2>3
<1> QED
  BY <1>1, <1>2 DEF q

LEMMA NearestExact ==
  ASSUME NEW k \in Nat, NEW d \in Nat, d > 0
  PROVE  Nearest(d * k, d) = k
<1> DEFINE n == d * k
           q == Nearest(n, d)
<1>1. n \in Nat
  OBVIOUS
<1>2. q <= k
  <2> HIDE DEF n
  <2>1. n <= d * k
    BY <1>1 DEF n
  <2> QED
    BY <1>1, <2>1, NearestAtMost
<1> HIDE DEF n
<1>3. q \in Nat /\ 2 * n <= 2 * (d * q) + d
  BY <1>1, NearestIs
<1> HIDE DEF q
<1>4. ASSUME q < k
      PROVE  FALSE
  <2>1. d * (q + 1) <= d * k
    BY <1>3, <1>4
  <2>2. d * (q + 1) = d * q + d /\ d * q \in Nat
    BY <1>3
  <2> DEFINE a == d * q
  <2>3. 2 * n <= 2 * a + d /\ a + d <= n /\ a \in Nat
    BY <1>3, <2>1, <2>2 DEF n
  <2> HIDE DEF a
  <2> QED
    BY <1>1, <2>3
<1> QED
  BY <1>2, <1>3, <1>4 DEF n, q

LEMMA RoundedIs ==
  ASSUME NEW x \in Score
  PROVE  /\ Rounded(x) \in Score /\ Near(Rounded(x), x)
         /\ \E k \in Nat : Rounded(x) = Thousandth * k
         /\ x = 0 => Rounded(x) = 0
<1> DEFINE t == Thousandth
           q == Nearest(x, t)
<1>1. t \in Nat /\ t > 0 /\ One = t * 1000 /\ x \in Nat /\ x <= One
  BY UnitIs, ScoresAre
<1> HIDE DEF t
<1>2. q \in Nat /\ 2 * (t * q) <= 2 * x + t /\ 2 * x <= 2 * (t * q) + t
  BY <1>1, NearestIs
<1>3. q <= 1000
  BY <1>1, NearestAtMost
<1>4. x = 0 => q = 0
  <2>1. x = 0 => x <= t * 0
    BY <1>1
  <2>2. x = 0 => q <= 0
    BY <1>1, <2>1, NearestAtMost
  <2> QED
    BY <1>2, <2>2
<1> HIDE DEF q
<1>5. t * q \in Nat /\ t * q <= t * 1000
  BY <1>1, <1>2, <1>3
<1>6. t * q \in Score
  BY <1>1, <1>5, ScoresAre
<1>7. Rounded(x) = t * q
  BY DEF Rounded, t, q
<1>8. x = 0 => t * q = 0
  BY <1>1, <1>4
<1> QED
  BY <1>2, <1>6, <1>7, <1>8 DEF Near, t

(* A percentage is near its score, and exact if that is rounded.           *)
LEMMA PercentageIs ==
  ASSUME NEW x \in Score
  PROVE  /\ Near(Percentage(x), x)
         /\ (\E k \in Nat : x = Thousandth * k) => Percentage(x) = x
<1>1. Unit \in Nat /\ Unit > 0 /\ Thousandth = 10 * Unit /\ x \in Nat
  BY UnitIs, ScoresAre
<1> DEFINE z == Unit * Nearest(x, Unit)
<1>2. z \in Nat /\ 2 * z <= 2 * x + Unit /\ 2 * x <= 2 * z + Unit
  BY <1>1, NearestIs
<1>3. Percentage(x) = z
  BY DEF Percentage
<1> HIDE DEF z
<1>4. Near(z, x)
  BY <1>1, <1>2 DEF Near
<1>5. ASSUME NEW k \in Nat, x = Thousandth * k
      PROVE  z = x
  <2>1. x = Unit * (10 * k) /\ 10 * k \in Nat
    BY <1>1, <1>5
  <2>2. Nearest(x, Unit) = 10 * k
    BY <1>1, <2>1, NearestExact
  <2> QED
    BY <2>1, <2>2 DEF z
<1> QED
  BY <1>3, <1>4, <1>5

LEMMA MinIs ==
  ASSUME NEW Pool, Pool \subseteq Nat, Pool # {}
  PROVE  Min(Pool) \in Pool /\ \A k \in Pool : Min(Pool) <= k
<1>1. \E m \in Pool : \A k \in Pool : m <= k
  BY LeastExists
<1>2. Min(Pool) = CHOOSE m \in Pool : \A k \in Pool : m <= k
  BY DEF Min
<1> QED
  BY <1>1, <1>2

LEMMA ScansAre ==
  ASSUME NEW scan \in Scans, NEW l \in DOMAIN scan
  PROVE  scan[l].words \subseteq Score
<1>1. \A lines \in Scans : \A i \in DOMAIN lines : lines[i].words \subseteq 0 .. One
  BY ScoresAssumption, ZenonT(60)
<1>2. scan[l].words \subseteq 0 .. One
  BY <1>1
<1> QED
  BY <1>2 DEF Score

LEMMA OcrScoreIs ==
  ASSUME task \in Tasks, ~ScanRaises(task.fields, task.lines), NEW i \in DOMAIN task.fields
  PROVE  OcrScore(task.fields[i].value, task.lines) \in Score
<1> DEFINE scan == task.lines
           found == Matching(task.fields[i].value, scan)
<1>1. task.lines \in Scans
  BY DEF Tasks
<1> HIDE DEF scan
<1>0. scan \in Scans
  BY <1>1 DEF scan
<1>2. \A l \in DOMAIN scan : scan[l].words \subseteq Score
  BY <1>0, ScansAre
<1>3. CASE found = {}
  BY <1>3, ScoresAre DEF OcrScore, scan
<1>4. CASE found # {}
  <2>1. found \subseteq DOMAIN scan /\ task.fields[i].value \notin Falsy
    BY <1>4 DEF Matching, Exact, Containing
  <2>2. \A l \in DOMAIN scan : scan[l].words # {}
    BY <2>1 DEF ScanRaises, scan
  <2>3. ASSUME NEW l \in DOMAIN scan
        PROVE  LineScore(scan[l]) \in Score
    <3>0. Score \subseteq Nat
      BY ScoresAre
    <3>1. scan[l].words \subseteq Nat
      BY <1>2, <3>0
    <3>2. Min(scan[l].words) \in scan[l].words
      BY <2>2, <3>1, MinIs
    <3> QED
      BY <1>2, <3>2 DEF LineScore
  <2> DEFINE all == {LineScore(scan[l]) : l \in found}
  <2>4. all \subseteq Score /\ all # {}
    BY <1>4, <2>1, <2>3
  <2>5. all \subseteq Nat
    BY <2>4, ScoresAre
  <2> HIDE DEF all
  <2>6. Min(all) \in Score
    BY <2>4, <2>5, MinIs
  <2> QED
    BY <1>4, <2>6 DEF OcrScore, all, scan
<1> QED
  BY <1>3, <1>4

LEMMA ModelScoreIs ==
  ASSUME task \in Tasks, task.text # NoLogprobs, NEW i \in DOMAIN task.fields
  PROVE  i \in DOMAIN ModelScores /\ ModelScores[i] \in Score
<1> DEFINE R == [text : STRING \ {"null"}, score : Score]
<1>1. task.text \in Seq(R)
  <2>1. task.text \in Texts
    BY DEF Tasks
  <2> QED
    BY <2>1, ScoresAssumption DEF Score
<1>2. \A j \in DOMAIN task.text : task.text[j].score \in Score
  <2>1. \A j \in DOMAIN task.text : task.text[j] \in R
    <3> HIDE DEF R
    <3>1. DOMAIN task.text = 1 .. Len(task.text)
      BY <1>1
    <3> QED
      BY <1>1, <3>1, ElementOfSeq
  <2> QED
    BY <2>1
<1>3. DOMAIN task.text \subseteq Nat
  BY <1>1
<1>4. ASSUME NEW value, NEW from
      PROVE  Occurrence(value, from) \in {0} \union DOMAIN task.text
  <2> DEFINE later == {j \in DOMAIN task.text : j >= from /\ task.text[j].text = value}
  <2>1. later \subseteq DOMAIN task.text
    OBVIOUS
  <2> HIDE DEF later
  <2>2. later # {} => Min(later) \in later
    BY <1>3, <2>1, MinIs
  <2>3. Occurrence(value, from) = IF later = {} THEN 0 ELSE Min(later)
    BY DEF Occurrence, later
  <2> QED
    BY <2>1, <2>2, <2>3
<1> DEFINE from == CHOOSE from :
                      from = [k \in 0 .. Len(task.fields) |->
                                IF k = 0 THEN 1
                                ELSE LET j == Occurrence(task.fields[k].value, from[k - 1]) IN
                                     IF j = 0 THEN from[k - 1] ELSE j + 1]
<1>6. ModelScores = [k \in DOMAIN task.fields |->
        LET j == Occurrence(task.fields[k].value, from[k - 1]) IN
        IF j = 0 THEN 0 ELSE task.text[j].score]
  BY Zenon DEF ModelScores
<1> HIDE DEF from
<1> DEFINE j == Occurrence(task.fields[i].value, from[i - 1])
<1>7. i \in DOMAIN ModelScores /\ ModelScores[i] = IF j = 0 THEN 0 ELSE task.text[j].score
  BY <1>6
<1>8. j \in {0} \union DOMAIN task.text
  BY <1>4
<1> HIDE DEF j
<1>9. CASE j = 0
  BY <1>7, <1>9, ScoresAre
<1>10. CASE j \in DOMAIN task.text /\ j # 0
  BY <1>2, <1>7, <1>10
<1> QED
  BY <1>8, <1>9, <1>10

-------------------------------------------------------------------------------
(* The trees of the evaluators: one with the scores of all fields, under   *)
(* some keys, and one without any.                                         *)
Overall == <<"_overall">>

Full(t, keys, scores) ==
  /\ keys \subseteq Word /\ "confidence" \in keys
  /\ DOMAIN t = {Under(i, key) : i \in DOMAIN task.fields, key \in keys} \union {Overall}
  /\ \A p \in DOMAIN t : t[p] \in Score
  /\ \A i \in DOMAIN task.fields : t[Slot(i)] = scores[i]

LEMMA OverallIs == Overall \in Seq(Word) /\ Len(Overall) = 1 /\ Overall[1] = "_overall"
<1>1. Len(Overall) = 1
  BY DEF Overall
<1>2. Overall[1] = "_overall"
  BY DEF Overall
<1>3. "_overall" \in Word
  BY WordsAre
<1>4. Overall \in Seq(Word)
  BY <1>3, SeqOne DEF Overall
<1> QED
  BY <1>1, <1>2, <1>4

(* Different fields have different entries.                                *)
LEMMA UnderApart ==
  ASSUME Apart, NEW i \in DOMAIN task.fields, NEW j \in DOMAIN task.fields,
         NEW x \in Word, NEW y \in Word, Under(i, x) = Under(j, y)
  PROVE  i = j /\ x = y
<1>1. Path(i) \in Seq(Word) /\ Path(j) \in Seq(Word)
  BY DEF Apart
<1>2. Append(Path(i), x) = Append(Path(j), y)
  BY DEF Under, Path
<1>3. Path(i) = Path(j) /\ x = y
  BY <1>1, <1>2, LongerEqual
<1>4. Starts(Path(i), Path(j))
  BY <1>1, <1>3 DEF Starts
<1> QED
  BY <1>3, <1>4 DEF Apart

LEMMA TreeFull ==
  ASSUME Apart, NEW scores, \A i \in DOMAIN task.fields : scores[i] \in Score,
         NEW keys, keys \subseteq Word, "confidence" \in keys
  PROVE  Full(Tree(scores, keys), keys, scores)
<1> DEFINE ours      == {Under(i, key) : i \in DOMAIN task.fields, key \in keys}
           Scored(p) == {i \in DOMAIN task.fields : p = Under(i, "confidence")}
           t         == Tree(scores, keys)
<1>1. t = [p \in ours \union {Overall} |->
             IF Scored(p) = {} THEN 0 ELSE scores[CHOOSE i \in Scored(p) : TRUE]]
  BY DEF Tree, Overall
<1> HIDE DEF t, ours
<1>2. DOMAIN t = ours \union {Overall}
  BY <1>1
<1>3. ASSUME NEW p \in DOMAIN t
      PROVE  t[p] \in Score /\ \A i \in Scored(p) : t[p] = scores[i]
  <2>1. t[p] = IF Scored(p) = {} THEN 0 ELSE scores[CHOOSE i \in Scored(p) : TRUE]
    BY <1>1, <1>2
  <2>2. CASE Scored(p) = {}
    BY <2>1, <2>2, ScoresAre
  <2>3. CASE Scored(p) # {}
    <3>1. PICK k \in Scored(p) : t[p] = scores[k]
      BY <2>1, <2>3
    <3>2. \A i \in Scored(p) : i = k
      BY <3>1, UnderApart
    <3> QED
      BY <3>1, <3>2
  <2> QED
    BY <2>2, <2>3
<1>4. ASSUME NEW i \in DOMAIN task.fields
      PROVE  t[Slot(i)] = scores[i]
  <2>1. Slot(i) \in DOMAIN t /\ i \in Scored(Slot(i))
    BY <1>2 DEF ours, Slot
  <2> QED
    BY <1>3, <2>1
<1> QED
  BY <1>2, <1>3, <1>4 DEF Full, ours, t

(* Two trees of one document, the second without a field or with all.      *)
Trees(a, b, sa, sb) ==
  /\ Apart
  /\ \E keys : Full(a, keys, sa)
  /\ (\E keys : Full(b, keys, sb)) \/ (DOMAIN b = {Overall} /\ sb = sa)

Fields == DOMAIN task.fields

EntriesOf(t, scores) ==
  /\ \A p \in DOMAIN t : p = Overall \/ \E i \in Fields, x \in Word : p = Under(i, x)
  /\ \A p \in DOMAIN t \ {Overall} : t[p] \in Score
  /\ \A i \in Fields : Slot(i) \in DOMAIN t => t[Slot(i)] = scores[i]

LEMMA FullEntries ==
  ASSUME NEW t, NEW keys, NEW scores, Full(t, keys, scores)
  PROVE  EntriesOf(t, scores) /\ \A i \in Fields : Slot(i) \in DOMAIN t
BY DEF EntriesOf, Full, Fields, Slot

LEMMA SlotsInside ==
  ASSUME Apart, NEW i \in Fields
  PROVE  Slot(i) # Overall /\ Longer(Slot(i), Path(i), "confidence")
<1>1. "confidence" \in Word /\ i \in DOMAIN task.fields
  BY WordsAre DEF Fields
<1>2. Longer(Under(i, "confidence"), Path(i), "confidence")
  BY <1>1, UnderIs
<1>3. Longer(Slot(i), Path(i), "confidence")
  BY <1>2 DEF Slot
<1> QED
  BY <1>3, OverallIs DEF Longer

LEMMA TreesEntries ==
  ASSUME NEW a, NEW b, NEW sa, NEW sb, Trees(a, b, sa, sb)
  PROVE  /\ EntriesOf(a, sa) /\ EntriesOf(b, sb)
         /\ \A i \in Fields : Slot(i) \in DOMAIN a
<1>1. PICK keys : Full(a, keys, sa)
  BY DEF Trees
<1>2. CASE \E ks : Full(b, ks, sb)
  BY <1>1, <1>2, FullEntries
<1>3. CASE DOMAIN b = {Overall}
  <2>1. Apart
    BY DEF Trees
  <2>2. EntriesOf(b, sb)
    BY <1>3, <2>1, SlotsInside DEF EntriesOf
  <2> QED
    BY <1>1, <2>2, FullEntries
<1> QED
  BY <1>2, <1>3 DEF Trees

-------------------------------------------------------------------------------
(* The leaves at which two trees are merged: each is a field or an object  *)
(* with a field named "confidence", and none lies below another.           *)
Leaves(a, b) == Topmost(JointLeaves(a, b))

LeafAt(n, i) == Starts(n, Path(i)) /\ (n = Path(i) \/ Path(i)[Len(n) + 1] = "confidence")

LEMMA EntryPaths ==
  ASSUME Apart, NEW t, NEW scores, EntriesOf(t, scores), NEW p \in DOMAIN t
  PROVE  p \in Seq(Word)
<1>1. CASE p = Overall
  BY <1>1, OverallIs
<1>2. ASSUME NEW i \in Fields, NEW x \in Word, p = Under(i, x)
      PROVE  p \in Seq(Word)
  BY <1>2, UnderIs DEF Fields, Longer
<1> QED
  BY <1>1, <1>2 DEF EntriesOf

LEMMA KeysAre ==
  ASSUME Apart, NEW t, NEW scores, EntriesOf(t, scores), NEW n \in Seq(Word)
  PROVE  /\ "confidence" \in Keys(t, n) => \E i \in Fields : LeafAt(n, i)
         /\ \A i \in Fields : Slot(i) \in DOMAIN t /\ Starts(n, Path(i)) /\ n # Path(i) =>
              Path(i)[Len(n) + 1] \in Keys(t, n)
<1>0. Len(n) \in Nat
  OBVIOUS
<1>1. ASSUME NEW p \in DOMAIN t, IsStrictPrefix(n, p), p[Len(n) + 1] = "confidence"
      PROVE  \E i \in Fields : LeafAt(n, i)
  <2>1. p \in Seq(Word)
    BY EntryPaths
  <2>2. Starts(n, p) /\ Len(n) < Len(p)
    BY <1>1, <2>1, StrictIs
  <2>3. p # Overall
    BY <1>0, <1>1, <2>2, OverallIs
  <2>4. PICK i \in Fields, x \in Word : p = Under(i, x)
    BY <2>3 DEF EntriesOf
  <2>5. Longer(p, Path(i), x)
    BY <2>4, UnderIs DEF Fields
  <2>6. Path(i) \in Seq(Word)
    BY DEF Apart, Fields
  <2>7. Starts(n, Path(i))
    BY <2>2, <2>5, <2>6, LongerStarts
  <2>8. CASE Len(n) = Len(Path(i))
    BY <2>6, <2>7, <2>8, StartsEqual DEF LeafAt
  <2>9. CASE Len(n) < Len(Path(i))
    <3>1. Len(n) + 1 \in 1 .. Len(Path(i))
      BY <1>0, <2>6, <2>9
    <3>2. Path(i)[Len(n) + 1] = "confidence"
      BY <1>1, <2>5, <3>1 DEF Longer
    <3> QED
      BY <2>7, <3>2 DEF LeafAt
  <2> QED
    BY <1>0, <2>6, <2>7, <2>8, <2>9 DEF Starts
<1>2. ASSUME NEW i \in Fields, Slot(i) \in DOMAIN t, Starts(n, Path(i)), n # Path(i)
      PROVE  Path(i)[Len(n) + 1] \in Keys(t, n)
  <2>1. Path(i) \in Seq(Word) /\ Longer(Slot(i), Path(i), "confidence")
    BY SlotsInside DEF Apart, Fields
  <2>2. Slot(i) \in Seq(Word)
    BY <2>1 DEF Longer
  <2>0. "confidence" \in Word
    BY WordsAre
  <2>3. Starts(n, Slot(i)) /\ Len(n) < Len(Slot(i))
    BY <1>2, <2>0, <2>1, LongerStarts
  <2>4. IsStrictPrefix(n, Slot(i))
    BY <2>2, <2>3, StrictIs
  <2>5. Len(n) < Len(Path(i))
    BY <1>0, <1>2, <2>1, StartsEqual DEF Starts
  <2>6. Len(n) + 1 \in 1 .. Len(Path(i))
    BY <1>0, <2>1, <2>5
  <2>7. Slot(i)[Len(n) + 1] = Path(i)[Len(n) + 1]
    BY <2>1, <2>6 DEF Longer
  <2> QED
    BY <1>2, <2>4, <2>7 DEF Keys
<1> QED
  BY <1>1, <1>2 DEF Keys

LEMMA LeavesAre ==
  ASSUME NEW a, NEW b, NEW sa, NEW sb, Trees(a, b, sa, sb), NEW n \in Leaves(a, b)
  PROVE  /\ n \in Seq(Word) /\ \E i \in Fields : LeafAt(n, i)
         /\ \A i \in Fields : Starts(n, Path(i)) /\ n # Path(i) =>
              Path(i)[Len(n) + 1] \in {"confidence", "value"}
<1>0. Apart /\ EntriesOf(a, sa) /\ \A i \in Fields : Slot(i) \in DOMAIN a
  BY TreesEntries DEF Trees
<1>1. /\ n \in UNION {Prefixes(p) : p \in DOMAIN a} /\ "confidence" \in Keys(a, n)
      /\ Leaf(a, n)
  BY DEF Leaves, Topmost, JointLeaves
<1>2. PICK p \in DOMAIN a : n \in Prefixes(p)
  BY <1>1
<1>3. p \in Seq(Word)
  BY <1>0, EntryPaths
<1>4. n \in Seq(Word)
  BY <1>2, <1>3, PrefixesAre
<1>5. \E i \in Fields : LeafAt(n, i)
  BY <1>0, <1>1, <1>4, KeysAre
<1>6. ASSUME NEW i \in Fields, Starts(n, Path(i)), n # Path(i)
      PROVE  Path(i)[Len(n) + 1] \in {"confidence", "value"}
  <2>1. Path(i)[Len(n) + 1] \in Keys(a, n)
    BY <1>0, <1>4, <1>6, KeysAre
  <2> QED
    BY <1>1, <2>1 DEF Leaf
<1> QED
  BY <1>4, <1>5, <1>6

LEMMA LeavesTopmost ==
  ASSUME NEW a, NEW b, NEW sa, NEW sb, Trees(a, b, sa, sb),
         NEW m \in Leaves(a, b), NEW n \in Leaves(a, b), Starts(m, n)
  PROVE  m = n
<1>1. m \in Seq(Word) /\ n \in Seq(Word)
  BY LeavesAre
<1>2. IsPrefix(m, n)
  BY <1>1, PrefixIs
<1>3. m \in JointLeaves(a, b) /\ ~IsStrictPrefix(m, n)
  BY DEF Leaves, Topmost
<1> QED
  BY <1>2, <1>3 DEF IsStrictPrefix

(* The entries of the merged tree: the scores of the leaves, and what is   *)
(* kept of the two.                                                        *)
Joined(a, b) == {Append(n, "confidence") : n \in Leaves(a, b)}

Kept(a, b) ==
  {p \in DOMAIN a \union DOMAIN b :
     /\ ~Skipped(p, a, b)
     /\ \A n \in Leaves(a, b) : IsStrictPrefix(n, p) =>
          p \in DOMAIN a /\ IsPrefix(Append(n, "value"), p)}

LEMMA MergedIs ==
  ASSUME NEW a, NEW b
  PROVE  /\ DOMAIN Merged(a, b) = Kept(a, b) \union Joined(a, b)
         /\ \A p \in Joined(a, b) :
              Merged(a, b)[p] = LET valid == Valid(Front(p), a, b)
                                IN  Rounded(IF valid = {} THEN 0 ELSE Min(valid))
         /\ \A p \in Kept(a, b) \ Joined(a, b) :
              Merged(a, b)[p] = IF p \in DOMAIN a THEN a[p] ELSE b[p]
<1> DEFINE Value(p) == IF p \in Joined(a, b)
                         THEN LET valid == Valid(Front(p), a, b)
                              IN  Rounded(IF valid = {} THEN 0 ELSE Min(valid))
                       ELSE IF p \in DOMAIN a THEN a[p] ELSE b[p]
<1>1. Merged(a, b) = [p \in Kept(a, b) \union Joined(a, b) |-> Value(p)]
  BY DEF Merged, Kept, Joined, Leaves
<1>2. DOMAIN Merged(a, b) = Kept(a, b) \union Joined(a, b)
  BY <1>1
<1>3. \A p \in Kept(a, b) \union Joined(a, b) : Merged(a, b)[p] = Value(p)
  BY <1>1
<1> QED
  BY <1>2, <1>3

(* What an evaluator adds to the fields is not kept.                       *)
LEMMA OverallSkipped ==
  ASSUME NEW a, NEW b, Overall \in DOMAIN a, Overall \in DOMAIN b
  PROVE  Overall \notin Kept(a, b)
<1>1. Overall[1] \in Private /\ 1 \in DOMAIN Overall
  BY OverallIs, ScoresAssumption
<1>2. SubSeq(Overall, 1, 1 - 1) = <<>>
  BY DEF Overall
<1>3. <<>> \in Seq(Word) /\ Starts(<<>>, Overall) /\ Len(<<>>) < Len(Overall)
  BY OverallIs DEF Starts
<1>4. IsStrictPrefix(SubSeq(Overall, 1, 1 - 1), Overall)
  BY <1>2, <1>3, OverallIs, StrictIs
<1>5. Skipped(Overall, a, b)
  BY <1>1, <1>4 DEF Skipped
<1> QED
  BY <1>5 DEF Kept

LEMMA KeptEntries ==
  ASSUME NEW a, NEW b, NEW sa, NEW sb, Trees(a, b, sa, sb), NEW p \in Kept(a, b)
  PROVE  p # Overall /\ p \in DOMAIN a \union DOMAIN b
<1>0. ASSUME NEW t, NEW keys, NEW scores, Full(t, keys, scores)
      PROVE  Overall \in DOMAIN t
  <2> DEFINE ours == {Under(i, key) : i \in DOMAIN task.fields, key \in keys}
  <2>1. DOMAIN t = ours \union {Overall}
    BY <1>0 DEF Full
  <2> HIDE DEF ours
  <2> QED
    BY <2>1
<1>1. Overall \in DOMAIN a /\ Overall \in DOMAIN b
  BY <1>0 DEF Trees
<1> QED
  BY <1>1, OverallSkipped DEF Kept

LEMMA KeptIs ==
  ASSUME NEW a, NEW b, NEW sa, NEW sb, Trees(a, b, sa, sb), NEW p \in DOMAIN a \union DOMAIN b
  PROVE  p \in Kept(a, b) <=>
           /\ ~Skipped(p, a, b)
           /\ \A n \in Leaves(a, b) : Starts(n, p) /\ Len(n) < Len(p) =>
                p \in DOMAIN a /\ Starts(Append(n, "value"), p)
<1>1. Apart /\ EntriesOf(a, sa) /\ EntriesOf(b, sb)
  BY TreesEntries DEF Trees
<1>2. p \in Seq(Word)
  BY <1>1, EntryPaths
<1>3. ASSUME NEW n \in Leaves(a, b)
      PROVE  /\ IsStrictPrefix(n, p) <=> Starts(n, p) /\ Len(n) < Len(p)
             /\ IsPrefix(Append(n, "value"), p) <=> Starts(Append(n, "value"), p)
  <2>1. n \in Seq(Word)
    BY LeavesAre
  <2>2. Append(n, "value") \in Seq(Word)
    BY <2>1, WordsAre, AppendIs DEF Longer
  <2> QED
    BY <1>2, <2>1, <2>2, StrictIs, PrefixIs
<1> QED
  BY <1>3 DEF Kept

LEMMA JoinedIs ==
  ASSUME NEW a, NEW b, NEW sa, NEW sb, Trees(a, b, sa, sb), NEW n \in Leaves(a, b)
  PROVE  /\ Longer(Append(n, "confidence"), n, "confidence")
         /\ Longer(Append(n, "value"), n, "value")
         /\ Front(Append(n, "confidence")) = n
<1>1. n \in Seq(Word)
  BY LeavesAre
<1> QED
  BY <1>1, WordsAre, AppendIs, EndsAre

(* A leaf's score is that of an evaluator, or nought.                      *)
LEMMA ValidIs ==
  ASSUME NEW a, NEW b, NEW sa, NEW sb, Trees(a, b, sa, sb), NEW n \in Leaves(a, b)
  PROVE  LET valid == Valid(n, a, b)
             score == IF valid = {} THEN 0 ELSE Min(valid)
             p == Append(n, "confidence")
         IN  /\ score \in Score
             /\ p \in DOMAIN a => score = a[p] \/ (p \in DOMAIN b /\ score = b[p])
<1> DEFINE p == Append(n, "confidence")
           valid == Valid(n, a, b)
           score == IF valid = {} THEN 0 ELSE Min(valid)
<1>1. EntriesOf(a, sa) /\ EntriesOf(b, sb)
  BY TreesEntries
<1>2. p # Overall
  <2>1. Longer(p, n, "confidence")
    BY JoinedIs
  <2> QED
    BY <2>1, OverallIs DEF Longer
<1>3. valid = {t[p] : t \in {u \in {a, b} : p \in DOMAIN u}} \ {0}
  BY DEF Valid
<1> HIDE DEF p, valid
<1>4. \A v \in valid : (p \in DOMAIN a /\ v = a[p]) \/ (p \in DOMAIN b /\ v = b[p])
  BY <1>3
<1>5. /\ p \in DOMAIN a => a[p] \in Score
      /\ p \in DOMAIN b => b[p] \in Score
  BY <1>1, <1>2 DEF EntriesOf
<1>6. valid \subseteq Score
  BY <1>4, <1>5
<1>7. Score \subseteq Nat /\ 0 \in Score
  BY ScoresAre
<1> SUFFICES score \in Score /\ (p \in DOMAIN a => score = a[p] \/ (p \in DOMAIN b /\ score = b[p]))
  BY Zenon DEF p, valid
<1>8. CASE valid = {}
  <2>1. p \in DOMAIN a => a[p] = 0
    BY <1>3, <1>8
  <2> QED
    BY <1>7, <1>8, <2>1
<1>9. CASE valid # {}
  <2>1. valid \subseteq Nat
    BY <1>6, <1>7
  <2>2. Min(valid) \in valid
    BY <1>9, <2>1, MinIs
  <2> QED
    BY <1>4, <1>6, <1>9, <2>2
<1> QED
  BY <1>8, <1>9

-------------------------------------------------------------------------------
(* The scores of the merged tree, and the field that each stands for: its  *)
(* own, or one within an object that has a field named "confidence".       *)
Shown(a, b) == ScorePaths(Merged(a, b))

Rep(p, i) == p = Slot(i) \/ Starts(p, Path(i))

LEMMA ShownIs ==
  ASSUME NEW a, NEW b, NEW sa, NEW sb, Trees(a, b, sa, sb)
  PROVE  /\ Joined(a, b) \subseteq Shown(a, b)
         /\ \A i \in Fields : Slot(i) \in DOMAIN Merged(a, b) => Slot(i) \in Shown(a, b)
         /\ \A p \in Shown(a, b) \ Joined(a, b) : p \in Kept(a, b) /\ \E i \in Fields : p = Slot(i)
<1>0. Apart /\ EntriesOf(a, sa) /\ EntriesOf(b, sb)
  BY TreesEntries DEF Trees
<1>1. \A p : p \in Shown(a, b) <=> (p \in Kept(a, b) \/ p \in Joined(a, b)) /\ Last(p) = "confidence"
  BY MergedIs DEF Shown, ScorePaths
<1>2. ASSUME NEW n \in Leaves(a, b)
      PROVE  Last(Append(n, "confidence")) = "confidence"
  <2>1. n \in Seq(Word)
    BY LeavesAre
  <2> QED
    BY <2>1, WordsAre, EndsAre
<1>3. Joined(a, b) \subseteq Shown(a, b)
  BY <1>1, <1>2 DEF Joined
<1>4. ASSUME NEW i \in Fields, Slot(i) \in DOMAIN Merged(a, b)
      PROVE  Slot(i) \in Shown(a, b)
  <2>1. Path(i) \in Seq(Word)
    BY <1>0 DEF Apart, Fields
  <2>2. Last(Slot(i)) = "confidence"
    BY <2>1, WordsAre, EndsAre DEF Slot, Under, Path
  <2> QED
    BY <1>1, <1>4, <2>2, MergedIs
<1>5. ASSUME NEW p \in Kept(a, b), Last(p) = "confidence"
      PROVE  \E i \in Fields : p = Slot(i)
  <2>1. p # Overall /\ p \in DOMAIN a \union DOMAIN b
    BY KeptEntries
  <2>2. PICK i \in Fields, x \in Word : p = Under(i, x)
    BY <1>0, <2>1 DEF EntriesOf
  <2>3. Path(i) \in Seq(Word)
    BY <1>0 DEF Apart, Fields
  <2>4. Last(p) = x
    BY <2>2, <2>3, EndsAre DEF Under, Path
  <2> QED
    BY <1>5, <2>2, <2>4 DEF Slot
<1>6. \A p \in Shown(a, b) \ Joined(a, b) : p \in Kept(a, b) /\ \E i \in Fields : p = Slot(i)
  BY <1>1, <1>5
<1> QED
  BY <1>3, <1>4, <1>6

(* What a leaf's score stands for.                                         *)
LEMMA JoinedReps ==
  ASSUME NEW a, NEW b, NEW sa, NEW sb, Trees(a, b, sa, sb), NEW n \in Leaves(a, b),
         NEW i \in Fields
  PROVE  /\ LeafAt(n, i) => Rep(Append(n, "confidence"), i)
         /\ Rep(Append(n, "confidence"), i) => Starts(n, Path(i))
<1> DEFINE p == Append(n, "confidence")
<1>1. n \in Seq(Word) /\ Longer(p, n, "confidence")
  BY LeavesAre, JoinedIs
<1>2. Apart
  BY DEF Trees
<1>3. Path(i) \in Seq(Word) /\ Longer(Slot(i), Path(i), "confidence")
  BY <1>2, SlotsInside DEF Apart, Fields
<1>4. n = Path(i) => p = Slot(i)
  BY DEF Slot, Under, Path
<1>5. p = Slot(i) => n = Path(i)
  BY <1>1, <1>3, WordsAre, LongerEqual DEF Slot, Under, Path
<1> HIDE DEF p
<1>6. Starts(p, Path(i)) <=>
        Starts(n, Path(i)) /\ Len(n) < Len(Path(i)) /\ Path(i)[Len(n) + 1] = "confidence"
  BY <1>1, <1>3, WordsAre, StartsLonger
<1>7. ASSUME LeafAt(n, i)
      PROVE  Rep(p, i)
  <2>1. CASE n = Path(i)
    BY <1>4, <2>1 DEF Rep
  <2>2. CASE n # Path(i)
    <3>1. Starts(n, Path(i)) /\ Path(i)[Len(n) + 1] = "confidence"
      BY <1>7, <2>2 DEF LeafAt
    <3>2. ~(Len(Path(i)) <= Len(n))
      BY <1>1, <1>3, <2>2, <3>1, StartsEqual
    <3>3. Len(n) \in Nat /\ Len(Path(i)) \in Nat
      BY <1>1, <1>3
    <3> QED
      BY <1>6, <3>1, <3>2, <3>3 DEF Rep
  <2> QED
    BY <2>1, <2>2
<1>8. n = Path(i) => Starts(n, Path(i))
  BY <1>1 DEF Starts
<1>9. Rep(p, i) => Starts(n, Path(i))
  BY <1>5, <1>6, <1>8 DEF Rep
<1> QED
  BY <1>7, <1>9 DEF p

LEMMA RepExists ==
  ASSUME NEW a, NEW b, NEW sa, NEW sb, Trees(a, b, sa, sb), NEW p \in Shown(a, b)
  PROVE  \E i \in Fields : Rep(p, i)
<1>1. CASE p \in Joined(a, b)
  <2>1. PICK n \in Leaves(a, b) : p = Append(n, "confidence")
    BY <1>1 DEF Joined
  <2>2. PICK i \in Fields : LeafAt(n, i)
    BY LeavesAre
  <2> QED
    BY <2>1, <2>2, JoinedReps
<1>2. CASE p \notin Joined(a, b)
  BY <1>2, ShownIs DEF Rep
<1> QED
  BY <1>1, <1>2

(* A field has one score.                                                  *)
LEMMA OneShown ==
  ASSUME NEW a, NEW b, NEW sa, NEW sb, Trees(a, b, sa, sb), NEW i \in Fields,
         NEW p \in Shown(a, b), NEW q \in Shown(a, b), Rep(p, i), Rep(q, i)
  PROVE  p = q
<1>0. Apart
  BY DEF Trees
<1>1. Path(i) \in Seq(Word) /\ Longer(Slot(i), Path(i), "confidence")
  BY <1>0, SlotsInside DEF Apart, Fields
<1>2. ASSUME NEW m \in Leaves(a, b), NEW n \in Leaves(a, b),
             Rep(Append(m, "confidence"), i), Rep(Append(n, "confidence"), i)
      PROVE  m = n
  <2>1. m \in Seq(Word) /\ n \in Seq(Word)
    BY LeavesAre
  <2>2. Starts(m, Path(i)) /\ Starts(n, Path(i))
    BY <1>2, JoinedReps
  <2>3. Starts(m, n) \/ Starts(n, m)
    BY <1>1, <2>1, <2>2, StartsBoth
  <2> QED
    BY <2>3, LeavesTopmost
(* An entry kept is not within a leaf that has the score.                  *)
<1>3. ASSUME NEW r \in Shown(a, b), r \notin Joined(a, b), Rep(r, i)
      PROVE  r = Slot(i) /\ r \in Kept(a, b)
  <2>1. r \in Kept(a, b)
    BY <1>3, ShownIs
  <2>2. PICK j \in Fields : r = Slot(j)
    BY <1>3, ShownIs
  <2>3. Path(j) \in Seq(Word) /\ Longer(Slot(j), Path(j), "confidence")
    BY <1>0, SlotsInside DEF Apart, Fields
  <2>4. CASE Starts(r, Path(i))
    <3>1. Starts(Path(j), Path(i)) /\ Len(Path(j)) < Len(Path(i))
      BY <1>1, <2>2, <2>3, <2>4, WordsAre, StartsLonger
    <3>2. i = j
      BY <1>0, <3>1 DEF Apart, Fields
    <3> QED
      BY <1>1, <3>1, <3>2
  <2> QED
    BY <1>3, <2>1, <2>4 DEF Rep
<1>4. ASSUME NEW n \in Leaves(a, b), Rep(Append(n, "confidence"), i), Slot(i) \in Kept(a, b)
      PROVE  Slot(i) = Append(n, "confidence")
  <2> DEFINE r == Append(n, "confidence")
             v == Append(n, "value")
  <2>1. n \in Seq(Word) /\ Longer(r, n, "confidence") /\ Longer(v, n, "value")
    BY LeavesAre, JoinedIs
  <2>2. Starts(n, Path(i))
    BY <1>4, JoinedReps
  <2>3. Starts(n, Slot(i)) /\ Len(n) < Len(Slot(i))
    BY <1>1, <2>1, <2>2, WordsAre, LongerStarts
  <2>4. Slot(i) \in DOMAIN a \union DOMAIN b
    BY <1>4 DEF Kept
  <2>5. Starts(v, Slot(i))
    BY <1>4, <2>3, <2>4, KeptIs
  <2> HIDE DEF r, v
  <2>6. Slot(i) \in Seq(Word)
    BY <1>1 DEF Longer
  <2>7. Slot(i)[Len(n) + 1] = "value"
    BY <2>1, <2>5, <2>6, WordsAre, StartsLonger
  <2>8. CASE Starts(r, Path(i))
    <3>1. Len(n) < Len(Path(i)) /\ Path(i)[Len(n) + 1] = "confidence"
      BY <1>1, <2>1, <2>8, WordsAre, StartsLonger
    <3>2. Len(n) \in Nat /\ Len(Path(i)) \in Nat
      BY <1>1, <2>1
    <3>3. Len(n) + 1 \in 1 .. Len(Path(i))
      BY <3>1, <3>2
    <3>4. Slot(i)[Len(n) + 1] = "confidence"
      BY <1>1, <3>1, <3>3 DEF Longer
    <3> QED
      BY <2>7, <3>4
  <2> QED
    BY <1>4, <2>8 DEF Rep, r
<1>5. CASE p \in Joined(a, b) /\ q \in Joined(a, b)
  BY <1>2, <1>5 DEF Joined
<1>6. CASE p \in Joined(a, b) /\ q \notin Joined(a, b)
  BY <1>3, <1>4, <1>6 DEF Joined
<1>7. CASE p \notin Joined(a, b) /\ q \in Joined(a, b)
  BY <1>3, <1>4, <1>7 DEF Joined
<1>8. CASE p \notin Joined(a, b) /\ q \notin Joined(a, b)
  BY <1>3, <1>8
<1> QED
  BY <1>5, <1>6, <1>7, <1>8

(* Every field has a score, its own or that of a leaf above it, or is      *)
(* hidden by an underscore.                                                *)
LEMMA FieldShown ==
  ASSUME NEW a, NEW b, NEW sa, NEW sb, Trees(a, b, sa, sb), NEW i \in Fields
  PROVE  \/ Slot(i) \in Shown(a, b)
         \/ /\ Slot(i) \notin DOMAIN Merged(a, b)
            /\ \/ Hidden(i)
               \/ Named(i) /\ \E p \in Shown(a, b) : Starts(p, Path(i))
<1>0. Apart /\ Slot(i) \in DOMAIN a
  BY TreesEntries DEF Trees
<1>1. Path(i) \in Seq(Word) /\ Longer(Slot(i), Path(i), "confidence") /\ Slot(i) # Overall
  BY <1>0, SlotsInside DEF Apart, Fields
<1>2. SUFFICES ASSUME Slot(i) \notin DOMAIN Merged(a, b), ~Hidden(i)
               PROVE  Named(i) /\ \E p \in Shown(a, b) : Starts(p, Path(i))
  BY ShownIs
<1>20. ~Skipped(Slot(i), a, b)
  <2>1. ASSUME NEW k \in DOMAIN Slot(i), Slot(i)[k] \in Private
        PROVE  FALSE
    <3>1. Len(Path(i)) \in Nat /\ DOMAIN Slot(i) = 1 .. Len(Path(i)) + 1
      BY <1>1 DEF Longer
    <3>2. k \in 1 .. Len(Path(i)) \/ k = Len(Path(i)) + 1
      BY <3>1
    <3>3. CASE k = Len(Path(i)) + 1
      BY <1>1, <2>1, <3>3, ScoresAssumption DEF Longer
    <3>4. CASE k \in 1 .. Len(Path(i))
      <4>1. Path(i)[k] \in Private /\ k \in DOMAIN Path(i)
        BY <1>1, <2>1, <3>4 DEF Longer
      <4> QED
        BY <1>2, <4>1 DEF Hidden, Path
    <3> QED
      BY <3>2, <3>3, <3>4
  <2> QED
    BY <2>1 DEF Skipped
<1>3. Slot(i) \notin Kept(a, b) /\ Slot(i) \notin Joined(a, b)
  BY <1>2, MergedIs
<1>4. PICK n \in Leaves(a, b) :
        Starts(n, Slot(i)) /\ Len(n) < Len(Slot(i)) /\ ~Starts(Append(n, "value"), Slot(i))
  BY <1>0, <1>3, <1>20, KeptIs
<1> DEFINE r == Append(n, "confidence")
           v == Append(n, "value")
<1>5. n \in Seq(Word) /\ Longer(r, n, "confidence") /\ Longer(v, n, "value") /\ r \in Joined(a, b)
  BY LeavesAre, JoinedIs DEF Joined
<1>6. Starts(n, Path(i))
  BY <1>1, <1>4, <1>5, WordsAre, LongerStarts
<1>7. n # Path(i)
  BY <1>3, <1>5 DEF Slot, Under, Path
<1> HIDE DEF r, v
<1>8. Len(n) < Len(Path(i)) /\ Len(n) \in Nat /\ Len(Path(i)) \in Nat
  <2>1. ~(Len(Path(i)) <= Len(n))
    BY <1>1, <1>5, <1>6, <1>7, StartsEqual
  <2>2. Len(n) \in Nat /\ Len(Path(i)) \in Nat
    BY <1>1, <1>5
  <2> QED
    BY <2>1, <2>2
<1>9. Len(n) + 1 \in 1 .. Len(Path(i))
  BY <1>8
<1>10. Path(i)[Len(n) + 1] # "value"
  <2>1. ASSUME Path(i)[Len(n) + 1] = "value"
        PROVE  Starts(v, Slot(i))
    <3>1. Slot(i)[Len(n) + 1] = "value" /\ Slot(i) \in Seq(Word)
      BY <1>1, <1>9, <2>1 DEF Longer
    <3> QED
      BY <1>4, <1>5, <3>1, WordsAre, StartsLonger
  <2> QED
    BY <1>4, <2>1 DEF v
<1>11. Path(i)[Len(n) + 1] = "confidence"
  BY <1>6, <1>7, <1>10, LeavesAre
<1>12. Starts(r, Path(i))
  BY <1>1, <1>5, <1>6, <1>8, <1>11, WordsAre, StartsLonger
<1>13. Named(i)
  <2>1. DOMAIN task.fields[i].path = 1 .. Len(Path(i))
    BY <1>1 DEF Path
  <2> QED
    BY <1>9, <1>11, <2>1 DEF Named, Path
<1> QED
  BY <1>5, <1>12, <1>13, ShownIs

(* Without an object called "confidence" no two fields share a score.      *)
LEMMA OneField ==
  ASSUME NEW a, NEW b, NEW sa, NEW sb, Trees(a, b, sa, sb), NEW p \in Shown(a, b),
         NEW i \in Fields, NEW j \in Fields, Rep(p, i), Rep(p, j),
         ~NamedWithin(i), ~NamedWithin(j)
  PROVE  i = j
<1>0. Apart
  BY DEF Trees
<1>1. \A k \in Fields : Path(k) \in Seq(Word) /\ Longer(Slot(k), Path(k), "confidence")
  BY <1>0, SlotsInside DEF Apart, Fields
<1>2. ASSUME NEW k \in Fields, NEW l \in Fields, Starts(Slot(k), Path(l))
      PROVE  FALSE
  <2>1. Path(k) \in Seq(Word) /\ Longer(Slot(k), Path(k), "confidence") /\ Path(l) \in Seq(Word)
    BY <1>1
  <2>2. Starts(Path(k), Path(l)) /\ Len(Path(k)) < Len(Path(l))
    BY <1>2, <2>1, WordsAre, StartsLonger
  <2>3. k = l
    BY <1>0, <2>2 DEF Apart, Fields
  <2>4. Len(Path(k)) \in Nat
    BY <2>1
  <2> QED
    BY <2>2, <2>3, <2>4
<1>3. CASE p = Slot(i) /\ p = Slot(j)
  BY <1>0, <1>3, WordsAre, UnderApart DEF Slot, Fields
<1>4. CASE p = Slot(i) /\ Starts(p, Path(j))
  BY <1>2, <1>4
<1>5. CASE Starts(p, Path(i)) /\ p = Slot(j)
  BY <1>2, <1>5
<1>6. CASE Starts(p, Path(i)) /\ Starts(p, Path(j))
  <2>1. p \in Joined(a, b)
    BY <1>2, <1>6, ShownIs
  <2>2. PICK n \in Leaves(a, b) : p = Append(n, "confidence")
    BY <2>1 DEF Joined
  <2>3. n \in Seq(Word) /\ Longer(p, n, "confidence")
    BY <2>2, LeavesAre, JoinedIs
  <2>4. ASSUME NEW k \in Fields, Starts(p, Path(k)), ~NamedWithin(k)
        PROVE  p = Path(k)
    <3>1. Path(k) \in Seq(Word) /\ p \in Seq(Word)
      BY <1>1, <2>3 DEF Longer
    <3>2. Len(n) < Len(Path(k)) /\ Path(k)[Len(n) + 1] = "confidence"
      BY <2>3, <2>4, <3>1, WordsAre, StartsLonger
    <3>3. Len(n) \in Nat /\ Len(Path(k)) \in Nat /\ Len(p) = Len(n) + 1
      BY <2>3, <3>1 DEF Longer
    <3>4. Len(n) + 1 \notin 1 .. Len(Path(k)) - 1
      BY <2>4, <3>2 DEF NamedWithin, Path
    <3>5. Len(Path(k)) <= Len(p)
      BY <3>2, <3>3, <3>4
    <3> QED
      BY <2>4, <3>1, <3>5, StartsEqual
  <2>5. Path(i) = Path(j)
    BY <1>6, <2>4
  <2>6. Starts(Path(i), Path(j))
    BY <1>1, <2>5 DEF Starts
  <2> QED
    BY <1>0, <2>6 DEF Apart, Fields
<1> QED
  BY <1>3, <1>4, <1>5, <1>6 DEF Rep

(* The scores of the merged tree are scores, and a field's own is one that *)
(* an evaluator gave it, rounded if it is a leaf's.                        *)
Taken(x, given) == \E g \in given : g \in Score /\ (x = g \/ x = Rounded(g))

LEMMA ShownScores ==
  ASSUME NEW a, NEW b, NEW sa, NEW sb, Trees(a, b, sa, sb)
  PROVE  /\ \A p \in Shown(a, b) : Merged(a, b)[p] \in Score
         /\ \A i \in Fields : Slot(i) \in DOMAIN Merged(a, b) =>
              Taken(Merged(a, b)[Slot(i)], {sa[i], sb[i]})
<1>0. Apart /\ EntriesOf(a, sa) /\ EntriesOf(b, sb) /\ \A i \in Fields : Slot(i) \in DOMAIN a
  BY TreesEntries DEF Trees
<1>1. ASSUME NEW n \in Leaves(a, b)
      PROVE  LET p == Append(n, "confidence")
             IN  /\ Merged(a, b)[p] \in Score
                 /\ p \in DOMAIN a =>
                      \E g \in Score : /\ g = a[p] \/ (p \in DOMAIN b /\ g = b[p])
                                       /\ Merged(a, b)[p] = Rounded(g)
  <2> DEFINE p == Append(n, "confidence")
             score == IF Valid(n, a, b) = {} THEN 0 ELSE Min(Valid(n, a, b))
  <2>1. p \in Joined(a, b) /\ Front(p) = n
    BY JoinedIs DEF Joined
  <2>0. \A q \in Joined(a, b) :
          Merged(a, b)[q] = LET valid == Valid(Front(q), a, b)
                            IN  Rounded(IF valid = {} THEN 0 ELSE Min(valid))
    BY MergedIs
  <2> HIDE DEF p
  <2>2. Merged(a, b)[p] = Rounded(score)
    BY <2>0, <2>1
  <2>3. /\ score \in Score
        /\ p \in DOMAIN a => score = a[p] \/ (p \in DOMAIN b /\ score = b[p])
    BY ValidIs DEF p
  <2> HIDE DEF score
  <2>4. Rounded(score) \in Score
    BY <2>3, RoundedIs
  <2> QED
    BY <2>2, <2>3, <2>4 DEF p
<1>2. ASSUME NEW p \in Kept(a, b), p \notin Joined(a, b)
      PROVE  /\ Merged(a, b)[p] \in Score
             /\ p \in DOMAIN a => Merged(a, b)[p] = a[p]
  <2>0. \A q \in Kept(a, b) \ Joined(a, b) :
          Merged(a, b)[q] = IF q \in DOMAIN a THEN a[q] ELSE b[q]
    BY MergedIs
  <2>1. Merged(a, b)[p] = IF p \in DOMAIN a THEN a[p] ELSE b[p]
    BY <1>2, <2>0
  <2>2. p # Overall /\ p \in DOMAIN a \union DOMAIN b
    BY KeptEntries
  <2> QED
    BY <1>0, <2>1, <2>2 DEF EntriesOf
<1>3. \A p \in Shown(a, b) : Merged(a, b)[p] \in Score
  <2>1. \A p \in Shown(a, b) : p \in Joined(a, b) \/ p \in Kept(a, b)
    BY ShownIs
  <2> QED
    BY <1>1, <1>2, <2>1 DEF Joined
<1>4. ASSUME NEW i \in Fields, Slot(i) \in DOMAIN Merged(a, b)
      PROVE  Taken(Merged(a, b)[Slot(i)], {sa[i], sb[i]})
  <2>1. Slot(i) \in DOMAIN a /\ a[Slot(i)] = sa[i] /\ sa[i] \in Score
    BY <1>0, SlotsInside DEF EntriesOf
  <2>2. Slot(i) \in DOMAIN b => b[Slot(i)] = sb[i]
    BY <1>0 DEF EntriesOf
  <2>3. CASE Slot(i) \in Joined(a, b)
    <3>1. PICK n \in Leaves(a, b) : Slot(i) = Append(n, "confidence")
      BY <2>3 DEF Joined
    <3>2. PICK g \in Score : /\ g = a[Slot(i)] \/ (Slot(i) \in DOMAIN b /\ g = b[Slot(i)])
                            /\ Merged(a, b)[Slot(i)] = Rounded(g)
      BY <1>1, <2>1, <3>1
    <3> QED
      BY <2>1, <2>2, <3>2 DEF Taken
  <2>4. CASE Slot(i) \notin Joined(a, b)
    <3>1. Slot(i) \in Kept(a, b)
      BY <1>4, <2>4, MergedIs
    <3>2. Merged(a, b)[Slot(i)] = sa[i]
      BY <1>2, <2>1, <2>4, <3>1
    <3> QED
      BY <2>1, <3>2 DEF Taken
  <2> QED
    BY <2>3, <2>4
<1> QED
  BY <1>3, <1>4

LEMMA ShownCount ==
  ASSUME NEW a, NEW b, NEW sa, NEW sb, Trees(a, b, sa, sb)
  PROVE  /\ IsFiniteSet(Shown(a, b)) /\ Cardinality(Shown(a, b)) <= Len(task.fields)
         /\ (\A i \in Fields : ~NamedWithin(i) /\ ~Hidden(i)) =>
              Cardinality(Shown(a, b)) = Len(task.fields)
<1> DEFINE Pool == Shown(a, b)
           f == [p \in Pool |-> CHOOSE i \in Fields : Rep(p, i)]
           g == [i \in Fields |-> CHOOSE p \in Pool : Rep(p, i)]
<1>1. Len(task.fields) \in Nat /\ Fields = 1 .. Len(task.fields)
  BY DEF Trees, Apart, Fields
<1>2. IsFiniteSet(Fields) /\ Cardinality(Fields) = Len(task.fields)
  <2>1. IsFiniteSet(1 .. Len(task.fields)) /\ Cardinality(1 .. Len(task.fields)) = Len(task.fields)
    BY <1>1, FS_Interval
  <2> QED
    BY <1>1, <2>1
<1>3. \A p \in Pool : f[p] \in Fields /\ Rep(p, f[p])
  BY RepExists
<1>4. f \in Injection(Pool, Fields)
  <2>1. f \in [Pool -> Fields]
    BY <1>3
  <2>2. \A p, q \in Pool : f[p] = f[q] => p = q
    BY <1>3, OneShown
  <2> HIDE DEF f, Pool
  <2> QED
    BY <2>1, <2>2 DEF Injection, IsInjective
<1> HIDE DEF f, Pool
<1>5. IsFiniteSet(Pool) /\ Cardinality(Pool) <= Len(task.fields)
  BY <1>2, <1>4, FS_Injection
<1>6. ASSUME \A i \in Fields : ~NamedWithin(i) /\ ~Hidden(i)
      PROVE  Cardinality(Pool) = Len(task.fields)
  <2>1. ASSUME NEW i \in Fields
        PROVE  g[i] \in Pool /\ Rep(g[i], i)
    <3>1. \E p \in Pool : Rep(p, i)
      BY <1>6, FieldShown DEF Rep, Pool
    <3> QED
      BY <3>1
  <2>2. g \in [Fields -> Pool]
    BY <2>1
  <2>3. \A i, j \in Fields : g[i] = g[j] => i = j
    BY <1>6, <2>1, OneField DEF Pool
  <2> HIDE DEF g
  <2>4. g \in Injection(Fields, Pool)
    BY <2>2, <2>3 DEF Injection, IsInjective
  <2>5. Len(task.fields) <= Cardinality(Pool)
    BY <1>2, <1>5, <2>4, FS_Injection
  <2>6. Cardinality(Pool) \in Nat
    BY <1>5, FS_CardinalityType
  <2> QED
    BY <1>1, <1>5, <2>5, <2>6
<1> QED
  BY <1>5, <1>6 DEF Pool

-------------------------------------------------------------------------------
(* Means and shares.                                                       *)
LEMMA ShareIs ==
  ASSUME NEW n \in Nat, n > 0, NEW m \in 0 .. n
  PROVE  Share(m, n) \in Score /\ (Share(m, n) = One <=> 2000 * (n - m) <= n)
<1> DEFINE q == Nearest(1000 * m, n)
           t == Thousandth
<1>1. 1000 * m \in Nat /\ 1000 * m <= n * 1000 /\ m \in Nat /\ m <= n
  OBVIOUS
<1>2. q \in Nat /\ q <= 1000 /\ 2 * (n * q) <= 2 * (1000 * m) + n
  BY <1>1, NearestIs, NearestAtMost
<1>3. q = 1000 => 2000 * (n - m) <= n
  BY <1>1, <1>2
<1>4. ASSUME 2000 * (n - m) <= n
      PROVE  q = 1000
  <2> DEFINE w == 2 * (1000 * m) + n
             e == 2 * n
             d == w \div e
  <2>1. w \in Nat /\ e \in Nat /\ e > 0 /\ e * 1000 <= w /\ w < e * 1001
    BY <1>1, <1>4
  <2> HIDE DEF w, e
  <2>2. d \in Nat /\ w % e \in Nat /\ w % e < e /\ w = e * d + (w % e)
    BY <2>1, Divided
  <2> HIDE DEF d
  <2>3. ~(d < 1000)
    <3>1. d < 1000 => e * (d + 1) <= e * 1000
      BY <2>1, <2>2
    <3>2. e * (d + 1) = e * d + e /\ e * d \in Nat
      BY <2>1, <2>2
    <3> DEFINE x == e * d
               r == w % e
    <3>3. d < 1000 => x + e <= w
      BY <2>1, <3>1, <3>2
    <3>4. w = x + r /\ r < e /\ r \in Nat /\ x \in Nat
      BY <2>2, <3>2
    <3> HIDE DEF x, r
    <3> QED
      BY <2>1, <2>2, <3>3, <3>4
  <2>4. ~(1000 < d)
    <3>1. 1000 < d => e * 1001 <= e * d
      BY <2>1, <2>2
    <3>2. e * d \in Nat /\ e * d <= w
      BY <2>1, <2>2
    <3> DEFINE x == e * d
               y == e * 1001
    <3>3. (1000 < d => y <= x) /\ x <= w /\ w < y /\ x \in Nat /\ y \in Nat
      BY <2>1, <3>1, <3>2
    <3> HIDE DEF x, y
    <3> QED
      BY <2>1, <3>3
  <2>5. d = 1000
    BY <2>2, <2>3, <2>4
  <2> QED
    BY <2>5 DEF Nearest, d, w, e
<1> HIDE DEF q, t
<1>5. t \in Nat /\ t > 0 /\ One = t * 1000
  BY UnitIs DEF t
<1>6. t * q \in Nat /\ t * q <= One /\ (t * q = One <=> q = 1000)
  BY <1>2, <1>5
<1>7. t * q \in Score
  BY <1>6, ScoresAre
<1>8. Share(m, n) = t * q
  BY DEF Share, q, t
<1> QED
  BY <1>3, <1>4, <1>6, <1>7, <1>8

(* A rounded mean of n scores is half a thousandth below the least of them *)
(* at most.                                                                *)
LEMMA MeanWithin ==
  ASSUME NEW n \in Nat, n > 0, NEW s \in Nat, NEW least \in Nat, n * least <= s, s <= n * One
  PROVE  LET mean == Thousandth * Nearest(s, n * Thousandth)
         IN  mean \in Score /\ 2 * least <= 2 * mean + Thousandth
<1> DEFINE t == Thousandth
           d == n * t
           q == Nearest(s, d)
<1>1. t \in Nat /\ t > 0 /\ One = t * 1000
  BY UnitIs
<1> HIDE DEF t
<1>2. d \in Nat /\ d > 0
  BY <1>1
<1>3. n * One = d * 1000
  BY <1>1
<1>4. \A y \in Nat : d * y = n * (t * y)
  BY <1>1
<1> HIDE DEF d
<1>5. q \in Nat /\ 2 * s <= 2 * (d * q) + d /\ q <= 1000
  <2>1. s <= d * 1000 /\ 1000 \in Nat
    BY <1>3
  <2>2. q <= 1000
    BY <1>2, <2>1, NearestAtMost
  <2>3. q \in Nat /\ 2 * s <= 2 * (d * q) + d
    BY <1>2, NearestIs
  <2> QED
    BY <2>2, <2>3
<1> HIDE DEF q
<1> DEFINE mean == t * q
<1>6. mean \in Nat /\ mean <= One /\ d * q = n * mean
  BY <1>1, <1>4, <1>5
<1> HIDE DEF mean
<1>7. ~(2 * mean + t < 2 * least)
  <2>1. 2 * mean + t < 2 * least => n * (2 * mean + t + 1) <= n * (2 * least)
    BY <1>1, <1>6
  <2>2. n * (2 * mean + t + 1) = 2 * (n * mean) + d + n /\ n * (2 * least) = 2 * (n * least)
    BY <1>1, <1>6 DEF d
  <2> DEFINE x == n * mean
             y == n * least
  <2>3. /\ 2 * mean + t < 2 * least => 2 * x + d + n <= 2 * y
        /\ y <= s /\ 2 * s <= 2 * x + d /\ x \in Nat /\ y \in Nat
    BY <1>5, <1>6, <2>1, <2>2
  <2> HIDE DEF x, y
  <2> QED
    BY <1>2, <2>3
<1>8. mean \in Score
  BY <1>6, ScoresAre
<1>9. 2 * least <= 2 * mean + t
  BY <1>1, <1>6, <1>7
<1>10. Thousandth * Nearest(s, n * Thousandth) = mean
  BY DEF mean, q, d, t
<1> QED
  BY <1>8, <1>9, <1>10 DEF t

Within(v, n, lo, hi) == \A k \in 1 .. n : v[k] \in Nat /\ lo <= v[k] /\ v[k] <= hi

LEMMA SumWithin ==
  ASSUME NEW n \in Nat, NEW lo \in Nat, NEW hi \in Nat, NEW v, Within(v, n, lo, hi),
         NEW f, Sums(f, n, v)
  PROVE  f[n] \in Nat /\ n * lo <= f[n] /\ f[n] <= n * hi
<1> DEFINE H == {k \in 0 .. n : f[k] \in Nat /\ k * lo <= f[k] /\ f[k] <= k * hi}
<1>0. \A k \in 1 .. n : v[k] \in Nat /\ lo <= v[k] /\ v[k] <= hi
  BY DEF Within
<1>1. f \in [0 .. n -> Nat] /\ f[0] = 0 /\ \A k \in 1 .. n : f[k] = f[k - 1] + v[k]
  BY <1>0, SumsAre
<1>2. 0 \in H
  BY <1>1
<1>3. ASSUME NEW k \in 0 .. n - 1, k \in H
      PROVE  k + 1 \in H
  <2>1. k + 1 \in 1 .. n /\ k + 1 \in 0 .. n /\ k \in Nat /\ (k + 1) - 1 = k
    OBVIOUS
  <2>2. f[k + 1] = f[k] + v[k + 1]
    BY <1>1, <2>1
  <2>3. f[k] \in Nat /\ k * lo <= f[k] /\ f[k] <= k * hi
    BY <1>3
  <2>4. v[k + 1] \in Nat /\ lo <= v[k + 1] /\ v[k + 1] <= hi
    BY <1>0, <2>1
  <2>5. (k + 1) * lo = k * lo + lo /\ (k + 1) * hi = k * hi + hi
    BY <2>1
  <2>6. k * lo \in Nat /\ k * hi \in Nat
    BY <2>1
  <2> DEFINE c == k * lo
             d == k * hi
  <2> HIDE DEF c, d
  <2>7. f[k + 1] \in Nat /\ c + lo <= f[k + 1] /\ f[k + 1] <= d + hi
    BY <2>2, <2>3, <2>4, <2>6 DEF c, d
  <2> QED
    BY <2>1, <2>5, <2>7 DEF c, d
<1> HIDE DEF H
<1>4. 0 .. n \subseteq H
  BY <1>2, <1>3, IntervalInduction
<1>5. n \in H
  BY <1>4
<1> QED
  BY <1>5 DEF H

LEMMA AddedIs ==
  ASSUME NEW values \in Seq(Nat)
  PROVE  \E f : Sums(f, Len(values), values) /\ Added(values) = f[Len(values)]
<1> DEFINE sum == CHOOSE sum : sum = [k \in 0 .. Len(values) |->
                                        IF k = 0 THEN 0 ELSE sum[k - 1] + values[k]]
<1>1. Len(values) \in Nat /\ \A k \in 1 .. Len(values) : values[k] \in Nat
  BY ElementOfSeq
<1>2. PICK f \in [0 .. Len(values) -> Nat] : Sums(f, Len(values), values)
  BY <1>1, SumsExist
<1>3. f = [k \in 0 .. Len(values) |-> IF k = 0 THEN 0 ELSE f[k - 1] + values[k]]
  BY <1>2 DEF Sums
<1>4. sum = [k \in 0 .. Len(values) |-> IF k = 0 THEN 0 ELSE sum[k - 1] + values[k]]
  BY <1>3
<1>5. Sums(sum, Len(values), values)
  BY <1>4 DEF Sums
<1>6. Added(values) = sum[Len(values)]
  BY DEF Added
<1> QED
  BY <1>5, <1>6

(* The mean of the scores above nought, and the least of them.             *)
LEMMA MeanIs ==
  ASSUME NEW t, NEW seen, IsFiniteSet(seen), seen # {}, \A p \in seen : t[p] \in Score
  PROVE  LET n     == Cardinality(seen)
             list  == SetToSeq(seen)
             sum   == Added([k \in 1 .. n |-> t[list[k]]])
             mean  == Thousandth * Nearest(sum, n * Thousandth)
             least == Min({t[p] : p \in seen})
         IN  mean \in Score /\ least \in Score /\ 2 * least <= 2 * mean + Thousandth
<1> DEFINE n      == Cardinality(seen)
           list   == SetToSeq(seen)
           values == [k \in 1 .. n |-> t[list[k]]]
           scores == {t[p] : p \in seen}
           least  == Min(scores)
           mean   == Thousandth * Nearest(Added(values), n * Thousandth)
<1> SUFFICES mean \in Score /\ least \in Score /\ 2 * least <= 2 * mean + Thousandth
  OBVIOUS
<1> HIDE DEF mean
<1>1. n \in Nat /\ n > 0 /\ ExistsBijection(1 .. n, seen)
  <2>1. n \in Nat /\ ExistsBijection(1 .. n, seen)
    BY FS_CardinalityType
  <2>2. n # 0
    BY FS_EmptySet
  <2> QED
    BY <2>1, <2>2
<1>2. list \in [1 .. n -> seen]
  <2>1. \E f \in [1 .. n -> seen] : IsInjective(f)
    BY <1>1 DEF ExistsBijection, Bijection, Injection
  <2> HIDE DEF n
  <2>2. (CHOOSE f \in [1 .. n -> seen] : IsInjective(f)) \in [1 .. n -> seen]
    BY <2>1
  <2> QED
    BY <2>2 DEF SetToSeq, n
<1> HIDE DEF list
<1>3. scores \subseteq Score /\ scores # {}
  OBVIOUS
<1>4. \A k \in 1 .. n : values[k] \in scores
  BY <1>2
<1> HIDE DEF scores, values
<1>5. Score \subseteq Nat /\ \A x \in Score : x <= One
  BY ScoresAre
<1>6. least \in scores /\ \A x \in scores : least <= x
  <2>1. scores \subseteq Nat /\ scores # {}
    BY <1>3, <1>5
  <2> QED
    BY <2>1, MinIs
<1> HIDE DEF least
<1>7. least \in Score /\ least \in Nat
  BY <1>3, <1>5, <1>6
<1>8. \A x \in scores : x \in Nat /\ least <= x /\ x <= One
  BY <1>3, <1>5, <1>6
<1>12. \A k \in 1 .. n : values[k] \in Nat
  BY <1>4, <1>8
<1>13. Within(values, n, least, One)
  BY <1>4, <1>8 DEF Within
<1>9. values \in Seq(Nat) /\ Len(values) = n
  <2> HIDE DEF n
  <2>1. values = [k \in 1 .. n |-> values[k]]
    BY DEF values
  <2>2. values \in [1 .. n -> Nat]
    BY <1>12, <2>1
  <2> QED
    BY <1>1, <2>2, SeqDef
<1> HIDE DEF n
<1>10. PICK f : Sums(f, n, values) /\ Added(values) = f[n]
  BY <1>9, AddedIs
<1>11. f[n] \in Nat /\ n * least <= f[n] /\ f[n] <= n * One
  BY <1>1, <1>7, <1>10, <1>13, UnitIs, SumWithin
<1>14. LET m == Thousandth * Nearest(f[n], n * Thousandth)
       IN  m \in Score /\ 2 * least <= 2 * m + Thousandth
  BY <1>1, <1>7, <1>11, MeanWithin
<1>15. mean = Thousandth * Nearest(f[n], n * Thousandth)
  BY <1>10 DEF mean
<1> QED
  BY <1>7, <1>14, <1>15

-------------------------------------------------------------------------------
(* What the evaluate step saves.                                           *)
ItemsSound(items) ==
  /\ items \in Seq({items[i] : i \in Fields}) /\ Len(items) = Len(task.fields)
  /\ \A i \in DOMAIN items :
       \/ \E given \in Given(i) : Near(items[i].score, given)
       \/ items[i].score = 0
          /\ (Given(i) = {} \/ Named(i) \/ Hidden(i))

Sound(result) ==
  /\ result.seen \in Nat /\ result.zero \in Nat
  /\ result.seen + result.zero <= Len(task.fields)
  /\ result.seen > 0 /\ (\A i \in DOMAIN task.fields : ~NamedWithin(i) /\ ~Hidden(i)) =>
       result.seen + result.zero = Len(task.fields)
  /\ result.seen > 0 =>
       /\ result.overall \in Score /\ result.least \in Score
       /\ 2 * result.least <= 2 * result.overall + Thousandth
  /\ ItemsSound(result.items)

LEMMA SeenZero ==
  ASSUME NEW t, IsFiniteSet(ScorePaths(t))
  PROVE  /\ IsFiniteSet(Seen(t)) /\ Cardinality(Seen(t)) \in Nat
         /\ Cardinality(Zero(t)) \in Nat
         /\ Cardinality(Seen(t)) + Cardinality(Zero(t)) = Cardinality(ScorePaths(t))
<1> DEFINE Pool == ScorePaths(t)
           Above == Seen(t)
<1>1. Above \subseteq Pool /\ Zero(t) = Pool \ Above
  BY DEF Seen, Zero
<1> HIDE DEF Pool, Above
<1>2. IsFiniteSet(Pool)
  BY DEF Pool
<1>3. IsFiniteSet(Above) /\ Above \in SUBSET Pool
  BY <1>1, <1>2, FS_Subset
<1>4. IsFiniteSet(Pool \ Above) /\ Cardinality(Pool \ Above) = Cardinality(Pool) - Cardinality(Pool \cap Above)
  BY <1>2, FS_Difference
<1>5. Pool \cap Above = Above
  BY <1>1
<1>6. Cardinality(Pool) \in Nat /\ Cardinality(Above) \in Nat /\ Cardinality(Pool \ Above) \in Nat
  BY <1>2, <1>3, <1>4, FS_CardinalityType
<1> QED
  BY <1>1, <1>3, <1>4, <1>5, <1>6 DEF Pool, Above

(* A score is rounded once: to thousandths, which its percentage leaves as *)
(* they are, or to its percentage.                                         *)
LEMMA TakenNear ==
  ASSUME NEW x, NEW given, Taken(x, given)
  PROVE  \E g \in given : Near(Percentage(x), g)
<1>1. PICK g \in given : g \in Score /\ (x = g \/ x = Rounded(g))
  BY DEF Taken
<1>2. CASE x = g
  BY <1>1, <1>2, PercentageIs
<1>3. CASE x = Rounded(g)
  <2>1. x \in Score /\ Near(x, g) /\ \E k \in Nat : x = Thousandth * k
    BY <1>1, <1>3, RoundedIs
  <2>2. Percentage(x) = x
    BY <2>1, PercentageIs
  <2> QED
    BY <2>1, <2>2
<1> QED
  BY <1>1, <1>2, <1>3

LEMMA ComparedSound ==
  ASSUME Apart, NEW t,
         \A i \in Fields :
           \/ Slot(i) \in DOMAIN t /\ Taken(t[Slot(i)], Given(i))
           \/ Slot(i) \notin DOMAIN t /\ (Given(i) = {} \/ Named(i) \/ Hidden(i))
  PROVE  ItemsSound(Compared(t))
<1> DEFINE items == Compared(t)
           score(i) == IF Slot(i) \in DOMAIN t THEN t[Slot(i)] ELSE 0
           n == Len(task.fields)
<1>1. n \in Nat /\ Fields = 1 .. n
  BY DEF Apart, Fields
<1>2. items = [i \in Fields |->
                 [value |-> task.fields[i].value, score |-> Percentage(score(i)),
                  above |-> score(i) > 8000 * Unit]]
  BY DEF Compared, Fields, Slot
<1> HIDE DEF items, n
<1>3. DOMAIN items = Fields /\ \A i \in Fields : items[i].score = Percentage(score(i))
  BY <1>2
<1>4. items = [i \in 1 .. n |-> items[i]]
  BY <1>1, <1>2
<1>5. items \in [1 .. n -> {items[i] : i \in Fields}]
  BY <1>1, <1>4
<1>6. items \in Seq({items[i] : i \in Fields}) /\ Len(items) = n
  BY <1>1, <1>5, SeqDef
<1>7. \A i \in DOMAIN items :
        \/ \E given \in Given(i) : Near(items[i].score, given)
        \/ items[i].score = 0 /\ (Given(i) = {} \/ Named(i) \/ Hidden(i))
  <2>1. ASSUME NEW i \in Fields, Slot(i) \in DOMAIN t, Taken(t[Slot(i)], Given(i))
        PROVE  \E given \in Given(i) : Near(items[i].score, given)
    <3>1. items[i].score = Percentage(t[Slot(i)])
      BY <1>3, <2>1
    <3> QED
      BY <2>1, <3>1, TakenNear
  <2>2. Percentage(0) = 0
    <3>1. 0 \in Score /\ 0 = Thousandth * 0
      BY UnitIs, ScoresAre
    <3> QED
      BY <3>1, PercentageIs
  <2> QED
    BY <1>3, <2>1, <2>2
<1> QED
  BY <1>6, <1>7 DEF ItemsSound, items, n

LEMMA SummarySound ==
  ASSUME NEW t, IsFiniteSet(ScorePaths(t)), \A p \in ScorePaths(t) : t[p] \in Score,
         Len(task.fields) \in Nat, Cardinality(ScorePaths(t)) <= Len(task.fields),
         (\A i \in DOMAIN task.fields : ~NamedWithin(i) /\ ~Hidden(i)) /\ Seen(t) # {} =>
            Cardinality(ScorePaths(t)) = Len(task.fields),
         ItemsSound(Compared(t))
  PROVE  Sound(Summary(t)) /\ Summary(t).at = "scored"
<1>1. /\ IsFiniteSet(Seen(t)) /\ Cardinality(Seen(t)) \in Nat
      /\ Cardinality(Zero(t)) \in Nat
      /\ Cardinality(Seen(t)) + Cardinality(Zero(t)) = Cardinality(ScorePaths(t))
  BY SeenZero
<1>2. CASE Seen(t) = {}
  <2>1. Summary(t) = [Unjudged EXCEPT !.at = "scored", !.tree = t, !.items = Compared(t)]
    BY <1>2 DEF Summary
  <2>2. /\ Summary(t).seen = 0 /\ Summary(t).zero = 0 /\ Summary(t).at = "scored"
        /\ Summary(t).items = Compared(t)
    BY <2>1 DEF Unjudged
  <2> QED
    BY <2>2 DEF Sound
<1>3. CASE Seen(t) # {}
  <2> DEFINE seen  == Seen(t)
             n     == Cardinality(seen)
             list  == SetToSeq(seen)
             sum   == Added([k \in 1 .. n |-> t[list[k]]])
             mean  == Thousandth * Nearest(sum, n * Thousandth)
             least == Min({t[p] : p \in seen})
  <2>1. Summary(t) = [at |-> "scored", tree |-> t, seen |-> n, zero |-> Cardinality(Zero(t)),
                      overall |-> mean, least |-> least, items |-> Compared(t)]
    BY <1>3 DEF Summary
  <2>2. \A p \in seen : t[p] \in Score
    BY DEF Seen
  <2>3. mean \in Score /\ least \in Score /\ 2 * least <= 2 * mean + Thousandth
    BY <1>1, <1>3, <2>2, MeanIs
  <2> HIDE DEF mean, sum, least, n, seen, list
  <2>4. /\ Summary(t).seen = n /\ Summary(t).zero = Cardinality(Zero(t))
        /\ Summary(t).at = "scored" /\ Summary(t).items = Compared(t)
        /\ Summary(t).overall = mean /\ Summary(t).least = least
    BY <2>1
  <2> QED
    BY <1>1, <1>3, <2>3, <2>4 DEF Sound, n, seen
<1> QED
  BY <1>2, <1>3

LEMMA MergedSound ==
  ASSUME NEW a, NEW b, NEW sa, NEW sb, Trees(a, b, sa, sb),
         \A i \in Fields : {sa[i], sb[i]} \subseteq Given(i)
  PROVE  Sound(Summary(Merged(a, b))) /\ Summary(Merged(a, b)).at = "scored"
<1> DEFINE t == Merged(a, b)
<1>0. Apart
  BY DEF Trees
<1>1. /\ IsFiniteSet(ScorePaths(t)) /\ Cardinality(ScorePaths(t)) <= Len(task.fields)
      /\ (\A i \in DOMAIN task.fields : ~NamedWithin(i) /\ ~Hidden(i)) =>
            Cardinality(ScorePaths(t)) = Len(task.fields)
  BY ShownCount DEF Shown, Fields
<1>2. \A p \in ScorePaths(t) : t[p] \in Score
  BY ShownScores DEF Shown
<1>3. ASSUME NEW i \in Fields
      PROVE  \/ Slot(i) \in DOMAIN t /\ Taken(t[Slot(i)], Given(i))
             \/ Slot(i) \notin DOMAIN t /\ (Given(i) = {} \/ Named(i) \/ Hidden(i))
  <2>1. CASE Slot(i) \in DOMAIN t
    <3>1. Taken(t[Slot(i)], {sa[i], sb[i]})
      BY <2>1, ShownScores
    <3> QED
      BY <2>1, <3>1 DEF Taken
  <2>2. CASE Slot(i) \notin DOMAIN t
    <3>1. Slot(i) \notin Shown(a, b)
      BY <2>2 DEF Shown, ScorePaths
    <3> QED
      BY <2>2, <3>1, FieldShown
  <2> QED
    BY <2>1, <2>2
<1> HIDE DEF t
<1>4. ItemsSound(Compared(t))
  BY <1>0, <1>3, ComparedSound
<1>5. Len(task.fields) \in Nat
  BY <1>0 DEF Apart
<1>6. Sound(Summary(t)) /\ Summary(t).at = "scored"
  BY <1>1, <1>2, <1>4, <1>5, SummarySound
<1> QED
  BY <1>6 DEF t

LEMMA BareSound ==
  ASSUME Apart, NEW a, NEW b, DOMAIN a = {Overall}, DOMAIN b = {Overall},
         \A i \in Fields : Given(i) = {}
  PROVE  Sound(Summary(Merged(a, b))) /\ Summary(Merged(a, b)).at = "scored"
<1> DEFINE t == Merged(a, b)
<1>1. ASSUME NEW n \in Leaves(a, b)
      PROVE  FALSE
  <2>1. n \in Prefixes(Overall) /\ "confidence" \in Keys(a, n)
    BY DEF Leaves, Topmost, JointLeaves
  <2>2. n \in Seq(Word)
    BY <2>1, OverallIs, PrefixesAre
  <2>3. IsStrictPrefix(n, Overall) /\ Overall[Len(n) + 1] = "confidence"
    BY <2>1 DEF Keys
  <2>4. Len(n) < 1 /\ Len(n) \in Nat
    BY <2>2, <2>3, OverallIs, StrictIs
  <2> QED
    BY <2>3, <2>4, OverallIs
<1>2. DOMAIN t = {}
  <2>1. Joined(a, b) = {}
    BY <1>1 DEF Joined
  <2>2. Kept(a, b) = {}
    BY OverallSkipped DEF Kept
  <2> QED
    BY <2>1, <2>2, MergedIs
<1> HIDE DEF t
<1>3. ScorePaths(t) = {} /\ Seen(t) = {}
  BY <1>2 DEF ScorePaths, Seen
<1>4. IsFiniteSet(ScorePaths(t)) /\ Cardinality(ScorePaths(t)) = 0
  BY <1>3, FS_EmptySet
<1>5. ItemsSound(Compared(t))
  <2>1. \A i \in Fields :
          \/ Slot(i) \in DOMAIN t /\ Taken(t[Slot(i)], Given(i))
          \/ Slot(i) \notin DOMAIN t /\ (Given(i) = {} \/ Named(i) \/ Hidden(i))
    BY <1>2
  <2> QED
    BY <2>1, ComparedSound
<1>6. Len(task.fields) \in Nat /\ 0 <= Len(task.fields)
  BY DEF Apart
<1>7. Sound(Summary(t)) /\ Summary(t).at = "scored"
  BY <1>3, <1>4, <1>5, <1>6, SummarySound
<1> QED
  BY <1>7 DEF t

LEMMA EvaluateSound ==
  ASSUME task \in Tasks, EvaluateFields
  PROVE  judged'.at \in {"failed", "scored"} /\ (judged'.at = "scored" => Sound(judged'))
<1> DEFINE so == [i \in DOMAIN task.fields |-> OcrScore(task.fields[i].value, task.lines)]
           sm == ModelScores
<1>0. Apart
  BY FieldsApart
<1>1. ASSUME task.text # NoLogprobs
      PROVE  /\ \E keys : Full(ModelTree, keys, sm)
             /\ \A i \in Fields : sm[i] \in Given(i)
  <2>1. \A i \in DOMAIN task.fields : sm[i] \in Score
    BY <1>1, ModelScoreIs
  <2>2. ModelTree = Tree(sm, {"confidence", "value"})
    BY <1>1 DEF ModelTree
  <2>3. {"confidence", "value"} \subseteq Word /\ "confidence" \in {"confidence", "value"}
    BY WordsAre
  <2>4. Full(ModelTree, {"confidence", "value"}, sm)
    BY <1>0, <2>1, <2>2, <2>3, TreeFull
  <2>5. \A i \in Fields : sm[i] \in Given(i)
    BY <1>1 DEF Given
  <2> QED
    BY <2>4, <2>5
<1>2. ASSUME task.text = NoLogprobs
      PROVE  DOMAIN ModelTree = {Overall}
  BY <1>2 DEF ModelTree, Overall
<1>3. ASSUME ~task.image, ~ScanRaises(task.fields, task.lines)
      PROVE  /\ \E keys : Full(OcrTree, keys, so)
             /\ \A i \in Fields : so[i] \in Given(i)
  <2> DEFINE keys == {"confidence", "matching_lines", "value"}
  <2>1. \A i \in DOMAIN task.fields : so[i] \in Score
    BY <1>3, OcrScoreIs
  <2>2. OcrTree = Tree(so, keys)
    BY DEF OcrTree
  <2>3. keys \subseteq Word /\ "confidence" \in keys
    BY WordsAre
  <2> HIDE DEF keys, so
  <2>4. Full(OcrTree, keys, so)
    BY <1>0, <2>1, <2>2, <2>3, TreeFull
  <2>5. \A i \in Fields : so[i] \in Given(i)
    BY <1>3 DEF Given, so, Fields
  <2> QED
    BY <2>4, <2>5
<1> HIDE DEF so, sm
<1>4. CASE task.image /\ task.text # NoLogprobs
  <2>1. Trees(ModelTree, ModelTree, sm, sm)
    BY <1>0, <1>1, <1>4 DEF Trees
  <2>2. \A i \in Fields : {sm[i], sm[i]} \subseteq Given(i)
    BY <1>1, <1>4
  <2>3. Sound(Summary(Merged(ModelTree, ModelTree)))
        /\ Summary(Merged(ModelTree, ModelTree)).at = "scored"
    BY <2>1, <2>2, MergedSound
  <2> QED
    BY <1>4, <2>3 DEF EvaluateFields
<1>5. CASE task.image /\ task.text = NoLogprobs
  <2>1. \A i \in Fields : Given(i) = {}
    BY <1>5 DEF Given
  <2>2. Sound(Summary(Merged(ModelTree, ModelTree)))
        /\ Summary(Merged(ModelTree, ModelTree)).at = "scored"
    BY <1>0, <1>2, <1>5, <2>1, BareSound
  <2> QED
    BY <1>5, <2>2 DEF EvaluateFields
<1>6. CASE ~task.image /\ ScanRaises(task.fields, task.lines)
  <2>1. judged' = [Unjudged EXCEPT !.at = "failed"]
    BY <1>6 DEF EvaluateFields
  <2> QED
    BY <2>1 DEF Unjudged
<1>7. CASE ~task.image /\ ~ScanRaises(task.fields, task.lines)
  <2>1. PICK sb : Trees(OcrTree, ModelTree, so, sb) /\ \A i \in Fields : sb[i] \in Given(i)
    <3>1. CASE task.text # NoLogprobs
      <4>1. Trees(OcrTree, ModelTree, so, sm) /\ \A i \in Fields : sm[i] \in Given(i)
        BY <1>0, <1>1, <1>3, <1>7, <3>1 DEF Trees
      <4> QED
        BY <4>1
    <3>2. CASE task.text = NoLogprobs
      <4>1. Trees(OcrTree, ModelTree, so, so) /\ \A i \in Fields : so[i] \in Given(i)
        BY <1>0, <1>2, <1>3, <1>7, <3>2 DEF Trees
      <4> QED
        BY <4>1
    <3> QED
      BY <3>1, <3>2
  <2>2. \A i \in Fields : {so[i], sb[i]} \subseteq Given(i)
    BY <1>3, <1>7, <2>1
  <2>3. Sound(Summary(Merged(OcrTree, ModelTree)))
        /\ Summary(Merged(OcrTree, ModelTree)).at = "scored"
    BY <2>1, <2>2, MergedSound
  <2> QED
    BY <1>7, <2>3 DEF EvaluateFields
<1>8. task.image \in BOOLEAN
  BY DEF Tasks
<1> QED
  BY <1>4, <1>5, <1>6, <1>7, <1>8

-------------------------------------------------------------------------------
ScoresInv ==
  /\ task \in Tasks
  /\ judged.at = "none" => totals = <<>>
  /\ judged.at = "scored" => Sound(judged)
  /\ totals # <<>> => judged.at = "scored" /\ totals = Aggregates

LEMMA SoundKept ==
  ASSUME task' = task
  PROVE  Sound(judged)' <=> Sound(judged')
<1>0. ModelScores' = ModelScores
  BY DEF ModelScores, Occurrence
<1>1. \A i : Given(i)' = Given(i)
  BY <1>0 DEF Given
<1>2. \A i : /\ Named(i)' <=> Named(i)
             /\ NamedWithin(i)' <=> NamedWithin(i)
             /\ Hidden(i)' <=> Hidden(i)
  BY DEF Named, NamedWithin, Hidden
<1> QED
  BY <1>1, <1>2 DEF Sound, ItemsSound, Fields

(* What ScoresAddUp says of the totals.                                    *)
Totals(three) ==
  /\ \A i \in 1 .. 3 : three[i] \in 0 .. One
  /\ 2 * three[3] <= 2 * three[1] + Thousandth
  /\ judged.seen > 0 =>
       (three[2] = One <=> 2000 * judged.zero <= Len(judged.items))

LEMMA TotalsSound ==
  ASSUME Apart, Sound(judged)
  PROVE  Totals(Aggregates)
<1> DEFINE n == Len(judged.items)
           m == n - judged.zero
<1>1. /\ n = Len(task.fields) /\ n \in Nat /\ DOMAIN judged.items = 1 .. n
      /\ judged.seen \in Nat /\ judged.zero \in Nat /\ judged.seen + judged.zero <= n
      /\ judged.seen > 0 =>
           /\ judged.overall \in Score /\ judged.least \in Score
           /\ 2 * judged.least <= 2 * judged.overall + Thousandth
  BY DEF Sound, ItemsSound, Apart
<1> HIDE DEF n
<1>2. CASE judged.seen > 0
  <2>1. n > 0 /\ m \in 0 .. n /\ n - m = judged.zero
    <3>1. /\ n \in Nat /\ judged.seen \in Nat /\ judged.zero \in Nat
          /\ judged.seen + judged.zero <= n
      BY <1>1
    <3> QED
      BY ONLY <1>2, <3>1
  <2> HIDE DEF m
  <2>2. Share(m, n) \in Score /\ (Share(m, n) = One <=> 2000 * (n - m) <= n)
    BY <1>1, <2>1, ShareIs
  <2>3. Aggregates = <<judged.overall, Share(m, n), judged.least>>
    BY <1>2, <2>1 DEF Aggregates, n, m
  <2>4. /\ Aggregates[1] = judged.overall /\ Aggregates[2] = Share(m, n)
        /\ Aggregates[3] = judged.least
    BY <2>3
  <2>5. /\ judged.overall \in Score /\ judged.least \in Score
        /\ 2 * judged.least <= 2 * judged.overall + Thousandth
    BY <1>1, <1>2
  <2>6. \A i \in 1 .. 3 : i = 1 \/ i = 2 \/ i = 3
    OBVIOUS
  <2>7. \A i \in 1 .. 3 : Aggregates[i] \in Score
    BY <2>2, <2>4, <2>5, <2>6
  <2>8. Aggregates[2] = One <=> 2000 * judged.zero <= Len(judged.items)
    BY <2>1, <2>2, <2>4 DEF n
  <2>9. 2 * Aggregates[3] <= 2 * Aggregates[1] + Thousandth
    BY <2>4, <2>5
  <2>10. \A i \in 1 .. 3 : Aggregates[i] \in 0 .. One
    BY <2>7 DEF Score
  <2> QED
    BY ONLY <2>8, <2>9, <2>10 DEF Totals
<1>3. CASE judged.seen = 0 /\ n > 0
  <2>1. Filled \in 0 .. n
    <3> DEFINE F == {i \in DOMAIN judged.items : judged.items[i].value \notin Unfilled}
    <3>1. F \in SUBSET (1 .. n)
      BY <1>1
    <3> HIDE DEF F
    <3>2. IsFiniteSet(1 .. n) /\ Cardinality(1 .. n) = n
      BY <1>1, FS_Interval
    <3>3. IsFiniteSet(F) /\ Cardinality(F) <= n
      BY <3>1, <3>2, FS_Subset
    <3>4. Cardinality(F) \in Nat
      BY <3>3, FS_CardinalityType
    <3> QED
      BY <1>1, <3>3, <3>4 DEF Filled, F
  <2>2. Share(Filled, n) \in Score
    BY <1>1, <1>3, <2>1, ShareIs
  <2>3. Aggregates = [i \in 1 .. 3 |-> Share(Filled, n)]
    BY <1>3 DEF Aggregates, n
  <2>4. \A i \in 1 .. 3 : Aggregates[i] = Share(Filled, n)
    BY <2>3
  <2>5. Share(Filled, n) \in Nat
    BY <2>2, ScoresAre
  <2>6. 2 * Aggregates[3] <= 2 * Aggregates[1] + Thousandth
    BY <2>4, <2>5, UnitIs
  <2> QED
    BY <1>3, <2>2, <2>4, <2>6 DEF Score, Totals
<1>4. CASE n = 0
  <2>1. judged.seen = 0
    BY <1>1, <1>4
  <2>2. Aggregates = <<0, 0, 0>>
    BY <1>4, <2>1 DEF Aggregates, n
  <2> QED
    BY <2>1, <2>2, UnitIs DEF Totals
<1>5. n \in Nat /\ judged.seen \in Nat
  BY <1>1
<1>6. (n = 0 \/ n > 0) /\ (judged.seen = 0 \/ judged.seen > 0)
  BY ONLY <1>5
<1> QED
  BY <1>2, <1>3, <1>4, <1>6

(* The scores add up: see ScoresAddUp.                                     *)
THEOREM ScoresAreSound == ScoresSpec => []ScoresAddUp
<1>1. ScoresInit => ScoresInv
  BY DEF ScoresInit, ScoresInv, Unjudged
<1>2. ScoresInv /\ [ScoresNext]_scoreVars => ScoresInv'
  <2> SUFFICES ASSUME ScoresInv, [ScoresNext]_scoreVars
               PROVE  ScoresInv'
    OBVIOUS
  <2>1. CASE EvaluateFields
    <3>1. task \in Tasks /\ task' = task /\ totals' = totals /\ totals = <<>>
      BY <2>1 DEF EvaluateFields, ScoresInv
    <3>2. judged'.at \in {"failed", "scored"} /\ (judged'.at = "scored" => Sound(judged'))
      BY <2>1, <3>1, EvaluateSound
    <3>3. Sound(judged)' <=> Sound(judged')
      BY <3>1, SoundKept
    <3>4. task' \in Tasks
      BY <3>1
    <3> QED
      BY <3>1, <3>2, <3>3, <3>4 DEF ScoresInv
  <2>2. CASE SaveScores
    <3>1. /\ task' = task /\ judged' = judged /\ judged.at = "scored" /\ totals' = Aggregates
          /\ Sound(judged) /\ task \in Tasks
      BY <2>2 DEF SaveScores, ScoresInv
    <3>2. Sound(judged)'
      BY <3>1, SoundKept
    <3>3. Aggregates' = Aggregates
      BY <3>1 DEF Aggregates, Filled
    <3> QED
      BY <3>1, <3>2, <3>3 DEF ScoresInv
  <2>3. CASE UNCHANGED scoreVars
    <3>1. task' = task /\ judged' = judged /\ totals' = totals
      BY <2>3 DEF scoreVars
    <3>2. Sound(judged)' <=> Sound(judged)
      BY <3>1, SoundKept
    <3>3. Aggregates' = Aggregates
      BY <3>1 DEF Aggregates, Filled
    <3> QED
      BY <3>1, <3>2, <3>3 DEF ScoresInv
  <2> QED
    BY <2>1, <2>2, <2>3 DEF ScoresNext
<1>3. ScoresInv => ScoresAddUp
  <2> SUFFICES ASSUME ScoresInv
               PROVE  ScoresAddUp
    OBVIOUS
  <2>1. Apart
    BY FieldsApart DEF ScoresInv
  <2>2. ASSUME totals # <<>>
        PROVE  Totals(totals)
    <3>1. Sound(judged) /\ totals = Aggregates
      BY <2>2 DEF ScoresInv
    <3>2. Totals(Aggregates)
      BY <2>1, <3>1, TotalsSound
    <3> QED
      BY ONLY <3>1, <3>2
  <2>3. ASSUME judged.at = "scored"
        PROVE  /\ judged.seen + judged.zero <= Len(task.fields)
               /\ judged.seen > 0 /\ (\A i \in DOMAIN task.fields : ~NamedWithin(i) /\ ~Hidden(i)) =>
                    judged.seen + judged.zero = Len(task.fields)
               /\ \A i \in DOMAIN judged.items :
                    \/ \E given \in Given(i) : Near(judged.items[i].score, given)
                    \/ judged.items[i].score = 0
                       /\ (Given(i) = {} \/ Named(i) \/ Hidden(i))
    <3>1. Sound(judged)
      BY <2>3 DEF ScoresInv
    <3> QED
      BY <3>1, Zenon DEF Sound, ItemsSound
  <2> QED
    BY <2>2, <2>3, SMTT(30) DEF ScoresAddUp, Totals
<1> QED
  BY <1>1, <1>2, <1>3, PTL DEF ScoresSpec
===============================================================================
