----------------------------- MODULE GroupChatProofs -----------------------------
(***************************************************************************)
(* Theorems about GroupChat for any agents, decisions, sign-offs, limits   *)
(* and number of turns: the responses, the detection of loops, the choice  *)
(* of the result, the record of the tool calls and the excerpts.           *)
(***************************************************************************)
EXTENDS GroupChat, OrderLemmas, SequenceTheorems

-------------------------------------------------------------------------------
(* The values of the variables.                                            *)
Decided == Decisions \cup {Garbled}

Texts == Decided \cup Signs \cup {NoText}

Turns == [agent : Agents, text : Texts, called : BOOLEAN, sent : 0 .. 2]

Responses == [agent : Agents, text : Texts]

Asks == {d.ask : d \in Decisions} \cup {NoAsk}

Selections == [to : Reviewers \cup {Nobody}, ask : Asks]

Memory ==
  [last : Agents \cup {Nobody}, buffer : Texts, responses : Seq(Responses), conv : Seq(Turns),
   progress : Nat, choice : Selections, streak : Nat, seen : Nat, asked : Asks,
   stopped : BOOLEAN, forced : {"no", "loop", "rounds", "timeout"}]

Uses == [agent : Agents, call : Nat, source : {"stream", "conversation"}]

(* Who decides is the Coordinator.                                         *)
Fits(ms) == \A i \in 1 .. Len(ms) : ms[i].agent = Coordinator <=> ms[i].text \in Decided

ChatTypes ==
  /\ stage \in {"streaming", "generate", "retry", "report", "done"}
  /\ said \in Seq(Turns) /\ Fits(said)
  /\ o \in Memory /\ Fits(o.responses) /\ o.conv \in {<<>>, said}
  /\ recorded \subseteq Nat /\ usage \in Seq(Uses)

(* While the chat streams, the buffer holds the turn under way.            *)
TurnInv ==
  stage = "streaming" =>
    /\ o.conv = <<>> /\ o.forced = "no" /\ ~o.stopped /\ Len(o.responses) < MaxRounds
    /\ said = <<>> => o.last = Nobody /\ o.buffer = NoText
    /\ said # <<>> => o.last = said[Len(said)].agent /\ o.buffer = said[Len(said)].text

Buffered(c) == IF Pending(c) THEN <<[agent |-> c.last, text |-> c.buffer]>> ELSE <<>>

(* The responses all are the turns of ms that have a text.                 *)
Told(ms, all) ==
  /\ Len(all) = Cardinality(WithText(ms, Len(ms)))
  /\ \A i \in WithText(ms, Len(ms)) :
       all[Cardinality(WithText(ms, i))] = [agent |-> ms[i].agent, text |-> ms[i].text]

ResponseInv ==
  /\ Told(said, o.responses \o Buffered(o))
  /\ o.conv # <<>> => ~Pending(o)
  /\ Len(o.responses) <= MaxRounds

(* The streak counts the selections that repeat each other.                *)
LastOne(rs, l) == Selecting(rs, l) /\ \A i \in l + 1 .. Len(rs) : ~Selecting(rs, i)

Repeats(rs, l) == \E i \in 1 .. l : Again(rs, i, l)

Streak(c, l) ==
  LET rs == c.responses IN
  /\ c.choice = Selection(rs[l].text) /\ c.seen <= c.progress
  /\ c.progress = c.seen <=> \A i \in l + 1 .. Len(rs) : rs[i].agent = Coordinator
  /\ c.streak \in 1 .. 3
  /\ c.streak = 1 <=> ~Repeats(rs, l)
  /\ c.streak = 3 <=> \E j \in 1 .. l : Again(rs, j, l) /\ Repeats(rs, j)

StreakInv(c) ==
  LET rs == c.responses IN
  \/ /\ \A i \in 1 .. Len(rs) : ~Selecting(rs, i)
     /\ c.streak = 0 /\ c.choice.to = Nobody
  \/ \E l \in 1 .. Len(rs) : LastOne(rs, l) /\ Streak(c, l)

LoopInv ==
  /\ StreakInv(o)
  /\ o.streak = 3 => o.forced # "no" \/ o.stopped
  /\ o.forced = "loop" => o.streak = 3

(* The instruction that counts is the last one.                            *)
LastAsk(rs, l) == Instructs(rs, l) /\ \A i \in l + 1 .. Len(rs) : ~Instructs(rs, i)

AskedInv(c) ==
  LET rs == c.responses IN
  \/ c.asked = NoAsk /\ \A i \in 1 .. Len(rs) : ~Instructs(rs, i)
  \/ \E l \in 1 .. Len(rs) : LastAsk(rs, l) /\ c.asked = rs[l].text.ask

EarnedInv ==
  /\ AskedInv(o)
  /\ stage \in {"generate", "retry"} \/ outcome = "typed" =>
       o.forced = "no" /\ (o.stopped => o.asked \in {NoAsk, "complete"})

(* What is used is what is recorded.                                       *)
Lists(us, rec) ==
  /\ \A i, j \in 1 .. Len(us) : us[i].call = us[j].call => i = j
  /\ \A i \in 1 .. Len(us) : us[i].call \in rec
  /\ \A x \in rec : \E i \in 1 .. Len(us) : us[i].call = x

ToolInv ==
  /\ Lists(usage, recorded)
  /\ recorded \subseteq Calls
  /\ \A i \in 1 .. Len(usage) : usage[i].agent = said[usage[i].call].agent
  /\ o.conv # <<>> => Calls \subseteq recorded

ChatInv == ChatTypes /\ TurnInv /\ ResponseInv /\ LoopInv /\ EarnedInv /\ ToolInv

Reasons == {"no", "loop", "rounds", "timeout"}

(* What a step leaves of the orchestrator's fields.                        *)
SameTurn(c, r) ==
  /\ r.last = c.last /\ r.buffer = c.buffer /\ r.responses = c.responses /\ r.conv = c.conv
  /\ r.progress = c.progress

SameLoop(c, r) == r.choice = c.choice /\ r.streak = c.streak /\ r.seen = c.seen

ForcedIs(c, r, why) ==
  /\ r \in Memory /\ SameTurn(c, r) /\ SameLoop(c, r)
  /\ r.asked = c.asked /\ r.stopped = c.stopped
  /\ r.forced = IF c.stopped \/ c.forced # "no" THEN c.forced ELSE why

LEMMA ForcedIsForced ==
  ASSUME NEW c \in Memory, NEW why \in Reasons
  PROVE  ForcedIs(c, Forced(c, why), why)
<1>1. CASE c.stopped \/ c.forced # "no"
  BY <1>1 DEF Forced, ForcedIs, SameTurn, SameLoop
<1>2. CASE ~(c.stopped \/ c.forced # "no")
  <2>1. Forced(c, why) = [c EXCEPT !.forced = why]
    BY <1>2 DEF Forced
  <2> QED
    BY <1>2, <2>1 DEF ForcedIs, SameTurn, SameLoop, Memory, Reasons
<1> QED
  BY <1>1, <1>2

(* The selection is new, or repeated after an answer, or repeated.         *)
RepeatIs(c, r, s) ==
  /\ r \in Memory /\ SameTurn(c, r)
  /\ r.asked = c.asked /\ r.stopped = c.stopped /\ r.forced = c.forced
  /\ r.choice = s
  /\ s # c.choice => r.streak = 1 /\ r.seen = c.progress
  /\ s = c.choice /\ c.progress # c.seen => r.streak = 1 /\ r.seen = c.progress
  /\ s = c.choice /\ c.progress = c.seen => r.streak = c.streak + 1 /\ r.seen = c.seen

LEMMA SelectionIs ==
  ASSUME NEW d \in Decisions
  PROVE  Selection(d) \in Selections /\ Selection(d).to = d.to
BY ChatAssumption DEF Selection, Selections, Asks

LEMMA RepeatIsRepeat ==
  ASSUME NEW c \in Memory, NEW d \in Decisions
  PROVE  RepeatIs(c, Repeat(c, d), Selection(d))
<1> DEFINE s == Selection(d)
<1>0. s \in Selections
  BY SelectionIs
<1> HIDE DEF s
<1>1. CASE s # c.choice
  <2> DEFINE x == [c EXCEPT !.choice = s]
             y == [x EXCEPT !.streak = 1]
             z == [y EXCEPT !.seen = c.progress]
  <2>1. Repeat(c, d) = z
    BY <1>1 DEF Repeat, s
  <2>2. x \in Memory /\ SameTurn(c, x) /\ x.choice = s /\ x.asked = c.asked
        /\ x.stopped = c.stopped /\ x.forced = c.forced
    BY <1>0 DEF Memory, SameTurn
  <2> HIDE DEF x
  <2>3. y \in Memory /\ SameTurn(c, y) /\ y.choice = s /\ y.streak = 1 /\ y.asked = c.asked
        /\ y.stopped = c.stopped /\ y.forced = c.forced
    BY <2>2 DEF Memory, SameTurn
  <2> HIDE DEF y
  <2>4. z \in Memory /\ SameTurn(c, z) /\ z.choice = s /\ z.streak = 1 /\ z.seen = c.progress
        /\ z.asked = c.asked /\ z.stopped = c.stopped /\ z.forced = c.forced
    BY <2>3 DEF Memory, SameTurn
  <2> QED
    BY <1>1, <2>1, <2>4 DEF RepeatIs, s
<1>2. CASE s = c.choice /\ c.progress # c.seen
  <2> DEFINE y == [c EXCEPT !.streak = 1]
             z == [y EXCEPT !.seen = c.progress]
  <2>1. Repeat(c, d) = z
    BY <1>2 DEF Repeat, s
  <2>3. y \in Memory /\ SameTurn(c, y) /\ y.choice = s /\ y.streak = 1 /\ y.asked = c.asked
        /\ y.stopped = c.stopped /\ y.forced = c.forced
    BY <1>2 DEF Memory, SameTurn
  <2> HIDE DEF y
  <2>4. z \in Memory /\ SameTurn(c, z) /\ z.choice = s /\ z.streak = 1 /\ z.seen = c.progress
        /\ z.asked = c.asked /\ z.stopped = c.stopped /\ z.forced = c.forced
    BY <2>3 DEF Memory, SameTurn
  <2> QED
    BY <1>2, <2>1, <2>4 DEF RepeatIs, s
<1>3. CASE s = c.choice /\ c.progress = c.seen
  <2> DEFINE y == [c EXCEPT !.streak = @ + 1]
  <2>1. Repeat(c, d) = y
    BY <1>3 DEF Repeat, s
  <2>2. c.streak + 1 \in Nat
    BY DEF Memory
  <2>3. y \in Memory /\ SameTurn(c, y) /\ y.choice = s /\ y.streak = c.streak + 1
        /\ y.seen = c.seen /\ y.asked = c.asked
        /\ y.stopped = c.stopped /\ y.forced = c.forced
    BY <1>3, <2>2 DEF Memory, SameTurn
  <2> QED
    BY <1>3, <2>1, <2>3 DEF RepeatIs, s
<1> QED
  BY <1>1, <1>2, <1>3

(* What a decision does.                                                   *)
DirectedIs(c, r, d) ==
  /\ r \in Memory /\ SameTurn(c, r)
  /\ r.asked = IF d.ask = NoAsk THEN c.asked ELSE d.ask
  /\ ~Selects(d) => SameLoop(c, r) /\ r.forced = c.forced
  /\ Selects(d) =>
       /\ r.choice = Selection(d)
       /\ Selection(d) # c.choice => r.streak = 1 /\ r.seen = c.progress
       /\ Selection(d) = c.choice /\ c.progress # c.seen => r.streak = 1 /\ r.seen = c.progress
       /\ Selection(d) = c.choice /\ c.progress = c.seen => r.streak = c.streak + 1 /\ r.seen = c.seen
       /\ r.forced = IF r.streak >= 3 /\ ~(c.stopped \/ c.forced # "no") THEN "loop" ELSE c.forced
  /\ c.stopped => r.stopped

LEMMA HeardIs ==
  ASSUME NEW c \in Memory, NEW d \in Decisions,
         NEW h, h = IF d.ask = NoAsk THEN c ELSE [c EXCEPT !.asked = d.ask]
  PROVE  /\ h \in Memory /\ SameTurn(c, h) /\ SameLoop(c, h)
         /\ h.asked = IF d.ask = NoAsk THEN c.asked ELSE d.ask
         /\ h.stopped = c.stopped /\ h.forced = c.forced
<1>1. CASE d.ask = NoAsk
  BY <1>1 DEF SameTurn, SameLoop
<1>2. CASE d.ask # NoAsk
  <2>1. h = [c EXCEPT !.asked = d.ask] /\ d.ask \in Asks
    BY <1>2 DEF Asks
  <2> QED
    BY <1>2, <2>1 DEF SameTurn, SameLoop, Memory
<1> QED
  BY <1>1, <1>2

LEMMA StoppingIs ==
  ASSUME NEW c \in Memory, NEW d \in Decisions, NEW r, r = Stopping(c, d)
  PROVE  /\ r \in Memory /\ SameTurn(c, r) /\ SameLoop(c, r)
         /\ r.asked = c.asked /\ r.forced = c.forced /\ (c.stopped => r.stopped)
<1>1. r = [c EXCEPT !.stopped = TRUE] \/ r = c
  BY DEF Stopping
<1>2. CASE r = c
  BY <1>2 DEF SameTurn, SameLoop
<1>3. CASE r = [c EXCEPT !.stopped = TRUE]
  BY <1>3 DEF SameTurn, SameLoop, Memory
<1> QED
  BY <1>1, <1>2, <1>3

LEMMA DirectedIsDirected ==
  ASSUME NEW c \in Memory, NEW d \in Decisions
  PROVE  DirectedIs(c, Directed(c, d), d)
<1> DEFINE h == IF d.ask = NoAsk THEN c ELSE [c EXCEPT !.asked = d.ask]
           l == Looping(h, d)
           r == Stopping(l, d)
<1>1. /\ h \in Memory /\ SameTurn(c, h) /\ SameLoop(c, h)
      /\ h.asked = IF d.ask = NoAsk THEN c.asked ELSE d.ask
      /\ h.stopped = c.stopped /\ h.forced = c.forced
  BY HeardIs
<1>2. Directed(c, d) = r
  BY DEF Directed
<1> HIDE DEF h
<1>3. CASE ~Selects(d)
  <2>1. l = h
    BY <1>3 DEF Looping
  <2>2. /\ r \in Memory /\ SameTurn(h, r) /\ SameLoop(h, r)
        /\ r.asked = h.asked /\ r.forced = h.forced /\ (h.stopped => r.stopped)
    BY <1>1, <2>1, StoppingIs
  <2> HIDE DEF l, r
  <2> QED
    BY <1>1, <1>2, <1>3, <2>2 DEF DirectedIs, SameTurn, SameLoop
<1>4. CASE Selects(d)
  <2> DEFINE q == Repeat(h, d)
             f == Forced(q, "loop")
  <2>1. RepeatIs(h, q, Selection(d))
    BY <1>1, RepeatIsRepeat
  <2>2. l = IF q.streak >= 3 THEN f ELSE q
    BY <1>4 DEF Looping
  <2>3. ForcedIs(q, f, "loop")
    BY <2>1, ForcedIsForced DEF RepeatIs, Reasons
  <2> HIDE DEF q, f
  <2>4. /\ l \in Memory /\ SameTurn(q, l) /\ SameLoop(q, l)
        /\ l.asked = q.asked /\ l.stopped = q.stopped
        /\ l.forced = IF q.streak >= 3 /\ ~(q.stopped \/ q.forced # "no") THEN "loop" ELSE q.forced
    BY <2>1, <2>2, <2>3 DEF RepeatIs, ForcedIs, SameTurn, SameLoop
  <2>5. /\ r \in Memory /\ SameTurn(l, r) /\ SameLoop(l, r)
        /\ r.asked = l.asked /\ r.forced = l.forced /\ (l.stopped => r.stopped)
    BY <2>4, StoppingIs
  <2> HIDE DEF l, r
  <2>6. /\ h.choice = c.choice /\ h.streak = c.streak /\ h.seen = c.seen /\ h.progress = c.progress
    BY <1>1 DEF SameTurn, SameLoop
  <2>7. r.choice = q.choice /\ r.streak = q.streak /\ r.seen = q.seen
    BY <2>4, <2>5 DEF SameLoop
  <2>8. SameTurn(c, r)
    BY <1>1, <2>1, <2>4, <2>5 DEF RepeatIs, SameTurn
  <2>9. /\ r.asked = h.asked /\ (c.stopped => r.stopped)
        /\ r.forced = IF r.streak >= 3 /\ ~(c.stopped \/ c.forced # "no") THEN "loop" ELSE c.forced
    BY <1>1, <2>1, <2>4, <2>5, <2>7 DEF RepeatIs
  <2>10. /\ r.choice = Selection(d)
         /\ Selection(d) # c.choice => r.streak = 1 /\ r.seen = c.progress
         /\ Selection(d) = c.choice /\ c.progress # c.seen => r.streak = 1 /\ r.seen = c.progress
         /\ Selection(d) = c.choice /\ c.progress = c.seen => r.streak = c.streak + 1 /\ r.seen = c.seen
    BY <2>1, <2>6, <2>7 DEF RepeatIs
  <2> QED
    BY <1>1, <1>2, <1>4, <2>5, <2>8, <2>9, <2>10 DEF DirectedIs
<1> QED
  BY <1>3, <1>4

LEMMA TextsApart ==
  /\ Garbled \notin Decisions /\ NoText \notin Decided /\ \A t \in Decisions : t # Garbled /\ t # NoText
  /\ \A t \in Signs \cup {NoText} : t \notin Decided
  /\ Coordinator \notin Reviewers /\ Nobody \notin Agents
BY ChatAssumption DEF Decided

(* The turn under way becomes a response.                                  *)
CompletedIs(c, r) ==
  /\ r \in Memory /\ r.last = c.last /\ r.buffer = NoText /\ r.conv = c.conv
  /\ r.responses = Append(c.responses, [agent |-> c.last, text |-> c.buffer])
  /\ r.progress = IF c.last = Coordinator THEN c.progress ELSE c.progress + 1
  /\ c.buffer \notin Decisions =>
       SameLoop(c, r) /\ r.asked = c.asked /\ r.stopped = c.stopped /\ r.forced = c.forced
  /\ c.buffer \in Decisions =>
       \E m : /\ m.progress = c.progress /\ SameLoop(c, m) /\ m.asked = c.asked
              /\ m.stopped = c.stopped /\ m.forced = c.forced
              /\ DirectedIs(m, r, c.buffer)

LEMMA CompletedIsCompleted ==
  ASSUME NEW c \in Memory, c.last \in Agents, c.last = Coordinator <=> c.buffer \in Decided
  PROVE  CompletedIs(c, Completed(c))
<1> DEFINE e == [agent |-> c.last, text |-> c.buffer]
           p == IF c.last = Coordinator THEN c.progress ELSE c.progress + 1
           x == [c EXCEPT !.responses = Append(@, e)]
           y == [x EXCEPT !.progress = IF c.last = Coordinator THEN @ ELSE @ + 1]
           z == [y EXCEPT !.buffer = NoText]
<1>0. e \in Responses /\ NoText \in Texts /\ p \in Nat /\ c.responses \in Seq(Responses)
  BY DEF Memory, Responses, Texts
<1>1. Append(c.responses, e) \in Seq(Responses)
  BY <1>0
<1> HIDE DEF e, p
<1>2. /\ x \in Memory /\ x.last = c.last /\ x.conv = c.conv /\ x.responses = Append(c.responses, e)
      /\ x.progress = c.progress /\ SameLoop(c, x) /\ x.asked = c.asked /\ x.stopped = c.stopped
      /\ x.forced = c.forced
  BY <1>0, <1>1 DEF Memory, SameLoop
<1>3. y = [x EXCEPT !.progress = p]
  BY <1>2 DEF p
<1> HIDE DEF x
<1>4. /\ y \in Memory /\ y.last = c.last /\ y.conv = c.conv /\ y.responses = Append(c.responses, e)
      /\ y.progress = p /\ SameLoop(c, y) /\ y.asked = c.asked /\ y.stopped = c.stopped
      /\ y.forced = c.forced
  BY <1>0, <1>2, <1>3 DEF Memory, SameLoop
<1> HIDE DEF y
<1>5. /\ z \in Memory /\ z.last = c.last /\ z.conv = c.conv /\ z.responses = Append(c.responses, e)
      /\ z.progress = p /\ SameLoop(c, z) /\ z.asked = c.asked /\ z.stopped = c.stopped
      /\ z.forced = c.forced /\ z.buffer = NoText
  BY <1>0, <1>4 DEF Memory, SameLoop
<1>6. Completed(c) = IF c.last # Coordinator \/ c.buffer = Garbled THEN z ELSE Directed(z, c.buffer)
  BY DEF Completed, x, y, e
<1> HIDE DEF z
<1>7. CASE c.last # Coordinator \/ c.buffer = Garbled
  <2>1. c.buffer \notin Decisions
    BY <1>7, TextsApart DEF Decided
  <2> QED
    BY <1>5, <1>6, <1>7, <2>1 DEF CompletedIs, e, p
<1>8. CASE ~(c.last # Coordinator \/ c.buffer = Garbled)
  <2>1. c.buffer \in Decisions /\ c.last = Coordinator /\ p = c.progress
    BY <1>8 DEF Decided, p
  <2>2. DirectedIs(z, Completed(c), c.buffer)
    BY <1>5, <1>6, <1>8, <2>1, DirectedIsDirected
  <2> DEFINE r == Completed(c)
  <2> HIDE DEF r
  <2>3. /\ r \in Memory /\ r.last = c.last /\ r.buffer = NoText /\ r.conv = c.conv
        /\ r.responses = Append(c.responses, [agent |-> c.last, text |-> c.buffer])
        /\ r.progress = p
    BY <1>5, <2>2 DEF DirectedIs, SameTurn, e, r
  <2>4. \E m : /\ m.progress = c.progress /\ SameLoop(c, m) /\ m.asked = c.asked
               /\ m.stopped = c.stopped /\ m.forced = c.forced
               /\ DirectedIs(m, r, c.buffer)
    BY <1>5, <2>1, <2>2 DEF r
  <2>5. CompletedIs(c, r)
    BY <2>1, <2>3, <2>4 DEF CompletedIs, p
  <2> QED
    BY <2>5 DEF r
<1> QED
  BY <1>7, <1>8

(* Sequences that grow.                                                    *)
LEMMA Grows ==
  ASSUME NEW S, NEW q \in Seq(S), NEW e \in S, NEW n, n = Len(q), NEW r, r = Append(q, e)
  PROVE  /\ n \in Nat /\ r \in Seq(S) /\ Len(r) = n + 1 /\ r[n + 1] = e
         /\ \A i \in 1 .. n : r[i] = q[i]
OBVIOUS

(* The turns with a text, one more turn.                                   *)
LEMMA TextsOf ==
  ASSUME NEW ms, NEW n \in Nat
  PROVE  IsFiniteSet(WithText(ms, n)) /\ Cardinality(WithText(ms, n)) \in Nat
<1>1. IsFiniteSet(1 .. n)
  BY FS_Interval
<1>2. WithText(ms, n) \subseteq 1 .. n
  BY DEF WithText
<1>3. IsFiniteSet(WithText(ms, n))
  BY <1>1, <1>2, FS_Subset
<1> QED
  BY <1>3, FS_CardinalityType

LEMMA TellsOn ==
  ASSUME NEW ms \in Seq(Turns), NEW all \in Seq(Responses), Told(ms, all), NEW t \in Turns
  PROVE  /\ t.text # NoText =>
              Told(Append(ms, t), Append(all, [agent |-> t.agent, text |-> t.text]))
         /\ t.text = NoText => Told(Append(ms, t), all)
<1> DEFINE n == Len(ms)
           r == Append(ms, t)
           e == [agent |-> t.agent, text |-> t.text]
<1>1. n \in Nat /\ Len(r) = n + 1 /\ r[n + 1] = t /\ \A i \in 1 .. n : r[i] = ms[i]
  BY Grows
<1>2. e \in Responses
  BY DEF Turns, Responses
<1> HIDE DEF r, e
<1>3. \A i \in 1 .. n : WithText(r, i) = WithText(ms, i)
  BY <1>1 DEF WithText
<1>4. WithText(r, n) = WithText(ms, n)
  BY <1>1 DEF WithText
<1>5. /\ IsFiniteSet(WithText(ms, n)) /\ Cardinality(WithText(ms, n)) \in Nat
      /\ n + 1 \notin WithText(ms, n)
  BY <1>1, TextsOf DEF WithText
<1>6. Len(all) = Cardinality(WithText(ms, n)) /\ Len(all) \in Nat
  BY DEF Told
<1>7. ASSUME NEW i \in WithText(ms, n)
      PROVE  /\ i \in 1 .. n /\ Cardinality(WithText(ms, i)) \in 1 .. Len(all)
             /\ r[i] = ms[i] /\ WithText(r, i) = WithText(ms, i)
             /\ all[Cardinality(WithText(ms, i))] = [agent |-> ms[i].agent, text |-> ms[i].text]
  <2>1. i \in 1 .. n /\ i \in WithText(ms, i) /\ WithText(ms, i) \subseteq WithText(ms, n)
    BY <1>7, <1>1 DEF WithText
  <2>2. /\ IsFiniteSet(WithText(ms, i)) /\ Cardinality(WithText(ms, i)) \in Nat
    BY <2>1, TextsOf
  <2>3. Cardinality(WithText(ms, i)) <= Cardinality(WithText(ms, n))
    BY <1>5, <2>1, FS_Subset
  <2>4. Cardinality(WithText(ms, i)) # 0
    BY <2>1, <2>2, FS_EmptySet
  <2> QED
    BY <1>1, <1>3, <1>6, <1>7, <2>1, <2>2, <2>3, <2>4 DEF Told
<1>8. CASE t.text # NoText
  <2> DEFINE a == Append(all, e)
  <2>1. WithText(r, n + 1) = WithText(ms, n) \cup {n + 1}
    BY <1>1, <1>8 DEF WithText
  <2>2. Cardinality(WithText(r, n + 1)) = Len(all) + 1
    BY <1>5, <1>6, <2>1, FS_AddElement
  <2>3. Len(a) = Len(all) + 1 /\ a[Len(all) + 1] = e /\ \A k \in 1 .. Len(all) : a[k] = all[k]
    BY <1>2, Grows
  <2> HIDE DEF a
  <2>4. ASSUME NEW i \in WithText(r, n + 1)
        PROVE  a[Cardinality(WithText(r, i))] = [agent |-> r[i].agent, text |-> r[i].text]
    <3>1. CASE i = n + 1
      BY <1>1, <2>2, <2>3, <3>1 DEF e
    <3>2. CASE i \in WithText(ms, n)
      BY <1>7, <2>3, <3>2
    <3> QED
      BY <2>1, <3>1, <3>2
  <2>5. Told(r, a)
    BY <1>1, <2>2, <2>3, <2>4 DEF Told
  <2> QED
    BY <1>8, <2>5 DEF r, a, e
<1>9. CASE t.text = NoText
  <2>1. WithText(r, n + 1) = WithText(ms, n)
    BY <1>1, <1>9 DEF WithText
  <2>2. Told(r, all)
    BY <1>1, <1>6, <1>7, <2>1 DEF Told
  <2> QED
    BY <1>9, <2>2 DEF r
<1> QED
  BY <1>8, <1>9

(* A longer sequence is as before where the shorter one was.               *)
Extends(rs, r, n) == n \in Nat /\ Len(rs) = n /\ Len(r) = n + 1 /\ \A i \in 1 .. n : r[i] = rs[i]

LEMMA SelectingOn ==
  ASSUME NEW rs, NEW r, NEW n, Extends(rs, r, n)
  PROVE  /\ \A i \in 1 .. n : Selecting(r, i) <=> Selecting(rs, i)
         /\ \A i, j \in 1 .. n : Again(r, i, j) <=> Again(rs, i, j)
         /\ \A j \in 1 .. n : Repeats(r, j) <=> Repeats(rs, j)
<1>1. \A i \in 1 .. n : Selecting(r, i) <=> Selecting(rs, i)
  BY DEF Extends, Selecting
<1>2. \A i, j \in 1 .. n : Again(r, i, j) <=> Again(rs, i, j)
  <2> SUFFICES ASSUME NEW i \in 1 .. n, NEW j \in 1 .. n
               PROVE  Again(r, i, j) <=> Again(rs, i, j)
    OBVIOUS
  <2>1. \A k \in i + 1 .. j - 1 : k \in 1 .. n
    BY DEF Extends
  <2>2. \A k \in i + 1 .. j - 1 : r[k] = rs[k] /\ (Selecting(r, k) <=> Selecting(rs, k))
    BY <1>1, <2>1 DEF Extends
  <2>3. r[i] = rs[i] /\ r[j] = rs[j]
    BY DEF Extends
  <2> QED
    BY <1>1, <2>2, <2>3 DEF Again
<1>3. \A j \in 1 .. n : \A i \in 1 .. j : i \in 1 .. n
  BY DEF Extends
<1>4. \A j \in 1 .. n : Repeats(r, j) <=> Repeats(rs, j)
  BY <1>2, <1>3 DEF Repeats
<1> QED
  BY <1>1, <1>2, <1>4

(* A response that selects nobody.                                         *)
LEMMA StreakStays ==
  ASSUME NEW c \in Memory, NEW r \in Memory, NEW n, Extends(c.responses, r.responses, n),
         StreakInv(c), ~Selecting(r.responses, n + 1), SameLoop(c, r),
         r.progress = IF r.responses[n + 1].agent = Coordinator THEN c.progress ELSE c.progress + 1
  PROVE  StreakInv(r)
<1> DEFINE rs == c.responses
           qs == r.responses
<1>0. n \in Nat /\ Len(rs) = n /\ Len(qs) = n + 1 /\ \A i \in 1 .. n : qs[i] = rs[i]
  BY DEF Extends
<1>1. /\ \A i \in 1 .. n : Selecting(qs, i) <=> Selecting(rs, i)
      /\ \A i, j \in 1 .. n : Again(qs, i, j) <=> Again(rs, i, j)
      /\ \A j \in 1 .. n : Repeats(qs, j) <=> Repeats(rs, j)
  BY SelectingOn
<1>2. \A i \in 1 .. n + 1 : i \in 1 .. n \/ i = n + 1
  BY <1>0
<1>3. c.progress \in Nat /\ c.seen \in Nat /\ r.choice = c.choice /\ r.streak = c.streak /\ r.seen = c.seen
  BY DEF Memory, SameLoop
<1>4. CASE /\ \A i \in 1 .. n : ~Selecting(rs, i)
           /\ c.streak = 0 /\ c.choice.to = Nobody
  BY <1>0, <1>1, <1>2, <1>3, <1>4 DEF StreakInv
<1>5. ASSUME NEW l \in 1 .. n, LastOne(rs, l), Streak(c, l)
      PROVE  StreakInv(r)
  <2>1. \A i \in l + 1 .. n + 1 : i \in l + 1 .. n \/ i = n + 1
    BY <1>0
  <2>2. \A i \in l + 1 .. n : i \in 1 .. n
    BY <1>0
  <2>3. LastOne(qs, l)
    BY <1>0, <1>1, <1>5, <2>1, <2>2 DEF LastOne
  <2>4. qs[l] = rs[l] /\ \A i \in l + 1 .. n : qs[i] = rs[i]
    BY <1>0, <2>2
  <2>5. n + 1 \in l + 1 .. n + 1 /\ l \in 1 .. n + 1 /\ \A i \in l + 1 .. n : i \in l + 1 .. n + 1
    BY <1>0
  <2>6. r.choice = Selection(qs[l].text) /\ r.seen <= r.progress
    BY <1>3, <1>5, <2>4 DEF Streak
  <2>7. r.progress = r.seen <=> \A i \in l + 1 .. n + 1 : qs[i].agent = Coordinator
    <3>1. CASE qs[n + 1].agent = Coordinator
      BY <1>0, <1>3, <1>5, <2>1, <2>4, <2>5, <3>1 DEF Streak
    <3>2. CASE qs[n + 1].agent # Coordinator
      BY <1>0, <1>3, <1>5, <2>1, <2>4, <2>5, <3>2 DEF Streak
    <3> QED
      BY <3>1, <3>2
  <2>8. /\ r.streak \in 1 .. 3
        /\ r.streak = 1 <=> ~Repeats(qs, l)
    BY <1>1, <1>3, <1>5 DEF Streak
  <2>9. \A j \in 1 .. l : j \in 1 .. n
    BY <1>0
  <2>10. r.streak = 3 <=> \E j \in 1 .. l : Again(qs, j, l) /\ Repeats(qs, j)
    BY <1>1, <1>3, <1>5, <2>9 DEF Streak
  <2>11. Streak(r, l)
    BY <1>0, <2>6, <2>7, <2>8, <2>10 DEF Streak
  <2> QED
    BY <1>0, <2>3, <2>5, <2>11 DEF StreakInv
<1> QED
  BY <1>0, <1>4, <1>5 DEF StreakInv

(* A response that selects somebody, after what was selected before.       *)
LEMMA AgainNow ==
  ASSUME NEW rs, NEW r, NEW n, Extends(rs, r, n), Selecting(r, n + 1)
  PROVE  /\ (\A i \in 1 .. n : ~Selecting(rs, i)) => \A i \in 1 .. n + 1 : ~Again(r, i, n + 1)
         /\ \A l \in 1 .. n : LastOne(rs, l) =>
              \A i \in 1 .. n + 1 : Again(r, i, n + 1) <=>
                 /\ i = l /\ Selection(rs[l].text) = Selection(r[n + 1].text)
                 /\ \A k \in l + 1 .. n : rs[k].agent = Coordinator
<1>0. n \in Nat /\ Len(rs) = n /\ Len(r) = n + 1 /\ \A i \in 1 .. n : r[i] = rs[i]
  BY DEF Extends
<1>1. \A i \in 1 .. n : Selecting(r, i) <=> Selecting(rs, i)
  BY SelectingOn
<1>2. \A i \in 1 .. n + 1 : i < n + 1 => i \in 1 .. n
  BY <1>0
<1>3. (\A i \in 1 .. n : ~Selecting(rs, i)) => \A i \in 1 .. n + 1 : ~Again(r, i, n + 1)
  BY <1>1, <1>2 DEF Again
<1>4. ASSUME NEW l \in 1 .. n, LastOne(rs, l), NEW i \in 1 .. n + 1, Again(r, i, n + 1)
      PROVE  /\ i = l /\ Selection(rs[l].text) = Selection(r[n + 1].text)
             /\ \A k \in l + 1 .. n : rs[k].agent = Coordinator
  <2>1. i \in 1 .. n /\ Selecting(rs, i) /\ Selection(r[i].text) = Selection(r[n + 1].text)
        /\ \A k \in i + 1 .. (n + 1) - 1 : r[k].agent = Coordinator /\ ~Selecting(r, k)
    BY <1>1, <1>2, <1>4 DEF Again
  <2>2. (n + 1) - 1 = n
    BY <1>0
  <2>3. Selecting(rs, l) /\ \A k \in l + 1 .. n : ~Selecting(rs, k)
    BY <1>0, <1>4 DEF LastOne
  <2>4. ~(i > l)
    <3>1. i > l => i \in l + 1 .. n
      BY <1>0, <2>1
    <3> QED
      BY <2>1, <2>3, <3>1
  <2>5. ~(i < l)
    <3>1. i < l => l \in i + 1 .. n
      BY <1>0, <2>1
    <3> QED
      BY <1>1, <2>1, <2>2, <2>3, <3>1
  <2>6. i = l
    BY <1>0, <2>4, <2>5
  <2>7. \A k \in l + 1 .. n : k \in 1 .. n
    BY <1>0
  <2> QED
    BY <1>0, <2>1, <2>2, <2>6, <2>7
<1>5. ASSUME NEW l \in 1 .. n, LastOne(rs, l), Selection(rs[l].text) = Selection(r[n + 1].text),
             \A k \in l + 1 .. n : rs[k].agent = Coordinator
      PROVE  Again(r, l, n + 1)
  <2>1. Selecting(rs, l) /\ \A k \in l + 1 .. n : ~Selecting(rs, k)
    BY <1>0, <1>5 DEF LastOne
  <2>2. (n + 1) - 1 = n /\ l < n + 1 /\ \A k \in l + 1 .. n : k \in 1 .. n
    BY <1>0
  <2>3. Selecting(r, l) /\ Selection(r[l].text) = Selection(r[n + 1].text)
    BY <1>0, <1>1, <1>5, <2>1
  <2>4. \A k \in l + 1 .. n : r[k].agent = Coordinator /\ ~Selecting(r, k)
    BY <1>0, <1>1, <1>5, <2>1, <2>2
  <2> QED
    BY <2>2, <2>3, <2>4 DEF Again
<1> QED
  BY <1>3, <1>4, <1>5

LEMMA StreakGoesOn ==
  ASSUME NEW c \in Memory, NEW r \in Memory, NEW n, Extends(c.responses, r.responses, n),
         StreakInv(c), c.streak < 3, Selecting(r.responses, n + 1), r.progress = c.progress,
         NEW s, s = Selection(r.responses[n + 1].text), s.to # Nobody, r.choice = s,
         s # c.choice => r.streak = 1 /\ r.seen = c.progress,
         s = c.choice /\ c.progress # c.seen => r.streak = 1 /\ r.seen = c.progress,
         s = c.choice /\ c.progress = c.seen => r.streak = c.streak + 1 /\ r.seen = c.seen
  PROVE  StreakInv(r)
<1> DEFINE rs == c.responses
           qs == r.responses
           m  == n + 1
<1>0. n \in Nat /\ m \in Nat /\ Len(rs) = n /\ Len(qs) = m /\ m \in 1 .. m
      /\ (\A i \in 1 .. n : qs[i] = rs[i] /\ i \in 1 .. m) /\ ~\E i \in m + 1 .. m : TRUE
  BY DEF Extends
<1>1. /\ \A i, j \in 1 .. n : Again(qs, i, j) <=> Again(rs, i, j)
      /\ \A j \in 1 .. n : Repeats(qs, j) <=> Repeats(rs, j)
  BY SelectingOn
<1>2. LastOne(qs, m)
  BY <1>0 DEF LastOne
<1>3. c.progress \in Nat /\ c.seen \in Nat /\ c.streak \in Nat
  BY DEF Memory
<1>4. ASSUME \A i \in 1 .. m : ~Again(qs, i, m), r.streak = 1, r.seen = c.progress
      PROVE  StreakInv(r)
  <2>1. ~Repeats(qs, m) /\ ~\E j \in 1 .. m : Again(qs, j, m) /\ Repeats(qs, j)
    BY <1>4 DEF Repeats
  <2>2. Streak(r, m)
    BY <1>0, <1>3, <1>4, <2>1 DEF Streak
  <2> QED
    BY <1>0, <1>2, <2>2 DEF StreakInv
<1>5. CASE /\ \A i \in 1 .. n : ~Selecting(rs, i)
           /\ c.streak = 0 /\ c.choice.to = Nobody
  <2>1. \A i \in 1 .. m : ~Again(qs, i, m)
    BY <1>5, AgainNow
  <2> QED
    BY <1>4, <1>5, <2>1
<1>6. ASSUME NEW l \in 1 .. n, LastOne(rs, l), Streak(c, l)
      PROVE  StreakInv(r)
  <2>1. \A i \in 1 .. m : Again(qs, i, m) <=>
           /\ i = l /\ Selection(rs[l].text) = s
           /\ \A k \in l + 1 .. n : rs[k].agent = Coordinator
    BY <1>6, AgainNow
  <2>2. /\ c.choice = Selection(rs[l].text) /\ c.seen <= c.progress
        /\ c.progress = c.seen <=> \A k \in l + 1 .. n : rs[k].agent = Coordinator
    BY <1>0, <1>6 DEF Streak
  <2>3. CASE s # c.choice \/ c.progress # c.seen
    <3>1. \A i \in 1 .. m : ~Again(qs, i, m)
      BY <2>1, <2>2, <2>3
    <3> QED
      BY <1>4, <2>3, <3>1
  <2>4. CASE s = c.choice /\ c.progress = c.seen
    <3>1. \A i \in 1 .. m : Again(qs, i, m) <=> i = l
      BY <2>1, <2>2, <2>4
    <3>2. l \in 1 .. m /\ Repeats(qs, m)
      BY <1>0, <3>1 DEF Repeats
    <3>3. /\ c.streak \in 1 .. 3
          /\ c.streak = 1 <=> ~Repeats(rs, l)
      BY <1>6 DEF Streak
    <3>4. r.streak = c.streak + 1 /\ r.seen = c.seen /\ c.streak \in 1 .. 2
      BY <2>4, <3>3
    <3>5. r.streak \in 1 .. 3 /\ r.streak # 1 /\ (r.streak = 3 <=> c.streak # 1)
      BY <3>4
    <3>6. r.streak = 3 <=> \E j \in 1 .. m : Again(qs, j, m) /\ Repeats(qs, j)
      BY <1>1, <3>1, <3>2, <3>3, <3>5
    <3>7. Streak(r, m)
      BY <1>0, <2>2, <2>4, <3>2, <3>4, <3>5, <3>6 DEF Streak
    <3> QED
      BY <1>0, <1>2, <3>7 DEF StreakInv
  <2> QED
    BY <2>3, <2>4
<1> QED
  BY <1>0, <1>5, <1>6 DEF StreakInv

LoopKept(r) ==
  /\ StreakInv(r)
  /\ r.streak = 3 => r.forced # "no" \/ r.stopped
  /\ r.forced = "loop" => r.streak = 3

LEMMA StreakCompleted ==
  ASSUME NEW c \in Memory, c.last \in Agents, c.last = Coordinator <=> c.buffer \in Decided,
         NEW r, CompletedIs(c, r), StreakInv(c), c.streak < 3, c.forced # "loop"
  PROVE  LoopKept(r)
<1> DEFINE e == [agent |-> c.last, text |-> c.buffer]
           n == Len(c.responses)
<1>1. /\ r \in Memory /\ r.responses = Append(c.responses, e)
      /\ r.progress = IF c.last = Coordinator THEN c.progress ELSE c.progress + 1
  BY DEF CompletedIs
<1>2. e \in Responses /\ c.responses \in Seq(Responses)
  BY DEF Memory, Responses
<1>3. n \in Nat /\ Len(r.responses) = n + 1 /\ r.responses[n + 1] = e
      /\ \A i \in 1 .. n : r.responses[i] = c.responses[i]
  BY <1>1, <1>2, Grows
<1>4. Extends(c.responses, r.responses, n)
  BY <1>3 DEF Extends
<1>5. Selecting(r.responses, n + 1) <=> c.last = Coordinator /\ c.buffer # Garbled /\ Selects(c.buffer)
  BY <1>3 DEF Selecting
<1>8. r.progress = IF r.responses[n + 1].agent = Coordinator THEN c.progress ELSE c.progress + 1
  BY <1>1, <1>3
<1> HIDE DEF n
<1>6. CASE c.buffer \notin Decisions
  <2>1. ~Selecting(r.responses, n + 1)
    BY <1>5, <1>6 DEF Decided
  <2>2. SameLoop(c, r) /\ r.stopped = c.stopped /\ r.forced = c.forced
    BY <1>6 DEF CompletedIs
  <2>3. StreakInv(r)
    BY <1>1, <1>4, <1>8, <2>1, <2>2, StreakStays
  <2> QED
    BY <2>2, <2>3 DEF LoopKept, SameLoop, Memory
<1>7. CASE c.buffer \in Decisions
  <2>1. PICK m : /\ m.progress = c.progress /\ SameLoop(c, m) /\ m.asked = c.asked
                 /\ m.stopped = c.stopped /\ m.forced = c.forced
                 /\ DirectedIs(m, r, c.buffer)
    BY <1>7 DEF CompletedIs
  <2>2. c.last = Coordinator /\ c.buffer # Garbled
    BY <1>7, TextsApart DEF Decided
  <2>3. CASE ~Selects(c.buffer)
    <3>1. SameLoop(c, r) /\ r.forced = c.forced
      BY <2>1, <2>3 DEF DirectedIs, SameLoop
    <3>2. StreakInv(r)
      BY <1>1, <1>4, <1>5, <1>8, <2>3, <3>1, StreakStays
    <3> QED
      BY <3>1, <3>2 DEF LoopKept, SameLoop, Memory
  <2>4. CASE Selects(c.buffer)
    <3> DEFINE s == Selection(c.buffer)
    <3>1. s.to # Nobody /\ s = Selection(r.responses[n + 1].text)
      BY <1>3, <1>7, <2>4, SelectionIs DEF Selects
    <3>2. /\ r.choice = s
          /\ s # m.choice => r.streak = 1 /\ r.seen = m.progress
          /\ s = m.choice /\ m.progress # m.seen => r.streak = 1 /\ r.seen = m.progress
          /\ s = m.choice /\ m.progress = m.seen => r.streak = m.streak + 1 /\ r.seen = m.seen
          /\ r.forced = IF r.streak >= 3 /\ ~(m.stopped \/ m.forced # "no") THEN "loop" ELSE m.forced
          /\ m.stopped => r.stopped
      BY <2>1, <2>4 DEF DirectedIs
    <3>3. m.choice = c.choice /\ m.streak = c.streak /\ m.seen = c.seen /\ m.progress = c.progress
          /\ m.stopped = c.stopped /\ m.forced = c.forced
      BY <2>1 DEF SameLoop
    <3> HIDE DEF s
    <3>10. Selecting(r.responses, n + 1) /\ r.progress = c.progress
      BY <1>1, <1>5, <2>2, <2>4
    <3>11. /\ s # c.choice => r.streak = 1 /\ r.seen = c.progress
           /\ s = c.choice /\ c.progress # c.seen => r.streak = 1 /\ r.seen = c.progress
           /\ s = c.choice /\ c.progress = c.seen => r.streak = c.streak + 1 /\ r.seen = c.seen
      BY <3>2, <3>3
    <3>4. StreakInv(r)
      BY <1>1, <1>4, <3>1, <3>2, <3>10, <3>11, StreakGoesOn
    <3>5. r.streak \in Nat /\ c.streak \in Nat
      BY <1>1 DEF Memory
    <3>6. r.streak <= 3
      BY <3>2, <3>3, <3>5
    <3>7. r.forced = IF r.streak >= 3 /\ ~(c.stopped \/ c.forced # "no") THEN "loop" ELSE c.forced
      BY <3>2, <3>3
    <3>8. r.forced = "loop" => r.streak = 3
      BY <3>5, <3>6, <3>7
    <3>9. r.streak = 3 => r.forced # "no" \/ r.stopped
      BY <3>2, <3>3, <3>5, <3>7
    <3> QED
      BY <3>4, <3>8, <3>9 DEF LoopKept
  <2> QED
    BY <2>3, <2>4
<1> QED
  BY <1>6, <1>7

(* The instruction that counts.                                            *)
LEMMA AskedCompleted ==
  ASSUME NEW c \in Memory, c.last \in Agents, c.last = Coordinator <=> c.buffer \in Decided,
         NEW r, CompletedIs(c, r), AskedInv(c)
  PROVE  AskedInv(r)
<1> DEFINE e == [agent |-> c.last, text |-> c.buffer]
           n == Len(c.responses)
           rs == c.responses
           qs == r.responses
<1>1. qs = Append(rs, e) /\ e \in Responses /\ rs \in Seq(Responses)
  BY DEF CompletedIs, Memory, Responses
<1>2. n \in Nat /\ Len(qs) = n + 1 /\ qs[n + 1] = e /\ \A i \in 1 .. n : qs[i] = rs[i]
  BY <1>1, Grows
<1>3. /\ \A i \in 1 .. n : Instructs(qs, i) <=> Instructs(rs, i)
      /\ Instructs(qs, n + 1) <=> c.buffer \in Decisions /\ c.buffer.ask # NoAsk
  BY <1>2 DEF Instructs
<1>4. /\ Instructs(qs, n + 1) => r.asked = c.buffer.ask
      /\ ~Instructs(qs, n + 1) => r.asked = c.asked
  <2>1. c.buffer \notin Decisions => r.asked = c.asked
    BY DEF CompletedIs
  <2>2. c.buffer \in Decisions => r.asked = IF c.buffer.ask = NoAsk THEN c.asked ELSE c.buffer.ask
    BY DEF CompletedIs, DirectedIs
  <2> QED
    BY <1>3, <2>1, <2>2
<1>5. \A i \in 1 .. n + 1 : i \in 1 .. n \/ i = n + 1
  BY <1>2
<1>6. CASE Instructs(qs, n + 1)
  <2>1. n + 1 \in 1 .. n + 1 /\ ~\E i \in (n + 1) + 1 .. n + 1 : TRUE
    BY <1>2
  <2>2. LastAsk(qs, n + 1)
    BY <1>2, <1>6, <2>1 DEF LastAsk
  <2>3. qs[n + 1].text = c.buffer
    BY <1>2
  <2> QED
    BY <1>2, <1>4, <1>6, <2>1, <2>2, <2>3 DEF AskedInv
<1>7. CASE ~Instructs(qs, n + 1)
  <2>1. CASE c.asked = NoAsk /\ \A i \in 1 .. n : ~Instructs(rs, i)
    BY <1>2, <1>3, <1>4, <1>5, <1>7, <2>1 DEF AskedInv
  <2>2. ASSUME NEW l \in 1 .. n, LastAsk(rs, l), c.asked = rs[l].text.ask
        PROVE  AskedInv(r)
    <3>1. \A i \in l + 1 .. n + 1 : i \in l + 1 .. n \/ i = n + 1
      BY <1>2
    <3>2. \A i \in l + 1 .. n : i \in 1 .. n
      BY <1>2
    <3>3. LastAsk(qs, l)
      BY <1>2, <1>3, <1>7, <2>2, <3>1, <3>2 DEF LastAsk
    <3>4. l \in 1 .. n + 1 /\ qs[l] = rs[l]
      BY <1>2
    <3> QED
      BY <1>2, <1>4, <1>7, <2>2, <3>3, <3>4 DEF AskedInv
  <2> QED
    BY <2>1, <2>2 DEF AskedInv
<1> QED
  BY <1>6, <1>7

(* The missing calls are all added, in the order of their turns.           *)
Enumerates(q, S, n) ==
  /\ q \in [1 .. n -> S]
  /\ \A i, j \in 1 .. n : q[i] = q[j] => i = j
  /\ \A x \in S : \E i \in 1 .. n : q[i] = x

LEMMA AscendingIs ==
  ASSUME NEW S, S \subseteq Nat, IsFiniteSet(S)
  PROVE  Enumerates(Ascending(S), S, Cardinality(S)) /\ Cardinality(S) \in Nat
<1> DEFINE n == Cardinality(S)
           q == Ascending(S)
<1>1. n \in Nat
  BY FS_CardinalityType
<1>2. \E p \in [1 .. n -> S] : \A i, j \in DOMAIN p : i < j => p[i] < p[j]
  BY AscendingExists
<1>3. q \in [1 .. n -> S] /\ \A i, j \in DOMAIN q : i < j => q[i] < q[j]
  BY <1>2 DEF Ascending
<1> HIDE DEF q
<1>4. \A i, j \in 1 .. n : q[i] = q[j] => i = j
  <2> SUFFICES ASSUME NEW i \in 1 .. n, NEW j \in 1 .. n, q[i] = q[j]
               PROVE  i = j
    OBVIOUS
  <2>1. i \in Nat /\ j \in Nat /\ DOMAIN q = 1 .. n
    BY <1>1, <1>3
  <2>3. q[i] \in Nat
    BY <1>3
  <2>2. ~(i < j) /\ ~(j < i)
    BY <1>3, <2>1, <2>3
  <2> QED
    BY <2>1, <2>2
<1>5. q \in Injection(1 .. n, S)
  BY <1>3, <1>4 DEF Injection, IsInjective
<1>6. Cardinality(1 .. n) = n
  BY <1>1, FS_Interval
<1>7. q \in Surjection(1 .. n, S)
  BY <1>5, <1>6, FS_Injection
<1>8. \A x \in S : \E i \in 1 .. n : q[i] = x
  BY <1>7 DEF Surjection
<1>9. Enumerates(q, S, n)
  BY <1>3, <1>4, <1>8 DEF Enumerates
<1> QED
  BY <1>1, <1>9 DEF q

(* The calls used, with further ones.                                      *)
LEMMA ListsOn ==
  ASSUME NEW us \in Seq(Uses), NEW rec, Lists(us, rec), NEW q, NEW S, NEW n \in Nat,
         Enumerates(q, S, n), S \intersect rec = {},
         NEW more \in Seq(Uses), Len(more) = n, \A k \in 1 .. n : more[k].call = q[k]
  PROVE  Lists(us \o more, rec \cup S)
<1> DEFINE m == Len(us)
           r == us \o more
<1>1. m \in Nat /\ Len(r) = m + n
      /\ \A i \in 1 .. m + n : r[i] = IF i <= m THEN us[i] ELSE more[i - m]
  <2>1. m \in Nat /\ Len(r) = m + Len(more)
    BY ONLY us \in Seq(Uses), more \in Seq(Uses), ConcatProperties
  <2>2. \A i \in 1 .. m + Len(more) : r[i] = IF i <= m THEN us[i] ELSE more[i - m]
    BY ONLY us \in Seq(Uses), more \in Seq(Uses), ConcatProperties
  <2> QED
    BY <2>1, <2>2
<1> HIDE DEF r
<1>2. \A i \in 1 .. m : i \in 1 .. m + n /\ r[i] = us[i] /\ us[i].call \in rec
  BY <1>1 DEF Lists
<1>3. \A i \in 1 .. m + n : i \notin 1 .. m => i - m \in 1 .. n /\ r[i] = more[i - m]
  BY <1>1
<1>4. \A k \in 1 .. n : m + k \in 1 .. m + n /\ m + k \notin 1 .. m /\ (m + k) - m = k
  BY <1>1
<1>5. \A i \in 1 .. m + n : i \notin 1 .. m => r[i].call = q[i - m] /\ r[i].call \in S
  BY <1>3 DEF Enumerates
<1>6. \A i, j \in 1 .. m + n : r[i].call = r[j].call => i = j
  <2> SUFFICES ASSUME NEW i \in 1 .. m + n, NEW j \in 1 .. m + n, r[i].call = r[j].call
               PROVE  i = j
    OBVIOUS
  <2>1. CASE i \in 1 .. m /\ j \in 1 .. m
    BY <1>2, <2>1 DEF Lists
  <2>2. CASE i \notin 1 .. m /\ j \notin 1 .. m
    <3>1. i - m \in 1 .. n /\ j - m \in 1 .. n /\ q[i - m] = q[j - m]
      BY <1>3, <1>5, <2>2
    <3>2. i - m = j - m
      BY <3>1 DEF Enumerates
    <3> QED
      BY <1>1, <3>2
  <2>3. CASE i \in 1 .. m /\ j \notin 1 .. m
    BY <1>2, <1>5, <2>3
  <2>4. CASE i \notin 1 .. m /\ j \in 1 .. m
    BY <1>2, <1>5, <2>4
  <2> QED
    BY <2>1, <2>2, <2>3, <2>4
<1>7. \A i \in 1 .. m + n : r[i].call \in rec \cup S
  BY <1>2, <1>5
<1>8. ASSUME NEW x \in rec \cup S
      PROVE  \E i \in 1 .. m + n : r[i].call = x
  <2>1. CASE x \in rec
    BY <1>2, <2>1 DEF Lists
  <2>2. CASE x \in S
    <3>1. PICK k \in 1 .. n : q[k] = x
      BY <2>2 DEF Enumerates
    <3>2. m + k \in 1 .. m + n /\ m + k \notin 1 .. m /\ (m + k) - m = k
      BY <1>4
    <3>3. r[m + k].call = q[(m + k) - m]
      BY ONLY <1>5, <3>2
    <3> QED
      BY <3>1, <3>2, <3>3
  <2> QED
    BY <2>1, <2>2
<1>9. Lists(r, rec \cup S)
  BY <1>1, <1>6, <1>7, <1>8 DEF Lists
<1> QED
  BY <1>9 DEF r

-------------------------------------------------------------------------------
(* The fields during a turn.                                               *)
FieldsInv(c) == c \in Memory /\ Fits(c.responses) /\ LoopKept(c) /\ AskedInv(c)

(* A step that completes nothing.                                          *)
Holds(c, r) ==
  /\ r \in Memory /\ r.responses = c.responses /\ r.progress = c.progress
  /\ SameLoop(c, r) /\ r.asked = c.asked
  /\ c.stopped => r.stopped
  /\ c.forced # "no" => r.forced = c.forced
  /\ r.forced # "loop" \/ r.forced = c.forced

LEMMA FieldsHold ==
  ASSUME NEW c, FieldsInv(c), NEW r, Holds(c, r)
  PROVE  FieldsInv(r)
<1>1. r \in Memory /\ r.responses = c.responses /\ r.progress = c.progress /\ r.choice = c.choice
      /\ r.streak = c.streak /\ r.seen = c.seen /\ r.asked = c.asked
  BY DEF Holds, SameLoop
<1>2. StreakInv(r) <=> StreakInv(c)
  BY <1>1 DEF StreakInv, Streak
<1>3. LoopKept(r)
  BY <1>1, <1>2 DEF FieldsInv, LoopKept, Holds
<1>4. AskedInv(r)
  BY <1>1 DEF FieldsInv, AskedInv
<1> QED
  BY <1>1, <1>3, <1>4 DEF FieldsInv

LEMMA OnTimeIs ==
  ASSUME NEW c, c = OnTime(o), o \in Memory, o.forced = "no"
  PROVE  Holds(o, c) /\ SameTurn(o, c) /\ c.stopped = o.stopped /\ c.forced # "loop"
<1>1. CASE overdue
  <2>1. c = Forced(o, "timeout")
    BY <1>1 DEF OnTime
  <2>2. ForcedIs(o, c, "timeout")
    BY <2>1, ForcedIsForced DEF Reasons
  <2> QED
    BY <2>2 DEF ForcedIs, Holds, SameTurn
<1>2. CASE ~overdue
  BY <1>2 DEF OnTime, Holds, SameTurn, SameLoop
<1> QED
  BY <1>1, <1>2

LEMMA WithinRoundsIs ==
  ASSUME NEW c \in Memory, NEW r, r = WithinRounds(c)
  PROVE  /\ Holds(c, r) /\ SameTurn(c, r)
         /\ r.forced = "no" /\ ~r.stopped => Len(r.responses) < MaxRounds
<1>0. Len(c.responses) \in Nat /\ MaxRounds \in Nat /\ c.stopped \in BOOLEAN
  BY ChatAssumption DEF Memory
<1>1. CASE Len(c.responses) >= MaxRounds
  <2>1. r = Forced(c, "rounds")
    BY <1>1 DEF WithinRounds
  <2>2. ForcedIs(c, r, "rounds")
    BY <2>1, ForcedIsForced DEF Reasons
  <2> QED
    BY <2>2 DEF ForcedIs, Holds, SameTurn
<1>2. CASE ~(Len(c.responses) >= MaxRounds)
  BY <1>0, <1>2 DEF WithinRounds, Holds, SameTurn, SameLoop
<1> QED
  BY <1>1, <1>2

(* What has been said becomes a response, if there is a text.              *)
Finished(c) == IF Pending(c) THEN Completed(c) ELSE c

FinishedIs(c, r) ==
  /\ FieldsInv(r) /\ r.last = c.last /\ r.conv = c.conv
  /\ r.responses = c.responses \o Buffered(c)
  /\ Len(r.responses) <= Len(c.responses) + 1
  /\ ~Pending(r)

LEMMA FinishedIsFinished ==
  ASSUME NEW c, FieldsInv(c), c.streak < 3, c.forced # "loop",
         c.last # Nobody => (c.last = Coordinator <=> c.buffer \in Decided)
  PROVE  FinishedIs(c, Finished(c))
<1> DEFINE e == [agent |-> c.last, text |-> c.buffer]
           rs == c.responses
<1>0. c \in Memory /\ rs \in Seq(Responses) /\ Len(rs) \in Nat
  BY DEF FieldsInv, Memory
<1>1. CASE ~Pending(c)
  <2>1. Buffered(c) = <<>> /\ rs \o <<>> = rs /\ Finished(c) = c
    BY <1>0, <1>1, ConcatEmptySeq DEF Buffered, Finished
  <2> QED
    BY <1>0, <1>1, <2>1 DEF FinishedIs
<1>2. CASE Pending(c)
  <2> DEFINE r == Completed(c)
  <2>1. c.last \in Agents /\ (c.last = Coordinator <=> c.buffer \in Decided) /\ e \in Responses
    BY <1>0, <1>2 DEF Pending, Memory, Responses
  <2>2. CompletedIs(c, r)
    BY <1>0, <2>1, CompletedIsCompleted
  <2> HIDE DEF r
  <2>3. /\ r \in Memory /\ r.last = c.last /\ r.buffer = NoText /\ r.conv = c.conv
        /\ r.responses = Append(rs, e)
    BY <2>2 DEF CompletedIs
  <2>4. LoopKept(r)
    BY <1>0, <2>1, <2>2, StreakCompleted DEF FieldsInv, LoopKept
  <2>5. AskedInv(r)
    BY <1>0, <2>1, <2>2, AskedCompleted DEF FieldsInv
  <2>6. Len(Append(rs, e)) = Len(rs) + 1 /\ Append(rs, e)[Len(rs) + 1] = e
        /\ \A i \in 1 .. Len(rs) : Append(rs, e)[i] = rs[i]
    BY <1>0, <2>1, Grows
  <2>7. Fits(r.responses)
    <3>1. \A i \in 1 .. Len(rs) + 1 : i \in 1 .. Len(rs) \/ i = Len(rs) + 1
      BY <1>0
    <3> QED
      BY <2>1, <2>3, <2>6, <3>1 DEF FieldsInv, Fits
  <2>8. Append(rs, e) = rs \o <<e>>
    BY <1>0, <2>1, AppendProperties
  <2>9. Buffered(c) = <<e>> /\ Finished(c) = r
    BY <1>2 DEF Buffered, Finished, r
  <2>10. ~Pending(r)
    BY <2>3 DEF Pending
  <2>11. FieldsInv(r)
    BY <2>3, <2>4, <2>5, <2>7 DEF FieldsInv
  <2>12. Len(r.responses) <= Len(rs) + 1
    BY <1>0, <2>3, <2>6
  <2> QED
    BY <2>3, <2>8, <2>9, <2>10, <2>11, <2>12 DEF FinishedIs
<1> QED
  BY <1>1, <1>2

(* The chat goes on, as TurnInv says of it.                                *)
Under(c, ms) ==
  /\ FieldsInv(c) /\ Fits(ms) /\ ms \in Seq(Turns)
  /\ c.conv = <<>> /\ c.forced = "no" /\ ~c.stopped /\ Len(c.responses) < MaxRounds
  /\ ms = <<>> => c.last = Nobody /\ c.buffer = NoText
  /\ ms # <<>> => c.last = ms[Len(ms)].agent /\ c.buffer = ms[Len(ms)].text

LEMMA UnderWay ==
  ASSUME ChatTypes, TurnInv, LoopInv, EarnedInv, stage = "streaming"
  PROVE  Under(o, said)
BY DEF ChatTypes, TurnInv, LoopInv, EarnedInv, Under, FieldsInv, LoopKept

LEMMA NoStreak ==
  ASSUME NEW c, FieldsInv(c), c.forced = "no", ~c.stopped
  PROVE  c.streak < 3
<1>1. c.streak # 3
  BY DEF FieldsInv, LoopKept
<1>2. c.streak = 0 \/ c.streak \in 1 .. 3
  BY DEF FieldsInv, LoopKept, StreakInv, Streak
<1> QED
  BY <1>1, <1>2

LEMMA LastTurn ==
  ASSUME NEW ms \in Seq(Turns), ms # <<>>
  PROVE  /\ Len(ms) \in Nat \ {0} /\ Len(ms) \in 1 .. Len(ms) /\ ms[Len(ms)] \in Turns
         /\ Last(ms) = ms[Len(ms)]
<1>1. Len(ms) \in Nat \ {0}
  BY EmptySeq
<1> QED
  BY <1>1 DEF Last

(* What an update leaves behind: the last turn is a response, and the      *)
(* buffer holds the new one.                                               *)
TurnIs(r, a, t) ==
  /\ FieldsInv(r) /\ r.conv = <<>> /\ r.last = a /\ r.buffer = t
  /\ r.responses = o.responses \o Buffered(o)
  /\ Len(r.responses) <= MaxRounds
  /\ r.forced = "no" /\ ~r.stopped => Len(r.responses) < MaxRounds

LEMMA HeardTurn ==
  ASSUME Under(o, said), NEW a \in Agents, NEW t \in Texts, a # o.last, Heard(a, t)
  PROVE  /\ TurnIs(o', a, t)
         /\ IF o'.forced # "no" \/ o'.stopped THEN Conclude(o') ELSE UNCHANGED <<stage, outcome>>
<1> DEFINE b == OnTime(o)
           c == Finished(b)
           x == [c EXCEPT !.last = a]
           d == [x EXCEPT !.buffer = NoText]
           e == IF t = NoText THEN d ELSE [d EXCEPT !.buffer = t]
           r == WithinRounds(e)
<1>0. /\ FieldsInv(o) /\ o \in Memory /\ Fits(said) /\ said \in Seq(Turns)
      /\ o.conv = <<>> /\ o.forced = "no" /\ ~o.stopped
      /\ Len(o.responses) < MaxRounds /\ Len(o.responses) \in Nat /\ MaxRounds \in Nat
  BY ChatAssumption DEF Under, FieldsInv, Memory
<1>1. Holds(o, b) /\ SameTurn(o, b) /\ b.forced # "loop"
  BY <1>0, OnTimeIs
<1> HIDE DEF b
<1>2. b.last = o.last /\ b.buffer = o.buffer /\ b.responses = o.responses /\ b.conv = o.conv
      /\ b.streak = o.streak
  BY <1>1 DEF SameTurn, Holds, SameLoop
<1>3. FieldsInv(b) /\ b.streak < 3
  BY <1>0, <1>1, <1>2, FieldsHold, NoStreak
<1>4. b.last # Nobody => (b.last = Coordinator <=> b.buffer \in Decided)
  <2>1. CASE said = <<>>
    BY <1>2, <2>1 DEF Under
  <2>2. CASE said # <<>>
    BY <1>0, <1>2, <2>2, LastTurn DEF Under, Fits
  <2> QED
    BY <2>1, <2>2
<1>5. FinishedIs(b, c)
  BY <1>1, <1>3, <1>4, FinishedIsFinished
<1>6. Buffered(b) = Buffered(o)
  BY <1>2 DEF Buffered, Pending
<1>7. Switched(b, a) = d
  BY <1>2 DEF Switched, Finished, c
<1> HIDE DEF c
<1>8. /\ FieldsInv(c) /\ c \in Memory /\ c.conv = <<>> /\ c.responses = o.responses \o Buffered(o)
      /\ Len(c.responses) <= Len(o.responses) + 1 /\ Len(c.responses) \in Nat
  BY <1>0, <1>2, <1>5, <1>6 DEF FinishedIs, FieldsInv, Memory
<1>9. x \in Memory /\ x.last = a /\ x.conv = c.conv /\ x.stopped = c.stopped /\ Holds(c, x)
  BY <1>8 DEF Memory, Holds, SameLoop
<1> HIDE DEF x
<1>10. d \in Memory /\ d.last = a /\ d.buffer = NoText /\ d.conv = c.conv /\ Holds(x, d)
  BY <1>9 DEF Memory, Holds, SameLoop, Texts
<1> HIDE DEF d
<1>11. e \in Memory /\ e.last = a /\ e.buffer = t /\ e.conv = c.conv /\ Holds(d, e)
  <2>1. CASE t = NoText
    BY <1>10, <2>1 DEF Holds, SameLoop
  <2>2. CASE t # NoText
    BY <1>10, <2>2 DEF Memory, Holds, SameLoop
  <2> QED
    BY <2>1, <2>2
<1>12. Heard(a, t) <=> /\ o' = r
                       /\ IF r.forced # "no" \/ r.stopped THEN Conclude(r)
                          ELSE UNCHANGED <<stage, outcome>>
  BY <1>7 DEF Heard, b
<1> HIDE DEF e
<1>13. /\ Holds(e, r) /\ SameTurn(e, r)
       /\ r.forced = "no" /\ ~r.stopped => Len(r.responses) < MaxRounds
  BY <1>11, WithinRoundsIs
<1> HIDE DEF r
<1>14. FieldsInv(r)
  BY <1>8, <1>9, <1>10, <1>11, <1>13, FieldsHold
<1>15. r.last = a /\ r.buffer = t /\ r.conv = <<>>
  BY <1>8, <1>11, <1>13 DEF SameTurn
<1>16. r.responses = c.responses
  BY <1>9, <1>10, <1>11, <1>13 DEF Holds
<1>17. TurnIs(r, a, t)
  BY <1>0, <1>8, <1>13, <1>14, <1>15, <1>16 DEF TurnIs
<1> QED
  BY <1>12, <1>17

(* A further update of the same turn says nothing new.                     *)
LEMMA HeardMore ==
  ASSUME Under(o, said), NEW a, a = o.last, Heard(a, NoText)
  PROVE  /\ FieldsInv(o') /\ SameTurn(o, o')
         /\ IF o'.forced # "no" \/ o'.stopped THEN Conclude(o') ELSE UNCHANGED <<stage, outcome>>
<1> DEFINE b == OnTime(o)
           r == WithinRounds(b)
<1>0. FieldsInv(o) /\ o \in Memory /\ o.forced = "no"
  BY DEF Under, FieldsInv
<1>1. Holds(o, b) /\ SameTurn(o, b) /\ b.last = o.last
  BY <1>0, OnTimeIs DEF SameTurn
<1> HIDE DEF b
<1>2. Switched(b, a) = b
  BY <1>1 DEF Switched
<1>3. /\ o' = r
      /\ IF r.forced # "no" \/ r.stopped THEN Conclude(r) ELSE UNCHANGED <<stage, outcome>>
  BY <1>2 DEF Heard, b
<1>4. Holds(b, r) /\ SameTurn(b, r)
  BY <1>1, WithinRoundsIs DEF Holds
<1> HIDE DEF r
<1>5. FieldsInv(r)
  BY <1>0, <1>1, <1>4, FieldsHold
<1> QED
  BY <1>1, <1>3, <1>4, <1>5 DEF SameTurn

LEMMA ConcludeIs ==
  ASSUME NEW c, c.stopped \in BOOLEAN, Conclude(c)
  PROVE  /\ stage' \in {"generate", "report"} /\ outcome' # "typed"
         /\ stage' = "generate" => c.forced = "no" /\ (c.stopped => c.asked \in {NoAsk, "complete"})
BY DEF Conclude

(* The next speaker is not who spoke last.                                 *)
LEMMA NextSpeaker ==
  ASSUME Under(o, said), NEW a \in Speakers
  PROVE  a \in Agents /\ a # o.last
<1>1. CASE said = <<>>
  <2>1. a = Coordinator /\ o.last = Nobody
    BY <1>1 DEF Speakers, Under
  <2> QED
    BY <2>1, TextsApart DEF Agents
<1>2. CASE said # <<>>
  <2> DEFINE m == said[Len(said)]
  <2>1. Last(said) = m /\ o.last = m.agent /\ m \in Turns /\ (m.agent = Coordinator <=> m.text \in Decided)
    BY <1>2, LastTurn DEF Under, Fits
  <2> HIDE DEF m
  <2>2. CASE m.agent # Coordinator
    BY <1>2, <2>1, <2>2 DEF Speakers, Agents
  <2>3. CASE m.agent = Coordinator
    <3>1. a \in Reviewers
      <4>1. CASE m.text # Garbled /\ ~m.text.finish /\ Selects(m.text)
        <5>1. m.text \in Decisions /\ a = m.text.to /\ a # Nobody
          BY <1>2, <2>1, <2>3, <4>1 DEF Speakers, Decided, Selects
        <5> QED
          BY <5>1, ChatAssumption
      <4>2. CASE ~(m.text # Garbled /\ ~m.text.finish /\ Selects(m.text))
        BY <1>2, <2>1, <2>3, <4>2 DEF Speakers
      <4> QED
        BY <4>1, <4>2
    <3> QED
      BY <2>1, <2>3, <3>1, TextsApart DEF Agents
  <2> QED
    BY <2>2, <2>3
<1> QED
  BY <1>1, <1>2

-------------------------------------------------------------------------------
(* The steps.                                                              *)
LEMMA CallsAre ==
  ASSUME NEW ms \in Seq(Turns)
  PROVE  {i \in DOMAIN ms : ms[i].called} = {i \in 1 .. Len(ms) : ms[i].called}
OBVIOUS

LEMMA BufferedIs ==
  ASSUME NEW c \in Memory
  PROVE  Buffered(c) \in Seq(Responses)
<1>1. CASE Pending(c)
  <2> DEFINE e == [agent |-> c.last, text |-> c.buffer]
  <2>1. e \in Responses
    BY <1>1 DEF Pending, Memory, Responses
  <2> QED
    BY <1>1, <2>1 DEF Buffered
<1>2. CASE ~Pending(c)
  BY <1>2 DEF Buffered
<1> QED
  BY <1>1, <1>2

(* What goes on, or comes to an end, by what the fields say.               *)
EndsWell ==
  IF o'.forced # "no" \/ o'.stopped THEN Conclude(o') ELSE UNCHANGED <<stage, outcome>>

LEMMA Ending ==
  ASSUME stage = "streaming", o'.stopped \in BOOLEAN, EndsWell,
         outcome = "typed" => o.forced = "no" /\ (o.stopped => o.asked \in {NoAsk, "complete"})
  PROVE  /\ stage' \in {"streaming", "generate", "report"}
         /\ stage' = "streaming" => o'.forced = "no" /\ ~o'.stopped
         /\ stage' \in {"generate", "retry"} \/ outcome' = "typed" =>
              o'.forced = "no" /\ (o'.stopped => o'.asked \in {NoAsk, "complete"})
<1>1. CASE o'.forced # "no" \/ o'.stopped
  <2>1. Conclude(o')
    BY <1>1 DEF EndsWell
  <2>2. /\ stage' \in {"generate", "report"} /\ outcome' # "typed"
        /\ stage' = "generate" => o'.forced = "no" /\ (o'.stopped => o'.asked \in {NoAsk, "complete"})
    BY <2>1, ConcludeIs
  <2> QED
    BY <2>2
<1>2. CASE ~(o'.forced # "no" \/ o'.stopped)
  BY <1>2 DEF EndsWell
<1> QED
  BY <1>1, <1>2

LEMMA ATurn ==
  ASSUME ChatInv, stage = "streaming", NEW a \in Speakers, NEW t \in Texts,
         a = Coordinator <=> t \in Decided, NEW called \in BOOLEAN,
         said' = Append(said, Turn(a, t, called)), Heard(a, t), UNCHANGED <<recorded, usage>>
  PROVE  ChatInv'
<1> DEFINE n == Len(said)
           m == Turn(a, t, called)
<1>1. Under(o, said)
  BY UnderWay DEF ChatInv
<1>2. a \in Agents /\ a # o.last /\ a # Nobody
  BY <1>1, NextSpeaker, TextsApart
<1>3. TurnIs(o', a, t) /\ EndsWell
  BY <1>1, <1>2, HeardTurn DEF EndsWell
<1>4. m \in Turns /\ m.agent = a /\ m.text = t
  BY <1>2 DEF Turn, Turns
<1>5. said \in Seq(Turns) /\ o \in Memory /\ o.conv = <<>> /\ Fits(said)
  BY <1>1 DEF Under, FieldsInv
<1>6. n \in Nat /\ said' \in Seq(Turns) /\ Len(said') = n + 1 /\ said'[n + 1] = m
      /\ \A i \in 1 .. n : said'[i] = said[i]
  BY <1>4, <1>5, Grows
<1> HIDE DEF m
<1>7. /\ FieldsInv(o') /\ o' \in Memory /\ o'.conv = <<>> /\ o'.last = a /\ o'.buffer = t
      /\ o'.responses = o.responses \o Buffered(o) /\ Len(o'.responses) <= MaxRounds
      /\ o'.forced = "no" /\ ~o'.stopped => Len(o'.responses) < MaxRounds
  BY <1>3 DEF TurnIs, FieldsInv
<1>8. /\ stage' \in {"streaming", "generate", "report"}
      /\ stage' = "streaming" => o'.forced = "no" /\ ~o'.stopped
      /\ stage' \in {"generate", "retry"} \/ outcome' = "typed" =>
           o'.forced = "no" /\ (o'.stopped => o'.asked \in {NoAsk, "complete"})
  <2>1. o'.stopped \in BOOLEAN
    BY <1>7 DEF Memory
  <2>2. outcome = "typed" => o.forced = "no" /\ (o.stopped => o.asked \in {NoAsk, "complete"})
    BY DEF ChatInv, EarnedInv
  <2> QED
    BY <1>3, <2>1, <2>2, Ending
<1>9. Fits(said')
  <2>1. \A i \in 1 .. n + 1 : i \in 1 .. n \/ i = n + 1
    BY <1>6
  <2> QED
    BY <1>4, <1>5, <1>6, <2>1 DEF Fits
<1>10. ChatTypes'
  BY <1>6, <1>7, <1>8, <1>9 DEF ChatInv, ChatTypes, FieldsInv
<1>11. TurnInv'
  <2>1. said' # <<>>
    BY <1>6, EmptySeq
  <2> QED
    BY <1>4, <1>6, <1>7, <1>8, <2>1 DEF TurnInv
<1>12. ResponseInv'
  <2> DEFINE all == o.responses \o Buffered(o)
             e   == [agent |-> a, text |-> t]
  <2>1. o.responses \in Seq(Responses) /\ Buffered(o) \in Seq(Responses) /\ e \in Responses
    BY <1>2, <1>5, BufferedIs DEF Memory, Responses
  <2>2. all \in Seq(Responses)
    BY <2>1, ConcatProperties
  <2>3. Told(said, all)
    BY DEF ChatInv, ResponseInv
  <2> HIDE DEF all
  <2>4. /\ t # NoText => Told(said', Append(all, e))
        /\ t = NoText => Told(said', all)
    <3>1. said' = Append(said, m)
      BY DEF m
    <3>2. /\ m.text # NoText => Told(Append(said, m), Append(all, [agent |-> m.agent, text |-> m.text]))
          /\ m.text = NoText => Told(Append(said, m), all)
      BY <1>4, <1>5, <2>2, <2>3, TellsOn
    <3> QED
      BY <1>4, <3>1, <3>2
  <2>5. Buffered(o') = IF t # NoText THEN <<e>> ELSE <<>>
    BY <1>2, <1>7 DEF Buffered, Pending
  <2>6. o'.responses \o Buffered(o') = IF t # NoText THEN Append(all, e) ELSE all
    <3>1. o'.responses = all
      BY <1>7 DEF all
    <3>2. all \o <<e>> = Append(all, e) /\ all \o <<>> = all
      BY <2>1, <2>2, AppendProperties, ConcatEmptySeq
    <3> QED
      BY <2>5, <3>1, <3>2
  <2>7. Told(said', o'.responses \o Buffered(o'))
    BY <2>4, <2>6
  <2>8. ResponseInv' <=> /\ Told(said', o'.responses \o Buffered(o'))
                         /\ o'.conv # <<>> => ~Pending(o')
                         /\ Len(o'.responses) <= MaxRounds
    BY DEF ResponseInv
  <2> QED
    BY <1>7, <2>7, <2>8
<1>13. LoopInv'
  BY <1>7 DEF FieldsInv, LoopKept, LoopInv
<1>14. EarnedInv'
  BY <1>7, <1>8 DEF FieldsInv, EarnedInv
<1>15. ToolInv'
  <2>1. Calls = {i \in 1 .. n : said[i].called} /\ Calls' = {i \in 1 .. n + 1 : said'[i].called}
    BY <1>5, <1>6, CallsAre DEF Calls
  <2>2. Calls \subseteq Calls' /\ \A i \in Calls : said'[i] = said[i]
    BY <1>6, <2>1
  <2>3. /\ Lists(usage, recorded) /\ recorded \subseteq Calls
        /\ \A i \in 1 .. Len(usage) : usage[i].agent = said[usage[i].call].agent
    BY DEF ChatInv, ToolInv
  <2>4. \A i \in 1 .. Len(usage) : usage[i].call \in Calls
    BY <2>3 DEF Lists
  <2> QED
    BY <1>7, <2>2, <2>3, <2>4 DEF ToolInv
<1> QED
  BY <1>10, <1>11, <1>12, <1>13, <1>14, <1>15 DEF ChatInv

LEMMA CoordinatorTurnKeeps == ChatInv /\ CoordinatorTurn => ChatInv'
<1> SUFFICES ASSUME ChatInv, CoordinatorTurn
             PROVE  ChatInv'
  OBVIOUS
<1>1. PICK t \in Decided : /\ said' = Append(said, Turn(Coordinator, t, FALSE))
                           /\ Heard(Coordinator, t)
  BY DEF CoordinatorTurn, Decided
<1>2. t \in Texts /\ stage = "streaming" /\ Coordinator \in Speakers /\ UNCHANGED <<recorded, usage>>
  BY DEF CoordinatorTurn, Texts
<1> QED
  BY <1>1, <1>2, ATurn

LEMMA ReviewerTurnKeeps == ChatInv /\ ReviewerTurn => ChatInv'
<1> SUFFICES ASSUME ChatInv, ReviewerTurn
             PROVE  ChatInv'
  OBVIOUS
<1>1. PICK a \in Speakers \ {Coordinator}, t \in Signs \cup {NoText}, called \in BOOLEAN :
        /\ said' = Append(said, Turn(a, t, called))
        /\ Heard(a, t)
  BY DEF ReviewerTurn
<1>2. t \in Texts /\ t \notin Decided /\ a # Coordinator /\ a \in Speakers
  BY TextsApart DEF Texts
<1>3. stage = "streaming" /\ UNCHANGED <<recorded, usage>>
  BY DEF ReviewerTurn
<1> QED
  BY <1>1, <1>2, <1>3, ATurn

(* The fragments of a call's arguments.                                    *)
LEMMA FragmentsEnd ==
  ASSUME NEW sent \in 0 .. 2, NEW piece \in Fragments(sent)
  PROVE  Last(piece) \in 0 .. 2
<1>1. Len(Whole) = 2 /\ \A i \in 1 .. 2 : Whole[i] \in 1 .. 2
  BY DEF Whole
<1>2. ASSUME NEW k \in 1 .. 2, NEW l \in k .. 2
      PROVE  Last(SubSeq(Whole, k, l)) \in 0 .. 2
  <2> DEFINE q == SubSeq(Whole, k, l)
  <2>1. \A i \in k .. l : Whole[i] \in 1 .. 2
    BY <1>1
  <2>2. q \in Seq(1 .. 2) /\ Len(q) = l - k + 1
    BY <2>1, SubSeqProperties
  <2> HIDE DEF q
  <2>3. Len(q) \in 1 .. Len(q)
    BY <2>2
  <2>4. q[Len(q)] \in 1 .. 2
    BY <2>2, <2>3, ElementOfSeq
  <2> QED
    BY <2>4 DEF Last, q
<1>3. CASE \E k \in IF Len(Whole) - sent > 0 THEN {1, sent + 1} ELSE {} : piece = SubSeq(Whole, k, sent + 1)
  <2>1. PICK k \in IF Len(Whole) - sent > 0 THEN {1, sent + 1} ELSE {} : piece = SubSeq(Whole, k, sent + 1)
    BY <1>3
  <2>2. k \in 1 .. 2 /\ sent + 1 \in k .. 2
    BY <1>1, <2>1
  <2> QED
    BY <1>2, <2>1, <2>2
<1>4. CASE \E k \in {sent} \ {0} : piece = SubSeq(Whole, 1, k)
  <2>1. sent \in 1 .. 2 /\ piece = SubSeq(Whole, 1, sent)
    BY <1>4
  <2> QED
    BY <1>2, <2>1
<1> QED
  BY <1>3, <1>4 DEF Fragments

LEMMA ToolUpdateLists ==
  ASSUME NEW us \in Seq(Uses), NEW rec, Lists(us, rec), NEW n, n \notin rec,
         NEW u \in Uses, u.call = n
  PROVE  Lists(Append(us, u), rec \cup {n})
<1> DEFINE m == Len(us)
           r == Append(us, u)
<1>1. m \in Nat /\ Len(r) = m + 1 /\ r[m + 1] = u /\ \A i \in 1 .. m : r[i] = us[i]
  BY Grows
<1> HIDE DEF r
<1>2. (\A i \in 1 .. m + 1 : i \in 1 .. m \/ i = m + 1) /\ m + 1 \in 1 .. m + 1
      /\ \A i \in 1 .. m : i \in 1 .. m + 1
  BY <1>1
<1>3. \A i \in 1 .. m : r[i].call = us[i].call /\ us[i].call \in rec
  BY <1>1 DEF Lists
<1>4. r[m + 1].call = n
  BY <1>1
<1>5. \A i, j \in 1 .. m : r[i].call = r[j].call => i = j
  BY <1>3 DEF Lists
<1>6. \A i, j \in 1 .. m + 1 : r[i].call = r[j].call => i = j
  BY <1>2, <1>3, <1>4, <1>5
<1>7. \A i \in 1 .. m + 1 : r[i].call \in rec \cup {n}
  BY <1>2, <1>3, <1>4
<1>8. \A x \in rec \cup {n} : \E i \in 1 .. m + 1 : r[i].call = x
  BY <1>2, <1>3, <1>4 DEF Lists
<1>9. Lists(r, rec \cup {n})
  BY <1>1, <1>6, <1>7, <1>8 DEF Lists
<1> QED
  BY <1>9 DEF r

LEMMA ToolTurnKeeps == ChatInv /\ ToolTurn => ChatInv'
<1> SUFFICES ASSUME ChatInv, ToolTurn
             PROVE  ChatInv'
  OBVIOUS
<1> DEFINE n == Len(said)
           a == said[n].agent
<1>1. PICK piece \in Fragments(said[n].sent) :
        /\ said' = [said EXCEPT ![n].sent = Last(piece)]
        /\ ToolUpdate(a, n, piece)
        /\ Heard(a, NoText)
  BY DEF ToolTurn
<1>2. stage = "streaming" /\ said # <<>> /\ Last(said).called
  BY DEF ToolTurn
<1>3. Under(o, said)
  BY <1>2, UnderWay DEF ChatInv
<1>4. a = o.last /\ said \in Seq(Turns) /\ Fits(said) /\ o \in Memory /\ o.conv = <<>>
      /\ o.forced = "no" /\ ~o.stopped /\ Len(o.responses) < MaxRounds
      /\ o.buffer = said[n].text
  BY <1>2, <1>3 DEF Under, FieldsInv
<1>5. n \in Nat /\ n \in 1 .. n /\ said[n] \in Turns /\ said[n].called /\ said[n].sent \in 0 .. 2
      /\ a \in Agents
  BY <1>2, <1>4, LastTurn DEF Turns
<1>6. /\ FieldsInv(o') /\ o' \in Memory /\ o'.last = o.last /\ o'.buffer = o.buffer
      /\ o'.responses = o.responses /\ o'.conv = o.conv
      /\ EndsWell
  BY <1>1, <1>3, <1>4, HeardMore DEF SameTurn, FieldsInv, EndsWell
<1>7. Last(piece) \in 0 .. 2
  BY <1>5, FragmentsEnd
<1> DEFINE e == [said[n] EXCEPT !.sent = Last(piece)]
<1>8. e \in Turns /\ e.agent = said[n].agent /\ e.text = said[n].text /\ e.called = said[n].called
  BY <1>5, <1>7 DEF Turns
<1>9. said' = [said EXCEPT ![n] = e]
  BY <1>1
<1> HIDE DEF e
<1>10. said' \in Seq(Turns) /\ Len(said') = n /\ said'[n] = e
       /\ \A i \in 1 .. n : i # n => said'[i] = said[i]
  BY <1>4, <1>5, <1>8, <1>9, ExceptSeq
<1>11. \A i \in 1 .. n : /\ said'[i].agent = said[i].agent /\ said'[i].text = said[i].text
                         /\ said'[i].called = said[i].called
  BY <1>8, <1>10
<1>12. /\ stage' \in {"streaming", "generate", "report"}
       /\ stage' = "streaming" => o'.forced = "no" /\ ~o'.stopped
       /\ stage' \in {"generate", "retry"} \/ outcome' = "typed" =>
            o'.forced = "no" /\ (o'.stopped => o'.asked \in {NoAsk, "complete"})
  <2>1. o'.stopped \in BOOLEAN
    BY <1>6 DEF Memory
  <2>2. outcome = "typed" => o.forced = "no" /\ (o.stopped => o.asked \in {NoAsk, "complete"})
    BY DEF ChatInv, EarnedInv
  <2> QED
    BY <1>2, <1>6, <2>1, <2>2, Ending
<1>13. /\ Lists(usage, recorded) /\ recorded \subseteq Calls /\ recorded \subseteq Nat
       /\ usage \in Seq(Uses)
       /\ \A i \in 1 .. Len(usage) : usage[i].agent = said[usage[i].call].agent
  BY DEF ChatInv, ToolInv, ChatTypes
<1>14. \/ recorded' = recorded /\ usage' = usage
       \/ n \notin recorded /\ recorded' = recorded \cup {n} /\ usage' = Append(usage, Used(a, n, "stream"))
  BY <1>1 DEF ToolUpdate
<1>15. Used(a, n, "stream") \in Uses /\ Used(a, n, "stream").call = n /\ Used(a, n, "stream").agent = a
  BY <1>5 DEF Used, Uses
<1>16. Lists(usage', recorded') /\ usage' \in Seq(Uses) /\ recorded' \subseteq Nat
  <2>1. CASE recorded' = recorded /\ usage' = usage
    BY <1>13, <2>1
  <2>2. CASE n \notin recorded /\ recorded' = recorded \cup {n} /\ usage' = Append(usage, Used(a, n, "stream"))
    <3>1. Lists(Append(usage, Used(a, n, "stream")), recorded \cup {n})
      BY <1>13, <1>15, <2>2, ToolUpdateLists
    <3>2. Append(usage, Used(a, n, "stream")) \in Seq(Uses)
      BY <1>13, <1>15, Grows
    <3> QED
      BY <1>5, <1>13, <2>2, <3>1, <3>2
  <2> QED
    BY <1>14, <2>1, <2>2
<1>17. Calls = {i \in 1 .. n : said[i].called} /\ Calls' = {i \in 1 .. n : said'[i].called}
  BY <1>4, <1>10, CallsAre DEF Calls
<1>18. Calls' = Calls /\ n \in Calls
  BY <1>5, <1>11, <1>17
<1>19. \A i \in 1 .. Len(usage') : usage'[i].agent = said'[usage'[i].call].agent
  <2>1. \A i \in 1 .. Len(usage) : usage[i].call \in 1 .. n
    BY <1>13, <1>17 DEF Lists
  <2>2. \A i \in 1 .. Len(usage) : usage[i].agent = said'[usage[i].call].agent
    BY <1>11, <1>13, <2>1
  <2>3. CASE recorded' = recorded /\ usage' = usage
    BY <2>2, <2>3
  <2>4. CASE usage' = Append(usage, Used(a, n, "stream"))
    <3>1. Len(usage) \in Nat /\ Len(usage') = Len(usage) + 1 /\ usage'[Len(usage) + 1] = Used(a, n, "stream")
          /\ \A i \in 1 .. Len(usage) : usage'[i] = usage[i]
      BY <1>13, <1>15, <2>4, Grows
    <3>2. \A i \in 1 .. Len(usage) + 1 : i \in 1 .. Len(usage) \/ i = Len(usage) + 1
      BY <3>1
    <3>3. Used(a, n, "stream").agent = said'[n].agent
      BY <1>5, <1>11, <1>15
    <3> QED
      BY <1>15, <2>2, <3>1, <3>2, <3>3
  <2> QED
    BY <1>14, <2>3, <2>4
<1>20. ChatTypes'
  <2>1. Fits(said')
    BY <1>4, <1>10, <1>11 DEF Fits
  <2> QED
    BY <1>4, <1>6, <1>10, <1>12, <1>16, <2>1 DEF ChatTypes, FieldsInv
<1>21. TurnInv'
  <2>1. said' # <<>>
    BY <1>5, <1>10, EmptySeq
  <2> QED
    BY <1>4, <1>5, <1>6, <1>10, <1>11, <1>12, <2>1 DEF TurnInv
<1>22. ResponseInv'
  <2>1. \A k \in 1 .. n : WithText(said', k) = WithText(said, k)
    BY <1>4, <1>11 DEF WithText
  <2>2. Buffered(o') = Buffered(o) /\ (Pending(o') <=> Pending(o))
    BY <1>6 DEF Buffered, Pending
  <2>3. /\ Told(said, o.responses \o Buffered(o)) /\ Len(o.responses) <= MaxRounds
    BY DEF ChatInv, ResponseInv
  <2>4. WithText(said, n) \subseteq 1 .. n
    BY DEF WithText
  <2>5. Told(said', o.responses \o Buffered(o))
    <3> DEFINE all == o.responses \o Buffered(o)
    <3>1. WithText(said', n) = WithText(said, n) /\ Len(said') = n
      BY <1>5, <1>10, <2>1
    <3>2. ASSUME NEW i \in WithText(said, n)
          PROVE  all[Cardinality(WithText(said', i))] = [agent |-> said'[i].agent, text |-> said'[i].text]
      <4>1. i \in 1 .. n
        BY <2>4
      <4>2. all[Cardinality(WithText(said, i))] = [agent |-> said[i].agent, text |-> said[i].text]
        BY <2>3 DEF Told
      <4> QED
        BY <1>11, <2>1, <4>1, <4>2
    <3>3. Len(all) = Cardinality(WithText(said, n))
      BY <2>3 DEF Told
    <3> HIDE DEF all
    <3>4. Told(said', all)
      BY <3>1, <3>2, <3>3 DEF Told
    <3> QED
      BY <3>4 DEF all
  <2>6. ResponseInv' <=> /\ Told(said', o'.responses \o Buffered(o'))
                         /\ o'.conv # <<>> => ~Pending(o')
                         /\ Len(o'.responses) <= MaxRounds
    BY DEF ResponseInv
  <2> QED
    BY <1>4, <1>6, <2>2, <2>3, <2>5, <2>6
<1>23. LoopInv'
  BY <1>6 DEF FieldsInv, LoopKept, LoopInv
<1>24. EarnedInv'
  BY <1>6, <1>12 DEF FieldsInv, EarnedInv
<1>25. ToolInv'
  <2>1. recorded' \subseteq Calls'
    BY <1>13, <1>14, <1>18
  <2> QED
    BY <1>4, <1>6, <1>16, <1>19, <2>1 DEF ToolInv
<1> QED
  BY <1>20, <1>21, <1>22, <1>23, <1>24, <1>25 DEF ChatInv

(* The output: what the stream did not show is added.                      *)
LEMMA BackfillIs ==
  ASSUME ChatInv, Backfill(said)
  PROVE  /\ Lists(usage', recorded') /\ usage' \in Seq(Uses) /\ recorded' = Calls
         /\ \A i \in 1 .. Len(usage') : usage'[i].agent = said[usage'[i].call].agent
<1> DEFINE m == Calls \ recorded
           q == Ascending(m)
           k == Cardinality(m)
           more == [i \in 1 .. k |-> Used(said[q[i]].agent, q[i], "conversation")]
<1>1. /\ said \in Seq(Turns) /\ usage \in Seq(Uses) /\ Lists(usage, recorded) /\ recorded \subseteq Calls
      /\ \A i \in 1 .. Len(usage) : usage[i].agent = said[usage[i].call].agent
  BY DEF ChatInv, ChatTypes, ToolInv
<1>2. Calls = {i \in 1 .. Len(said) : said[i].called} /\ Len(said) \in Nat
  BY <1>1, CallsAre DEF Calls
<1>3. Calls \subseteq 1 .. Len(said) /\ m \subseteq 1 .. Len(said) /\ m \subseteq Nat
  BY <1>2
<1>4. IsFiniteSet(m)
  <2>1. IsFiniteSet(1 .. Len(said))
    BY <1>2, FS_Interval
  <2> QED
    BY <1>3, <2>1, FS_Subset
<1>5. Enumerates(q, m, k) /\ k \in Nat
  BY <1>3, <1>4, AscendingIs
<1>6. m = {i \in DOMAIN said : said[i].called} \ recorded /\ m \intersect recorded = {}
  BY DEF Calls
<1>7. /\ usage' = usage \o [i \in DOMAIN q |-> Used(said[q[i]].agent, q[i], "conversation")]
      /\ recorded' = recorded \cup m
  BY <1>6 DEF Backfill
<1> HIDE DEF m, q, k
<1>8. DOMAIN q = 1 .. k /\ \A i \in 1 .. k : q[i] \in m
  BY <1>5 DEF Enumerates
<1>9. usage' = usage \o more
  BY <1>7, <1>8
<1>10. \A i \in 1 .. k : q[i] \in Nat /\ said[q[i]].agent \in Agents
  <2>1. \A i \in 1 .. k : q[i] \in 1 .. Len(said)
    BY <1>3, <1>8
  <2>2. \A j \in 1 .. Len(said) : said[j] \in Turns
    BY <1>1, ElementOfSeq
  <2>3. \A j \in 1 .. Len(said) : j \in Nat /\ said[j].agent \in Agents
    BY <1>2, <2>2 DEF Turns
  <2> QED
    BY <2>1, <2>3
<1>11. \A i \in 1 .. k : Used(said[q[i]].agent, q[i], "conversation") \in Uses
  BY <1>10 DEF Used, Uses
<1>12. more \in Seq(Uses) /\ Len(more) = k
       /\ \A i \in 1 .. k : more[i].call = q[i] /\ more[i].agent = said[more[i].call].agent
  <2>1. more \in [1 .. k -> Uses]
    BY <1>11
  <2>2. more \in Seq(Uses) /\ Len(more) = k
    BY <1>5, <2>1
  <2> QED
    BY <2>2 DEF Used
<1> HIDE DEF more
<1>13. Lists(usage \o more, recorded \cup m)
  BY <1>1, <1>5, <1>6, <1>12, ListsOn
<1>14. /\ usage \o more \in Seq(Uses) /\ Len(usage \o more) = Len(usage) + k /\ Len(usage) \in Nat
       /\ \A i \in 1 .. Len(usage) + k :
            (usage \o more)[i] = IF i <= Len(usage) THEN usage[i] ELSE more[i - Len(usage)]
  <2>1. Len(usage) \in Nat
    BY <1>1
  <2>2. /\ usage \o more \in Seq(Uses) /\ Len(usage \o more) = Len(usage) + Len(more)
        /\ \A i \in 1 .. Len(usage) + Len(more) :
             (usage \o more)[i] = IF i <= Len(usage) THEN usage[i] ELSE more[i - Len(usage)]
    BY <1>1, <1>12, ConcatProperties
  <2> QED
    BY <1>12, <2>1, <2>2
<1>15. \A i \in 1 .. Len(usage) + k : i <= Len(usage) => i \in 1 .. Len(usage)
  BY <1>14
<1>16. \A i \in 1 .. Len(usage) + k : ~(i <= Len(usage)) => i - Len(usage) \in 1 .. k
  BY <1>5, <1>14
<1> DEFINE us == usage \o more
<1> HIDE DEF us
<1>17. \A i \in 1 .. Len(usage) + k : us[i].agent = said[us[i].call].agent
  <2> SUFFICES ASSUME NEW i \in 1 .. Len(usage) + k
               PROVE  us[i].agent = said[us[i].call].agent
    OBVIOUS
  <2>1. CASE i <= Len(usage)
    <3>1. i \in 1 .. Len(usage) /\ us[i] = usage[i]
      BY <1>14, <1>15, <2>1 DEF us
    <3> QED
      BY <1>1, <3>1
  <2>2. CASE ~(i <= Len(usage))
    <3>1. i - Len(usage) \in 1 .. k /\ us[i] = more[i - Len(usage)]
      BY <1>14, <1>16, <2>2 DEF us
    <3> QED
      BY <1>12, <3>1
  <2> QED
    BY <2>1, <2>2
<1>18. recorded \cup m = Calls
  BY <1>1 DEF m
<1> QED
  BY <1>7, <1>9, <1>13, <1>14, <1>17, <1>18 DEF us

LEMMA OutputKeeps == ChatInv /\ Output => ChatInv'
<1> SUFFICES ASSUME ChatInv, Output
             PROVE  ChatInv'
  OBVIOUS
<1> DEFINE b == OnTime(o)
           f == Finished(b)
           r == [f EXCEPT !.conv = said]
<1>1. stage = "streaming" /\ said # <<>> /\ said' = said /\ Backfill(said) /\ Conclude(o')
  BY DEF Output
<1>2. o' = r
  BY DEF Output, Finished
<1>3. Under(o, said)
  BY <1>1, UnderWay DEF ChatInv
<1>4. /\ FieldsInv(o) /\ o \in Memory /\ o.forced = "no" /\ ~o.stopped /\ said \in Seq(Turns)
      /\ Fits(said) /\ o.last = said[Len(said)].agent /\ o.buffer = said[Len(said)].text
      /\ Len(o.responses) < MaxRounds /\ Len(o.responses) \in Nat /\ MaxRounds \in Nat
  BY <1>1, <1>3, ChatAssumption DEF Under, FieldsInv, Memory
<1>5. Holds(o, b) /\ SameTurn(o, b) /\ b.forced # "loop"
  BY <1>4, OnTimeIs
<1> HIDE DEF b
<1>6. b.last = o.last /\ b.buffer = o.buffer /\ b.responses = o.responses /\ b.streak = o.streak
  BY <1>5 DEF SameTurn, Holds, SameLoop
<1>7. FieldsInv(b) /\ b.streak < 3
  BY <1>4, <1>5, <1>6, FieldsHold, NoStreak
<1>8. b.last = Coordinator <=> b.buffer \in Decided
  BY <1>1, <1>4, <1>6, LastTurn DEF Fits
<1>9. FinishedIs(b, f)
  BY <1>5, <1>7, <1>8, FinishedIsFinished
<1> HIDE DEF f
<1>10. Buffered(b) = Buffered(o)
  BY <1>6 DEF Buffered, Pending
<1>11. /\ FieldsInv(f) /\ f \in Memory /\ f.responses = o.responses \o Buffered(o) /\ ~Pending(f)
       /\ Len(f.responses) <= Len(o.responses) + 1
  BY <1>6, <1>9, <1>10 DEF FinishedIs, FieldsInv
<1>12. r \in Memory /\ Holds(f, r) /\ r.last = f.last /\ r.buffer = f.buffer /\ r.conv = said
  BY <1>4, <1>11 DEF Memory, Holds, SameLoop
<1> HIDE DEF r
<1>13. FieldsInv(o') /\ o' \in Memory
  BY <1>2, <1>11, <1>12, FieldsHold
<1>14. o'.responses = o.responses \o Buffered(o) /\ ~Pending(o')
  BY <1>2, <1>11, <1>12 DEF Holds, Pending
<1>15. Len(o'.responses) <= MaxRounds
  <2>1. Len(f.responses) \in Nat
    BY <1>11 DEF Memory
  <2>2. o'.responses = f.responses
    BY <1>2, <1>12 DEF Holds
  <2> QED
    BY <1>4, <1>11, <2>1, <2>2
<1>16. /\ stage' \in {"generate", "report"} /\ outcome' # "typed"
       /\ stage' = "generate" => o'.forced = "no" /\ (o'.stopped => o'.asked \in {NoAsk, "complete"})
  BY <1>1, <1>13, ConcludeIs DEF Memory
<1>17. /\ Lists(usage', recorded') /\ usage' \in Seq(Uses) /\ recorded' = Calls
       /\ \A i \in 1 .. Len(usage') : usage'[i].agent = said[usage'[i].call].agent
  BY <1>1, BackfillIs
<1>18. Calls \subseteq Nat
  BY <1>4, CallsAre DEF Calls
<1>19. ChatTypes'
  BY <1>1, <1>2, <1>4, <1>12, <1>13, <1>16, <1>17, <1>18 DEF ChatTypes, FieldsInv
<1>20. TurnInv'
  BY <1>16 DEF TurnInv
<1>21. ResponseInv'
  <2>1. Buffered(o') = <<>>
    BY <1>14 DEF Buffered
  <2>2. Buffered(o) \in Seq(Responses) /\ o.responses \in Seq(Responses)
    BY <1>4, BufferedIs DEF Memory
  <2>3. o.responses \o Buffered(o) \in Seq(Responses)
    BY <2>2, ConcatProperties
  <2>4. o'.responses \o Buffered(o') = o.responses \o Buffered(o)
    BY <1>14, <2>1, <2>3, ConcatEmptySeq
  <2>5. Told(said, o.responses \o Buffered(o))
    BY DEF ChatInv, ResponseInv
  <2>6. Told(said', o'.responses \o Buffered(o'))
    BY <1>1, <2>4, <2>5
  <2>7. ResponseInv' <=> /\ Told(said', o'.responses \o Buffered(o'))
                         /\ o'.conv # <<>> => ~Pending(o')
                         /\ Len(o'.responses) <= MaxRounds
    BY DEF ResponseInv
  <2> QED
    BY <1>14, <1>15, <2>6, <2>7
<1>22. LoopInv'
  BY <1>13 DEF FieldsInv, LoopKept, LoopInv
<1>23. EarnedInv'
  BY <1>13, <1>16 DEF FieldsInv, EarnedInv
<1>24. ToolInv'
  BY <1>1, <1>17 DEF ToolInv, Calls
<1> QED
  BY <1>19, <1>20, <1>21, <1>22, <1>23, <1>24 DEF ChatInv

(* The other steps leave the conversation and the fields alone.            *)
LEMMA Settled ==
  ASSUME ChatInv, UNCHANGED <<said, o, recorded, usage>>,
         stage' \in {"streaming", "generate", "retry", "report", "done"},
         stage' = "streaming" => stage = "streaming",
         stage' \in {"generate", "retry"} \/ outcome' = "typed" =>
           stage \in {"generate", "retry"} \/ outcome = "typed"
  PROVE  ChatInv'
<1>1. ChatTypes'
  BY DEF ChatInv, ChatTypes
<1>2. TurnInv'
  BY DEF ChatInv, TurnInv
<1>3. ResponseInv'
  BY DEF ChatInv, ResponseInv
<1>4. LoopInv'
  BY DEF ChatInv, LoopInv
<1>5. EarnedInv'
  BY DEF ChatInv, EarnedInv
<1>6. ToolInv'
  <2>1. Calls' = Calls
    BY DEF Calls
  <2> QED
    BY <2>1 DEF ChatInv, ToolInv
<1> QED
  BY <1>1, <1>2, <1>3, <1>4, <1>5, <1>6 DEF ChatInv

LEMMA ChatInit == Init => ChatInv
<1> SUFFICES ASSUME Init
             PROVE  ChatInv
  OBVIOUS
<1>1. /\ stage = "streaming" /\ said = <<>> /\ recorded = {} /\ usage = <<>> /\ outcome = "none"
      /\ o = [last |-> Nobody, buffer |-> NoText, responses |-> <<>>, conv |-> <<>>,
              progress |-> 0, choice |-> NoSelection, streak |-> 0, seen |-> 0,
              asked |-> NoAsk, stopped |-> FALSE, forced |-> "no"]
  BY DEF Init
<1>2. NoSelection \in Selections /\ NoSelection.to = Nobody
  BY DEF NoSelection, Selections, Asks
<1>3. o \in Memory
  BY <1>1, <1>2 DEF Memory, Texts, Asks
<1>4. /\ o.last = Nobody /\ o.buffer = NoText /\ o.responses = <<>> /\ o.conv = <<>> /\ o.choice.to = Nobody
      /\ o.streak = 0 /\ o.asked = NoAsk /\ ~o.stopped /\ o.forced = "no"
  BY <1>1, <1>2
<1>5. Len(o.responses) = 0 /\ Len(said) = 0
  BY <1>1, <1>4
<1>6. ChatTypes
  BY <1>1, <1>3, <1>4, <1>5 DEF ChatTypes, Fits
<1>7. TurnInv
  BY <1>1, <1>4, <1>5, ChatAssumption DEF TurnInv
<1>8. ResponseInv
  <2>1. Buffered(o) = <<>> /\ o.responses \o Buffered(o) = <<>>
    BY <1>4 DEF Buffered, Pending
  <2>2. WithText(said, Len(said)) = {}
    BY <1>5 DEF WithText
  <2>3. Told(said, o.responses \o Buffered(o))
    BY <1>5, <2>1, <2>2, FS_EmptySet DEF Told
  <2> QED
    BY <1>4, <1>5, <2>3, ChatAssumption DEF ResponseInv
<1>9. LoopInv
  BY <1>4, <1>5 DEF LoopInv, StreakInv
<1>10. EarnedInv
  BY <1>1, <1>4, <1>5 DEF EarnedInv, AskedInv
<1>11. ToolInv
  BY <1>1, <1>4 DEF ToolInv, Lists
<1> QED
  BY <1>6, <1>7, <1>8, <1>9, <1>10, <1>11 DEF ChatInv

LEMMA ChatStep == ChatInv /\ [Next]_vars => ChatInv'
<1> SUFFICES ASSUME ChatInv, [Next]_vars
             PROVE  ChatInv'
  OBVIOUS
<1>1. CASE CoordinatorTurn
  BY <1>1, CoordinatorTurnKeeps
<1>2. CASE ReviewerTurn
  BY <1>2, ReviewerTurnKeeps
<1>3. CASE ToolTurn
  BY <1>3, ToolTurnKeeps
<1>4. CASE Output
  BY <1>4, OutputKeeps
<1>5. CASE Clock
  BY <1>5, Settled DEF Clock
<1>6. CASE Generated
  BY <1>6, Settled DEF Generated, Decide
<1>7. CASE Invalid
  BY <1>7, Settled DEF Invalid, Decide
<1>8. CASE Fail
  BY <1>8, Settled DEF Fail, Decide
<1>9. CASE Report
  BY <1>9, Settled DEF Report
<1>10. CASE ReportFails
  BY <1>10, Settled DEF ReportFails
<1>11. CASE UNCHANGED vars
  <2>1. UNCHANGED <<stage, said, o, recorded, usage, outcome>>
    BY <1>11 DEF vars
  <2>2. stage \in {"streaming", "generate", "retry", "report", "done"}
    BY DEF ChatInv, ChatTypes
  <2> QED
    BY <2>1, <2>2, Settled
<1> QED
  BY <1>1, <1>2, <1>3, <1>4, <1>5, <1>6, <1>7, <1>8, <1>9, <1>10, <1>11
     DEF Next, Stream, Settle

LEMMA ChatInvariant == Spec => []ChatInv
<1> QED
  BY ChatInit, ChatStep, PTL DEF Spec

-------------------------------------------------------------------------------
(* Every turn with text becomes one response, in the order of the turns    *)
(* (_complete_agent_response), and there are max_rounds at most.           *)
THEOREM TurnsAnswered == Spec => []OneResponsePerTurn
<1>1. ChatInv => OneResponsePerTurn
  <2> SUFFICES ASSUME ChatInv
               PROVE  OneResponsePerTurn
    OBVIOUS
  <2>1. /\ Told(said, o.responses \o Buffered(o))
        /\ o.conv # <<>> => ~Pending(o)
        /\ Len(o.responses) <= MaxRounds
    BY DEF ChatInv, ResponseInv
  <2>2. Buffered(o) = IF Pending(o) THEN <<[agent |-> o.last, text |-> o.buffer]>> ELSE <<>>
    BY DEF Buffered
  <2>3. o.conv # <<>> => Buffered(o) = <<>>
    BY <2>1, <2>2
  <2> QED
    BY <2>1, <2>2, <2>3 DEF OneResponsePerTurn, Told
<1> QED
  BY <1>1, ChatInvariant, PTL

(* A chat is stopped as a loop when, and only when, the Coordinator has    *)
(* made the same selection three times with no answer in between           *)
(* (_detect_loop).                                                         *)
THEOREM LoopsAreReal == Spec => []LoopIsReal
<1>1. ChatInv => LoopIsReal
  <2> SUFFICES ASSUME ChatInv
               PROVE  LoopIsReal
    OBVIOUS
  <2> DEFINE rs == o.responses
             n  == Len(rs)
  <2>1. /\ StreakInv(o) /\ (o.streak = 3 => o.forced # "no" \/ o.stopped)
        /\ o.forced = "loop" => o.streak = 3
    BY DEF ChatInv, LoopInv
  <2>2. DOMAIN rs = 1 .. n /\ n \in Nat
    BY DEF ChatInv, ChatTypes, Memory
  <2>3. ThreeAlike(rs) <=> o.streak = 3
    <3>1. ThreeAlike(rs) <=>
            \E k \in 1 .. n : /\ \A l \in k + 1 .. n : ~Selecting(rs, l)
                              /\ \E j \in 1 .. k : Again(rs, j, k) /\ Repeats(rs, j)
      BY <2>2 DEF ThreeAlike, Repeats
    <3>2. \A j, k : Again(rs, j, k) => Selecting(rs, k)
      BY DEF Again
    <3>3. CASE (\A i \in 1 .. n : ~Selecting(rs, i)) /\ o.streak = 0
      <4>1. ~ThreeAlike(rs)
        BY <3>1, <3>2, <3>3
      <4> QED
        BY <3>3, <4>1
    <3>4. ASSUME NEW l \in 1 .. n, LastOne(rs, l), Streak(o, l)
          PROVE  ThreeAlike(rs) <=> o.streak = 3
      <4>1. \A k \in 1 .. n : Selecting(rs, k) /\ (\A i \in k + 1 .. n : ~Selecting(rs, i)) <=> k = l
        <5>1. Selecting(rs, l) /\ \A i \in l + 1 .. n : ~Selecting(rs, i)
          BY <3>4 DEF LastOne
        <5>2. \A k \in 1 .. n : k = l \/ k \in l + 1 .. n \/ l \in k + 1 .. n
          BY <2>2
        <5> QED
          BY <5>1, <5>2
      <4>2. o.streak = 3 <=> \E j \in 1 .. l : Again(rs, j, l) /\ Repeats(rs, j)
        BY <3>4 DEF Streak
      <4> QED
        BY <3>1, <3>2, <4>1, <4>2
    <3> QED
      BY <2>1, <2>2, <3>3, <3>4 DEF StreakInv
  <2> QED
    BY <2>1, <2>3 DEF LoopIsReal
<1> QED
  BY <1>1, ChatInvariant, PTL

(* The generator's result is only returned for a chat that ran its course  *)
(* (run_stream).                                                           *)
THEOREM ResultsAreEarned == Spec => []ResultIsEarned
<1>1. ChatInv => ResultIsEarned
  <2> SUFFICES ASSUME ChatInv, outcome = "typed"
               PROVE  /\ o.forced = "no"
                      /\ o.stopped => \A i \in DOMAIN o.responses :
                           /\ Instructs(o.responses, i)
                           /\ \A k \in i + 1 .. Len(o.responses) : ~Instructs(o.responses, k)
                           => o.responses[i].text.ask = "complete"
    BY DEF ResultIsEarned
  <2> DEFINE rs == o.responses
             n  == Len(rs)
  <2>1. AskedInv(o) /\ o.forced = "no" /\ (o.stopped => o.asked \in {NoAsk, "complete"})
    BY DEF ChatInv, EarnedInv
  <2>2. DOMAIN rs = 1 .. n /\ n \in Nat
    BY DEF ChatInv, ChatTypes, Memory
  <2>3. ASSUME o.stopped, NEW i \in 1 .. n, Instructs(rs, i), \A k \in i + 1 .. n : ~Instructs(rs, k)
        PROVE  rs[i].text.ask = "complete"
    <3>1. PICK l \in 1 .. n : LastAsk(rs, l) /\ o.asked = rs[l].text.ask
      BY <2>1, <2>3 DEF AskedInv
    <3>2. i = l \/ i \in l + 1 .. n \/ l \in i + 1 .. n
      BY <2>2
    <3>3. i = l
      BY <2>3, <3>1, <3>2 DEF LastAsk
    <3>4. rs[i].text.ask # NoAsk
      BY <2>3 DEF Instructs
    <3> QED
      BY <2>1, <2>3, <3>1, <3>3, <3>4
  <2> QED
    BY <2>1, <2>2, <2>3
<1> QED
  BY <1>1, ChatInvariant, PTL

(* No tool call is recorded twice, and a chat that reaches its output has  *)
(* all of them (_record_tool_usage, _backfill_tool_usage).                 *)
THEOREM CallsRecordedOnce == Spec => []ToolCallsOnce
<1>1. ChatInv => ToolCallsOnce
  <2> SUFFICES ASSUME ChatInv
               PROVE  ToolCallsOnce
    OBVIOUS
  <2>1. DOMAIN usage = 1 .. Len(usage)
    BY DEF ChatInv, ChatTypes
  <2>2. /\ Lists(usage, recorded) /\ recorded \subseteq Calls
        /\ \A i \in 1 .. Len(usage) : usage[i].agent = said[usage[i].call].agent
        /\ o.conv # <<>> => Calls \subseteq recorded
    BY DEF ChatInv, ToolInv
  <2> QED
    BY <2>1, <2>2 DEF ToolCallsOnce, Lists
<1> QED
  BY <1>1, ChatInvariant, PTL

-------------------------------------------------------------------------------
(* The excerpts.                                                           *)
Entries == [key : Responses, size : Nat]

Accounts == [picked : Seq(Entries), keys : SUBSET Responses, total : Nat, full : BOOLEAN]

(* What the loop has picked so far keeps within the limit.                 *)
Within(limit, acc) ==
  /\ acc \in Accounts /\ Len(acc.picked) <= limit.messages
  /\ acc.total <= limit.total /\ (acc.full <=> acc.total >= limit.total)
  /\ Total(acc.picked) = acc.total

(* The total adds the sizes up from the last one.                          *)
Sized(e) == [k \in 1 .. Len(e) |-> e[Len(e) + 1 - k].size]

AddsUp(f, e) ==
  /\ Sums(f, Len(e), Sized(e)) /\ Total(e) = f[Len(e)]
  /\ \A k \in 1 .. Len(e) : Sized(e)[k] \in Nat

LEMMA TotalIs ==
  ASSUME NEW e \in Seq(Entries)
  PROVE  \E f : AddsUp(f, e)
<1> DEFINE n == Len(e)
           a == [k \in 1 .. n |-> e[n + 1 - k].size]
           sum == CHOOSE f : f = [k \in 0 .. n |-> IF k = 0 THEN 0 ELSE f[k - 1] + e[n + 1 - k].size]
<1>0. n \in Nat
  OBVIOUS
<1>1. \A k \in 1 .. n : e[n + 1 - k].size \in Nat
  <2> SUFFICES ASSUME NEW k \in 1 .. n
               PROVE  e[n + 1 - k].size \in Nat
    OBVIOUS
  <2>1. n + 1 - k \in 1 .. n
    BY <1>0
  <2>2. e[n + 1 - k] \in Entries
    BY <2>1, ElementOfSeq
  <2> QED
    BY <2>2 DEF Entries
<1>2. \A k \in 1 .. n : a[k] \in Nat /\ a[k] = e[n + 1 - k].size
  BY <1>1
<1>3. \A f : Sums(f, n, a) <=> f = [k \in 0 .. n |-> IF k = 0 THEN 0 ELSE f[k - 1] + e[n + 1 - k].size]
  <2>1. \A k \in 0 .. n : k # 0 => a[k] = e[n + 1 - k].size
    BY <1>0, <1>2
  <2> HIDE DEF a
  <2>2. ASSUME NEW f
        PROVE  [k \in 0 .. n |-> IF k = 0 THEN 0 ELSE f[k - 1] + a[k]]
                 = [k \in 0 .. n |-> IF k = 0 THEN 0 ELSE f[k - 1] + e[n + 1 - k].size]
    BY <2>1
  <2> QED
    BY <2>2 DEF Sums
<1>4. \E f : Sums(f, n, a)
  <2> HIDE DEF a
  <2> QED
    BY <1>0, <1>2, SumsExist
<1>5. Sums(sum, n, a)
  <2>1. sum = [k \in 0 .. n |-> IF k = 0 THEN 0 ELSE sum[k - 1] + e[n + 1 - k].size]
    BY <1>3, <1>4
  <2> QED
    BY <1>3, <2>1
<1>6. Total(e) = sum[n]
  BY DEF Total
<1>7. Sized(e) = a
  BY DEF Sized
<1> HIDE DEF a, sum
<1>8. AddsUp(sum, e)
  BY <1>2, <1>5, <1>6, <1>7 DEF AddsUp
<1> QED
  BY <1>8

LEMMA TotalOfNone == Total(<<>>) = 0
<1>1. <<>> \in Seq(Entries) /\ Len(<<>>) = 0
  OBVIOUS
<1>2. PICK f : AddsUp(f, <<>>)
  BY <1>1, TotalIs
<1>3. Sums(f, 0, Sized(<<>>)) /\ Total(<<>>) = f[0]
  BY <1>1, <1>2 DEF AddsUp
<1>4. f[0] = 0
  BY <1>3 DEF Sums
<1> QED
  BY <1>3, <1>4

LEMMA TotalOfMore ==
  ASSUME NEW e \in Seq(Entries), NEW x \in Entries
  PROVE  Total(<<x>> \o e) = Total(e) + x.size
<1> DEFINE n == Len(e)
           q == <<x>> \o e
           a == Sized(e)
           b == Sized(q)
<1>0. n \in Nat /\ q \in Seq(Entries) /\ Len(q) = n + 1 /\ q[1] = x
      /\ \A i \in 1 .. n : q[i + 1] = e[i]
  OBVIOUS
<1>1. PICK f : AddsUp(f, e)
  BY TotalIs
<1>2. PICK g : AddsUp(g, q)
  <2> HIDE DEF q, n
  <2> QED
    BY <1>0, TotalIs
<1>3. b[n + 1] = x.size /\ \A k \in 1 .. n : a[k] = b[k] /\ a[k] \in Nat
  <2>1. (n + 1) + 1 - (n + 1) = 1 /\ n + 1 \in 1 .. n + 1
    BY <1>0
  <2> HIDE DEF q
  <2>2. \A k \in 1 .. n + 1 : b[k] = q[(n + 1) + 1 - k].size
    BY <1>0 DEF Sized
  <2>3. ASSUME NEW k \in 1 .. n
        PROVE  a[k] = b[k] /\ a[k] \in Nat
    <3>1. n + 1 - k \in 1 .. n /\ (n + 1) + 1 - k = (n + 1 - k) + 1 /\ k \in 1 .. n + 1
      BY <1>0
    <3>2. q[(n + 1) + 1 - k] = e[n + 1 - k]
      BY <1>0, <3>1
    <3>3. a[k] = e[n + 1 - k].size
      BY DEF Sized
    <3>4. a[k] \in Nat
      BY <1>1 DEF AddsUp
    <3> QED
      BY <2>2, <3>1, <3>2, <3>3, <3>4
  <2>4. b[n + 1] = q[1].size
    BY <2>1, <2>2
  <2> QED
    BY <1>0, <2>3, <2>4
<1>4. \A k \in 1 .. n + 1 : b[k] \in Nat
  <2> HIDE DEF q, n
  <2> QED
    BY <1>0, <1>2 DEF AddsUp
<1> HIDE DEF q
<1>10. Sums(f, n, a) /\ Total(e) = f[n]
  BY <1>1 DEF AddsUp
<1>11. Sums(g, n + 1, b) /\ Total(q) = g[n + 1]
  BY <1>0, <1>2 DEF AddsUp
<1> HIDE DEF a, b, n
<1>5. f \in [0 .. n -> Nat] /\ f[0] = 0 /\ \A k \in 1 .. n : f[k] = f[k - 1] + a[k]
  <2>1. \A k \in 1 .. n : a[k] \in Nat
    BY <1>3
  <2> QED
    BY ONLY <1>0, <1>10, <2>1, SumsAre
<1>6. g \in [0 .. n + 1 -> Nat] /\ g[0] = 0 /\ \A k \in 1 .. n + 1 : g[k] = g[k - 1] + b[k]
  <2> DEFINE l == n + 1
  <2>1. l \in Nat
    BY <1>0
  <2>2. Sums(g, l, b) /\ \A k \in 1 .. l : b[k] \in Nat
    BY <1>4, <1>11
  <2> HIDE DEF l
  <2>3. g \in [0 .. l -> Nat] /\ g[0] = 0 /\ \A k \in 1 .. l : g[k] = g[k - 1] + b[k]
    BY ONLY <2>1, <2>2, SumsAre
  <2> QED
    BY <2>3 DEF l
<1> DEFINE H == {k \in 0 .. n : f[k] = g[k]}
<1>7. 0 .. n \subseteq H
  <2>1. 0 \in H
    BY <1>0, <1>5, <1>6
  <2>2. ASSUME NEW k \in 0 .. n - 1, k \in H
        PROVE  k + 1 \in H
    <3>1. k + 1 \in 1 .. n /\ k + 1 \in 1 .. n + 1 /\ (k + 1) - 1 = k /\ k + 1 \in 0 .. n
      BY <1>0
    <3> QED
      BY <1>3, <1>5, <1>6, <2>2, <3>1
  <2>3. \A k \in 0 .. n - 1 : k \in H => k + 1 \in H
    BY <2>2
  <2> HIDE DEF H
  <2> QED
    BY ONLY <1>0, <2>1, <2>3, IntervalInduction
<1>8. f[n] = g[n] /\ f[n] \in Nat
  BY <1>0, <1>5, <1>7
<1>9. g[n + 1] = g[n] + x.size
  <2>1. n + 1 \in 1 .. n + 1 /\ (n + 1) - 1 = n
    BY <1>0
  <2> QED
    BY <1>3, <1>6, <2>1
<1> QED
  BY <1>8, <1>9, <1>10, <1>11 DEF q

(* What is cut keeps within what there is.                                 *)
LEMMA ShortenedIs ==
  ASSUME NEW s \in Nat, NEW max \in Nat, NEW cut \in Nat
  PROVE  Shortened(s, max, cut) \in Nat /\ Shortened(s, max, cut) <= max /\ Shortened(s, max, cut) <= s
BY DEF Shortened, Least

SizeOf(limit, acc, m) ==
  Shortened(Shortened(Size[m.text], limit.each, limit.cut), limit.total - acc.total, limit.cut)

LEMMA LimitIs ==
  ASSUME NEW limit \in Limits
  PROVE  /\ limit.messages \in Nat \ {0} /\ limit.total \in Nat \ {0} /\ limit.each \in Nat \ {0}
         /\ limit.cut \in Nat
BY DEF Limits

(* A message that counts: of a reviewer, with the length it has.           *)
Counts(m) == m \in Turns /\ (m.agent # Coordinator => m.text \in Signs \cup {NoText})

(* A message is skipped, or put before the ones picked so far.             *)
PickedIs(limit, acc, m, r) ==
  IF Skips(limit, acc, m) THEN r = acc
  ELSE /\ r = Picked(limit, acc, m, SizeOf(limit, acc, m))
       /\ acc.total < limit.total /\ Len(acc.picked) < limit.messages
       /\ SizeOf(limit, acc, m) \in Nat /\ SizeOf(limit, acc, m) <= limit.each
       /\ m.text \in Signs \cup {NoText}

LEMMA PickIs ==
  ASSUME NEW limit \in Limits, NEW acc, Within(limit, acc), NEW m, Counts(m)
  PROVE  PickedIs(limit, acc, m, Pick(limit, acc, m)) /\ Within(limit, Pick(limit, acc, m))
<1>1. CASE Skips(limit, acc, m)
  BY <1>1 DEF Pick, PickedIs
<1>2. CASE ~Skips(limit, acc, m)
  <2> DEFINE room == limit.total - acc.total
             size == SizeOf(limit, acc, m)
             x    == [key |-> Key(m), size |-> size]
             r    == Picked(limit, acc, m, size)
  <2>0. /\ acc.picked \in Seq(Entries) /\ acc.keys \subseteq Responses /\ acc.total \in Nat
        /\ limit.messages \in Nat /\ limit.total \in Nat /\ limit.each \in Nat /\ limit.cut \in Nat
        /\ Len(acc.picked) \in Nat
    BY LimitIs DEF Within, Accounts
  <2>1. ~acc.full /\ Len(acc.picked) < limit.messages /\ m.agent # Coordinator
    BY <1>2, <2>0 DEF Skips
  <2>2. acc.total < limit.total /\ room \in Nat /\ ~(room <= 0)
    BY <2>0, <2>1 DEF Within
  <2>3. m.text \in Signs \cup {NoText} /\ Size[m.text] \in Nat
    BY <2>1, ChatAssumption DEF Counts
  <2>4. size \in Nat /\ size <= limit.each /\ size <= room
    <3> DEFINE cut == Shortened(Size[m.text], limit.each, limit.cut)
    <3>1. cut \in Nat /\ cut <= limit.each
      BY <2>0, <2>3, ShortenedIs
    <3> HIDE DEF cut
    <3>2. Shortened(cut, room, limit.cut) \in Nat /\ Shortened(cut, room, limit.cut) <= room
          /\ Shortened(cut, room, limit.cut) <= cut
      BY <2>0, <2>2, <3>1, ShortenedIs
    <3>3. size = Shortened(cut, room, limit.cut)
      BY DEF SizeOf, cut
    <3> QED
      BY <2>0, <3>1, <3>2, <3>3
  <2>5. Pick(limit, acc, m) = r
    BY <1>2, <2>2 DEF Pick, SizeOf
  <2>6. Key(m) \in Responses
    BY DEF Counts, Key, Turns, Responses
  <2> HIDE DEF size
  <2>7. x \in Entries /\ x.size = size
    BY <2>4, <2>6 DEF Entries
  <2> HIDE DEF x
  <2>8. <<x>> \o acc.picked \in Seq(Entries) /\ Len(<<x>> \o acc.picked) = Len(acc.picked) + 1
    BY <2>0, <2>7
  <2>9. Total(<<x>> \o acc.picked) = acc.total + size
    <3>1. Total(acc.picked) = acc.total
      BY DEF Within
    <3> QED
      BY <2>0, <2>7, <3>1, TotalOfMore
  <2>10. /\ r.picked = <<x>> \o acc.picked /\ r.keys = acc.keys \union {Key(m)}
         /\ r.total = acc.total + size /\ r.full = (acc.total + size >= limit.total)
         /\ r = [picked |-> r.picked, keys |-> r.keys, total |-> r.total, full |-> r.full]
    BY DEF Picked, x
  <2> HIDE DEF r
  <2>11. r \in Accounts
    <3>0. (acc.total + size >= limit.total) \in BOOLEAN
      BY <2>0, <2>4
    <3>1. r.full \in BOOLEAN
      BY <2>10, <3>0
    <3>3. r.total \in Nat /\ r.keys \in SUBSET Responses
      BY <2>0, <2>4, <2>6, <2>10
    <3>2. r.picked \in Seq(Entries)
      BY <2>8, <2>10
    <3> QED
      BY <2>10, <3>1, <3>2, <3>3 DEF Accounts
  <2>12. Within(limit, r)
    <3>1. Len(r.picked) <= limit.messages
      BY <2>0, <2>1, <2>8, <2>10
    <3>2. r.total <= limit.total
      BY <2>0, <2>2, <2>4, <2>10
    <3>3. r.full <=> r.total >= limit.total
      <4>1. r.full = (acc.total + size >= limit.total) /\ r.total = acc.total + size
        BY <2>10
      <4> QED
        BY ONLY <4>1, Zenon
    <3> QED
      BY <2>9, <2>10, <2>11, <3>1, <3>2, <3>3 DEF Within
  <2> QED
    BY <1>2, <2>1, <2>2, <2>3, <2>4, <2>5, <2>12 DEF PickedIs, r, size
<1> QED
  BY <1>1, <1>2

LEMMA NothingIs ==
  ASSUME NEW limit \in Limits
  PROVE  Within(limit, Nothing)
<1>1. /\ Nothing.picked = <<>> /\ Nothing.total = 0 /\ ~Nothing.full /\ Nothing.keys = {}
      /\ Nothing \in Accounts
  BY DEF Nothing, Accounts
<1>2. Len(<<>>) = 0
  OBVIOUS
<1> QED
  BY <1>1, <1>2, LimitIs, TotalOfNone DEF Within

-------------------------------------------------------------------------------
(* A conversation, from its newest message back.                           *)
Spoken(ms) == ms \in Seq(Turns) /\ Fits(ms)

Backs(f, ms, limit) ==
  /\ f[0] = Nothing /\ \A k \in 0 .. Len(ms) : Within(limit, f[k])
  /\ \A k \in 1 .. Len(ms) : PickedIs(limit, f[k - 1], ms[Len(ms) + 1 - k], f[k])

LEMMA SpokenCounts ==
  ASSUME NEW ms, Spoken(ms), NEW i \in 1 .. Len(ms)
  PROVE  Counts(ms[i])
<1>1. ms[i] \in Turns
  BY ElementOfSeq DEF Spoken
<1>2. ms[i].text \in Texts /\ (ms[i].agent # Coordinator => ms[i].text \notin Decided)
  BY <1>1 DEF Spoken, Fits, Turns
<1> QED
  BY <1>1, <1>2 DEF Counts, Texts

LEMMA ExcerptIs ==
  ASSUME NEW ms, Spoken(ms), NEW limit \in Limits
  PROVE  \E f : Backs(f, ms, limit) /\ Excerpt(ms, limit) = f[Len(ms)].picked
<1> DEFINE n == Len(ms)
           D == {acc \in Accounts : Within(limit, acc)}
           step == [p \in D \X (1 .. n) |-> Pick(limit, p[1], ms[n + 1 - p[2]])]
           back == CHOOSE f : f = [k \in 0 .. n |->
                     IF k = 0 THEN Nothing ELSE Pick(limit, f[k - 1], ms[n + 1 - k])]
<1>0. n \in Nat
  BY DEF Spoken
<1>1. ASSUME NEW acc \in D, NEW k \in 1 .. n
      PROVE  /\ PickedIs(limit, acc, ms[n + 1 - k], Pick(limit, acc, ms[n + 1 - k]))
             /\ Pick(limit, acc, ms[n + 1 - k]) \in D
  <2>1. n + 1 - k \in 1 .. n
    BY <1>0
  <2>2. Counts(ms[n + 1 - k])
    BY <2>1, SpokenCounts
  <2>3. Within(limit, acc)
    OBVIOUS
  <2>4. /\ PickedIs(limit, acc, ms[n + 1 - k], Pick(limit, acc, ms[n + 1 - k]))
        /\ Within(limit, Pick(limit, acc, ms[n + 1 - k]))
    BY <2>2, <2>3, PickIs
  <2> QED
    BY <2>4 DEF Within
<1>2. Nothing \in D
  BY NothingIs DEF Within
<1>3. step \in [D \X (1 .. n) -> D]
  <2> SUFFICES ASSUME NEW p \in D \X (1 .. n)
               PROVE  Pick(limit, p[1], ms[n + 1 - p[2]]) \in D
    OBVIOUS
  <2>1. p[1] \in D /\ p[2] \in 1 .. n
    OBVIOUS
  <2> HIDE DEF D, n
  <2> QED
    BY <1>1, <2>1
<1>4. \A acc \in D, k \in 1 .. n : step[<<acc, k>>] = Pick(limit, acc, ms[n + 1 - k])
  <2> HIDE DEF D, n
  <2> QED
    OBVIOUS
<1> HIDE DEF D, step, n
<1>5. PICK f \in [0 .. n -> D] : Recurs(f, n, Nothing, step)
  BY <1>0, <1>2, <1>3, RecursionExists
<1>6. f = [k \in 0 .. n |-> IF k = 0 THEN Nothing ELSE Pick(limit, f[k - 1], ms[n + 1 - k])]
  <2>1. ASSUME NEW k \in 0 .. n
        PROVE  f[k] = IF k = 0 THEN Nothing ELSE Pick(limit, f[k - 1], ms[n + 1 - k])
    <3>1. CASE k = 0
      BY <1>5, <3>1 DEF Recurs
    <3>2. CASE k # 0
      <4>1. k \in 1 .. n /\ k - 1 \in 0 .. n
        BY <1>0, <3>2
      <4>2. f[k - 1] \in D /\ f[k] = step[<<f[k - 1], k>>]
        BY <1>5, <4>1 DEF Recurs
      <4> QED
        BY <1>4, <3>2, <4>1, <4>2
    <3> QED
      BY <3>1, <3>2
  <2> QED
    BY <1>5, <2>1
<1>7. back = [k \in 0 .. n |-> IF k = 0 THEN Nothing ELSE Pick(limit, back[k - 1], ms[n + 1 - k])]
  BY <1>6
<1>8. Excerpt(ms, limit) = back[n].picked
  BY DEF Excerpt, n
<1> HIDE DEF back
<1>9. back[0] = Nothing /\ \A k \in 1 .. n : back[k] = Pick(limit, back[k - 1], ms[n + 1 - k])
  <2>1. \A k \in 1 .. n : k \in 0 .. n /\ k # 0
    BY <1>0
  <2>2. 0 \in 0 .. n
    BY <1>0
  <2> QED
    BY <1>7, <2>1, <2>2
<1> DEFINE H == {k \in 0 .. n : back[k] \in D}
<1>10. 0 .. n \subseteq H
  <2>1. 0 \in H
    BY <1>0, <1>2, <1>9
  <2>2. ASSUME NEW k \in 0 .. n - 1, k \in H
        PROVE  k + 1 \in H
    <3>1. k + 1 \in 1 .. n /\ (k + 1) - 1 = k /\ k + 1 \in 0 .. n
      BY <1>0
    <3>2. back[k + 1] = Pick(limit, back[k], ms[n + 1 - (k + 1)])
      BY <1>9, <3>1
    <3> QED
      BY <1>1, <2>2, <3>1, <3>2
  <2>3. \A k \in 0 .. n - 1 : k \in H => k + 1 \in H
    BY <2>2
  <2> HIDE DEF H
  <2> QED
    BY ONLY <1>0, <2>1, <2>3, IntervalInduction
<1>11. \A k \in 0 .. n : back[k] \in D /\ Within(limit, back[k])
  BY <1>10 DEF D
<1>12. ASSUME NEW k \in 1 .. n
       PROVE  PickedIs(limit, back[k - 1], ms[n + 1 - k], back[k])
  <2>1. k - 1 \in 0 .. n
    BY <1>0
  <2> QED
    BY <1>1, <1>9, <1>11, <2>1
<1>13. Backs(back, ms, limit)
  BY <1>9, <1>11, <1>12 DEF Backs, n
<1> QED
  BY <1>8, <1>13 DEF n

(* The newest message that counts is picked first and stays last.          *)
LEMMA NewestStays ==
  ASSUME NEW ms, Spoken(ms), NEW limit \in Limits, NEW f, Backs(f, ms, limit),
         NEW i \in 1 .. Len(ms), Newest(ms, i)
  PROVE  /\ f[Len(ms)].picked \in Seq(Entries) /\ f[Len(ms)].picked # <<>>
         /\ Last(f[Len(ms)].picked).key = Key(ms[i])
<1> DEFINE n == Len(ms)
           last == n + 1 - i
           Shows(acc) == /\ acc.picked \in Seq(Entries) /\ Len(acc.picked) > 0
                         /\ acc.picked[Len(acc.picked)].key = Key(ms[i])
           H == {k \in 0 .. n : IF k < last THEN f[k] = Nothing ELSE Shows(f[k])}
<1>0. n \in Nat /\ i \in 1 .. n /\ last \in 1 .. n
  BY DEF Spoken
<1>1. /\ f[0] = Nothing /\ \A k \in 0 .. n : Within(limit, f[k])
      /\ \A k \in 1 .. n : PickedIs(limit, f[k - 1], ms[n + 1 - k], f[k])
  BY DEF Backs
<1> HIDE DEF Shows, n
<1>2. 0 \in H
  BY <1>0, <1>1
<1>3. ASSUME NEW k \in 0 .. n - 1, k \in H
      PROVE  k + 1 \in H
  <2> DEFINE m == ms[n - k]
  <2>1. k + 1 \in 1 .. n /\ (k + 1) - 1 = k /\ n + 1 - (k + 1) = n - k /\ n - k \in 1 .. n
        /\ k + 1 \in 0 .. n /\ k \in 0 .. n
    BY <1>0
  <2>2. PickedIs(limit, f[k], m, f[k + 1])
    BY <1>1, <2>1
  <2>3. f[k].picked \in Seq(Entries)
    BY <1>1, <2>1 DEF Within, Accounts
  <2>4. CASE k + 1 < last
    <3>1. n - k \in i + 1 .. n
      BY <1>0, <2>1, <2>4
    <3>2. m.agent = Coordinator
      BY <3>1 DEF Newest, n
    <3>3. f[k + 1] = f[k]
      BY <2>2, <3>2 DEF PickedIs, Skips
    <3>4. k < last
      BY <1>0, <2>4
    <3> QED
      BY <1>3, <2>1, <2>4, <3>3, <3>4
  <2>5. CASE k + 1 = last
    <3>1. n - k = i /\ k < last
      BY <1>0, <2>5
    <3>2. f[k] = Nothing /\ m.agent # Coordinator
      BY <1>3, <3>1 DEF Newest
    <3>3. Len(f[k].picked) = 0 /\ ~f[k].full /\ f[k].keys = {} /\ limit.messages > 0
          /\ f[k].picked = <<>>
      BY <3>2, LimitIs DEF Nothing
    <3>4. ~Skips(limit, f[k], m)
      BY <3>2, <3>3, LimitIs DEF Skips
    <3> DEFINE e == [key |-> Key(m), size |-> SizeOf(limit, f[k], m)]
    <3>5. f[k + 1].picked = <<e>> \o <<>>
      <4>1. f[k + 1] = Picked(limit, f[k], m, SizeOf(limit, f[k], m))
        BY <2>2, <3>4 DEF PickedIs
      <4> QED
        BY <3>3, <4>1 DEF Picked
    <3>6. e.key = Key(ms[i])
      BY <3>1
    <3> HIDE DEF e
    <3>7. <<e>> \o <<>> = <<e>> /\ Len(<<e>>) = 1 /\ <<e>>[1] = e
      OBVIOUS
    <3>8. f[k + 1].picked \in Seq(Entries)
      BY <1>1, <2>1 DEF Within, Accounts
    <3>9. Shows(f[k + 1])
      BY <3>5, <3>6, <3>7, <3>8 DEF Shows
    <3> QED
      BY <2>1, <2>5, <3>9
  <2>6. CASE k + 1 > last
    <3>1. ~(k < last) /\ ~(k + 1 < last)
      BY <1>0, <2>1, <2>6
    <3>2. Shows(f[k])
      BY <1>3, <3>1
    <3>3. CASE Skips(limit, f[k], m)
      <4>1. f[k + 1] = f[k]
        BY <2>2, <3>3 DEF PickedIs
      <4> QED
        BY <2>1, <3>1, <3>2, <4>1
    <3>4. CASE ~Skips(limit, f[k], m)
      <4> DEFINE e == [key |-> Key(m), size |-> SizeOf(limit, f[k], m)]
                 p == f[k].picked
      <4>1. f[k + 1].picked = <<e>> \o p
        <5>1. f[k + 1] = Picked(limit, f[k], m, SizeOf(limit, f[k], m))
          BY <2>2, <3>4 DEF PickedIs
        <5> QED
          BY <5>1 DEF Picked
      <4>2. f[k + 1].picked \in Seq(Entries)
        BY <1>1, <2>1 DEF Within, Accounts
      <4>3. p \in Seq(Entries) /\ Len(p) > 0 /\ p[Len(p)].key = Key(ms[i])
        BY <3>2 DEF Shows
      <4> HIDE DEF e, p
      <4>4. Len(p) \in Nat /\ Len(<<e>> \o p) = Len(p) + 1 /\ (<<e>> \o p)[Len(p) + 1] = p[Len(p)]
        BY ONLY <4>3
      <4>5. Shows(f[k + 1])
        BY <4>1, <4>2, <4>3, <4>4 DEF Shows
      <4> QED
        BY <2>1, <3>1, <4>5
    <3> QED
      BY <3>3, <3>4
  <2>7. k + 1 < last \/ k + 1 = last \/ k + 1 > last
    BY <1>0, <2>1
  <2> QED
    BY <2>4, <2>5, <2>6, <2>7
<1>4. 0 .. n \subseteq H
  <2>1. \A k \in 0 .. n - 1 : k \in H => k + 1 \in H
    BY <1>3
  <2> HIDE DEF H
  <2> QED
    BY ONLY <1>0, <1>2, <2>1, IntervalInduction
<1>5. Shows(f[n])
  <2>1. n \in 0 .. n /\ ~(n < last)
    BY <1>0
  <2> QED
    BY <1>4, <2>1
<1>6. f[n].picked # <<>> /\ Last(f[n].picked) = f[n].picked[Len(f[n].picked)]
  BY <1>5 DEF Shows, Last
<1> QED
  BY <1>5, <1>6 DEF Shows, n

-------------------------------------------------------------------------------
(* The two excerpts side by side: the second is at its end before the      *)
(* first, or both have picked the same messages.                           *)
Done(acc) == acc.full \/ Len(acc.picked) >= Retry.messages

Tails(p, q) ==
  /\ Len(p) <= Len(q)
  /\ \A i \in 1 .. Len(p) : p[Len(p) + 1 - i].key = q[Len(q) + 1 - i].key

Beside(a, b) ==
  /\ Within(First, a) /\ Within(Retry, b)
  /\ Tails(b.picked, a.picked) /\ b.total <= a.total
  /\ a.total <= Len(a.picked) * First.each
  /\ Done(b) \/ (Len(a.picked) = Len(b.picked) /\ a.keys = b.keys)

LEMMA LimitsAre ==
  /\ First \in Limits /\ Retry \in Limits
  /\ First.messages \in Nat \ {0} /\ First.total \in Nat \ {0} /\ First.each \in Nat \ {0} /\ First.cut \in Nat
  /\ Retry.messages \in Nat \ {0} /\ Retry.total \in Nat \ {0} /\ Retry.each \in Nat \ {0} /\ Retry.cut \in Nat
  /\ Retry.messages <= First.messages /\ Retry.total <= First.total
  /\ Retry.each <= First.each /\ Retry.each <= First.cut
BY ChatAssumption, LimitIs

LEMMA NoShortage == (Retry.messages - 1) * First.each < First.total
BY ChatAssumption

LEMMA TimesGrows ==
  ASSUME NEW j \in Nat, NEW k \in Nat, j <= k, NEW e \in Nat
  PROVE  j * e <= k * e /\ (j + 1) * e = j * e + e /\ j * e \in Nat /\ k * e \in Nat
<1>1. PICK d \in Nat : k = j + d
  <2>1. k - j \in Nat /\ k = j + (k - j)
    OBVIOUS
  <2> QED
    BY <2>1
<1>2. k * e = j * e + d * e /\ d * e \in Nat /\ j * e \in Nat
  BY <1>1
<1> QED
  BY <1>2

(* The first excerpt is as long as the second, also of what a message adds. *)
LEMMA SizesCompare ==
  ASSUME NEW s \in Nat, NEW ta \in Nat, NEW tb \in Nat, tb <= ta, ta < First.total, tb < Retry.total,
         NEW x, x = Shortened(Shortened(s, First.each, First.cut), First.total - ta, First.cut),
         NEW y, y = Shortened(Shortened(s, Retry.each, Retry.cut), Retry.total - tb, Retry.cut)
  PROVE  tb + y <= ta + x
<1> DEFINE u == Shortened(s, First.each, First.cut)
           v == Shortened(s, Retry.each, Retry.cut)
<1>1. u \in Nat /\ v \in Nat /\ v <= Retry.each /\ v <= u
  BY LimitsAre DEF Shortened, Least
<1>2. First.total - ta \in Nat /\ Retry.total - tb \in Nat
  BY LimitsAre
<1> HIDE DEF u, v
<1>3. y \in Nat /\ y <= Retry.total - tb /\ y <= v
  <2>1. y = Shortened(v, Retry.total - tb, Retry.cut)
    BY DEF v
  <2>2. Retry.cut \in Nat
    BY LimitsAre
  <2> QED
    BY ONLY <1>1, <1>2, <2>1, <2>2, ShortenedIs
<1>4. x = u \/ x = First.total - ta \/ x = First.cut
  BY DEF Shortened, Least, u
<1> QED
  BY <1>1, <1>2, <1>3, <1>4, LimitsAre

LEMMA BesideNext ==
  ASSUME NEW a, NEW b, Beside(a, b), NEW m, Counts(m), NEW x, NEW y,
         Within(First, x), Within(Retry, y),
         PickedIs(First, a, m, x), PickedIs(Retry, b, m, y)
  PROVE  Beside(x, y)
<1> DEFINE sa == SizeOf(First, a, m)
           sb == SizeOf(Retry, b, m)
           ea == [key |-> Key(m), size |-> sa]
           eb == [key |-> Key(m), size |-> sb]
           p  == a.picked
           q  == b.picked
<1>0. /\ p \in Seq(Entries) /\ q \in Seq(Entries) /\ Len(p) \in Nat /\ Len(q) \in Nat
      /\ a.total \in Nat /\ b.total \in Nat /\ a.full \in BOOLEAN /\ b.full \in BOOLEAN
      /\ a.total <= First.total /\ b.total <= Retry.total
      /\ Tails(q, p) /\ b.total <= a.total
  BY DEF Beside, Within, Accounts
<1>10. a.total <= Len(p) * First.each
  BY DEF Beside
<1>1. ea.key = Key(m) /\ eb.key = Key(m)
  OBVIOUS
<1>2. /\ Skips(First, a, m) => x = a
      /\ ~Skips(First, a, m) =>
           /\ x.picked = <<ea>> \o p /\ x.keys = a.keys \union {Key(m)} /\ x.total = a.total + sa
           /\ a.total < First.total /\ sa \in Nat /\ sa <= First.each /\ m.text \in Signs \cup {NoText}
  BY DEF PickedIs, Picked
<1>3. /\ Skips(Retry, b, m) => y = b
      /\ ~Skips(Retry, b, m) =>
           /\ y.picked = <<eb>> \o q /\ y.keys = b.keys \union {Key(m)} /\ y.total = b.total + sb
           /\ b.total < Retry.total /\ sb \in Nat
  BY DEF PickedIs, Picked
<1> HIDE DEF ea, eb
<1>4. /\ Len(<<ea>> \o p) = Len(p) + 1 /\ (<<ea>> \o p)[1] = ea
      /\ \A i \in 1 .. Len(p) : (<<ea>> \o p)[i + 1] = p[i]
  BY ONLY <1>0
<1>5. /\ Len(<<eb>> \o q) = Len(q) + 1 /\ (<<eb>> \o q)[1] = eb
      /\ \A i \in 1 .. Len(q) : (<<eb>> \o q)[i + 1] = q[i]
  BY ONLY <1>0
<1>6. (Len(p) + 1) * First.each = Len(p) * First.each + First.each /\ Len(p) * First.each \in Nat
  <2>1. Len(p) <= Len(p)
    BY <1>0
  <2> QED
    BY <1>0, <2>1, LimitsAre, TimesGrows
<1>7. x.total <= Len(x.picked) * First.each /\ x.total >= a.total
  <2>1. CASE Skips(First, a, m)
    BY <1>0, <1>2, <1>10, <2>1
  <2>2. CASE ~Skips(First, a, m)
    <3> DEFINE d == Len(p) * First.each
               e == (Len(p) + 1) * First.each
    <3>1. Len(x.picked) = Len(p) + 1 /\ x.total = a.total + sa /\ sa \in Nat /\ sa <= First.each
      BY <1>2, <1>4, <2>2
    <3>2. e = d + First.each /\ d \in Nat /\ a.total \in Nat /\ a.total <= d /\ First.each \in Nat
      BY <1>0, <1>6, <1>10, LimitsAre
    <3>3. Len(x.picked) * First.each = e
      BY <3>1
    <3> HIDE DEF d, e, sa
    <3> QED
      BY ONLY <3>1, <3>2, <3>3
  <2> QED
    BY <2>1, <2>2
<1>8. CASE Done(b)
  <2>1. y = b
    BY <1>3, <1>8 DEF Done, Skips
  <2>2. Tails(q, x.picked)
    <3>1. CASE Skips(First, a, m)
      BY <1>0, <1>2, <3>1
    <3>2. CASE ~Skips(First, a, m)
      <4> DEFINE r == <<ea>> \o p
      <4>1. Len(q) <= Len(p) /\ Len(r) = Len(p) + 1
        BY <1>0, <1>4 DEF Tails
      <4>2. ASSUME NEW i \in 1 .. Len(q)
            PROVE  q[Len(q) + 1 - i].key = r[Len(r) + 1 - i].key
        <5>1. Len(p) + 1 - i \in 1 .. Len(p) /\ Len(r) + 1 - i = (Len(p) + 1 - i) + 1
          BY <1>0, <4>1
        <5>2. r[Len(r) + 1 - i] = p[Len(p) + 1 - i]
          BY <1>4, <5>1
        <5> QED
          BY <1>0, <5>2 DEF Tails
      <4> HIDE DEF r
      <4>3. Len(q) <= Len(r)
        BY <1>0, <4>1
      <4>4. Tails(q, r)
        BY <4>2, <4>3 DEF Tails
      <4> QED
        BY <1>2, <3>2, <4>4 DEF r
    <3> QED
      BY <3>1, <3>2
  <2>3. y.total <= x.total
    <3>1. x.total \in Nat
      BY DEF Within, Accounts
    <3> QED
      BY <1>0, <1>7, <2>1, <3>1
  <2> QED
    BY <1>7, <1>8, <2>1, <2>2, <2>3 DEF Beside
<1>9. CASE ~Done(b)
  <2>1. /\ Len(p) = Len(q) /\ a.keys = b.keys /\ ~b.full /\ Len(q) < Retry.messages
    <3>1. ~b.full /\ ~(Len(q) >= Retry.messages)
      BY <1>9 DEF Done
    <3>2. Len(p) = Len(q) /\ a.keys = b.keys
      BY <1>9 DEF Beside
    <3>3. Len(q) \in Nat /\ Retry.messages \in Nat
      BY <1>0, LimitsAre
    <3> QED
      BY <3>1, <3>2, <3>3
  <2>2. a.total < First.total
    <3>1. Len(p) <= Retry.messages - 1 /\ Retry.messages - 1 \in Nat
      <4>1. Len(p) \in Nat /\ Len(p) < Retry.messages
        BY ONLY <1>0, <2>1
      <4>2. Retry.messages \in Nat \ {0}
        BY LimitsAre
      <4> HIDE DEF p
      <4> QED
        BY ONLY <4>1, <4>2
    <3>2. Len(p) * First.each <= (Retry.messages - 1) * First.each
          /\ (Retry.messages - 1) * First.each \in Nat
      BY <1>0, <3>1, LimitsAre, TimesGrows
    <3> HIDE DEF p
    <3> DEFINE c == (Retry.messages - 1) * First.each
               d == Len(p) * First.each
    <3>3. a.total <= d /\ d <= c /\ c < First.total /\ c \in Nat /\ d \in Nat
      <4>1. a.total <= d
        BY ONLY <1>10, Zenon
      <4>2. c < First.total
        BY ONLY NoShortage, Zenon
      <4>3. d <= c /\ c \in Nat
        BY ONLY <3>2, Zenon
      <4>4. d \in Nat
        BY ONLY <1>6, Zenon
      <4> QED
        BY ONLY <4>1, <4>2, <4>3, <4>4, Zenon
    <3>4. a.total \in Nat /\ First.total \in Nat
      BY <1>0, LimitsAre
    <3> HIDE DEF c, d
    <3> QED
      BY ONLY <3>3, <3>4
  <2>3. ~a.full
    <3>1. a.full <=> a.total >= First.total
      BY DEF Beside, Within
    <3>3. a.total \in Nat /\ First.total \in Nat
      BY <1>0, LimitsAre
    <3>2. ~(a.total >= First.total)
      BY ONLY <2>2, <3>3
    <3> QED
      BY <3>1, <3>2
  <2>4. ~(Len(p) >= First.messages) /\ ~(Len(q) >= Retry.messages)
    BY <1>0, <2>1, LimitsAre
  <2>5. Skips(First, a, m) <=> Skips(Retry, b, m)
    BY <2>1, <2>3, <2>4 DEF Skips
  <2>6. CASE Skips(Retry, b, m)
    <3>1. x = a /\ y = b
      BY <1>2, <1>3, <2>5, <2>6
    <3> QED
      BY <3>1
  <2>7. CASE ~Skips(Retry, b, m)
    <3> DEFINE r == <<ea>> \o p
               s == <<eb>> \o q
    <3>1. /\ x.picked = r /\ x.keys = a.keys \union {Key(m)} /\ x.total = a.total + sa
          /\ y.picked = s /\ y.keys = b.keys \union {Key(m)} /\ y.total = b.total + sb
          /\ m.text \in Signs \cup {NoText} /\ b.total < Retry.total
      BY <1>2, <1>3, <2>5, <2>7
    <3>2. b.total + sb <= a.total + sa
      <4>1. Size[m.text] \in Nat
        BY <3>1, ChatAssumption
      <4>2. sa = Shortened(Shortened(Size[m.text], First.each, First.cut), First.total - a.total, First.cut)
            /\ sb = Shortened(Shortened(Size[m.text], Retry.each, Retry.cut), Retry.total - b.total, Retry.cut)
        BY DEF SizeOf
      <4> HIDE DEF sa, sb
      <4> QED
        BY <1>0, <2>2, <3>1, <4>1, <4>2, SizesCompare
    <3>3. Len(r) = Len(p) + 1 /\ Len(s) = Len(p) + 1 /\ r[1].key = s[1].key
          /\ \A i \in 1 .. Len(p) : r[i + 1] = p[i] /\ s[i + 1] = q[i]
      BY <1>1, <1>4, <1>5, <2>1
    <3> HIDE DEF r, s
    <3>4. ASSUME NEW i \in 1 .. Len(s)
          PROVE  s[Len(s) + 1 - i].key = r[Len(r) + 1 - i].key
      <4>1. CASE i = Len(p) + 1
        <5>1. Len(s) + 1 - i = 1 /\ Len(r) + 1 - i = 1
          BY <1>0, <3>3, <4>1
        <5> QED
          BY <3>3, <5>1
      <4>2. CASE i # Len(p) + 1
        <5>1. /\ Len(p) + 1 - i \in 1 .. Len(p) /\ i \in 1 .. Len(q)
              /\ Len(r) + 1 - i = (Len(p) + 1 - i) + 1 /\ Len(s) + 1 - i = (Len(p) + 1 - i) + 1
          BY <1>0, <2>1, <3>3, <4>2
        <5>2. r[Len(r) + 1 - i] = p[Len(p) + 1 - i] /\ s[Len(s) + 1 - i] = q[Len(p) + 1 - i]
          BY <3>3, <5>1
        <5>3. q[Len(q) + 1 - i].key = p[Len(p) + 1 - i].key
          BY <1>0, <5>1 DEF Tails
        <5> QED
          BY <2>1, <5>2, <5>3
      <4> QED
        BY <4>1, <4>2
    <3>5. Tails(s, r)
      <4>1. Len(s) <= Len(r)
        BY <1>0, <3>3
      <4> QED
        BY <3>4, <4>1 DEF Tails
    <3>6. Len(x.picked) = Len(y.picked) /\ x.keys = y.keys
      BY <2>1, <3>1, <3>3
    <3> QED
      BY <1>7, <3>1, <3>2, <3>5, <3>6 DEF Beside
  <2> QED
    BY <2>6, <2>7
<1> QED
  BY <1>8, <1>9

(* What ends like another sequence is a suffix of it.                      *)
LEMMA TailsAreSuffix ==
  ASSUME NEW p \in Seq(Entries), NEW q \in Seq(Entries), Tails(p, q)
  PROVE  IsSuffix(Keys(p), Keys(q))
<1> DEFINE c == Reverse(Keys(p))
           d == Reverse(Keys(q))
<1>0. Len(p) \in Nat /\ Len(q) \in Nat /\ Len(p) <= Len(q) /\ DOMAIN p = 1 .. Len(p) /\ DOMAIN q = 1 .. Len(q)
  BY DEF Tails
<1>1. /\ \A i \in 1 .. Len(p) : p[i].key \in Responses
      /\ \A i \in 1 .. Len(q) : q[i].key \in Responses
  <2>1. /\ \A i \in 1 .. Len(p) : p[i] \in Entries
        /\ \A i \in 1 .. Len(q) : q[i] \in Entries
    BY ElementOfSeq
  <2> QED
    BY <2>1 DEF Entries
<1>2. /\ Keys(p) \in Seq(Responses) /\ Len(Keys(p)) = Len(p) /\ \A i \in 1 .. Len(p) : Keys(p)[i] = p[i].key
      /\ Keys(q) \in Seq(Responses) /\ Len(Keys(q)) = Len(q) /\ \A i \in 1 .. Len(q) : Keys(q)[i] = q[i].key
  BY <1>0, <1>1 DEF Keys
<1>3. /\ c \in Seq(Responses) /\ Len(c) = Len(p)
      /\ \A i \in 1 .. Len(p) : c[i] = p[Len(p) + 1 - i].key
  <2>1. c = [i \in 1 .. Len(p) |-> Keys(p)[(Len(p) - i) + 1]]
    BY <1>2 DEF Reverse
  <2>2. \A i \in 1 .. Len(p) : (Len(p) - i) + 1 \in 1 .. Len(p) /\ (Len(p) - i) + 1 = Len(p) + 1 - i
    BY <1>0
  <2>3. \A i \in 1 .. Len(p) : Keys(p)[(Len(p) - i) + 1] \in Responses
                               /\ Keys(p)[(Len(p) - i) + 1] = p[Len(p) + 1 - i].key
    BY <1>1, <1>2, <2>2
  <2> HIDE DEF c
  <2> QED
    BY <1>0, <2>1, <2>3
<1>4. /\ d \in Seq(Responses) /\ Len(d) = Len(q)
      /\ \A i \in 1 .. Len(q) : d[i] = q[Len(q) + 1 - i].key
  <2>1. d = [i \in 1 .. Len(q) |-> Keys(q)[(Len(q) - i) + 1]]
    BY <1>2 DEF Reverse
  <2>2. \A i \in 1 .. Len(q) : (Len(q) - i) + 1 \in 1 .. Len(q) /\ (Len(q) - i) + 1 = Len(q) + 1 - i
    BY <1>0
  <2>3. \A i \in 1 .. Len(q) : Keys(q)[(Len(q) - i) + 1] \in Responses
                               /\ Keys(q)[(Len(q) - i) + 1] = q[Len(q) + 1 - i].key
    BY <1>1, <1>2, <2>2
  <2> HIDE DEF d
  <2> QED
    BY <1>0, <2>1, <2>3
<1> HIDE DEF c, d
<1>5. \A i \in 1 .. Len(p) : c[i] = d[i]
  <2>1. \A i \in 1 .. Len(p) : i \in 1 .. Len(q)
    BY <1>0
  <2> QED
    BY <1>3, <1>4, <2>1 DEF Tails
<1>6. SubSeq(c, 1, Len(c)) = SubSeq(d, 1, Len(c))
  <2> DEFINE n == Len(p)
  <2>1. SubSeq(c, 1, n) = [i \in 1 .. n |-> c[i]]
    BY ONLY <1>0, <1>3, SubSeqProperties
  <2>2. SubSeq(d, 1, n) = [i \in 1 .. n |-> d[i]]
    BY ONLY <1>0, <1>4, SubSeqProperties
  <2> QED
    BY <1>3, <1>5, <2>1, <2>2
<1>7. IsPrefix(c, d)
  BY <1>0, <1>3, <1>4, <1>6 DEF IsPrefix
<1> QED
  BY <1>7 DEF IsSuffix, c, d

LEMMA ExcerptsCompare ==
  ASSUME NEW ms, Spoken(ms), NEW f, Backs(f, ms, First), NEW g, Backs(g, ms, Retry)
  PROVE  Beside(f[Len(ms)], g[Len(ms)])
<1> DEFINE n == Len(ms)
           H == {k \in 0 .. n : Beside(f[k], g[k])}
<1>0. n \in Nat
  BY DEF Spoken
<1>1. /\ f[0] = Nothing /\ \A k \in 0 .. n : Within(First, f[k])
      /\ \A k \in 1 .. n : PickedIs(First, f[k - 1], ms[n + 1 - k], f[k])
      /\ g[0] = Nothing /\ \A k \in 0 .. n : Within(Retry, g[k])
      /\ \A k \in 1 .. n : PickedIs(Retry, g[k - 1], ms[n + 1 - k], g[k])
  BY DEF Backs
<1> HIDE DEF n
<1>2. 0 \in H
  <2>1. Nothing.picked = <<>> /\ Nothing.total = 0 /\ Len(<<>>) = 0 /\ 0 * First.each = 0 /\ 0 <= 0
    BY LimitsAre DEF Nothing
  <2>2. Tails(<<>>, <<>>)
    BY DEF Tails
  <2>3. 0 \in 0 .. n
    BY <1>0
  <2>4. Beside(Nothing, Nothing)
    BY <1>1, <2>1, <2>2, <2>3 DEF Beside
  <2> QED
    BY <1>1, <2>3, <2>4
<1>3. ASSUME NEW k \in 0 .. n - 1, k \in H
      PROVE  k + 1 \in H
  <2> DEFINE m == ms[n + 1 - (k + 1)]
  <2>1. k + 1 \in 1 .. n /\ (k + 1) - 1 = k /\ n + 1 - (k + 1) \in 1 .. n /\ k + 1 \in 0 .. n
    BY <1>0
  <2>2. Counts(m)
    BY <2>1, SpokenCounts DEF n
  <2>3. PickedIs(First, f[k], m, f[k + 1]) /\ PickedIs(Retry, g[k], m, g[k + 1])
        /\ Within(First, f[k + 1]) /\ Within(Retry, g[k + 1])
    BY <1>1, <2>1
  <2> HIDE DEF m
  <2>4. Beside(f[k], g[k])
    BY <1>3
  <2>5. Beside(f[k + 1], g[k + 1])
    BY ONLY <2>2, <2>3, <2>4, BesideNext
  <2> QED
    BY <2>1, <2>5
<1>4. 0 .. n \subseteq H
  <2>1. \A k \in 0 .. n - 1 : k \in H => k + 1 \in H
    BY <1>3
  <2> HIDE DEF H
  <2> QED
    BY ONLY <1>0, <1>2, <2>1, IntervalInduction
<1>5. n \in 0 .. n
  BY <1>0
<1>6. Beside(f[n], g[n])
  BY <1>4, <1>5
<1> QED
  BY <1>6 DEF n

(* The excerpts that the result generator is given                         *)
(* (_build_result_generator_conversation) keep within their limits and     *)
(* hold the newest message that counts; the second is no more than the     *)
(* first.                                                                  *)
THEOREM ExcerptsKeepLimits == Spec => []ExcerptsFit
<1>1. ChatInv => ExcerptsFit
  <2> SUFFICES ASSUME ChatInv
               PROVE  ExcerptsFit
    OBVIOUS
  <2> DEFINE ms == o.conv
             n == Len(ms)
  <2>1. Spoken(ms)
    <3>1. ms \in Seq(Turns)
      BY DEF ChatInv, ChatTypes, Memory
    <3>2. CASE ms = said
      BY <3>1, <3>2 DEF ChatInv, ChatTypes, Spoken
    <3>3. CASE ms = <<>>
      <4>1. Len(ms) = 0
        BY <3>3
      <4> QED
        BY <3>1, <4>1 DEF Spoken, Fits
    <3> QED
      BY <3>2, <3>3 DEF ChatInv, ChatTypes
  <2>2. PICK f : Backs(f, ms, First) /\ Excerpt(ms, First) = f[n].picked
    BY <2>1, ExcerptIs, LimitsAre
  <2>3. PICK g : Backs(g, ms, Retry) /\ Excerpt(ms, Retry) = g[n].picked
    BY <2>1, ExcerptIs, LimitsAre
  <2>4. Beside(f[n], g[n])
    BY <2>1, <2>2, <2>3, ExcerptsCompare
  <2>5. \A i \in DOMAIN ms : Newest(ms, i) => f[n].picked # <<>> /\ Last(f[n].picked).key = Key(ms[i])
    <3>1. DOMAIN ms = 1 .. n
      BY <2>1 DEF Spoken
    <3> HIDE DEF ms
    <3> QED
      BY <2>1, <2>2, <3>1, NewestStays, LimitsAre
  <2> HIDE DEF ms
  <2>6. /\ f[n].picked \in Seq(Entries) /\ g[n].picked \in Seq(Entries) /\ Tails(g[n].picked, f[n].picked)
        /\ Len(f[n].picked) <= First.messages /\ f[n].total <= First.total /\ g[n].total <= f[n].total
        /\ Total(f[n].picked) = f[n].total /\ Total(g[n].picked) = g[n].total
    BY <2>4 DEF Beside, Within, Accounts
  <2>7. IsSuffix(Keys(g[n].picked), Keys(f[n].picked)) /\ Len(g[n].picked) <= Len(f[n].picked)
    BY <2>6, TailsAreSuffix DEF Tails
  <2> QED
    BY <2>2, <2>3, <2>5, <2>6, <2>7 DEF ExcerptsFit, ms
<1> QED
  BY <1>1, ChatInvariant, PTL
===============================================================================
