-------------------------------- MODULE GroupChat --------------------------------
(***************************************************************************)
(* GroupChatOrchestrator.run_stream (libs/agent_framework/                 *)
(* groupchat_orchestrator.py): one run of a group chat.  The framework     *)
(* streams the updates of a Coordinator, who picks the next speaker, and   *)
(* of reviewers; the orchestrator puts the updates of one turn together,   *)
(* reads the Coordinator's decisions, stops a chat that is finished, too   *)
(* long, overdue or looping, and has a generator turn the conversation     *)
(* into the typed result.  The framework is external: it alternates the    *)
(* Coordinator and a reviewer, and may end the chat after any turn.        *)
(***************************************************************************)
EXTENDS Integers, FiniteSets, SequencesExt

CONSTANTS
  Coordinator,
  Reviewers,
  Decisions,      \* what the Coordinator says: records [to, ask, finish]
  Garbled,        \* the Coordinator says something that is not JSON
  Nobody, NoAsk,  \* no selected participant, no instruction
  Signs,          \* what a reviewer says: PASS, FAIL, or no sign-off at all
  Pass, NoSign,
  NoText,         \* an update without text
  Size,           \* the length of what a reviewer says
  MaxRounds,      \* max_rounds
  HasFormat,      \* a result_format is configured
  First, Retry,   \* the limits of the two excerpts: [messages, total, each, cut]
  MaxCalls        \* bound: the turns with a tool call

(* What is said may have up to each characters; a longer text is cut to    *)
(* its ends and a marker, which is cut characters.                         *)
Limits == [messages : Nat \ {0}, total : Nat \ {0}, each : Nat \ {0}, cut : Nat]

Agents == Reviewers \union {Coordinator}

ASSUME ChatAssumption ==
  /\ Coordinator \notin Reviewers /\ Nobody \notin Agents
  /\ \A d \in Decisions : d.to \in Reviewers \union {Nobody} /\ d.finish \in BOOLEAN
  /\ Garbled \notin Decisions
  /\ Pass \in Signs /\ NoSign \in Signs /\ NoText \notin Signs
  /\ (Decisions \union {Garbled}) \intersect (Signs \union {NoText}) = {}
  /\ Size \in [Signs \union {NoText} -> Nat]
  /\ First \in Limits /\ Retry \in Limits
  /\ Retry.messages <= First.messages /\ Retry.total <= First.total
  /\ Retry.each <= First.each /\ Retry.each <= First.cut
  /\ (Retry.messages - 1) * First.each < First.total
  /\ MaxRounds \in Nat \ {0} /\ HasFormat \in BOOLEAN /\ MaxCalls \in Nat

VARIABLES
  stage,      \* "streaming", "generate", "retry", "report", "done"
  said,       \* the framework's conversation: the turns so far
  overdue,    \* max_seconds have passed
  o,          \* the orchestrator's fields, below
  args,       \* _tool_call_arg_buffer of the call under way
  recorded,   \* _tool_call_recorded, calls named by their turn
  usage,      \* agent_tool_usage, in the order of recording
  outcome,    \* the result: "none", "typed", "forced", "blocked", "error", "raised"
  reported    \* the results on_workflow_complete was called with

vars == <<stage, said, overdue, o, args, recorded, usage, outcome, reported>>

NoSelection == [to |-> Nobody, ask |-> NoAsk]

(* __init__                                                                *)
Init ==
  /\ stage = "streaming" /\ said = <<>> /\ overdue = FALSE
  /\ o = [last |-> Nobody, buffer |-> NoText, responses |-> <<>>, conv |-> <<>>,
          progress |-> 0, choice |-> NoSelection, streak |-> 0, seen |-> 0,
          asked |-> NoAsk, stopped |-> FALSE, forced |-> "no"]
  /\ args = <<>> /\ recorded = {} /\ usage = <<>>
  /\ outcome = "none" /\ reported = <<>>

-------------------------------------------------------------------------------
(* Completing a response.                                                  *)

Forced(c, why) ==
  IF c.stopped \/ c.forced # "no" THEN c ELSE [c EXCEPT !.forced = why]

Selects(d) == d.to # Nobody

Selection(d) == [to |-> d.to, ask |-> d.ask]

(* Mutant: the progress of the reviewers is not looked at.                 *)
RepeatBlindly(c, d) ==
  IF Selection(d) = c.choice THEN [c EXCEPT !.streak = @ + 1]
  ELSE [c EXCEPT !.choice = Selection(d), !.streak = 1, !.seen = c.progress]

(* The same selection again, and no reviewer has answered in between?      *)
Repeat(c, d) ==
  IF Selection(d) # c.choice
    THEN [c EXCEPT !.choice = Selection(d), !.streak = 1, !.seen = c.progress]
  ELSE IF c.progress # c.seen THEN [c EXCEPT !.streak = 1, !.seen = c.progress]
  ELSE [c EXCEPT !.streak = @ + 1]

Looping(c, d) ==
  IF ~Selects(d) THEN c
  ELSE LET r == Repeat(c, d) IN IF r.streak >= 3 THEN Forced(r, "loop") ELSE r

(* The status a reviewer is taken to have: the loop goes from the newest   *)
(* message to the oldest and each overwrites the one before.               *)
SignOff(conv, a) ==
  LET mine == SelectSeq(conv, LAMBDA m : m.agent = a /\ m.text \notin {NoSign, NoText})
  IN  IF mine = <<>> THEN NoSign ELSE mine[1].text

SignedOff(conv) ==
  \A i \in DOMAIN conv : conv[i].agent # Coordinator => SignOff(conv, conv[i].agent) = Pass

Ends(d) == d.finish \/ (d.to = Nobody /\ d.ask \in {"complete", "blocked"})

Stopping(c, d) ==
  IF Ends(d) /\ (d.ask = "complete" => SignedOff(c.conv))
    THEN [c EXCEPT !.stopped = TRUE] ELSE c

Directed(c, d) ==
  LET heard == IF d.ask = NoAsk THEN c ELSE [c EXCEPT !.asked = d.ask]
  IN  Stopping(Looping(heard, d), d)

(* Mutant: the buffer is kept when a response has been completed.          *)
CompletedTwice(c) ==
  LET r == [c EXCEPT !.responses = Append(@, [agent |-> c.last, text |-> c.buffer]),
                     !.progress = IF c.last = Coordinator THEN @ ELSE @ + 1]
  IN  IF c.last # Coordinator \/ c.buffer = Garbled THEN r ELSE Directed(r, c.buffer)

Completed(c) ==
  LET r == [c EXCEPT !.responses = Append(@, [agent |-> c.last, text |-> c.buffer]),
                     !.progress = IF c.last = Coordinator THEN @ ELSE @ + 1,
                     !.buffer = NoText]
  IN  IF c.last # Coordinator \/ c.buffer = Garbled THEN r ELSE Directed(r, c.buffer)

Pending(c) == c.last # Nobody /\ c.buffer # NoText

-------------------------------------------------------------------------------
(* Tool calls.                                                             *)

Whole == <<1, 2>>         \* the arguments of a call, streamed in two pieces

Merged(existing, incoming) ==
  IF IsPrefix(existing, incoming) THEN incoming
  ELSE IF IsPrefix(incoming, existing) THEN existing
  ELSE existing \o incoming

(* What the next update of the call may carry: the piece that comes next,  *)
(* the arguments so far, or a repetition of them.                          *)
Fragments(sent) ==
  LET next == Len(Whole) - sent IN
  {SubSeq(Whole, k, sent + 1) : k \in IF next > 0 THEN {1, sent + 1} ELSE {}}
    \union {SubSeq(Whole, 1, k) : k \in {sent} \ {0}}

Used(a, call, source) == [agent |-> a, call |-> call, source |-> source]

(* Mutant: the call is recorded by each update that completes it.          *)
ToolUpdateAgain(a, call, piece) ==
  /\ args' = Merged(args, piece)
  /\ IF args' = Whole
       THEN /\ recorded' = recorded \union {call}
            /\ usage' = Append(usage, Used(a, call, "stream"))
       ELSE UNCHANGED <<recorded, usage>>

ToolUpdate(a, call, piece) ==
  IF call \in recorded THEN UNCHANGED <<args, recorded, usage>>
  ELSE /\ args' = Merged(args, piece)
       /\ IF args' = Whole
            THEN /\ recorded' = recorded \union {call}
                 /\ usage' = Append(usage, Used(a, call, "stream"))
            ELSE UNCHANGED <<recorded, usage>>

Ascending(S) ==
  CHOOSE q \in [1 .. Cardinality(S) -> S] : \A i, j \in DOMAIN q : i < j => q[i] < q[j]

(* The calls of the conversation that the stream did not show.             *)
Backfill(conv) ==
  LET missing == {i \in DOMAIN conv : conv[i].called} \ recorded
      inTurn  == Ascending(missing)
  IN  /\ usage' = usage \o [k \in DOMAIN inTurn |->
                              Used(conv[inTurn[k]].agent, inTurn[k], "conversation")]
      /\ recorded' = recorded \union missing

-------------------------------------------------------------------------------
(* The updates of the stream.                                              *)

(* What follows the stream: run_stream's choice of the result.             *)
(* Mutant: a chat that its Coordinator has ended is never blocked.         *)
ConcludeStopped(c) ==
  /\ outcome' = IF ~HasFormat \/ c.forced = "no" THEN "none" ELSE "forced"
  /\ stage' = IF c.forced = "no" /\ HasFormat THEN "generate" ELSE "report"

Conclude(c) ==
  LET blocked == c.stopped /\ c.asked \notin {NoAsk, "complete"} IN
  /\ outcome' = IF ~HasFormat THEN "none"
                ELSE IF c.forced # "no" THEN "forced"
                ELSE IF blocked THEN "blocked" ELSE "none"
  /\ stage' = IF c.forced = "no" /\ ~blocked /\ HasFormat THEN "generate" ELSE "report"

OnTime(c) == IF overdue THEN Forced(c, "timeout") ELSE c

WithinRounds(c) == IF Len(c.responses) >= MaxRounds THEN Forced(c, "rounds") ELSE c

(* _handle_agent_update for an update of a with text t, and the checks     *)
(* around it.                                                              *)
Switched(c, a) ==
  LET done == IF Pending(c) THEN Completed(c) ELSE c
  IN  IF a = c.last THEN c ELSE [done EXCEPT !.last = a, !.buffer = NoText]

Heard(a, t) ==
  LET c == Switched(OnTime(o), a)
      d == WithinRounds(IF t = NoText THEN c ELSE [c EXCEPT !.buffer = t])
  IN  /\ o' = d
      /\ IF d.forced # "no" \/ d.stopped THEN Conclude(d) ELSE UNCHANGED <<stage, outcome>>

Speakers ==
  IF said = <<>> \/ Last(said).agent # Coordinator THEN {Coordinator}
  ELSE LET d == Last(said).text IN
       IF d # Garbled /\ ~d.finish /\ Selects(d) THEN {d.to} ELSE Reviewers

Turn(a, t, called) == [agent |-> a, text |-> t, called |-> called, sent |-> 0]

Calls == {i \in DOMAIN said : said[i].called}

(* Bound: max_rounds ends the chat before this many turns.                 *)
MaxTurns == 2 * MaxRounds + 2

CoordinatorTurn ==
  /\ stage = "streaming" /\ Coordinator \in Speakers /\ Len(said) < MaxTurns
  /\ \E t \in Decisions \union {Garbled} :
       /\ said' = Append(said, Turn(Coordinator, t, FALSE))
       /\ Heard(Coordinator, t)
  /\ UNCHANGED <<overdue, args, recorded, usage, reported>>

(* The first update of a reviewer's turn.                                  *)
ReviewerTurn ==
  /\ stage = "streaming" /\ Len(said) < MaxTurns
  /\ \E a \in Speakers \ {Coordinator}, t \in Signs \union {NoText}, called \in BOOLEAN :
       /\ called => Cardinality(Calls) < MaxCalls
       /\ said' = Append(said, Turn(a, t, called))
       /\ Heard(a, t)
  /\ args' = <<>>
  /\ UNCHANGED <<overdue, recorded, usage, reported>>

(* A further one, with a fragment of its call's arguments.                 *)
ToolTurn ==
  /\ stage = "streaming" /\ said # <<>> /\ Last(said).called
  /\ LET n == Len(said) IN
     \E piece \in Fragments(said[n].sent) :
       /\ said' = [said EXCEPT ![n].sent = Last(piece)]
       /\ ToolUpdate(said[n].agent, n, piece)
       /\ Heard(said[n].agent, NoText)
  /\ UNCHANGED <<overdue, reported>>

(* The framework ends the chat: the output event.                          *)
Output ==
  /\ stage = "streaming" /\ said # <<>>
  /\ LET c == OnTime(o) IN
     o' = [(IF Pending(c) THEN Completed(c) ELSE c) EXCEPT !.conv = said]
  /\ Backfill(said)
  /\ Conclude(o')
  /\ UNCHANGED <<said, overdue, args, reported>>

Clock ==
  /\ stage = "streaming" /\ ~overdue
  /\ overdue' = TRUE
  /\ UNCHANGED <<stage, said, o, args, recorded, usage, outcome, reported>>

-------------------------------------------------------------------------------
(* The typed result.                                                       *)

Least(a, b) == IF a < b THEN a ELSE b

Shortened(size, max, cut) == IF size <= max THEN size ELSE Least(max, cut)

Key(m) == [agent |-> m.agent, text |-> m.text]

Nothing == [picked |-> <<>>, keys |-> {}, total |-> 0, full |-> FALSE]

Skips(limit, acc, m) ==
  \/ acc.full \/ Len(acc.picked) >= limit.messages
  \/ m.agent = Coordinator \/ Key(m) \in acc.keys

Picked(limit, acc, m, size) ==
  [picked |-> <<[key |-> Key(m), size |-> size]>> \o acc.picked,
   keys |-> acc.keys \union {Key(m)}, total |-> acc.total + size,
   full |-> acc.total + size >= limit.total]

(* Mutant: the budget is compared with what has been picked so far only.   *)
PickOver(limit, acc, m) ==
  IF Skips(limit, acc, m) THEN acc
  ELSE Picked(limit, acc, m, Shortened(Size[m.text], limit.each, limit.cut))

Pick(limit, acc, m) ==
  LET room == limit.total - acc.total
      size == Shortened(Shortened(Size[m.text], limit.each, limit.cut), room, limit.cut)
  IN  IF Skips(limit, acc, m) THEN acc
      ELSE IF room <= 0 THEN [acc EXCEPT !.full = TRUE]
      ELSE Picked(limit, acc, m, size)

(* _build_result_generator_conversation: from the newest message back.     *)
Excerpt(conv, limit) ==
  LET back[k \in 0 .. Len(conv)] ==
        IF k = 0 THEN Nothing ELSE Pick(limit, back[k - 1], conv[Len(conv) + 1 - k])
  IN  back[Len(conv)].picked

Decide(st, out) ==
  /\ stage' = st /\ outcome' = out
  /\ UNCHANGED <<said, overdue, o, args, recorded, usage, reported>>

Generated == stage \in {"generate", "retry"} /\ Decide("report", "typed")

(* Mutant: the generator is asked again until its answer is valid.         *)
InvalidForever ==
  stage \in {"generate", "retry"}
    /\ Decide(IF stage = "generate" THEN "retry" ELSE "generate", outcome)

(* A ValidationError of the first answer; that of the second is an error.  *)
Invalid == stage = "generate" /\ Decide("retry", outcome)

(* Anything raises: the framework, an agent, the second answer.            *)
Fail == stage \in {"streaming", "generate", "retry"} /\ Decide("report", "error")

(* on_workflow_complete raises: an error result, reported in its turn; if  *)
(* that raises too, so does run_stream.                                    *)
ReportFails ==
  /\ stage = "report"
  /\ reported' = Append(reported, outcome)
  /\ IF outcome = "error"
       THEN outcome' = "raised" /\ stage' = "done"
       ELSE outcome' = "error" /\ UNCHANGED stage
  /\ UNCHANGED <<said, overdue, o, args, recorded, usage>>

Report ==
  /\ stage = "report"
  /\ reported' = Append(reported, outcome)
  /\ stage' = "done"
  /\ UNCHANGED <<said, overdue, o, args, recorded, usage, outcome>>

Stream == CoordinatorTurn \/ ReviewerTurn \/ ToolTurn \/ Output

Settle == Generated \/ Invalid \/ Fail \/ Report \/ ReportFails

Next == Stream \/ Clock \/ Settle

Spec == Init /\ [][Next]_vars

(* Fairness: an agent called answers or raises, and an agent's turn is not *)
(* a never ending repetition of the same update.                           *)
FairSpec ==
  /\ Spec /\ WF_vars(Settle)
  /\ WF_vars(CoordinatorTurn \/ ReviewerTurn \/ Output)

-------------------------------------------------------------------------------
(* Every turn with text becomes one response, in the order of the turns:   *)
(* what is not in agent_responses yet is in the buffer, until a chat that  *)
(* is stopped drops the turn under way.  There are max_rounds of them at   *)
(* most.                                                                   *)
WithText(ms, n) == {i \in 1 .. n : ms[i].text # NoText}

OneResponsePerTurn ==
  LET buffered == IF Pending(o) THEN <<[agent |-> o.last, text |-> o.buffer]>> ELSE <<>>
      all == o.responses \o buffered
  IN  /\ Len(all) = Cardinality(WithText(said, Len(said)))
      /\ \A i \in WithText(said, Len(said)) :
           all[Cardinality(WithText(said, i))] = [agent |-> said[i].agent, text |-> said[i].text]
      /\ o.conv # <<>> => buffered = <<>>
      /\ Len(o.responses) <= MaxRounds

(* A chat is stopped as a loop when, and only when, the Coordinator has    *)
(* made the same selection three times and nobody has answered in between. *)
Selecting(rs, i) == rs[i].agent = Coordinator /\ rs[i].text # Garbled /\ Selects(rs[i].text)

(* The j-th response selects what the i-th one did, with nothing but the   *)
(* Coordinator's garbled or empty decisions in between.                    *)
Again(rs, i, j) ==
  /\ i < j /\ Selecting(rs, i) /\ Selecting(rs, j)
  /\ Selection(rs[i].text) = Selection(rs[j].text)
  /\ \A k \in i + 1 .. j - 1 : rs[k].agent = Coordinator /\ ~Selecting(rs, k)

ThreeAlike(rs) ==
  \E k \in DOMAIN rs :
    /\ \A l \in k + 1 .. Len(rs) : ~Selecting(rs, l)
    /\ \E j \in 1 .. k : Again(rs, j, k) /\ \E i \in 1 .. j : Again(rs, i, j)

LoopIsReal ==
  /\ o.forced = "loop" => ThreeAlike(o.responses)
  /\ ThreeAlike(o.responses) => o.forced # "no" \/ o.stopped

(* The generator's result is only returned for a chat that ran its course: *)
(* never for one the orchestrator cut short, nor for one the Coordinator   *)
(* ended with an instruction other than "complete".                        *)
Instructs(rs, i) == rs[i].text \in Decisions /\ rs[i].text.ask # NoAsk

ResultIsEarned ==
  outcome = "typed" =>
    /\ o.forced = "no"
    /\ o.stopped => LET rs == o.responses
                    IN  \A i \in DOMAIN rs :
                          /\ Instructs(rs, i)
                          /\ \A k \in i + 1 .. Len(rs) : ~Instructs(rs, k)
                          => rs[i].text.ask = "complete"

(* No tool call is recorded twice, and a chat that reaches its output has  *)
(* all the calls of its conversation, streamed or not.                     *)
ToolCallsOnce ==
  /\ \A i, j \in DOMAIN usage : usage[i].call = usage[j].call => i = j
  /\ \A i \in DOMAIN usage :
       usage[i].call \in Calls /\ usage[i].agent = said[usage[i].call].agent
  /\ o.conv # <<>> => \A c \in Calls : \E i \in DOMAIN usage : usage[i].call = c

(* The excerpts given to the generator keep within their limits and hold   *)
(* the newest message that counts; the second is no more than the first.   *)
Total(e) ==
  LET sum[k \in 0 .. Len(e)] == IF k = 0 THEN 0 ELSE sum[k - 1] + e[Len(e) + 1 - k].size
  IN  sum[Len(e)]

Newest(ms, i) ==
  ms[i].agent # Coordinator /\ \A j \in i + 1 .. Len(ms) : ms[j].agent = Coordinator

Keys(e) == [k \in DOMAIN e |-> e[k].key]

ExcerptsFit ==
  stage = "generate" =>
    LET first == Excerpt(o.conv, First)
        retry == Excerpt(o.conv, Retry)
    IN  /\ Len(first) <= First.messages /\ Total(first) <= First.total
        /\ \A i \in DOMAIN o.conv : Newest(o.conv, i) =>
             first # <<>> /\ Last(first).key = Key(o.conv[i])
        /\ Len(retry) <= Len(first) /\ Total(retry) <= Total(first)
        /\ IsSuffix(Keys(retry), Keys(first))

(* Every run comes to an end, by max_rounds at the latest.                 *)
EventuallyReturns == <>(stage = "done")
===============================================================================
