-------------------------------- MODULE ModelCalls --------------------------------
(***************************************************************************)
(* One call of a language model through the retrying clients of            *)
(* azure_openai_response_retry.py.  The workflow service and the content   *)
(* processor have a copy each, and they differ in how they trim a prompt.  *)
(* A text is its length and its fingerprint, the ends that the clean-up    *)
(* compares; the service that answers is external.                         *)
(***************************************************************************)
EXTENDS Integers, FiniteSets, SequencesExt

CONSTANTS
  Prompts,     \* the callers' prompts: sequences of [role, size, ends, plain]
  Limits,      \* ContextTrimConfig: [enabled, again, systems, total, each, last, head, tail]
  Mark,        \* the length of the marker in a truncated text
  MaxRetries   \* max_retries

Copies == {"workflow", "processor"}

Outcomes == {"ok", "transient", "context", "both", "other"}

ASSUME CallsAssumption ==
  /\ Prompts \subseteq Seq([role : {"system", "user"}, size : Nat, ends : STRING, plain : BOOLEAN])
  /\ <<>> \notin Prompts
  /\ \A l \in Limits : /\ {l.enabled, l.again, l.systems} \subseteq BOOLEAN
                       /\ {l.total, l.each, l.last, l.head, l.tail} \subseteq Nat /\ l.last > 0
  /\ Mark \in Nat /\ MaxRetries \in Nat

VARIABLES
  copy,      \* the service whose client is called
  limit,     \* its configuration
  prompt,    \* the caller's messages, which trimming may change
  sent,      \* the messages of the requests, and
  round,     \* 0 before the call, 1, or 2 for the second _retry_call
  log,       \* history: [round, outcome] of each request
  result     \* "none", "answer", "error"

callVars == <<copy, limit, prompt, sent, round, log, result>>

(* Messages carry their position in the prompt as "at".                    *)
Placed(p) == [i \in DOMAIN p |-> [at |-> i, role |-> p[i].role, size |-> p[i].size,
                                  ends |-> p[i].ends, plain |-> p[i].plain]]

CallInit ==
  /\ copy \in Copies /\ limit \in Limits
  /\ prompt \in {Placed(p) : p \in Prompts}
  /\ sent = <<>> /\ round = 0 /\ log = <<>> /\ result = "none"

-------------------------------------------------------------------------------
(* _truncate_text, by lengths.                                             *)
Lesser(a, b) == IF a < b THEN a ELSE b

Greater(a, b) == IF a < b THEN b ELSE a

Shortened(size, max, head, tail) ==
  LET h == Lesser(head, max)
      t == Lesser(tail, max - h)
  IN  IF size <= max THEN size
      ELSE IF t = 0 THEN h ELSE Lesser(max, h + t + Mark)

(* _set_message_text.  The text of a framework message cannot be assigned; *)
(* the workflow's copy replaces its contents in place.                     *)
Rewritable(m) == m.plain \/ copy = "workflow"

Cut(m, max) ==
  IF Rewritable(m)
    THEN [m EXCEPT !.size = Shortened(@, max, Lesser(limit.head, max), Lesser(limit.tail, max))]
    ELSE m

-------------------------------------------------------------------------------
(* _trim_messages.                                                         *)
Total(ms) ==
  LET sum[k \in 0 .. Len(ms)] == IF k = 0 THEN 0 ELSE sum[k - 1] + ms[k].size
  IN  sum[Len(ms)]

(* The leading system messages.                                            *)
Instructions(ms) ==
  LET others == {i \in DOMAIN ms : ms[i].role # "system"}
      n == IF others = {} THEN Len(ms)
           ELSE (CHOOSE i \in others : \A j \in others : i <= j) - 1
  IN  IF limit.systems THEN SubSeq(ms, 1, n) ELSE <<>>

(* The newest messages; only the workflow's copy leaves the instructions   *)
(* out of them.                                                            *)
NewestOf(ms) ==
  LET from == IF copy = "workflow" THEN Len(Instructions(ms)) ELSE 0
  IN  SubSeq(ms, Greater(from, Len(ms) - limit.last) + 1, Len(ms))

InOrder(S) ==
  CHOOSE q \in [1 .. Cardinality(S) -> S] : \A i, j \in DOMAIN q : i < j => q[i] < q[j]

(* Of those with the same ends the first is kept.                          *)
Distinct(ms) ==
  LET firsts == InOrder({i \in DOMAIN ms : \A j \in 1 .. i - 1 : ms[j].ends # ms[i].ends})
  IN  [k \in DOMAIN firsts |-> ms[firsts[k]]]

Cleaned(ms) ==
  LET kept == Distinct(NewestOf(ms))
  IN  [k \in DOMAIN kept |-> IF limit.each > 0 THEN Cut(kept[k], limit.each) ELSE kept[k]]

(* Mutant: the oldest message is dropped, instruction or not.              *)
FittingAnyhow(first, rest) ==
  LET all   == first \o rest
      most  == Len(rest) - (IF first = <<>> /\ copy = "workflow" THEN 1 ELSE 0)
      After(k) == SubSeq(all, k + 1, Len(all))
  IN  After(CHOOSE k \in 0 .. most :
              /\ k = most \/ Total(After(k)) <= limit.total
              /\ \A j \in 0 .. k - 1 : Total(After(j)) > limit.total)

(* The oldest others are dropped until it fits.  The workflow's copy keeps *)
(* one message at least.                                                   *)
Fitting(first, rest) ==
  LET most  == Len(rest) - (IF first = <<>> /\ copy = "workflow" THEN 1 ELSE 0)
      After(k) == first \o SubSeq(rest, k + 1, Len(rest))
  IN  After(CHOOSE k \in 0 .. most :
              /\ k = most \/ Total(After(k)) <= limit.total
              /\ \A j \in 0 .. k - 1 : Total(After(j)) > limit.total)

(* What is still too long: the workflow's copy shortens the longest, the   *)
(* processor's the last one.                                               *)
Longest(ms) ==
  CHOOSE i \in DOMAIN ms : \A j \in DOMAIN ms :
    ms[j].size < ms[i].size \/ (ms[j].size = ms[i].size /\ i <= j)

Shrunk(ms) ==
  IF ms = <<>> \/ Total(ms) <= limit.total THEN ms
  ELSE IF copy = "processor" THEN [ms EXCEPT ![Len(ms)] = Cut(@, limit.total)]
  ELSE LET i == Longest(ms)
           room == Greater(limit.head + limit.tail, limit.total - (Total(ms) - ms[i].size))
       IN  [ms EXCEPT ![i] = Cut(@, room)]

Trimmed(ms) ==
  IF limit.total = 0 THEN Instructions(ms) \o Cleaned(ms)
  ELSE Shrunk(Fitting(Instructions(ms), Cleaned(ms)))

(* The messages of the caller that trimming has changed in place.          *)
Rewritten(ms) ==
  LET changed == Cleaned(ms) \o Trimmed(ms) IN
  [i \in DOMAIN ms |->
     LET mine == {k \in DOMAIN changed : changed[k].at = i /\ ~changed[k].plain}
     IN  IF mine = {} THEN ms[i] ELSE [ms[i] EXCEPT !.size = changed[Max(mine)].size]]

-------------------------------------------------------------------------------
(* _inner_get_response: a prompt that is too long is trimmed beforehand.   *)
Call ==
  /\ round = 0
  /\ IF limit.enabled /\ limit.total > 0 /\ Total(prompt) > limit.total
       THEN sent' = Trimmed(prompt) /\ prompt' = Rewritten(prompt)
       ELSE sent' = prompt /\ UNCHANGED prompt
  /\ round' = 1
  /\ UNCHANGED <<copy, limit, log, result>>

(* The requests of a round, attempt_number of its _retry_call.             *)
Requests(r) == Cardinality({i \in DOMAIN log : log[i].round = r})

Noted(outcome) == log' = Append(log, [round |-> round, outcome |-> outcome])

Answers ==
  /\ round > 0 /\ result = "none"
  /\ Noted("ok") /\ result' = "answer"
  /\ UNCHANGED <<copy, limit, prompt, sent, round>>

Transient(outcome) == outcome \in {"transient", "both"}

(* _looks_like_context_length: every 400 and 413 does.                     *)
ContextLike(outcome) == outcome \in {"context", "both"}

(* The request fails: transiently, and there is an attempt left ...        *)
FailsForNow ==
  /\ round > 0 /\ result = "none"
  /\ \E outcome \in Outcomes :
       /\ Transient(outcome) /\ Requests(round) < MaxRetries
       /\ Noted(outcome)
  /\ UNCHANGED <<copy, limit, prompt, sent, round, result>>

LastAttempt(outcome) == ~Transient(outcome) \/ Requests(round) = MaxRetries

(* Mutant: the second round is not the last one.                           *)
TrimsForever ==
  /\ round > 0 /\ result = "none"
  /\ limit.enabled /\ limit.again
  /\ \E outcome \in Outcomes \ {"ok"} :
       ContextLike(outcome) /\ LastAttempt(outcome) /\ Noted(outcome)
  /\ sent' = Trimmed(prompt) /\ prompt' = Rewritten(prompt) /\ round' = round + 1
  /\ UNCHANGED <<copy, limit, result>>

(* ... for good, with an error that looks like the context's length: once  *)
(* more, trimmed whether it is too long or not.                            *)
TrimsAndRepeats ==
  /\ round = 1 /\ result = "none"
  /\ limit.enabled /\ limit.again
  /\ \E outcome \in Outcomes \ {"ok"} :
       ContextLike(outcome) /\ LastAttempt(outcome) /\ Noted(outcome)
  /\ sent' = Trimmed(prompt) /\ prompt' = Rewritten(prompt) /\ round' = 2
  /\ UNCHANGED <<copy, limit, result>>

Fails ==
  /\ round > 0 /\ result = "none"
  /\ \E outcome \in Outcomes \ {"ok"} :
       /\ LastAttempt(outcome) /\ Noted(outcome)
       /\ round = 1 => ~(limit.enabled /\ limit.again /\ ContextLike(outcome))
  /\ result' = "error"
  /\ UNCHANGED <<copy, limit, prompt, sent, round>>

CallNext == Call \/ Answers \/ FailsForNow \/ TrimsAndRepeats \/ Fails

CallSpec == CallInit /\ [][CallNext]_callVars

-------------------------------------------------------------------------------
(* Whatever is sent begins with the prompt's instructions.  The messages   *)
(* after them keep the order of the prompt, and when they exceed the limit *)
(* nothing is left to drop and nothing to shorten that may be: the         *)
(* workflow's copy always sends one message, and none twice.               *)
Positions(ms) == [k \in DOMAIN ms |-> ms[k].at]

Increasing(s) == \A i \in 1 .. Len(s) - 1 : s[i] < s[i + 1]

PromptKept ==
  round > 0 =>
    LET first == Positions(Instructions(prompt))
        n     == Len(first)
        rest  == SubSeq(Positions(sent), n + 1, Len(sent))
    IN  /\ IsPrefix(first, Positions(sent)) /\ Increasing(rest)
        /\ copy = "workflow" => sent # <<>> /\ Increasing(Positions(sent))
        /\ limit.enabled /\ limit.total > 0 /\ Total(sent) > limit.total =>
             /\ Len(sent) <= Greater(1, n)
             /\ copy = "workflow" =>
                  sent[Longest(sent)].size <= limit.head + limit.tail \/ n > 1

(* Every request but the first follows a failure that warrants it: another *)
(* attempt a transient one, the one second round an error that looks like  *)
(* the context's length; each round has its budget of attempts, and there  *)
(* is no request after an answer.                                          *)
RetriesWarranted ==
  /\ \A i \in 2 .. Len(log) :
       IF log[i].round = log[i - 1].round
         THEN Transient(log[i - 1].outcome)
         ELSE log[i].round = 2 /\ ContextLike(log[i - 1].outcome)
  /\ \A r \in 1 .. Greater(1, round) : Requests(r) <= MaxRetries + 1
  /\ Len(log) <= 2 * (MaxRetries + 1)
  /\ result = "answer" => Last(log).outcome = "ok"
===============================================================================
