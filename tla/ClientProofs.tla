------------------------------- MODULE ClientProofs -------------------------------
(***************************************************************************)
(* Theorems about the libraries that the services share: the HTTP client,  *)
(* the retrying clients of the language model and the dependency           *)
(* container.                                                              *)
(***************************************************************************)
EXTENDS HttpClient, ModelCalls, ServiceContainer, OrderLemmas, SequenceTheorems

-------------------------------------------------------------------------------
(* HttpClient.  The lock is held just during a fetch, and as long as it is *)
(* held the token that was fetched last is about to expire.                *)
Token == [at : Nat, expires : Nat]

SenderState ==
  [at : {"idle", "headers", "fetch", "send", "wait", "pause", "done"}, tries : Nat,
   start : Nat, polling : BOOLEAN, result : {"none", "answer", "error", "timeout"}]

HttpTypes ==
  /\ now \in Nat /\ expires \in Nat
  /\ fetched \in Seq(Token)
  /\ sender \in [Senders -> SenderState]

TokenInv ==
  /\ \A u \in Senders : sender[u].at = "fetch" <=> lock = u
  /\ lock # Unlocked => ~Fresh
  /\ expires = IF fetched = <<>> THEN 0 ELSE fetched[Len(fetched)].expires
  /\ \A u \in Senders : sender[u].at \in {"send", "pause"} => fetched # <<>>
  /\ \A i \in 1 .. Len(fetched) - 1 : fetched[i + 1].at >= fetched[i].expires - Margin

(* What a step may do to the coroutine it belongs to: the states it goes   *)
(* between, and what it does to the lock and the token on the way.         *)
SenderStep(u) ==
  /\ sender' = [sender EXCEPT ![u] = sender'[u]]
  /\ sender'[u] \in SenderState
  /\ now' = now
  /\ \/ /\ UNCHANGED <<lock, expires, fetched>>
        /\ sender[u].at # "fetch" /\ sender'[u].at \notin {"send", "pause", "fetch"}
     \/ /\ UNCHANGED <<lock, expires, fetched>>
        /\ sender[u].at = "send" /\ sender'[u].at = "pause"
     \/ /\ UNCHANGED <<expires, fetched>> /\ lock = Unlocked
        /\ \/ Fresh /\ sender'[u].at = "send" /\ lock' = lock
           \/ ~Fresh /\ sender'[u].at = "fetch" /\ lock' = u
        /\ sender[u].at # "fetch"
     \/ /\ sender[u].at = "fetch" /\ lock' = Unlocked
        /\ UNCHANGED <<expires, fetched>> /\ sender'[u].at \notin {"send", "pause", "fetch"}
     \/ /\ sender[u].at = "fetch" /\ lock' = Unlocked
        /\ expires' \in Nat /\ fetched' = Append(fetched, [at |-> now, expires |-> expires'])
        /\ sender'[u].at = "send"

LEMMA SenderSteps ==
  ASSUME HttpTypes, NEW u \in Senders,
         \/ SendRequest(u) \/ GetToken(u) \/ TokenReturns(u) \/ TokenFails(u)
         \/ AnswerReceived(u) \/ Retried(u) \/ Rejected(u) \/ Waited(u) \/ PollAgain(u)
  PROVE  SenderStep(u)
<1>0. sender \in [Senders -> SenderState] /\ sender[u] \in SenderState /\ now \in Nat
  BY DEF HttpTypes
<1>a. ASSUME NEW r \in SenderState, Goes(u, r)
      PROVE  sender' = [sender EXCEPT ![u] = sender'[u]] /\ sender'[u] = r
  BY <1>0, <1>a DEF Goes
<1>b. ASSUME NEW end \in {"answer", "error", "timeout"}, Ends(u, end)
      PROVE  /\ sender' = [sender EXCEPT ![u] = sender'[u]] /\ sender'[u] \in SenderState
             /\ sender'[u].at = "done"
  <2>1. [IdleSender EXCEPT !.at = "done", !.result = end] \in SenderState
    BY DEF IdleSender, SenderState
  <2>2. [IdleSender EXCEPT !.at = "done", !.result = end].at = "done"
    BY DEF IdleSender
  <2> QED
    BY <1>a, <1>b, <2>1, <2>2 DEF Ends
<1>c. ASSUME NEW p \in {"headers", "fetch", "send", "wait", "pause"},
             Goes(u, [sender[u] EXCEPT !.at = p])
      PROVE  /\ sender' = [sender EXCEPT ![u] = sender'[u]] /\ sender'[u] \in SenderState
             /\ sender'[u].at = p
  <2>1. [sender[u] EXCEPT !.at = p] \in SenderState /\ [sender[u] EXCEPT !.at = p].at = p
    BY <1>0 DEF SenderState
  <2> QED
    BY <1>a, <1>c, <2>1
<1>d. ASSUME NEW p \in {"headers", "wait"}, NEW n \in Nat,
             Goes(u, [sender[u] EXCEPT !.at = p, !.tries = n])
      PROVE  /\ sender' = [sender EXCEPT ![u] = sender'[u]] /\ sender'[u] \in SenderState
             /\ sender'[u].at = p
  <2>1. /\ [sender[u] EXCEPT !.at = p, !.tries = n] \in SenderState
        /\ [sender[u] EXCEPT !.at = p, !.tries = n].at = p
    BY <1>0 DEF SenderState
  <2> QED
    BY <1>a, <1>d, <2>1
<1>e. Attempts(u) \in Nat
  BY <1>0 DEF Attempts, SenderState
<1>1. CASE SendRequest(u)
  <2>1. PICK polling \in BOOLEAN :
          Goes(u, [sender[u] EXCEPT !.at = "headers", !.polling = polling,
                                    !.start = IF polling THEN now ELSE 0])
    BY <1>1 DEF SendRequest
  <2> DEFINE n == IF polling THEN now ELSE 0
  <2>2. n \in Nat
    BY <1>0
  <2> HIDE DEF n
  <2> DEFINE r == [sender[u] EXCEPT !.at = "headers", !.polling = polling, !.start = n]
  <2>3. r \in SenderState /\ r.at = "headers"
    BY <1>0, <2>2 DEF SenderState
  <2>4. Goes(u, r)
    BY <2>1 DEF n
  <2> HIDE DEF r
  <2> QED
    BY <1>1, <1>a, <2>3, <2>4 DEF SendRequest, SenderStep
<1>2. CASE GetToken(u)
  BY <1>2, <1>c DEF GetToken, SenderStep
<1>3. CASE TokenReturns(u)
  <2>1. expires' \in Nat /\ fetched' = Append(fetched, [at |-> now, expires |-> expires'])
    BY <1>0, <1>3, HttpAssumption DEF TokenReturns
  <2> QED
    BY <1>3, <1>c, <2>1 DEF TokenReturns, SenderStep
<1>4. CASE TokenFails(u)
  BY <1>4, <1>b, <1>d, <1>e DEF TokenFails, SenderStep
<1>5. CASE AnswerReceived(u)
  BY <1>5, <1>b, <1>c DEF AnswerReceived, SenderStep
<1>6. CASE Retried(u)
  BY <1>6, <1>d, <1>e DEF Retried, SenderStep
<1>7. CASE Rejected(u)
  BY <1>7, <1>b DEF Rejected, SenderStep
<1>8. CASE Waited(u)
  BY <1>8, <1>c DEF Waited, SenderStep
<1>9. CASE PollAgain(u)
  BY <1>9, <1>b, <1>d DEF PollAgain, SenderStep
<1> QED
  BY <1>1, <1>2, <1>3, <1>4, <1>5, <1>6, <1>7, <1>8, <1>9

LEMMA TokenStep ==
  ASSUME HttpTypes, TokenInv, NEW u \in Senders, SenderStep(u)
  PROVE  HttpTypes' /\ TokenInv'
<1>0. /\ sender \in [Senders -> SenderState] /\ now \in Nat /\ expires \in Nat
      /\ fetched \in Seq(Token) /\ Len(fetched) \in Nat
      /\ \A v \in Senders \ {u} : sender'[v] = sender[v]
      /\ Unlocked \notin Senders /\ Margin \in Nat
  BY HttpAssumption DEF HttpTypes, SenderStep
<1>1. sender' \in [Senders -> SenderState] /\ now' = now
  BY <1>0 DEF SenderStep
<1>2. CASE UNCHANGED <<expires, fetched>>
  <2>1. HttpTypes'
    BY <1>1, <1>2 DEF HttpTypes
  <2>2. (\A v \in Senders : sender'[v].at = "fetch" <=> lock' = v) /\ (lock' # Unlocked => ~Fresh')
    BY <1>0, <1>1, <1>2 DEF SenderStep, TokenInv, Fresh
  <2>3. \A v \in Senders : sender'[v].at \in {"send", "pause"} => fetched # <<>>
    BY <1>0, <1>2 DEF SenderStep, TokenInv, Fresh
  <2> QED
    BY <1>2, <2>1, <2>2, <2>3 DEF TokenInv
<1>3. CASE /\ sender[u].at = "fetch" /\ lock' = Unlocked
           /\ expires' \in Nat /\ fetched' = Append(fetched, [at |-> now, expires |-> expires'])
           /\ sender'[u].at = "send"
  <2> DEFINE n == Len(fetched)
             t == [at |-> now, expires |-> expires']
  <2>1. t \in Token /\ t.at = now /\ t.expires = expires'
    BY <1>0, <1>3 DEF Token
  <2>2. fetched' = Append(fetched, t)
    BY <1>3
  <2> HIDE DEF t
  <2>3. /\ fetched' \in Seq(Token) /\ fetched' # <<>> /\ Len(fetched') = n + 1
        /\ fetched'[n + 1] = t
        /\ \A i \in 1 .. n : fetched'[i] = fetched[i] /\ fetched[i] \in Token
    BY <1>0, <2>1, <2>2
  <2>4. HttpTypes'
    BY <1>0, <1>1, <1>3, <2>3 DEF HttpTypes
  <2>5. now >= expires - Margin
    <3>1. ~Fresh
      BY <1>0, <1>3 DEF TokenInv
    <3> QED
      BY <1>0, <3>1 DEF Fresh
  <2>6. ASSUME NEW i \in 1 .. Len(fetched') - 1
        PROVE  fetched'[i + 1].at >= fetched'[i].expires - Margin
    <3>1. CASE i = n
      <4>1. fetched[n].expires = expires
        BY <1>0, <2>3, <2>6, <3>1 DEF TokenInv
      <4> QED
        BY <1>0, <2>1, <2>3, <2>5, <2>6, <3>1, <4>1
    <3>2. CASE i # n
      <4>1. i \in 1 .. n - 1 /\ i + 1 \in 1 .. n
        BY <1>0, <2>3, <2>6, <3>2
      <4> QED
        BY <2>3, <4>1 DEF TokenInv
    <3> QED
      BY <3>1, <3>2
  <2>7. \A v \in Senders : sender'[v].at = "fetch" <=> lock' = v
    BY <1>0, <1>3 DEF TokenInv
  <2>8. expires' = fetched'[Len(fetched')].expires
    BY <2>1, <2>3
  <2> QED
    BY <1>3, <2>3, <2>4, <2>6, <2>7, <2>8 DEF TokenInv
<1> QED
  BY <1>2, <1>3 DEF SenderStep

LEMMA TokenNext == HttpTypes /\ TokenInv /\ [HttpNext]_httpVars => HttpTypes' /\ TokenInv'
<1> SUFFICES ASSUME HttpTypes, TokenInv, [HttpNext]_httpVars
             PROVE  HttpTypes' /\ TokenInv'
  OBVIOUS
<1>1. CASE UNCHANGED httpVars
  BY <1>1 DEF httpVars, HttpTypes, TokenInv, Fresh
<1>2. CASE Second
  <2>1. HttpTypes'
    BY <1>2 DEF Second, HttpTypes
  <2>2. ~Fresh => ~Fresh'
    BY <1>2, HttpAssumption DEF Second, HttpTypes, Fresh
  <2> QED
    BY <1>2, <2>1, <2>2 DEF Second, TokenInv
<1>3. ASSUME NEW u \in Senders,
             \/ SendRequest(u) \/ GetToken(u) \/ TokenReturns(u) \/ TokenFails(u)
             \/ AnswerReceived(u) \/ Retried(u) \/ Rejected(u) \/ Waited(u) \/ PollAgain(u)
      PROVE  HttpTypes' /\ TokenInv'
  BY <1>3, SenderSteps, TokenStep
<1> QED
  BY <1>1, <1>2, <1>3 DEF HttpNext

(* However many coroutines find the token stale at the same time, one of   *)
(* them fetches a new one, the next fetch comes only when that token is    *)
(* about to expire, and nobody sends before a token was fetched, whichever *)
(* fetches fail (get_token: the second look under the lock).               *)
THEOREM OneTokenForAll == HttpSpec => []TokenShared
<1>1. HttpInit => HttpTypes /\ TokenInv
  <2> SUFFICES ASSUME HttpInit PROVE HttpTypes /\ TokenInv
    OBVIOUS
  <2>1. IdleSender \in SenderState /\ IdleSender.at = "idle"
    BY DEF IdleSender, SenderState
  <2> QED
    BY <2>1, HttpAssumption DEF HttpInit, HttpTypes, TokenInv
<1>2. HttpTypes /\ TokenInv => TokenShared
  <2> SUFFICES ASSUME HttpTypes, TokenInv
               PROVE  Cardinality({u \in Senders : sender[u].at = "fetch"}) <= 1
    BY DEF TokenShared, TokenInv
  <2> DEFINE S == {u \in Senders : sender[u].at = "fetch"}
  <2>1. S \subseteq {lock}
    BY DEF TokenInv
  <2> HIDE DEF S
  <2>2. IsFiniteSet({lock}) /\ Cardinality({lock}) = 1
    BY FS_Singleton
  <2>3. Cardinality(S) <= 1
    BY <2>1, <2>2, FS_Subset
  <2> QED
    BY <2>3 DEF S
<1> QED
  BY <1>1, <1>2, TokenNext, PTL DEF HttpSpec

-------------------------------------------------------------------------------
(***************************************************************************)
(* ModelCalls.  The last request of a call that goes on is the reason for  *)
(* the next one: it failed transiently, with an attempt left, or its       *)
(* failure began the second round.                                         *)
(***************************************************************************)
Entry == [round : {1, 2}, outcome : Outcomes]

CallTypes ==
  /\ round \in 0 .. 2 /\ log \in Seq(Entry) /\ result \in {"none", "answer", "error"}

RoundsInv ==
  /\ \A i \in 1 .. Len(log) : log[i].round <= round
  /\ \A i \in 2 .. Len(log) :
       IF log[i].round = log[i - 1].round
         THEN Transient(log[i - 1].outcome)
         ELSE log[i].round = 2 /\ ContextLike(log[i - 1].outcome)
  /\ result = "answer" => log # <<>> /\ log[Len(log)].outcome = "ok"

(* What the next request would be for.                                     *)
ReasonInv ==
  result = "none" /\ log # <<>> =>
    IF log[Len(log)].round = round
      THEN Transient(log[Len(log)].outcome)
      ELSE round = 2 /\ ContextLike(log[Len(log)].outcome)

BudgetInv ==
  /\ \A r \in {1, 2} : Requests(r) \in 0 .. MaxRetries + 1
  /\ result = "none" /\ round > 0 => Requests(round) <= MaxRetries

CallInv == CallTypes /\ RoundsInv /\ ReasonInv /\ BudgetInv

LEMMA EntriesAre ==
  ASSUME CallTypes
  PROVE  /\ DOMAIN log = 1 .. Len(log) /\ Len(log) \in Nat
         /\ \A i \in 1 .. Len(log) : log[i].round \in {1, 2}
<1>1. DOMAIN log = 1 .. Len(log) /\ Len(log) \in Nat /\ \A i \in 1 .. Len(log) : log[i] \in Entry
  BY DEF CallTypes
<1> QED
  BY <1>1 DEF Entry

LEMMA RequestsCount ==
  ASSUME CallTypes, NEW r
  PROVE  Requests(r) \in Nat /\ IsFiniteSet({i \in DOMAIN log : log[i].round = r})
<1> DEFINE S == {i \in DOMAIN log : log[i].round = r}
<1>1. IsFiniteSet(1 .. Len(log)) /\ S \subseteq 1 .. Len(log)
  BY FS_Interval DEF CallTypes
<1>2. IsFiniteSet(S)
  BY <1>1, FS_Subset
<1> QED
  BY <1>2, FS_CardinalityType DEF Requests

(* One more request.                                                       *)
LEMMA OneMore ==
  ASSUME CallTypes, round > 0, NEW outcome \in Outcomes, Noted(outcome)
  PROVE  /\ log' \in Seq(Entry) /\ Len(log') = Len(log) + 1
         /\ log'[Len(log) + 1].round = round /\ log'[Len(log) + 1].outcome = outcome
         /\ \A i \in 1 .. Len(log) : log'[i] = log[i]
         /\ \A r : Requests(r)' = IF r = round THEN Requests(r) + 1 ELSE Requests(r)
<1> DEFINE e == [round |-> round, outcome |-> outcome]
<1>1. e \in Entry /\ log' = Append(log, e) /\ e.round = round /\ e.outcome = outcome
  BY DEF CallTypes, Entry, Noted
<1> HIDE DEF e
<1>2. /\ log' \in Seq(Entry) /\ Len(log') = Len(log) + 1 /\ log'[Len(log) + 1] = e
      /\ \A i \in 1 .. Len(log) : log'[i] = log[i]
      /\ DOMAIN log = 1 .. Len(log) /\ DOMAIN log' = 1 .. Len(log) + 1 /\ Len(log) \in Nat
  BY <1>1 DEF CallTypes
<1>3. ASSUME NEW r
      PROVE  Requests(r)' = IF r = round THEN Requests(r) + 1 ELSE Requests(r)
  <2> DEFINE S == {i \in DOMAIN log : log[i].round = r}
             T == {i \in DOMAIN log' : log'[i].round = r}
  <2>1. IsFiniteSet(S) /\ Requests(r) = Cardinality(S) /\ Requests(r)' = Cardinality(T)
    BY RequestsCount DEF Requests
  <2>2. Len(log) + 1 \notin S
    BY <1>2
  <2>3. T = IF r = round THEN S \cup {Len(log) + 1} ELSE S
    BY <1>1, <1>2
  <2> HIDE DEF S, T
  <2>4. Cardinality(S \cup {Len(log) + 1}) = Cardinality(S) + 1
    BY <2>1, <2>2, FS_AddElement
  <2> QED
    BY <2>1, <2>3, <2>4
<1> QED
  BY <1>1, <1>2, <1>3

LEMMA CallNextKeeps == CallInv /\ [CallNext]_callVars => CallInv'
<1> SUFFICES ASSUME CallInv, [CallNext]_callVars PROVE CallInv'
  OBVIOUS
<1>0. CallTypes /\ RoundsInv /\ ReasonInv /\ BudgetInv /\ MaxRetries \in Nat
  BY CallsAssumption DEF CallInv
<1>1. CASE Call
  <2>1. round = 0 /\ round' = 1 /\ UNCHANGED <<log, result>>
    BY <1>1 DEF Call
  <2>2. log = <<>>
    <3>1. ASSUME Len(log) > 0 PROVE FALSE
      <4>1. log[1] \in Entry /\ log[1].round <= 0
        BY <1>0, <2>1, <3>1 DEF CallTypes, RoundsInv
      <4> QED
        BY <4>1 DEF Entry
    <3> QED
      BY <1>0, <3>1 DEF CallTypes
  <2>3. \A r : Requests(r)' = 0
    BY <2>1, <2>2, FS_EmptySet DEF Requests
  <2> QED
    BY <1>0, <2>1, <2>2, <2>3 DEF CallInv, CallTypes, RoundsInv, ReasonInv, BudgetInv
(* A request is made; "next" is the round afterwards.                      *)
<1>2. ASSUME NEW outcome \in Outcomes, round > 0, result = "none", Noted(outcome),
             round' \in {round, 2}, round = 2 => round' = 2, result' \in {"none", "answer", "error"},
             result' = "answer" => outcome = "ok",
             result' = "none" /\ round' = round => Transient(outcome) /\ Requests(round) < MaxRetries,
             result' = "none" /\ round' # round => ContextLike(outcome)
      PROVE  CallInv'
  <2> DEFINE n == Len(log)
  <2>1. /\ log' \in Seq(Entry) /\ Len(log') = n + 1
        /\ log'[n + 1].round = round /\ log'[n + 1].outcome = outcome
        /\ \A i \in 1 .. n : log'[i] = log[i]
        /\ \A r : Requests(r)' = IF r = round THEN Requests(r) + 1 ELSE Requests(r)
        /\ n \in Nat /\ round \in {1, 2}
    BY <1>0, <1>2, OneMore DEF CallTypes, n
  <2> HIDE DEF n
  <2>2. CallTypes'
    BY <1>0, <1>2, <2>1 DEF CallTypes
  <2>3. RoundsInv'
    <3>1. \A i \in 1 .. n + 1 : log'[i].round <= round'
      <4>1. round <= round' /\ round' \in {1, 2}
        BY <1>2, <2>1
      <4>2. \A i \in 1 .. n : log[i].round \in {1, 2} /\ log[i].round <= round
        BY <1>0, EntriesAre DEF RoundsInv, n
      <4> QED
        BY <2>1, <4>1, <4>2
    <3>2. ASSUME NEW i \in 2 .. n + 1
          PROVE  IF log'[i].round = log'[i - 1].round
                   THEN Transient(log'[i - 1].outcome)
                   ELSE log'[i].round = 2 /\ ContextLike(log'[i - 1].outcome)
      <4>1. CASE i \in 2 .. n
        BY <1>0, <2>1, <4>1 DEF RoundsInv, n
      <4>2. CASE i = n + 1
        <5>1. n > 0 /\ log # <<>> /\ log'[i - 1] = log[n]
          BY <2>1, <4>2 DEF n
        <5> QED
          BY <1>0, <1>2, <2>1, <4>2, <5>1 DEF ReasonInv, n
      <4> QED
        BY <2>1, <4>1, <4>2
    <3>3. result' = "answer" => log' # <<>> /\ log'[n + 1].outcome = "ok"
      BY <1>2, <2>1
    <3> QED
      BY <2>1, <3>1, <3>2, <3>3 DEF RoundsInv
  <2>4. ReasonInv'
    BY <1>2, <2>1 DEF ReasonInv
  <2>5. BudgetInv'
    <3>1. round = 1 => Requests(2) = 0
      <4>1. round = 1 => {i \in DOMAIN log : log[i].round = 2} = {}
        BY <1>0, <2>1 DEF CallTypes, RoundsInv
      <4> QED
        BY <4>1, FS_EmptySet DEF Requests
    <3>2. \A r \in {1, 2} : Requests(r)' \in 0 .. MaxRetries + 1
      BY <1>0, <1>2, <2>1 DEF BudgetInv
    <3> QED
      BY <1>0, <1>2, <2>1, <3>1, <3>2 DEF BudgetInv
  <2> QED
    BY <2>2, <2>3, <2>4, <2>5 DEF CallInv
<1>3. CASE Answers
  BY <1>2, <1>3 DEF Answers, Outcomes
<1>4. CASE FailsForNow
  BY <1>2, <1>4 DEF FailsForNow
<1>5. CASE TrimsAndRepeats
  BY <1>2, <1>5 DEF TrimsAndRepeats
<1>6. CASE Fails
  BY <1>2, <1>6 DEF Fails
<1>7. CASE UNCHANGED callVars
  <2>1. UNCHANGED <<round, log, result>>
    BY <1>7 DEF callVars
  <2> QED
    BY <1>0, <2>1 DEF CallInv, CallTypes, RoundsInv, ReasonInv, BudgetInv, Requests
<1> QED
  BY <1>1, <1>3, <1>4, <1>5, <1>6, <1>7 DEF CallNext

(* Every request but the first follows a failure that warrants it, within  *)
(* the attempts of its round, and none follows an answer (_retry_call and  *)
(* _inner_get_response).                                                   *)
THEOREM RetriesHaveCause == CallSpec => []RetriesWarranted
<1>1. CallInit => CallInv
  <2> SUFFICES ASSUME CallInit PROVE CallInv
    OBVIOUS
  <2>1. round = 0 /\ log = <<>> /\ result = "none"
    BY DEF CallInit
  <2>2. \A r : Requests(r) = 0
    BY <2>1, FS_EmptySet DEF Requests
  <2> QED
    BY <2>1, <2>2, CallsAssumption DEF CallInv, CallTypes, RoundsInv, ReasonInv, BudgetInv
<1>2. CallInv => RetriesWarranted
  <2> SUFFICES ASSUME CallInv PROVE RetriesWarranted
    OBVIOUS
  <2>0. CallTypes /\ RoundsInv /\ BudgetInv /\ MaxRetries \in Nat /\ Len(log) \in Nat
    BY CallsAssumption DEF CallInv, CallTypes
  <2>1. \A r \in 1 .. Greater(1, round) : Requests(r) <= MaxRetries + 1
    <3>1. 1 .. Greater(1, round) \subseteq {1, 2}
      BY <2>0 DEF Greater, CallTypes
    <3> QED
      BY <2>0, <3>1 DEF BudgetInv
  <2>2. Len(log) <= 2 * (MaxRetries + 1)
    <3> DEFINE A == {i \in DOMAIN log : log[i].round = 1}
               B == {i \in DOMAIN log : log[i].round = 2}
    <3>1. /\ IsFiniteSet(A) /\ Requests(1) = Cardinality(A) /\ Requests(1) \in Nat
          /\ IsFiniteSet(B) /\ Requests(2) = Cardinality(B) /\ Requests(2) \in Nat
      BY <2>0, RequestsCount DEF Requests
    <3>2. A \cup B = 1 .. Len(log) /\ A \cap B = {}
      <4>1. DOMAIN log = 1 .. Len(log) /\ \A i \in 1 .. Len(log) : log[i].round \in {1, 2}
        BY <2>0, EntriesAre
      <4> QED
        BY <4>1
    <3> HIDE DEF A, B
    <3>3. Cardinality(1 .. Len(log)) = Len(log)
      <4>1. ASSUME NEW n \in Nat PROVE Cardinality(1 .. n) = n
        BY FS_Interval
      <4> QED
        BY <2>0, <4>1
    <3>4. Cardinality(A \cup B) = Cardinality(A) + Cardinality(B)
                                        - Cardinality(A \cap B)
      BY <3>1, FS_Union
    <3>5. Cardinality(A \cap B) = 0
      BY <3>2, FS_EmptySet
    <3>6. Len(log) = Requests(1) + Requests(2)
      <4>1. Cardinality(A \cup B) = Len(log)
        BY <3>2, <3>3
      <4>2. Cardinality(A) \in Nat /\ Cardinality(B) \in Nat
        BY <3>1
      <4>3. Len(log) = Cardinality(A) + Cardinality(B)
        BY <3>4, <3>5, <4>1, <4>2
      <4> QED
        BY <3>1, <4>3
    <3> QED
      BY <2>0, <3>1, <3>6 DEF BudgetInv
  <2>3. result = "answer" => Last(log).outcome = "ok"
    BY <2>0 DEF RoundsInv, Last
  <2> QED
    BY <2>0, <2>1, <2>2, <2>3 DEF RoundsInv, RetriesWarranted
<1> QED
  BY <1>1, <1>2, CallNextKeeps, PTL DEF CallSpec

-------------------------------------------------------------------------------
(* ModelCalls, the messages of a prompt.                                   *)
Messages ==
  [at : Nat, role : {"system", "user"}, size : Nat, ends : STRING, plain : BOOLEAN]

LimitTypes ==
  /\ {limit.enabled, limit.again, limit.systems} \subseteq BOOLEAN
  /\ {limit.total, limit.each, limit.last, limit.head, limit.tail} \subseteq Nat
  /\ limit.last > 0

(* Shortening and cutting.                                                 *)
LEMMA ShortenedIs ==
  ASSUME NEW size \in Nat, NEW max \in Nat, NEW head \in Nat, NEW tail \in Nat
  PROVE  Shortened(size, max, head, tail) \in Nat /\ Shortened(size, max, head, tail) <= max
BY CallsAssumption DEF Shortened, Lesser

LEMMA CutIs ==
  ASSUME LimitTypes, NEW m \in Messages, NEW max \in Nat, NEW r, r = Cut(m, max)
  PROVE  /\ r \in Messages /\ r.at = m.at /\ r.role = m.role /\ r.plain = m.plain
         /\ copy = "workflow" => r.size <= max
<1> DEFINE x == Shortened(m.size, max, Lesser(limit.head, max), Lesser(limit.tail, max))
<1>1. m.size \in Nat /\ Lesser(limit.head, max) \in Nat /\ Lesser(limit.tail, max) \in Nat
  BY DEF Messages, LimitTypes, Lesser
<1>2. x \in Nat /\ x <= max
  BY <1>1, ShortenedIs
<1>3. r = IF Rewritable(m) THEN [m EXCEPT !.size = x] ELSE m
  BY DEF Cut
<1> HIDE DEF x
<1>4. CASE Rewritable(m)
  BY <1>2, <1>3, <1>4 DEF Messages
<1>5. CASE ~Rewritable(m)
  BY <1>3, <1>5 DEF Rewritable
<1> QED
  BY <1>4, <1>5

(* The length of a prompt.                                                 *)
LEMMA TotalIs ==
  ASSUME NEW ms \in Seq(Messages)
  PROVE  /\ Total(ms) \in Nat
         /\ ms = <<>> => Total(ms) = 0
         /\ Len(ms) = 1 => Total(ms) = ms[1].size
<1> DEFINE n == Len(ms)
           a == [k \in 1 .. n |-> ms[k].size]
           sum == CHOOSE f : f = [k \in 0 .. n |-> IF k = 0 THEN 0 ELSE f[k - 1] + ms[k].size]
<1>0. n \in Nat /\ \A k \in 1 .. n : ms[k] \in Messages
  BY ElementOfSeq
<1>1. n \in Nat /\ \A k \in 1 .. n : ms[k].size \in Nat
  BY <1>0 DEF Messages
<1>2. \A k \in 1 .. n : a[k] \in Nat
  BY <1>1
<1>3. \A f : Sums(f, n, a) <=> f = [k \in 0 .. n |-> IF k = 0 THEN 0 ELSE f[k - 1] + ms[k].size]
  <2>1. \A k \in 0 .. n : k # 0 => a[k] = ms[k].size
    BY <1>1
  <2> HIDE DEF a, n
  <2>2. ASSUME NEW f
        PROVE  [k \in 0 .. n |-> IF k = 0 THEN 0 ELSE f[k - 1] + a[k]]
                 = [k \in 0 .. n |-> IF k = 0 THEN 0 ELSE f[k - 1] + ms[k].size]
    BY <2>1
  <2> QED
    BY <2>2 DEF Sums
<1>4. \E f : Sums(f, n, a)
  <2> HIDE DEF a, n
  <2> QED
    BY <1>1, <1>2, SumsExist
<1>5. Sums(sum, n, a)
  <2>1. sum = [k \in 0 .. n |-> IF k = 0 THEN 0 ELSE sum[k - 1] + ms[k].size]
    BY <1>3, <1>4
  <2> QED
    BY <1>3, <2>1
<1>6. Total(ms) = sum[n]
  BY DEF Total
<1>7. \A k \in 1 .. n : a[k] = ms[k].size
  OBVIOUS
<1> HIDE DEF sum, a
<1>8. sum \in [0 .. n -> Nat] /\ sum[0] = 0 /\ \A k \in 1 .. n : sum[k] = sum[k - 1] + a[k]
  BY <1>1, <1>2, <1>5, SumsAre
<1>9. n \in 0 .. n
  BY <1>1
<1>10. n = 1 => sum[n] = ms[1].size
  <2> SUFFICES ASSUME n = 1
               PROVE  sum[n] = ms[1].size
    OBVIOUS
  <2>1. 1 \in 1 .. n /\ 1 - 1 = 0
    OBVIOUS
  <2>2. sum[1] = sum[0] + ms[1].size
    BY <1>7, <1>8, <2>1
  <2> QED
    BY <1>1, <1>8, <2>1, <2>2
<1> QED
  BY <1>6, <1>8, <1>9, <1>10

(* Messages in the order of their positions, all after position b.         *)
Rising(s, b) ==
  /\ \A i \in 1 .. Len(s) : b < s[i].at
  /\ \A i, j \in 1 .. Len(s) : i < j => s[i].at < s[j].at

Numbered(ms) == \A i \in 1 .. Len(ms) : ms[i].at = i

(* A prompt opens with n instructions.                                     *)
Opens(ms, n) ==
  /\ n \in 0 .. Len(ms)
  /\ ~limit.systems => n = 0
  /\ limit.systems => /\ \A i \in 1 .. n : ms[i].role = "system"
                      /\ n < Len(ms) => ms[n + 1].role # "system"

(* A part of a sequence, and its messages.                                 *)
Part(ms, k, n, w) ==
  /\ w \in Seq(Messages) /\ Len(w) = n - k
  /\ \A i \in 1 .. n - k : w[i] = ms[k + i]

LEMMA PartIs ==
  ASSUME NEW ms \in Seq(Messages), NEW n \in 0 .. Len(ms), NEW k \in 0 .. n,
         NEW w, w = SubSeq(ms, k + 1, n)
  PROVE  Part(ms, k, n, w)
<1>1. Len(ms) \in Nat /\ \A i \in 1 .. Len(ms) : ms[i] \in Messages
  BY ElementOfSeq
<1>2. \A i \in k + 1 .. n : ms[i] \in Messages
  BY <1>1
<1>3. /\ w \in Seq(Messages)
      /\ Len(w) = IF k + 1 <= n THEN n - (k + 1) + 1 ELSE 0
      /\ \A i \in 1 .. n - (k + 1) + 1 : w[i] = ms[(k + 1) + i - 1]
  BY <1>1, <1>2, SubSeqProperties
<1>4. n - (k + 1) + 1 = n - k /\ \A i \in 1 .. n - k : (k + 1) + i - 1 = k + i
  BY <1>1
<1> QED
  BY <1>1, <1>3, <1>4 DEF Part

LEMMA InstructionsAre ==
  ASSUME LimitTypes, NEW ms \in Seq(Messages)
  PROVE  \E n \in 0 .. Len(ms) : Opens(ms, n) /\ Part(ms, 0, n, Instructions(ms))
<1> DEFINE others == {i \in DOMAIN ms : ms[i].role # "system"}
           first == CHOOSE i \in others : \A j \in others : i <= j
           n == IF others = {} THEN Len(ms) ELSE first - 1
<1>1. Len(ms) \in Nat /\ DOMAIN ms = 1 .. Len(ms)
  OBVIOUS
<1>2. Instructions(ms) = IF limit.systems THEN SubSeq(ms, 1, n) ELSE <<>>
  BY DEF Instructions
<1>3. CASE ~limit.systems
  <2>1. Instructions(ms) = <<>> /\ 0 \in 0 .. Len(ms)
    BY <1>1, <1>2, <1>3
  <2>2. Part(ms, 0, 0, <<>>)
    BY DEF Part
  <2>3. Opens(ms, 0)
    BY <1>1, <1>3 DEF Opens
  <2> QED
    BY <2>1, <2>2, <2>3
<1>4. CASE limit.systems
  <2>1. others # {} => first \in others /\ \A j \in others : first <= j
    <3>1. others \subseteq Nat
      BY <1>1
    <3> QED
      BY <3>1, LeastExists
  <2> HIDE DEF first
  <2>2. n \in 0 .. Len(ms)
    BY <1>1, <2>1
  <2>3. \A i \in 1 .. n : ms[i].role = "system"
    <3> SUFFICES ASSUME NEW i \in 1 .. n, ms[i].role # "system"
                 PROVE  FALSE
      OBVIOUS
    <3>1. i \in others
      BY <1>1, <2>2
    <3> QED
      BY <1>1, <2>1, <3>1
  <2>4. n < Len(ms) => ms[n + 1].role # "system"
    <3> SUFFICES ASSUME n < Len(ms)
                 PROVE  ms[n + 1].role # "system"
      OBVIOUS
    <3>1. others # {} /\ n = first - 1
      BY <1>1
    <3>2. first \in Nat /\ n + 1 = first
      BY <1>1, <2>1, <3>1
    <3> QED
      BY <2>1, <3>1, <3>2
  <2> HIDE DEF n
  <2>5. Opens(ms, n)
    BY <1>4, <2>2, <2>3, <2>4 DEF Opens
  <2>6. Instructions(ms) = SubSeq(ms, 1, n) /\ 0 + 1 = 1 /\ 0 \in 0 .. n
    BY <1>1, <1>2, <1>4, <2>2
  <2>7. Part(ms, 0, n, SubSeq(ms, 0 + 1, n))
    BY <2>2, <2>6, PartIs
  <2>8. Part(ms, 0, n, Instructions(ms))
    BY <2>6, <2>7
  <2> QED
    BY <2>2, <2>5, <2>8
<1> QED
  BY <1>3, <1>4

(* The position where the dropping of old messages stops, at least.        *)
Start(n) == IF copy = "workflow" THEN n ELSE 0

LEMMA NewestIs ==
  ASSUME LimitTypes, NEW ms \in Seq(Messages), Numbered(ms), NEW n \in 0 .. Len(ms),
         Part(ms, 0, n, Instructions(ms)), NEW w, w = NewestOf(ms)
  PROVE  /\ w \in Seq(Messages) /\ Rising(w, Start(n))
         /\ n < Len(ms) => w # <<>>
<1> DEFINE m == Len(ms)
           k == Greater(Start(n), m - limit.last)
<1>1. m \in Nat /\ n \in Nat /\ Len(Instructions(ms)) = n
  BY DEF Part
<1>2. w = SubSeq(ms, k + 1, m)
  BY <1>1 DEF NewestOf, Start
<1>3. k \in 0 .. m /\ Start(n) <= k /\ (n < m => k < m) /\ Start(n) \in Nat
  BY <1>1 DEF Greater, Start, LimitTypes
<1> HIDE DEF k
<1>4. Part(ms, k, m, w)
  <2>1. m \in 0 .. Len(ms)
    BY <1>1
  <2> QED
    BY <1>2, <1>3, <2>1, PartIs
<1>5. \A i \in 1 .. m - k : k + i \in 1 .. m /\ w[i].at = k + i
  <2>1. \A i \in 1 .. m - k : k + i \in 1 .. m
    BY <1>1, <1>3
  <2>2. \A i \in 1 .. m - k : w[i] = ms[k + i]
    BY <1>4 DEF Part
  <2> QED
    BY <2>1, <2>2 DEF Numbered
<1>6. Rising(w, Start(n))
  <2>1. Len(w) = m - k
    BY <1>4 DEF Part
  <2>2. \A i \in 1 .. m - k : Start(n) < k + i
    BY <1>1, <1>3
  <2>3. \A i, j \in 1 .. m - k : i < j => k + i < k + j
    BY <1>1, <1>3
  <2>4. /\ \A i \in 1 .. m - k : Start(n) < w[i].at
        /\ \A i, j \in 1 .. m - k : i < j => w[i].at < w[j].at
    BY <1>5, <2>2, <2>3
  <2> QED
    BY <2>1, <2>4 DEF Rising
<1>7. n < m => Len(w) # 0
  BY <1>1, <1>3, <1>4 DEF Part
<1> QED
  BY <1>4, <1>6, <1>7 DEF Part

LEMMA DistinctIs ==
  ASSUME NEW w \in Seq(Messages), NEW b \in Nat, Rising(w, b), NEW d, d = Distinct(w)
  PROVE  /\ d \in Seq(Messages) /\ Rising(d, b)
         /\ w # <<>> => d # <<>>
<1> DEFINE S == {i \in DOMAIN w : \A j \in 1 .. i - 1 : w[j].ends # w[i].ends}
           c == Cardinality(S)
           q == InOrder(S)
<1>1. Len(w) \in Nat /\ DOMAIN w = 1 .. Len(w) /\ \A i \in 1 .. Len(w) : w[i] \in Messages
  BY ElementOfSeq
<1>2. IsFiniteSet(S) /\ S \subseteq Nat /\ S \subseteq 1 .. Len(w)
  <2>1. S \subseteq 1 .. Len(w)
    BY <1>1
  <2>2. IsFiniteSet(1 .. Len(w))
    BY <1>1, FS_Interval
  <2> QED
    BY <1>1, <2>1, <2>2, FS_Subset
<1>3. c \in Nat
  BY <1>2, FS_CardinalityType
<1>4. w # <<>> => c # 0
  <2> SUFFICES ASSUME w # <<>>
               PROVE  c # 0
    OBVIOUS
  <2>1. 1 \in S
    BY <1>1
  <2> QED
    BY <1>2, <2>1, FS_EmptySet
<1> HIDE DEF S
<1>5. q \in [1 .. c -> S] /\ \A i, j \in DOMAIN q : i < j => q[i] < q[j]
  <2>1. \E p \in [1 .. c -> S] : \A i, j \in DOMAIN p : i < j => p[i] < p[j]
    BY <1>2, AscendingExists
  <2> QED
    BY <2>1 DEF InOrder
<1>6. d = [k \in DOMAIN q |-> w[q[k]]]
  BY DEF Distinct, S
<1> HIDE DEF c, q
<1>7. /\ d \in [1 .. c -> Messages]
      /\ \A k \in 1 .. c : q[k] \in 1 .. Len(w) /\ d[k] = w[q[k]]
  BY <1>1, <1>2, <1>5, <1>6
<1>8. d \in Seq(Messages) /\ Len(d) = c
  BY <1>3, <1>7
<1>9. Rising(d, b)
  BY <1>3, <1>5, <1>7, <1>8 DEF Rising
<1> QED
  BY <1>4, <1>8, <1>9

LEMMA CleanedIs ==
  ASSUME LimitTypes, NEW ms \in Seq(Messages), Numbered(ms), NEW n \in 0 .. Len(ms),
         Part(ms, 0, n, Instructions(ms)), NEW c, c = Cleaned(ms)
  PROVE  /\ c \in Seq(Messages) /\ Rising(c, Start(n))
         /\ n < Len(ms) => c # <<>>
<1> DEFINE w == NewestOf(ms)
           d == Distinct(w)
<1>1. Start(n) \in Nat
  BY DEF Start
<1>2. w \in Seq(Messages) /\ Rising(w, Start(n)) /\ (n < Len(ms) => w # <<>>)
  BY NewestIs
<1>3. d \in Seq(Messages) /\ Rising(d, Start(n)) /\ (n < Len(ms) => d # <<>>)
  BY <1>1, <1>2, DistinctIs
<1>4. c = [k \in DOMAIN d |-> IF limit.each > 0 THEN Cut(d[k], limit.each) ELSE d[k]]
  BY DEF Cleaned
<1> HIDE DEF d
<1>5. Len(d) \in Nat /\ DOMAIN d = 1 .. Len(d) /\ \A k \in 1 .. Len(d) : d[k] \in Messages
  BY <1>3, ElementOfSeq
<1>6. ASSUME NEW k \in 1 .. Len(d)
      PROVE  c[k] \in Messages /\ c[k].at = d[k].at
  <2>1. CASE limit.each > 0
    <3>1. c[k] = Cut(d[k], limit.each) /\ limit.each \in Nat /\ d[k] \in Messages
      BY <1>4, <1>5, <2>1 DEF LimitTypes
    <3> QED
      BY <3>1, CutIs
  <2>2. CASE ~(limit.each > 0)
    BY <1>4, <1>5, <2>2
  <2> QED
    BY <2>1, <2>2
<1>7. c \in Seq(Messages) /\ Len(c) = Len(d)
  BY <1>4, <1>5, <1>6
<1>8. Rising(c, Start(n))
  BY <1>3, <1>6, <1>7 DEF Rising
<1>9. n < Len(ms) => Len(c) # 0
  BY <1>3, <1>5, <1>7
<1> QED
  BY <1>7, <1>8, <1>9

-------------------------------------------------------------------------------
(* What is sent begins with the n instructions of the prompt.              *)
Led(s, n) ==
  /\ s \in Seq(Messages) /\ n <= Len(s)
  /\ \A i \in 1 .. n : s[i].at = i
  /\ \A i, j \in n + 1 .. Len(s) : i < j => s[i].at < s[j].at
  /\ copy = "workflow" => s # <<>> /\ \A i \in n + 1 .. Len(s) : n < s[i].at

LedAfter(f, r, n) == Led(f \o r, n) /\ Len(f \o r) = n + Len(r)

LEMMA LedBy ==
  ASSUME NEW ms \in Seq(Messages), Numbered(ms), NEW n \in 0 .. Len(ms),
         NEW f, Part(ms, 0, n, f), NEW r \in Seq(Messages), Rising(r, Start(n)),
         n = 0 /\ copy = "workflow" => r # <<>>
  PROVE  LedAfter(f, r, n)
<1> DEFINE s == f \o r
<1>1. /\ f \in Seq(Messages) /\ Len(f) = n /\ n \in Nat /\ Len(r) \in Nat
      /\ \A i \in 1 .. n : f[i] = ms[i] /\ i \in 1 .. Len(ms)
  BY DEF Part
<1>2. s \in Seq(Messages) /\ Len(s) = Len(f) + Len(r)
  BY ONLY <1>1, r \in Seq(Messages), ConcatProperties
<1>3. \A i \in 1 .. Len(f) + Len(r) : s[i] = IF i <= Len(f) THEN f[i] ELSE r[i - Len(f)]
  BY ONLY <1>1, r \in Seq(Messages), ConcatProperties
<1> HIDE DEF s
<1>4. \A i \in 1 .. n : s[i].at = i
  BY <1>1, <1>3 DEF Numbered
<1>5. \A i \in n + 1 .. Len(s) : i - n \in 1 .. Len(r) /\ s[i] = r[i - n]
  BY <1>1, <1>2, <1>3
<1>6. \A i, j \in n + 1 .. Len(s) : i < j => i - n < j - n
  BY <1>1, <1>2
<1>7. \A i, j \in n + 1 .. Len(s) : i < j => s[i].at < s[j].at
  BY <1>5, <1>6 DEF Rising
<1>8. copy = "workflow" => \A i \in n + 1 .. Len(s) : n < s[i].at
  BY <1>5 DEF Rising, Start
<1>9. copy = "workflow" => Len(s) # 0
  BY <1>1, <1>2
<1>10. Led(s, n)
  BY <1>1, <1>2, <1>4, <1>7, <1>8, <1>9 DEF Led
<1> QED
  BY <1>1, <1>2, <1>10 DEF s, LedAfter

(* Dropping the oldest.                                                    *)
LEMMA FittingIs ==
  ASSUME LimitTypes, copy \in Copies,
         NEW ms \in Seq(Messages), Numbered(ms), NEW n \in 0 .. Len(ms),
         NEW f, Part(ms, 0, n, f), NEW c \in Seq(Messages), Rising(c, Start(n)),
         n < Len(ms) => c # <<>>, ms # <<>>, NEW s, s = Fitting(f, c)
  PROVE  Led(s, n) /\ (Total(s) <= limit.total \/ Len(s) <= Greater(1, n))
<1> DEFINE most == Len(c) - (IF f = <<>> /\ copy = "workflow" THEN 1 ELSE 0)
           After(k) == f \o SubSeq(c, k + 1, Len(c))
           Stops(k) == k = most \/ Total(After(k)) <= limit.total
           Enough == {k \in 0 .. most : Stops(k)}
           Choice(k) == Stops(k) /\ \A j \in 0 .. k - 1 : Total(After(j)) > limit.total
           k == CHOOSE k \in 0 .. most : Choice(k)
<1>1. /\ f \in Seq(Messages) /\ Len(f) = n /\ n \in Nat /\ Len(ms) \in Nat /\ Len(c) \in Nat
      /\ (f = <<>> <=> n = 0) /\ Len(ms) # 0 /\ (n < Len(ms) => Len(c) # 0)
  BY DEF Part
<1>2. most \in Nat /\ most <= Len(c) /\ (n = 0 /\ copy = "workflow" => most = Len(c) - 1)
      /\ (~(n = 0 /\ copy = "workflow") => most = Len(c))
  BY <1>1
<1>3. ASSUME NEW j \in 0 .. most
      PROVE  /\ Led(After(j), n) /\ Len(After(j)) = n + (Len(c) - j)
             /\ Total(After(j)) \in Nat
  <2> DEFINE r == SubSeq(c, j + 1, Len(c))
  <2>1. j \in 0 .. Len(c) /\ Len(c) \in 0 .. Len(c)
    BY <1>1, <1>2
  <2>2. Part(c, j, Len(c), r)
    BY <2>1, PartIs
  <2> HIDE DEF r
  <2>3. /\ r \in Seq(Messages) /\ Len(r) = Len(c) - j
        /\ \A i \in 1 .. Len(c) - j : r[i] = c[j + i]
    BY <2>2 DEF Part
  <2>4. \A i \in 1 .. Len(c) - j : j + i \in 1 .. Len(c)
    BY <1>1, <2>1
  <2>5. \A i, k1 \in 1 .. Len(c) - j : i < k1 => j + i < j + k1
    BY <1>1, <2>1
  <2>6. Rising(r, Start(n))
    BY <2>3, <2>4, <2>5 DEF Rising
  <2>7. n = 0 /\ copy = "workflow" => Len(r) # 0
    BY <1>1, <1>2, <2>3
  <2>8. n = 0 /\ copy = "workflow" => r # <<>>
    BY <2>7
  <2>9. Led(f \o r, n) /\ Len(f \o r) = n + Len(r)
    <3>1. LedAfter(f, r, n)
      BY ONLY ms \in Seq(Messages), Numbered(ms), n \in 0 .. Len(ms), Part(ms, 0, n, f),
              <2>3, <2>6, <2>8, LedBy
    <3> QED
      BY ONLY <3>1 DEF LedAfter
  <2>10. Total(f \o r) \in Nat
    BY <2>9, TotalIs DEF Led
  <2> QED
    BY <2>3, <2>9, <2>10 DEF r
<1> HIDE DEF After, most
<1>4. \E k1 \in 0 .. most : Choice(k1)
  <2>1. Enough \subseteq Nat /\ most \in Enough
    BY <1>2
  <2>2. PICK m \in Enough : \A j \in Enough : m <= j
    <3> HIDE DEF Enough
    <3> QED
      BY <2>1, LeastExists
  <2>3. m \in 0 .. most /\ Stops(m)
    BY <2>2
  <2>4. ASSUME NEW j \in 0 .. m - 1
        PROVE  Total(After(j)) > limit.total
    <3>1. j \in 0 .. most /\ j < m
      BY <1>2, <2>3
    <3>2. j \notin Enough
      BY <1>2, <2>2, <3>1
    <3>3. ~(Total(After(j)) <= limit.total)
      BY <3>1, <3>2
    <3> QED
      BY <1>3, <3>1, <3>3 DEF LimitTypes
  <2> QED
    BY <2>3, <2>4
<1>5. k \in 0 .. most /\ Choice(k)
  BY <1>4
<1>6. s = After(k)
  BY DEF Fitting, After, most
<1> HIDE DEF k
<1>7. Led(s, n) /\ Len(s) = n + (Len(c) - k)
  BY <1>3, <1>5, <1>6
<1>8. k = most => Len(s) <= Greater(1, n)
  BY <1>1, <1>2, <1>7 DEF Greater
<1> QED
  BY <1>5, <1>6, <1>7, <1>8

(* Shortening one.                                                         *)
Resized(s, r) ==
  /\ r \in Seq(Messages) /\ Len(r) = Len(s)
  /\ \A i \in 1 .. Len(s) : r[i].at = s[i].at

LEMMA ResizedLed ==
  ASSUME NEW s, NEW n, Led(s, n), NEW r, Resized(s, r), n \in Nat
  PROVE  Led(r, n)
<1>1. Len(s) \in Nat /\ Len(r) = Len(s) /\ r \in Seq(Messages) /\ n <= Len(s)
  BY DEF Led, Resized
<1>2. \A i \in 1 .. n : i \in 1 .. Len(s) /\ r[i].at = s[i].at
  BY <1>1 DEF Resized
<1>3. \A i \in n + 1 .. Len(s) : i \in 1 .. Len(s) /\ r[i].at = s[i].at
  BY <1>1 DEF Resized
<1>4. s # <<>> => Len(r) # 0
  BY <1>1 DEF Led
<1> QED
  BY <1>1, <1>2, <1>3, <1>4 DEF Led

LEMMA CutAt ==
  ASSUME LimitTypes, NEW s \in Seq(Messages), NEW i \in 1 .. Len(s), NEW max \in Nat,
         NEW r, r = [s EXCEPT ![i] = Cut(@, max)]
  PROVE  Resized(s, r) /\ (copy = "workflow" => r[i].size <= max)
<1>1. Len(s) \in Nat /\ DOMAIN s = 1 .. Len(s) /\ \A j \in 1 .. Len(s) : s[j] \in Messages
  BY ElementOfSeq
<1> DEFINE m == Cut(s[i], max)
<1>2. m \in Messages /\ m.at = s[i].at /\ (copy = "workflow" => m.size <= max)
  <2>1. s[i] \in Messages /\ m = Cut(s[i], max)
    BY <1>1
  <2> HIDE DEF m
  <2> QED
    BY <2>1, CutIs
<1>3. r = [s EXCEPT ![i] = m]
  OBVIOUS
<1> HIDE DEF m
<1>4. \A j \in 1 .. Len(s) : r[j] = IF j = i THEN m ELSE s[j]
  BY <1>1, <1>3
<1>5. r \in Seq(Messages) /\ Len(r) = Len(s)
  BY <1>1, <1>2, <1>3, <1>4
<1> QED
  BY <1>2, <1>4, <1>5 DEF Resized

LEMMA GreaterIs ==
  ASSUME NEW a \in Nat, NEW b \in Int
  PROVE  Greater(a, b) \in Nat
BY DEF Greater

(* The first of the longest messages.                                      *)
LEMMA LongestIs ==
  ASSUME NEW s \in Seq(Messages), s # <<>>
  PROVE  Longest(s) \in 1 .. Len(s)
<1> DEFINE n == Len(s)
           Sizes == {s[i].size : i \in 1 .. n}
<1>1. n \in Nat /\ n # 0 /\ DOMAIN s = 1 .. n /\ \A i \in 1 .. n : s[i] \in Messages
  BY ElementOfSeq
<1>2. \A i \in 1 .. n : s[i].size \in Nat
  BY <1>1 DEF Messages
<1>3. \E b \in Nat : \A i \in 1 .. n : s[i].size <= b
  <2> DEFINE a == [i \in 1 .. n |-> s[i].size]
             H == {k \in 0 .. n : \E b \in Nat : \A i \in 1 .. k : s[i].size <= b}
  <2>1. 0 \in H
    BY <1>1
  <2>2. ASSUME NEW k \in 0 .. n - 1, k \in H
        PROVE  k + 1 \in H
    <3>1. PICK b \in Nat : \A i \in 1 .. k : s[i].size <= b
      BY <2>2
    <3>2. k + 1 \in 1 .. n /\ \A i \in 1 .. k + 1 : i \in 1 .. n /\ (i \in 1 .. k \/ i = k + 1)
      BY <1>1
    <3>3. b + s[k + 1].size \in Nat /\ \A i \in 1 .. k + 1 : s[i].size <= b + s[k + 1].size
      BY <1>2, <3>1, <3>2
    <3>4. k + 1 \in 0 .. n
      BY <1>1
    <3> QED
      BY <3>3, <3>4
  <2>3. 0 .. n \subseteq H
    <3> HIDE DEF H
    <3>1. \A k \in 0 .. n - 1 : k \in H => k + 1 \in H
      BY <2>2
    <3> QED
      BY <1>1, <2>1, <3>1, IntervalInduction
  <2>4. n \in 0 .. n
    BY <1>1
  <2> QED
    BY <2>3, <2>4
<1>4. PICK b \in Nat : \A i \in 1 .. n : s[i].size <= b
  BY <1>3
<1>5. Sizes \subseteq 0 .. b
  BY <1>2, <1>4
<1>6. Sizes # {}
  <2>1. s[1].size \in Sizes
    BY <1>1
  <2> QED
    BY <2>1
<1> HIDE DEF Sizes
<1>7. PICK z \in Sizes : \A y \in Sizes : y <= z
  BY <1>5, <1>6, GreatestExists
<1> DEFINE At == {i \in 1 .. n : s[i].size = z}
<1>8. At \subseteq Nat /\ At # {}
  BY <1>1, <1>7 DEF Sizes
<1>9. PICK m \in At : \A i \in At : m <= i
  BY <1>8, LeastExists
<1>10. ASSUME NEW j \in 1 .. n
       PROVE  s[j].size < s[m].size \/ (s[j].size = s[m].size /\ m <= j)
  <2>1. s[j].size <= z /\ s[m].size = z /\ m \in 1 .. n
    BY <1>7, <1>9 DEF Sizes
  <2>2. s[j].size = z => m <= j
    BY <1>9
  <2> QED
    BY <1>2, <2>1, <2>2
<1>11. m \in 1 .. n
  BY <1>9
<1>12. \E i \in DOMAIN s : \A j \in DOMAIN s :
         s[j].size < s[i].size \/ (s[j].size = s[i].size /\ i <= j)
  BY <1>1, <1>10, <1>11
<1> QED
  BY <1>1, <1>12 DEF Longest

(* The limit that trimming keeps: a text that fits, or as little as can be. *)
Spare(s, n) ==
  \/ Total(s) <= limit.total
  \/ /\ Len(s) <= Greater(1, n)
     /\ copy = "workflow" /\ n <= 1 => s[1].size <= limit.head + limit.tail

LEMMA ShrunkIs ==
  ASSUME LimitTypes, copy \in Copies, NEW s, NEW n \in Nat, Led(s, n),
         Total(s) <= limit.total \/ Len(s) <= Greater(1, n), NEW r, r = Shrunk(s)
  PROVE  Led(r, n) /\ Spare(r, n)
<1>1. s \in Seq(Messages) /\ Len(s) \in Nat /\ DOMAIN s = 1 .. Len(s)
      /\ \A j \in 1 .. Len(s) : s[j] \in Messages
  BY ElementOfSeq DEF Led
<1>2. Total(s) \in Nat /\ (s = <<>> => Total(s) = 0) /\ (Len(s) = 1 => Total(s) = s[1].size)
  BY <1>1, TotalIs
<1>3. limit.total \in Nat /\ limit.head \in Nat /\ limit.tail \in Nat
  BY DEF LimitTypes
<1>4. CASE Total(s) <= limit.total
  BY <1>4 DEF Shrunk, Spare
<1>5. CASE ~(Total(s) <= limit.total) /\ copy = "processor"
  <2>1. s # <<>> /\ Len(s) \in 1 .. Len(s)
    BY <1>1, <1>2, <1>3, <1>5
  <2>2. r = [s EXCEPT ![Len(s)] = Cut(@, limit.total)]
    BY <1>5, <2>1 DEF Shrunk
  <2>3. Resized(s, r)
    BY <1>1, <1>3, <2>1, <2>2, CutAt
  <2>4. Led(r, n) /\ Len(r) = Len(s)
    BY <2>3, ResizedLed DEF Resized
  <2> QED
    BY <1>5, <2>4 DEF Spare
<1>6. CASE ~(Total(s) <= limit.total) /\ copy = "workflow"
  <2> DEFINE i == Longest(s)
             room == Greater(limit.head + limit.tail, limit.total - (Total(s) - s[i].size))
  <2>1. s # <<>>
    BY <1>2, <1>3, <1>6
  <2>2. r = [s EXCEPT ![i] = Cut(@, room)]
    BY <1>6, <2>1 DEF Shrunk
  <2>3. i \in 1 .. Len(s)
    BY LongestIs, <1>1, <2>1
  <2>4. s[i].size \in Nat
    BY <1>1, <2>3 DEF Messages
  <2>5. room \in Nat
    <3> HIDE DEF i
    <3> DEFINE few == limit.head + limit.tail
               left == limit.total - (Total(s) - s[i].size)
    <3>1. few \in Nat /\ left \in Int
      <4> DEFINE t == Total(s)
                 z == s[i].size
      <4>1. t \in Nat /\ z \in Nat
        BY <1>2, <2>4
      <4> HIDE DEF t, z
      <4>2. limit.total - (t - z) \in Int
        BY ONLY <1>3, <4>1
      <4> QED
        BY <1>3, <4>2 DEF t, z
    <3> HIDE DEF few, left
    <3>2. Greater(few, left) \in Nat
      BY <3>1, GreaterIs
    <3> QED
      BY <3>2 DEF few, left
  <2>6. Resized(s, r) /\ r[i].size <= room
    <3> HIDE DEF i, room
    <3> QED
      BY <1>1, <1>6, <2>2, <2>3, <2>5, CutAt
  <2>7. Led(r, n) /\ Len(r) = Len(s) /\ r \in Seq(Messages)
    BY <2>6, ResizedLed DEF Resized
  <2>8. Len(r) <= Greater(1, n)
    BY <1>6, <2>7
  <2>9. ASSUME n <= 1
        PROVE  Total(r) <= limit.total \/ r[1].size <= limit.head + limit.tail
    <3>1. Len(s) = 1 /\ i = 1
      BY <1>1, <2>1, <2>3, <2>7, <2>8, <2>9 DEF Greater
    <3>2. Total(s) = s[1].size /\ Total(r) = r[1].size /\ r[1].size <= room
      BY <1>2, <2>6, <2>7, <3>1, TotalIs
    <3>3. s[1].size \in Nat /\ room = Greater(limit.head + limit.tail, limit.total)
      BY <1>2, <1>3, <2>4, <3>1, <3>2
    <3>4. r[1].size \in Nat
      <4>1. Len(r) = 1 /\ 1 \in 1 .. Len(r)
        BY <2>7, <3>1
      <4>2. r[1] \in Messages
        BY <2>7, <4>1, ElementOfSeq
      <4> QED
        BY <4>2 DEF Messages
    <3> HIDE DEF room
    <3> QED
      BY <1>3, <3>2, <3>3, <3>4 DEF Greater
  <2> QED
    BY <2>7, <2>8, <2>9 DEF Spare
<1> QED
  BY <1>4, <1>5, <1>6 DEF Copies

(* What is sent, for a prompt that opens with n instructions.              *)
Kept(s, n) ==
  Led(s, n) /\ (limit.enabled /\ limit.total > 0 => Spare(s, n))

LEMMA TrimmedIs ==
  ASSUME LimitTypes, copy \in Copies, NEW ms \in Seq(Messages), Numbered(ms), ms # <<>>,
         NEW n \in 0 .. Len(ms), Part(ms, 0, n, Instructions(ms))
  PROVE  Kept(Trimmed(ms), n)
<1> DEFINE f == Instructions(ms)
           c == Cleaned(ms)
<1>1. c \in Seq(Messages) /\ Rising(c, Start(n)) /\ (n < Len(ms) => c # <<>>)
  BY CleanedIs
<1>2. n = 0 /\ copy = "workflow" => c # <<>>
  BY <1>1
<1>3. limit.total \in Nat /\ n \in Nat
  BY DEF LimitTypes
<1>4. CASE limit.total = 0
  <2>1. Trimmed(ms) = f \o c
    BY <1>4 DEF Trimmed
  <2>2. Led(f \o c, n)
    <3> HIDE DEF f, c
    <3>1. Part(ms, 0, n, f)
      BY DEF f
    <3>2. LedAfter(f, c, n)
      BY <1>1, <1>2, <3>1, LedBy
    <3> QED
      BY <3>2 DEF LedAfter
  <2> QED
    BY <1>4, <2>1, <2>2 DEF Kept
<1>5. CASE limit.total # 0
  <2> DEFINE s == Fitting(f, c)
  <2>1. Trimmed(ms) = Shrunk(s)
    BY <1>5 DEF Trimmed
  <2>2. Led(s, n) /\ (Total(s) <= limit.total \/ Len(s) <= Greater(1, n))
    <3> HIDE DEF f, c
    <3>1. Part(ms, 0, n, f)
      BY DEF f
    <3> QED
      BY <1>1, <3>1, FittingIs
  <2>3. Led(Shrunk(s), n) /\ Spare(Shrunk(s), n)
    <3> HIDE DEF s
    <3> QED
      BY <1>3, <2>2, ShrunkIs
  <2> QED
    BY <2>1, <2>3 DEF Kept
<1> QED
  BY <1>4, <1>5

(* The caller's messages change in length only.                            *)
Alike(ms, r) ==
  /\ r \in Seq(Messages) /\ Len(r) = Len(ms)
  /\ \A i \in 1 .. Len(ms) : r[i].at = ms[i].at /\ r[i].role = ms[i].role

LEMMA RewrittenIs ==
  ASSUME LimitTypes, copy \in Copies, NEW ms \in Seq(Messages), Numbered(ms), ms # <<>>
  PROVE  Alike(ms, Rewritten(ms))
<1> DEFINE c == Cleaned(ms)
           t == Trimmed(ms)
           changed == c \o t
           Mine(i) == {k \in DOMAIN changed : changed[k].at = i /\ ~changed[k].plain}
           r == Rewritten(ms)
<1>1. PICK n \in 0 .. Len(ms) : Opens(ms, n) /\ Part(ms, 0, n, Instructions(ms))
  BY InstructionsAre
<1>2. c \in Seq(Messages)
  BY <1>1, CleanedIs
<1>3. t \in Seq(Messages)
  BY <1>1, TrimmedIs DEF Kept, Led
<1>4. changed \in Seq(Messages)
  BY ONLY <1>2, <1>3, ConcatProperties
<1>5. r = [i \in DOMAIN ms |->
             IF Mine(i) = {} THEN ms[i] ELSE [ms[i] EXCEPT !.size = changed[Max(Mine(i))].size]]
  BY DEF Rewritten
<1>6. Len(ms) \in Nat /\ DOMAIN ms = 1 .. Len(ms) /\ \A i \in 1 .. Len(ms) : ms[i] \in Messages
  BY ElementOfSeq
<1> HIDE DEF changed, r
<1>7. /\ Len(changed) \in Nat /\ DOMAIN changed = 1 .. Len(changed)
      /\ \A k \in 1 .. Len(changed) : changed[k] \in Messages
  BY <1>4, ElementOfSeq
<1>8. ASSUME NEW i \in 1 .. Len(ms)
      PROVE  r[i] \in Messages /\ r[i].at = ms[i].at /\ r[i].role = ms[i].role
  <2>1. CASE Mine(i) = {}
    BY <1>5, <1>6, <2>1
  <2>2. CASE Mine(i) # {}
    <3> DEFINE k == Max(Mine(i))
               x == changed[k].size
    <3>1. Mine(i) \subseteq 0 .. Len(changed)
      BY <1>7
    <3> HIDE DEF Mine
    <3>2. \E m \in Mine(i) : \A j \in Mine(i) : j <= m
      BY <1>7, <2>2, <3>1, GreatestExists
    <3>3. \E m \in Mine(i) : \A j \in Mine(i) : m >= j
      <4>1. PICK m \in Mine(i) : \A j \in Mine(i) : j <= m
        BY <3>2
      <4>2. \A j \in Mine(i) : j \in Int /\ m \in Int
        BY <3>1
      <4> QED
        BY <4>1, <4>2
    <3>4. k \in Mine(i)
      BY <3>3 DEF Max
    <3>5. x \in Nat
      <4>1. changed[k] \in Messages
        BY <1>7, <3>4 DEF Mine
      <4> QED
        BY <4>1 DEF Messages
    <3>6. r[i] = [ms[i] EXCEPT !.size = x] /\ ms[i] \in Messages
      BY <1>5, <1>6, <2>2
    <3> HIDE DEF x
    <3> QED
      BY <3>5, <3>6 DEF Messages
  <2> QED
    BY <2>1, <2>2
<1>9. r \in Seq(Messages) /\ Len(r) = Len(ms)
  <2>1. DOMAIN r = 1 .. Len(ms)
    BY <1>5, <1>6
  <2>2. r = [i \in 1 .. Len(ms) |-> r[i]]
    BY <1>5, <1>6, <2>1
  <2> QED
    BY <1>6, <1>8, <2>1, <2>2
<1>10. Alike(ms, r)
  BY <1>8, <1>9 DEF Alike
<1> QED
  BY <1>10 DEF r

LEMMA AlikeOpens ==
  ASSUME NEW ms \in Seq(Messages), Numbered(ms), ms # <<>>, NEW r, Alike(ms, r),
         NEW n, Opens(ms, n)
  PROVE  r \in Seq(Messages) /\ Numbered(r) /\ r # <<>> /\ Opens(r, n)
<1>1. Len(ms) \in Nat /\ Len(r) = Len(ms) /\ r \in Seq(Messages) /\ Len(ms) # 0
  BY DEF Alike
<1>2. Numbered(r)
  BY <1>1 DEF Alike, Numbered
<1>3. n \in 0 .. Len(ms) /\ (\A i \in 1 .. n : i \in 1 .. Len(ms))
      /\ (n < Len(ms) => n + 1 \in 1 .. Len(ms))
  BY <1>1 DEF Opens
<1>4. Opens(r, n)
  BY <1>1, <1>3 DEF Opens, Alike
<1> QED
  BY <1>1, <1>2, <1>4

-------------------------------------------------------------------------------
(* The prompt's messages and what has been sent of them.                   *)
PromptInv ==
  /\ copy \in Copies /\ limit \in Limits
  /\ prompt \in Seq(Messages) /\ prompt # <<>> /\ Numbered(prompt)
  /\ round > 0 => \E n \in 0 .. Len(prompt) : Opens(prompt, n) /\ Kept(sent, n)

LEMMA LimitIs == PromptInv => LimitTypes
BY CallsAssumption DEF PromptInv, LimitTypes

(* A round with the prompt trimmed.                                        *)
LEMMA TrimKeeps ==
  ASSUME PromptInv, UNCHANGED <<copy, limit>>, sent' = Trimmed(prompt), prompt' = Rewritten(prompt)
  PROVE  PromptInv'
<1>1. LimitTypes /\ copy \in Copies /\ prompt \in Seq(Messages) /\ prompt # <<>> /\ Numbered(prompt)
  BY LimitIs DEF PromptInv
<1>2. PICK n \in 0 .. Len(prompt) : Opens(prompt, n) /\ Part(prompt, 0, n, Instructions(prompt))
  BY <1>1, InstructionsAre
<1>3. Kept(sent', n)
  BY <1>1, <1>2, TrimmedIs
<1>4. Alike(prompt, prompt')
  BY <1>1, RewrittenIs
<1>5. prompt' \in Seq(Messages) /\ Numbered(prompt') /\ prompt' # <<>> /\ Opens(prompt', n)
  BY <1>1, <1>2, <1>4, AlikeOpens
<1>6. n \in 0 .. Len(prompt')
  BY <1>5 DEF Opens
<1>7. Kept(sent, n)' /\ Opens(prompt, n)' /\ Numbered(prompt)'
  BY <1>3, <1>5 DEF Kept, Led, Spare, Opens, Numbered
<1> QED
  BY <1>5, <1>6, <1>7 DEF PromptInv

LEMMA SameKeeps ==
  ASSUME PromptInv, UNCHANGED <<copy, limit, prompt>>,
         round' > 0 => \E n \in 0 .. Len(prompt) : Opens(prompt, n) /\ Kept(sent', n)
  PROVE  PromptInv'
<1>1. Numbered(prompt)'
  BY DEF PromptInv, Numbered
<1>2. ASSUME round' > 0
      PROVE  \E n \in 0 .. Len(prompt') : Opens(prompt, n)' /\ Kept(sent, n)'
  <2>1. PICK n \in 0 .. Len(prompt) : Opens(prompt, n) /\ Kept(sent', n)
    BY <1>2
  <2>2. Kept(sent, n)' /\ Opens(prompt, n)'
    BY <2>1 DEF Kept, Led, Spare, Opens
  <2> QED
    BY <2>1, <2>2
<1> QED
  BY <1>1, <1>2 DEF PromptInv

LEMMA PromptStarts == CallInit => PromptInv
<1> SUFFICES ASSUME CallInit
             PROVE  PromptInv
  OBVIOUS
<1> DEFINE Bare == [role : {"system", "user"}, size : Nat, ends : STRING, plain : BOOLEAN]
<1>1. PICK p \in Prompts : prompt = Placed(p)
  BY DEF CallInit
<1>2. p # <<>> /\ p \in Seq(Bare)
  BY CallsAssumption
<1>3. /\ Len(p) \in Nat /\ DOMAIN p = 1 .. Len(p) /\ Len(p) # 0
      /\ \A i \in 1 .. Len(p) : p[i] \in Bare
  <2> HIDE DEF Bare
  <2> QED
    BY <1>2, ElementOfSeq
<1>4. \A i \in 1 .. Len(p) : prompt[i] \in Messages /\ prompt[i].at = i
  BY <1>1, <1>3 DEF Placed, Messages
<1>5. DOMAIN prompt = 1 .. Len(p) /\ prompt = [i \in 1 .. Len(p) |-> prompt[i]]
  BY <1>1, <1>3 DEF Placed
<1>6. prompt \in Seq(Messages) /\ Len(prompt) = Len(p)
  BY <1>3, <1>4, <1>5
<1>7. Numbered(prompt) /\ prompt # <<>>
  BY <1>3, <1>4, <1>6 DEF Numbered
<1> QED
  BY <1>6, <1>7 DEF CallInit, PromptInv

LEMMA PromptGoesOn == PromptInv /\ [CallNext]_callVars => PromptInv'
<1> SUFFICES ASSUME PromptInv, [CallNext]_callVars
             PROVE  PromptInv'
  OBVIOUS
<1>1. CASE Call
  <2>1. CASE limit.enabled /\ limit.total > 0 /\ Total(prompt) > limit.total
    BY <1>1, <2>1, TrimKeeps DEF Call
  <2>2. CASE ~(limit.enabled /\ limit.total > 0 /\ Total(prompt) > limit.total)
    <3>1. sent' = prompt /\ UNCHANGED <<copy, limit, prompt>>
      BY <1>1, <2>2 DEF Call
    <3>2. LimitTypes /\ prompt \in Seq(Messages) /\ prompt # <<>> /\ Numbered(prompt)
      BY LimitIs DEF PromptInv
    <3>3. PICK n \in 0 .. Len(prompt) : Opens(prompt, n) /\ Part(prompt, 0, n, Instructions(prompt))
      BY <3>2, InstructionsAre
    <3>4. Total(prompt) \in Nat /\ limit.total \in Nat
      BY <3>2, TotalIs DEF LimitTypes
    <3>5. Led(prompt, n)
      <4>1. Len(prompt) \in Nat /\ \A i \in 1 .. n : i \in 1 .. Len(prompt)
        BY <3>2
      <4>2. \A i \in n + 1 .. Len(prompt) : i \in 1 .. Len(prompt) /\ n < i
        BY <4>1
      <4> QED
        BY <3>2, <4>1, <4>2 DEF Led, Numbered
    <3>6. Kept(prompt, n)
      BY <2>2, <3>4, <3>5 DEF Kept, Spare
    <3> QED
      BY <3>1, <3>3, <3>6, SameKeeps
  <2> QED
    BY <2>1, <2>2
<1>2. CASE TrimsAndRepeats
  BY <1>2, TrimKeeps DEF TrimsAndRepeats
<1>3. CASE UNCHANGED <<copy, limit, prompt, sent, round>>
  BY <1>3, SameKeeps DEF PromptInv
<1>4. CASE Answers \/ FailsForNow \/ Fails
  BY <1>3, <1>4 DEF Answers, FailsForNow, Fails
<1> QED
  BY <1>1, <1>2, <1>3, <1>4 DEF CallNext, callVars

(* Whatever is sent begins with the instructions of the prompt, in both    *)
(* rounds and whatever was dropped and shortened; the other messages keep  *)
(* their order, and what exceeds the limit cannot be reduced further       *)
(* (_trim_messages).                                                       *)
THEOREM InstructionsStay == CallSpec => []PromptKept
<1>1. PromptInv => PromptKept
  <2> SUFFICES ASSUME PromptInv, round > 0
               PROVE  PromptKept
    BY DEF PromptKept
  <2>1. LimitTypes /\ prompt \in Seq(Messages) /\ prompt # <<>> /\ Numbered(prompt)
    BY LimitIs DEF PromptInv
  <2>2. PICK n \in 0 .. Len(prompt) : Opens(prompt, n) /\ Kept(sent, n)
    BY DEF PromptInv
  <2>3. PICK m \in 0 .. Len(prompt) : Opens(prompt, m) /\ Part(prompt, 0, m, Instructions(prompt))
    BY <2>1, InstructionsAre
  <2>4. m = n
    BY <2>1, <2>2, <2>3 DEF Opens
  <2> DEFINE f == Instructions(prompt)
             first == Positions(f)
             all == Positions(sent)
             rest == SubSeq(all, Len(first) + 1, Len(sent))
  <2>5. Len(f) = n /\ f \in Seq(Messages) /\ n \in Nat /\ \A i \in 1 .. n : f[i] = prompt[i]
    BY <2>3, <2>4 DEF Part
  <2>6. /\ sent \in Seq(Messages) /\ Len(sent) \in Nat /\ n <= Len(sent)
        /\ \A i \in 1 .. Len(sent) : sent[i] \in Messages
    BY <2>2, ElementOfSeq DEF Kept, Led
  <2>7. first \in Seq(Nat) /\ Len(first) = n /\ \A i \in 1 .. n : first[i] = i
    <3>1. \A i \in 1 .. n : i \in 1 .. Len(prompt) /\ f[i].at = i
      BY <2>1, <2>5 DEF Numbered
    <3>2. DOMAIN f = 1 .. n
      BY <2>5
    <3> HIDE DEF f
    <3>3. first = [i \in 1 .. n |-> i]
      BY <3>1, <3>2 DEF Positions
    <3> QED
      BY <2>5, <3>3
  <2>8. all \in Seq(Nat) /\ Len(all) = Len(sent) /\ \A i \in 1 .. Len(sent) : all[i] = sent[i].at
    <3>1. \A i \in 1 .. Len(sent) : sent[i].at \in Nat
      BY <2>6 DEF Messages
    <3>2. all = [i \in 1 .. Len(sent) |-> sent[i].at]
      BY <2>6 DEF Positions
    <3> QED
      BY <2>6, <3>1, <3>2
  <2> HIDE DEF f, first, all
  <2>9. IsPrefix(first, all)
    <3> DEFINE a == SubSeq(first, 1, n)
               b == SubSeq(all, 1, n)
    <3>1. \A i \in 1 .. n : i \in 1 .. Len(sent) /\ first[i] \in Nat /\ all[i] \in Nat /\ first[i] = all[i]
      <4>1. \A i \in 1 .. n : i \in 1 .. Len(sent) /\ i \in Nat
        BY <2>5, <2>6
      <4>2. \A i \in 1 .. n : sent[i].at = i
        BY <2>2 DEF Kept, Led
      <4>3. \A i \in 1 .. n : first[i] = i /\ all[i] = sent[i].at
        BY <2>7, <2>8, <4>1
      <4> QED
        BY <4>1, <4>2, <4>3
    <3>2. /\ a \in Seq(Nat) /\ Len(a) = IF 1 <= n THEN n - 1 + 1 ELSE 0
          /\ \A i \in 1 .. n - 1 + 1 : a[i] = first[1 + i - 1]
      BY <2>5, <3>1, SubSeqProperties
    <3>3. /\ b \in Seq(Nat) /\ Len(b) = IF 1 <= n THEN n - 1 + 1 ELSE 0
          /\ \A i \in 1 .. n - 1 + 1 : b[i] = all[1 + i - 1]
      BY <2>5, <3>1, SubSeqProperties
    <3> HIDE DEF a, b
    <3>4. n - 1 + 1 = n /\ \A i \in 1 .. n : 1 + i - 1 = i
      BY <2>5
    <3>5. Len(a) = Len(b) /\ \A i \in 1 .. Len(a) : a[i] = b[i]
      BY <2>5, <3>1, <3>2, <3>3, <3>4
    <3>6. a = b
      BY <3>2, <3>3, <3>5, SeqEqual
    <3> QED
      BY <2>6, <2>7, <2>8, <3>6 DEF IsPrefix, a, b
  <2>10. Increasing(rest)
    <3>1. \A i \in n + 1 .. Len(sent) : all[i] \in Nat /\ i \in 1 .. Len(sent)
      BY <2>5, <2>6, <2>8, ElementOfSeq
    <3>2. /\ Len(rest) = IF n + 1 <= Len(sent) THEN Len(sent) - (n + 1) + 1 ELSE 0
          /\ \A i \in 1 .. Len(sent) - (n + 1) + 1 : rest[i] = all[(n + 1) + i - 1]
      <4>1. n + 1 \in Int /\ Len(sent) \in Int /\ rest = SubSeq(all, n + 1, Len(sent))
        BY <2>5, <2>6, <2>7
      <4> DEFINE a == n + 1
                 b == Len(sent)
      <4> HIDE DEF rest
      <4>2. \A i \in a .. b : all[i] \in Nat
        BY <3>1
      <4>3. a \in Int /\ b \in Int /\ rest = SubSeq(all, a, b)
        BY <4>1
      <4> HIDE DEF a, b
      <4>4. /\ Len(rest) = IF a <= b THEN b - a + 1 ELSE 0
            /\ \A i \in 1 .. b - a + 1 : rest[i] = all[a + i - 1]
        BY ONLY <4>2, <4>3, SubSeqProperties
      <4> QED
        BY <4>4 DEF a, b
    <3> HIDE DEF rest
    <3>3. Len(rest) = Len(sent) - n /\ \A i \in 1 .. Len(sent) - n : rest[i] = all[n + i]
      <4>1. Len(sent) - (n + 1) + 1 = Len(sent) - n /\ \A i \in 1 .. Len(sent) - n : (n + 1) + i - 1 = n + i
        BY <2>5, <2>6
      <4>2. Len(rest) = Len(sent) - n
        BY <2>5, <2>6, <3>2
      <4>3. \A i \in 1 .. Len(sent) - n : rest[i] = all[n + i]
        BY <3>2, <4>1
      <4> QED
        BY <4>2, <4>3
    <3> SUFFICES ASSUME NEW i \in 1 .. Len(rest) - 1
                 PROVE  rest[i] < rest[i + 1]
      BY DEF Increasing
    <3>4. /\ i \in 1 .. Len(sent) - n /\ i + 1 \in 1 .. Len(sent) - n
          /\ n + i \in n + 1 .. Len(sent) /\ n + (i + 1) \in n + 1 .. Len(sent)
          /\ n + i < n + (i + 1)
      BY <2>5, <2>6, <3>3
    <3>5. sent[n + i].at < sent[n + (i + 1)].at
      BY <2>2, <3>4 DEF Kept, Led
    <3> QED
      BY <2>8, <3>1, <3>3, <3>4, <3>5
  <2>11. ASSUME copy = "workflow"
         PROVE  sent # <<>> /\ Increasing(all)
    <3>1. sent # <<>> /\ \A i \in n + 1 .. Len(sent) : n < sent[i].at
      BY <2>2, <2>11 DEF Kept, Led
    <3> SUFFICES ASSUME NEW i \in 1 .. Len(all) - 1
                 PROVE  all[i] < all[i + 1]
      BY <3>1 DEF Increasing
    <3>2. i \in 1 .. Len(sent) /\ i + 1 \in 1 .. Len(sent) /\ i < i + 1 /\ i \in Nat
      BY <2>6, <2>8
    <3>3. all[i] = sent[i].at /\ all[i + 1] = sent[i + 1].at
      BY <2>8, <3>2
    <3>4. CASE i + 1 <= n
      <4>1. i \in 1 .. n /\ i + 1 \in 1 .. n
        BY <2>5, <3>2, <3>4
      <4> QED
        BY <2>2, <3>2, <3>3, <4>1 DEF Kept, Led
    <3>5. CASE i = n
      <4>1. i \in 1 .. n /\ i + 1 \in n + 1 .. Len(sent)
        BY <2>5, <2>6, <3>2, <3>5
      <4>2. sent[i].at = i /\ n < sent[i + 1].at
        BY <2>2, <3>1, <4>1 DEF Kept, Led
      <4> QED
        BY <3>3, <3>5, <4>2
    <3>6. CASE n < i
      <4>1. i \in n + 1 .. Len(sent) /\ i + 1 \in n + 1 .. Len(sent)
        BY <2>5, <2>6, <3>2, <3>6
      <4> QED
        BY <2>2, <3>2, <3>3, <4>1 DEF Kept, Led
    <3>7. i + 1 <= n \/ i = n \/ n < i
      BY <2>5, <3>2
    <3> QED
      BY <3>4, <3>5, <3>6, <3>7
  <2>12. ASSUME limit.enabled, limit.total > 0, Total(sent) > limit.total
         PROVE  /\ Len(sent) <= Greater(1, n)
                /\ copy = "workflow" =>
                     sent[Longest(sent)].size <= limit.head + limit.tail \/ n > 1
    <3>1. Total(sent) \in Nat /\ limit.total \in Nat
      BY <2>1, <2>6, TotalIs DEF LimitTypes
    <3>2. /\ Len(sent) <= Greater(1, n)
          /\ copy = "workflow" /\ n <= 1 => sent[1].size <= limit.head + limit.tail
      BY <2>2, <2>12, <3>1 DEF Kept, Spare
    <3>3. ASSUME copy = "workflow", n <= 1
          PROVE  Longest(sent) = 1
      <4>1. sent # <<>>
        BY <2>11, <3>3
      <4>2. Longest(sent) \in 1 .. Len(sent) /\ Len(sent) <= 1
        BY <2>5, <2>6, <3>2, <3>3, <4>1, LongestIs DEF Greater
      <4> QED
        BY <2>6, <4>2
    <3>4. n <= 1 \/ n > 1
      BY <2>5
    <3> QED
      BY <3>2, <3>3, <3>4
  <2>13. /\ IsPrefix(first, all) /\ Increasing(rest)
         /\ copy = "workflow" => sent # <<>> /\ Increasing(all)
         /\ limit.enabled /\ limit.total > 0 /\ Total(sent) > limit.total =>
              /\ Len(sent) <= Greater(1, Len(first))
              /\ copy = "workflow" =>
                   sent[Longest(sent)].size <= limit.head + limit.tail \/ Len(first) > 1
    BY <2>7, <2>9, <2>10, <2>11, <2>12
  <2> QED
    BY <2>13 DEF PromptKept, first, all, f
<1> QED
  BY <1>1, PromptStarts, PromptGoesOn, PTL DEF CallSpec

-------------------------------------------------------------------------------
(***************************************************************************)
(* ServiceContainer.  One object belongs to one scope, also after the end  *)
(* of the scope, and what will be disposed of is in one place: with the    *)
(* coroutine that closes its scope, in an open scope, or at the shutdown.  *)
(***************************************************************************)
Scope == 1 .. MaxScopes

Sizes == {Cardinality(D) : D \in SUBSET Services} \cup {0}

CallerState ==
  [at : {"free", "enter", "close"}, scope : Scope \cup {NoScope},
   outer : Scope \cup {NoScope}, old : Scope \cup {NoScope}, service : Services \cup {""},
   new : Nat, handle : BOOLEAN, left : Seq(Nat), size : Sizes]

StopState == [at : {"no", "closing", "failed", "done"}, left : Seq(Nat), size : Sizes]

ContainerTypes ==
  /\ made \in Nat /\ disposed \in Seq(Nat) /\ DOMAIN singles \subseteq Services
  /\ caller \in [Callers -> CallerState] /\ stopping \in StopState

(* Scopes: nobody refers to one that was never opened, and an open one has *)
(* one owner.                                                              *)
Opened == DOMAIN got \cup {NoScope}

ScopesInv ==
  /\ DOMAIN got \subseteq Scope /\ DOMAIN scoped \subseteq Opened
  /\ current \in Opened
  /\ \A c \in Callers : {caller[c].scope, caller[c].outer, caller[c].old} \subseteq Opened
  /\ \A c, d \in Callers : caller[c].scope = caller[d].scope /\ caller[c].scope # NoScope => c = d

(* The instances sc of scopes and what their handles returned, g, when m   *)
(* objects were made.                                                      *)
In(sc, x) == IF x \in DOMAIN sc THEN sc[x] ELSE Empty

Instances(sc, g, m) ==
  /\ \A x \in DOMAIN sc : \A s \in DOMAIN sc[x] : s \in Services /\ sc[x][s] \in 1 .. m
  /\ \A x \in DOMAIN g : \A s \in DOMAIN g[x] : s \in Scoped /\ g[x][s] \in 1 .. m
  /\ \A x, y \in DOMAIN sc : \A s \in DOMAIN sc[x] \cap DOMAIN sc[y] \cap Scoped :
       sc[x][s] = sc[y][s] => x = y
  /\ \A x \in DOMAIN g, y \in DOMAIN sc : \A s \in DOMAIN g[x] \cap DOMAIN sc[y] :
       g[x][s] = sc[y][s] => x = y
  /\ \A x, y \in DOMAIN g : \A s \in DOMAIN g[x] \cap DOMAIN g[y] : g[x][s] = g[y][s] => x = y

(* The scope still has what its handle returned.                           *)
Shows(sc, g, x) == \A s \in DOMAIN g[x] : s \in DOMAIN In(sc, x) /\ In(sc, x)[s] = g[x][s]

IsolatedInv ==
  /\ Instances(scoped, got, made)
  /\ stopping.at # "done" =>
       \A c \in Callers : caller[c].scope # NoScope => Shows(scoped, got, caller[c].scope)

(* What will be disposed of, by the end of a scope and by shutdown_async.  *)
Objects(f) == {f[s] : s \in {x \in DOMAIN f : IsAsync(x)}}

Due(c) ==
  IF caller[c].at = "close" THEN ToSet(caller[c].left)
  ELSE IF caller[c].scope = NoScope THEN {} ELSE Objects(In(scoped, caller[c].scope))

DueAtStop ==
  IF stopping.at = "no" THEN Objects(singles)
  ELSE IF stopping.at = "closing" THEN ToSet(stopping.left) ELSE {}

DuesInv ==
  /\ \A c \in Callers : Due(c) \subseteq entered \ ToSet(disposed)
  /\ DueAtStop \subseteq entered \ ToSet(disposed)
  /\ \A c, d \in Callers : c # d => Due(c) \cap Due(d) = {}
  /\ \A c \in Callers : Due(c) \cap DueAtStop = {}

(* A loop over what is left goes on with objects it has not had.           *)
Remaining(left) == left # <<>> /\ IsInjective(left)

LoopsInv ==
  /\ \A c \in Callers : caller[c].at = "close" => Remaining(caller[c].left)
  /\ stopping.at = "closing" => Remaining(stopping.left)

EnteredInv ==
  /\ entered \subseteq 1 .. made
  /\ \A c \in Callers : caller[c].at = "enter" =>
       caller[c].new \in (1 .. made) \ entered /\ IsAsync(caller[c].service)
  /\ \A c, d \in Callers : caller[c].at = "enter" /\ caller[d].at = "enter" /\ c # d =>
       caller[c].new # caller[d].new
  /\ Objects(singles) \subseteq entered
  /\ \A x : Objects(In(scoped, x)) \subseteq entered
  /\ IsInjective(disposed) /\ ToSet(disposed) \subseteq entered

ContainerInv ==
  ContainerTypes /\ ScopesInv /\ IsolatedInv /\ DuesInv /\ LoopsInv /\ EnteredInv

(* Dictionaries.                                                           *)
LEMMA WithIs ==
  ASSUME NEW f, NEW s, NEW i
  PROVE  /\ DOMAIN With(f, s, i) = DOMAIN f \cup {s} /\ With(f, s, i)[s] = i
         /\ \A x \in DOMAIN f \ {s} : With(f, s, i)[x] = f[x]
BY DEF With

(* The dictionaries after Store, in terms of those before.                 *)
Stored(sc, x, s, i) == With(sc, x, With(In(sc, x), s, i))

IsStored(t, sc, x, s, i) ==
  /\ DOMAIN t = DOMAIN sc \cup {x} /\ DOMAIN t[x] = DOMAIN In(sc, x) \cup {s}
  /\ t[x][s] = i /\ \A r \in DOMAIN In(sc, x) \ {s} : t[x][r] = In(sc, x)[r]
  /\ \A y \in DOMAIN sc \ {x} : t[y] = sc[y]
  /\ \A y : In(t, y) = IF y = x THEN t[x] ELSE In(sc, y)

LEMMA StoredIs ==
  ASSUME NEW sc, NEW x, NEW s, NEW i
  PROVE  IsStored(Stored(sc, x, s, i), sc, x, s, i)
<1> DEFINE inner == With(In(sc, x), s, i)
           all == Stored(sc, x, s, i)
<1>1. /\ DOMAIN inner = DOMAIN In(sc, x) \cup {s} /\ inner[s] = i
      /\ \A t \in DOMAIN In(sc, x) \ {s} : inner[t] = In(sc, x)[t]
  BY DEF With
<1>2. all = With(sc, x, inner)
  BY DEF Stored
<1> HIDE DEF inner, all
<1>3. /\ DOMAIN all = DOMAIN sc \cup {x} /\ all[x] = inner
      /\ \A y \in DOMAIN sc \ {x} : all[y] = sc[y]
  BY <1>2 DEF With
<1>4. \A y : In(all, y) = IF y = x THEN all[x] ELSE In(sc, y)
  BY <1>3 DEF In
<1>5. IsStored(all, sc, x, s, i)
  BY <1>1, <1>3, <1>4 DEF IsStored
<1> QED
  BY <1>5 DEF all

LEMMA NoneIs == DOMAIN Empty = {}
BY DEF Empty

(* A service has one lifetime.                                             *)
LEMMA OneLifetime ==
  /\ \A s \in Scoped : ~IsAsync(s) /\ s \notin Singletons /\ s \in Services
  /\ \A s \in Singletons : ~IsAsync(s)
  /\ \A s : IsAsync(s) => s \in Services
BY DEF Scoped, Singletons, AsyncSingletons, AsyncScoped, Registered, IsAsync

-------------------------------------------------------------------------------
(* Instances: more objects, a new instance of a scoped service, any        *)
(* instance of another one, fewer scopes, a new scope, a note of what the  *)
(* handle returned.                                                        *)
LEMMA InstancesMore ==
  ASSUME NEW sc, NEW g, NEW m \in Nat, NEW n \in Nat, m <= n, Instances(sc, g, m)
  PROVE  Instances(sc, g, n)
BY DEF Instances

LEMMA InstancesCreated ==
  ASSUME NEW sc, NEW g, NEW m \in Nat, Instances(sc, g, m),
         NEW x, NEW s \in Scoped, s \notin DOMAIN In(sc, x)
  PROVE  Instances(Stored(sc, x, s, m + 1), g, m + 1)
<1> DEFINE t == Stored(sc, x, s, m + 1)
<1>0. t = Stored(sc, x, s, m + 1) /\ IsStored(t, sc, x, s, m + 1)
  BY StoredIs
<1> HIDE DEF t
<1>1. /\ DOMAIN t = DOMAIN sc \cup {x} /\ DOMAIN t[x] = DOMAIN In(sc, x) \cup {s}
      /\ t[x][s] = m + 1 /\ \A r \in DOMAIN In(sc, x) \ {s} : t[x][r] = In(sc, x)[r]
      /\ \A y \in DOMAIN sc \ {x} : t[y] = sc[y]
  BY <1>0 DEF IsStored
<1>2. /\ \A y \in DOMAIN In(sc, x) : x \in DOMAIN sc /\ In(sc, x) = sc[x]
      /\ s \in Services
  BY NoneIs, OneLifetime DEF In
<1>3. \A y \in DOMAIN t : \A r \in DOMAIN t[y] :
        \/ y = x /\ r = s /\ t[y][r] = m + 1
        \/ y \in DOMAIN sc /\ r \in DOMAIN sc[y] /\ t[y][r] = sc[y][r]
  BY <1>1, <1>2
<1>4. \A y \in DOMAIN t : \A r \in DOMAIN t[y] : r \in Services /\ t[y][r] \in 1 .. m + 1
  BY <1>2, <1>3 DEF Instances
<1>5. \A y \in DOMAIN g : \A r \in DOMAIN g[y] : r \in Scoped /\ g[y][r] \in 1 .. m + 1
  BY DEF Instances
<1>6. \A y, z \in DOMAIN t : \A r \in DOMAIN t[y] \cap DOMAIN t[z] \cap Scoped :
        t[y][r] = t[z][r] => y = z
  BY <1>3 DEF Instances
<1>7. \A y \in DOMAIN g, z \in DOMAIN t : \A r \in DOMAIN g[y] \cap DOMAIN t[z] :
        g[y][r] = t[z][r] => y = z
  BY <1>3 DEF Instances
<1>8. \A y, z \in DOMAIN g : \A r \in DOMAIN g[y] \cap DOMAIN g[z] : g[y][r] = g[z][r] => y = z
  BY DEF Instances
<1>9. Instances(t, g, m + 1)
  BY <1>4, <1>5, <1>6, <1>7, <1>8 DEF Instances
<1> QED
  BY <1>0, <1>9

LEMMA InstancesKept ==
  ASSUME NEW sc, NEW g, NEW m \in Nat, Instances(sc, g, m),
         NEW x, NEW s \in Services \ Scoped, NEW i \in 1 .. m
  PROVE  Instances(Stored(sc, x, s, i), g, m)
<1> DEFINE t == Stored(sc, x, s, i)
<1>0. t = Stored(sc, x, s, i) /\ IsStored(t, sc, x, s, i)
  BY StoredIs
<1> HIDE DEF t
<1>1. /\ DOMAIN t = DOMAIN sc \cup {x} /\ DOMAIN t[x] = DOMAIN In(sc, x) \cup {s}
      /\ t[x][s] = i /\ \A r \in DOMAIN In(sc, x) \ {s} : t[x][r] = In(sc, x)[r]
      /\ \A y \in DOMAIN sc \ {x} : t[y] = sc[y]
  BY <1>0 DEF IsStored
<1>2. \A y \in DOMAIN In(sc, x) : x \in DOMAIN sc /\ In(sc, x) = sc[x]
  BY NoneIs DEF In
<1>3. \A y \in DOMAIN t : \A r \in DOMAIN t[y] :
        \/ y = x /\ r = s /\ t[y][r] = i
        \/ y \in DOMAIN sc /\ r \in DOMAIN sc[y] /\ t[y][r] = sc[y][r]
  BY <1>1, <1>2
<1>4. \A y \in DOMAIN t : \A r \in DOMAIN t[y] : r \in Services /\ t[y][r] \in 1 .. m
  BY <1>3 DEF Instances
<1>5. \A y \in DOMAIN t : \A r \in DOMAIN t[y] \cap Scoped :
        y \in DOMAIN sc /\ r \in DOMAIN sc[y] /\ t[y][r] = sc[y][r]
  BY <1>3
<1>6. \A y \in DOMAIN g : \A r \in DOMAIN g[y] : r \in Scoped
  BY DEF Instances
<1>7. Instances(t, g, m)
  BY <1>4, <1>5, <1>6 DEF Instances
<1> QED
  BY <1>0, <1>7

LEMMA InstancesFewer ==
  ASSUME NEW sc, NEW g, NEW m \in Nat, Instances(sc, g, m), NEW D, D \subseteq DOMAIN sc
  PROVE  Instances([y \in D |-> sc[y]], g, m)
BY DEF Instances

LEMMA InstancesOpened ==
  ASSUME NEW sc, NEW g, NEW m \in Nat, Instances(sc, g, m), NEW x, x \notin DOMAIN g
  PROVE  Instances(sc, With(g, x, Empty), m)
<1> DEFINE h == With(g, x, Empty)
<1>1. DOMAIN h = DOMAIN g \cup {x} /\ DOMAIN h[x] = {} /\ \A y \in DOMAIN g : h[y] = g[y]
  BY NoneIs DEF With
<1> HIDE DEF h
<1>2. Instances(sc, h, m)
  BY <1>1 DEF Instances
<1> QED
  BY <1>2 DEF h

Remembered(g, x, s, i) ==
  [g EXCEPT ![x] = IF s \in DOMAIN @ \/ s \notin Scoped THEN @ ELSE With(@, s, i)]

LEMMA NotedIs ==
  ASSUME NEW g, NEW x \in DOMAIN g, NEW s, NEW i, NEW h, h = Remembered(g, x, s, i)
  PROVE  /\ DOMAIN h = DOMAIN g /\ \A y \in DOMAIN g \ {x} : h[y] = g[y]
         /\ s \in DOMAIN g[x] \/ s \notin Scoped => h[x] = g[x]
         /\ s \notin DOMAIN g[x] /\ s \in Scoped => h[x] = With(g[x], s, i)
<1>1. h = [y \in DOMAIN g |-> IF y = x THEN IF s \in DOMAIN g[x] \/ s \notin Scoped THEN g[x]
                                            ELSE With(g[x], s, i)
                              ELSE g[y]]
  BY DEF Remembered
<1> QED
  BY <1>1

LEMMA InstancesNoted ==
  ASSUME NEW sc, NEW g, NEW m \in Nat, Instances(sc, g, m),
         NEW x \in DOMAIN g, NEW s, s \in Scoped => x \in DOMAIN sc /\ s \in DOMAIN sc[x],
         NEW i, s \in Scoped => i = sc[x][s]
  PROVE  Instances(sc, Remembered(g, x, s, i), m)
<1> DEFINE h == Remembered(g, x, s, i)
<1>0. h = Remembered(g, x, s, i)
  OBVIOUS
<1> HIDE DEF h
<1>1. DOMAIN h = DOMAIN g /\ \A y \in DOMAIN g \ {x} : h[y] = g[y]
  BY <1>0, NotedIs
<1>2. CASE s \in DOMAIN g[x] \/ s \notin Scoped
  <2>1. \A y \in DOMAIN g : h[y] = g[y]
    BY <1>0, <1>1, <1>2, NotedIs
  <2>2. Instances(sc, h, m)
    BY <1>1, <2>1 DEF Instances
  <2> QED
    BY <1>0, <2>2
<1>3. CASE s \notin DOMAIN g[x] /\ s \in Scoped
  <2>1. h[x] = With(g[x], s, i) /\ i = sc[x][s] /\ s \in DOMAIN sc[x] /\ x \in DOMAIN sc
    BY <1>0, <1>3, NotedIs
  <2>2. /\ DOMAIN h[x] = DOMAIN g[x] \cup {s} /\ h[x][s] = sc[x][s]
        /\ \A t \in DOMAIN g[x] \ {s} : h[x][t] = g[x][t]
    BY <2>1 DEF With
  <2>3. \A y \in DOMAIN h : \A t \in DOMAIN h[y] :
          \/ y = x /\ t = s /\ h[y][t] = sc[x][s]
          \/ t \in DOMAIN g[y] /\ h[y][t] = g[y][t]
    BY <1>1, <2>2
  <2>4. \A y \in DOMAIN h : \A t \in DOMAIN h[y] : t \in Scoped /\ h[y][t] \in 1 .. m
    BY <1>1, <1>3, <2>1, <2>3 DEF Instances
  <2>5. \A y \in DOMAIN h, z \in DOMAIN sc : \A t \in DOMAIN h[y] \cap DOMAIN sc[z] :
          h[y][t] = sc[z][t] => y = z
    BY <1>1, <1>3, <2>1, <2>3 DEF Instances
  <2>6. \A y, z \in DOMAIN h : \A t \in DOMAIN h[y] \cap DOMAIN h[z] : h[y][t] = h[z][t] => y = z
    BY <1>1, <2>1, <2>3 DEF Instances
  <2>7. Instances(sc, h, m)
    BY <2>4, <2>5, <2>6 DEF Instances
  <2> QED
    BY <1>0, <2>7
<1> QED
  BY <1>2, <1>3

(* What a handle returned stays there, whatever else is stored.            *)
LEMMA ShowsStored ==
  ASSUME NEW sc, NEW g, NEW x, NEW s, NEW i, s \notin Scoped \/ s \notin DOMAIN In(sc, x),
         NEW y, Shows(sc, g, y), \A r \in DOMAIN g[y] : r \in Scoped
  PROVE  Shows(Stored(sc, x, s, i), g, y)
<1> DEFINE t == Stored(sc, x, s, i)
<1>0. t = Stored(sc, x, s, i) /\ IsStored(t, sc, x, s, i)
  BY StoredIs
<1> HIDE DEF t
<1>1. SUFFICES ASSUME NEW r \in DOMAIN g[y]
               PROVE  r \in DOMAIN In(t, y) /\ In(t, y)[r] = g[y][r]
  BY <1>0 DEF Shows
<1>2. r \in DOMAIN In(sc, y) /\ In(sc, y)[r] = g[y][r] /\ r \in Scoped
  BY <1>1 DEF Shows
<1> QED
  BY <1>0, <1>2 DEF IsStored

LEMMA ShowsNoted ==
  ASSUME NEW sc, NEW g, NEW x \in DOMAIN g, NEW s, NEW i,
         s \in Scoped => s \in DOMAIN In(sc, x) /\ i = In(sc, x)[s],
         NEW y \in DOMAIN g, Shows(sc, g, y)
  PROVE  Shows(sc, Remembered(g, x, s, i), y)
<1> DEFINE h == Remembered(g, x, s, i)
<1>0. h = Remembered(g, x, s, i)
  OBVIOUS
<1> HIDE DEF h
<1>1. CASE h[y] = g[y]
  BY <1>0, <1>1 DEF Shows
<1>2. CASE y = x /\ s \in Scoped /\ h[x] = With(g[x], s, i)
  <2>1. /\ DOMAIN h[x] = DOMAIN g[x] \cup {s} /\ h[x][s] = i
        /\ \A t \in DOMAIN g[x] \ {s} : h[x][t] = g[x][t]
    BY <1>2 DEF With
  <2>2. Shows(sc, h, x)
    BY <1>2, <2>1 DEF Shows
  <2> QED
    BY <1>0, <1>2, <2>2
<1> QED
  BY <1>0, <1>1, <1>2, NotedIs

(* What storing an instance does to the async objects of the scopes.       *)
LEMMA ObjectsStored ==
  ASSUME NEW sc, NEW x, NEW s, NEW i, NEW y
  PROVE  /\ Objects(In(Stored(sc, x, s, i), y)) \subseteq Objects(In(sc, y)) \cup {i}
         /\ y # x \/ ~IsAsync(s) =>
              Objects(In(Stored(sc, x, s, i), y)) \subseteq Objects(In(sc, y))
<1> DEFINE t == Stored(sc, x, s, i)
<1>0. t = Stored(sc, x, s, i) /\ IsStored(t, sc, x, s, i)
  BY StoredIs
<1> HIDE DEF t
<1>1. CASE y # x
  <2>1. In(t, y) = In(sc, y)
    BY <1>0, <1>1 DEF IsStored
  <2> QED
    BY <1>0, <2>1
<1>2. CASE y = x
  <2>1. /\ DOMAIN In(t, y) = DOMAIN In(sc, y) \cup {s} /\ In(t, y)[s] = i
        /\ \A r \in DOMAIN In(sc, y) \ {s} : In(t, y)[r] = In(sc, y)[r]
    BY <1>0, <1>2 DEF IsStored
  <2>2. Objects(In(t, y)) \subseteq Objects(In(sc, y)) \cup {i}
    BY <2>1 DEF Objects
  <2>3. ~IsAsync(s) => Objects(In(t, y)) \subseteq Objects(In(sc, y))
    BY <2>1 DEF Objects
  <2> QED
    BY <1>0, <1>2, <2>2, <2>3
<1> QED
  BY <1>1, <1>2

LEMMA ObjectsWith ==
  ASSUME NEW f, NEW s, NEW i
  PROVE  /\ Objects(With(f, s, i)) \subseteq Objects(f) \cup {i}
         /\ ~IsAsync(s) => Objects(With(f, s, i)) \subseteq Objects(f)
<1>1. /\ DOMAIN With(f, s, i) = DOMAIN f \cup {s} /\ With(f, s, i)[s] = i
      /\ \A x \in DOMAIN f \ {s} : With(f, s, i)[x] = f[x]
  BY DEF With
<1> QED
  BY <1>1 DEF Objects

LEMMA NoObjects == Objects(Empty) = {} /\ \A sc, x : x \notin DOMAIN sc => Objects(In(sc, x)) = {}
BY NoneIs DEF Objects, In

-------------------------------------------------------------------------------
(* Get: from the handle of a scope or of whatever scope is current.        *)
LEMMA Resolved ==
  ASSUME ContainerTypes, NEW s \in Services, NEW x, NEW i, Resolve(s, x, i)
  PROVE  /\ made' \in Nat /\ made <= made' /\ Objects(singles') \subseteq Objects(singles)
         /\ DOMAIN singles' \subseteq Services
         /\ \/ s \notin Scoped /\ scoped' = scoped
            \/ /\ s \in Scoped /\ s \in DOMAIN In(scoped, x) /\ i = In(scoped, x)[s]
               /\ scoped' = scoped
            \/ /\ s \in Scoped /\ s \notin DOMAIN In(scoped, x) /\ made' = made + 1 /\ i = made'
               /\ scoped' = Stored(scoped, x, s, made + 1)
<1>0. made \in Nat /\ DOMAIN singles \subseteq Services /\ InScope(x) = In(scoped, x)
  BY DEF ContainerTypes, InScope, In
<1>1. CASE s \in Singletons
  <2>1. ResolveSingleton(s, i) /\ s \notin Scoped /\ ~IsAsync(s)
    BY <1>1, OneLifetime DEF Resolve
  <2>2. /\ scoped' = scoped /\ made' \in {made, made + 1}
        /\ singles' = singles \/ singles' = With(singles, s, made')
    BY <2>1 DEF ResolveSingleton, Create
  <2>3. /\ Objects(With(singles, s, made')) \subseteq Objects(singles)
        /\ DOMAIN With(singles, s, made') = DOMAIN singles \cup {s}
    BY <2>1, ObjectsWith, WithIs
  <2> QED
    BY <1>0, <2>1, <2>2, <2>3
<1>2. CASE s \in Scoped
  <2>1. ResolveScoped(s, x, i)
    BY <1>2, OneLifetime DEF Resolve
  <2>2. CASE s \in DOMAIN InScope(x)
    BY <1>0, <1>2, <2>1, <2>2 DEF ResolveScoped
  <2>3. CASE s \notin DOMAIN InScope(x)
    <3>1. singles' = singles /\ made' = made + 1 /\ i = made' /\ scoped' = Store(x, s, made')
      BY <2>1, <2>3 DEF ResolveScoped, Create
    <3>2. Store(x, s, made') = Stored(scoped, x, s, made')
      BY <1>0 DEF Store, Stored
    <3> QED
      BY <1>0, <1>2, <2>3, <3>1, <3>2
  <2> QED
    BY <2>2, <2>3
<1>3. CASE s \notin Singletons /\ s \notin Scoped
  BY <1>0, <1>3 DEF Resolve, Create
<1> QED
  BY <1>1, <1>2, <1>3

LEMMA IsolatedGot ==
  ASSUME ContainerTypes, ScopesInv, IsolatedInv, NEW s \in Services, NEW x, NEW i, Resolve(s, x, i),
         got' = got \/ (x \in DOMAIN got /\ got' = Remembered(got, x, s, i)),
         UNCHANGED <<caller, stopping>>
  PROVE  IsolatedInv'
<1>0. /\ made \in Nat /\ made' \in Nat /\ made <= made'
      /\ Instances(scoped, got, made)
      /\ \A y \in DOMAIN got : \A r \in DOMAIN got[y] : r \in Scoped
  BY Resolved DEF ContainerTypes, IsolatedInv, Instances
<1>1. /\ Instances(scoped', got, made')
      /\ \A y \in DOMAIN got : Shows(scoped, got, y) => Shows(scoped', got, y)
      /\ s \in Scoped => s \in DOMAIN In(scoped', x) /\ i = In(scoped', x)[s]
  <2>1. CASE scoped' = scoped /\ (s \in Scoped => s \in DOMAIN In(scoped, x) /\ i = In(scoped, x)[s])
    BY <1>0, <2>1, InstancesMore
  <2>2. CASE /\ s \in Scoped /\ s \notin DOMAIN In(scoped, x) /\ made' = made + 1 /\ i = made'
             /\ scoped' = Stored(scoped, x, s, made + 1)
    <3>1. Instances(scoped', got, made')
      BY <1>0, <2>2, InstancesCreated
    <3>2. \A y \in DOMAIN got : Shows(scoped, got, y) => Shows(scoped', got, y)
      BY <1>0, <2>2, ShowsStored
    <3>3. IsStored(scoped', scoped, x, s, i)
      BY <2>2, StoredIs
    <3> QED
      BY <3>1, <3>2, <3>3 DEF IsStored
  <2> QED
    BY <2>1, <2>2, Resolved
<1>2. /\ Instances(scoped', got', made') /\ DOMAIN got' = DOMAIN got
      /\ \A y \in DOMAIN got : Shows(scoped', got, y) => Shows(scoped', got', y)
  <2>1. CASE got' = got
    BY <1>1, <2>1
  <2>2. CASE x \in DOMAIN got /\ got' = Remembered(got, x, s, i)
    <3>1. s \in Scoped => x \in DOMAIN scoped' /\ s \in DOMAIN scoped'[x] /\ i = scoped'[x][s]
      BY <1>1, NoneIs DEF In
    <3>2. Instances(scoped', Remembered(got, x, s, i), made')
      BY <1>0, <1>1, <2>2, <3>1, InstancesNoted
    <3>3. \A y \in DOMAIN got : Shows(scoped', got, y) => Shows(scoped', Remembered(got, x, s, i), y)
      BY <1>1, <2>2, ShowsNoted
    <3>4. DOMAIN got' = DOMAIN got
      BY <2>2, NotedIs
    <3> QED
      BY <2>2, <3>2, <3>3, <3>4
  <2> QED
    BY <2>1, <2>2
<1>3. \A c \in Callers : caller[c].scope # NoScope => caller[c].scope \in DOMAIN got
  BY DEF ScopesInv, Opened
<1>4. ASSUME stopping'.at # "done", NEW c \in Callers, NEW y, y = caller[c].scope, y # NoScope
      PROVE  Shows(scoped', got', y)
  <2>1. Shows(scoped, got, y) /\ y \in DOMAIN got
    BY <1>3, <1>4 DEF IsolatedInv
  <2> QED
    BY <1>1, <1>2, <2>1
<1>5. stopping'.at # "done" =>
        \A c \in Callers : caller'[c].scope # NoScope => Shows(scoped', got', caller'[c].scope)
  BY <1>4
<1> QED
  BY <1>2, <1>5 DEF IsolatedInv

(* When nothing more is to be disposed of, and what is disposed of is due. *)
LEMMA DuesFewer ==
  ASSUME DuesInv, entered \subseteq entered', NEW D,
         ToSet(disposed') = ToSet(disposed) \cup D,
         \A c \in Callers : Due(c)' \subseteq Due(c) \ D, DueAtStop' \subseteq DueAtStop \ D
  PROVE  DuesInv'
BY DEF DuesInv

LEMMA DuesSame ==
  ASSUME DuesInv, entered \subseteq entered', disposed' = disposed,
         \A c \in Callers : Due(c)' \subseteq Due(c), DueAtStop' \subseteq DueAtStop
  PROVE  DuesInv'
BY DEF DuesInv

(* An object that has just been entered is due in one place.               *)
LEMMA DuesMore ==
  ASSUME ScopesInv, EnteredInv, DuesInv, NEW n, n \notin entered, entered' = entered \cup {n},
         disposed' = disposed,
         \/ \E x : /\ \A c \in Callers : Due(c)' \subseteq Due(c) \cup {n}
                   /\ \A c \in Callers : (caller[c].scope = x /\ x # NoScope)
                                         \/ Due(c)' \subseteq Due(c)
                   /\ DueAtStop' \subseteq DueAtStop
         \/ /\ \A c \in Callers : Due(c)' \subseteq Due(c)
            /\ DueAtStop' \subseteq DueAtStop \cup {n}
  PROVE  DuesInv'
<1>0. n \notin ToSet(disposed) /\ \A c \in Callers : n \notin Due(c)
  BY DEF EnteredInv, DuesInv
<1>1. n \notin DueAtStop
  BY DEF DuesInv
<1>2. CASE \E x : /\ \A c \in Callers : Due(c)' \subseteq Due(c) \cup {n}
                  /\ \A c \in Callers : (caller[c].scope = x /\ x # NoScope)
                                        \/ Due(c)' \subseteq Due(c)
                  /\ DueAtStop' \subseteq DueAtStop
  <2>1. PICK x : /\ \A c \in Callers : Due(c)' \subseteq Due(c) \cup {n}
                 /\ \A c \in Callers : (caller[c].scope = x /\ x # NoScope)
                                       \/ Due(c)' \subseteq Due(c)
                 /\ DueAtStop' \subseteq DueAtStop
    BY <1>2
  <2>2. \A c, d \in Callers : c # d => Due(c)' \subseteq Due(c) \/ Due(d)' \subseteq Due(d)
    BY <2>1 DEF ScopesInv
  <2>3. \A c, d \in Callers : c # d => Due(c)' \cap Due(d)' = {}
    BY <1>0, <2>1, <2>2 DEF DuesInv
  <2>4. \A c \in Callers : Due(c)' \cap DueAtStop' = {}
    BY <1>1, <2>1 DEF DuesInv
  <2>5. \A c \in Callers : Due(c)' \subseteq entered' \ ToSet(disposed')
    BY <1>0, <2>1 DEF DuesInv
  <2> QED
    BY <2>1, <2>3, <2>4, <2>5 DEF DuesInv
<1>3. CASE /\ \A c \in Callers : Due(c)' \subseteq Due(c)
           /\ DueAtStop' \subseteq DueAtStop \cup {n}
  BY <1>0, <1>3 DEF DuesInv
<1> QED
  BY <1>2, <1>3

LEMMA GotKeeps ==
  ASSUME ContainerInv, NEW s \in Services, NEW x \in Opened, NEW i, Resolve(s, x, i),
         got' = got \/ (x \in DOMAIN got /\ got' = Remembered(got, x, s, i)),
         UNCHANGED <<current, caller, entered, disposed, stopping>>
  PROVE  ContainerInv'
<1>0. ContainerTypes /\ ScopesInv /\ IsolatedInv /\ DuesInv /\ LoopsInv /\ EnteredInv
  BY DEF ContainerInv
<1>1. ContainerTypes'
  BY <1>0, Resolved DEF ContainerTypes
<1>2. DOMAIN got' = DOMAIN got /\ DOMAIN scoped' \subseteq DOMAIN scoped \cup {x}
  <2>1. DOMAIN got' = DOMAIN got
    BY NotedIs
  <2>2. IsStored(Stored(scoped, x, s, made + 1), scoped, x, s, made + 1)
    BY StoredIs
  <2> QED
    BY <1>0, <2>1, <2>2, Resolved DEF IsStored
<1>3. ScopesInv'
  BY <1>0, <1>2 DEF ScopesInv, Opened
<1>4. IsolatedInv'
  BY <1>0, IsolatedGot
<1>5. \A y : Objects(In(scoped', y)) \subseteq Objects(In(scoped, y))
  <2>1. CASE scoped' = scoped
    BY <2>1
  <2>2. CASE s \in Scoped /\ scoped' = Stored(scoped, x, s, made + 1)
    <3>1. ~IsAsync(s)
      BY <2>2, OneLifetime
    <3> QED
      BY <2>2, <3>1, ObjectsStored
  <2> QED
    BY <1>0, <2>1, <2>2, Resolved
<1>6. Objects(singles') \subseteq Objects(singles) /\ made \in Nat /\ made' \in Nat /\ made <= made'
  BY <1>0, Resolved DEF ContainerTypes
<1>7. (\A c \in Callers : Due(c)' \subseteq Due(c)) /\ DueAtStop' \subseteq DueAtStop
  BY <1>5, <1>6 DEF Due, DueAtStop
<1>8. DuesInv'
  BY <1>0, <1>7, DuesSame
<1>9. LoopsInv'
  BY <1>0 DEF LoopsInv
<1>10. EnteredInv'
  BY <1>0, <1>5, <1>6 DEF EnteredInv
<1> QED
  BY <1>1, <1>3, <1>4, <1>8, <1>9, <1>10 DEF ContainerInv

(* The loops over what is left.                                            *)
LEMMA AsyncOfIs ==
  ASSUME NEW f, NEW m \in Nat, Objects(f) \subseteq 1 .. m
  PROVE  /\ AsyncOf(f) \in Seq(Nat) /\ IsInjective(AsyncOf(f))
         /\ ToSet(AsyncOf(f)) \subseteq Objects(f)
<1> DEFINE S == Objects(f)
<1>1. IsFiniteSet(S)
  <2>1. IsFiniteSet(1 .. m)
    BY FS_Interval
  <2> QED
    BY <2>1, FS_Subset
<1>2. AsyncOf(f) = SetToSeq(S)
  BY DEF AsyncOf, Objects
<1> HIDE DEF S
<1>3. Cardinality(S) \in Nat
  BY <1>1, FS_CardinalityType
<1>4. PICK b : b \in Bijection(1 .. Cardinality(S), S)
  BY <1>1, FS_CardinalityType DEF ExistsBijection
<1>5. b \in [1 .. Cardinality(S) -> S] /\ IsInjective(b)
  BY <1>4 DEF Bijection, Injection, IsInjective
<1>6. SetToSeq(S) \in [1 .. Cardinality(S) -> S] /\ IsInjective(SetToSeq(S))
  BY <1>5 DEF SetToSeq
<1>7. SetToSeq(S) \in Seq(Nat) /\ ToSet(SetToSeq(S)) \subseteq S
  <2>1. S \subseteq Nat
    BY DEF S
  <2>2. ASSUME NEW n \in Nat, NEW q \in [1 .. n -> S] 
        PROVE  q \in Seq(Nat) /\ ToSet(q) \subseteq S
    <3>1. q \in [1 .. n -> Nat] /\ DOMAIN q = 1 .. n /\ \A k \in 1 .. n : q[k] \in S
      BY <2>1
    <3>2. q \in Seq(Nat)
      BY <3>1
    <3>3. ToSet(q) \subseteq S
      BY <3>1 DEF ToSet
    <3> QED
      BY <3>2, <3>3
  <2> DEFINE n == Cardinality(S)
             q == SetToSeq(S)
  <2>3. n \in Nat /\ q \in [1 .. n -> S]
    BY <1>3, <1>6
  <2> HIDE DEF n, q
  <2>4. q \in Seq(Nat) /\ ToSet(q) \subseteq S
    BY <2>2, <2>3
  <2> QED
    BY <2>4 DEF q
<1> QED
  BY <1>2, <1>6, <1>7 DEF S

LEMMA NextLeft ==
  ASSUME NEW left \in Seq(Nat), Remaining(left)
  PROVE  /\ Head(left) \in ToSet(left) /\ Head(left) \in Nat /\ Tail(left) \in Seq(Nat)
         /\ ToSet(Tail(left)) \subseteq ToSet(left) \ {Head(left)}
         /\ Len(left) > 1 => Remaining(Tail(left))
<1>1. Len(left) \in Nat \ {0} /\ DOMAIN left = 1 .. Len(left) /\ Head(left) = left[1]
  BY DEF Remaining
<1>2. /\ Tail(left) \in Seq(Nat) /\ Len(Tail(left)) = Len(left) - 1
      /\ DOMAIN Tail(left) = 1 .. Len(left) - 1
      /\ \A i \in 1 .. Len(left) - 1 : Tail(left)[i] = left[i + 1]
  BY <1>1
<1>3. \A i, j \in 1 .. Len(left) : left[i] = left[j] => i = j
  BY <1>1 DEF Remaining, IsInjective
<1>4. ToSet(Tail(left)) \subseteq ToSet(left) \ {Head(left)}
  BY <1>1, <1>2, <1>3 DEF ToSet
<1>5. Len(left) > 1 => Remaining(Tail(left))
  <2> DEFINE rest == Tail(left)
  <2>1. /\ rest \in Seq(Nat) /\ Len(rest) = Len(left) - 1 /\ DOMAIN rest = 1 .. Len(left) - 1
        /\ \A i \in 1 .. Len(left) - 1 : rest[i] = left[i + 1]
    BY <1>2
  <2> HIDE DEF rest
  <2>2. \A i, j \in 1 .. Len(left) - 1 : rest[i] = rest[j] => i = j
    BY <1>1, <1>3, <2>1
  <2>3. IsInjective(rest)
    BY <2>1, <2>2 DEF IsInjective
  <2>4. Len(left) > 1 => rest # <<>>
    BY <1>1, <2>1
  <2>5. Len(left) > 1 => Remaining(rest)
    BY <2>3, <2>4 DEF Remaining
  <2> QED
    BY <2>5 DEF rest
<1>6. Head(left) \in ToSet(left)
  BY <1>1 DEF ToSet
<1> QED
  BY <1>1, <1>2, <1>4, <1>5, <1>6

LEMMA Disposed ==
  ASSUME NEW done \in Seq(Nat), IsInjective(done), NEW n \in Nat, n \notin ToSet(done)
  PROVE  /\ Append(done, n) \in Seq(Nat) /\ IsInjective(Append(done, n))
         /\ ToSet(Append(done, n)) = ToSet(done) \cup {n}
<1> DEFINE more == Append(done, n)
<1>1. /\ more \in Seq(Nat) /\ DOMAIN more = 1 .. Len(done) + 1 /\ more[Len(done) + 1] = n
      /\ \A i \in 1 .. Len(done) : more[i] = done[i]
      /\ DOMAIN done = 1 .. Len(done) /\ Len(done) \in Nat
  OBVIOUS
<1> HIDE DEF more
<1>2. \A i \in 1 .. Len(done) : done[i] # n
  BY <1>1 DEF ToSet
<1>3. IsInjective(more)
  <2>1. \A i, j \in 1 .. Len(done) : done[i] = done[j] => i = j
    BY <1>1 DEF IsInjective
  <2>2. \A i \in 1 .. Len(done) + 1 : i \in 1 .. Len(done) \/ i = Len(done) + 1
    BY <1>1
  <2>3. \A i, j \in 1 .. Len(done) + 1 : more[i] = more[j] => i = j
    BY <1>1, <1>2, <2>1, <2>2
  <2> QED
    BY <1>1, <2>3 DEF IsInjective
<1>4. ToSet(more) \subseteq ToSet(done) \cup {n}
  BY <1>1 DEF ToSet
<1>5. ToSet(done) \cup {n} \subseteq ToSet(more)
  <2>1. n \in ToSet(more)
    BY <1>1 DEF ToSet
  <2>2. \A i \in DOMAIN done : i \in DOMAIN more /\ more[i] = done[i]
    BY <1>1
  <2>3. ToSet(done) \subseteq ToSet(more)
    BY <2>2 DEF ToSet
  <2> QED
    BY <2>1, <2>3
<1> QED
  BY <1>1, <1>3, <1>4, <1>5 DEF more

LEMMA FreeIs ==
  /\ FreeCaller \in CallerState /\ FreeCaller.at = "free" /\ FreeCaller.scope = NoScope
  /\ FreeCaller.old = NoScope /\ FreeCaller.outer = NoScope
BY DEF FreeCaller, CallerState, Sizes

Without(sc, x) == [y \in DOMAIN sc \ {x} |-> sc[y]]

LEMMA WithoutIs ==
  ASSUME NEW sc, NEW x
  PROVE  /\ DOMAIN Without(sc, x) \subseteq DOMAIN sc
         /\ \A y : y # x => In(Without(sc, x), y) = In(sc, y)
         /\ \A y : In(Without(sc, x), y) \in {In(sc, y), Empty}
BY DEF Without, In

(* A coroutine goes on, or it ends a scope.                                *)
LEMMA CallerMoves ==
  ASSUME ContainerInv, NEW c \in Callers, NEW r \in CallerState,
         caller' = [caller EXCEPT ![c] = r],
         r.at \in {"free", "close"}, r.at = "close" => Remaining(r.left),
         {r.scope, r.outer, r.old} \subseteq Opened, current' \in Opened,
         r.scope \in {caller[c].scope, NoScope},
         \/ scoped' = scoped
         \/ /\ r.scope = NoScope
            /\ scoped' = Without(scoped, caller[c].scope),
         disposed' \in Seq(Nat), IsInjective(disposed'), ToSet(disposed') \subseteq entered,
         UNCHANGED <<singles, made, entered, got, stopping>>, DuesInv'
  PROVE  ContainerInv'
<1>0. ContainerTypes /\ ScopesInv /\ IsolatedInv /\ DuesInv /\ LoopsInv /\ EnteredInv
  BY DEF ContainerInv
<1>1. ContainerTypes'
  BY <1>0 DEF ContainerTypes
<1>2. /\ \A d \in Callers : caller'[d] = IF d = c THEN r ELSE caller[d]
      /\ made \in Nat
  BY <1>0 DEF ContainerTypes
<1>3. DOMAIN scoped' \subseteq DOMAIN scoped
  BY WithoutIs
<1>4. ScopesInv'
  <2>1. {r.scope, r.outer, r.old} \subseteq DOMAIN got \cup {NoScope}
    BY DEF Opened
  <2> QED
    BY <1>0, <1>2, <1>3, <2>1 DEF ScopesInv, Opened
<1>5. IsolatedInv'
  <2>1. Instances(scoped', got, made)
    BY <1>0, <1>2, InstancesFewer DEF IsolatedInv, Without
  <2>2. ASSUME NEW d \in Callers, NEW y, y = caller'[d].scope, y # NoScope, stopping.at # "done"
        PROVE  Shows(scoped', got, y)
    <3>1. y = caller[d].scope
      BY <1>2, <2>2
    <3>2. r.scope = NoScope => y # caller[c].scope
      BY <1>0, <1>2, <2>2, <3>1 DEF ScopesInv
    <3>3. In(scoped', y) = In(scoped, y)
      BY <3>2, WithoutIs
    <3>4. Shows(scoped, got, y)
      BY <1>0, <2>2, <3>1 DEF IsolatedInv
    <3> QED
      BY <3>3, <3>4 DEF Shows
  <2> QED
    BY <2>1, <2>2 DEF IsolatedInv
<1>6. LoopsInv'
  BY <1>0, <1>2 DEF LoopsInv
<1>7. EnteredInv'
  <2>1. \A y : Objects(In(scoped', y)) \subseteq Objects(In(scoped, y))
    <3>1. SUFFICES ASSUME NEW y PROVE Objects(In(scoped', y)) \subseteq Objects(In(scoped, y))
      OBVIOUS
    <3>2. CASE In(scoped', y) = In(scoped, y)
      BY <3>2
    <3>3. CASE In(scoped', y) = Empty
      BY <3>3, NoObjects
    <3> QED
      BY <3>2, <3>3, WithoutIs
  <2> QED
    BY <1>0, <1>2, <2>1 DEF EnteredInv
<1> QED
  BY <1>1, <1>4, <1>5, <1>6, <1>7 DEF ContainerInv

LEMMA GetKeeps ==
  ASSUME ContainerInv, NEW c \in Callers, NEW s \in Services,
         GetFromScope(c, s) \/ GetDirect(c, s)
  PROVE  ContainerInv'
<1>1. CASE GetFromScope(c, s)
  <2>1. PICK i \in 1 .. MaxInstances : Resolve(s, caller[c].scope, i) /\ Note(caller[c].scope, s, i)
    BY <1>1 DEF GetFromScope
  <2>2. ASSUME NEW x, x = caller[c].scope
        PROVE  x \in Opened /\ x \in DOMAIN got /\ got' = Remembered(got, x, s, i)
    BY <1>1, <2>1, <2>2 DEF GetFromScope, ContainerInv, ScopesInv, Opened, Note, Remembered
  <2>3. UNCHANGED <<current, caller, entered, disposed, stopping>>
    BY <1>1 DEF GetFromScope
  <2> QED
    BY <2>1, <2>2, <2>3, GotKeeps
<1>2. CASE GetDirect(c, s)
  <2>1. PICK i \in 1 .. MaxInstances : Resolve(s, current, i)
    BY <1>2 DEF GetDirect
  <2>2. ASSUME NEW x, x = current PROVE x \in Opened
    BY <2>2 DEF ContainerInv, ScopesInv
  <2>3. got' = got /\ UNCHANGED <<current, caller, entered, disposed, stopping>>
    BY <1>2 DEF GetDirect
  <2> QED
    BY <2>1, <2>2, <2>3, GotKeeps
<1> QED
  BY <1>1, <1>2

LEMMA OpenKeeps ==
  ASSUME ContainerInv, NEW c \in Callers, OpenScope(c)
  PROVE  ContainerInv'
<1>0. ContainerTypes /\ ScopesInv /\ IsolatedInv /\ DuesInv /\ LoopsInv /\ EnteredInv
  BY DEF ContainerInv
<1>1. PICK x \in Scope : /\ x \notin DOMAIN got /\ current' = x /\ got' = With(got, x, Empty)
                         /\ Become(c, [FreeCaller EXCEPT !.scope = x, !.outer = current])
  BY Zenon DEF OpenScope, Scope
<1> DEFINE r == [FreeCaller EXCEPT !.scope = x, !.outer = current]
<1>2. /\ r.at = "free" /\ r.scope = x /\ r.outer = current /\ r.old = NoScope /\ r \in CallerState
  <2> DEFINE q == [FreeCaller EXCEPT !.scope = x]
  <2>1. current \in Scope \cup {NoScope}
    BY <1>0 DEF ScopesInv, Opened
  <2>2. q \in CallerState /\ q.at = "free" /\ q.scope = x /\ q.old = NoScope
    BY FreeIs DEF CallerState
  <2>3. r = [q EXCEPT !.outer = current]
    OBVIOUS
  <2> HIDE DEF q, r
  <2> QED
    BY <2>1, <2>2, <2>3 DEF CallerState
<1>3. caller' = [caller EXCEPT ![c] = r]
  BY <1>1 DEF Become
<1> HIDE DEF r
<1>4. /\ \A d \in Callers : caller'[d] = IF d = c THEN r ELSE caller[d]
      /\ made \in Nat /\ caller[c].at = "free" /\ caller[c].scope = NoScope
      /\ UNCHANGED <<singles, scoped, made, entered, disposed, stopping>>
  BY <1>0, <1>3 DEF ContainerTypes, OpenScope, Ready
<1>5. x # NoScope
  BY ContainerAssumption DEF Scope
<1>6. /\ DOMAIN got' = DOMAIN got \cup {x} /\ got'[x] = Empty
      /\ \A y \in DOMAIN got : got'[y] = got[y]
  BY <1>1 DEF With
<1>7. ContainerTypes'
  BY <1>0, <1>2, <1>3, <1>4 DEF ContainerTypes
<1>8. ScopesInv'
  BY <1>0, <1>1, <1>2, <1>4, <1>5, <1>6 DEF ScopesInv, Opened
<1>9. IsolatedInv'
  <2>1. Instances(scoped, got', made)
    BY <1>0, <1>1, <1>4, InstancesOpened DEF IsolatedInv
  <2>2. ASSUME NEW d \in Callers, NEW y, y = caller'[d].scope, y # NoScope, stopping.at # "done"
        PROVE  Shows(scoped, got', y)
    <3>1. CASE d = c
      BY <1>2, <1>4, <1>6, <2>2, <3>1, NoneIs DEF Shows
    <3>2. CASE d # c
      <4>1. y \in DOMAIN got /\ Shows(scoped, got, y)
        BY <1>0, <1>4, <2>2, <3>2 DEF IsolatedInv, ScopesInv, Opened
      <4> QED
        BY <1>6, <4>1 DEF Shows
    <3> QED
      BY <3>1, <3>2
  <2> QED
    BY <1>4, <2>1, <2>2 DEF IsolatedInv
<1>10. DuesInv'
  <2>1. Objects(In(scoped, x)) = {}
    BY <1>0, <1>1, <1>5, NoObjects DEF ScopesInv, Opened
  <2>2. \A d \in Callers : Due(d)' \subseteq Due(d)
    BY <1>2, <1>4, <2>1 DEF Due
  <2>3. DueAtStop' = DueAtStop
    BY <1>4 DEF DueAtStop
  <2> QED
    BY <1>0, <1>4, <2>2, <2>3, DuesSame
<1>11. LoopsInv'
  BY <1>0, <1>2, <1>4 DEF LoopsInv
<1>12. EnteredInv'
  BY <1>0, <1>2, <1>4 DEF EnteredInv
<1> QED
  BY <1>7, <1>8, <1>9, <1>10, <1>11, <1>12 DEF ContainerInv

Began(q, o, s, n, h) ==
  [q EXCEPT !.at = "enter", !.old = o, !.service = s, !.new = n, !.handle = h]

IsBegan(r, q, o, s, n) ==
  /\ r \in CallerState /\ r.at = "enter" /\ r.scope = q.scope /\ r.outer = q.outer
  /\ r.old = o /\ r.service = s /\ r.new = n

LEMMA BeganIs ==
  ASSUME NEW q \in CallerState, NEW o \in Scope \cup {NoScope}, NEW s \in Services,
         NEW n \in Nat, NEW h \in BOOLEAN
  PROVE  IsBegan(Began(q, o, s, n, h), q, o, s, n)
<1> DEFINE q1 == [q EXCEPT !.at = "enter"]
           q2 == [q1 EXCEPT !.old = o]
           q3 == [q2 EXCEPT !.service = s]
           q4 == [q3 EXCEPT !.new = n]
<1>1. Began(q, o, s, n, h) = [q4 EXCEPT !.handle = h]
  BY DEF Began
<1>2. q1 \in CallerState /\ q1.at = "enter" /\ q1.scope = q.scope /\ q1.outer = q.outer
  BY DEF CallerState
<1> HIDE DEF q1
<1>3. /\ q2 \in CallerState /\ q2.at = "enter" /\ q2.scope = q.scope /\ q2.outer = q.outer
      /\ q2.old = o
  BY <1>2 DEF CallerState
<1> HIDE DEF q2
<1>4. /\ q3 \in CallerState /\ q3.at = "enter" /\ q3.scope = q.scope /\ q3.outer = q.outer
      /\ q3.old = o /\ q3.service = s
  BY <1>3 DEF CallerState
<1> HIDE DEF q3
<1>5. /\ q4 \in CallerState /\ q4.at = "enter" /\ q4.scope = q.scope /\ q4.outer = q.outer
      /\ q4.old = o /\ q4.service = s /\ q4.new = n
  BY <1>4 DEF CallerState
<1> HIDE DEF q4
<1> QED
  BY <1>1, <1>5 DEF CallerState, IsBegan

LEMMA BackIs ==
  ASSUME NEW c \in Callers, caller[c] \in CallerState, NEW r, r = Back(c)
  PROVE  /\ r \in CallerState /\ r.at = "free" /\ r.scope = caller[c].scope
         /\ r.outer = caller[c].outer /\ r.old = NoScope
<1> DEFINE q == [FreeCaller EXCEPT !.scope = caller[c].scope]
<1>1. {caller[c].scope, caller[c].outer} \subseteq Scope \cup {NoScope}
  BY DEF CallerState
<1>2. q \in CallerState /\ q.at = "free" /\ q.scope = caller[c].scope /\ q.old = NoScope
  BY <1>1, FreeIs DEF CallerState
<1>3. r = [q EXCEPT !.outer = caller[c].outer]
  BY DEF Back
<1> HIDE DEF q
<1> QED
  BY <1>1, <1>2, <1>3 DEF CallerState

LEMMA BeginKeeps ==
  ASSUME ContainerInv, NEW c \in Callers, NEW s \in Services, BeginEnter(c, s)
  PROVE  ContainerInv'
<1>0. ContainerTypes /\ ScopesInv /\ IsolatedInv /\ DuesInv /\ LoopsInv /\ EnteredInv
  BY DEF ContainerInv
<1>1. PICK h \in {TRUE, FALSE} :
        LET scope == IF h THEN caller[c].scope ELSE current IN
        /\ Ready(c) /\ IsAsync(s) /\ made' = made + 1 /\ current' = scope
        /\ Become(c, [caller[c] EXCEPT !.at = "enter", !.old = current, !.service = s,
                                       !.new = made', !.handle = h])
        /\ UNCHANGED <<singles, scoped, entered, disposed, got, stopping>>
  BY Zenon DEF BeginEnter
<1> DEFINE r == [caller[c] EXCEPT !.at = "enter", !.old = current, !.service = s,
                                  !.new = made', !.handle = h]
<1>2. /\ r \in CallerState /\ r.at = "enter" /\ r.scope = caller[c].scope
      /\ r.outer = caller[c].outer /\ r.old = current /\ r.service = s /\ r.new = made + 1
  <2>1. caller[c] \in CallerState /\ current \in Scope \cup {NoScope}
    BY <1>0 DEF ContainerTypes, ScopesInv, Opened
  <2>2. made' \in Nat /\ made' = made + 1
    BY <1>0, <1>1 DEF ContainerTypes
  <2>3. r = Began(caller[c], current, s, made', h) /\ h \in BOOLEAN
    BY DEF Began
  <2> HIDE DEF r
  <2>4. ASSUME NEW n \in Nat, n = made', NEW q \in CallerState, q = caller[c],
               NEW o \in Scope \cup {NoScope}, o = current
        PROVE  IsBegan(r, q, o, s, n)
    BY <2>3, <2>4, BeganIs
  <2> QED
    BY <2>1, <2>2, <2>4 DEF IsBegan
<1>3. caller' = [caller EXCEPT ![c] = r]
  BY <1>1 DEF Become
<1> HIDE DEF r
<1>4. /\ \A d \in Callers : caller'[d] = IF d = c THEN r ELSE caller[d]
      /\ made \in Nat /\ caller[c].at = "free"
      /\ current' \in {caller[c].scope, current} /\ made' = made + 1 /\ IsAsync(s)
      /\ UNCHANGED <<singles, scoped, entered, disposed, got, stopping>>
  BY <1>0, <1>1, <1>3 DEF ContainerTypes, Ready
<1>5. ContainerTypes'
  BY <1>0, <1>2, <1>3, <1>4 DEF ContainerTypes
<1>6. ScopesInv'
  BY <1>0, <1>2, <1>4 DEF ScopesInv, Opened
<1>7. IsolatedInv'
  <2>1. Instances(scoped, got, made')
    BY <1>0, <1>4, InstancesMore DEF IsolatedInv
  <2>2. \A d \in Callers : caller'[d].scope = caller[d].scope
    BY <1>2, <1>4
  <2> QED
    BY <1>0, <1>4, <2>1, <2>2 DEF IsolatedInv
<1>8. DuesInv'
  <2>1. \A d \in Callers : Due(d)' \subseteq Due(d)
    BY <1>2, <1>4 DEF Due
  <2>2. DueAtStop' = DueAtStop
    BY <1>4 DEF DueAtStop
  <2> QED
    BY <1>0, <1>4, <2>1, <2>2, DuesSame
<1>9. LoopsInv'
  BY <1>0, <1>2, <1>4 DEF LoopsInv
<1>10. EnteredInv'
  <2>1. \A d \in Callers : caller[d].at = "enter" => caller[d].new \in 1 .. made
    BY <1>0 DEF EnteredInv
  <2>2. /\ entered \subseteq 1 .. made' /\ made + 1 \notin entered
    BY <1>0, <1>4 DEF EnteredInv
  <2>3. \A d \in Callers : caller'[d].at = "enter" =>
          caller'[d].new \in (1 .. made') \ entered /\ IsAsync(caller'[d].service)
    BY <1>0, <1>2, <1>4, <2>1, <2>2 DEF EnteredInv
  <2>4. \A d, e \in Callers : caller'[d].at = "enter" /\ caller'[e].at = "enter" /\ d # e =>
          caller'[d].new # caller'[e].new
    BY <1>0, <1>2, <1>4, <2>1 DEF EnteredInv
  <2> QED
    BY <1>0, <1>4, <2>2, <2>3, <2>4 DEF EnteredInv
<1> QED
  BY <1>5, <1>6, <1>7, <1>8, <1>9, <1>10 DEF ContainerInv

LEMMA FailsKeeps ==
  ASSUME ContainerInv, NEW c \in Callers, EnterFails(c)
  PROVE  ContainerInv'
<1>0. ContainerTypes /\ ScopesInv /\ DuesInv /\ EnteredInv
  BY DEF ContainerInv
<1> DEFINE r == Back(c)
<1>1. /\ r \in CallerState /\ r.at = "free" /\ r.scope = caller[c].scope
      /\ r.outer = caller[c].outer /\ r.old = NoScope
  BY <1>0, BackIs DEF ContainerTypes
<1>2. /\ caller' = [caller EXCEPT ![c] = r] /\ caller[c].at = "enter"
      /\ current' \in {caller[c].old, current}
      /\ UNCHANGED <<singles, scoped, made, entered, disposed, got, stopping>>
  BY DEF EnterFails, Become, Restored
<1> HIDE DEF r
<1>3. \A d \in Callers : caller'[d] = IF d = c THEN r ELSE caller[d]
  BY <1>0, <1>2 DEF ContainerTypes
<1>4. DuesInv'
  <2>1. \A d \in Callers : Due(d)' \subseteq Due(d)
    BY <1>1, <1>2, <1>3 DEF Due
  <2>2. DueAtStop' = DueAtStop
    BY <1>2 DEF DueAtStop
  <2> QED
    BY <1>0, <1>2, <2>1, <2>2, DuesSame
<1>5. {r.scope, r.outer, r.old} \subseteq Opened /\ current' \in Opened
  BY <1>0, <1>1, <1>2 DEF ScopesInv, Opened
<1>6. disposed' \in Seq(Nat) /\ IsInjective(disposed') /\ ToSet(disposed') \subseteq entered
  BY <1>0, <1>2 DEF ContainerTypes, EnteredInv
<1> QED
  BY <1>1, <1>2, <1>4, <1>5, <1>6, CallerMoves

LEMMA ReturnsKeeps ==
  ASSUME ContainerInv, NEW c \in Callers, EnterReturns(c)
  PROVE  ContainerInv'
<1>0. ContainerTypes /\ ScopesInv /\ IsolatedInv /\ DuesInv /\ LoopsInv /\ EnteredInv
  BY DEF ContainerInv
<1> DEFINE r == Back(c)
           n == caller[c].new
           s == caller[c].service
<1>1. /\ r \in CallerState /\ r.at = "free" /\ r.scope = caller[c].scope
      /\ r.outer = caller[c].outer /\ r.old = NoScope
  BY <1>0, BackIs DEF ContainerTypes
<1>2. /\ caller' = [caller EXCEPT ![c] = r] /\ caller[c].at = "enter"
      /\ current' \in {caller[c].old, current} /\ entered' = entered \cup {n}
      /\ UNCHANGED <<made, disposed, got, stopping>>
  BY DEF EnterReturns, Become, Restored
<1>3. \A d \in Callers : caller'[d] = IF d = c THEN r ELSE caller[d]
  BY <1>0, <1>2 DEF ContainerTypes
<1>4. n \in 1 .. made /\ n \notin entered /\ IsAsync(s) /\ s \in Services \ Scoped /\ made \in Nat
  BY <1>0, <1>2, OneLifetime DEF EnteredInv, ContainerTypes
<1>5. \/ singles' = With(singles, s, n) /\ scoped' = scoped
      \/ scoped' = Stored(scoped, current, s, n) /\ singles' = singles
  BY DEF EnterReturns, Store, Stored, InScope, In
<1> HIDE DEF r, n, s
<1>6. /\ Instances(scoped', got, made) /\ DOMAIN scoped' \subseteq DOMAIN scoped \cup {current}
      /\ \A y \in DOMAIN got : Shows(scoped, got, y) => Shows(scoped', got, y)
      /\ \A y : Objects(In(scoped', y)) \subseteq Objects(In(scoped, y)) \cup {n}
      /\ \A y : y = current \/ Objects(In(scoped', y)) \subseteq Objects(In(scoped, y))
      /\ Objects(singles') \subseteq Objects(singles) \cup {n}
      /\ DOMAIN singles' \subseteq Services
      /\ scoped' = scoped \/ singles' = singles
  <2>1. Instances(scoped, got, made) /\ DOMAIN singles \subseteq Services
    BY <1>0 DEF IsolatedInv, ContainerTypes
  <2>2. CASE singles' = With(singles, s, n) /\ scoped' = scoped
    <3>1. DOMAIN singles' = DOMAIN singles \cup {s} /\ Objects(singles') \subseteq Objects(singles) \cup {n}
      BY <2>2, WithIs, ObjectsWith
    <3> QED
      BY <1>4, <2>1, <2>2, <3>1
  <2>3. CASE scoped' = Stored(scoped, current, s, n) /\ singles' = singles
    <3>1. Instances(scoped', got, made)
      BY <1>4, <2>1, <2>3, InstancesKept
    <3>2. \A y \in DOMAIN got : Shows(scoped, got, y) => Shows(scoped', got, y)
      <4>1. \A y \in DOMAIN got : \A t \in DOMAIN got[y] : t \in Scoped
        BY <2>1 DEF Instances
      <4> QED
        BY <1>4, <2>3, <4>1, ShowsStored
    <3>3. IsStored(scoped', scoped, current, s, n)
      BY <2>3, StoredIs
    <3>4. DOMAIN scoped' \subseteq DOMAIN scoped \cup {current}
      BY <3>3 DEF IsStored
    <3>5. /\ \A y : Objects(In(scoped', y)) \subseteq Objects(In(scoped, y)) \cup {n}
          /\ \A y : y = current \/ Objects(In(scoped', y)) \subseteq Objects(In(scoped, y))
      BY <2>3, ObjectsStored
    <3> QED
      BY <2>1, <2>3, <3>1, <3>2, <3>4, <3>5
  <2> QED
    BY <1>5, <2>2, <2>3
<1>7. ContainerTypes'
  BY <1>0, <1>1, <1>2, <1>6 DEF ContainerTypes
<1>8. ScopesInv'
  BY <1>0, <1>1, <1>2, <1>3, <1>6 DEF ScopesInv, Opened
<1>9. IsolatedInv'
  <2>1. ASSUME NEW d \in Callers, NEW y, y = caller'[d].scope, y # NoScope, stopping.at # "done"
        PROVE  Shows(scoped', got, y)
    <3>1. y = caller[d].scope /\ y \in DOMAIN got
      BY <1>0, <1>1, <1>3, <2>1 DEF ScopesInv, Opened
    <3>2. Shows(scoped, got, y)
      BY <1>0, <2>1, <3>1 DEF IsolatedInv
    <3> QED
      BY <1>6, <3>1, <3>2
  <2> QED
    BY <1>2, <1>6, <2>1 DEF IsolatedInv
<1>10. DuesInv'
  <2>1. \A d \in Callers : Due(d)' \subseteq Due(d) \cup {n}
    BY <1>1, <1>2, <1>3, <1>6 DEF Due
  <2>2. \A d \in Callers : (caller[d].scope = current /\ current # NoScope) \/ Due(d)' \subseteq Due(d)
    BY <1>1, <1>2, <1>3, <1>6 DEF Due
  <2>3. scoped' = scoped => \A d \in Callers : Due(d)' \subseteq Due(d)
    BY <1>1, <1>2, <1>3 DEF Due
  <2>4. /\ DueAtStop' \subseteq DueAtStop \cup {n}
        /\ singles' = singles => DueAtStop' \subseteq DueAtStop
    BY <1>2, <1>6 DEF DueAtStop
  <2>5. \/ \E x : /\ \A d \in Callers : Due(d)' \subseteq Due(d) \cup {n}
                  /\ \A d \in Callers : (caller[d].scope = x /\ x # NoScope)
                                        \/ Due(d)' \subseteq Due(d)
                  /\ DueAtStop' \subseteq DueAtStop
        \/ /\ \A d \in Callers : Due(d)' \subseteq Due(d)
           /\ DueAtStop' \subseteq DueAtStop \cup {n}
    BY <1>6, <2>1, <2>2, <2>3, <2>4
  <2> QED
    BY <1>0, <1>2, <1>4, <2>5, DuesMore
<1>11. LoopsInv'
  BY <1>0, <1>1, <1>2, <1>3 DEF LoopsInv
<1>12. EnteredInv'
  <2>1. \A d \in Callers : caller[d].at = "enter" /\ d # c => caller[d].new # n
    BY <1>0, <1>2 DEF EnteredInv, n
  <2>2. \A d \in Callers : caller'[d].at = "enter" => d # c /\ caller'[d] = caller[d]
    BY <1>1, <1>3
  <2>3. \A y : Objects(In(scoped', y)) \subseteq entered'
    BY <1>0, <1>2, <1>6 DEF EnteredInv
  <2> QED
    BY <1>0, <1>2, <1>4, <1>6, <2>1, <2>2, <2>3 DEF EnteredInv
<1> QED
  BY <1>7, <1>8, <1>9, <1>10, <1>11, <1>12 DEF ContainerInv

(* A coroutine that starts or goes on to close its scope.                  *)
ClosingIs(r, q, left) ==
  /\ r \in CallerState /\ r.at = "close" /\ r.left = left /\ r.scope = q.scope
  /\ r.outer = q.outer /\ r.old = q.old

LEMMA ClosingFrom ==
  ASSUME NEW q \in CallerState, NEW left \in Seq(Nat), NEW n \in Sizes
  PROVE  /\ ClosingIs([q EXCEPT !.at = "close", !.left = left, !.size = n], q, left)
         /\ q.at = "close" => ClosingIs([q EXCEPT !.left = left], q, left)
<1> DEFINE q1 == [q EXCEPT !.at = "close"]
           q2 == [q1 EXCEPT !.left = left]
           r == [q EXCEPT !.at = "close", !.left = left, !.size = n]
<1>1. r = [q2 EXCEPT !.size = n]
  OBVIOUS
<1>2. /\ q1 \in CallerState /\ q1.at = "close" /\ q1.scope = q.scope /\ q1.outer = q.outer
      /\ q1.old = q.old
  BY DEF CallerState
<1> HIDE DEF q1
<1>3. ClosingIs(q2, q, left)
  BY <1>2 DEF CallerState, ClosingIs
<1> HIDE DEF q2, r
<1>4. ClosingIs(r, q, left)
  BY <1>1, <1>3 DEF CallerState, ClosingIs
<1>5. q.at = "close" => ClosingIs([q EXCEPT !.left = left], q, left)
  BY DEF CallerState, ClosingIs
<1> QED
  BY <1>4, <1>5 DEF r

(* Less is due when a coroutine forgets what it closes, or its scope.      *)
LEMMA CallerDues ==
  ASSUME ContainerInv, NEW c \in Callers, NEW r, caller' = [caller EXCEPT ![c] = r],
         r.at \in {"free", "close"}, r.at = "free" => r.scope = NoScope,
         \/ scoped' = scoped
         \/ scoped' = Without(scoped, caller[c].scope),
         UNCHANGED <<singles, stopping>>
  PROVE  /\ \A d \in Callers \ {c} : Due(d)' = Due(d)
         /\ Due(c)' = IF r.at = "close" THEN ToSet(r.left) ELSE {}
         /\ DueAtStop' = DueAtStop
<1> DEFINE x == caller[c].scope
<1>0. ContainerTypes /\ ScopesInv
  BY DEF ContainerInv
<1>1. \A d \in Callers : caller'[d] = IF d = c THEN r ELSE caller[d]
  BY <1>0 DEF ContainerTypes
<1>2. ASSUME NEW d \in Callers \ {c}
      PROVE  Due(d)' = Due(d)
  <2>1. caller'[d] = caller[d]
    BY <1>1, <1>2
  <2>2. caller[d].scope = NoScope \/ caller[d].scope # x
    BY <1>0, <1>2 DEF ScopesInv
  <2>3. caller[d].scope # x => In(scoped', caller[d].scope) = In(scoped, caller[d].scope)
    BY WithoutIs
  <2>4. CASE scoped' = scoped
    BY <2>1, <2>4 DEF Due
  <2>5. CASE caller[d].scope # x
    BY <2>1, <2>3, <2>5 DEF Due
  <2>6. CASE caller[d].scope = NoScope
    BY <2>1, <2>6 DEF Due
  <2> QED
    BY <2>2, <2>5, <2>6
<1>3. Due(c)' = IF r.at = "close" THEN ToSet(r.left) ELSE {}
  BY <1>1 DEF Due
<1> QED
  BY <1>2, <1>3 DEF DueAtStop

LEMMA CloseKeeps ==
  ASSUME ContainerInv, NEW c \in Callers, CloseScope(c)
  PROVE  ContainerInv'
<1>0. ContainerTypes /\ ScopesInv /\ IsolatedInv /\ DuesInv /\ EnteredInv
  BY DEF ContainerInv
<1> DEFINE x == caller[c].scope
           mine == In(scoped, x)
           left == AsyncOf(mine)
<1>1. /\ caller[c].at = "free" /\ x # NoScope /\ caller[c] \in CallerState /\ made \in Nat
      /\ UNCHANGED <<singles, made, entered, disposed, got, stopping>>
      /\ IF left = <<>> THEN ScopeClosed(c)
         ELSE /\ Become(c, [caller[c] EXCEPT !.at = "close", !.left = left,
                                             !.size = Cardinality(DOMAIN mine)])
              /\ UNCHANGED <<current, scoped>>
  BY <1>0 DEF CloseScope, Ready, ContainerTypes, InScope, In
<1>2. DOMAIN mine \subseteq Services
  BY <1>0, NoneIs DEF IsolatedInv, Instances, In
<1>3. /\ left \in Seq(Nat) /\ IsInjective(left) /\ ToSet(left) \subseteq Objects(mine)
  <2>1. Objects(mine) \subseteq 1 .. made
    BY <1>0 DEF EnteredInv
  <2> HIDE DEF mine
  <2> QED
    BY <1>1, <2>1, AsyncOfIs
<1> HIDE DEF mine, left
<1>4. /\ disposed' \in Seq(Nat) /\ IsInjective(disposed') /\ ToSet(disposed') \subseteq entered
  BY <1>0, <1>1 DEF ContainerTypes, EnteredInv
<1>5. {caller[c].scope, caller[c].outer, caller[c].old, NoScope, current} \subseteq Opened
  BY <1>0 DEF ScopesInv, Opened
<1>6. Due(c) = Objects(mine)
  BY <1>1 DEF Due, mine
<1>7. CASE left = <<>>
  <2> DEFINE r == FreeCaller
  <2>1. /\ caller' = [caller EXCEPT ![c] = r] /\ current' = caller[c].outer
        /\ scoped' = Without(scoped, x)
    BY <1>1, <1>7 DEF ScopeClosed, Become, Without
  <2>2. r \in CallerState /\ r.at = "free" /\ {r.scope, r.outer, r.old} = {NoScope} /\ r.scope = NoScope
    BY FreeIs
  <2> HIDE DEF r
  <2>3. (\A d \in Callers : Due(d)' \subseteq Due(d)) /\ DueAtStop' \subseteq DueAtStop
    BY <1>1, <2>1, <2>2, CallerDues
  <2>4. DuesInv'
    BY <1>0, <1>1, <2>3, DuesSame
  <2> QED
    BY <1>1, <1>4, <1>5, <2>1, <2>2, <2>4, CallerMoves
<1>8. CASE left # <<>>
  <2> DEFINE r == [caller[c] EXCEPT !.at = "close", !.left = left,
                                    !.size = Cardinality(DOMAIN mine)]
  <2>1. /\ caller' = [caller EXCEPT ![c] = r] /\ current' = current /\ scoped' = scoped
    BY <1>1, <1>8 DEF Become
  <2>2. Cardinality(DOMAIN mine) \in Sizes
    BY <1>2 DEF Sizes
  <2>3. ClosingIs(r, caller[c], left)
    BY <1>1, <1>3, <2>2, ClosingFrom
  <2> HIDE DEF r
  <2>4. /\ r \in CallerState /\ r.at = "close" /\ r.left = left /\ r.scope = x
        /\ r.outer = caller[c].outer /\ r.old = caller[c].old /\ Remaining(r.left)
    BY <1>3, <1>8, <2>3 DEF ClosingIs, Remaining
  <2>5. (\A d \in Callers : Due(d)' \subseteq Due(d)) /\ DueAtStop' \subseteq DueAtStop
    BY <1>1, <1>3, <1>6, <2>1, <2>4, CallerDues
  <2>6. DuesInv'
    BY <1>0, <1>1, <2>5, DuesSame
  <2> QED
    BY <1>1, <1>4, <1>5, <2>1, <2>4, <2>6, CallerMoves
<1> QED
  BY <1>7, <1>8

LEMMA RaisesKeeps ==
  ASSUME ContainerInv, NEW c \in Callers, DisposalRaises(c)
  PROVE  ContainerInv'
<1>0. ContainerTypes /\ ScopesInv /\ DuesInv /\ EnteredInv
  BY DEF ContainerInv
<1> DEFINE r == FreeCaller
<1>1. /\ caller' = [caller EXCEPT ![c] = r]
      /\ UNCHANGED <<current, singles, scoped, made, entered, disposed, got, stopping>>
  BY DEF DisposalRaises, Become
<1>2. /\ r \in CallerState /\ r.at = "free" /\ r.scope = NoScope
      /\ r.outer = NoScope /\ r.old = NoScope
  BY FreeIs
<1> HIDE DEF r
<1>3. (\A d \in Callers : Due(d)' \subseteq Due(d)) /\ DueAtStop' \subseteq DueAtStop
  BY <1>1, <1>2, CallerDues
<1>4. DuesInv'
  BY <1>0, <1>1, <1>3, DuesSame
<1>5. /\ disposed' \in Seq(Nat) /\ IsInjective(disposed') /\ ToSet(disposed') \subseteq entered
      /\ {r.scope, r.outer, r.old} \subseteq Opened /\ current' \in Opened
  BY <1>0, <1>1, <1>2 DEF ContainerTypes, EnteredInv, ScopesInv, Opened
<1> QED
  BY <1>1, <1>2, <1>4, <1>5, CallerMoves

LEMMA DisposalKeeps ==
  ASSUME ContainerInv, NEW c \in Callers, DisposalReturns(c)
  PROVE  ContainerInv'
<1>0. ContainerTypes /\ ScopesInv /\ DuesInv /\ LoopsInv /\ EnteredInv
  BY DEF ContainerInv
<1> DEFINE x == caller[c].scope
           left == caller[c].left
           h == Head(left)
<1>1. /\ caller[c].at = "close" /\ caller[c] \in CallerState /\ left \in Seq(Nat) /\ Remaining(left)
      /\ disposed' = Append(disposed, h) /\ UNCHANGED <<singles, made, entered, got, stopping>>
  BY <1>0 DEF DisposalReturns, ContainerTypes, CallerState, LoopsInv
<1>2. /\ h \in ToSet(left) /\ h \in Nat /\ Tail(left) \in Seq(Nat)
      /\ ToSet(Tail(left)) \subseteq ToSet(left) \ {h}
      /\ Len(left) > 1 => Remaining(Tail(left))
  <2> HIDE DEF left
  <2> QED
    BY <1>1, NextLeft
<1>3. Due(c) = ToSet(left)
  BY <1>1 DEF Due
<1>4. \/ /\ caller' = [caller EXCEPT ![c] = FreeCaller] /\ UNCHANGED <<current, scoped>>
      \/ /\ Len(left) > 1 /\ caller' = [caller EXCEPT ![c] = [caller[c] EXCEPT !.left = Tail(left)]]
         /\ UNCHANGED <<current, scoped>>
      \/ /\ caller' = [caller EXCEPT ![c] = FreeCaller] /\ current' = caller[c].outer
         /\ scoped' = Without(scoped, x)
  BY DEF DisposalReturns, Become, ScopeClosed, Without
<1> HIDE DEF left, h
<1>5. h \in entered /\ h \notin ToSet(disposed) /\ disposed \in Seq(Nat) /\ IsInjective(disposed)
  BY <1>0, <1>2, <1>3 DEF DuesInv, EnteredInv, ContainerTypes
<1>6. /\ disposed' \in Seq(Nat) /\ IsInjective(disposed') /\ ToSet(disposed') = ToSet(disposed) \cup {h}
      /\ ToSet(disposed') \subseteq entered
  BY <1>0, <1>1, <1>2, <1>5, Disposed DEF EnteredInv
<1>7. {caller[c].scope, caller[c].outer, caller[c].old, NoScope, current} \subseteq Opened
  BY <1>0 DEF ScopesInv, Opened
<1>8. /\ h \notin DueAtStop /\ \A d \in Callers \ {c} : h \notin Due(d)
  BY <1>0, <1>2, <1>3 DEF DuesInv
<1>9. ASSUME NEW r \in CallerState, caller' = [caller EXCEPT ![c] = r],
             \/ r.at = "free" /\ r.scope = NoScope
             \/ r.at = "close" /\ r.scope = x /\ Remaining(r.left)
                /\ ToSet(r.left) \subseteq ToSet(left) \ {h},
             {r.scope, r.outer, r.old} \subseteq Opened, current' \in Opened,
             \/ scoped' = scoped
             \/ r.scope = NoScope /\ scoped' = Without(scoped, x)
      PROVE  ContainerInv'
  <2>1. /\ \A d \in Callers \ {c} : Due(d)' = Due(d)
        /\ Due(c)' = IF r.at = "close" THEN ToSet(r.left) ELSE {}
        /\ DueAtStop' = DueAtStop
    BY <1>1, <1>9, CallerDues
  <2>3. Due(c)' \subseteq Due(c) \ {h}
    BY <1>3, <1>9, <2>1
  <2>4. /\ \A d \in Callers : Due(d)' \subseteq Due(d) \ {h}
        /\ DueAtStop' \subseteq DueAtStop \ {h}
    BY <1>8, <2>1, <2>3
  <2>2. DuesInv'
    BY <1>0, <1>1, <1>6, <2>4, DuesFewer
  <2> QED
    BY <1>1, <1>6, <1>9, <2>2, CallerMoves
<1>10. CASE caller' = [caller EXCEPT ![c] = FreeCaller] /\ UNCHANGED <<current, scoped>>
  BY <1>7, <1>9, <1>10, FreeIs
<1>11. CASE /\ caller' = [caller EXCEPT ![c] = FreeCaller] /\ current' = caller[c].outer
            /\ scoped' = Without(scoped, x)
  BY <1>7, <1>9, <1>11, FreeIs
<1>12. CASE /\ Len(left) > 1 /\ caller' = [caller EXCEPT ![c] = [caller[c] EXCEPT !.left = Tail(left)]]
            /\ UNCHANGED <<current, scoped>>
  <2> DEFINE r == [caller[c] EXCEPT !.left = Tail(left)]
  <2>0. 0 \in Sizes
    BY DEF Sizes
  <2>1. ClosingIs(r, caller[c], Tail(left))
    BY <1>1, <1>2, <2>0, ClosingFrom
  <2>2. caller' = [caller EXCEPT ![c] = r]
    BY <1>12
  <2> HIDE DEF r
  <2>3. /\ r \in CallerState /\ r.at = "close" /\ r.left = Tail(left) /\ r.scope = x
        /\ r.outer = caller[c].outer /\ r.old = caller[c].old /\ Remaining(r.left)
    BY <1>2, <1>12, <2>1 DEF ClosingIs
  <2>4. /\ {r.scope, r.outer, r.old} \subseteq Opened /\ current' \in Opened
        /\ ToSet(r.left) \subseteq ToSet(left) \ {h} /\ scoped' = scoped
    BY <1>2, <1>7, <1>12, <2>3
  <2> QED
    BY <1>9, <2>2, <2>3, <2>4
<1> QED
  BY <1>4, <1>10, <1>11, <1>12

(* shutdown_async goes on, or it forgets every instance.                   *)
LEMMA StopKeeps ==
  ASSUME ContainerInv, DuesInv', stopping' \in StopState,
         stopping'.at = "closing" => Remaining(stopping'.left),
         stopping.at # "done",
         \/ UNCHANGED <<singles, scoped>>
         \/ singles' = Empty /\ scoped' = [x \in {} |-> Empty] /\ stopping'.at = "done",
         disposed' \in Seq(Nat), IsInjective(disposed'), ToSet(disposed') \subseteq entered,
         UNCHANGED <<current, caller, made, entered, got>>
  PROVE  ContainerInv'
<1>0. ContainerTypes /\ ScopesInv /\ IsolatedInv /\ DuesInv /\ LoopsInv /\ EnteredInv
  BY DEF ContainerInv
<1>1. ContainerTypes'
  BY <1>0, NoneIs DEF ContainerTypes
<1>2. ScopesInv'
  BY <1>0 DEF ScopesInv, Opened
<1>3. IsolatedInv'
  <2>1. Instances(scoped', got, made)
    BY <1>0 DEF IsolatedInv, Instances
  <2> QED
    BY <1>0, <2>1 DEF IsolatedInv
<1>4. LoopsInv'
  BY <1>0 DEF LoopsInv
<1>5. EnteredInv'
  <2>1. Objects(singles') \subseteq entered /\ \A x : Objects(In(scoped', x)) \subseteq entered
    <3>1. CASE UNCHANGED <<singles, scoped>>
      BY <1>0, <3>1 DEF EnteredInv
    <3>2. CASE singles' = Empty /\ scoped' = [x \in {} |-> Empty]
      BY <3>2, NoObjects
    <3> QED
      BY <3>1, <3>2
  <2> QED
    BY <1>0, <2>1 DEF EnteredInv
<1> QED
  BY <1>1, <1>2, <1>3, <1>4, <1>5 DEF ContainerInv

LEMMA NotStoppingIs == NotStopping \in StopState
BY DEF NotStopping, StopState, Sizes

LEMMA Forgotten ==
  ASSUME Forget, UNCHANGED caller
  PROVE  /\ singles' = Empty /\ scoped' = [x \in {} |-> Empty]
         /\ stopping' \in StopState /\ stopping'.at = "done"
         /\ \A c \in Callers : Due(c)' \subseteq Due(c)
         /\ DueAtStop' = {}
<1>1. /\ singles' = Empty /\ scoped' = [x \in {} |-> Empty]
      /\ stopping' \in StopState /\ stopping'.at = "done"
  BY NotStoppingIs DEF Forget, StopState
<1>2. \A x : Objects(In(scoped', x)) = {}
  BY <1>1, NoObjects
<1>3. \A c \in Callers : Due(c)' \subseteq Due(c)
  BY <1>2 DEF Due
<1>4. DueAtStop' = {}
  BY <1>1 DEF DueAtStop
<1> QED
  BY <1>1, <1>3, <1>4

LEMMA ShutdownKeeps ==
  ASSUME ContainerInv, Shutdown
  PROVE  ContainerInv'
<1>0. ContainerTypes /\ DuesInv /\ EnteredInv
  BY DEF ContainerInv
<1>1. /\ stopping.at = "no" /\ UNCHANGED <<current, caller, made, entered, disposed, got>>
      /\ disposed' \in Seq(Nat) /\ IsInjective(disposed') /\ ToSet(disposed') \subseteq entered
      /\ made \in Nat /\ DOMAIN singles \subseteq Services
  BY <1>0 DEF Shutdown, ContainerTypes, EnteredInv
<1> DEFINE left == AsyncOf(singles)
           n == Cardinality(DOMAIN singles)
<1>2. left \in Seq(Nat) /\ IsInjective(left) /\ ToSet(left) \subseteq Objects(singles)
  <2>1. Objects(singles) \subseteq 1 .. made
    BY <1>0 DEF EnteredInv
  <2> QED
    BY <1>1, <2>1, AsyncOfIs
<1>3. n \in Sizes
  BY <1>1 DEF Sizes
<1>4. \/ Forget
      \/ /\ left # <<>> /\ stopping' = [at |-> "closing", left |-> left, size |-> n]
         /\ UNCHANGED <<singles, scoped>>
  BY DEF Shutdown
<1> HIDE DEF left, n
<1>5. CASE Forget
  <2>1. /\ singles' = Empty /\ scoped' = [x \in {} |-> Empty]
        /\ stopping' \in StopState /\ stopping'.at = "done"
        /\ \A c \in Callers : Due(c)' \subseteq Due(c)
        /\ DueAtStop' \subseteq DueAtStop
    BY <1>1, <1>5, Forgotten
  <2>2. DuesInv'
    BY <1>0, <1>1, <2>1, DuesSame
  <2> QED
    BY <1>1, <2>1, <2>2, StopKeeps
<1>6. CASE /\ left # <<>> /\ stopping' = [at |-> "closing", left |-> left, size |-> n]
           /\ UNCHANGED <<singles, scoped>>
  <2>1. stopping' \in StopState /\ stopping'.at = "closing" /\ Remaining(stopping'.left)
    BY <1>2, <1>3, <1>6 DEF StopState, Remaining
  <2>2. DueAtStop' \subseteq DueAtStop
    BY <1>1, <1>2, <1>6 DEF DueAtStop
  <2>3. \A c \in Callers : Due(c)' \subseteq Due(c)
    BY <1>1, <1>6 DEF Due
  <2>4. DuesInv'
    BY <1>0, <1>1, <2>2, <2>3, DuesSame
  <2> QED
    BY <1>1, <1>6, <2>1, <2>4, StopKeeps
<1> QED
  BY <1>4, <1>5, <1>6

LEMMA ShutdownGoesOnKeeps ==
  ASSUME ContainerInv, ShutdownGoesOn
  PROVE  ContainerInv'
<1>0. ContainerTypes /\ DuesInv /\ LoopsInv /\ EnteredInv
  BY DEF ContainerInv
<1> DEFINE left == stopping.left
           h == Head(left)
<1>1. /\ stopping.at = "closing" /\ stopping \in StopState /\ left \in Seq(Nat) /\ Remaining(left)
      /\ disposed' = Append(disposed, h) /\ UNCHANGED <<current, caller, made, entered, got>>
  BY <1>0 DEF ShutdownGoesOn, ContainerTypes, StopState, LoopsInv
<1>2. /\ h \in ToSet(left) /\ h \in Nat /\ Tail(left) \in Seq(Nat)
      /\ ToSet(Tail(left)) \subseteq ToSet(left) \ {h}
      /\ Len(left) > 1 => Remaining(Tail(left))
  <2> HIDE DEF left
  <2> QED
    BY <1>1, NextLeft
<1>3. DueAtStop = ToSet(left)
  BY <1>1 DEF DueAtStop
<1>4. \/ stopping' = [NotStopping EXCEPT !.at = "failed"] /\ UNCHANGED <<singles, scoped>>
      \/ /\ Len(left) > 1 /\ stopping' = [stopping EXCEPT !.left = Tail(left)]
         /\ UNCHANGED <<singles, scoped>>
      \/ Forget
  BY DEF ShutdownGoesOn
<1> HIDE DEF left, h
<1>5. h \in entered /\ h \notin ToSet(disposed) /\ disposed \in Seq(Nat) /\ IsInjective(disposed)
  BY <1>0, <1>2, <1>3 DEF DuesInv, EnteredInv, ContainerTypes
<1>6. /\ disposed' \in Seq(Nat) /\ IsInjective(disposed') /\ ToSet(disposed') = ToSet(disposed) \cup {h}
      /\ ToSet(disposed') \subseteq entered
  BY <1>0, <1>1, <1>2, <1>5, Disposed DEF EnteredInv
<1>7. \A c \in Callers : h \notin Due(c)
  BY <1>0, <1>2, <1>3 DEF DuesInv
<1>8. CASE Forget
  <2>1. /\ singles' = Empty /\ scoped' = [x \in {} |-> Empty]
        /\ stopping' \in StopState /\ stopping'.at = "done"
        /\ \A c \in Callers : Due(c)' \subseteq Due(c)
        /\ DueAtStop' = {}
    BY <1>1, <1>8, Forgotten
  <2>2. DuesInv'
    <3>1. /\ \A c \in Callers : Due(c)' \subseteq Due(c) \ {h}
          /\ DueAtStop' \subseteq DueAtStop \ {h} /\ entered' = entered
      BY <1>1, <1>7, <2>1
    <3> QED
      BY <1>0, <1>6, <3>1, DuesFewer
  <2> QED
    BY <1>1, <1>6, <2>1, <2>2, StopKeeps
<1>9. CASE /\ UNCHANGED <<singles, scoped>>
           /\ \/ stopping' = [NotStopping EXCEPT !.at = "failed"]
              \/ Len(left) > 1 /\ stopping' = [stopping EXCEPT !.left = Tail(left)]
  <2>1. /\ stopping' \in StopState /\ stopping'.at \in {"failed", "closing"}
        /\ stopping'.at = "closing" => Remaining(stopping'.left) /\ stopping'.left = Tail(left)
    <3>1. CASE stopping' = [NotStopping EXCEPT !.at = "failed"]
      BY <3>1, NotStoppingIs DEF StopState
    <3>2. CASE Len(left) > 1 /\ stopping' = [stopping EXCEPT !.left = Tail(left)]
      BY <1>1, <1>2, <3>2 DEF StopState
    <3> QED
      BY <1>9, <3>1, <3>2
  <2>2. DueAtStop' \subseteq DueAtStop \ {h}
    BY <1>2, <1>3, <2>1 DEF DueAtStop
  <2>3. \A c \in Callers : Due(c)' \subseteq Due(c)
    BY <1>1, <1>9 DEF Due
  <2>4. DuesInv'
    <3>1. (\A c \in Callers : Due(c)' \subseteq Due(c) \ {h}) /\ entered' = entered
      BY <1>1, <1>7, <2>3
    <3> QED
      BY <1>0, <1>6, <2>2, <3>1, DuesFewer
  <2> QED
    BY <1>1, <1>6, <1>9, <2>1, <2>4, StopKeeps
<1> QED
  BY <1>4, <1>8, <1>9

LEMMA ContainerStarts == ContainerInit => ContainerInv
<1> SUFFICES ASSUME ContainerInit PROVE ContainerInv
  OBVIOUS
<1>1. /\ current = NoScope /\ singles = Empty /\ DOMAIN scoped = {} /\ DOMAIN got = {}
      /\ made = 0 /\ entered = {} /\ disposed = <<>> /\ stopping = NotStopping
      /\ caller = [c \in Callers |-> FreeCaller]
  BY DEF ContainerInit
<1>2. \A c \in Callers : /\ caller[c] \in CallerState /\ caller[c].at = "free"
                         /\ {caller[c].scope, caller[c].outer, caller[c].old} = {NoScope}
  BY <1>1, FreeIs
<1>3. /\ Objects(singles) = {} /\ \A x : Objects(In(scoped, x)) = {}
      /\ DOMAIN singles = {} /\ ToSet(disposed) = {} /\ disposed \in Seq(Nat) /\ IsInjective(disposed)
  <2>1. ToSet(disposed) = {} /\ disposed \in Seq(Nat) /\ IsInjective(disposed)
    BY <1>1 DEF ToSet, IsInjective
  <2> QED
    BY <1>1, <2>1, NoneIs, NoObjects
<1>4. stopping \in StopState /\ stopping.at = "no"
  BY <1>1 DEF NotStopping, StopState, Sizes
<1>5. ContainerTypes
  BY <1>1, <1>2, <1>3, <1>4 DEF ContainerTypes
<1>6. ScopesInv
  BY <1>1, <1>2 DEF ScopesInv, Opened
<1>7. IsolatedInv
  BY <1>1, <1>2 DEF IsolatedInv, Instances
<1>8. DuesInv
  <2>1. (\A c \in Callers : Due(c) = {}) /\ DueAtStop = {}
    BY <1>2, <1>3, <1>4 DEF Due, DueAtStop
  <2> QED
    BY <2>1 DEF DuesInv
<1>9. LoopsInv
  BY <1>2, <1>4 DEF LoopsInv
<1>10. EnteredInv
  BY <1>1, <1>2, <1>3 DEF EnteredInv
<1> QED
  BY <1>5, <1>6, <1>7, <1>8, <1>9, <1>10 DEF ContainerInv

LEMMA ContainerKept == ContainerInv /\ [ContainerNext]_containerVars => ContainerInv'
<1> SUFFICES ASSUME ContainerInv, [ContainerNext]_containerVars PROVE ContainerInv'
  OBVIOUS
<1>1. ASSUME NEW c \in Callers, OpenScope(c) PROVE ContainerInv'
  BY <1>1, OpenKeeps
<1>2. ASSUME NEW c \in Callers, CloseScope(c) PROVE ContainerInv'
  BY <1>2, CloseKeeps
<1>3. ASSUME NEW c \in Callers, DisposalReturns(c) PROVE ContainerInv'
  BY <1>3, DisposalKeeps
<1>4. ASSUME NEW c \in Callers, DisposalRaises(c) PROVE ContainerInv'
  BY <1>4, RaisesKeeps
<1>5. ASSUME NEW c \in Callers, EnterReturns(c) PROVE ContainerInv'
  BY <1>5, ReturnsKeeps
<1>6. ASSUME NEW c \in Callers, EnterFails(c) PROVE ContainerInv'
  BY <1>6, FailsKeeps
<1>7. ASSUME NEW c \in Callers, NEW s \in Services, GetFromScope(c, s) \/ GetDirect(c, s)
      PROVE  ContainerInv'
  BY <1>7, GetKeeps
<1>8. ASSUME NEW c \in Callers, NEW s \in Services, BeginEnter(c, s) PROVE ContainerInv'
  BY <1>8, BeginKeeps
<1>9. CASE Shutdown \/ ShutdownGoesOn
  BY <1>9, ShutdownKeeps, ShutdownGoesOnKeeps
<1>10. CASE UNCHANGED containerVars
  <2>1. UNCHANGED <<current, singles, scoped, caller, made, entered, disposed, got, stopping>>
    BY <1>10 DEF containerVars
  <2>2. ContainerTypes' = ContainerTypes /\ ScopesInv' = ScopesInv /\ IsolatedInv' = IsolatedInv
    BY <2>1 DEF ContainerTypes, ScopesInv, Opened, IsolatedInv
  <2>3. (\A c \in Callers : Due(c)' = Due(c)) /\ DueAtStop' = DueAtStop
    BY <2>1 DEF Due, DueAtStop
  <2>4. DuesInv' = DuesInv
    BY <2>1, <2>3 DEF DuesInv
  <2>5. LoopsInv' = LoopsInv /\ EnteredInv' = EnteredInv
    BY <2>1 DEF LoopsInv, EnteredInv
  <2> QED
    BY <2>2, <2>4, <2>5 DEF ContainerInv
<1> QED
  BY <1>1, <1>2, <1>3, <1>4, <1>5, <1>6, <1>7, <1>8, <1>9, <1>10 DEF ContainerNext

LEMMA ContainerInvariant == ContainerSpec => []ContainerInv
BY ContainerStarts, ContainerKept, PTL DEF ContainerSpec

(* What the handle of a scope returned it returns as long as the scope is  *)
(* open, and no other scope's handle ever returns it, although every       *)
(* coroutine changes the one current scope (create_scope, get_service).    *)
THEOREM ScopesIsolated == ContainerSpec => []SyncScopeIsolated
<1>1. ContainerInv => SyncScopeIsolated
  <2> SUFFICES ASSUME ContainerInv PROVE SyncScopeIsolated
    OBVIOUS
  <2>1. IsolatedInv
    BY DEF ContainerInv
  <2>2. \A x : InScope(x) = In(scoped, x)
    BY DEF InScope, In
  <2> QED
    BY <2>1, <2>2 DEF IsolatedInv, Shows, Instances, SyncScopeIsolated
<1> QED
  BY <1>1, ContainerInvariant, PTL

(* Every async object that is kept was entered, and none is disposed of    *)
(* twice or without having been entered, by the end of a scope or by       *)
(* shutdown_async, whichever coroutine's scope it is kept in.              *)
THEOREM ObjectsLive == ContainerSpec => []LifecycleKept
<1>1. ContainerInv => LifecycleKept
  <2> SUFFICES ASSUME ContainerInv PROVE LifecycleKept
    OBVIOUS
  <2>1. EnteredInv
    BY DEF ContainerInv
  <2>2. \A s \in DOMAIN singles : IsAsync(s) => singles[s] \in Objects(singles)
    BY DEF Objects
  <2>3. \A x \in DOMAIN scoped : \A s \in DOMAIN scoped[x] :
          IsAsync(s) => scoped[x][s] \in Objects(In(scoped, x))
    BY DEF Objects, In
  <2> QED
    BY <2>1, <2>2, <2>3 DEF EnteredInv, LifecycleKept
<1> QED
  BY <1>1, ContainerInvariant, PTL
===============================================================================
