-------------------------------- MODULE HttpClient --------------------------------
(***************************************************************************)
(* HttpRequestClient and OAuthClientCredentials (utils/http_request.py):   *)
(* coroutines that share a client send requests with retries, some of them *)
(* polling until the answer is there, with a token that is fetched under a *)
(* lock.  An action runs from one await to the next; the servers and the   *)
(* clock are external.                                                     *)
(***************************************************************************)
EXTENDS Integers, SequencesExt, FiniteSetsExt

CONSTANTS
  Senders,        \* the coroutines
  Unlocked,       \* nobody holds the lock
  TokenLives,     \* the expires_in that the token endpoint answers with
  Margin,         \* the token's last seconds, in which it is fetched anew
  MaxTries,       \* retry_attempts
  PollTimeout,    \* timeout_seconds of poll_until_done
  MaxTime         \* bound: the clock

ASSUME HttpAssumption ==
  /\ Unlocked \notin Senders /\ TokenLives \subseteq Nat
  /\ MaxTries \in Nat \ {0} /\ {Margin, PollTimeout, MaxTime} \subseteq Nat

VARIABLES
  now,
  lock,      \* who holds the lock of the token
  expires,   \* _expires_at of the token, 0 when there is none
  sender,    \* what each coroutine does: [at, tries, start, polling, result]
  fetched    \* history: when each token was fetched, and when it expires

httpVars == <<now, lock, expires, sender, fetched>>

IdleSender == [at |-> "idle", tries |-> 0, start |-> 0, polling |-> FALSE, result |-> "none"]

HttpInit ==
  /\ now = 0 /\ lock = Unlocked /\ expires = 0 /\ fetched = <<>>
  /\ sender = [u \in Senders |-> IdleSender]

Goes(u, r) == sender' = [sender EXCEPT ![u] = r]

Ends(u, result) == Goes(u, [IdleSender EXCEPT !.at = "done", !.result = result])

(* request, or poll_until_done with a request in every turn of its loop.   *)
SendRequest(u) ==
  /\ sender[u].at = "idle"
  /\ \E polling \in BOOLEAN :
       Goes(u, [sender[u] EXCEPT !.at = "headers", !.polling = polling,
                                 !.start = IF polling THEN now ELSE 0])
  /\ UNCHANGED <<now, lock, expires, fetched>>

-------------------------------------------------------------------------------
(* _build_headers and get_token.                                           *)
Fresh == expires > 0 /\ now < expires - Margin

(* Mutant: who has found the token stale fetches one, whatever happened    *)
(* before the lock was free.                                               *)
GetTokenUnlocked(u) ==
  /\ sender[u].at = "headers"
  /\ IF Fresh THEN Goes(u, [sender[u] EXCEPT !.at = "send"])
     ELSE Goes(u, [sender[u] EXCEPT !.at = "fetch"])
  /\ UNCHANGED <<now, lock, expires, fetched>>

GetToken(u) ==
  /\ sender[u].at = "headers" /\ lock = Unlocked
  /\ IF Fresh THEN Goes(u, [sender[u] EXCEPT !.at = "send"]) /\ UNCHANGED lock
     ELSE Goes(u, [sender[u] EXCEPT !.at = "fetch"]) /\ lock' = u
  /\ UNCHANGED <<now, expires, fetched>>

TokenReturns(u) ==
  /\ sender[u].at = "fetch"
  /\ \E life \in TokenLives :
       /\ expires' = now + life
       /\ fetched' = Append(fetched, [at |-> now, expires |-> expires'])
  /\ lock' = Unlocked
  /\ Goes(u, [sender[u] EXCEPT !.at = "send"])
  /\ UNCHANGED now

(* A ClientError or a timeout is one of the attempt; any other error of    *)
(* the token endpoint ends the request.                                    *)
Attempts(u) == sender[u].tries + 1

TokenFails(u) ==
  /\ sender[u].at = "fetch"
  /\ lock' = Unlocked
  /\ \/ Ends(u, "error")
     \/ /\ Attempts(u) < MaxTries
        /\ Goes(u, [sender[u] EXCEPT !.at = "wait", !.tries = Attempts(u)])
  /\ UNCHANGED <<now, expires, fetched>>

-------------------------------------------------------------------------------
(* The answer: one that is expected, which ends a request; or a pending    *)
(* one of a poll.                                                          *)
AnswerReceived(u) ==
  /\ sender[u].at = "send"
  /\ \/ Ends(u, "answer")
     \/ sender[u].polling /\ Goes(u, [sender[u] EXCEPT !.at = "pause"])
  /\ UNCHANGED <<now, lock, expires, fetched>>

(* A ClientError, a timeout, or a status of retry_statuses: again after a  *)
(* while, for every method, and with new headers.                          *)
Retried(u) ==
  /\ sender[u].at = "send" /\ Attempts(u) < MaxTries
  /\ Goes(u, [sender[u] EXCEPT !.at = "wait", !.tries = Attempts(u)])
  /\ UNCHANGED <<now, lock, expires, fetched>>

(* Another status, or the attempts are used up.                            *)
Rejected(u) ==
  /\ sender[u].at = "send"
  /\ Ends(u, "error")
  /\ UNCHANGED <<now, lock, expires, fetched>>

Waited(u) ==
  /\ sender[u].at = "wait"
  /\ Goes(u, [sender[u] EXCEPT !.at = "headers"])
  /\ UNCHANGED <<now, lock, expires, fetched>>

(* The top of poll_until_done's loop, the only place that looks at the     *)
(* time.                                                                   *)
PollAgain(u) ==
  /\ sender[u].at = "pause"
  /\ IF now - sender[u].start > PollTimeout THEN Ends(u, "timeout")
     ELSE Goes(u, [sender[u] EXCEPT !.at = "headers", !.tries = 0])
  /\ UNCHANGED <<now, lock, expires, fetched>>

Second == now < MaxTime /\ now' = now + 1 /\ UNCHANGED <<lock, expires, sender, fetched>>

HttpNext ==
  \/ \E u \in Senders :
       \/ SendRequest(u) \/ GetToken(u) \/ TokenReturns(u) \/ TokenFails(u)
       \/ AnswerReceived(u) \/ Retried(u) \/ Rejected(u) \/ Waited(u) \/ PollAgain(u)
  \/ Second

HttpSpec == HttpInit /\ [][HttpNext]_httpVars

-------------------------------------------------------------------------------
(* The coroutines share the token: however many find it stale at once, one *)
(* of them fetches, the next one only when that token is about to expire,  *)
(* and nobody sends without one, even when a fetch before has failed.      *)
TokenShared ==
  /\ \A i \in 1 .. Len(fetched) - 1 : fetched[i + 1].at >= fetched[i].expires - Margin
  /\ \A u \in Senders : sender[u].at \in {"send", "pause"} => fetched # <<>>
  /\ Cardinality({u \in Senders : sender[u].at = "fetch"}) <= 1
===============================================================================
