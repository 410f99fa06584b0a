----------------------------- MODULE ClaimDelivery -----------------------------
(***************************************************************************)
(* What the claim queue worker promises for every request that the API     *)
(* puts on claim-process-queue, without queues, leases, receipts, workers  *)
(* or replicas: a request leaves the queue only after it has an outcome,   *)
(* and every request gets one.  An outcome may be reached more than once,  *)
(* and by more than one way: the service is at-least-once.                 *)
(***************************************************************************)

CONSTANT Msgs     \* the requests on the queue

Outcomes == {"done", "dead", "killed"}

VARIABLES
  pending,        \* the requests that are still on the queue
  reached         \* the outcomes each request has reached so far

vars == <<pending, reached>>

Init ==
  /\ pending = Msgs
  /\ reached = [m \in Msgs |-> {}]

(* An outcome of m is recorded: its workflow ran to the end, its payload   *)
(* was stored in the dead-letter queue, or it was killed by an operator.   *)
Reach(m, o) ==
  /\ reached' = [reached EXCEPT ![m] = @ \cup {o}]
  /\ UNCHANGED pending

(* m leaves the queue; a kill records its outcome in the same step.        *)
Remove(m, o) ==
  /\ m \in pending
  /\ reached[m] \cup o # {}
  /\ pending' = pending \ {m}
  /\ reached' = [reached EXCEPT ![m] = @ \cup o]

Next ==
  \E m \in Msgs :
    \/ \E o \in Outcomes : Reach(m, o)
    \/ Remove(m, {})
    \/ Remove(m, {"killed"})

Safety == Init /\ [][Next]_vars

Answered == \A m \in Msgs : <>(reached[m] # {})

Spec == Safety /\ Answered
===============================================================================
