------------------------------- MODULE Supervision -------------------------------
(***************************************************************************)
(* What the host of the step handlers promises: a handler that has ended   *)
(* is started again, for ever.                                             *)
(***************************************************************************)
CONSTANT Handlers

VARIABLE up      \* the handlers that run

Init == up = {}

Start(n) == n \in Handlers \ up /\ up' = up \cup {n}

End(n) == n \in up /\ up' = up \ {n}

Next == \E n \in Handlers : Start(n) \/ End(n)

Safety == Init /\ [][Next]_up

Spec == Safety /\ \A n \in Handlers : WF_up(Start(n))
===============================================================================
