------------------------------- MODULE MCGroupChat -------------------------------
(***************************************************************************)
(* GroupChat with two reviewers and what a Coordinator may say.            *)
(***************************************************************************)
EXTENDS GroupChat

CONSTANTS r1, r2

Says(to, ask, finish) == [to |-> to, ask |-> ask, finish |-> finish]

Sayings ==
  {Says(r1, "review", FALSE), Says(r2, "review", FALSE), Says(Nobody, "complete", FALSE),
   Says(Nobody, "blocked", TRUE), Says(Nobody, NoAsk, TRUE)}

Lengths ==
  [t \in Signs \union {NoText} |-> IF t = Pass THEN 3 ELSE IF t = NoText THEN 4 ELSE 6]

FirstLimit == [messages |-> 3, total |-> 10, each |-> 5, cut |-> 4]
RetryLimit == [messages |-> 2, total |-> 5, each |-> 4, cut |-> 2]
===============================================================================
