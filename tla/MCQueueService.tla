----------------------------- MODULE MCQueueService -----------------------------
(***************************************************************************)
(* Instances of QueueService for TLC: two worker loops, in one replica or  *)
(* in two.                                                                 *)
(***************************************************************************)
EXTENDS QueueService, TLC

CONSTANTS m1, m2, w1, w2, r1, r2

OneReplica == [w \in {w1, w2} |-> r1]
TwoReplicas == w1 :> r1 @@ w2 :> r2
===============================================================================
