---------------------------- MODULE MCContentPipeline ----------------------------
(***************************************************************************)
(* Instances of ContentPipeline for TLC.                                   *)
(***************************************************************************)
EXTENDS ContentPipeline, TLC

ReplicaSymmetry == Permutations(Replicas) \cup Permutations(Copies)
===============================================================================
