---------------------------- MODULE MCClaimWorkflow ----------------------------
(* One or three documents.                                                 *)
EXTENDS ClaimWorkflow, TLC

CONSTANTS d1, d2, d3

OneDoc == {d1}
ThreeDocs == {d1, d2, d3}
Symmetry == Permutations(ThreeDocs)
===============================================================================
