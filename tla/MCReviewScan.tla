---------------------------- MODULE MCReviewScan ----------------------------
(* Job names and the entries their prefix names, for the instances.        *)
EXTENDS ReviewScan, TLC

CONSTANTS e1, e2, j1, j2, j3

TwoAndOne == (j1 :> e1) @@ (j2 :> e1) @@ (j3 :> e2)
=============================================================================
