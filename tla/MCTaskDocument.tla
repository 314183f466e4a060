---------------------------- MODULE MCTaskDocument ----------------------------
(* TaskDocument on small instances: a few requests on one task. *)
EXTENDS TaskDocument, TLC

CONSTANTS r1, r2, r3

TwoRequests == {r1, r2}
ThreeRequests == {r1, r2, r3}
MCSymmetry == Permutations(ThreeRequests)
===============================================================================
