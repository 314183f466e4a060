------------------------------- MODULE MCSessions -------------------------------
(* Sessions on a small instance: three requests for one account.               *)
EXTENDS Sessions, TLC

CONSTANTS r1, r2, r3, p1, p2

ThreeRequests == {r1, r2, r3}
TwoPasswords == {p1, p2}
MCSymmetry == Permutations(ThreeRequests) \cup Permutations(TwoPasswords)
===============================================================================
