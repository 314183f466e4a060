----------------------------- MODULE MCInvitations -----------------------------
(* Invitations on small instances: one or two users and invitations, a few      *)
(* requests and one or two processes.                                           *)
EXTENDS Invitations, TLC

CONSTANTS u1, u2, r1, r2, r3, p1, p2, i1, i2

OneUser == {u1}
TwoUsers == {u1, u2}
TwoRequests == {r1, r2}
ThreeRequests == {r1, r2, r3}
OneProcess == {p1}
TwoProcesses == {p1, p2}
OneSent == {i1}
TwoSent == {i1, i2}
MCSymmetry == Permutations(TwoUsers) \cup Permutations(ThreeRequests)
              \cup Permutations(TwoProcesses) \cup Permutations(TwoSent)
===============================================================================
