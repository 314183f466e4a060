---------------------------- MODULE MCIdempotency -----------------------------
(* Idempotency on a small instance: three requests that are retries of one    *)
(* another, and a fourth that uses the same key by mistake.                   *)
EXTENDS Idempotency, TLC

CONSTANTS q1, q2, q3, q4, b1, b2

MCRequests == {q1, q2, q3, q4}
MCBodies == {b1, b2}
MCSymmetry == Permutations(MCRequests \ {q4})
MCBody == [r \in MCRequests |-> IF r = q4 THEN b2 ELSE b1]
===============================================================================
