----------------------------- MODULE MCJobWorkers -----------------------------
(* JobWorkers on small instances; the kind of each job is chosen initially. *)
EXTENDS JobWorkers

CONSTANTS j1, w1, w2

MCJobs == {j1}
MCWorkers == {w1, w2}
===============================================================================
