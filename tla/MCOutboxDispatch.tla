--------------------------- MODULE MCOutboxDispatch ---------------------------
(* OutboxDispatch on small instances: three runs of the cron in two processes. *)
EXTENDS OutboxDispatch, TLC

CONSTANTS r1, r2, r3, n1, n2

MCRuns == {r1, r2, r3}
MCNodes == {n1, n2}
MCHost == (r1 :> n1) @@ (r2 :> n1) @@ (r3 :> n2)
===============================================================================
