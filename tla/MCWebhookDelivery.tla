--------------------------- MODULE MCWebhookDelivery ---------------------------
(* WebhookDelivery on small instances: one event, two webhooks, two workers. *)
EXTENDS WebhookDelivery, TLC

CONSTANTS j1, w1, w2, h1, h2

MCJobs == {j1}
MCWorkers == {w1, w2}
MCHooks == {h1, h2}
MCSymmetry == Permutations(MCWorkers) \cup Permutations(MCHooks)
===============================================================================
