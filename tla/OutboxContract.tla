---------------------------- MODULE OutboxContract ----------------------------
(***************************************************************************)
(* What the transactional outbox promises the rest of the system, without  *)
(* the dispatcher, its claims, its back-off or its failures.               *)
(*                                                                         *)
(* An event is accepted when the producer's write commits.  The relay then *)
(* hands it to its BullMQ queue, perhaps more than once, and acknowledges  *)
(* it only after it was handed over.  Nothing is handed over once it was   *)
(* acknowledged.  README.md:178 calls this "At-least-once event dispatch". *)
(***************************************************************************)
EXTENDS Naturals

CONSTANT Events       \* the events producers may write

VARIABLES accepted,   \* events whose row is committed
          handed,     \* how often a job was created for the event
          acked       \* events the outbox will not look at again

vars == <<accepted, handed, acked>>

Init ==
  /\ accepted = {}
  /\ handed = [e \in Events |-> 0]
  /\ acked = {}

Accept(e) ==
  /\ e \notin accepted
  /\ accepted' = accepted \cup {e}
  /\ UNCHANGED <<handed, acked>>

HandOver(e) ==
  /\ e \in accepted \ acked
  /\ handed' = [handed EXCEPT ![e] = @ + 1]
  /\ UNCHANGED <<accepted, acked>>

Ack(e) ==
  /\ e \in accepted \ acked
  /\ handed[e] > 0
  /\ acked' = acked \cup {e}
  /\ UNCHANGED <<accepted, handed>>

Next == \E e \in Events : Accept(e) \/ HandOver(e) \/ Ack(e)

SafeSpec == Init /\ [][Next]_vars
===============================================================================
