------------------------------- MODULE JobQueue -------------------------------
(***************************************************************************)
(* The part of BullMQ the processors rely on, for one queue: the life of a *)
(* job from queue.add to its removal.  BullMQ is a dependency; what is     *)
(* stated here is how the options in outbox-dispatcher.service.ts and      *)
(* queues.module.ts, and the job fields the processors read, use it.       *)
(*                                                                         *)
(* A worker that takes a job holds its lock.  When the lock is not renewed *)
(* (the process died, or its event loop was blocked) the job counts as     *)
(* stalled and becomes available again, although a live holder still       *)
(* executes it; that holder's outcome is then refused.                     *)
(***************************************************************************)
EXTENDS Naturals, FiniteSets

CONSTANTS Jobs,             \* outbox events with a job in this queue
          Workers,          \* concurrent executions of the processor
          NoWorker,
          MaxJobAttempts,   \* attempts given to queue.add (3 in the code)
          MaxStalledCount   \* BullMQ's maxStalledCount (1 by default)

ASSUME QueueAssumption ==
  /\ MaxJobAttempts \in Nat \ {0} /\ MaxStalledCount \in Nat
  /\ IsFiniteSet(Workers) /\ NoWorker \notin Workers

VARIABLES bull,     \* state of the job in Redis
          made,     \* job.attemptsMade
          lock,     \* the worker whose lock on the job is valid
          stalled   \* how often the job stalled

queue == <<bull, made, lock, stalled>>

BullStates == {"unknown", "waiting", "active", "completed", "failed"}

QueueTypeOK ==
  /\ bull \in [Jobs -> BullStates]
  /\ made \in [Jobs -> 0 .. MaxJobAttempts]
  /\ lock \in [Jobs -> Workers \cup {NoWorker}]
  /\ stalled \in [Jobs -> 0 .. MaxStalledCount]
  /\ \A j \in Jobs : lock[j] # NoWorker => bull[j] = "active"

QueueInit ==
  /\ bull = [j \in Jobs |-> "unknown"]
  /\ made = [j \in Jobs |-> 0]
  /\ lock = [j \in Jobs |-> NoWorker]
  /\ stalled = [j \in Jobs |-> 0]

\* queue.add of a job id Redis does not know (any more).
Add(j) ==
  /\ bull[j] = "unknown"
  /\ bull' = [bull EXCEPT ![j] = "waiting"]
  /\ made' = [made EXCEPT ![j] = 0]
  /\ stalled' = [stalled EXCEPT ![j] = 0]
  /\ UNCHANGED lock

\* A worker takes the job.
Take(w, j) ==
  /\ bull[j] = "waiting"
  /\ bull' = [bull EXCEPT ![j] = "active"]
  /\ lock' = [lock EXCEPT ![j] = w]
  /\ UNCHANGED <<made, stalled>>

\* The processor returned; refused unless the worker still has the lock.
Succeed(w, j) ==
  IF lock[j] = w
    THEN /\ bull' = [bull EXCEPT ![j] = "completed"]
         /\ made' = [made EXCEPT ![j] = @ + 1]
         /\ lock' = [lock EXCEPT ![j] = NoWorker]
         /\ UNCHANGED stalled
    ELSE UNCHANGED queue

\* The processor threw: back to the queue after the back-off, or failed for good.
FailAttempt(w, j) ==
  IF lock[j] = w
    THEN /\ bull' = [bull EXCEPT
              ![j] = IF made[j] + 1 >= MaxJobAttempts THEN "failed" ELSE "waiting"]
         /\ made' = [made EXCEPT ![j] = @ + 1]
         /\ lock' = [lock EXCEPT ![j] = NoWorker]
         /\ UNCHANGED stalled
    ELSE UNCHANGED queue

\* The stalled-job check finds an active job without a renewed lock.
Stall(j) ==
  /\ bull[j] = "active"
  /\ lock' = [lock EXCEPT ![j] = NoWorker]
  /\ IF stalled[j] = MaxStalledCount
       THEN bull' = [bull EXCEPT ![j] = "failed"] /\ UNCHANGED stalled
       ELSE /\ bull' = [bull EXCEPT ![j] = "waiting"]
            /\ stalled' = [stalled EXCEPT ![j] = @ + 1]
  /\ UNCHANGED made

\* removeOnComplete: 100.  Failed jobs are kept (removeOnFail: false).
Remove(j) ==
  /\ bull[j] = "completed"
  /\ bull' = [bull EXCEPT ![j] = "unknown"]
  /\ UNCHANGED <<made, lock, stalled>>

===============================================================================
