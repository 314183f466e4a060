----------------------------- MODULE JobExecution -----------------------------
(***************************************************************************)
(* What the four processors have in common: a worker takes a job, executes *)
(* process(job) await by await, and reports the outcome to BullMQ; it may  *)
(* lose its lock or die on the way; the outbox adds the job, again if it   *)
(* could not record that it had done so (outbox-dispatcher.service.ts).    *)
(* The modules of the processors supply the points a handler goes through. *)
(***************************************************************************)
EXTENDS JobQueue

CONSTANTS MaxCallFaults,    \* bound: rejected MongoDB and Redis calls
          MaxLosses,        \* bound: locks lost by a live or dying worker
          MaxAdds           \* bound: times the outbox adds the same job

NoJob == "none"

ASSUME ExecutionBoundsAssumption ==
  /\ MaxCallFaults \in Nat /\ MaxLosses \in Nat /\ MaxAdds \in Nat
  /\ NoJob \notin Jobs

VARIABLES at,         \* where each execution of a processor stands
          on,         \* the job it executes
          attempt,    \* job.attemptsMade + 1 as read from its job object
          added,      \* history: how often the job was added
          faults      \* failures that occurred, by kind

executionVars == <<at, on, attempt>>

ExecutionTypeOK(points) ==
  /\ QueueTypeOK
  /\ at \in [Workers -> points]
  /\ on \in [Workers -> Jobs \cup {NoJob}]
  /\ attempt \in [Workers -> 0 .. MaxJobAttempts]
  /\ added \in [Jobs -> 0 .. MaxAdds]
  /\ faults \in [call : 0 .. MaxCallFaults, loss : 0 .. MaxLosses]
  /\ \A w \in Workers : at[w] = "idle" <=> on[w] = NoJob

ExecutionInit ==
  /\ QueueInit
  /\ at = [w \in Workers |-> "idle"]
  /\ on = [w \in Workers |-> NoJob]
  /\ attempt = [w \in Workers |-> 0]
  /\ added = [j \in Jobs |-> 0]
  /\ faults = [call |-> 0, loss |-> 0]

Goto(w, p) == at' = [at EXCEPT ![w] = p]

\* Of queue and execution, only the position of w changes.
Proceed(w, p) == Goto(w, p) /\ UNCHANGED <<queue, on, attempt, added, faults>>

\* w, idle, is handed job j and begins at point p.
Enter(w, j, p) ==
  /\ at[w] = "idle"
  /\ Take(w, j)
  /\ Goto(w, p)
  /\ on' = [on EXCEPT ![w] = j]
  /\ attempt' = [attempt EXCEPT ![w] = made[j] + 1]
  /\ UNCHANGED <<added, faults>>

Idle(w) ==
  /\ Goto(w, "idle")
  /\ on' = [on EXCEPT ![w] = NoJob]
  /\ attempt' = [attempt EXCEPT ![w] = 0]

\* Mutant of Settle: the promise of a handler that threw is never settled.
SettleOnlySuccess(w) ==
  /\ at[w] = "returned"
  /\ Succeed(w, on[w])
  /\ Idle(w)
  /\ UNCHANGED <<added, faults>>

\* process returned or threw, and the worker reports it to Redis.
Settle(w) ==
  /\ at[w] \in {"returned", "thrown"}
  /\ IF at[w] = "returned" THEN Succeed(w, on[w]) ELSE FailAttempt(w, on[w])
  /\ Idle(w)
  /\ UNCHANGED <<added, faults>>

\* Mutant of IsFinalAttempt: one attempt too early.
IsFinalAttemptEarly(w) == attempt[w] + 1 >= MaxJobAttempts

IsFinalAttempt(w) == attempt[w] >= MaxJobAttempts

CallFault ==
  /\ faults.call < MaxCallFaults
  /\ faults' = [faults EXCEPT !.call = @ + 1]

\* The lock of a worker that goes on working expires.
LoseLock(j) ==
  /\ lock[j] # NoWorker
  /\ faults.loss < MaxLosses
  /\ faults' = [faults EXCEPT !.loss = @ + 1]
  /\ Stall(j)
  /\ UNCHANGED <<executionVars, added>>

\* The process dies in the middle of the handler; its lock will not be renewed.
Die(w) ==
  /\ at[w] # "idle"
  /\ faults.loss < MaxLosses
  /\ faults' = [faults EXCEPT !.loss = @ + 1]
  /\ lock' = [j \in Jobs |-> IF lock[j] = w THEN NoWorker ELSE lock[j]]
  /\ Idle(w)
  /\ UNCHANGED <<bull, made, stalled, added>>

\* The stalled-job check of BullMQ finds the job of a dead worker.
Rescue(j) ==
  /\ lock[j] = NoWorker
  /\ Stall(j)
  /\ UNCHANGED <<executionVars, added, faults>>

\* queue.add by the dispatcher.
Readd(j) ==
  /\ added[j] < MaxAdds
  /\ Add(j)
  /\ added' = [added EXCEPT ![j] = @ + 1]
  /\ UNCHANGED <<executionVars, faults>>

Forget(j) == Remove(j) /\ UNCHANGED <<executionVars, added, faults>>
===============================================================================
