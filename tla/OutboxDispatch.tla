---------------------------- MODULE OutboxDispatch ----------------------------
(***************************************************************************)
(* The outbox collection and the cron that relays it to BullMQ:            *)
(* OutboxRepository (outbox.repository.ts) and                             *)
(* OutboxDispatcherService.dispatchPending                                 *)
(* (outbox-dispatcher.service.ts).                                         *)
(*                                                                         *)
(* @Cron starts a run of dispatchPending every five seconds in every       *)
(* process of the application, whether or not an earlier run has ended, so *)
(* several runs work on the collection at once.  Each await of a run is a  *)
(* step of its own.  A Redis or MongoDB call may reject before or after it *)
(* took effect, and a process may die between any two steps.               *)
(*                                                                         *)
(* Abstracted: payloads, event types and lastError are not represented     *)
(* (every event type a producer writes has a queue in getQueue), and the   *)
(* clock is reduced to whether availableAt lies in the future.             *)
(***************************************************************************)
EXTENDS Integers, FiniteSets

CONSTANTS NumEvents,       \* bound: events ever written; their number is the
                           \* order of their createdAt stamps
          Runs,            \* bound: simultaneous runs of dispatchPending
          Nodes,           \* application processes
          Host,            \* the process a run executes in
          Limit,           \* findPending's limit (50 in the code)
          MaxAttempts,     \* maxAttempts of markFailed (5 in the code)
          MaxRedisFaults,  \* bound: rejected queue.add calls
          MaxMongoFaults,  \* bound: rejected repository calls of a run
          MaxCrashes       \* bound: process deaths

ASSUME BoundsAssumption ==
  /\ NumEvents \in Nat /\ Limit \in Nat \ {0} /\ MaxAttempts \in Nat
  /\ MaxRedisFaults \in Nat /\ MaxMongoFaults \in Nat /\ MaxCrashes \in Nat

ASSUME HostAssumption == Host \in [Runs -> Nodes] /\ IsFiniteSet(Runs)

Events == 1 .. NumEvents
NoEvent == 0

VARIABLES status,       \* status of the outbox document, "ABSENT" before commit
          attempts,     \* attempts of the document
          availableAt,  \* "UNSET", or whether the date is still in the FUTURE
          job,          \* the BullMQ job whose jobId is the event's id
          handed,       \* history: how often such a job was created
          pc,           \* where each run of dispatchPending stands
          batch,        \* events of the run's findPending not yet looped over
          current,      \* the event the run has claimed
          seen,         \* attempts as read by markFailed's findById
          faults        \* failures that occurred, by kind

docVars == <<status, attempts, availableAt>>
queueVars == <<job, handed>>
runVars == <<pc, batch, current, seen>>
vars == <<docVars, queueVars, runVars, faults>>

Claimable == {"PENDING", "FAILED"}
StatusSet == Claimable \cup {"ABSENT", "PROCESSING", "COMPLETED"}

\* Points at which a run works on an event it has claimed.
HoldingPoints == {"add", "complete", "failRead", "failWrite"}
Points == HoldingPoints \cup {"idle", "loop"}

TypeOK ==
  /\ status \in [Events -> StatusSet]
  /\ attempts \in [Events -> Nat]
  /\ availableAt \in [Events -> {"UNSET", "FUTURE", "PAST"}]
  /\ job \in [Events -> {"NONE", "KEPT", "REMOVED"}]
  /\ handed \in [Events -> Nat]
  /\ pc \in [Runs -> Points]
  /\ batch \in [Runs -> SUBSET Events]
  /\ current \in [Runs -> Events \cup {NoEvent}]
  /\ seen \in [Runs -> Nat]
  /\ faults \in [redis : Nat, mongo : Nat, crash : Nat]

Holding(r) == pc[r] \in HoldingPoints

-------------------------------------------------------------------------------
(* The documents: outbox.repository.ts                                     *)

\* Mutant of Eligible: FAILED events are not looked for.
EligibleOnlyPending(e) == status[e] = "PENDING" /\ availableAt[e] \in {"UNSET", "PAST"}

\* findPending's filter.
Eligible(e) == status[e] \in Claimable /\ availableAt[e] \in {"UNSET", "PAST"}

\* findPending(limit, now): the Limit oldest eligible events.
FindPending ==
  {e \in Events : /\ Eligible(e)
                  /\ Cardinality({f \in 1 .. (e - 1) : Eligible(f)}) < Limit}

\* Mutant of MarkProcessing: the status is set whatever it was.
MarkProcessingUnfiltered(e) ==
  /\ status' = [status EXCEPT ![e] = "PROCESSING"]
  /\ attempts' = [attempts EXCEPT ![e] = @ + 1]
  /\ UNCHANGED availableAt

\* markProcessing: one findOneAndUpdate, filtered on the status alone.
MarkProcessing(e) ==
  /\ status[e] \in Claimable
  /\ status' = [status EXCEPT ![e] = "PROCESSING"]
  /\ attempts' = [attempts EXCEPT ![e] = @ + 1]
  /\ UNCHANGED availableAt

\* markCompleted: one findOneAndUpdate, a no-op unless PROCESSING.
MarkCompleted(e) ==
  /\ status' = IF status[e] = "PROCESSING"
                 THEN [status EXCEPT ![e] = "COMPLETED"] ELSE status
  /\ UNCHANGED <<attempts, availableAt>>

\* Mutant of MarkFailed: the update is not filtered on PROCESSING.
MarkFailedUnfiltered(e, n) ==
  /\ status' = [status EXCEPT ![e] = "FAILED"]
  /\ availableAt' = [availableAt EXCEPT
       ![e] = IF n >= MaxAttempts THEN "UNSET" ELSE "FUTURE"]
  /\ UNCHANGED attempts

\* The update of markFailed, after its findById returned n attempts: a no-op
\* unless PROCESSING.  At the maximum availableAt is removed.
MarkFailed(e, n) ==
  IF status[e] = "PROCESSING"
    THEN /\ status' = [status EXCEPT ![e] = "FAILED"]
         /\ availableAt' = [availableAt EXCEPT
              ![e] = IF n >= MaxAttempts THEN "UNSET" ELSE "FUTURE"]
         /\ UNCHANGED attempts
    ELSE UNCHANGED docVars

\* queue.add with jobId: does nothing while BullMQ knows a job of that id.
QueueAdd(e) ==
  IF job[e] = "KEPT"
    THEN UNCHANGED queueVars
    ELSE /\ job' = [job EXCEPT ![e] = "KEPT"]
         /\ handed' = [handed EXCEPT ![e] = @ + 1]

-------------------------------------------------------------------------------
(* One run of dispatchPending                                              *)

\* A run goes to point p with claimed event e.
Goto(r, p, e) ==
  /\ pc' = [pc EXCEPT ![r] = p]
  /\ current' = [current EXCEPT ![r] = e]

\* The run is done with its event: next iteration of the loop, or the end.
NextIteration(r) == Goto(r, IF batch[r] = {} THEN "idle" ELSE "loop", NoEvent)

\* An exception leaves dispatchPending: the rest of the batch is dropped.
Abort(r) ==
  /\ Goto(r, "idle", NoEvent)
  /\ batch' = [batch EXCEPT ![r] = {}]
  /\ seen' = [seen EXCEPT ![r] = 0]

RedisFault == /\ faults.redis < MaxRedisFaults
              /\ faults' = [faults EXCEPT !.redis = @ + 1]
MongoFault == /\ faults.mongo < MaxMongoFaults
              /\ faults' = [faults EXCEPT !.mongo = @ + 1]

\* The cron fires and findPending answers with at least one event.
StartRun(r) ==
  /\ pc[r] = "idle" /\ FindPending # {}
  /\ batch' = [batch EXCEPT ![r] = FindPending]
  /\ pc' = [pc EXCEPT ![r] = "loop"]
  /\ UNCHANGED <<docVars, queueVars, current, seen, faults>>

\* The loop reaches e: the oldest event left in the batch.
Reaches(r, e) ==
  /\ pc[r] = "loop"
  /\ e \in batch[r] /\ \A f \in batch[r] : e <= f

Claim(r, e) ==
  /\ Reaches(r, e)
  /\ MarkProcessing(e)
  /\ batch' = [batch EXCEPT ![r] = @ \ {e}]
  /\ Goto(r, "add", e)
  /\ UNCHANGED <<queueVars, seen, faults>>

\* markProcessing returned null: another run has the event.
Skip(r, e) ==
  /\ Reaches(r, e)
  /\ status[e] \notin Claimable
  /\ batch' = [batch EXCEPT ![r] = @ \ {e}]
  /\ pc' = [pc EXCEPT ![r] = IF batch[r] = {e} THEN "idle" ELSE "loop"]
  /\ UNCHANGED <<docVars, queueVars, current, seen, faults>>

\* markProcessing rejects, outside the try block, perhaps after it was applied.
ClaimRejected(r, e) ==
  /\ Reaches(r, e)
  /\ MongoFault
  /\ MarkProcessing(e) \/ UNCHANGED docVars
  /\ Abort(r)
  /\ UNCHANGED queueVars

AddJob(r) ==
  /\ pc[r] = "add"
  /\ QueueAdd(current[r])
  /\ Goto(r, "complete", current[r])
  /\ UNCHANGED <<docVars, batch, seen, faults>>

\* Mutant of AddRejected: the error is logged and the loop goes on.
AddRejectedSwallowed(r) ==
  /\ pc[r] = "add"
  /\ RedisFault
  /\ QueueAdd(current[r]) \/ UNCHANGED queueVars
  /\ NextIteration(r)
  /\ UNCHANGED <<docVars, batch, seen>>

AddRejected(r) ==
  /\ pc[r] = "add"
  /\ RedisFault
  /\ QueueAdd(current[r]) \/ UNCHANGED queueVars
  /\ Goto(r, "failRead", current[r])
  /\ UNCHANGED <<docVars, batch, seen>>

Complete(r) ==
  /\ pc[r] = "complete"
  /\ MarkCompleted(current[r])
  /\ NextIteration(r)
  /\ UNCHANGED <<queueVars, batch, seen, faults>>

\* markCompleted rejects inside the try block: the catch calls markFailed.
CompleteRejected(r) ==
  /\ pc[r] = "complete"
  /\ MongoFault
  /\ MarkCompleted(current[r]) \/ UNCHANGED docVars
  /\ Goto(r, "failRead", current[r])
  /\ UNCHANGED <<queueVars, batch, seen>>

\* markFailed's findById.
FailRead(r) ==
  /\ pc[r] = "failRead"
  /\ seen' = [seen EXCEPT ![r] = attempts[current[r]]]
  /\ Goto(r, "failWrite", current[r])
  /\ UNCHANGED <<docVars, queueVars, batch, faults>>

FailWrite(r) ==
  /\ pc[r] = "failWrite"
  /\ MarkFailed(current[r], seen[r])
  /\ NextIteration(r)
  /\ seen' = [seen EXCEPT ![r] = 0]
  /\ UNCHANGED <<queueVars, batch, faults>>

\* Either half of markFailed rejects, in the catch block: the run ends.
FailRejected(r) ==
  /\ pc[r] \in {"failRead", "failWrite"}
  /\ MongoFault
  /\ \/ pc[r] = "failWrite" /\ MarkFailed(current[r], seen[r])
     \/ UNCHANGED docVars
  /\ Abort(r)
  /\ UNCHANGED queueVars

-------------------------------------------------------------------------------
(* The surroundings                                                        *)

\* A producer's insert commits: OutboxService.create, repository.create.
\* Transactions commit in any order, so e may become visible after younger ones.
Create(e) ==
  /\ status[e] = "ABSENT"
  /\ status' = [status EXCEPT ![e] = "PENDING"]
  /\ UNCHANGED <<attempts, availableAt, queueVars, runVars, faults>>

\* The clock passes availableAt.
BackoffElapses(e) ==
  /\ availableAt[e] = "FUTURE"
  /\ availableAt' = [availableAt EXCEPT ![e] = "PAST"]
  /\ UNCHANGED <<status, attempts, queueVars, runVars, faults>>

\* A worker completed the job and removeOnComplete pushed it out of Redis.
JobRemoved(e) ==
  /\ job[e] = "KEPT"
  /\ job' = [job EXCEPT ![e] = "REMOVED"]
  /\ UNCHANGED <<docVars, handed, runVars, faults>>

\* A process dies with all the runs in it; its cron starts afresh.
Crash(n) ==
  /\ faults.crash < MaxCrashes
  /\ \E r \in Runs : Host[r] = n /\ pc[r] # "idle"
  /\ pc' = [r \in Runs |-> IF Host[r] = n THEN "idle" ELSE pc[r]]
  /\ current' = [r \in Runs |-> IF Host[r] = n THEN NoEvent ELSE current[r]]
  /\ batch' = [r \in Runs |-> IF Host[r] = n THEN {} ELSE batch[r]]
  /\ seen' = [r \in Runs |-> IF Host[r] = n THEN 0 ELSE seen[r]]
  /\ faults' = [faults EXCEPT !.crash = @ + 1]
  /\ UNCHANGED <<docVars, queueVars>>

-------------------------------------------------------------------------------

Init ==
  /\ status = [e \in Events |-> "ABSENT"]
  /\ attempts = [e \in Events |-> 0]
  /\ availableAt = [e \in Events |-> "UNSET"]
  /\ job = [e \in Events |-> "NONE"]
  /\ handed = [e \in Events |-> 0]
  /\ pc = [r \in Runs |-> "idle"]
  /\ batch = [r \in Runs |-> {}]
  /\ current = [r \in Runs |-> NoEvent]
  /\ seen = [r \in Runs |-> 0]
  /\ faults = [redis |-> 0, mongo |-> 0, crash |-> 0]

\* What dispatchPending does as long as nothing fails.
RunStep(r) ==
  \/ \E e \in Events : Claim(r, e) \/ Skip(r, e)
  \/ AddJob(r) \/ Complete(r) \/ FailRead(r) \/ FailWrite(r)

RunFault(r) ==
  \/ \E e \in Events : ClaimRejected(r, e)
  \/ AddRejected(r) \/ CompleteRejected(r) \/ FailRejected(r)

Next ==
  \/ \E r \in Runs : StartRun(r) \/ RunStep(r) \/ RunFault(r)
  \/ \E e \in Events : Create(e) \/ BackoffElapses(e) \/ JobRemoved(e)
  \/ \E n \in Nodes : Crash(n)

Spec == Init /\ [][Next]_vars

\* The event loop resumes every run, the cron keeps firing, the clock advances.
\* Producers, workers and failures are under no obligation.
Fairness ==
  /\ \A r \in Runs : WF_vars(RunStep(r)) /\ WF_vars(StartRun(r))
  /\ \A e \in Events : WF_vars(BackoffElapses(e))

FairSpec == Spec /\ Fairness

-------------------------------------------------------------------------------
(* Properties                                                              *)

Stranded(e) == status[e] = "PROCESSING" /\ \A r \in Runs : current[r] # e

\* No two runs work on the same event: overlapping cron runs and several
\* processes are kept apart by markProcessing's filtered update alone.
ClaimExclusive ==
  \A r, s \in Runs : r # s /\ Holding(r) /\ Holding(s) => current[r] # current[s]

\* Jobs are created under a claim, and one claim creates at most one, whatever
\* add and markFailed do: an event never has more jobs than counted attempts.
HandedOverPerClaim == \A e \in Events : handed[e] <= attempts[e]

\* An event that is PROCESSING with no run working on it is never picked up
\* again.  Each rejected MongoDB call leaves at most one such event, each process
\* death at most one per run, and nothing else leaves any.
StrandedBound ==
  Cardinality({e \in Events : Stranded(e)})
    <= faults.mongo + Cardinality(Runs) * faults.crash

Contract == INSTANCE OutboxContract WITH
  accepted <- {e \in Events : status[e] # "ABSENT"},
  acked <- {e \in Events : status[e] = "COMPLETED"}

\* The dispatcher implements the at-least-once contract whatever fails: nothing
\* is COMPLETED that was not handed over, and nothing is handed over again, or
\* taken back, once it is COMPLETED (the guards of markCompleted and markFailed).
ImplementsContract == Contract!SafeSpec

\* Every committed event ends COMPLETED, or stranded by a lost update or crash:
\* rejected adds, lost claims, old stale batches and the limit only delay it.
SettlesEventually ==
  \A e \in Events :
    status[e] # "ABSENT" ~> (status[e] = "COMPLETED" \/ Stranded(e))

===============================================================================
