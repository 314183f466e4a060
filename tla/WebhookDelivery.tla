---------------------------- MODULE WebhookDelivery ----------------------------
(***************************************************************************)
(* The webhook processor: webhook.processor.ts,                            *)
(* WebhookService.deliverToWorkspace and WebhookDeliveryService.deliver.   *)
(*                                                                         *)
(* One job carries an event to every active webhook of its workspace.  The *)
(* deliveries of one attempt run concurrently and all of them are awaited  *)
(* (Promise.allSettled); one failure fails the attempt, and the retry      *)
(* skips the webhooks that have a delivery with status SUCCESS.            *)
(*                                                                         *)
(* Every await is a step.  Webhooks are only ever added: the repository's  *)
(* delete has no caller.                                                   *)
(*                                                                         *)
(* Abstracted: the job fields (a producer writes all of them), payload and *)
(* signature, response status and body, durations.                         *)
(***************************************************************************)
EXTENDS JobExecution, Sequences

CONSTANTS Hooks,           \* webhooks of the workspace for the event type
          MaxPostFaults    \* bound: failed POSTs, for each webhook

ASSUME PostBoundAssumption == MaxPostFaults \in Nat

VARIABLES active,       \* registered webhooks
          step,         \* where each execution stands with each webhook
          deliveries,   \* delivery documents of event and webhook, in creation order
          row,          \* index of the document an execution has created
          processed,    \* events in the processed-event collection
          dlq,          \* jobs in the dead-letter queue
          received,     \* history: POSTs that took effect at the webhook's end
          known,        \* history: webhooks registered when the job was first added
          postFaults    \* POSTs that failed, for each webhook

deliveryVars == <<step, deliveries, row, received, postFaults>>
registerVars == <<processed, dlq>>
vars == <<queue, executionVars, added, faults, active, deliveryVars, registerVars, known>>

Points == {"idle", "check", "find", "deliver", "mark", "handle", "dead",
           "returned", "thrown"}
Settled == {"fulfilled", "rejected"}
Steps == {"none", "lookup", "create", "post", "refused", "success", "failed"} \cup Settled
DeliveryStatus == {"PENDING", "SUCCESS", "FAILED"}

TypeOK ==
  /\ ExecutionTypeOK(Points)
  /\ active \subseteq Hooks
  /\ step \in [Workers -> [Hooks -> Steps]]
  /\ row \in [Workers -> [Hooks -> Nat]]
  /\ deliveries \in [Jobs -> [Hooks -> Seq(DeliveryStatus)]]
  /\ \A w \in Workers, h \in Hooks :
       step[w][h] \in {"post", "refused", "success", "failed"}
         => row[w][h] \in DOMAIN deliveries[on[w]][h]
  /\ processed \subseteq Jobs /\ dlq \subseteq Jobs
  /\ received \in [Jobs -> [Hooks -> Nat]]
  /\ known \in [Jobs -> SUBSET Hooks]
  /\ postFaults \in [Hooks -> 0 .. MaxPostFaults]

Init ==
  /\ ExecutionInit
  /\ active \in SUBSET Hooks
  /\ step = [w \in Workers |-> [h \in Hooks |-> "none"]]
  /\ deliveries = [j \in Jobs |-> [h \in Hooks |-> << >>]]
  /\ row = [w \in Workers |-> [h \in Hooks |-> 0]]
  /\ processed = {}
  /\ dlq = {}
  /\ received = [j \in Jobs |-> [h \in Hooks |-> 0]]
  /\ known = [j \in Jobs |-> {}]
  /\ postFaults = [h \in Hooks |-> 0]

Delivered(j, h) == \E n \in DOMAIN deliveries[j][h] : deliveries[j][h][n] = "SUCCESS"

-------------------------------------------------------------------------------
(* process(job)                                                            *)

Only(w, p) == Proceed(w, p) /\ UNCHANGED <<active, known>>

Start(w, j) ==
  /\ Enter(w, j, "check")
  /\ UNCHANGED <<active, deliveryVars, registerVars, known>>

\* hasBeenProcessed.
Check(w) ==
  /\ at[w] = "check"
  /\ Only(w, IF on[w] \in processed THEN "returned" ELSE "find")
  /\ UNCHANGED <<deliveryVars, registerVars>>

\* findActiveByWorkspace, and a deliver started for each webhook found.
FindHooks(w) ==
  /\ at[w] = "find"
  /\ step' = [step EXCEPT ![w] = [h \in Hooks |-> IF h \in active THEN "lookup" ELSE "none"]]
  /\ Only(w, "deliver")
  /\ UNCHANGED <<deliveries, row, received, postFaults, registerVars>>

\* The deliveries of w are over, or lost with its process.
DropDeliveries(w) ==
  /\ step' = [step EXCEPT ![w] = [h \in Hooks |-> "none"]]
  /\ row' = [row EXCEPT ![w] = [h \in Hooks |-> 0]]

\* Every delivery of the attempt is over.
AllSettled(w) == \A h \in Hooks : step[w][h] \in Settled \cup {"none"}

\* Mutant of Gather: the results of Promise.allSettled are not looked at.
GatherIgnored(w) ==
  /\ at[w] = "deliver" /\ AllSettled(w)
  /\ Only(w, "mark")
  /\ DropDeliveries(w)
  /\ UNCHANGED <<deliveries, received, postFaults, registerVars>>

\* Promise.allSettled, and an error if a delivery was rejected.
Gather(w) ==
  /\ at[w] = "deliver" /\ AllSettled(w)
  /\ Only(w, IF \E h \in Hooks : step[w][h] = "rejected" THEN "handle" ELSE "mark")
  /\ DropDeliveries(w)
  /\ UNCHANGED <<deliveries, received, postFaults, registerVars>>

\* markProcessed: eventId is unique, so the second insert of an event throws.
Mark(w) ==
  /\ at[w] = "mark"
  /\ Only(w, IF on[w] \in processed THEN "handle" ELSE "returned")
  /\ processed' = processed \cup {on[w]}
  /\ UNCHANGED <<deliveryVars, dlq>>

\* Mutant of Handle: an error before the final attempt is not thrown again.
HandleSwallows(w) ==
  /\ at[w] = "handle"
  /\ Only(w, IF IsFinalAttempt(w) THEN "dead" ELSE "returned")
  /\ UNCHANGED <<deliveryVars, registerVars>>

\* The catch block: the final attempt goes to the dead-letter queue.
Handle(w) ==
  /\ at[w] = "handle"
  /\ Only(w, IF IsFinalAttempt(w) THEN "dead" ELSE "thrown")
  /\ UNCHANGED <<deliveryVars, registerVars>>

\* moveToDeadLetterQueue, with job id dlq-<id>: a second one is not added.
DeadLetter(w) ==
  /\ at[w] = "dead"
  /\ dlq' = dlq \cup {on[w]}
  /\ Only(w, "thrown")
  /\ UNCHANGED <<deliveryVars, processed>>

Report(w) == Settle(w) /\ UNCHANGED <<active, deliveryVars, registerVars, known>>

-------------------------------------------------------------------------------
(* deliver(webhook, ...)                                                   *)

StepTo(w, h, s) == step' = [step EXCEPT ![w][h] = s]

\* Whatever deliver does, the job and the other executions do not notice.
Within(w, h, s) ==
  /\ at[w] = "deliver" /\ step[w][h] = s
  /\ UNCHANGED <<queue, executionVars, added, active, registerVars, known>>

\* The status of the document this execution has created.
SetStatus(w, h, s) ==
  deliveries' = [deliveries EXCEPT ![on[w]][h] = [@ EXCEPT ![row[w][h]] = s]]

\* Mutant of FindSuccessful: no delivery is ever found.
FindSuccessfulNever(w, h) ==
  /\ Within(w, h, "lookup")
  /\ StepTo(w, h, "create")
  /\ UNCHANGED <<deliveries, row, received, postFaults, faults>>

\* findSuccessfulDelivery: return, or go on.
FindSuccessful(w, h) ==
  /\ Within(w, h, "lookup")
  /\ StepTo(w, h, IF Delivered(on[w], h) THEN "fulfilled" ELSE "create")
  /\ UNCHANGED <<deliveries, row, received, postFaults, faults>>

CreateDelivery(w, h) ==
  /\ Within(w, h, "create")
  /\ deliveries' = [deliveries EXCEPT ![on[w]][h] = Append(@, "PENDING")]
  /\ row' = [row EXCEPT ![w][h] = Len(deliveries[on[w]][h]) + 1]
  /\ StepTo(w, h, "post")
  /\ UNCHANGED <<received, postFaults, faults>>

\* The webhook answers with a status in the 2xx range.
Post(w, h) ==
  /\ Within(w, h, "post")
  /\ received' = [received EXCEPT ![on[w]][h] = @ + 1]
  /\ StepTo(w, h, "success")
  /\ UNCHANGED <<deliveries, row, postFaults, faults>>

\* Another status ("refused"), a connection error, or the abort after ten seconds;
\* in the last two cases the request may have taken effect.
PostFails(w, h) ==
  /\ Within(w, h, "post")
  /\ postFaults[h] < MaxPostFaults
  /\ postFaults' = [postFaults EXCEPT ![h] = @ + 1]
  /\ \/ StepTo(w, h, "refused") /\ UNCHANGED received
     \/ /\ StepTo(w, h, "failed")
        /\ received' \in {received, [received EXCEPT ![on[w]][h] = @ + 1]}
  /\ UNCHANGED <<deliveries, row, faults>>

\* status: FAILED, and the error that leads to the catch block.
RecordRefusal(w, h) ==
  /\ Within(w, h, "refused")
  /\ SetStatus(w, h, "FAILED")
  /\ StepTo(w, h, "failed")
  /\ UNCHANGED <<row, received, postFaults, faults>>

RecordSuccess(w, h) ==
  /\ Within(w, h, "success")
  /\ SetStatus(w, h, "SUCCESS")
  /\ StepTo(w, h, "fulfilled")
  /\ UNCHANGED <<row, received, postFaults, faults>>

\* The catch block of deliver.
RecordFailure(w, h) ==
  /\ Within(w, h, "failed")
  /\ SetStatus(w, h, "FAILED")
  /\ StepTo(w, h, "rejected")
  /\ UNCHANGED <<row, received, postFaults, faults>>

\* MongoDB rejects a call of deliver, before or after it was applied.  Only the two
\* updates in its try block lead to its catch block.
DeliveryCallRejected(w, h) ==
  /\ \/ Within(w, h, "lookup") /\ StepTo(w, h, "rejected") /\ UNCHANGED deliveries
     \/ /\ Within(w, h, "create") /\ StepTo(w, h, "rejected")
        /\ deliveries' \in {deliveries, [deliveries EXCEPT ![on[w]][h] = Append(@, "PENDING")]}
     \/ /\ Within(w, h, "success") /\ StepTo(w, h, "failed")
        /\ SetStatus(w, h, "SUCCESS") \/ UNCHANGED deliveries
     \/ /\ Within(w, h, "refused") /\ StepTo(w, h, "failed")
        /\ SetStatus(w, h, "FAILED") \/ UNCHANGED deliveries
     \/ /\ Within(w, h, "failed") /\ StepTo(w, h, "rejected")
        /\ SetStatus(w, h, "FAILED") \/ UNCHANGED deliveries
  /\ CallFault
  /\ UNCHANGED <<row, received, postFaults>>

-------------------------------------------------------------------------------
(* Failures and surroundings                                               *)

\* A call of process itself rejects.  Everything but the move to the dead-letter
\* queue is inside the try block.
CallRejected(w) ==
  /\ at[w] \in {"check", "find", "mark", "dead"}
  /\ CallFault
  /\ Goto(w, IF at[w] = "dead" THEN "thrown" ELSE "handle")
  /\ \/ UNCHANGED registerVars
     \/ at[w] = "mark" /\ processed' = processed \cup {on[w]} /\ UNCHANGED dlq
     \/ at[w] = "dead" /\ dlq' = dlq \cup {on[w]} /\ UNCHANGED processed
  /\ UNCHANGED <<queue, on, attempt, added, active, deliveryVars, known>>

LockLost(j) == LoseLock(j) /\ UNCHANGED <<active, deliveryVars, registerVars, known>>

Crash(w) ==
  /\ Die(w)
  /\ DropDeliveries(w)
  /\ UNCHANGED <<active, deliveries, received, postFaults, registerVars, known>>

Recover(j) == Rescue(j) /\ UNCHANGED <<active, deliveryVars, registerVars, known>>

Dispatch(j) ==
  /\ Readd(j)
  /\ known' = [known EXCEPT ![j] = IF added[j] = 0 THEN active ELSE @]
  /\ UNCHANGED <<active, deliveryVars, registerVars>>

Evict(j) == Forget(j) /\ UNCHANGED <<active, deliveryVars, registerVars, known>>

\* WebhookService.create.
Register(h) ==
  /\ h \notin active
  /\ active' = active \cup {h}
  /\ UNCHANGED <<queue, executionVars, added, faults, deliveryVars, registerVars, known>>

DeliveryStep(w, h) ==
  \/ FindSuccessful(w, h) \/ CreateDelivery(w, h) \/ Post(w, h)
  \/ RecordRefusal(w, h) \/ RecordSuccess(w, h) \/ RecordFailure(w, h)

WorkerStep(w) ==
  \/ Check(w) \/ FindHooks(w) \/ Gather(w) \/ Mark(w) \/ Handle(w) \/ DeadLetter(w)
  \/ Report(w)

Next ==
  \/ \E w \in Workers :
       \/ \E j \in Jobs : Start(w, j)
       \/ WorkerStep(w) \/ CallRejected(w) \/ Crash(w)
       \/ \E h \in Hooks : DeliveryStep(w, h) \/ PostFails(w, h) \/ DeliveryCallRejected(w, h)
  \/ \E j \in Jobs : LockLost(j) \/ Recover(j) \/ Dispatch(j) \/ Evict(j)
  \/ \E h \in Hooks : Register(h)

Spec == Init /\ [][Next]_vars

-------------------------------------------------------------------------------
(* Properties                                                              *)

\* An event counts as processed only after every webhook that was registered when
\* it was added has received it: no interleaving of two executions, no retry that
\* skips a webhook and no rejected update loses one.
ProcessedMeansReceived ==
  \A j \in processed : \A h \in known[j] : received[j][h] > 0

\* A failing webhook costs the others nothing: as long as only POSTs fail, a
\* webhook receives the event at most once more than its own POSTs failed,
\* although every failure repeats the whole job.
FailuresIsolated ==
  faults.call = 0 /\ faults.loss = 0 =>
    \A j \in Jobs, h \in Hooks : received[j][h] <= 1 + postFaults[h]

\* As long as only POSTs fail, a completed job has a SUCCESS delivery for every
\* webhook known when it was added, and a job failed for good is dead-lettered with
\* some webhook that has none.
OutcomeAgreesWithLog ==
  faults.call = 0 /\ faults.loss = 0 =>
    \A j \in Jobs :
      /\ bull[j] = "completed" => \A h \in known[j] : Delivered(j, h)
      /\ bull[j] = "failed" => j \in dlq /\ \E h \in active : ~ Delivered(j, h)

===============================================================================
