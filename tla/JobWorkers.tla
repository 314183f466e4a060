------------------------------ MODULE JobWorkers ------------------------------
(***************************************************************************)
(* The email, reminder and export processors with their retries, the       *)
(* delivery or export record they keep, the processed-event register and   *)
(* the dead-letter queue: email.processor.ts, reminder.processor.ts,       *)
(* export.processor.ts, ExportService.generateExport,                      *)
(* dead-letter.service.ts, processed-event.repository.ts.                  *)
(*                                                                         *)
(* The three handlers have one skeleton; where they differ is written as a *)
(* set of kinds.  Every await is a step.  The effect is what the outside   *)
(* sees: the mail the SMTP server accepted, or the export file.            *)
(*                                                                         *)
(* Abstracted: payloads and their validation (a producer writes valid      *)
(* ones), the mail templates and file formats, lastError, and the back-off *)
(* between attempts.  BUSY stands for SENDING and PROCESSING, DONE for     *)
(* SENT and COMPLETED.                                                     *)
(***************************************************************************)
EXTENDS JobExecution

CONSTANT MaxEffectFaults   \* bound: SMTP or file system errors

ASSUME EffectBoundAssumption == MaxEffectFaults \in Nat

Kinds == {"email", "reminder", "export"}

VARIABLES kind,          \* which processor serves the job
          record,        \* status of the email delivery or of the export
          processed,     \* events in the processed-event collection
          dlq,           \* jobs in the dead-letter queue
          effects,       \* history: effects carried out for the job
          effectFaults   \* SMTP or file system errors that occurred

dataVars == <<record, processed, dlq, effects>>
vars == <<queue, executionVars, added, faults, kind, dataVars, effectFaults>>

Points == {"idle", "check", "lookup", "begin", "effect", "conclude", "mark",
           "handle", "dead", "returned", "thrown"}

TypeOK ==
  /\ ExecutionTypeOK(Points)
  /\ kind \in [Jobs -> Kinds]
  /\ record \in [Jobs -> {"QUEUED", "BUSY", "DONE", "FAILED"}]
  /\ processed \subseteq Jobs
  /\ dlq \subseteq Jobs
  /\ effects \in [Jobs -> Nat]
  /\ effectFaults \in 0 .. MaxEffectFaults

Init ==
  /\ ExecutionInit
  /\ kind \in [Jobs -> Kinds]
  /\ record = [j \in Jobs |-> "QUEUED"]
  /\ processed = {}
  /\ dlq = {}
  /\ effects = [j \in Jobs |-> 0]
  /\ effectFaults = 0

-------------------------------------------------------------------------------
(* One execution of process(job)                                           *)

KindOf(w) == kind[on[w]]

\* Only the reminder and the export handler consult the processed events.
Register(k) == k \in {"reminder", "export"}

\* Whether an error thrown at point p is caught by the handler's try block: the
\* export looks its record up inside generateExport, the others before the try.
InTry(k, p) ==
  \/ p \in {"begin", "effect", "conclude", "mark"}
  \/ p = "lookup" /\ k = "export"

\* Nothing but the position of w and what the action says changes.
Only(w, p) == Proceed(w, p) /\ UNCHANGED <<kind, effectFaults>>

Start(w, j) ==
  /\ Enter(w, j, IF Register(kind[j]) THEN "check" ELSE "lookup")
  /\ UNCHANGED <<kind, dataVars, effectFaults>>

\* Mutant of Check: the answer of hasBeenProcessed is ignored.
CheckIgnored(w) ==
  /\ at[w] = "check"
  /\ Only(w, "lookup")
  /\ UNCHANGED dataVars

\* hasBeenProcessed: skip the event, or go on.
Check(w) ==
  /\ at[w] = "check"
  /\ Only(w, IF on[w] \in processed THEN "returned" ELSE "lookup")
  /\ UNCHANGED dataVars

\* findByOutboxEventId: the record was written before, or with, the event.
Lookup(w) ==
  /\ at[w] = "lookup"
  /\ Only(w, "begin")
  /\ UNCHANGED dataVars

SetRecord(w, s) == record' = [record EXCEPT ![on[w]] = s]

\* status: SENDING, or PROCESSING.
Begin(w) ==
  /\ at[w] = "begin"
  /\ SetRecord(w, "BUSY")
  /\ Only(w, "effect")
  /\ UNCHANGED <<processed, dlq, effects>>

\* The mail is sent, the file written.
Effect(w) ==
  /\ at[w] = "effect"
  /\ effects' = [effects EXCEPT ![on[w]] = @ + 1]
  /\ Only(w, "conclude")
  /\ UNCHANGED <<record, processed, dlq>>

\* status: SENT, or COMPLETED.
Conclude(w) ==
  /\ at[w] = "conclude"
  /\ SetRecord(w, "DONE")
  /\ Only(w, IF Register(KindOf(w)) THEN "mark" ELSE "returned")
  /\ UNCHANGED <<processed, dlq, effects>>

\* markProcessed: eventId is unique, so the second insert of an event throws.
Mark(w) ==
  /\ at[w] = "mark"
  /\ IF on[w] \in processed
       THEN Only(w, "handle") /\ UNCHANGED processed
       ELSE Only(w, "returned") /\ processed' = processed \cup {on[w]}
  /\ UNCHANGED <<record, dlq, effects>>

\* The export handler writes nothing in the catch block of an earlier attempt.
HandleWrites(w) == IsFinalAttempt(w) \/ KindOf(w) # "export"

\* Mutant of Handle: an error before the final attempt is not thrown again.
HandleSwallows(w) ==
  /\ at[w] = "handle"
  /\ IF IsFinalAttempt(w)
       THEN SetRecord(w, "FAILED") /\ Only(w, "dead")
       ELSE UNCHANGED record /\ Only(w, "returned")
  /\ UNCHANGED <<processed, dlq, effects>>

\* The catch block up to the dead-letter queue: the final attempt fails the
\* record; before that only lastError and attempts are noted.
Handle(w) ==
  /\ at[w] = "handle"
  /\ IF IsFinalAttempt(w)
       THEN SetRecord(w, "FAILED") /\ Only(w, "dead")
       ELSE UNCHANGED record /\ Only(w, "thrown")
  /\ UNCHANGED <<processed, dlq, effects>>

\* moveToDeadLetterQueue, with job id dlq-<id>: a second one is not added.
DeadLetter(w) ==
  /\ at[w] = "dead"
  /\ dlq' = dlq \cup {on[w]}
  /\ Only(w, "thrown")
  /\ UNCHANGED <<record, processed, effects>>

Report(w) == Settle(w) /\ UNCHANGED <<kind, dataVars, effectFaults>>

WorkerStep(w) ==
  \/ Check(w) \/ Lookup(w) \/ Begin(w) \/ Effect(w) \/ Conclude(w) \/ Mark(w)
  \/ Handle(w) \/ DeadLetter(w) \/ Report(w)

-------------------------------------------------------------------------------
(* Failures                                                                *)

\* An awaited call rejects at w's point: the error reaches the catch block, or
\* leaves process at once.
Thrown(w) ==
  /\ Goto(w, IF InTry(KindOf(w), at[w]) THEN "handle" ELSE "thrown")
  /\ UNCHANGED <<queue, on, attempt, added, kind>>

\* The SMTP server or the file system refuses, or fails after the fact.
EffectRejected(w) ==
  /\ at[w] = "effect"
  /\ effectFaults < MaxEffectFaults
  /\ effectFaults' = effectFaults + 1
  /\ effects' \in {effects, [effects EXCEPT ![on[w]] = @ + 1]}
  /\ Thrown(w)
  /\ UNCHANGED <<record, processed, dlq, faults>>

\* MongoDB or Redis rejects a call, before or after it was applied.
CallRejected(w) ==
  /\ at[w] \in {"check", "lookup", "begin", "conclude", "mark", "handle", "dead"}
  /\ at[w] = "handle" => HandleWrites(w)
  /\ CallFault
  /\ \/ UNCHANGED <<record, processed, dlq>>
     \/ at[w] = "begin" /\ SetRecord(w, "BUSY") /\ UNCHANGED <<processed, dlq>>
     \/ at[w] = "conclude" /\ SetRecord(w, "DONE") /\ UNCHANGED <<processed, dlq>>
     \/ at[w] = "mark" /\ processed' = processed \cup {on[w]} /\ UNCHANGED <<record, dlq>>
     \/ at[w] = "handle" /\ IsFinalAttempt(w) /\ SetRecord(w, "FAILED")
        /\ UNCHANGED <<processed, dlq>>
     \/ at[w] = "dead" /\ dlq' = dlq \cup {on[w]} /\ UNCHANGED <<record, processed>>
  /\ Thrown(w)
  /\ UNCHANGED <<effects, effectFaults>>

LockLost(j) == LoseLock(j) /\ UNCHANGED <<kind, dataVars, effectFaults>>
Crash(w) == Die(w) /\ UNCHANGED <<kind, dataVars, effectFaults>>
Recover(j) == Rescue(j) /\ UNCHANGED <<kind, dataVars, effectFaults>>

Dispatch(j) == Readd(j) /\ UNCHANGED <<kind, dataVars, effectFaults>>
Evict(j) == Forget(j) /\ UNCHANGED <<kind, dataVars, effectFaults>>

-------------------------------------------------------------------------------

Next ==
  \/ \E w \in Workers : \/ \E j \in Jobs : Start(w, j)
                        \/ WorkerStep(w)
                        \/ EffectRejected(w) \/ CallRejected(w) \/ Crash(w)
  \/ \E j \in Jobs : LockLost(j) \/ Recover(j) \/ Dispatch(j) \/ Evict(j)

Spec == Init /\ [][Next]_vars

\* Workers poll their queue and their event loop runs; BullMQ checks for stalled
\* jobs every 30 seconds.
Fairness ==
  /\ \A w \in Workers : WF_vars(WorkerStep(w)) /\ WF_vars(\E j \in Jobs : Start(w, j))
  /\ \A j \in Jobs : WF_vars(Recover(j))

FairSpec == Spec /\ Fairness

-------------------------------------------------------------------------------
(* Properties                                                              *)

TotalFaults == effectFaults + faults.call + faults.loss

\* A mail is sent again, or an export generated again, only after a failure; the
\* handler without a register also repeats it when the outbox adds the job again.
RepeatsAccounted ==
  \A j \in Jobs :
    effects[j] <= 1 + TotalFaults + (IF Register(kind[j]) \/ added[j] = 0
                                       THEN 0 ELSE added[j] - 1)

\* As long as no worker loses its lock, a completed job has its effect and a record
\* that says so, even if updates were rejected on the way.
CompletedMeansDone ==
  faults.loss = 0 =>
    \A j \in Jobs : bull[j] = "completed" => record[j] = "DONE" /\ effects[j] > 0

\* A job that fails for good because of its effect alone is dead-lettered and its
\* record is FAILED; and a dead-lettered job is never retried or completed.
DeadLetterAgrees ==
  faults.loss = 0 =>
    \A j \in Jobs :
      /\ bull[j] = "failed" /\ faults.call = 0 => j \in dlq /\ record[j] = "FAILED"
      /\ j \in dlq => bull[j] \in {"active", "failed"}

\* Every job that was added is completed or failed for good at some point, although
\* attempts fail, workers die and locks expire.
EveryJobEnds ==
  \A j \in Jobs : bull[j] = "waiting" ~> bull[j] \in {"completed", "failed"}

===============================================================================
