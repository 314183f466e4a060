----------------------------- MODULE TaskDocument -----------------------------
(* The commands on one task: update (PATCH with If-Match), delete, comment,     *)
(* assign, and upload and deletion of attachments, as concurrent requests on    *)
(* one MongoDB document with Mongoose's optimistic concurrency.                 *)
(*                                                                              *)
(* Every step between two awaits is an action.  Saves compare __v with that of  *)
(* the copy that was read.  The update saves and logs in a transaction, whose   *)
(* callback withTransaction repeats after a transient error.                    *)
EXTENDS Integers, FiniteSets

CONSTANTS
  Requests,       \* each is one HTTP request
  None,           \* no request
  Initial,        \* the attachment the task has at first
  MaxAborts,      \* bound: transactions aborted after their save
  MaxRejections,  \* bound: awaited calls that reject
  MaxCrashes      \* bound: process deaths

ASSUME TaskAssumption ==
  /\ IsFiniteSet(Requests) /\ None \notin Requests
  /\ Initial \notin Requests /\ Initial # None
  /\ {MaxAborts, MaxRejections, MaxCrashes} \subseteq Nat

VARIABLES
  doc,          \* the document
  files,        \* the uploaded files that are on disk
  kind,         \* the command of each request
  at,           \* the next step of each request, or its answer
  seen,         \* what the client of an update had got before it sent it
  local,        \* the copy of the document a request works on
  target,       \* the attachment a request deletes
  holder,       \* the request whose open transaction has written the document
  applied,      \* the requests whose write has been committed
  log,          \* what each request has written to activities and audit logs
  completions,  \* how often the status has become Done
  faults        \* faults so far, by kind

copyVars == <<seen, local, target>>
storeVars == <<doc, files, holder, applied, completions>>
vars == <<kind, at, copyVars, storeVars, log, faults>>

\* An attachment is known by the request that uploaded it.
Files == Requests \cup {Initial}

Updates == {"edit", "complete", "reopen"}
ById == {"comment", "assign", "attach", "detach"}
Kinds == Updates \cup ById \cup {"remove"}

Answers == {"ok", "refused", "error"}
\* From the first step of its handler to the last.
Running == {"update", "authorize", "save", "commit", "unlink", "reread", "write",
            "activity", "audit", "clear"}
Points == {"new"} \cup Running \cup Answers

\* title, comments and assignees are known by the requests that wrote them.
Document ==
  [v : Nat, deleted : BOOLEAN, done : BOOLEAN, title : Requests \cup {None},
   comments : SUBSET Requests, assigned : Requests \cup {None},
   attachments : SUBSET Files]

Created ==
  [v |-> 0, deleted |-> FALSE, done |-> FALSE, title |-> None, comments |-> {},
   assigned |-> None, attachments |-> {Initial}]

FaultKinds == {"abort", "reject", "crash"}
LogEntries == {"activity", "audit", "completed"}

TypeOK ==
  /\ doc \in Document
  /\ files \subseteq Files
  /\ kind \in [Requests -> Kinds \cup {None}]
  /\ at \in [Requests -> Points]
  /\ seen \in [Requests -> Document] /\ local \in [Requests -> Document]
  /\ target \in [Requests -> Files]
  /\ holder \in Requests \cup {None}
  /\ applied \subseteq Requests
  /\ log \in [Requests -> SUBSET LogEntries]
  /\ completions \in Nat
  /\ faults \in [FaultKinds -> Nat]
  /\ faults.abort <= MaxAborts
  /\ faults.reject <= MaxRejections
  /\ faults.crash <= MaxCrashes

Init ==
  /\ doc = Created
  /\ files = {Initial}
  /\ kind = [r \in Requests |-> None]
  /\ at = [r \in Requests |-> "new"]
  /\ seen = [r \in Requests |-> Created]
  /\ local = [r \in Requests |-> Created]
  /\ target = [r \in Requests |-> Initial]
  /\ holder = None
  /\ applied = {}
  /\ log = [r \in Requests |-> {}]
  /\ completions = 0
  /\ faults = [k \in FaultKinds |-> 0]

Goto(r, p) == at' = [at EXCEPT ![r] = p]

\* Another fault of kind k is within its bound.
Fault(k) ==
  /\ faults[k] < (CASE k = "abort" -> MaxAborts
                    [] k = "reject" -> MaxRejections
                    [] k = "crash" -> MaxCrashes)
  /\ faults' = [faults EXCEPT ![k] = @ + 1]

\* What r writes: the paths it has modified, and the next version.  The attachments
\* that remain come from the copy, which is filtered and assigned as a whole.
Written(r) ==
  [v |-> doc.v + 1,
   deleted |-> doc.deleted \/ kind[r] = "remove",
   done |-> kind[r] = "complete" \/ (doc.done /\ kind[r] # "reopen"),
   title |-> IF kind[r] \in Updates THEN r ELSE doc.title,
   comments |-> IF kind[r] = "comment" THEN doc.comments \cup {r} ELSE doc.comments,
   assigned |-> IF kind[r] = "assign" THEN r ELSE doc.assigned,
   attachments |-> IF kind[r] = "attach" THEN doc.attachments \cup {r}
                   ELSE IF kind[r] = "detach" THEN local[r].attachments \ {target[r]}
                   ELSE doc.attachments]

\* The write of r is stored.
Store(r) ==
  /\ doc' = Written(r)
  /\ applied' = applied \cup {r}
  /\ completions' = IF ~ doc.done /\ Written(r).done THEN completions + 1 ELSE completions

-------------------------------------------------------------------------------
(* The update of a task                                                    *)

\* The client gets the task, and its version as ETag, before it sends the update.
View(r) ==
  /\ at[r] = "new" /\ ~ doc.deleted
  /\ \E k \in Updates : kind' = [kind EXCEPT ![r] = k]
  /\ seen' = [seen EXCEPT ![r] = doc]
  /\ Goto(r, "update")
  /\ UNCHANGED <<local, target, storeVars, log, faults>>

\* findAuthorizedTask, and the comparison of its version with If-Match.
ReadForUpdate(r) ==
  /\ at[r] = "update"
  /\ IF doc.deleted \/ doc.v # seen[r].v
       THEN Goto(r, "refused") /\ UNCHANGED local
       ELSE Goto(r, "save") /\ local' = [local EXCEPT ![r] = doc]
  /\ UNCHANGED <<kind, seen, target, storeVars, log, faults>>

\* A save that succeeded left nothing to save and the next version in the copy,
\* although its transaction was aborted.
SavedBefore(r) == local[r].v > seen[r].v

\* Mutant of Save: without optimisticConcurrency.
SaveUnversioned(r) ==
  /\ at[r] = "save" /\ holder = None
  /\ holder' = r
  /\ local' = [local EXCEPT ![r].v = @ + 1]
  /\ Goto(r, "commit")
  /\ UNCHANGED <<kind, seen, target, doc, files, applied, completions, log, faults>>

\* task.save in the transaction, which then holds the document.  After an abort only
\* the existence of the copy's version is checked.  A VersionError is answered 412.
Save(r) ==
  /\ at[r] = "save"
  /\ IF local[r].v # doc.v
       THEN Goto(r, "refused") /\ UNCHANGED <<local, holder>>
     ELSE IF SavedBefore(r)
       THEN Goto(r, "commit") /\ UNCHANGED <<local, holder>>
     ELSE /\ holder = None
          /\ holder' = r
          /\ local' = [local EXCEPT ![r].v = @ + 1]
          /\ Goto(r, "commit")
  /\ UNCHANGED <<kind, seen, target, doc, files, applied, completions, log, faults>>

\* Mutant of TaskCompleted: previousStatus is not looked at.
TaskCompletedAlways(r) == kind[r] = "complete"

\* previousStatus is that of the copy that was read.
TaskCompleted(r) == kind[r] = "complete" /\ ~ local[r].done

TransactionLog(r) ==
  {"activity", "audit"} \cup IF TaskCompleted(r) THEN {"completed"} ELSE {}

\* What the transaction of r has written becomes visible at once.
CommitTransaction(r) ==
  /\ IF holder = r
       THEN Store(r) /\ holder' = None
       ELSE UNCHANGED <<doc, applied, completions, holder>>
  /\ log' = [log EXCEPT ![r] = TransactionLog(r)]
  /\ UNCHANGED <<kind, copyVars, files>>

\* The audit and activity entries are inserted and the transaction is committed.
Commit(r) ==
  /\ at[r] = "commit"
  /\ CommitTransaction(r)
  /\ Goto(r, "clear")
  /\ UNCHANGED faults

-------------------------------------------------------------------------------
(* The other commands                                                      *)

\* A command other than an update arrives; an upload has its file stored before the
\* handler is called.
Arrive(r) ==
  /\ at[r] = "new"
  /\ \E k \in Kinds \ Updates :
       /\ kind' = [kind EXCEPT ![r] = k]
       /\ files' = IF k = "attach" THEN files \cup {r} ELSE files
  /\ Goto(r, "authorize")
  /\ UNCHANGED <<copyVars, doc, holder, applied, completions, log, faults>>

\* findAuthorizedTask.  The deletion of the task changes this copy, the deletion of an
\* attachment looks its target up in it.
Authorize(r) ==
  /\ at[r] = "authorize"
  /\ \/ doc.deleted /\ Goto(r, "refused") /\ UNCHANGED <<local, target>>
     \/ /\ ~ doc.deleted
        /\ kind[r] \in {"comment", "assign", "attach"}
        /\ Goto(r, "reread")
        /\ UNCHANGED <<local, target>>
     \/ /\ ~ doc.deleted
        /\ kind[r] = "remove"
        /\ Goto(r, "write")
        /\ local' = [local EXCEPT ![r] = doc]
        /\ UNCHANGED target
     \/ /\ ~ doc.deleted
        /\ kind[r] = "detach"
        /\ \E a \in Files :
             /\ Goto(r, IF a \in doc.attachments THEN "unlink" ELSE "refused")
             /\ target' = [target EXCEPT ![r] = a]
        /\ UNCHANGED local
  /\ UNCHANGED <<kind, seen, storeVars, log, faults>>

\* The memberships an assignment reads in between, and the category an update reads
\* first, may refuse it.
Forbid(r) ==
  /\ \/ at[r] = "reread" /\ kind[r] = "assign"
     \/ at[r] = "update"
  /\ Goto(r, "refused")
  /\ UNCHANGED <<kind, copyVars, storeVars, log, faults>>

\* deleteFile: the file goes first, if it exists.
Unlink(r) ==
  /\ at[r] = "unlink"
  /\ files' = files \ {target[r]}
  /\ Goto(r, "reread")
  /\ UNCHANGED <<kind, copyVars, doc, holder, applied, completions, log, faults>>

\* The repository reads the task again by its id, deleted or not.
Reread(r) ==
  /\ at[r] = "reread"
  /\ IF kind[r] = "detach" /\ target[r] \notin doc.attachments
       THEN Goto(r, "refused") /\ UNCHANGED local
       ELSE Goto(r, "write") /\ local' = [local EXCEPT ![r] = doc]
  /\ UNCHANGED <<kind, seen, target, storeVars, log, faults>>

\* Mutant of Write: without optimisticConcurrency.
WriteUnversioned(r) ==
  /\ at[r] = "write" /\ holder = None
  /\ Store(r)
  /\ Goto(r, IF kind[r] = "assign" THEN "audit" ELSE "activity")
  /\ UNCHANGED <<kind, copyVars, files, holder, log, faults>>

\* Mutant of Write: a VersionError is caught and forgotten.
WriteConflictIgnored(r) ==
  /\ at[r] = "write" /\ holder = None
  /\ IF local[r].v = doc.v THEN Store(r) ELSE UNCHANGED <<doc, applied, completions>>
  /\ Goto(r, IF kind[r] = "assign" THEN "audit" ELSE "activity")
  /\ UNCHANGED <<kind, copyVars, files, holder, log, faults>>

\* task.save: a VersionError is not caught.  The write waits for an open transaction
\* that has written the document.  An assignment has no activity.
Write(r) ==
  /\ at[r] = "write" /\ holder = None
  /\ IF local[r].v = doc.v
       THEN /\ Store(r)
            /\ Goto(r, IF kind[r] = "assign" THEN "audit" ELSE "activity")
       ELSE Goto(r, "error") /\ UNCHANGED <<doc, applied, completions>>
  /\ UNCHANGED <<kind, copyVars, files, holder, log, faults>>

\* activityRepository.create, outside of any transaction.
Activity(r) ==
  /\ at[r] = "activity"
  /\ log' = [log EXCEPT ![r] = @ \cup {"activity"}]
  /\ Goto(r, "audit")
  /\ UNCHANGED <<kind, copyVars, storeVars, faults>>

\* auditService.log; an assignment leaves the cache of task lists alone.
Audit(r) ==
  /\ at[r] = "audit"
  /\ log' = [log EXCEPT ![r] = @ \cup {"audit"}]
  /\ Goto(r, IF kind[r] = "assign" THEN "ok" ELSE "clear")
  /\ UNCHANGED <<kind, copyVars, storeVars, faults>>

\* clearCache, and the response.
ClearCache(r) ==
  /\ at[r] = "clear"
  /\ Goto(r, "ok")
  /\ UNCHANGED <<kind, copyVars, storeVars, log, faults>>

-------------------------------------------------------------------------------
(* Failures                                                                *)

Release(r) == holder' = IF holder = r THEN None ELSE holder

\* Mutant of Abort: the transaction's callback is not repeated but taken as done.
AbortIgnored(r) ==
  /\ at[r] = "commit"
  /\ Fault("abort")
  /\ Release(r)
  /\ Goto(r, "clear")
  /\ UNCHANGED <<kind, copyVars, doc, files, applied, completions, log>>

\* A transient error after the save: the transaction is aborted, its callback repeated.
Abort(r) ==
  /\ at[r] = "commit"
  /\ Fault("abort")
  /\ Release(r)
  /\ Goto(r, "save")
  /\ UNCHANGED <<kind, copyVars, doc, files, applied, completions, log>>

\* An awaited call rejects without effect: the transaction, if any, is aborted.
CallRejected(r) ==
  /\ at[r] \in Running
  /\ Fault("reject")
  /\ Release(r)
  /\ Goto(r, "error")
  /\ UNCHANGED <<kind, copyVars, doc, files, applied, completions, log>>

\* An awaited call rejects although it was executed.
AnswerLost(r) ==
  /\ Fault("reject")
  /\ \/ at[r] = "commit" /\ CommitTransaction(r)
     \/ /\ at[r] = "write" /\ holder = None /\ local[r].v = doc.v
        /\ Store(r)
        /\ UNCHANGED <<kind, copyVars, files, holder, log>>
     \/ /\ at[r] \in {"activity", "audit"}
        /\ log' = [log EXCEPT ![r] = @ \cup {at[r]}]
        /\ UNCHANGED <<kind, copyVars, storeVars>>
  /\ Goto(r, "error")

\* A process dies with the requests it serves; the server aborts their transactions.
Crash ==
  /\ Fault("crash")
  /\ \E S \in SUBSET {r \in Requests : at[r] \in Running} \ {{}} :
       /\ at' = [r \in Requests |-> IF r \in S THEN "error" ELSE at[r]]
       /\ holder' = IF holder \in S THEN None ELSE holder
  /\ UNCHANGED <<kind, copyVars, doc, files, applied, completions, log>>

-------------------------------------------------------------------------------
\* What the handler of r does next.
Step(r) ==
  \/ ReadForUpdate(r) \/ Save(r) \/ Commit(r)
  \/ Authorize(r) \/ Unlink(r) \/ Reread(r) \/ Write(r)
  \/ Activity(r) \/ Audit(r) \/ ClearCache(r)

Next ==
  \/ \E r \in Requests :
       \/ View(r) \/ Arrive(r) \/ Step(r) \/ Forbid(r)
       \/ Abort(r) \/ CallRejected(r) \/ AnswerLost(r)
  \/ Crash

Spec == Init /\ [][Next]_vars

-------------------------------------------------------------------------------
(* Properties                                                              *)

\* An update replaces exactly what its client had seen: no command of another client
\* has changed the task since, whatever was aborted or repeated.
NoLostUpdate ==
  [][\A r \in Requests : doc.title # r /\ doc'.title = r => doc = seen[r]]_vars

\* Updates and deletions never take effect on a deleted task, and nothing undeletes
\* it.  (Comments, assignments and attachments may still reach it: they read the
\* task again without looking at isDeleted.)
DeletedIsFinal ==
  [][doc.deleted => /\ doc'.deleted
                    /\ \A r \in applied' \ applied : kind[r] \in ById]_vars

\* TASK_COMPLETED is audited once for every change of the status to Done; a
\* transaction that is aborted and repeated adds at most one that did not happen.
CompletionsLogged ==
  LET logged == Cardinality({r \in Requests : "completed" \in log[r]}) IN
    /\ completions <= logged
    /\ logged <= completions + faults.abort

\* A request that was answered with success has changed the task and is logged, unless
\* a transaction was aborted; one that was refused has done neither.
AnswersHonest ==
  \A r \in Requests :
    /\ at[r] = "ok" => "audit" \in log[r] /\ (r \in applied \/ faults.abort > 0)
    /\ at[r] = "refused" => r \notin applied /\ log[r] = {}

\* A listed attachment has its file, except while a deletion of it is between the two
\* or after one has failed there.  A file that is not listed belongs to an upload that
\* is not finished or was not successful.
FilesAgree ==
  /\ \A a \in doc.attachments \ files :
       \E r \in Requests : /\ kind[r] = "detach" /\ target[r] = a
                           /\ at[r] \in {"reread", "write", "error"}
  /\ \A a \in files \ doc.attachments : a \in Requests /\ at[a] # "ok"

\* The open transaction that holds the document is that of a request which is about to
\* commit it: a request that ends, however it ends, leaves no lock for others to wait on.
LockHasOwner == holder # None => at[holder] = "commit"

\* docs/data-integrity.md:199 "After a successful update, the new version is
\* returned": the version in the response is one that contains the update.
AcknowledgedUpdateStored ==
  \A r \in Requests : at[r] = "ok" /\ kind[r] \in Updates => r \in applied
===============================================================================
