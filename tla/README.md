# A TLA+ model of the task manager API

The repository is a NestJS service: HTTP commands on workspaces, tasks, users
and exports, stored in MongoDB, with BullMQ queues on Redis for everything that
happens later. This directory models the parts whose correctness depends on the
order of steps taken by several actors. Ten specifications are model-checked on
small instances; eight modules prove theorems about all of them, and about the
table of permissions, for every instance.

Contents: [inventory](#inventory), [plan](#plan), [modules](#modules),
[runs](#runs), [bounds](#bounds), [fairness](#fairness), [proofs](#proofs),
[disagreements](#disagreements), [other observations](#other-observations),
[not modelled](#not-modelled).

## Inventory

Paths are below `src/` of the repository.

| Component | State | Operations | Interacts with | Must hold |
|---|---|---|---|---|
| Outbox (`outbox/`) | `outboxevents`: status, attempts, availableAt | create, findPending, markProcessing, markCompleted, markFailed; cron `dispatchPending` every 5 s | producers (in their transactions), the four queues | a claim is exclusive; nothing COMPLETED that was not handed over; every event settles |
| Queues (`infrastructure/queues`) | BullMQ jobs, locks, attempts; DLQ | add, take, complete, fail, stall, remove | dispatcher, processors | external |
| Email, reminder, export processors (`infrastructure/processors`, `mail/`, `export/`) | delivery / export status, processed events, DLQ | `process(job)`, `generateExport`, `moveToDeadLetterQueue` | queues, SMTP, file system | records agree with outcomes; repeated effects have a cause; every job ends |
| Webhooks (`webhook/`) | webhooks, delivery log, processed events | create, `deliverToWorkspace`, `deliver` | queue, remote endpoints | no webhook lost, an honest log, failures isolated |
| Idempotency (`common/idempotency`) | one Redis record per scope and key | reserve, get, complete, delete around a handler | creating endpoints | one resource for one key, genuine replays |
| Task commands (`task/`) | task with `__v`, comments, attachments, files | update (If-Match), delete, comment, assign, attach, detach | activity, audit, outbox | no lost update; log agrees with changes; files behind attachments |
| Task list and categories (`task/`, `category/`) | tasks, activities, events; cached pages, statistics, categories | create, page by cursor or number, statistics, category commands | outbox, cache of each process | walks are complete and private; the cache is fresh enough; creation is atomic |
| Sessions (`auth/`, `users/`) | refresh hash, family and id, reset and verification tokens; counters in Redis | register, verify, login, refresh, logout, forgot, reset, delete, rate limit | outbox, users | tokens are used once; an ended session stays ended; throttles hold and pass |
| Workspaces (`workspace/`) | workspace, owner, flags, settings | create, read and update flags and settings, `isEnabled` | guard, all users of flags | what a half-made workspace is; no update lost |
| Invitations, memberships (`workspace/`) | memberships, invitations, caches | add member, invite, accept, decline, view | users, mail, audit | one membership; an invitation is answered once; members are admitted |
| Reminder cron (`reminder/`) and shutdown (`infrastructure/shutdown`) | `reminderSent`; workers and MongoDB connection of a process | daily scan; close workers, then MongoDB | tasks, flags, deliveries, outbox | a marked task has been reminded; no job is cut off |
| Authorization (`common/authorization`) | none | `createForRole`, policies, guard | every controller | the roles form a hierarchy |
| Users, activity, audit | inserts, queries | | | part of the handlers above |
| Health, metrics, WebSocket, controllers, DTOs | none | input and output | | |

What is hard here: cron runs that overlap in and across processes; a process
that dies between two awaited calls; a call that rejects although it was
applied; BullMQ's at-least-once execution with locks that expire under a live
worker; read-check-write sequences on MongoDB and Redis without a transaction;
caches whose keys every process registers for itself; an orderly shutdown that
does not stop the crons. `PROJECT.json` lists every such place under `hazards`.

## Plan

The order was that of the damage an error would do, and it is done:

1. **Outbox**: `OutboxContract`, `OutboxDispatch` (its proofs are the last part of
   `TaskCatalogProofs`).
2. **Processors**: `JobQueue`, `JobExecution`; on them `JobWorkers`,
   `JobWorkersProofs` and `WebhookDelivery`, `WebhookDeliveryProofs`.
3. **Idempotency**: `Idempotency` (its proofs are the last part of `WorkspacesProofs`).
4. **Tasks**: `TaskDocument`, `TaskDocumentProofs` (the commands on one task), `TaskCatalog`,
   `TaskCatalogProofs` (creation, list, cache, category).
5. **Workspaces**: `Invitations`, `InvitationsProofs`; `Workspaces` on `Authorization`,
   `WorkspacesProofs`.
6. **Sessions**: `Sessions`, `SessionsProofs`.
7. **Reminders and shutdown**: `Reminders`, `RemindersProofs`.

Worth doing next: a session automaton as the abstraction of `Sessions`; the
download of an export with its token and expiry; two overlapping cron runs of
one process in the reminder run.

## Modules

**`OutboxContract`** says what the outbox promises, in three variables: events
accepted, how often each was handed over, and which are acknowledged.

**`OutboxDispatch`** is `outbox.repository.ts` and `dispatchPending`. A document
is `status`, `attempts` and `availableAt` (unset, past or future). `job` is what
BullMQ knows under the event's id: `queue.add` does nothing while that job is
kept. Each run of `dispatchPending` has a position `pc`, its `batch`, the event
it has claimed (`current`) and the attempts `markFailed` has read (`seen`). One
action per await: `StartRun` (findPending), `Claim`/`Skip` (markProcessing),
`AddJob`, `Complete`, `FailRead`/`FailWrite` (the two calls of `markFailed`).
Every call can also reject, before or after it took effect (`ClaimRejected`,
`AddRejected`, `CompleteRejected`, `FailRejected`), and go where the code's
try/catch sends it. `Crash` ends all runs of a process.

**`JobQueue`** is the job life cycle of BullMQ as configured here (external).
**`JobExecution`** adds a worker that takes a job, proceeds await by await,
settles, loses its lock or dies. **`JobWorkers`** is the email, reminder and
export handlers on that base: `Check` (hasBeenProcessed, reminder and export
only), `Lookup`, `Begin`, `Effect`, `Conclude`, `Mark` (markProcessed), and the
catch block `Handle`, `DeadLetter`. The handlers differ in two places, written as
`Register(kind)` and `InTry(kind, point)`.

**`WebhookDelivery`** is the webhook handler on the same base. Each execution
runs one delivery per webhook concurrently (`step[w][h]`), writes its own
document of the delivery log (`row[w][h]`), and `Gather` is `Promise.allSettled`.
What an execution knows of its deliveries ends with it (`DropDeliveries`).

**`Idempotency`** is one Redis record and the interceptor's position with each
request. `Reserve` is SET NX, `Get` the separate read, `Complete` the
unconditional SET and `Delete` the unconditional DEL. `HandleThrows` covers a
handler that throws after it committed, as `create-task.handler.ts` can.

**`TaskDocument`** is one MongoDB document with `__v` under concurrent requests.
`doc` is what is committed, `local[r]` the Mongoose copy of request `r`, `seen[r]`
what the client of an update got with its ETag, `holder` the request whose open
transaction has written the document. An update is `View` (GET), `ReadForUpdate`
(findAuthorizedTask and If-Match), `Save` and `Commit` (the transaction with its
audit and activity entries), `ClearCache`. The others are `Authorize`, for an
attachment's deletion `Unlink`, `Reread` (findById in the repository), `Write`
(save, with optimistic concurrency), `Activity`, `Audit`, `ClearCache`.
`Abort` repeats the callback of `withTransaction`; the copy then counts as saved
(`SavedBefore`), because Mongoose restores it only in `Connection.transaction`.
Title, comments and assignees stand for what the request wrote.

**`TaskCatalog`** is the whole list next to one category. A request is the list of
awaits it has still to do (`todo`), so that each await of each handler is one
action wherever it occurs: `CheckFlag`, `Query`, `Count`, `SetCached` and `RegisterKey` of a
cached read, `Insert` and `Commit` of a creation's transaction, and of a `clearCache`
one `ClearKey` per key and a `ForgetKeys`, because it deletes only the keys that its
own process has registered. `AbortCreation` repeats a creation's transaction,
`ProcessDies` ends all requests of a process. The sort of the pipeline is the
function `Sorted` that gives each entry the place its predecessors leave to it. A client that pages goes on by itself with the cursor or the number
it got. `steady` and `ever` are kept for the properties: what was in the list
whenever, or at some time when, a page was computed. Saving a task is one
action here, since `TaskDocument` has its inside.

**`Invitations`** is one workspace. `invitation` and `origin` (who made a user a
member) are what is committed; an acceptance that has inserted its membership in
its transaction is in `inserting`, one that has written its invitation in
`marked`, and `snapshot` is the status its transaction reads. A request is
`Find` (findByTokenHash and the checks, accept and decline), lookups of the
membership and of pending invitations (`GetCached`, `Query`, `StoreCached`,
`RegisterKey`), and then the writes: `InsertInvitation`, `Mail`, `Audit` for an
invitation, `Join` and `Audit` for an added member, `Join`, `MarkAccepted` and
`Commit` for an acceptance, `MarkDeclined` and `Audit` for a decline. Every write
is followed by `clearCache`, one `ClearKey` per key and a `ForgetKeys`: the cache
is shared, but a process deletes only the keys it has set itself (`registry`).
`Found` says where a handler goes on after a lookup. Users without an account,
roles and the membership of the one who invites are checks without a race, and
are left out.

**`Sessions`** is one account: its document, written by updates that do not look at
the old value, the failure counter and the rate limit in Redis (INCR and EXPIRE
are two awaits), and the cached list of users. Again a request is the list of
its awaits; `saw[r]` is the copy of account and session that it works on, and
`call[r]` has the token it presents. A token is known by the request that issued
it, which is what a hash comparison tells apart. `Stop` ends a request at any
await, with the effect of the await done or not.

**`Authorization`** is the table: the rules of `createForRole`, the policy of every
route, and the guard that asks the one for the other. **`Workspaces`** extends it:
the slug, the owner, the flags and the settings of one workspace, starting from
every prefix of a creation, with `GetFlags` and `IsEnabled` as the two ways the
code reads a flag, and the guard as the first step of each route. An update names one
or several fields (`change`, `Named`), as the handlers pass on what a DTO leaves defined.

**`Reminders`** is `handleCron` in several processes, with a position, the tasks it
has left and its current task for each run; `Leave` is what `continue`, the
catch block and the end of the loop have in common. The same module has the shutdown of
each process (`Shutdown`, `CloseWorker`, `CloseMongo`, `Exit`), because the crons run
on while it lasts: their calls reject once MongoDB is closed. The two catch blocks are
`CloseWorkerFails`, after which a worker keeps its job, and `CloseMongoFails`, after which
the process exits with its connection open.

The `MC*` modules hold the small instances. Operators that a comment calls
a mutant are plausible errors of the code, used to see that a property notices
them; no specification uses them.

How the modules fit together: an event that `TaskCatalog`, `Sessions` or `Reminders`
creates is one that `OutboxDispatch` collects; what `OutboxDispatch` hands over
(`job`) is what `JobExecution` takes (`Dispatch`, more than once, as the contract
allows); `Idempotency` stands around a creation of `TaskCatalog` that may commit and
then fail. `WebhookDelivery` and `JobWorkers` share the whole of `JobExecution`.

## Runs

| Run | Shows |
|---|---|
| `outbox` | `ClaimExclusive`: overlapping runs never share an event. `StrandedBound`: events stay PROCESSING without a run only after a rejected MongoDB call or a process death, and how many. `ImplementsContract`: refinement of `OutboxContract`. `SettlesEventually`: rejected adds, stale batches and the limit only delay an event. |
| `jobs` | `RepeatsAccounted`: each repeated mail or export has its failure, or a job added again. `CompletedMeansDone`, `DeadLetterAgrees`: what the outcome of a job says about effect and record. `EveryJobEnds`. |
| `webhooks` | `ProcessedMeansReceived`: no webhook is lost. `FailuresIsolated`: a webhook is not called again because another one failed. `OutcomeAgreesWithLog`. |
| `idempotency` | `OneResourceUndisturbed`, `ReplayIsGenuine`, `ReservationHasHolder`, `StoredResponseKept`. |
| `tasks` | `NoLostUpdate`: an update replaces exactly what its client had seen. `DeletedIsFinal`. `CompletionsLogged`: one TASK_COMPLETED for each change to Done, plus at most one for each aborted transaction. `AnswersHonest`: what success and refusal mean for the document and the log. `FilesAgree`: listed attachments and files differ only while, or after, an upload or deletion is stuck in between. |
| `catalog` | `WalkComplete`: a walk to the last page shows every task that stays once, with cursors whatever else happens. `PagesArePrivate`: no cache entry shows a user the tasks of another one. `ReadsFresh`: who may be shown old data, and by whose cache. `CreationAtomic`: task, activity and event. |
| `invitations` | `AcceptanceAtomic`: membership, status and audit record of an acceptance appear together. `OneJoin`: of all that race to make a user a member only one succeeds. `AnswerIsFinal`: accept and decline do not undo each other. `MembersAdmitted`: no cache entry hides a membership. |
| `sessions` | `TokenUsedOnce`: a refresh, reset or verification token works twice only for requests that overlap. `EndedSessionStaysEnded`: after a logout, a reset, a deletion or a detected reuse only a refresh that overlapped it goes on. `LimitsHold`, `CounterExpires`: the throttles neither leak nor lock out for good. `DeletedNotListed`. |
| `workspaces` | `CreationAccounted`: what a creation has made when it ends, and why it may stop. `UpdatesKept`: updates of different fields do not undo each other, also when both insert the document. `FlagAnswersAgree`: the API shows the flags that the rest of the code goes by. |
| `reminders` | `DuplicateAccounted`: two reminders need two runs that held the task at a time, or a cut-off between event and mark. `MarkedMeansSent`: no mark without a reminder. `JobsNotCut`: the shutdown waits for the jobs. `EventuallyReminded`: a task that stays due is reminded, whatever is skipped or fails. |
| `task_acknowledged`, `invitation_declined` | see [disagreements](#disagreements) |

Some properties have a premise on `faults` or `incidents`. The runs reach both
sides of it: the premise is there because the property fails without it, and
the hazards say how. Others name the overlap that they allow (`TokenUsedOnce`,
`EndedSessionStaysEnded`, `ReadsFresh`, `DuplicateAccounted`): what the code does
not exclude is part of the statement, and what it does exclude is checked. A hazard
in PROJECT.json whose bad case is allowed in this way, and so not caught, has a note.

## Bounds

* `outbox`: two events, a limit of one (so the limit binds), three runs of which
  two share a process, `MaxAttempts` 2, one fault of each kind. Two runs suffice
  for every race on a claim; the third is in another process and survives the
  death of the first. `handed` and `attempts` are bounded by the faults: without
  a fault an event is claimed once.
* `jobs`: one job of each kind in turn (jobs share nothing but the workers), two
  workers, so that a worker that lost its lock and its successor overlap; three
  attempts as in the code; three failing effects, so that the job can fail for
  good; two rejected calls, two losses (`MaxStalledCount` 1 makes the second
  one final); the job is added at most twice.
* `webhooks`: one event, two webhooks, two workers, two attempts, one failing
  POST per webhook, one rejected call, one loss, two additions. Workers and
  webhooks are interchangeable, and no property of this run is temporal, so
  the run uses their symmetry.
* `idempotency`: three requests with one body and a fourth with another; two
  incidents of each kind (handler, Redis, expiry, process death). Three requests
  are what the duplicate needs: one that fails, one past the reservation, one
  that reserves. These three are interchangeable.
* `tasks`: three requests, each any command; two aborted transactions, one
  rejected call, one process death of any of the requests. Three requests are
  what a stale save needs in the worst case: one that reads, one that changes the
  document, and one that changes it back or deletes it.
* `catalog`: thirteen mixes of two or three requests, chosen so that each kind
  of reader meets writers of what it reads, twice where order matters (a walk that
  meets a creation and a deletion at once is left to the proofs); an
  administrator and a user, who own one task each; pages of one task, so that
  each walk has several; two processes, so that one cannot clear what the other
  has registered; one fault. A third task can be created.
* `invitations`: one user, since users share neither documents nor keys; two
  invitations that may be out at first, so that one user has two; three requests
  of any kind in two processes, so that one fills a cache another cannot clear
  while a third looks; one fault of any kind.
* `sessions`: three requests of any of ten kinds for one account, which may exist
  at first; two passwords; `MaxAttempts` and `MaxUses` 2, so that three requests
  can exceed both; one request that is stopped. A token that is stolen and used
  twice needs one request that issues it or the first session, and two that present it.
* `workspaces`: three requests of two users, two fields with different defaults,
  five updates, of one field or of both at once, so that two updates may agree in one
  field and differ in the other; every prefix of an earlier creation; one request that
  is stopped.
* `reminders`: two processes with one run at a time each, which suffices for two
  runs to hold one task; two tasks of which one has an owner; two workers, so
  that one is closed while the other still takes jobs; one fault, one shutdown.
  Deaths, restarts and changes of flags and tasks are otherwise unlimited.

Where a run uses symmetry its properties are invariants or formulas about one
step, never liveness.

## Fairness

`outbox` and `jobs`: weak fairness of what the program does by itself. The event
loop resumes a run or handler whose call has returned, the cron keeps firing,
idle workers poll, BullMQ checks for stalled jobs, the clock passes
`availableAt`. `reminders`: the cron fires again and again, and what a run awaits is
answered; `EventuallyReminded` asks besides that one process stays up and that
nothing is changed any more that makes the task or the flags ineligible. Nothing
is assumed of producers, failures, removals of jobs, shutdowns or clients: a
request need not arrive. A handler may fail instead of returning, and every
premise on a rejected call is bounded, so that failing for ever is not a
behaviour of these models. The other specifications have no fairness, since their
requests simply end and their properties are about safety.

## Proofs

All theorems hold for every value of the constants under the named assumptions
of the modules (`BoundsAssumption`, `HostAssumption`, `ExecutionBoundsAssumption`,
`RemindersAssumption` and so on), which TLC evaluates on the instances.

`TaskCatalogProofs`, first part: `CatalogTypeCorrectness`, `WalksComplete` (`WalkComplete`),
`PagesStayPrivate` (`PagesArePrivate`), `ReadsStayFresh` (`ReadsFresh`) and `CreationsAtomic`
(`CreationAtomic`): all properties of the run. None of them is inductive. `CatalogInv`
says in this order
* `ShapeInv`: which lists of awaits may be left of a request of each kind;
* `CreationInv`, `EffectInv`: which tasks are stored, logged and announced, that no two
  creations make the same one, and what a write has done once it clears the cache;
* `ValueInv`: what a value that is cached, or read and not yet cached, stands for
  (`Sound`, `Whole`): it is computed from the tasks of the user in its key; a cursor
  page has every task that stayed between its cursor and the next, in rising order;
  a page with a number has the entries of its ranks, if the list was the same when
  it was read and when it was counted;
* `ClientInv`: what a walk has shown up to its cursor or its page number;
* `RegistryInv`: unless it is disturbed, a process knows every key that is cached, or is
  about to register it;
* `FreshInv`: once a write has been answered and is not `Excused`, neither the cache nor
  a later reader has a value that is older.

The order of the list needs no induction over data, because the place of an entry is
the number of its predecessors (`Rank`): ranks are different, below the size, and
each is taken, so that consecutive pages fit together. `ReadsFresh` is an argument
about who knows what: a write that is answered has deleted all keys that its
process has registered, and while every lookup is made in that process and beside no
write these are all keys that are cached; so an older value that is found later was
left by another process, or by a reader beside a write, which is what the property
excuses. As in `SessionsProofs`, the step is proved once for the requests that do not
move (the lemmas `*Kept`, `*Others`), and once for the one that does.

`TaskCatalogProofs`, last part, about `OutboxDispatch`: `TypeCorrectness`, `Exclusion`
(`ClaimExclusive`), `JobsPerAttempt` (an event never has more jobs than attempts) and `Refinement`
(`ImplementsContract`). They follow from one inductive invariant `Inv`. `ClaimExclusive`
alone is not inductive: that `markProcessing` cannot claim the event of another run
needs that a run at a holding point has an event whose status is PROCESSING, and
that `handed` is below `attempts` until the claim's job is added. The proof of the
step has one lemma per action; `Refinement` then shows that every action is
`Accept`, `HandOver`, `Ack` or a stutter of the contract. For `LossesBounded`
(`StrandedBound`) the count of stranded events is compared step by step: a step that does not fail strands none
(`RunStrandsNothing`), a rejected call the one event it was about, and a death what
the runs of the process held, which is no more than there are runs (`HeldAtMost`).

`TaskDocumentProofs`: `TypeCorrectness`, `NoUpdateLost` (`NoLostUpdate`), `DeletionIsFinal`
(`DeletedIsFinal`), `NoOrphanedLock` (nobody waits for a transaction whose request has
ended), `HonestAnswers` (`AnswersHonest`), `AttachmentsAgree` (`FilesAgree`) and
`CompletionsAudited` (`CompletionsLogged`): all properties of the run. The argument is
that the version identifies the contents (`CopyInv`: every copy in use that has
the current version *is* the document). This is inductive because every write
increments the version (`WrittenFacts`, `CopiesAge`), and because nothing changes the
document between a save in a transaction and its commit (`HolderInv`). `Writers` then
says of every step who changed the document and what that request had seen of
it. `AnswerInv` says what a request has stored and logged at each of its points,
`FileInv` whose file each attachment is and which deletion is behind a missing one,
and `CompletionInv` counts: completions that are stored and those that are logged
differ by the transactions that were aborted.

`InvitationsProofs`: `TypeCorrectness`, `Atomicity` (`AcceptanceAtomic`), `SingleJoin`
(`OneJoin`), `AnswersStay` (`AnswerIsFinal`), `NoMemberHidden` (`MembersAdmitted`) and
`NoOrphanTransaction`. What makes them inductive is `TransactionInv`: an open
transaction holds the insert of its user, and one that has written its
invitation holds it PENDING until it commits (which is why a decline waits, and
why the commit cannot overwrite one), while one whose snapshot was not PENDING
writes none; and `AddresseeInv`, by which two transactions that race for one
invitation race for one user. The cache needs `CacheInv`: only memberships that
exist are cached under the key of a member, and no membership is ever deleted.
The lemmas `*Store` say what a step does to these parts, the lemmas `*Inv` put them
together, one for each action.

`RemindersProofs`: `TypeCorrectness`, `Duplicates` (`DuplicateAccounted`), `NothingLost`
(`MarkedMeansSent`) and `OrderlyShutdown` (`JobsNotCut`). A second event is excluded by
`ContestInv`, which says where a task that was never contested is: held by one run
at most and not marked, or marked and held by none. `MarkedMeansSent` is an
equation between deliveries, events, orphans and the runs in between, so that
every step has to be counted (`CutOff` for the runs of a process that ends). `JobInv`
is about the processes alone, and so the two halves are proved apart.

`JobWorkersProofs`: `TypeCorrectness`, `RepeatsCounted` (`RepeatsAccounted`),
`CompletedJobsDone` (`CompletedMeansDone`) and `DeadLettersAgree` (`DeadLetterAgrees`). The
last two hold while no lock is lost: then an execution is alone with its job
(`AloneInv`), and `PointInv` and `OutcomeInv` follow record, register and dead-letter
queue from point to point, up to where the final attempt can only fail. Repeats
are counted whatever is lost. `RepeatsAccounted` is not inductive, since the
next effect has been made possible long before it happens; `Counted` adds to the
effects the executions that may still reach theirs (`Pending`) and whether the job
is going to be executed again (`Ahead`). A step moves one unit along, from `Ahead` to
`Pending` to the effects, and only a failure, or a second `queue.add`, brings a new one
(`CountStep`).

`WebhookDeliveryProofs`: `TypeCorrectness`, `ProcessedReceived`
(`ProcessedMeansReceived`), `Isolation` (`FailuresIsolated`) and `OutcomeLogged`
(`OutcomeAgreesWithLog`). An execution knows little: the delivery that it is about to
update may have been passed by others, and its lock may be lost. What it can
rely on is that a SUCCESS, read or written, stands for a POST that arrived.
`ReceiptInv` follows this from the POST to the row, to the fulfilled delivery, to
`Gather` and to the processed event. The last two hold as long as only POSTs fail:
then executions are alone (`AloneInv`), a SUCCESS is never overwritten, and of the
POSTs that arrived only one is not among the failed ones, namely that of the SUCCESS
or of the execution that is going to record it (`CountInv`).

`SessionsProofs`: `TypeCorrectness`, `TokensUsedOnce` (`TokenUsedOnce`), `SessionsStayEnded`
(`EndedSessionStaysEnded`), `WindowsHold` (`LimitsHold`), `CountersExpire` (`CounterExpires`) and
`DeletedGone` (`DeletedNotListed`): all properties of the run. A request is the list of
its awaits, so the invariant first says which lists may be left of a request of each
kind that is going to be answered in each way (`Ok`, `Refused`, `ShapeInv`); how far a
request has got is then the length of its list (`Rest`), and `OkAwaits` says which await
comes at which length. On this rest:
* `OrderInv`: the requests that had ended when one arrived had not seen it end;
* `IdInv` and `MailInv`: an account or a mailed token is known by a request that has
  passed the await that made it, so that nothing is made twice;
* `OnceInv` and `PairInv`: a token that has been consumed is no longer in the document,
  and cannot come back, since only its issuer stores it;
* `EndInv`: once a request has cleared a session, and unless another refresh overlaps
  it, neither the document nor a later refresh has a family from before;
* `CountInv`: who may still count a failure has looked at a window that was not full;
* `ListInv`: after a deletion that no list overlapped neither a list nor the cache
  has the account.

The step is proved once for all requests but its own: each of the 23 awaits has an
`Effect`, a few facts on what it may change of the document, of the counters, of the
cache and of what the request has read (the lemmas `*Effect`), and the `*Kept` lemmas
derive the invariant from the effect alone. Arrivals, the expiry of tokens, counters
and cache, and requests that are stopped come apart (`Arrival*`, `Expiries`).

The proof corrected a property: `EndedSessionStaysEnded` used to speak of any refresh
after the request that ends a session. With six requests a client can present a
token of an account that has been deleted and registered again; this ends no session
of the new account. The property now asks for a refresh of the account that the ended
session was of (`AccountOf`).

`WorkspacesProofs`: `TypeCorrectness`, `CreationsAccounted` (`CreationAccounted`),
`UpdatesStayKept` (`UpdatesKept`) and `FlagsAgree` (`FlagAnswersAgree`), again along the lists
of awaits: `Inv` says which awaits may be left of each request and what has been done
by then. Each field of an update is kept (`KeptField`) because nothing but an update of
the same field writes it, and because an insert happens only where there is no document; so the invariant
needs that a document which a creation looked for in vain is either still missing,
or was inserted by a request of which the creation has not seen the end. Every await
is summed up by its `Effect` here too.

The same module proves of the table: `RoleHierarchy` (on every route, a higher role is
admitted wherever a lower one is, although `createForRole` lists each role's rules
apart) and `MembersAndTasks` (which tasks a member may update, delete, or assign).
Its last part is about `Idempotency`, the interceptor in front of a creating endpoint
(`KeySpec` is its specification): `KeyTypeCorrectness`, `GenuineReplays` (`ReplayIsGenuine`),
`OneResource` (`OneResourceUndisturbed`), `ResponseKept` (`StoredResponseKept`) and
`ReservationsHeld` (`ReservationHasHolder`). `ReplayIsGenuine` is not inductive: a replay
is genuine only if the response that is stored is one of a request that has
created its resource, which `GenuineInv` adds. The properties of undisturbed
behaviours follow from `MirrorInv`: without an incident the record mirrors the one
request that got past the reservation, step by step, until it holds that
request's response. `ReservationsHeld` is inductive with the types alone.

The inductive invariants were checked by TLC before they were proved: those of
`Sessions` and `Workspaces` on the instances of their runs, and that of `Sessions` also
on random behaviours of six requests.

Only model-checked: the liveness properties `SettlesEventually`, `EveryJobEnds` and
`EventuallyReminded`, which rest on fairness and ENABLED and so are out of the prover's
reach. Every invariant and every action property of a passing run is a theorem.

## Disagreements

With a run:

* **Successful update** (docs/data-integrity.md:199; `task_acknowledged`).
  `withTransaction` repeats its callback on the same Mongoose document. If the first
  attempt was aborted after the save, and another command has saved the task
  since, the repeated save checks only that the version exists: the update is
  answered with success and audited, but not stored. (Without another command it
  is answered 412, although nothing had changed.) The status of a stale update
  is 412 where README.md:125 and docs/data-integrity.md:19 say 409; the number is
  not modelled.
* **Declined successfully** (invitation.controller.ts:138; `invitation_declined`). The
  decline checks the status on a copy and does not look at what `markDeclined`
  matched: after an acceptance that was committed in between it declines nothing,
  but is audited and answered with success.

Met while modelling, and accounted for in a property:

* **At-least-once dispatch** (README.md:178). A process that dies between
  `markProcessing` and `queue.add` strands the event: PROCESSING events are not
  looked for. `StrandedBound` says how many there can be.
* **Maximum attempts** (outbox.integration-spec.ts:465). At the maximum
  `markFailed` removes `availableAt` from an event that stays FAILED, and
  `findPending` takes FAILED events without `availableAt`: it is retried at every
  run of the cron instead of never (`SettlesEventually` holds because of this).
* **Idempotent job handling** (README.md:197). The email handler consults
  neither the processed events nor the delivery's status: the second term of
  `RepeatsAccounted`.
* **No duplicates on retry** (README.md:747). SET NX and GET are two commands; a
  record deleted in between lets a retry through without a reservation. This is
  the premise of `OneResourceUndisturbed`.

## Other observations

Neither a document nor a test says otherwise, but a reader may want to know:

* A creation of a workspace that stops after its first insert keeps the slug,
  with no owner; the settings of a workspace are inserted by a GET; a lookup and
  an insert that race with another request's are answered with the error of the
  unique index.
* `forgot-password` lower-cases the e-mail, registration and login do not. A
  verification mail is never sent again.
* A refresh that fails after the rotation makes the client's retry look like a
  reuse, which ends the session. A reset that fails between `clearReset` and the
  end of the session leaves the old session valid. A refresh that overlaps a
  logout or a reset may bring the session back; `EndedSessionStaysEnded` allows just this.
* The refresh hash is bcrypt's, which looks at 72 bytes of the token.
* A task whose due date is moved after its reminder gets no further one, as
  nothing resets `reminderSent`. A `find` that rejects in the cron is an unhandled
  rejection.
* The policy of the route that changes assignees asks about tasks in general, so
  that a member passes it for every task (`MembersAndTasks`).
* An invitation that has expired stays PENDING: it can be neither accepted nor
  declined, and keeps its addressee from being invited again. Two invitations
  that overlap may both be inserted.

## Not modelled

* Payloads, templates, file formats, response bodies, log lines, durations (only
  whether `availableAt` lies in the future, whether a key or token has expired,
  and that a POST ends). BullMQ, MongoDB, Redis and SMTP are modelled from how
  the code uses them; framework hooks (MongoDB's own module, the scheduler,
  BullMQ's connection) do nothing in the shutdown that the code orders.
* In `TaskDocument` every update changes something (one that changes nothing is not
  saved by Mongoose and leaves no trace), and requests are authorized;
  `reminderSent`, which the cron sets without touching `__v`, is in `Reminders`.
* `aggregateWorkspaceTasks` and `findAllForExport` of the task repository, the list of
  members, workspaces and invitations, and the queries of activity and audit log:
  one read each, with nothing that a step of another actor could make wrong
  beyond what the cached reads of `TaskCatalog` show.
* The request, token and download of an export: `generateExport` is in `JobWorkers`,
  the rest checks a record that is not changed any more.
* The workspace the guard asks in. `PoliciesGuard` takes the first of `params.workspaceId`,
  `query.workspaceId`, `body.workspaceId` and `params.id` (policies.guard.ts:81-85), so that
  the membership it looks up may be that of another workspace than the one in the
  path, which the handler reads or changes. `Guard` in `Workspaces` always asks in the
  workspace of the path. No property says that somebody is refused:
  `CreationAccounted`, `UpdatesKept` and `FlagAnswersAgree` hold whomever the guard admits.
* Null in an update. `@IsOptional` lets it through: a stored flag may then be null, which
  `getFlags` shows as null and `isEnabled` takes for false, both falsy; a setting that is
  null is replaced by its default on insertion and refused by the schema on update.
  Values in `Workspaces` are Boolean, or left out.
* The cache of single users in `user.repository.ts`, and the methods of repositories
  that have no caller (`updateStatus`, `findPendingByWorkspace`, `exists`).
* The framework's global throttler, health and metrics endpoints, queue metrics, the
  WebSocket gateway, controllers and DTOs: input, output and validation without
  state of their own. The dead-letter processor only logs.
