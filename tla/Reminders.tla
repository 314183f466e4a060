------------------------------- MODULE Reminders --------------------------------
(* The reminder cron of every process, and the orderly shutdown of a process    *)
(* that cuts it off.                                                            *)
(*                                                                              *)
(* A run finds the tasks that fall due and have no reminder yet, and writes for *)
(* each of them an e-mail delivery, an outbox event and the mark reminderSent,  *)
(* by three calls outside of a transaction.  Nothing keeps the runs of two      *)
(* processes apart, nor does the cron wait for its last run.  Shutdown closes   *)
(* the queue workers one after the other and MongoDB at last; the cron goes on  *)
(* until the process exits.  (The hooks of the framework's own modules are left *)
(* out: their order is not fixed by the code.)                                  *)
EXTENDS Integers, FiniteSets

CONSTANTS
  Tasks,
  Addressed,    \* the tasks with a workspace and an owner
  Processes,
  Slots,        \* bound: runs of one process that overlap
  Workers,      \* the number of queue workers of a process, 5 in the code
  None,         \* no task
  MaxFaults,    \* bound: rejected calls and process deaths
  MaxStops      \* bound: orderly shutdowns

ASSUME RemindersAssumption ==
  /\ Addressed \subseteq Tasks
  /\ IsFiniteSet(Processes) /\ IsFiniteSet(Slots)
  /\ Workers \in Nat \ {0}
  /\ None \notin Tasks
  /\ MaxFaults \in Nat
  /\ MaxStops \in Nat

Runs == Processes \X Slots
FlagNames == {"reminders", "emailNotifications"}

VARIABLES
  due,         \* the tasks that are due within 24 hours, not done and not deleted
  flags,       \* the flags of the workspace that are on
  deliveries,  \* how many e-mail deliveries have been created for each task
  events,      \* how many REMINDER_DUE events have been created for each task
  sent,        \* the tasks that are marked reminderSent
  at,          \* what each run does next
  left,        \* the tasks that each run has still to look at
  task,        \* the task that each run is at
  phase,       \* where each process is between its start and its exit
  closed,      \* how many of its workers a process has closed, or tried to
  jobs,        \* the workers of each process that have a job, from its shutdown on
  contested,   \* the tasks that two runs had at a time, or that a run left unmarked
  orphans,     \* how many deliveries were left without an event
  faults,      \* faults so far
  stops        \* shutdowns so far

taskVars == <<due, flags>>
reminderVars == <<deliveries, events, sent>>
runVars == <<at, left, task>>
processVars == <<phase, closed, jobs, stops>>
historyVars == <<contested, orphans>>
vars == <<taskVars, reminderVars, runVars, processVars, historyVars, faults>>

Places == {"idle", "reminders", "email", "delivery", "event", "mark"}
WorkerIds == 1 .. Workers

TypeOK ==
  /\ due \subseteq Tasks /\ flags \subseteq FlagNames
  /\ deliveries \in [Tasks -> Nat] /\ events \in [Tasks -> Nat]
  /\ sent \subseteq Tasks
  /\ at \in [Runs -> Places]
  /\ left \in [Runs -> SUBSET Tasks]
  /\ task \in [Runs -> Tasks \cup {None}]
  /\ phase \in [Processes -> {"up", "closing", "closed", "unclosed", "gone"}]
  /\ closed \in [Processes -> 0 .. Workers]
  /\ jobs \in [Processes -> SUBSET WorkerIds]
  /\ contested \subseteq Tasks
  /\ orphans \in [Tasks -> Nat]
  /\ faults \in 0 .. MaxFaults
  /\ stops \in 0 .. MaxStops

Init ==
  /\ due \in SUBSET Tasks
  /\ flags \in SUBSET FlagNames
  /\ deliveries = [t \in Tasks |-> 0]
  /\ events = [t \in Tasks |-> 0]
  /\ sent = {}
  /\ at = [x \in Runs |-> "idle"]
  /\ left = [x \in Runs |-> {}]
  /\ task = [x \in Runs |-> None]
  /\ phase = [p \in Processes |-> "up"]
  /\ closed = [p \in Processes |-> 0]
  /\ jobs = [p \in Processes |-> {}]
  /\ contested = {}
  /\ orphans = [t \in Tasks |-> 0]
  /\ faults = 0
  /\ stops = 0

\* MongoDB answers the process until its connection is closed; the closing may fail.
Connected(p) == phase[p] \in {"up", "closing", "unclosed"}

Fault ==
  /\ faults < MaxFaults
  /\ faults' = faults + 1

-------------------------------------------------------------------------------
(* The cron                                                                *)

\* Mutant of Wanted: also the tasks that have had a reminder.
WantedAgain == due

\* The filter of find.
Wanted == due \ sent

\* handleCron: a run starts and reads its tasks with their owners.  It shares those with
\* the runs that have not come to the mark yet.
Start(x) ==
  /\ at[x] = "idle" /\ Connected(x[1])
  /\ Wanted # {}
  /\ at' = [at EXCEPT ![x] = "reminders"]
  /\ left' = [left EXCEPT ![x] = Wanted]
  /\ contested' = contested \cup (Wanted \cap UNION {left[y] : y \in Runs})
  /\ UNCHANGED <<taskVars, reminderVars, task, processVars, orphans, faults>>

\* The run x goes on with its step s.
GoOn(x, s) ==
  /\ at' = [at EXCEPT ![x] = s]
  /\ UNCHANGED <<left, task>>

\* Mutant of Leave: a task that is skipped ends the run.
LeaveAll(x, t) ==
  /\ left' = [left EXCEPT ![x] = {}]
  /\ task' = [task EXCEPT ![x] = None]
  /\ at' = [at EXCEPT ![x] = "idle"]

\* x has done with t, and continues with the next task, if there is one.
Leave(x, t) ==
  /\ left' = [left EXCEPT ![x] = @ \ {t}]
  /\ task' = [task EXCEPT ![x] = None]
  /\ at' = [at EXCEPT ![x] = IF left[x] = {t} THEN "idle" ELSE "reminders"]

\* The run takes its next task; isEnabled of the reminders.
CheckReminders(x) ==
  /\ at[x] = "reminders" /\ Connected(x[1])
  /\ \E t \in left[x] :
       IF "reminders" \in flags
         THEN /\ task' = [task EXCEPT ![x] = t]
              /\ at' = [at EXCEPT ![x] = "email"]
              /\ UNCHANGED left
         ELSE Leave(x, t)
  /\ UNCHANGED <<taskVars, reminderVars, processVars, historyVars, faults>>

\* isEnabled of the e-mails; a task without an owner is skipped then.  (One without a workspace
\* is skipped before the flags are read, which comes to the same.)
CheckEmail(x) ==
  /\ at[x] = "email" /\ Connected(x[1])
  /\ IF "emailNotifications" \in flags /\ task[x] \in Addressed
       THEN GoOn(x, "delivery")
       ELSE Leave(x, task[x])
  /\ UNCHANGED <<taskVars, reminderVars, processVars, historyVars, faults>>

\* emailDeliveryRepository.create
CreateDelivery(x) ==
  /\ at[x] = "delivery" /\ Connected(x[1])
  /\ deliveries' = [deliveries EXCEPT ![task[x]] = @ + 1]
  /\ GoOn(x, "event")
  /\ UNCHANGED <<taskVars, events, sent, processVars, historyVars, faults>>

\* Mutant of CreateEvent: the task is marked before its event is created.
CreateEventAfterMark(x) ==
  /\ at[x] \in {"event", "mark"} /\ Connected(x[1])
  /\ IF at[x] = "event"
       THEN GoOn(x, "mark") /\ sent' = sent \cup {task[x]} /\ UNCHANGED events
       ELSE /\ events' = [events EXCEPT ![task[x]] = @ + 1]
            /\ Leave(x, task[x])
            /\ UNCHANGED sent
  /\ UNCHANGED <<taskVars, deliveries, processVars, historyVars, faults>>

\* outboxService.create
CreateEvent(x) ==
  /\ at[x] = "event" /\ Connected(x[1])
  /\ events' = [events EXCEPT ![task[x]] = @ + 1]
  /\ GoOn(x, "mark")
  /\ UNCHANGED <<taskVars, deliveries, sent, processVars, historyVars, faults>>

\* findByIdAndUpdate
MarkSent(x) ==
  /\ at[x] = "mark" /\ Connected(x[1])
  /\ sent' = sent \cup {task[x]}
  /\ Leave(x, task[x])
  /\ UNCHANGED <<taskVars, deliveries, events, processVars, historyVars, faults>>

\* What remains of a task that x leaves in the middle.
Abandon(xs) ==
  /\ contested' = contested \cup {task[x] : x \in {y \in xs : at[y] = "mark"}}
  /\ orphans' = [t \in Tasks |->
       orphans[t] + Cardinality({x \in xs : task[x] = t /\ at[x] = "event"})]

\* A call of x rejects, by a fault or because the connection is closed: the error is logged and
\* the next task taken.  (Where the first call of a task fails, any task is left.)
CallFails(x) ==
  /\ at[x] # "idle"
  /\ IF Connected(x[1]) THEN Fault ELSE phase[x[1]] = "closed" /\ UNCHANGED faults
  /\ \E t \in IF at[x] = "reminders" THEN left[x] ELSE {task[x]} : Leave(x, t)
  /\ Abandon({x})
  /\ UNCHANGED <<taskVars, reminderVars, processVars>>

-------------------------------------------------------------------------------
(* Tasks and flags                                                         *)

\* Time passes, or the task is changed, done or deleted.
TaskChanges(t) ==
  /\ due' = IF t \in due THEN due \ {t} ELSE due \cup {t}
  /\ UNCHANGED <<flags, reminderVars, runVars, processVars, historyVars, faults>>

\* updateFlags
FlagChanges(f) ==
  /\ flags' = IF f \in flags THEN flags \ {f} ELSE flags \cup {f}
  /\ UNCHANGED <<due, reminderVars, runVars, processVars, historyVars, faults>>

-------------------------------------------------------------------------------
(* Workers and shutdown                                                    *)

\* During the shutdown, a worker that is not closed, nor being closed, takes a job.
TakeJob(p, w) ==
  /\ phase[p] = "closing"
  /\ w > closed[p] + 1 /\ w \notin jobs[p]
  /\ jobs' = [jobs EXCEPT ![p] = @ \cup {w}]
  /\ UNCHANGED <<taskVars, reminderVars, runVars, phase, closed, stops, historyVars, faults>>

FinishJob(p, w) ==
  /\ w \in jobs[p] /\ Connected(p)
  /\ jobs' = [jobs EXCEPT ![p] = @ \ {w}]
  /\ UNCHANGED <<taskVars, reminderVars, runVars, phase, closed, stops, historyVars, faults>>

\* onApplicationShutdown: some of the workers have a job.
Shutdown(p) ==
  /\ phase[p] = "up"
  /\ stops < MaxStops
  /\ stops' = stops + 1
  /\ phase' = [phase EXCEPT ![p] = "closing"]
  /\ \E ws \in SUBSET WorkerIds : jobs' = [jobs EXCEPT ![p] = ws]
  /\ UNCHANGED <<taskVars, reminderVars, runVars, closed, historyVars, faults>>

\* Mutant of CloseWorker: the closing of a worker is not awaited.
CloseWorkerAtOnce(p) ==
  /\ phase[p] = "closing" /\ closed[p] < Workers
  /\ closed' = [closed EXCEPT ![p] = @ + 1]
  /\ UNCHANGED <<taskVars, reminderVars, runVars, phase, jobs, stops, historyVars, faults>>

\* closeWorkers: the next worker has finished its job, and is closed.
CloseWorker(p) ==
  /\ phase[p] = "closing" /\ closed[p] < Workers
  /\ closed[p] + 1 \notin jobs[p]
  /\ closed' = [closed EXCEPT ![p] = @ + 1]
  /\ UNCHANGED <<taskVars, reminderVars, runVars, phase, jobs, stops, historyVars, faults>>

\* closeWorkers: the error is logged, and the worker is left with its job.
CloseWorkerFails(p) ==
  /\ phase[p] = "closing" /\ closed[p] < Workers
  /\ Fault
  /\ closed' = [closed EXCEPT ![p] = @ + 1]
  /\ UNCHANGED <<taskVars, reminderVars, runVars, phase, jobs, stops, historyVars>>

\* closeMongo
CloseMongo(p) ==
  /\ phase[p] = "closing" /\ closed[p] = Workers
  /\ phase' = [phase EXCEPT ![p] = "closed"]
  /\ UNCHANGED <<taskVars, reminderVars, runVars, closed, jobs, stops, historyVars, faults>>

\* closeMongo: the error is logged, and the process goes on to its exit with the connection.
CloseMongoFails(p) ==
  /\ phase[p] = "closing" /\ closed[p] = Workers
  /\ Fault
  /\ phase' = [phase EXCEPT ![p] = "unclosed"]
  /\ UNCHANGED <<taskVars, reminderVars, runVars, closed, jobs, stops, historyVars>>

\* The runs of p end with it, wherever they are.
Disappear(p) ==
  LET xs == {p} \X Slots
      rest(f, v) == [x \in Runs |-> IF x \in xs THEN v ELSE f[x]]
  IN /\ phase' = [phase EXCEPT ![p] = "gone"]
     /\ closed' = [closed EXCEPT ![p] = 0]
     /\ jobs' = [jobs EXCEPT ![p] = {}]
     /\ at' = rest(at, "idle") /\ left' = rest(left, {}) /\ task' = rest(task, None)
     /\ Abandon(xs)
     /\ UNCHANGED <<taskVars, reminderVars, stops>>

\* The process exits when its hooks are done.
Exit(p) ==
  /\ phase[p] \in {"closed", "unclosed"}
  /\ Disappear(p)
  /\ UNCHANGED faults

\* The process dies.
Crash(p) ==
  /\ phase[p] # "gone"
  /\ Fault
  /\ Disappear(p)

Restart(p) ==
  /\ phase[p] = "gone"
  /\ phase' = [phase EXCEPT ![p] = "up"]
  /\ UNCHANGED <<taskVars, reminderVars, runVars, closed, jobs, stops, historyVars, faults>>

-------------------------------------------------------------------------------
RunStep(x) ==
  \/ CheckReminders(x) \/ CheckEmail(x) \/ CreateDelivery(x) \/ CreateEvent(x) \/ MarkSent(x)

Environment ==
  \/ \E t \in Tasks : TaskChanges(t)
  \/ \E f \in FlagNames : FlagChanges(f)

Process(p) ==
  \/ \E w \in WorkerIds : TakeJob(p, w) \/ FinishJob(p, w)
  \/ Shutdown(p) \/ CloseWorker(p) \/ CloseWorkerFails(p)
  \/ CloseMongo(p) \/ CloseMongoFails(p) \/ Exit(p) \/ Crash(p) \/ Restart(p)

Next ==
  \/ \E x \in Runs : Start(x) \/ RunStep(x) \/ CallFails(x)
  \/ Environment
  \/ \E p \in Processes : Process(p)

\* The cron fires again and again, and what a run awaits is answered.
Fairness == \A x \in Runs : WF_vars(Start(x)) /\ WF_vars(RunStep(x))

Spec == Init /\ [][Next]_vars /\ Fairness

-------------------------------------------------------------------------------
(* Properties                                                              *)

\* A task has two reminders only if two runs held it at a time, or if a run was cut off
\* between its event and its mark, by a fault or by the shutdown.
DuplicateAccounted == \A t \in Tasks : events[t] > 1 => t \in contested

\* The runs that have created a delivery for t, and are about to create its event.
Underway(t) == {x \in Runs : task[x] = t /\ at[x] = "event"}

\* No mark without an event: a reminder is never lost, whoever is cut off.  And every event
\* has a delivery of its own; those without one are of runs that were cut off, or that are
\* about to create the event.
MarkedMeansSent ==
  /\ \A t \in sent : events[t] > 0
  /\ \A t \in Tasks :
       deliveries[t] = events[t] + orphans[t] + Cardinality(Underway(t))

\* MongoDB is not closed while a worker has a job, unless the closing of a worker failed; the
\* cron, in contrast, may be cut off.
JobsNotCut ==
  \A p \in Processes : faults = 0 /\ jobs[p] # {} => Connected(p)

\* A task that stays due, with an owner and both flags on, gets its reminder if one process
\* stays up: a skipped or a failed task does not keep a run from the others.
EventuallyReminded ==
  \A t \in Addressed, p \in Processes :
    <>[](t \in due /\ flags = FlagNames /\ phase[p] = "up") => <>(events[t] > 0)
===============================================================================
