---------------------------- MODULE RemindersProofs ----------------------------
(* Reminders for any number of tasks, processes, overlapping runs, workers,     *)
(* faults and shutdowns.  That a second event needs two runs at a time is       *)
(* inductive once it is said of every task that was never contested where it    *)
(* is: not sent and held by one run at most, or sent and held by none.          *)
EXTENDS Reminders, FiniteSetTheorems, TLAPS

\* Where a run is, and what it has.
RunInv ==
  \A x \in Runs :
    /\ at[x] = "idle" <=> left[x] = {}
    /\ at[x] \in {"idle", "reminders"} <=> task[x] = None
    /\ task[x] # None => task[x] \in left[x]
    /\ at[x] = "mark" => events[task[x]] > 0

\* A task that was never contested.
ContestInv ==
  \A t \in Tasks \ contested :
    /\ events[t] <= 1
    /\ \A x, y \in Runs : t \in left[x] /\ t \in left[y] => x = y
    /\ \A x \in Runs : t \in left[x] =>
         t \notin sent /\ (events[t] = 1 => task[x] = t /\ at[x] = "mark")
    /\ events[t] = 1 => t \in sent \/ \E x \in Runs : t \in left[x]

\* What the workers of a process do is told from its shutdown on.
JobInv ==
  \A p \in Processes :
    /\ phase[p] \in {"up", "gone"} => closed[p] = 0 /\ jobs[p] = {}
    /\ phase[p] \in {"closed", "unclosed"} => closed[p] = Workers
    /\ faults = 0 => \A w \in jobs[p] : w > closed[p]

\* What a process does to its workers does not matter to the runs, nor the other way round.
RunPart == TypeOK /\ RunInv /\ ContestInv /\ MarkedMeansSent
Inv == RunPart /\ JobInv

-------------------------------------------------------------------------------
\* Processes and slots are finitely many, and so are runs.
LEMMA RunsFinite == IsFiniteSet(Runs)
  BY RemindersAssumption, FS_Product DEF Runs

\* So the runs between the delivery and the event of a task can be counted.
LEMMA UnderwayFinite ==
  ASSUME NEW t PROVE IsFiniteSet(Underway(t)) /\ Cardinality(Underway(t)) \in Nat
  BY RunsFinite, FS_Subset, FS_CardinalityType DEF Underway

\* Before the first run nothing is published, marked or contested.
LEMMA InitInv == Init => Inv
<1> SUFFICES ASSUME Init PROVE Inv
  OBVIOUS
<1> USE RemindersAssumption
<1>1. TypeOK
  BY DEF Init, TypeOK, Places, WorkerIds
<1>2. RunInv /\ ContestInv
  BY DEF Init, RunInv, ContestInv
<1>3. \A t \in Tasks : Underway(t) = {}
  BY DEF Init, Underway
<1>4. MarkedMeansSent
  <2>1. \A t \in Tasks : Cardinality(Underway(t)) = 0
    BY <1>3, FS_EmptySet
  <2> QED
    BY <2>1 DEF Init, MarkedMeansSent
<1>5. JobInv
  BY DEF Init, JobInv
<1> QED
  BY <1>1, <1>2, <1>4, <1>5 DEF Inv, RunPart

-------------------------------------------------------------------------------
(* The types                                                               *)

\* Types: a run starts.
LEMMA TypeStart ==
  ASSUME TypeOK, NEW x \in Runs, Start(x) PROVE TypeOK'
  BY DEF TypeOK, Start, Wanted, Places, taskVars, reminderVars, processVars

\* Types: the steps of a run.
LEMMA TypeStep ==
  ASSUME TypeOK, RunInv, NEW x \in Runs, RunStep(x) PROVE TypeOK'
<1> USE DEF TypeOK, Places, Leave, GoOn, taskVars, reminderVars, processVars, historyVars
<1>1. CASE CheckReminders(x)
  BY <1>1 DEF CheckReminders
<1>2. at[x] \in {"email", "delivery", "event", "mark"} => task[x] \in Tasks
  BY DEF RunInv
<1>3. CASE CheckEmail(x)
  BY <1>2, <1>3 DEF CheckEmail
<1>4. CASE CreateDelivery(x)
  BY <1>2, <1>4 DEF CreateDelivery
<1>5. CASE CreateEvent(x)
  BY <1>2, <1>5 DEF CreateEvent
<1>6. CASE MarkSent(x)
  BY <1>2, <1>6 DEF MarkSent
<1> QED
  BY <1>1, <1>3, <1>4, <1>5, <1>6 DEF RunStep

\* What is left of tasks that runs are cut off from.
LEMMA AbandonType ==
  ASSUME TypeOK, RunInv, NEW xs \in SUBSET Runs, Abandon(xs)
  PROVE  /\ contested' \subseteq Tasks /\ contested \subseteq contested'
         /\ orphans' \in [Tasks -> Nat]
         /\ \A t \in Tasks : orphans'[t] = orphans[t] + Cardinality(Underway(t) \cap xs)
         /\ \A x \in xs : at[x] = "mark" => task[x] \in contested'
<1>1. \A t \in Tasks : {x \in xs : task[x] = t /\ at[x] = "event"} = Underway(t) \cap xs
  BY DEF Underway
<1>2. \A t \in Tasks : Cardinality(Underway(t) \cap xs) \in Nat
  BY UnderwayFinite, FS_Subset, FS_CardinalityType
<1>3. \A x \in xs : at[x] = "mark" => task[x] \in Tasks
  BY DEF TypeOK, RunInv
<1> QED
  BY <1>1, <1>2, <1>3 DEF Abandon, TypeOK

\* Types: a call of a run rejects.
LEMMA TypeCallFails ==
  ASSUME TypeOK, RunInv, NEW x \in Runs, CallFails(x) PROVE TypeOK'
<1>1. contested' \subseteq Tasks /\ orphans' \in [Tasks -> Nat]
  BY AbandonType DEF CallFails
<1>2. UNCHANGED <<taskVars, reminderVars, processVars>> /\ faults' \in 0 .. MaxFaults
  BY RemindersAssumption DEF TypeOK, CallFails, Fault
<1>3. /\ at' \in [Runs -> Places] /\ left' \in [Runs -> SUBSET Tasks]
      /\ task' \in [Runs -> Tasks \cup {None}]
  BY DEF TypeOK, CallFails, Leave, Places
<1> QED
  BY <1>1, <1>2, <1>3 DEF TypeOK, taskVars, reminderVars, processVars

\* Types: a process exits or dies.
LEMMA TypeDisappear ==
  ASSUME TypeOK, RunInv, NEW p \in Processes, Exit(p) \/ Crash(p) PROVE TypeOK'
<1>1. contested' \subseteq Tasks /\ orphans' \in [Tasks -> Nat]
  <2>1. ({p} \X Slots) \in SUBSET Runs
    BY DEF Runs
  <2> QED
    BY <2>1, AbandonType DEF Exit, Crash, Disappear
<1>2. UNCHANGED <<taskVars, reminderVars, stops>> /\ faults' \in 0 .. MaxFaults
  BY RemindersAssumption DEF TypeOK, Exit, Crash, Disappear, Fault
<1>3. /\ phase' = [phase EXCEPT ![p] = "gone"]
      /\ closed' = [closed EXCEPT ![p] = 0] /\ jobs' = [jobs EXCEPT ![p] = {}]
  BY DEF Exit, Crash, Disappear
<1>4. /\ at' \in [Runs -> Places] /\ left' \in [Runs -> SUBSET Tasks]
      /\ task' \in [Runs -> Tasks \cup {None}]
  BY DEF TypeOK, Exit, Crash, Disappear, Places
<1> QED
  BY <1>1, <1>2, <1>3, <1>4, RemindersAssumption DEF TypeOK, WorkerIds, taskVars, reminderVars

\* Types: tasks and flags change.
LEMMA TypeEnvironment ==
  ASSUME TypeOK, Environment PROVE TypeOK'
  BY DEF TypeOK, Environment, TaskChanges, FlagChanges, reminderVars, runVars, processVars,
     historyVars

\* Types: the workers of a process, its shutdown and its restart.
LEMMA TypeWorkers ==
  ASSUME TypeOK, NEW p \in Processes,
         \/ \E w \in WorkerIds : TakeJob(p, w) \/ FinishJob(p, w)
         \/ Shutdown(p) \/ CloseWorker(p) \/ CloseWorkerFails(p)
         \/ CloseMongo(p) \/ CloseMongoFails(p) \/ Restart(p)
  PROVE  TypeOK' /\ UNCHANGED <<reminderVars, runVars, historyVars>>
<1> USE RemindersAssumption DEF TypeOK, WorkerIds, taskVars, reminderVars, runVars, historyVars
<1>1. CASE \E w \in WorkerIds : TakeJob(p, w) \/ FinishJob(p, w)
  BY <1>1 DEF TakeJob, FinishJob
<1>2. CASE Shutdown(p)
  BY <1>2 DEF Shutdown
<1>3. CASE CloseWorker(p) \/ CloseWorkerFails(p)
  BY <1>3 DEF CloseWorker, CloseWorkerFails, Fault
<1>4. CASE CloseMongo(p) \/ CloseMongoFails(p) \/ Restart(p)
  BY <1>4 DEF CloseMongo, CloseMongoFails, Fault, Restart
<1> QED
  BY <1>1, <1>2, <1>3, <1>4

-------------------------------------------------------------------------------
(* The runs                                                                *)

\* What leaves runs and reminders alone keeps what is said of them.
LEMMA RunPartFrame ==
  ASSUME RunPart, TypeOK', UNCHANGED <<reminderVars, runVars, historyVars>> PROVE RunPart'
  BY DEF RunPart, RunInv, ContestInv, MarkedMeansSent, Underway, reminderVars, runVars, historyVars

\* A step that keeps every Underway(t), and deliveries, events and orphans.
LEMMA AccountFrame ==
  ASSUME MarkedMeansSent, \A t \in Tasks : Underway(t)' = Underway(t),
         UNCHANGED <<deliveries, events, orphans>>, sent' \subseteq sent
  PROVE  MarkedMeansSent'
  BY DEF MarkedMeansSent

\* handleCron: the tasks that another run holds are contested from here on.
LEMMA StartInv ==
  ASSUME RunPart, NEW x \in Runs, Start(x) PROVE RunPart'
<1> USE DEF RunPart
<1>1. TypeOK'
  BY TypeStart
<1>2. RunInv'
  BY DEF RunInv, TypeOK, Start, Wanted, reminderVars
<1>3. ContestInv'
  <2> SUFFICES ASSUME NEW t \in Tasks \ contested' PROVE
        /\ events[t] <= 1
        /\ \A y, z \in Runs : t \in left'[y] /\ t \in left'[z] => y = z
        /\ \A y \in Runs : t \in left'[y] =>
             t \notin sent /\ (events[t] = 1 => task[y] = t /\ at'[y] = "mark")
        /\ events[t] = 1 => t \in sent \/ \E y \in Runs : t \in left'[y]
    BY DEF ContestInv, Start, reminderVars
  <2>1. t \notin contested /\ (t \in Wanted => \A y \in Runs : t \notin left[y])
    BY DEF Start
  <2>2. \A y \in Runs : left'[y] = IF y = x THEN Wanted ELSE left[y]
    BY DEF TypeOK, Start
  <2>3. left[x] = {} /\ (\A y \in Runs \ {x} : at'[y] = at[y])
    BY DEF TypeOK, Start, RunInv
  <2>4. t \in Wanted => t \notin sent /\ events[t] # 1
    BY <2>1 DEF Wanted, ContestInv
  <2> QED
    BY <2>1, <2>2, <2>3, <2>4 DEF ContestInv
<1>4. MarkedMeansSent'
  <2>1. \A t \in Tasks : Underway(t)' = Underway(t)
    BY DEF Underway, Start, TypeOK
  <2> QED
    BY <2>1, AccountFrame DEF Start, reminderVars
<1> QED
  BY <1>1, <1>2, <1>3, <1>4

\* A run that has done with a task, or is cut off from one, moves on.
LEMMA LeaveFacts ==
  ASSUME TypeOK, RunInv, NEW x \in Runs, NEW t \in left[x], Leave(x, t)
  PROVE  /\ \A y \in Runs : left'[y] = IF y = x THEN left[x] \ {t} ELSE left[y]
         /\ \A y \in Runs \ {x} : at'[y] = at[y] /\ task'[y] = task[y]
         /\ task'[x] = None /\ at'[x] \in {"idle", "reminders"}
         /\ at'[x] = "idle" <=> left'[x] = {}
  BY DEF TypeOK, RunInv, Leave

\* isEnabled, twice: a run takes a task that it holds, or leaves it.
LEMMA CheckInv ==
  ASSUME RunPart, NEW x \in Runs, CheckReminders(x) \/ CheckEmail(x) PROVE RunPart'
<1> USE RemindersAssumption DEF RunPart
<1>1. TypeOK'
  BY TypeStep DEF RunStep
<1>2. /\ \A y \in Runs \ {x} : at'[y] = at[y] /\ task'[y] = task[y] /\ left'[y] = left[y]
      /\ at[x] \in {"reminders", "email"}
      /\ \/ left'[x] = left[x] /\ task'[x] \in left[x] /\ at'[x] \in {"email", "delivery"}
         \/ /\ \E t \in left[x] : left'[x] = left[x] \ {t}
            /\ task'[x] = None /\ at'[x] \in {"idle", "reminders"}
            /\ at'[x] = "idle" <=> left'[x] = {}
  <2>1. CASE CheckReminders(x)
    <3>1. PICK t \in left[x] :
            IF "reminders" \in flags
              THEN /\ task' = [task EXCEPT ![x] = t] /\ at' = [at EXCEPT ![x] = "email"]
                   /\ UNCHANGED left
              ELSE Leave(x, t)
      BY <2>1 DEF CheckReminders
    <3>2. at[x] = "reminders"
      BY <2>1 DEF CheckReminders
    <3>3. CASE "reminders" \in flags
      BY <3>1, <3>2, <3>3 DEF TypeOK
    <3>4. CASE "reminders" \notin flags
      <4>1. Leave(x, t)
        BY <3>1, <3>4
      <4>2. /\ \A y \in Runs : left'[y] = IF y = x THEN left[x] \ {t} ELSE left[y]
            /\ \A y \in Runs \ {x} : at'[y] = at[y] /\ task'[y] = task[y]
            /\ task'[x] = None /\ at'[x] \in {"idle", "reminders"}
            /\ at'[x] = "idle" <=> left'[x] = {}
        BY <4>1, LeaveFacts
      <4> QED
        BY <3>1, <3>2, <4>2
    <3> QED
      BY <3>3, <3>4
  <2>2. CASE CheckEmail(x)
    <3>1. task[x] \in left[x]
      BY <2>2 DEF CheckEmail, RunInv
    <3> QED
      BY <2>2, <3>1, LeaveFacts DEF CheckEmail, TypeOK, GoOn
  <2> QED
    BY <2>1, <2>2
<1>3. UNCHANGED <<reminderVars, historyVars>>
  BY DEF CheckReminders, CheckEmail
<1>4. RunInv'
  BY <1>1, <1>2, <1>3 DEF RunInv, TypeOK, reminderVars
<1>5. ContestInv'
  BY <1>2, <1>3 DEF ContestInv, reminderVars, historyVars
<1>6. MarkedMeansSent'
  <2>1. \A t \in Tasks : Underway(t)' = Underway(t)
    BY <1>2 DEF Underway
  <2> QED
    BY <1>3, <2>1, AccountFrame DEF reminderVars, historyVars
<1> QED
  BY <1>1, <1>4, <1>5, <1>6

\* emailDeliveryRepository.create: the delivery is accounted to its run.
LEMMA CreateDeliveryInv ==
  ASSUME RunPart, NEW x \in Runs, CreateDelivery(x) PROVE RunPart'
<1> USE DEF RunPart
<1> DEFINE t == task[x]
<1>1. TypeOK'
  BY TypeStep DEF RunStep
<1>2. /\ t \in Tasks /\ t \in left[x]
      /\ \A y \in Runs \ {x} : at'[y] = at[y]
      /\ at[x] = "delivery" /\ at'[x] = "event" /\ task' = task /\ left' = left
      /\ deliveries' = [deliveries EXCEPT ![t] = @ + 1]
      /\ UNCHANGED <<events, sent, contested, orphans>>
  BY DEF CreateDelivery, GoOn, TypeOK, RunInv, historyVars
<1>3. RunInv'
  BY <1>2 DEF RunInv
<1>4. ContestInv'
  BY <1>2 DEF ContestInv
<1>5. MarkedMeansSent'
  <2>1. Underway(t)' = Underway(t) \cup {x} /\ x \notin Underway(t)
    BY <1>2 DEF Underway
  <2>2. \A u \in Tasks \ {t} : Underway(u)' = Underway(u)
    BY <1>2 DEF Underway
  <2>3. Cardinality(Underway(t)') = Cardinality(Underway(t)) + 1
    BY <2>1, UnderwayFinite, FS_AddElement
  <2> QED
    BY <1>2, <2>2, <2>3, UnderwayFinite DEF MarkedMeansSent, TypeOK
<1> QED
  BY <1>1, <1>3, <1>4, <1>5

\* outboxService.create: a second event needs a second run that holds the task, or a cut-off.
LEMMA CreateEventInv ==
  ASSUME RunPart, NEW x \in Runs, CreateEvent(x) PROVE RunPart'
<1> USE DEF RunPart
<1> DEFINE t == task[x]
<1>1. TypeOK'
  BY TypeStep DEF RunStep
<1>2. /\ t \in Tasks /\ t \in left[x]
      /\ \A y \in Runs \ {x} : at'[y] = at[y]
      /\ at[x] = "event" /\ at'[x] = "mark" /\ task' = task /\ left' = left
      /\ events' = [events EXCEPT ![t] = @ + 1]
      /\ UNCHANGED <<deliveries, sent, contested, orphans>>
  BY DEF CreateEvent, GoOn, TypeOK, RunInv, historyVars
<1>3. RunInv'
  BY <1>2 DEF RunInv, TypeOK
<1>4. ContestInv'
  <2> SUFFICES ASSUME NEW u \in Tasks \ contested PROVE
        /\ events'[u] <= 1
        /\ \A y, z \in Runs : u \in left[y] /\ u \in left[z] => y = z
        /\ \A y \in Runs : u \in left[y] =>
             u \notin sent /\ (events'[u] = 1 => task[y] = u /\ at'[y] = "mark")
        /\ events'[u] = 1 => u \in sent \/ \E y \in Runs : u \in left[y]
    BY <1>2 DEF ContestInv
  <2>1. CASE u = t
    <3>1. events[t] # 1 /\ events[t] <= 1
      BY <1>2, <2>1 DEF ContestInv
    <3>2. events'[t] = 1
      BY <1>2, <3>1 DEF TypeOK
    <3>3. \A y \in Runs : t \in left[y] => y = x
      BY <1>2, <2>1 DEF ContestInv
    <3> QED
      BY <1>2, <2>1, <3>2, <3>3 DEF ContestInv
  <2>2. CASE u # t
    <3>1. events'[u] = events[u]
      BY <1>2, <2>2 DEF TypeOK
    <3> QED
      BY <1>2, <2>2, <3>1 DEF ContestInv
  <2> QED
    BY <2>1, <2>2
<1>5. MarkedMeansSent'
  <2>1. Underway(t)' = Underway(t) \ {x} /\ x \in Underway(t)
    BY <1>2 DEF Underway
  <2>2. \A u \in Tasks \ {t} : Underway(u)' = Underway(u)
    BY <1>2 DEF Underway
  <2>3. Cardinality(Underway(t)') = Cardinality(Underway(t)) - 1
    BY <2>1, UnderwayFinite, FS_RemoveElement
  <2> QED
    BY <1>2, <2>2, <2>3, UnderwayFinite DEF MarkedMeansSent, TypeOK
<1> QED
  BY <1>1, <1>3, <1>4, <1>5

\* findByIdAndUpdate: the mark comes after the event of the same run.
LEMMA MarkSentInv ==
  ASSUME RunPart, NEW x \in Runs, MarkSent(x) PROVE RunPart'
<1> USE DEF RunPart
<1> DEFINE t == task[x]
<1>1. TypeOK'
  BY TypeStep DEF RunStep
<1>2. /\ t \in Tasks /\ t \in left[x] /\ at[x] = "mark" /\ events[t] > 0
      /\ Leave(x, t) /\ sent' = sent \cup {t}
      /\ UNCHANGED <<deliveries, events, contested, orphans>>
  BY DEF MarkSent, TypeOK, RunInv, historyVars
<1>3. /\ \A y \in Runs : left'[y] = IF y = x THEN left[x] \ {t} ELSE left[y]
      /\ \A y \in Runs \ {x} : at'[y] = at[y] /\ task'[y] = task[y]
      /\ task'[x] = None /\ at'[x] \in {"idle", "reminders"}
      /\ at'[x] = "idle" <=> left'[x] = {}
  BY <1>2, LeaveFacts
<1>4. RunInv'
  BY <1>2, <1>3 DEF RunInv
<1>5. ContestInv'
  BY <1>2, <1>3 DEF ContestInv
<1>6. MarkedMeansSent'
  <2>1. \A u \in Tasks : Underway(u)' = Underway(u)
    BY <1>2, <1>3 DEF Underway
  <2> QED
    BY <1>2, <2>1 DEF MarkedMeansSent
<1> QED
  BY <1>1, <1>4, <1>5, <1>6

\* Runs xs that stop with their task, or with all that they have left.
LEMMA CutOff ==
  ASSUME RunPart, NEW xs \in SUBSET Runs, Abandon(xs), UNCHANGED reminderVars,
         \A y \in Runs \ xs : at'[y] = at[y] /\ task'[y] = task[y] /\ left'[y] = left[y],
         \A x \in xs : /\ left'[x] \subseteq left[x] /\ task'[x] = None
                       /\ at'[x] \in {"idle", "reminders"} /\ (at'[x] = "idle" <=> left'[x] = {})
                       /\ task[x] \notin left'[x]
  PROVE  RunInv' /\ ContestInv' /\ MarkedMeansSent'
<1> USE DEF RunPart
<1>1. /\ contested \subseteq contested'
      /\ \A t \in Tasks : orphans'[t] = orphans[t] + Cardinality(Underway(t) \cap xs)
      /\ \A x \in xs : at[x] = "mark" => task[x] \in contested'
  BY AbandonType
<1>2. UNCHANGED <<deliveries, events, sent>>
  BY DEF reminderVars
<1>3. RunInv'
  BY <1>2 DEF RunInv
<1>4. ContestInv'
  <2> SUFFICES ASSUME NEW t \in Tasks \ contested' PROVE
        /\ events[t] <= 1
        /\ \A y, z \in Runs : t \in left'[y] /\ t \in left'[z] => y = z
        /\ \A y \in Runs : t \in left'[y] =>
             t \notin sent /\ (events[t] = 1 => task'[y] = t /\ at'[y] = "mark")
        /\ events[t] = 1 => t \in sent \/ \E y \in Runs : t \in left'[y]
    BY <1>2 DEF ContestInv
  <2>1. t \in Tasks \ contested /\ \A y \in Runs : t \in left'[y] => t \in left[y]
    BY <1>1
  <2>2. ASSUME NEW x \in xs, t \in left[x] PROVE events[t] # 1
    BY <1>1, <2>1, <2>2 DEF ContestInv
  <2> QED
    BY <2>1, <2>2 DEF ContestInv
<1>5. MarkedMeansSent'
  <2> SUFFICES ASSUME NEW t \in Tasks
               PROVE  Cardinality(Underway(t)) = Cardinality(Underway(t) \cap xs) + Cardinality(Underway(t)')
    <3> SUFFICES ASSUME NEW t \in Tasks
                 PROVE  deliveries[t] = events[t] + orphans'[t] + Cardinality(Underway(t)')
      BY <1>2 DEF MarkedMeansSent
    <3>1. /\ Cardinality(Underway(t)) = Cardinality(Underway(t) \cap xs) + Cardinality(Underway(t)')
          /\ orphans'[t] = orphans[t] + Cardinality(Underway(t) \cap xs)
          /\ deliveries[t] = events[t] + orphans[t] + Cardinality(Underway(t))
      BY <1>1 DEF MarkedMeansSent
    <3>2. Underway(t)' \subseteq Underway(t) /\ Underway(t) \cap xs \subseteq Underway(t)
      BY DEF Underway
    <3>3. /\ Cardinality(Underway(t) \cap xs) \in Nat /\ Cardinality(Underway(t)') \in Nat
          /\ events[t] \in Nat /\ orphans[t] \in Nat
      BY <3>2, UnderwayFinite, FS_Subset, FS_CardinalityType DEF TypeOK
    <3> QED
      BY <3>1, <3>3
  <2> DEFINE A == Underway(t) \cap xs
             B == Underway(t) \ xs
  <2>1. Underway(t)' = B
    BY DEF Underway
  <2>2. IsFiniteSet(A) /\ IsFiniteSet(B) /\ A \cup B = Underway(t) /\ A \cap B = {}
    BY UnderwayFinite, FS_Subset
  <2>3. Cardinality(A \cup B) = Cardinality(A) + Cardinality(B) - Cardinality(A \cap B)
    BY <2>2, FS_Union
  <2>4. Cardinality(A) \in Nat /\ Cardinality(B) \in Nat /\ Cardinality({}) = 0
    BY <2>2, FS_CardinalityType, FS_EmptySet
  <2>5. Cardinality(Underway(t)) = Cardinality(A) + Cardinality(B) - 0
    BY <2>2, <2>3, <2>4
  <2> HIDE DEF A, B
  <2>6. Cardinality(Underway(t)) = Cardinality(A) + Cardinality(B)
    BY <2>4, <2>5
  <2> QED
    BY <2>1, <2>6 DEF A
<1> QED
  BY <1>3, <1>4, <1>5

\* A rejected call cuts one run off from its task.
LEMMA CallFailsInv ==
  ASSUME RunPart, NEW x \in Runs, CallFails(x) PROVE RunPart'
<1> USE DEF RunPart
<1>1. TypeOK'
  BY TypeCallFails
<1>2. PICK t \in left[x] : /\ Leave(x, t) /\ (task[x] # None => t = task[x])
                           /\ (task[x] = None => at[x] = "reminders")
  BY RemindersAssumption DEF CallFails, RunInv, TypeOK
<1>3. /\ \A y \in Runs : left'[y] = IF y = x THEN left[x] \ {t} ELSE left[y]
      /\ \A y \in Runs \ {x} : at'[y] = at[y] /\ task'[y] = task[y]
      /\ task'[x] = None /\ at'[x] \in {"idle", "reminders"}
      /\ at'[x] = "idle" <=> left'[x] = {}
  BY <1>2, LeaveFacts
<1>4. None \notin left[x]
  BY RemindersAssumption DEF TypeOK
<1>5. RunInv' /\ ContestInv' /\ MarkedMeansSent'
  <2>1. Abandon({x}) /\ UNCHANGED reminderVars
    BY DEF CallFails
  <2>2. task[x] \notin left'[x]
    BY <1>2, <1>3, <1>4
  <2> HIDE DEF RunPart
  <2> QED
    BY <1>3, <2>1, <2>2, CutOff
<1> QED
  BY <1>1, <1>5

\* The end of a process cuts all of its runs off.
LEMMA DisappearInv ==
  ASSUME RunPart, NEW p \in Processes, Exit(p) \/ Crash(p) PROVE RunPart'
<1> DEFINE xs == {p} \X Slots
<1>1. TypeOK'
  BY TypeDisappear DEF RunPart
<1>2. xs \in SUBSET Runs
  BY DEF Runs
<1>3. /\ Abandon(xs) /\ UNCHANGED reminderVars
      /\ \A y \in Runs \ xs : at'[y] = at[y] /\ task'[y] = task[y] /\ left'[y] = left[y]
      /\ \A x \in xs : at'[x] = "idle" /\ task'[x] = None /\ left'[x] = {}
  BY <1>2 DEF Exit, Crash, Disappear
<1>4. RunInv' /\ ContestInv' /\ MarkedMeansSent'
  <2> HIDE DEF xs
  <2> QED
    BY <1>2, <1>3, CutOff
<1> QED
  BY <1>1, <1>4 DEF RunPart

-------------------------------------------------------------------------------
(* The workers                                                             *)

\* Without a fault the workers that are closed have no job, and MongoDB is closed after all of them.
LEMMA JobStep ==
  ASSUME TypeOK, JobInv, NEW p \in Processes, Process(p) PROVE JobInv'
<1> USE RemindersAssumption DEF TypeOK, JobInv, WorkerIds
<1>1. CASE \E w \in WorkerIds : TakeJob(p, w) \/ FinishJob(p, w)
  BY <1>1 DEF TakeJob, FinishJob
<1>2. CASE Shutdown(p)
  BY <1>2 DEF Shutdown
<1>3. CASE CloseWorker(p)
  BY <1>3 DEF CloseWorker
<1>4. CASE CloseWorkerFails(p)
  BY <1>4 DEF CloseWorkerFails, Fault
<1>5. CASE CloseMongo(p) \/ CloseMongoFails(p) \/ Restart(p)
  BY <1>5 DEF CloseMongo, CloseMongoFails, Fault, Restart
<1>6. CASE Exit(p) \/ Crash(p)
  BY <1>6 DEF Exit, Crash, Disappear, Fault
<1> QED
  BY <1>1, <1>2, <1>3, <1>4, <1>5, <1>6 DEF Process

\* What leaves processes and faults alone keeps what is said of jobs.
LEMMA JobFrame ==
  ASSUME TypeOK, JobInv, UNCHANGED processVars, faults' \in {faults, faults + 1} PROVE JobInv'
  BY DEF TypeOK, JobInv, processVars

-------------------------------------------------------------------------------
\* The invariant holds for any number of tasks, processes, runs, workers and failures.
THEOREM Invariance == Spec => []Inv
<1>1. Inv /\ [Next]_vars => Inv'
  <2> SUFFICES ASSUME Inv, [Next]_vars PROVE Inv'
    OBVIOUS
  <2> USE DEF Inv
  <2>1. TypeOK /\ RunInv
    BY DEF RunPart
  <2>2. CASE \E x \in Runs : Start(x)
    BY <2>1, <2>2, StartInv, JobFrame DEF Start
  <2>3. CASE \E x \in Runs : RunStep(x)
    <3>1. PICK x \in Runs : RunStep(x)
      BY <2>3
    <3>2. UNCHANGED <<processVars, faults>>
      BY <3>1 DEF RunStep, CheckReminders, CheckEmail, CreateDelivery, CreateEvent, MarkSent
    <3>3. RunPart'
      BY <3>1, CheckInv, CreateDeliveryInv, CreateEventInv, MarkSentInv DEF RunStep
    <3> QED
      BY <2>1, <3>2, <3>3, JobFrame
  <2>4. CASE \E x \in Runs : CallFails(x)
    <3>1. PICK x \in Runs : CallFails(x)
      BY <2>4
    <3>2. UNCHANGED processVars /\ faults' \in {faults, faults + 1}
      BY <3>1 DEF CallFails, Fault
    <3> QED
      BY <2>1, <3>1, <3>2, CallFailsInv, JobFrame
  <2>5. CASE Environment
    <3>1. UNCHANGED <<reminderVars, runVars, historyVars, processVars, faults>>
      BY <2>5 DEF Environment, TaskChanges, FlagChanges
    <3> QED
      BY <2>1, <2>5, <3>1, TypeEnvironment, RunPartFrame, JobFrame
  <2>6. CASE \E p \in Processes : Process(p)
    <3>1. PICK p \in Processes : Process(p)
      BY <2>6
    <3>2. JobInv'
      BY <2>1, <3>1, JobStep
    <3>3. CASE Exit(p) \/ Crash(p)
      BY <3>2, <3>3, DisappearInv
    <3>4. CASE ~ (Exit(p) \/ Crash(p))
      <4>1. TypeOK' /\ UNCHANGED <<reminderVars, runVars, historyVars>>
        BY <2>1, <3>1, <3>4, TypeWorkers DEF Process
      <4> QED
        BY <3>2, <4>1, RunPartFrame
    <3> QED
      BY <3>3, <3>4
  <2>7. CASE UNCHANGED vars
    <3>1. TypeOK'
      BY <2>1, <2>7 DEF TypeOK, vars, taskVars, reminderVars, runVars, processVars, historyVars
    <3> QED
      BY <2>1, <2>7, <3>1, RunPartFrame, JobFrame DEF vars
  <2> QED
    BY <2>2, <2>3, <2>4, <2>5, <2>6, <2>7 DEF Next
<1> QED
  BY InitInv, <1>1, PTL DEF Spec

\* Every variable keeps its type.
THEOREM TypeCorrectness == Spec => []TypeOK
  BY Invariance, PTL DEF Inv, RunPart

\* A second reminder of one task has two overlapping runs, or a run that was cut off between the
\* event and the mark, behind it.
THEOREM Duplicates == Spec => []DuplicateAccounted
<1>1. Inv => DuplicateAccounted
  BY DEF Inv, RunPart, ContestInv, DuplicateAccounted, TypeOK
<1> QED
  BY Invariance, <1>1, PTL

\* A task is marked only when its event is created, and no delivery is lost track of.
THEOREM NothingLost == Spec => []MarkedMeansSent
  BY Invariance, PTL DEF Inv, RunPart

\* The orderly shutdown takes MongoDB from no worker that has a job.
THEOREM OrderlyShutdown == Spec => []JobsNotCut
<1>1. Inv => JobsNotCut
  BY RemindersAssumption DEF Inv, RunPart, JobInv, JobsNotCut, Connected, TypeOK, WorkerIds
<1> QED
  BY Invariance, <1>1, PTL
===============================================================================
