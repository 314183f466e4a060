--------------------------- MODULE JobWorkersProofs ----------------------------
(***************************************************************************)
(* Safety of JobWorkers for every number of jobs, executions and failures. *)
(* As long as no lock is lost, a job has one execution at most, and its    *)
(* record and its place in the dead-letter queue follow that execution     *)
(* step by step.  Repeated effects are counted whatever is lost: an effect *)
(* has an execution that gets to it, an execution a job that waits, and a  *)
(* job waits again only after a failure, or when it is added again.        *)
(***************************************************************************)
EXTENDS JobWorkers, FiniteSetTheorems, TLAPS

\* The lock of a job is that of an execution of it, which knows the attempt.
LockInv ==
  /\ \A j \in Jobs : lock[j] # NoWorker => on[lock[j]] = j
  /\ \A j \in Jobs : bull[j] \in {"waiting", "active"} => made[j] < MaxJobAttempts
  /\ \A w \in Workers :
       at[w] # "idle" /\ lock[on[w]] = w => attempt[w] = made[on[w]] + 1

\* An event counts as processed after its effect; only handlers that look for it there put
\* it there, and they complete no job without.
ProcessedInv ==
  /\ \A j \in processed : Register(kind[j]) /\ effects[j] > 0
  /\ \A w \in Workers :
       /\ at[w] \in {"check", "mark"} => Register(KindOf(w))
       /\ at[w] \in {"conclude", "mark"} => effects[on[w]] > 0
       /\ at[w] = "returned" /\ Register(KindOf(w)) => on[w] \in processed
  /\ \A j \in Jobs :
       Register(kind[j]) /\ (bull[j] = "completed" \/ (bull[j] = "unknown" /\ added[j] > 0))
         => j \in processed

CoreInv == TypeOK /\ LockInv /\ ProcessedInv

\* Without a lost lock, an execution has the lock of its job and an active job has one.
AloneInv ==
  /\ \A w \in Workers : at[w] # "idle" => lock[on[w]] = w
  /\ \A j \in Jobs : bull[j] = "active" => lock[j] # NoWorker

\* Job j has failed for good, or will, as its execution is at one of the points ps.
GivenUp(j, ps) ==
  \/ bull[j] = "failed"
  \/ bull[j] = "active" /\ at[lock[j]] \in ps /\ IsFinalAttempt(lock[j])

\* What an execution that is alone knows of the record and the dead-letter queue.
PointInv(w) ==
  /\ at[w] \in {"lookup", "begin", "effect", "conclude"} => on[w] \notin processed
  /\ at[w] \in {"mark", "returned"} => record[on[w]] = "DONE" /\ effects[on[w]] > 0
  /\ at[w] = "dead" => IsFinalAttempt(w) /\ record[on[w]] = "FAILED"
  /\ at[w] = "thrown" /\ IsFinalAttempt(w) /\ faults.call = 0
       => on[w] \in dlq /\ record[on[w]] = "FAILED"

\* What is known of a job whoever executes it.
OutcomeInv(j) ==
  /\ bull[j] = "completed" => record[j] = "DONE" /\ effects[j] > 0
  /\ bull[j] = "failed" /\ faults.call = 0 => j \in dlq /\ record[j] = "FAILED"
  /\ j \in dlq => GivenUp(j, {"thrown"})
  /\ j \in processed => record[j] = "DONE" \/ GivenUp(j, {"dead", "thrown"})

QuietInv ==
  /\ AloneInv
  /\ \A w \in Workers : PointInv(w)
  /\ \A j \in Jobs : OutcomeInv(j)

\* The executions of j that may still carry the effect out, or have the job executed again.
Pending(j) ==
  {w \in Workers :
     /\ on[w] = j
     /\ \/ at[w] \in {"lookup", "begin", "effect"}
        \/ /\ j \notin processed
           /\ at[w] = "check" \/ (at[w] \in {"handle", "dead", "thrown"} /\ lock[j] = w)}

\* Whether j is going to be executed without one of these.
Ahead(j) ==
  IF j \notin processed /\ (bull[j] = "waiting" \/ (bull[j] = "active" /\ lock[j] = NoWorker))
    THEN 1 ELSE 0

Allowed(j) ==
  1 + TotalFaults + (IF Register(kind[j]) \/ added[j] = 0 THEN 0 ELSE added[j] - 1)

\* Nothing happens to a job before it is added.
BeforeAdded(j) ==
  added[j] = 0 => effects[j] = 0 /\ bull[j] = "unknown" /\ \A w \in Workers : on[w] # j

Counted(j) == effects[j] + Cardinality(Pending(j)) + Ahead(j) <= Allowed(j)

RepeatInv == \A j \in Jobs : BeforeAdded(j) /\ Counted(j)
-------------------------------------------------------------------------------
(* Types                                                                   *)

\* The steps of a handler, and the calls in it that reject.
Move(w) ==
  \/ Check(w) \/ Lookup(w) \/ Begin(w) \/ Effect(w) \/ Conclude(w) \/ Mark(w)
  \/ Handle(w) \/ DeadLetter(w) \/ EffectRejected(w) \/ CallRejected(w)

\* An execution that is under way has a job, and steps of its handler are its own.
LEMMA MoveFacts ==
  ASSUME TypeOK, NEW w \in Workers, Move(w)
  PROVE  /\ on[w] \in Jobs /\ at[w] \notin {"idle", "returned", "thrown"}
         /\ at' \in [Workers -> Points] /\ at'[w] # "idle"
         /\ \A v \in Workers \ {w} : at'[v] = at[v]
         /\ UNCHANGED <<bull, made, lock, stalled, on, attempt, added, kind>>
         /\ \/ UNCHANGED <<faults, effectFaults>>
            \/ EffectRejected(w) /\ effectFaults < MaxEffectFaults
               /\ effectFaults' = effectFaults + 1 /\ UNCHANGED faults
            \/ CallRejected(w) /\ CallFault /\ UNCHANGED effectFaults
<1>1. at[w] \notin {"idle", "returned", "thrown"}
  BY DEF Move, Check, Lookup, Begin, Effect, Conclude, Mark, Handle, DeadLetter,
     EffectRejected, CallRejected
<1>2. on[w] \in Jobs
  BY <1>1 DEF TypeOK, ExecutionTypeOK
<1>3. PICK p \in Points \ {"idle"} : Goto(w, p) /\ UNCHANGED <<queue, on, attempt, added, kind>>
  BY DEF Move, Check, Lookup, Begin, Effect, Conclude, Mark, Handle, DeadLetter,
     EffectRejected, CallRejected, Thrown, Only, Proceed, Points
<1>4. /\ at' \in [Workers -> Points] /\ at'[w] = p
      /\ \A v \in Workers \ {w} : at'[v] = at[v]
  BY <1>3 DEF Goto, TypeOK, ExecutionTypeOK
<1>5. \/ UNCHANGED <<faults, effectFaults>>
      \/ EffectRejected(w) /\ effectFaults < MaxEffectFaults
         /\ effectFaults' = effectFaults + 1 /\ UNCHANGED faults
      \/ CallRejected(w) /\ CallFault /\ UNCHANGED effectFaults
  BY DEF Move, Check, Lookup, Begin, Effect, Conclude, Mark, Handle, DeadLetter,
     EffectRejected, CallRejected, Only, Proceed
<1> QED BY <1>1, <1>2, <1>3, <1>4, <1>5 DEF queue

\* What a rejected call does to the counts of failures.
LEMMA CallFaultFacts ==
  ASSUME TypeOK, CallFault
  PROVE  /\ faults' \in [call : 0 .. MaxCallFaults, loss : 0 .. MaxLosses]
         /\ faults'.call = faults.call + 1 /\ faults'.loss = faults.loss
  BY ExecutionBoundsAssumption DEF TypeOK, ExecutionTypeOK, CallFault

\* What a step of a handler does to record, register, dead-letter queue and effects.
LEMMA MoveData ==
  ASSUME TypeOK, NEW w \in Workers, Move(w)
  PROVE  /\ record' \in [Jobs -> {"QUEUED", "BUSY", "DONE", "FAILED"}]
         /\ \A k \in Jobs \ {on[w]} : record'[k] = record[k]
         /\ processed \subseteq processed' /\ processed' \subseteq processed \cup {on[w]}
         /\ dlq \subseteq dlq' /\ dlq' \subseteq dlq \cup {on[w]}
         /\ effects' \in [Jobs -> Nat]
         /\ \A k \in Jobs \ {on[w]} : effects'[k] = effects[k]
         /\ effects'[on[w]] \in {effects[on[w]], effects[on[w]] + 1}
<1>1. on[w] \in Jobs
  BY MoveFacts
<1>2. record' = record \/ \E s \in {"BUSY", "DONE", "FAILED"} : SetRecord(w, s)
  BY DEF Move, Check, Lookup, Begin, Effect, Conclude, Mark, Handle, DeadLetter,
     EffectRejected, CallRejected, dataVars
<1>3. processed' = processed \/ processed' = processed \cup {on[w]}
  BY DEF Move, Check, Lookup, Begin, Effect, Conclude, Mark, Handle, DeadLetter,
     EffectRejected, CallRejected, dataVars
<1>4. dlq' = dlq \/ dlq' = dlq \cup {on[w]}
  BY DEF Move, Check, Lookup, Begin, Effect, Conclude, Mark, Handle, DeadLetter,
     EffectRejected, CallRejected, dataVars
<1>5. effects' = effects \/ effects' = [effects EXCEPT ![on[w]] = effects[on[w]] + 1]
  BY DEF Move, Check, Lookup, Begin, Effect, Conclude, Mark, Handle, DeadLetter,
     EffectRejected, CallRejected, dataVars
<1>6. /\ record' \in [Jobs -> {"QUEUED", "BUSY", "DONE", "FAILED"}]
      /\ \A k \in Jobs \ {on[w]} : record'[k] = record[k]
  BY <1>1, <1>2 DEF TypeOK, SetRecord
<1>7. /\ effects' \in [Jobs -> Nat]
      /\ \A k \in Jobs \ {on[w]} : effects'[k] = effects[k]
      /\ effects'[on[w]] \in {effects[on[w]], effects[on[w]] + 1}
  BY <1>1, <1>5 DEF TypeOK
<1> QED BY <1>3, <1>4, <1>6, <1>7

\* Types: a step of a handler.
LEMMA MoveType == ASSUME TypeOK, NEW w \in Workers, Move(w) PROVE TypeOK'
<1>1. /\ faults' \in [call : 0 .. MaxCallFaults, loss : 0 .. MaxLosses]
      /\ effectFaults' \in 0 .. MaxEffectFaults
  BY MoveFacts, CallFaultFacts, EffectBoundAssumption DEF TypeOK, ExecutionTypeOK
<1>2. ExecutionTypeOK(Points)'
  BY <1>1, MoveFacts DEF TypeOK, ExecutionTypeOK, QueueTypeOK
<1>3. processed' \subseteq Jobs /\ dlq' \subseteq Jobs
  BY MoveFacts, MoveData DEF TypeOK
<1> QED BY <1>1, <1>2, <1>3, MoveFacts, MoveData DEF TypeOK

\* Before the first job everything holds.
LEMMA InitInv == Init => CoreInv /\ QuietInv /\ RepeatInv
<1> SUFFICES ASSUME Init PROVE CoreInv /\ QuietInv /\ RepeatInv
  OBVIOUS
<1>1. ExecutionTypeOK(Points)
  BY QueueAssumption, ExecutionBoundsAssumption
     DEF Init, ExecutionInit, QueueInit, ExecutionTypeOK, QueueTypeOK, BullStates, Points
<1>2. TypeOK
  BY <1>1, EffectBoundAssumption DEF Init, TypeOK
<1>3. LockInv /\ ProcessedInv
  BY DEF Init, ExecutionInit, QueueInit, LockInv, ProcessedInv
<1>4. QuietInv
  BY DEF Init, ExecutionInit, QueueInit, QuietInv, AloneInv, PointInv, OutcomeInv
<1>5. ASSUME NEW j \in Jobs
      PROVE  Pending(j) = {} /\ Ahead(j) = 0 /\ Allowed(j) >= 1
  BY <1>5, ExecutionBoundsAssumption
     DEF Init, ExecutionInit, QueueInit, Pending, Ahead, Allowed, TotalFaults
<1>6. RepeatInv
  <2> SUFFICES ASSUME NEW j \in Jobs PROVE BeforeAdded(j) /\ Counted(j)
    BY DEF RepeatInv
  <2>1. effects[j] = 0 /\ bull[j] = "unknown" /\ \A w \in Workers : on[w] # j
    BY ExecutionBoundsAssumption DEF Init, ExecutionInit, QueueInit
  <2>2. Allowed(j) \in Int
    BY <1>2 DEF Init, ExecutionInit, Allowed, TotalFaults
  <2> QED BY <1>5, <2>1, <2>2, FS_EmptySet DEF BeforeAdded, Counted
<1> QED BY <1>2, <1>3, <1>4, <1>6 DEF CoreInv

\* Types and locks: a worker takes a job.
LEMMA StartCore ==
  ASSUME CoreInv, NEW w \in Workers, NEW j \in Jobs, Start(w, j)
  PROVE  TypeOK' /\ LockInv' /\ lock[j] = NoWorker
<1>0. /\ bull[j] = "waiting" /\ lock[j] = NoWorker /\ on[w] = NoJob /\ at[w] = "idle"
      /\ made[j] + 1 \in 0 .. MaxJobAttempts
  BY QueueAssumption
     DEF CoreInv, TypeOK, LockInv, ExecutionTypeOK, QueueTypeOK, Start, Enter, Take
<1>1. QueueTypeOK'
  BY DEF CoreInv, TypeOK, ExecutionTypeOK, QueueTypeOK, BullStates, Start, Enter, Take
<1>2. ExecutionTypeOK(Points)'
  BY <1>0, <1>1, ExecutionBoundsAssumption
     DEF CoreInv, TypeOK, ExecutionTypeOK, Points, Start, Enter, Take, Goto
<1>3. TypeOK'
  BY <1>2 DEF CoreInv, TypeOK, Start, dataVars
<1>4. LockInv'
  BY <1>0, ExecutionBoundsAssumption, QueueAssumption
     DEF CoreInv, TypeOK, LockInv, ExecutionTypeOK, QueueTypeOK, Start, Enter, Take, Goto
<1> QED BY <1>0, <1>3, <1>4

\* What reporting an outcome does to the queue.
LEMMA SettleFacts ==
  ASSUME CoreInv, NEW w \in Workers, Report(w)
  PROVE  /\ on[w] \in Jobs /\ at[w] \in {"returned", "thrown"}
         /\ at' = [at EXCEPT ![w] = "idle"] /\ on' = [on EXCEPT ![w] = NoJob]
         /\ attempt' = [attempt EXCEPT ![w] = 0]
         /\ UNCHANGED <<stalled, added, faults, kind, dataVars, effectFaults>>
         /\ \/ lock[on[w]] # w /\ UNCHANGED <<bull, made, lock>>
            \/ /\ lock[on[w]] = w /\ lock' = [lock EXCEPT ![on[w]] = NoWorker]
               /\ bull[on[w]] = "active" /\ made[on[w]] + 1 \in 1 .. MaxJobAttempts
               /\ made' = [made EXCEPT ![on[w]] = made[on[w]] + 1]
               /\ \/ at[w] = "returned" /\ bull' = [bull EXCEPT ![on[w]] = "completed"]
                  \/ /\ at[w] = "thrown" /\ made[on[w]] + 1 >= MaxJobAttempts
                     /\ bull' = [bull EXCEPT ![on[w]] = "failed"]
                  \/ /\ at[w] = "thrown" /\ made[on[w]] + 1 < MaxJobAttempts
                     /\ bull' = [bull EXCEPT ![on[w]] = "waiting"]
<1>1. on[w] \in Jobs /\ at[w] \in {"returned", "thrown"}
  BY DEF Report, Settle, CoreInv, TypeOK, ExecutionTypeOK
<1>2. lock[on[w]] = w => bull[on[w]] = "active" /\ made[on[w]] + 1 \in 1 .. MaxJobAttempts
  BY <1>1, QueueAssumption DEF CoreInv, TypeOK, ExecutionTypeOK, QueueTypeOK, LockInv
<1>3. CASE at[w] = "returned"
  BY <1>1, <1>2, <1>3 DEF Report, Settle, Idle, Goto, Succeed, queue
<1>4. CASE at[w] = "thrown"
  <2>1. FailAttempt(w, on[w]) /\ Idle(w)
    BY <1>4 DEF Report, Settle
  <2>2. made[on[w]] + 1 >= MaxJobAttempts \/ made[on[w]] + 1 < MaxJobAttempts
    BY <1>1, QueueAssumption DEF CoreInv, TypeOK, ExecutionTypeOK, QueueTypeOK
  <2>3. made[on[w]] + 1 < MaxJobAttempts => ~ (made[on[w]] + 1 >= MaxJobAttempts)
    BY <1>1, QueueAssumption DEF CoreInv, TypeOK, ExecutionTypeOK, QueueTypeOK
  <2> QED BY <1>1, <1>2, <1>4, <2>1, <2>2, <2>3 DEF Report, Settle, Idle, Goto, FailAttempt, queue
<1> QED BY <1>1, <1>3, <1>4

\* Types and locks: a worker reports an outcome.
LEMMA ReportCore ==
  ASSUME CoreInv, NEW w \in Workers, Report(w) PROVE TypeOK' /\ LockInv'
<1>1. QueueTypeOK'
  BY SettleFacts, QueueAssumption
     DEF CoreInv, TypeOK, ExecutionTypeOK, QueueTypeOK, BullStates
<1>2. ExecutionTypeOK(Points)'
  BY <1>1, SettleFacts, QueueAssumption, ExecutionBoundsAssumption
     DEF CoreInv, TypeOK, ExecutionTypeOK, Points
<1>3. TypeOK'
  BY <1>2, SettleFacts DEF CoreInv, TypeOK, dataVars
<1>4. LockInv'
  BY SettleFacts, QueueAssumption, ExecutionBoundsAssumption
     DEF CoreInv, TypeOK, ExecutionTypeOK, QueueTypeOK, LockInv
<1> QED BY <1>3, <1>4

\* Types and locks: a process dies.
LEMMA CrashCore ==
  ASSUME CoreInv, NEW w \in Workers, Crash(w) PROVE TypeOK' /\ LockInv'
<1>1. faults' \in [call : 0 .. MaxCallFaults, loss : 0 .. MaxLosses]
  BY ExecutionBoundsAssumption DEF CoreInv, TypeOK, ExecutionTypeOK, Crash, Die
<1>2. ExecutionTypeOK(Points)'
  BY <1>1, QueueAssumption, ExecutionBoundsAssumption
     DEF CoreInv, TypeOK, ExecutionTypeOK, QueueTypeOK, Points, Crash, Die, Idle, Goto
<1>3. TypeOK'
  BY <1>2 DEF CoreInv, TypeOK, Crash, dataVars
<1>4. LockInv'
  BY QueueAssumption, ExecutionBoundsAssumption
     DEF CoreInv, TypeOK, ExecutionTypeOK, QueueTypeOK, LockInv, Crash, Die, Idle, Goto
<1> QED BY <1>3, <1>4

\* Types and locks: BullMQ takes a job from an execution, or from nobody.
LEMMA StallCore ==
  ASSUME CoreInv, NEW j \in Jobs, LockLost(j) \/ Recover(j) PROVE TypeOK' /\ LockInv'
<1>1. Stall(j) /\ UNCHANGED <<at, on, attempt, added, kind, dataVars, effectFaults>>
  BY DEF LockLost, Recover, LoseLock, Rescue, executionVars
<1>2. faults' \in [call : 0 .. MaxCallFaults, loss : 0 .. MaxLosses]
  BY ExecutionBoundsAssumption
     DEF CoreInv, TypeOK, ExecutionTypeOK, LockLost, Recover, LoseLock, Rescue
<1>3. QueueTypeOK'
  BY <1>1, QueueAssumption
     DEF CoreInv, TypeOK, ExecutionTypeOK, QueueTypeOK, BullStates, Stall
<1>4. TypeOK'
  BY <1>1, <1>2, <1>3 DEF CoreInv, TypeOK, ExecutionTypeOK, dataVars
<1>5. LockInv'
  BY <1>1, QueueAssumption, ExecutionBoundsAssumption
     DEF CoreInv, TypeOK, ExecutionTypeOK, QueueTypeOK, LockInv, Stall
<1> QED BY <1>4, <1>5

\* Types and locks: the outbox adds a job, or Redis forgets one.
LEMMA DispatchCore ==
  ASSUME CoreInv, NEW j \in Jobs, Dispatch(j) \/ Evict(j) PROVE TypeOK' /\ LockInv'
<1>1. UNCHANGED <<lock, at, on, attempt, faults, kind, dataVars, effectFaults>>
  BY DEF Dispatch, Evict, Readd, Forget, Add, Remove, executionVars
<1>2. QueueTypeOK'
  BY QueueAssumption
     DEF CoreInv, TypeOK, ExecutionTypeOK, QueueTypeOK, BullStates, Dispatch, Evict,
         Readd, Add, Forget, Remove
<1>3. added' \in [Jobs -> 0 .. MaxAdds]
  BY ExecutionBoundsAssumption
     DEF CoreInv, TypeOK, ExecutionTypeOK, Dispatch, Evict, Readd, Forget
<1>4. TypeOK'
  BY <1>1, <1>2, <1>3 DEF CoreInv, TypeOK, ExecutionTypeOK, dataVars
<1>5. LockInv'
  BY <1>1, QueueAssumption, ExecutionBoundsAssumption
     DEF CoreInv, TypeOK, ExecutionTypeOK, QueueTypeOK, LockInv, Dispatch, Evict,
         Readd, Add, Forget, Remove
<1> QED BY <1>4, <1>5

-------------------------------------------------------------------------------
(* The register of processed events                                        *)

\* Register: a step of a handler.
LEMMA MoveProcessed ==
  ASSUME CoreInv, NEW w \in Workers, Move(w) PROVE LockInv' /\ ProcessedInv'
<1> USE DEF CoreInv
<1>1. LockInv'
  BY MoveFacts DEF LockInv
<1>2. /\ processed' = processed \/ (at[w] = "mark" /\ processed' = processed \cup {on[w]})
      /\ at'[w] \notin {"check", "idle"}
      /\ at'[w] = "mark" => at[w] = "conclude" /\ Register(KindOf(w))
      /\ at'[w] = "conclude" => effects'[on[w]] > 0
      /\ at'[w] = "returned" /\ Register(KindOf(w)) => on[w] \in processed'
  <2>1. CASE Check(w) \/ Lookup(w) \/ Begin(w) \/ Handle(w) \/ DeadLetter(w)
    BY <2>1, MoveFacts
       DEF Check, Lookup, Begin, Handle, DeadLetter, Only, Proceed, Goto, TypeOK, ExecutionTypeOK,
           dataVars
  <2>2. CASE Conclude(w) \/ Mark(w)
    BY <2>2, MoveFacts
       DEF Conclude, Mark, Only, Proceed, Goto, TypeOK, ExecutionTypeOK, dataVars
  <2>3. CASE Effect(w)
    BY <2>3, MoveFacts DEF Effect, Only, Proceed, Goto, TypeOK, ExecutionTypeOK, dataVars
  <2>4. CASE EffectRejected(w) \/ CallRejected(w)
    BY <2>4, MoveFacts
       DEF EffectRejected, CallRejected, Thrown, Goto, TypeOK, ExecutionTypeOK, dataVars
  <2> QED BY <2>1, <2>2, <2>3, <2>4 DEF Move
<1>3. \A j \in Jobs : effects[j] > 0 => effects'[j] > 0
  BY MoveFacts, MoveData DEF TypeOK
<1>4. \A j \in processed' : Register(kind[j]) /\ effects'[j] > 0
  BY <1>2, <1>3, MoveFacts DEF ProcessedInv, KindOf, TypeOK
<1>5. ASSUME NEW v \in Workers \ {w}
      PROVE  /\ at'[v] \in {"check", "mark"} => Register(KindOf(v))
             /\ at'[v] \in {"conclude", "mark"} => effects'[on[v]] > 0
             /\ at'[v] = "returned" /\ Register(KindOf(v)) => on[v] \in processed'
  <2>1. at[v] # "idle" => on[v] \in Jobs
    BY DEF TypeOK, ExecutionTypeOK
  <2> QED BY <1>2, <1>3, <2>1, MoveFacts DEF ProcessedInv
<1>6. /\ at'[w] \in {"check", "mark"} => Register(KindOf(w))
      /\ at'[w] \in {"conclude", "mark"} => effects'[on[w]] > 0
      /\ at'[w] = "returned" /\ Register(KindOf(w)) => on[w] \in processed'
  BY <1>2, <1>3, MoveFacts DEF ProcessedInv
<1>7. \A j \in Jobs :
        Register(kind[j]) /\ (bull[j] = "completed" \/ (bull[j] = "unknown" /\ added[j] > 0))
          => j \in processed'
  BY <1>2 DEF ProcessedInv
<1> QED BY <1>1, <1>4, <1>5, <1>6, <1>7, MoveFacts DEF ProcessedInv, KindOf

\* Register: the steps of the queue.
LEMMA QueueProcessed ==
  ASSUME CoreInv,
         \/ \E w \in Workers : Report(w) \/ Crash(w) \/ \E j \in Jobs : Start(w, j)
         \/ \E j \in Jobs : LockLost(j) \/ Recover(j) \/ Dispatch(j) \/ Evict(j)
  PROVE  ProcessedInv'
<1> USE DEF CoreInv
<1>1. ASSUME NEW w \in Workers, Report(w) PROVE ProcessedInv'
  BY <1>1, SettleFacts DEF ProcessedInv, KindOf, TypeOK, ExecutionTypeOK, QueueTypeOK, dataVars
<1>2. ASSUME NEW w \in Workers, Crash(w) PROVE ProcessedInv'
  BY <1>2 DEF ProcessedInv, KindOf, TypeOK, ExecutionTypeOK, Crash, Die, Idle, Goto, dataVars
<1>3. ASSUME NEW w \in Workers, NEW j \in Jobs, Start(w, j) PROVE ProcessedInv'
  BY <1>3 DEF ProcessedInv, KindOf, TypeOK, ExecutionTypeOK, QueueTypeOK, Start, Enter, Take, Goto, dataVars
<1>4. ASSUME NEW j \in Jobs, LockLost(j) \/ Recover(j) PROVE ProcessedInv'
  BY <1>4 DEF ProcessedInv, KindOf, TypeOK, ExecutionTypeOK, QueueTypeOK, LockLost, Recover, LoseLock,
     Rescue, Stall, executionVars, dataVars
<1>5. ASSUME NEW j \in Jobs, Dispatch(j) \/ Evict(j) PROVE ProcessedInv'
  BY <1>5, ExecutionBoundsAssumption DEF ProcessedInv, KindOf, TypeOK, ExecutionTypeOK, QueueTypeOK, Dispatch, Evict, Readd,
     Forget, Add, Remove, executionVars, dataVars
<1> QED BY <1>1, <1>2, <1>3, <1>4, <1>5

\* Types, locks and the register: every step.
LEMMA CoreStep == ASSUME CoreInv, [Next]_vars PROVE CoreInv'
<1>1. ASSUME NEW w \in Workers, Move(w) PROVE CoreInv'
  BY <1>1, MoveType, MoveProcessed DEF CoreInv
<1>2. ASSUME NEW w \in Workers, Report(w) \/ Crash(w) \/ \E j \in Jobs : Start(w, j)
      PROVE  CoreInv'
  BY <1>2, QueueProcessed, ReportCore, CrashCore, StartCore DEF CoreInv
<1>3. ASSUME NEW j \in Jobs, LockLost(j) \/ Recover(j) \/ Dispatch(j) \/ Evict(j)
      PROVE  CoreInv'
  BY <1>3, QueueProcessed, StallCore, DispatchCore DEF CoreInv
<1>4. CASE UNCHANGED vars
  <2>1. TypeOK'
    BY <1>4 DEF CoreInv, TypeOK, ExecutionTypeOK, QueueTypeOK, vars, queue, executionVars, dataVars
  <2>2. LockInv' /\ ProcessedInv'
    BY <1>4 DEF CoreInv, LockInv, ProcessedInv, KindOf, vars, queue, executionVars, dataVars
  <2> QED BY <2>1, <2>2 DEF CoreInv
<1> QED BY <1>1, <1>2, <1>3, <1>4 DEF Next, WorkerStep, Move

-------------------------------------------------------------------------------
(* Executions that do not lose their lock                                  *)

\* While no lock is lost, an execution is the only one of its job.
LEMMA Alone ==
  ASSUME CoreInv, AloneInv, NEW w \in Workers, at[w] # "idle"
  PROVE  /\ on[w] \in Jobs /\ lock[on[w]] = w /\ bull[on[w]] = "active"
         /\ attempt[w] = made[on[w]] + 1
         /\ \A v \in Workers \ {w} : on[v] # on[w]
         /\ \A k \in Jobs \ {on[w]} : lock[k] # w
         /\ \A ps : GivenUp(on[w], ps) <=> at[w] \in ps /\ IsFinalAttempt(w)
<1>1. on[w] \in Jobs /\ lock[on[w]] = w
  BY DEF CoreInv, TypeOK, ExecutionTypeOK, AloneInv
<1>2. bull[on[w]] = "active" /\ attempt[w] = made[on[w]] + 1
  BY <1>1, QueueAssumption DEF CoreInv, TypeOK, ExecutionTypeOK, QueueTypeOK, LockInv
<1>3. \A v \in Workers \ {w} : on[v] # on[w]
  BY <1>1, ExecutionBoundsAssumption DEF CoreInv, TypeOK, ExecutionTypeOK, AloneInv
<1>4. \A k \in Jobs \ {on[w]} : lock[k] # w
  BY QueueAssumption DEF CoreInv, LockInv
<1>5. \A ps : GivenUp(on[w], ps) <=> at[w] \in ps /\ IsFinalAttempt(w)
  BY <1>1, <1>2 DEF GivenUp
<1> QED BY <1>1, <1>2, <1>3, <1>4, <1>5

\* What a step of a handler establishes for its execution and its job.
LEMMA MoveQuietOwn ==
  ASSUME CoreInv, QuietInv, NEW w \in Workers, Move(w), CoreInv', AloneInv'
  PROVE  PointInv(w)' /\ OutcomeInv(on[w])'
<1> DEFINE j == on[w]
<1> USE DEF QuietInv
<1>1. /\ j \in Jobs /\ at \in [Workers -> Points] /\ at[w] # "idle" /\ at'[w] # "idle"
      /\ lock[j] = w /\ bull[j] = "active"
      /\ \A ps : GivenUp(j, ps) <=> at[w] \in ps /\ IsFinalAttempt(w)
  BY Alone, MoveFacts DEF CoreInv, TypeOK, ExecutionTypeOK
<1>2. on' = on /\ bull' = bull /\ lock' = lock /\ attempt' = attempt /\ kind' = kind
  BY MoveFacts DEF CoreInv
<1>3. /\ GivenUp(j, {"thrown"})' <=> at'[w] = "thrown" /\ IsFinalAttempt(w)
      /\ GivenUp(j, {"dead", "thrown"})' <=> at'[w] \in {"dead", "thrown"} /\ IsFinalAttempt(w)
  BY <1>1, <1>2 DEF GivenUp, IsFinalAttempt
<1>4. PointInv(w) /\ OutcomeInv(j)
  BY <1>1
<1>5. /\ at[w] \in {"check", "mark"} => Register(KindOf(w))
      /\ j \in processed => Register(kind[j]) /\ effects[j] > 0
      /\ at[w] \in {"conclude", "mark"} => effects[j] > 0
  BY <1>1 DEF CoreInv, ProcessedInv
<1>6. record \in [Jobs -> {"QUEUED", "BUSY", "DONE", "FAILED"}] /\ effects \in [Jobs -> Nat]
  BY DEF CoreInv, TypeOK
<1>7. CASE Check(w) \/ Lookup(w) \/ Begin(w)
  BY <1>1, <1>2, <1>3, <1>4, <1>5, <1>6, <1>7
     DEF Check, Lookup, Begin, Only, Proceed, Goto, SetRecord, PointInv, OutcomeInv, dataVars
<1>8. CASE Effect(w) \/ Conclude(w)
  BY <1>1, <1>2, <1>3, <1>4, <1>5, <1>6, <1>8
     DEF Effect, Conclude, Only, Proceed, Goto, SetRecord, PointInv, OutcomeInv, dataVars
<1>9. CASE Mark(w)
  BY <1>1, <1>2, <1>3, <1>4, <1>5, <1>6, <1>9
     DEF Mark, Only, Proceed, Goto, PointInv, OutcomeInv, dataVars
<1>10. CASE Handle(w) \/ DeadLetter(w)
  BY <1>1, <1>2, <1>3, <1>4, <1>5, <1>6, <1>10
     DEF Handle, DeadLetter, Only, Proceed, Goto, SetRecord, PointInv, OutcomeInv, IsFinalAttempt,
         dataVars
<1>11. CASE EffectRejected(w)
  BY <1>1, <1>2, <1>3, <1>4, <1>5, <1>6, <1>11
     DEF EffectRejected, Thrown, InTry, Goto, PointInv, OutcomeInv, dataVars
<1>12. CASE CallRejected(w)
  <2>1. faults'.call > 0
    BY <1>12, CallFaultFacts DEF CallRejected, CoreInv, TypeOK, ExecutionTypeOK
  <2>2. effects' = effects
    BY <1>12 DEF CallRejected
  <2> QED
    BY <1>1, <1>2, <1>3, <1>4, <1>5, <1>6, <1>12, <2>1, <2>2
       DEF CallRejected, Thrown, InTry, Goto, SetRecord, PointInv, OutcomeInv, IsFinalAttempt
<1> QED BY <1>7, <1>8, <1>9, <1>10, <1>11, <1>12 DEF Move

\* A step of a handler that is alone.
LEMMA MoveQuiet ==
  ASSUME CoreInv, QuietInv, NEW w \in Workers, Move(w), CoreInv' PROVE QuietInv'
<1>1. AloneInv'
  BY MoveFacts DEF CoreInv, QuietInv, AloneInv
<1>2. PointInv(w)' /\ OutcomeInv(on[w])'
  BY <1>1, MoveQuietOwn
<1>3. at[w] # "idle" /\ TypeOK
  BY MoveFacts DEF CoreInv
<1>4. faults'.call = 0 => faults.call = 0
  BY <1>3, MoveFacts, CallFaultFacts DEF TypeOK, ExecutionTypeOK
<1>5. ASSUME NEW v \in Workers \ {w} PROVE PointInv(v)'
  <2>1. on[v] # on[w] /\ at'[v] = at[v] /\ on' = on /\ attempt' = attempt
    BY <1>3, Alone, MoveFacts DEF QuietInv
  <2>2. at[v] # "idle" => on[v] \in Jobs
    BY <1>3 DEF TypeOK, ExecutionTypeOK
  <2>3. PointInv(v)
    BY DEF QuietInv
  <2> QED BY <1>3, <1>4, <2>1, <2>2, <2>3, MoveData DEF PointInv, IsFinalAttempt
<1>6. ASSUME NEW j \in Jobs \ {on[w]} PROVE OutcomeInv(j)'
  <2>1. lock[j] # w /\ UNCHANGED <<bull, lock, attempt>>
    BY <1>3, Alone, MoveFacts DEF QuietInv
  <2>2. bull[j] = "active" => lock[j] \in Workers /\ at'[lock[j]] = at[lock[j]]
    BY <1>3, <2>1, MoveFacts DEF QuietInv, AloneInv, TypeOK, ExecutionTypeOK, QueueTypeOK
  <2>3. \A ps : GivenUp(j, ps) => GivenUp(j, ps)'
    BY <2>1, <2>2 DEF GivenUp, IsFinalAttempt
  <2>4. OutcomeInv(j)
    BY DEF QuietInv
  <2> QED BY <1>3, <1>4, <2>1, <2>3, <2>4, MoveData DEF OutcomeInv
<1>7. on' = on /\ on[w] \in Jobs
  BY <1>3, MoveFacts
<1> QED BY <1>1, <1>2, <1>5, <1>6, <1>7 DEF QuietInv

\* A worker takes a job that nobody executes.
LEMMA StartQuiet ==
  ASSUME CoreInv, QuietInv, NEW w \in Workers, NEW j \in Jobs, Start(w, j), CoreInv'
  PROVE  QuietInv'
<1>1. /\ at[w] = "idle" /\ bull[j] = "waiting" /\ lock[j] = NoWorker
      /\ at' = [at EXCEPT ![w] = IF Register(kind[j]) THEN "check" ELSE "lookup"]
      /\ on' = [on EXCEPT ![w] = j] /\ attempt' = [attempt EXCEPT ![w] = made[j] + 1]
      /\ bull' = [bull EXCEPT ![j] = "active"] /\ lock' = [lock EXCEPT ![j] = w]
      /\ UNCHANGED <<faults, kind, record, processed, dlq, effects>>
  BY StartCore DEF Start, Enter, Take, Goto, dataVars
<1>2. /\ at \in [Workers -> Points] /\ on \in [Workers -> Jobs \cup {NoJob}]
      /\ bull \in [Jobs -> BullStates] /\ lock \in [Jobs -> Workers \cup {NoWorker}]
      /\ attempt \in [Workers -> 0 .. MaxJobAttempts]
      /\ \A v \in Workers : at[v] # "idle" => on[v] \in Jobs
  BY DEF CoreInv, TypeOK, ExecutionTypeOK, QueueTypeOK
<1>3. \A v \in Workers \ {w} : at[v] # "idle" => on[v] # j
  BY <1>1, QueueAssumption DEF QuietInv, AloneInv
<1>4. AloneInv'
  BY <1>1, <1>2, <1>3, QueueAssumption DEF QuietInv, AloneInv
<1>5. j \in processed => Register(kind[j])
  BY DEF CoreInv, ProcessedInv
<1>6. ASSUME NEW v \in Workers PROVE PointInv(v)'
  <2>1. CASE v = w
    BY <1>1, <1>2, <1>5, <2>1 DEF PointInv
  <2>2. CASE v # w
    BY <1>1, <1>2, <2>2 DEF QuietInv, PointInv, IsFinalAttempt
  <2> QED BY <2>1, <2>2
<1>7. ASSUME NEW k \in Jobs PROVE OutcomeInv(k)'
  <2>1. OutcomeInv(k)
    BY DEF QuietInv
  <2>2. CASE k = j
    BY <1>1, <1>2, <2>1, <2>2 DEF OutcomeInv, GivenUp
  <2>3. CASE k # j
    <3>1. bull[k] = "active" => lock[k] \in Workers \ {w}
      BY <1>1, <1>2, <2>3, QueueAssumption DEF QuietInv, AloneInv, CoreInv, LockInv, TypeOK, ExecutionTypeOK
    <3>2. \A ps : GivenUp(k, ps) => GivenUp(k, ps)'
      BY <1>1, <1>2, <2>3, <3>1 DEF GivenUp, IsFinalAttempt
    <3> QED BY <1>1, <1>2, <2>1, <2>3, <3>2 DEF OutcomeInv
  <2> QED BY <2>2, <2>3
<1> QED BY <1>4, <1>6, <1>7 DEF QuietInv

\* A worker reports an outcome, and is not refused.
LEMMA ReportQuiet ==
  ASSUME CoreInv, QuietInv, NEW w \in Workers, Report(w), CoreInv'
  PROVE  QuietInv'
<1> PICK j \in Jobs : j = on[w]
  BY SettleFacts
<1>1. /\ j = on[w] /\ lock[j] = w /\ at[w] \in {"returned", "thrown"} /\ bull[j] = "active"
      /\ attempt[w] = made[j] + 1 /\ \A k \in Jobs \ {j} : lock[k] # w
      /\ \A v \in Workers \ {w} : on[v] # j
      /\ \A ps : GivenUp(j, ps) <=> at[w] \in ps /\ IsFinalAttempt(w)
  BY SettleFacts, Alone DEF QuietInv
<1>2. /\ at \in [Workers -> Points] /\ on \in [Workers -> Jobs \cup {NoJob}]
      /\ bull \in [Jobs -> BullStates] /\ lock \in [Jobs -> Workers \cup {NoWorker}]
      /\ attempt \in [Workers -> 0 .. MaxJobAttempts]
      /\ \A v \in Workers : at[v] # "idle" => on[v] \in Jobs
  BY DEF CoreInv, TypeOK, ExecutionTypeOK, QueueTypeOK
<1>3. /\ at' = [at EXCEPT ![w] = "idle"] /\ on' = [on EXCEPT ![w] = NoJob]
      /\ attempt' = [attempt EXCEPT ![w] = 0] /\ lock' = [lock EXCEPT ![j] = NoWorker]
      /\ \/ at[w] = "returned" /\ bull' = [bull EXCEPT ![j] = "completed"]
         \/ at[w] = "thrown" /\ IsFinalAttempt(w) /\ bull' = [bull EXCEPT ![j] = "failed"]
         \/ at[w] = "thrown" /\ ~ IsFinalAttempt(w) /\ bull' = [bull EXCEPT ![j] = "waiting"]
      /\ UNCHANGED <<faults, kind, record, processed, dlq, effects>>
  <2>1. made[j] + 1 < MaxJobAttempts => ~ (made[j] + 1 >= MaxJobAttempts)
    BY <1>1, QueueAssumption DEF CoreInv, TypeOK, ExecutionTypeOK, QueueTypeOK
  <2> QED BY <1>1, <2>1, SettleFacts DEF dataVars, IsFinalAttempt
<1>4. AloneInv'
  BY <1>1, <1>2, <1>3, QueueAssumption DEF QuietInv, AloneInv
<1>5. PointInv(w) /\ OutcomeInv(j)
  BY <1>1 DEF QuietInv
<1>6. ASSUME NEW v \in Workers PROVE PointInv(v)'
  <2>1. CASE v = w
    BY <1>2, <1>3, <2>1 DEF PointInv
  <2>2. CASE v # w
    BY <1>2, <1>3, <2>2 DEF QuietInv, PointInv, IsFinalAttempt
  <2> QED BY <2>1, <2>2
<1>7. OutcomeInv(j)'
  <2>1. bull'[j] # "active" /\ (GivenUp(j, {"thrown"})' <=> bull'[j] = "failed")
        /\ (GivenUp(j, {"dead", "thrown"})' <=> bull'[j] = "failed")
    BY <1>1, <1>2, <1>3 DEF GivenUp
  <2>2. /\ GivenUp(j, {"thrown"}) <=> at[w] = "thrown" /\ IsFinalAttempt(w)
        /\ GivenUp(j, {"dead", "thrown"}) <=> at[w] \in {"dead", "thrown"} /\ IsFinalAttempt(w)
    BY <1>1
  <2> QED BY <1>1, <1>2, <1>3, <1>5, <2>1, <2>2 DEF OutcomeInv, PointInv
<1>8. ASSUME NEW k \in Jobs \ {j} PROVE OutcomeInv(k)'
  <2>1. OutcomeInv(k)
    BY DEF QuietInv
  <2>2. bull[k] = "active" => lock[k] \in Workers \ {w}
    BY <1>1, <1>2, QueueAssumption DEF QuietInv, AloneInv
  <2>3. \A ps : GivenUp(k, ps) => GivenUp(k, ps)'
    BY <1>1, <1>2, <1>3, <2>2 DEF GivenUp, IsFinalAttempt
  <2> QED BY <1>1, <1>2, <1>3, <2>1, <2>3 DEF OutcomeInv
<1>9. \A k \in Jobs : OutcomeInv(k)'
  BY <1>7, <1>8
<1> QED BY <1>4, <1>6, <1>9 DEF QuietInv

\* The outbox adds a job, or Redis forgets one: nobody executes it.
LEMMA DispatchQuiet ==
  ASSUME CoreInv, QuietInv, NEW j \in Jobs, Dispatch(j) \/ Evict(j)
  PROVE  QuietInv'
<1>1. /\ UNCHANGED <<lock, at, on, attempt, faults, kind, record, processed, dlq, effects>>
      /\ bull[j] \in {"unknown", "completed"}
      /\ \E s \in {"waiting", "unknown"} : bull' = [bull EXCEPT ![j] = s]
  BY DEF Dispatch, Evict, Readd, Forget, Add, Remove, executionVars, dataVars
<1>2. bull \in [Jobs -> BullStates]
  BY DEF CoreInv, TypeOK, ExecutionTypeOK, QueueTypeOK
<1>3. AloneInv'
  BY <1>1, <1>2 DEF QuietInv, AloneInv
<1>4. \A w \in Workers : PointInv(w)'
  BY <1>1 DEF QuietInv, PointInv, IsFinalAttempt
<1>5. ASSUME NEW k \in Jobs PROVE OutcomeInv(k)'
  <2>1. OutcomeInv(k)
    BY DEF QuietInv
  <2>2. \A ps : GivenUp(k, ps) => GivenUp(k, ps)'
    BY <1>1, <1>2 DEF GivenUp, IsFinalAttempt
  <2> QED BY <1>1, <1>2, <2>1, <2>2 DEF OutcomeInv
<1> QED BY <1>3, <1>4, <1>5 DEF QuietInv

\* A step after which no lock has been lost keeps executions alone.
LEMMA QuietStep ==
  ASSUME CoreInv, CoreInv', faults.loss = 0 => QuietInv, [Next]_vars, faults'.loss = 0
  PROVE  QuietInv'
<1>1. ASSUME NEW w \in Workers, Crash(w) PROVE FALSE
  BY <1>1 DEF Crash, Die, CoreInv, TypeOK, ExecutionTypeOK
<1>2. ASSUME NEW j \in Jobs, LockLost(j) PROVE FALSE
  BY <1>2 DEF LockLost, LoseLock, CoreInv, TypeOK, ExecutionTypeOK
<1>3. ASSUME NEW w \in Workers, Move(w) PROVE QuietInv'
  <2>1. faults.loss = 0
    BY <1>3, MoveFacts, CallFaultFacts DEF CoreInv
  <2> QED BY <1>3, <2>1, MoveQuiet
<1>4. ASSUME NEW w \in Workers, NEW j \in Jobs, Start(w, j) PROVE QuietInv'
  <2>1. faults.loss = 0
    BY <1>4 DEF Start, Enter
  <2> QED BY <1>4, <2>1, StartQuiet
<1>5. ASSUME NEW w \in Workers, Report(w) PROVE QuietInv'
  <2>1. faults.loss = 0
    BY <1>5 DEF Report, Settle
  <2> QED BY <1>5, <2>1, ReportQuiet
<1>6. ASSUME NEW j \in Jobs, Recover(j) PROVE FALSE
  BY <1>6 DEF Recover, Rescue, Stall, QuietInv, AloneInv
<1>7. ASSUME NEW j \in Jobs, Dispatch(j) \/ Evict(j) PROVE QuietInv'
  <2>1. faults.loss = 0
    BY <1>7 DEF Dispatch, Evict, Readd, Forget
  <2> QED BY <1>7, <2>1, DispatchQuiet
<1>8. CASE UNCHANGED vars
  BY <1>8 DEF QuietInv, AloneInv, PointInv, OutcomeInv, GivenUp, IsFinalAttempt, vars, queue,
     executionVars, dataVars
<1> QED BY <1>1, <1>2, <1>3, <1>4, <1>5, <1>6, <1>7, <1>8 DEF Next, WorkerStep, Move

-------------------------------------------------------------------------------
(* Repeated effects                                                        *)

\* A set that changes at one element changes its size by one at most.
LEMMA CardinalityStep ==
  ASSUME NEW S, IsFiniteSet(S), NEW T, NEW x, T \ {x} \subseteq S
  PROVE  /\ Cardinality(S) \in Nat /\ Cardinality(T) \in Nat
         /\ Cardinality(T) + (IF x \in S THEN 1 ELSE 0)
              <= Cardinality(S) + (IF x \in T THEN 1 ELSE 0)
<1> DEFINE A == S \ {x}
           B == T \ {x}
<1>1. IsFiniteSet(A) /\ Cardinality(A) = IF x \in S THEN Cardinality(S) - 1 ELSE Cardinality(S)
  BY FS_RemoveElement
<1>2. IsFiniteSet(B) /\ Cardinality(B) <= Cardinality(A)
  <2>1. B \in SUBSET A
    OBVIOUS
  <2> QED BY <1>1, <2>1, FS_Subset
<1>3. IsFiniteSet(T) /\ Cardinality(T) = IF x \in T THEN Cardinality(B) + 1 ELSE Cardinality(B)
  <2>1. CASE x \in T
    <3>1. B \cup {x} = T /\ x \notin B
      BY <2>1
    <3> QED BY <1>2, <2>1, <3>1, FS_AddElement
  <2>2. CASE x \notin T
    <3>1. B = T
      BY <2>2
    <3> QED BY <1>2, <2>2, <3>1
  <2> QED BY <2>1, <2>2
<1>4. /\ Cardinality(S) \in Nat /\ Cardinality(T) \in Nat
      /\ Cardinality(A) \in Nat /\ Cardinality(B) \in Nat
  BY <1>1, <1>2, <1>3, FS_CardinalityType
<1> HIDE DEF A, B
<1> QED BY <1>1, <1>2, <1>3, <1>4

\* Whether w is one of the executions that count.
Counts(w, j) == IF w \in Pending(j) THEN 1 ELSE 0

\* The parts of the count are numbers.
LEMMA CountTypes ==
  ASSUME TypeOK, NEW j \in Jobs
  PROVE  /\ effects[j] \in Nat /\ Ahead(j) \in {0, 1} /\ Allowed(j) \in Nat
         /\ IsFiniteSet(Pending(j)) /\ Cardinality(Pending(j)) \in Nat
         /\ \A w : Counts(w, j) \in {0, 1}
<1>1. effects[j] \in Nat /\ Ahead(j) \in {0, 1} /\ \A w : Counts(w, j) \in {0, 1}
  BY DEF TypeOK, Ahead, Counts
<1>2. effectFaults \in Nat /\ faults.call \in Nat /\ faults.loss \in Nat /\ added[j] \in Nat
  BY EffectBoundAssumption, ExecutionBoundsAssumption DEF TypeOK, ExecutionTypeOK
<1>3. Allowed(j) \in Nat
  BY <1>2 DEF Allowed, TotalFaults
<1>4. IsFiniteSet(Pending(j)) /\ Cardinality(Pending(j)) \in Nat
  <2>1. Pending(j) \in SUBSET Workers
    BY DEF Pending
  <2> QED BY <2>1, FS_Subset, FS_CardinalityType, QueueAssumption
<1> QED BY <1>1, <1>3, <1>4

\* A step keeps the count if only w may enter those that count, and what it adds is allowed.
LEMMA CountStep ==
  ASSUME TypeOK, TypeOK', NEW j \in Jobs, Counted(j), NEW w,
         Pending(j)' \ {w} \subseteq Pending(j),
         effects'[j] + Counts(w, j)' + Ahead(j)' + Allowed(j)
           <= effects[j] + Counts(w, j) + Ahead(j) + Allowed(j)'
  PROVE  Counted(j)'
<1>1. /\ effects[j] \in Nat /\ Ahead(j) \in Nat /\ Allowed(j) \in Nat
      /\ IsFiniteSet(Pending(j)) /\ Cardinality(Pending(j)) \in Nat /\ Counts(w, j) \in Nat
  BY CountTypes
<1>2. /\ effects'[j] \in Nat /\ Ahead(j)' \in Nat /\ Allowed(j)' \in Nat
      /\ Counts(w, j)' \in Nat
  <2>1. effects'[j] \in Nat /\ Ahead(j)' \in Nat /\ Counts(w, j)' \in Nat
    BY DEF TypeOK, Ahead, Counts
  <2>2. /\ effectFaults' \in Nat /\ faults'.call \in Nat /\ faults'.loss \in Nat
        /\ added'[j] \in Nat
    BY EffectBoundAssumption, ExecutionBoundsAssumption DEF TypeOK, ExecutionTypeOK
  <2>3. Allowed(j)' \in Nat
    BY <2>2 DEF Allowed, TotalFaults
  <2> QED BY <2>1, <2>3
<1>3. /\ Cardinality(Pending(j)') \in Nat
      /\ Cardinality(Pending(j)') + (IF w \in Pending(j) THEN 1 ELSE 0)
           <= Cardinality(Pending(j)) + (IF w \in Pending(j)' THEN 1 ELSE 0)
  BY <1>1, CardinalityStep
<1>4. Cardinality(Pending(j)') + Counts(w, j) <= Cardinality(Pending(j)) + Counts(w, j)'
  BY <1>3 DEF Counts
<1>5. effects[j] + Cardinality(Pending(j)) + Ahead(j) <= Allowed(j)
  BY DEF Counted
<1>6. effects'[j] + Cardinality(Pending(j)') + Ahead(j)' <= Allowed(j)'
  BY <1>1, <1>2, <1>3, <1>4, <1>5
<1> QED BY <1>6 DEF Counted

\* What a step of a handler does to the count of its own job.
LEMMA MoveCountOwn ==
  ASSUME CoreInv, NEW w \in Workers, Move(w), NEW j \in Jobs, j = on[w]
  PROVE  effects'[j] + Counts(w, j)' + TotalFaults <= effects[j] + Counts(w, j) + TotalFaults'
<1>1. /\ UNCHANGED <<on, lock>> /\ at \in [Workers -> Points]
      /\ processed \subseteq processed'
  BY MoveFacts, MoveData DEF CoreInv, TypeOK, ExecutionTypeOK
<1>2. /\ w \in Pending(j) <=> \/ at[w] \in {"lookup", "begin", "effect"}
                              \/ /\ j \notin processed
                                 /\ at[w] = "check" \/ (at[w] \in {"handle", "dead", "thrown"} /\ lock[j] = w)
      /\ w \in Pending(j)' <=> \/ at'[w] \in {"lookup", "begin", "effect"}
                               \/ /\ j \notin processed'
                                  /\ at'[w] = "check" \/ (at'[w] \in {"handle", "dead", "thrown"} /\ lock[j] = w)
  BY <1>1 DEF Pending
<1>3. effects \in [Jobs -> Nat] /\ effectFaults \in Nat /\ faults.call \in Nat /\ faults.loss \in Nat
  BY EffectBoundAssumption, ExecutionBoundsAssumption DEF CoreInv, TypeOK, ExecutionTypeOK
<1>4. CASE Check(w) \/ Lookup(w) \/ Begin(w)
  <2>1. effects' = effects /\ TotalFaults' = TotalFaults /\ Counts(w, j)' <= Counts(w, j)
    BY <1>1, <1>2, <1>4
       DEF Check, Lookup, Begin, Only, Proceed, Goto, TotalFaults, Counts, dataVars
  <2>2. TotalFaults \in Nat
    BY <1>3 DEF TotalFaults
  <2> QED BY <1>3, <2>1, <2>2 DEF Counts
<1>5. CASE Effect(w)
  <2>1. /\ effects'[j] = effects[j] + 1 /\ TotalFaults' = TotalFaults
        /\ Counts(w, j)' = 0 /\ Counts(w, j) = 1
    BY <1>1, <1>2, <1>3, <1>5 DEF Effect, Only, Proceed, Goto, TotalFaults, Counts
  <2>2. TotalFaults \in Nat
    BY <1>3 DEF TotalFaults
  <2> QED BY <1>3, <2>1, <2>2
<1>6. CASE Conclude(w) \/ Mark(w) \/ Handle(w) \/ DeadLetter(w)
  <2>1. effects' = effects /\ TotalFaults' = TotalFaults /\ Counts(w, j)' <= Counts(w, j)
    BY <1>1, <1>2, <1>6
       DEF Conclude, Mark, Handle, DeadLetter, Only, Proceed, Goto, TotalFaults, Counts, dataVars
  <2>2. TotalFaults \in Nat
    BY <1>3 DEF TotalFaults
  <2> QED BY <1>3, <2>1, <2>2 DEF Counts
<1>7. CASE EffectRejected(w)
  <2>1. effects'[j] <= effects[j] + 1 /\ effects'[j] \in Nat
    BY <1>3, <1>7 DEF EffectRejected
  <2>2. TotalFaults' = TotalFaults + 1 /\ TotalFaults \in Nat
    BY <1>3, <1>7 DEF EffectRejected, TotalFaults
  <2>3. Counts(w, j) = 1 /\ Counts(w, j)' \in {0, 1}
    BY <1>2, <1>7 DEF EffectRejected, Counts
  <2> QED BY <1>3, <2>1, <2>2, <2>3
<1>8. CASE CallRejected(w)
  <2>1. effects' = effects /\ effectFaults' = effectFaults /\ CallFault
    BY <1>8 DEF CallRejected
  <2>2. TotalFaults' = TotalFaults + 1 /\ TotalFaults \in Nat
    BY <1>3, <2>1, CallFaultFacts DEF TotalFaults, CoreInv
  <2>3. Counts(w, j) \in {0, 1} /\ Counts(w, j)' \in {0, 1}
    BY DEF Counts
  <2> QED BY <1>3, <2>1, <2>2, <2>3
<1> QED BY <1>4, <1>5, <1>6, <1>7, <1>8 DEF Move

\* Repeats: a step of a handler.
LEMMA MoveRepeat ==
  ASSUME CoreInv, CoreInv', RepeatInv, NEW w \in Workers, Move(w) PROVE RepeatInv'
<1>1. /\ UNCHANGED <<bull, lock, on, added, kind>> /\ on[w] \in Jobs
      /\ \A v \in Workers \ {w} : at'[v] = at[v]
      /\ processed \subseteq processed' /\ processed' \subseteq processed \cup {on[w]}
      /\ \A k \in Jobs \ {on[w]} : effects'[k] = effects[k]
  BY MoveFacts, MoveData DEF CoreInv
<1>2. /\ effectFaults \in Nat /\ faults.call \in Nat /\ faults.loss \in Nat
      /\ TotalFaults \in Nat /\ TotalFaults' \in Nat /\ TotalFaults <= TotalFaults'
  <2>1. effectFaults \in Nat /\ faults.call \in Nat /\ faults.loss \in Nat
    BY EffectBoundAssumption, ExecutionBoundsAssumption DEF CoreInv, TypeOK, ExecutionTypeOK
  <2>2. \/ UNCHANGED <<faults, effectFaults>>
        \/ effectFaults' = effectFaults + 1 /\ UNCHANGED faults
        \/ /\ faults'.call = faults.call + 1 /\ faults'.loss = faults.loss
           /\ UNCHANGED effectFaults
    BY MoveFacts, CallFaultFacts DEF CoreInv
  <2> QED BY <2>1, <2>2 DEF TotalFaults
<1>3. ASSUME NEW j \in Jobs PROVE BeforeAdded(j)'
  <2>1. BeforeAdded(j)
    BY DEF RepeatInv
  <2> QED BY <1>1, <2>1 DEF BeforeAdded
<1>4. ASSUME NEW j \in Jobs PROVE Counted(j)'
  <2>1. Counted(j)
    BY DEF RepeatInv
  <2>2. Pending(j)' \ {w} \subseteq Pending(j)
    BY <1>1 DEF Pending
  <2>3. Ahead(j)' <= Ahead(j) /\ Ahead(j) \in Nat /\ Ahead(j)' \in Nat
    BY <1>1 DEF Ahead
  <2>4. Allowed(j)' = Allowed(j) + (TotalFaults' - TotalFaults) /\ Allowed(j) \in Nat
    <3>1. added[j] \in Nat
      BY ExecutionBoundsAssumption DEF CoreInv, TypeOK, ExecutionTypeOK
    <3>2. Allowed(j) \in Nat
      BY CountTypes DEF CoreInv
    <3> QED BY <1>1, <1>2, <3>1, <3>2 DEF Allowed
  <2>5. effects[j] \in Nat /\ effects'[j] \in Nat /\ Counts(w, j) \in Nat /\ Counts(w, j)' \in Nat
    BY DEF CoreInv, TypeOK, Counts
  <2>6. effects'[j] + Counts(w, j)' + TotalFaults <= effects[j] + Counts(w, j) + TotalFaults'
    <3>1. CASE j = on[w]
      BY <3>1, MoveCountOwn
    <3>2. CASE j # on[w]
      <4>1. effects'[j] = effects[j] /\ Counts(w, j)' = 0 /\ Counts(w, j) = 0
        BY <1>1, <3>2 DEF Counts, Pending
      <4> QED BY <1>2, <2>5, <4>1
    <3> QED BY <3>1, <3>2
  <2>7. effects'[j] + Counts(w, j)' + Ahead(j)' + Allowed(j)
          <= effects[j] + Counts(w, j) + Ahead(j) + Allowed(j)'
    BY <1>2, <2>3, <2>4, <2>5, <2>6
  <2> QED BY <2>1, <2>2, <2>7, CountStep DEF CoreInv
<1> QED BY <1>3, <1>4 DEF RepeatInv

\* A step that adds no effect and nobody that counts keeps the count, if it is allowed
\* for that a job may wait again.
LEMMA QuietCount ==
  ASSUME TypeOK, TypeOK', NEW j \in Jobs, Counted(j), effects' = effects,
         Pending(j)' \subseteq Pending(j), Ahead(j)' + Allowed(j) <= Ahead(j) + Allowed(j)'
  PROVE  Counted(j)'
<1>1. /\ effects[j] \in Nat /\ Ahead(j) \in Nat /\ Allowed(j) \in Nat
      /\ IsFiniteSet(Pending(j)) /\ Cardinality(Pending(j)) \in Nat
  BY CountTypes
<1>2. Ahead(j)' \in Nat /\ Allowed(j)' \in Nat
  <2>1. /\ effectFaults' \in Nat /\ faults'.call \in Nat /\ faults'.loss \in Nat
        /\ added'[j] \in Nat
    BY EffectBoundAssumption, ExecutionBoundsAssumption DEF TypeOK, ExecutionTypeOK
  <2> QED BY <2>1 DEF Allowed, Ahead, TotalFaults
<1>3. Cardinality(Pending(j)') \in Nat /\ Cardinality(Pending(j)') <= Cardinality(Pending(j))
  <2>1. Pending(j)' \in SUBSET Pending(j)
    OBVIOUS
  <2> QED BY <1>1, <2>1, FS_Subset, FS_CardinalityType
<1>4. effects[j] + Cardinality(Pending(j)) + Ahead(j) <= Allowed(j)
  BY DEF Counted
<1>5. effects[j] + Cardinality(Pending(j)') + Ahead(j)' <= Allowed(j)'
  BY <1>1, <1>2, <1>3, <1>4
<1> QED BY <1>5 DEF Counted

\* Repeats: the worker that takes a job counts from now on, if the job did before.
LEMMA StartRepeat ==
  ASSUME CoreInv, CoreInv', RepeatInv, NEW w \in Workers, NEW j \in Jobs, Start(w, j)
  PROVE  RepeatInv'
<1>1. /\ on[w] = NoJob /\ bull[j] = "waiting" /\ lock[j] = NoWorker
      /\ at' = [at EXCEPT ![w] = IF Register(kind[j]) THEN "check" ELSE "lookup"]
      /\ on' = [on EXCEPT ![w] = j]
      /\ bull' = [bull EXCEPT ![j] = "active"] /\ lock' = [lock EXCEPT ![j] = w]
      /\ UNCHANGED <<faults, effectFaults, added, kind, processed, effects>>
  BY StartCore
     DEF CoreInv, TypeOK, ExecutionTypeOK, Start, Enter, Take, Goto, dataVars
<1>2. /\ at \in [Workers -> Points] /\ on \in [Workers -> Jobs \cup {NoJob}]
      /\ bull \in [Jobs -> BullStates] /\ lock \in [Jobs -> Workers \cup {NoWorker}]
      /\ effects \in [Jobs -> Nat]
  BY DEF CoreInv, TypeOK, ExecutionTypeOK, QueueTypeOK
<1>3. j \in processed => Register(kind[j])
  BY DEF CoreInv, ProcessedInv
<1>4. ASSUME NEW k \in Jobs PROVE BeforeAdded(k)'
  BY <1>1, <1>2 DEF RepeatInv, BeforeAdded
<1>5. ASSUME NEW k \in Jobs PROVE Counted(k)'
  <2>1. Counted(k) /\ Allowed(k)' = Allowed(k) /\ Allowed(k) \in Nat
    BY <1>1, CountTypes DEF RepeatInv, Allowed, TotalFaults, CoreInv
  <2>2. w \notin Pending(k)
    BY <1>1, ExecutionBoundsAssumption DEF Pending
  <2>3. CASE k = j
    <3>1. Pending(k)' \ {w} \subseteq Pending(k)
      BY <1>1, <1>2, <2>3 DEF Pending
    <3>2. Counts(w, k) = 0 /\ Ahead(k)' = 0
      BY <1>1, <1>2, <2>2, <2>3, QueueAssumption DEF Counts, Ahead
    <3>3. Counts(w, k)' <= Ahead(k) /\ Counts(w, k)' \in {0, 1}
      BY <1>1, <1>2, <1>3, <2>3 DEF Counts, Ahead, Pending
    <3>4. effects[k] \in Nat /\ Ahead(k) \in Nat
      BY <1>2 DEF Ahead
    <3>5. effects'[k] + Counts(w, k)' + Ahead(k)' + Allowed(k)
            <= effects[k] + Counts(w, k) + Ahead(k) + Allowed(k)'
      BY <1>1, <2>1, <3>2, <3>3, <3>4
    <3> QED BY <2>1, <3>1, <3>5, CountStep DEF CoreInv
  <2>4. CASE k # j
    <3>1. Pending(k)' \subseteq Pending(k)
      BY <1>1, <1>2, <2>4 DEF Pending
    <3>2. Ahead(k)' = Ahead(k) /\ Ahead(k) \in Nat
      BY <1>1, <1>2, <2>4 DEF Ahead
    <3>3. Ahead(k)' + Allowed(k) <= Ahead(k) + Allowed(k)'
      BY <2>1, <3>2
    <3> QED BY <1>1, <2>1, <3>1, <3>3, QuietCount DEF CoreInv
  <2> QED BY <2>3, <2>4
<1> QED BY <1>4, <1>5 DEF RepeatInv

\* Repeats: a job that waits again, after its handler threw, was counted with its worker.
LEMMA ReportRepeat ==
  ASSUME CoreInv, CoreInv', RepeatInv, NEW w \in Workers, Report(w)
  PROVE  RepeatInv'
<1> PICK j \in Jobs : j = on[w]
  BY SettleFacts
<1>1. /\ at' = [at EXCEPT ![w] = "idle"] /\ on' = [on EXCEPT ![w] = NoJob]
      /\ UNCHANGED <<faults, effectFaults, added, kind, processed, effects>>
      /\ \/ lock[j] # w /\ UNCHANGED <<bull, lock>>
         \/ /\ lock[j] = w /\ lock' = [lock EXCEPT ![j] = NoWorker] /\ bull[j] = "active"
            /\ \/ bull' = [bull EXCEPT ![j] = "completed"]
               \/ bull' = [bull EXCEPT ![j] = "failed"]
               \/ at[w] = "thrown" /\ bull' = [bull EXCEPT ![j] = "waiting"]
  BY SettleFacts DEF dataVars
<1>2. /\ at \in [Workers -> Points] /\ on \in [Workers -> Jobs \cup {NoJob}]
      /\ bull \in [Jobs -> BullStates] /\ lock \in [Jobs -> Workers \cup {NoWorker}]
      /\ effects \in [Jobs -> Nat]
  BY DEF CoreInv, TypeOK, ExecutionTypeOK, QueueTypeOK
<1>3. ASSUME NEW k \in Jobs PROVE BeforeAdded(k)'
  <2>1. BeforeAdded(k)
    BY DEF RepeatInv
  <2> QED BY <1>1, <1>2, <2>1, ExecutionBoundsAssumption DEF BeforeAdded
<1>4. ASSUME NEW k \in Jobs PROVE Counted(k)'
  <2>1. Counted(k) /\ Allowed(k)' = Allowed(k) /\ Allowed(k) \in Nat
    BY <1>1, CountTypes DEF RepeatInv, Allowed, TotalFaults, CoreInv
  <2>2. Pending(k)' \subseteq Pending(k) /\ w \notin Pending(k)'
    BY <1>1, <1>2, QueueAssumption, ExecutionBoundsAssumption DEF Pending
  <2>3. Ahead(k)' <= Ahead(k) + Counts(w, k) /\ Ahead(k)' \in {0, 1} /\ Ahead(k) \in {0, 1}
    <3>1. CASE k = j
      BY <1>1, <1>2, <3>1, QueueAssumption DEF Ahead, Counts, Pending
    <3>2. CASE k # j
      BY <1>1, <1>2, <3>2 DEF Ahead, Counts
    <3> QED BY <3>1, <3>2
  <2>4. Counts(w, k)' = 0 /\ Counts(w, k) \in Nat /\ effects[k] \in Nat
    BY <1>2, <2>2 DEF Counts
  <2>5. effects'[k] + Counts(w, k)' + Ahead(k)' + Allowed(k)
          <= effects[k] + Counts(w, k) + Ahead(k) + Allowed(k)'
    BY <1>1, <2>1, <2>3, <2>4
  <2> QED BY <2>1, <2>2, <2>5, CountStep DEF CoreInv
<1> QED BY <1>3, <1>4 DEF RepeatInv

\* Repeats: a lost lock lets its job be executed once more.
LEMMA LossRepeat ==
  ASSUME CoreInv, CoreInv', RepeatInv,
         \/ \E w \in Workers : Crash(w)
         \/ \E j \in Jobs : LockLost(j)
  PROVE  RepeatInv'
<1>1. /\ UNCHANGED <<effectFaults, added, kind, processed, effects>>
      /\ faults' = [faults EXCEPT !.loss = faults.loss + 1]
  BY DEF Crash, LockLost, Die, LoseLock, dataVars
<1>2. /\ at \in [Workers -> Points] /\ on \in [Workers -> Jobs \cup {NoJob}]
      /\ bull \in [Jobs -> BullStates] /\ lock \in [Jobs -> Workers \cup {NoWorker}]
      /\ \A k \in Jobs : lock[k] # NoWorker => bull[k] = "active"
  BY DEF CoreInv, TypeOK, ExecutionTypeOK, QueueTypeOK
<1>3. \A k \in Jobs : lock'[k] \in {lock[k], NoWorker} /\ (bull[k] = "unknown" => bull'[k] = "unknown")
  BY <1>2 DEF Crash, LockLost, Die, LoseLock, Stall
<1>4. \A v \in Workers : (UNCHANGED <<at[v], on[v]>>) \/ (at'[v] = "idle" /\ on'[v] = NoJob)
  BY <1>2 DEF Crash, LockLost, Die, LoseLock, Idle, Goto, executionVars
<1>5. ASSUME NEW k \in Jobs PROVE BeforeAdded(k)'
  <2>1. BeforeAdded(k)
    BY DEF RepeatInv
  <2> QED BY <1>1, <1>3, <1>4, <2>1, ExecutionBoundsAssumption DEF BeforeAdded
<1>6. ASSUME NEW k \in Jobs PROVE Counted(k)'
  <2>1. Pending(k)' \subseteq Pending(k)
    BY <1>1, <1>3, <1>4, QueueAssumption, ExecutionBoundsAssumption DEF Pending
  <2>2. Allowed(k)' = Allowed(k) + 1 /\ Allowed(k) \in Nat
    <3>1. /\ effectFaults \in Nat /\ faults.call \in Nat /\ faults.loss \in Nat
          /\ faults'.call = faults.call /\ faults'.loss = faults.loss + 1 /\ added[k] \in Nat
      BY <1>1, EffectBoundAssumption, ExecutionBoundsAssumption DEF CoreInv, TypeOK, ExecutionTypeOK
    <3> QED BY <1>1, <3>1 DEF Allowed, TotalFaults
  <2>3. Ahead(k)' \in {0, 1} /\ Ahead(k) \in {0, 1}
    BY DEF Ahead
  <2>4. Ahead(k)' + Allowed(k) <= Ahead(k) + Allowed(k)'
    BY <2>2, <2>3
  <2> QED BY <1>1, <2>1, <2>4, QuietCount DEF CoreInv, RepeatInv
<1> QED BY <1>5, <1>6 DEF RepeatInv

\* Repeats: the stalled-job check, and a completed job that Redis forgets.
LEMMA ReturnRepeat ==
  ASSUME CoreInv, CoreInv', RepeatInv, NEW j \in Jobs, Recover(j) \/ Evict(j)
  PROVE  RepeatInv'
<1>1. /\ UNCHANGED <<at, on, faults, effectFaults, added, kind, processed, effects>>
      /\ bull[j] \in {"active", "completed"}
  BY DEF Recover, Evict, Rescue, Forget, Stall, Remove, executionVars, dataVars
<1>2. bull \in [Jobs -> BullStates] /\ lock \in [Jobs -> Workers \cup {NoWorker}]
  BY DEF CoreInv, TypeOK, ExecutionTypeOK, QueueTypeOK
<1>3. /\ lock' = lock /\ \A k \in Jobs \ {j} : bull'[k] = bull[k]
      /\ \/ bull[j] = "active" /\ lock[j] = NoWorker
         \/ bull'[j] = "unknown"
  BY <1>2 DEF Recover, Evict, Rescue, Forget, Stall, Remove
<1>4. ASSUME NEW k \in Jobs PROVE BeforeAdded(k)'
  <2>1. BeforeAdded(k)
    BY DEF RepeatInv
  <2> QED BY <1>1, <1>3, <2>1 DEF BeforeAdded
<1>5. ASSUME NEW k \in Jobs PROVE Counted(k)'
  <2>1. Pending(k)' \subseteq Pending(k)
    BY <1>1, <1>3 DEF Pending
  <2>2. Ahead(k)' <= Ahead(k) /\ Ahead(k)' \in {0, 1} /\ Ahead(k) \in {0, 1}
    BY <1>1, <1>3 DEF Ahead
  <2>3. Allowed(k)' = Allowed(k) /\ Allowed(k) \in Nat
    BY <1>1, CountTypes DEF CoreInv, Allowed, TotalFaults
  <2>4. Ahead(k)' + Allowed(k) <= Ahead(k) + Allowed(k)'
    BY <2>2, <2>3
  <2> QED BY <1>1, <2>1, <2>4, QuietCount DEF CoreInv, RepeatInv
<1> QED BY <1>4, <1>5 DEF RepeatInv

\* Repeats: the outbox adds a job.  The first time nothing has happened to it; after that
\* the register knows the event, or the handler has no register and may repeat the effect.
LEMMA DispatchRepeat ==
  ASSUME CoreInv, CoreInv', RepeatInv, NEW j \in Jobs, Dispatch(j)
  PROVE  RepeatInv'
<1>1. /\ UNCHANGED <<lock, at, on, faults, effectFaults, kind, processed, effects>>
      /\ bull[j] = "unknown" /\ bull' = [bull EXCEPT ![j] = "waiting"]
      /\ added' = [added EXCEPT ![j] = added[j] + 1]
  BY DEF Dispatch, Readd, Add, executionVars, dataVars
<1>2. /\ bull \in [Jobs -> BullStates] /\ effects \in [Jobs -> Nat]
      /\ added \in [Jobs -> Nat]
  BY ExecutionBoundsAssumption DEF CoreInv, TypeOK, ExecutionTypeOK, QueueTypeOK
<1>3. ASSUME NEW k \in Jobs PROVE BeforeAdded(k)'
  <2>1. BeforeAdded(k)
    BY DEF RepeatInv
  <2> QED BY <1>1, <1>2, <2>1 DEF BeforeAdded
<1>4. ASSUME NEW k \in Jobs \ {j} PROVE Counted(k)'
  <2>1. Pending(k)' \subseteq Pending(k) /\ Ahead(k)' = Ahead(k) /\ Ahead(k) \in {0, 1}
    BY <1>1, <1>2 DEF Pending, Ahead
  <2>2. Allowed(k)' = Allowed(k) /\ Allowed(k) \in Nat
    BY <1>1, <1>2, CountTypes DEF CoreInv, Allowed, TotalFaults
  <2>3. Ahead(k)' + Allowed(k) <= Ahead(k) + Allowed(k)'
    BY <2>1, <2>2
  <2> QED BY <1>1, <2>1, <2>3, QuietCount DEF CoreInv, RepeatInv
<1>5. Counted(j)'
  <2>1. Pending(j)' = Pending(j) /\ Ahead(j) = 0 /\ Ahead(j)' \in {0, 1}
    BY <1>1 DEF Pending, Ahead
  <2>2. TotalFaults \in Nat /\ Allowed(j) \in Nat
    <3>1. effectFaults \in Nat /\ faults.call \in Nat /\ faults.loss \in Nat
      BY EffectBoundAssumption, ExecutionBoundsAssumption DEF CoreInv, TypeOK, ExecutionTypeOK
    <3> QED BY <3>1, CountTypes DEF CoreInv, TotalFaults
  <2>3. CASE added[j] = 0
    <3>1. Pending(j) = {} /\ effects[j] = 0
      BY <2>3 DEF RepeatInv, BeforeAdded, Pending
    <3>2. Allowed(j)' >= 1 /\ Allowed(j)' \in Nat
      BY <1>1, <1>2, <2>2, <2>3 DEF Allowed, TotalFaults
    <3>3. Cardinality(Pending(j)') = 0
      BY <2>1, <3>1, FS_EmptySet
    <3> QED BY <1>1, <2>1, <3>1, <3>2, <3>3 DEF Counted
  <2>4. CASE added[j] > 0 /\ Register(kind[j])
    <3>1. j \in processed
      BY <1>1, <2>4 DEF CoreInv, ProcessedInv
    <3>2. Ahead(j)' = 0 /\ Allowed(j)' = Allowed(j)
      BY <1>1, <2>4, <3>1 DEF Ahead, Allowed, TotalFaults
    <3>3. Ahead(j)' + Allowed(j) <= Ahead(j) + Allowed(j)'
      BY <2>1, <2>2, <3>2
    <3> QED BY <1>1, <2>1, <3>3, QuietCount DEF CoreInv, RepeatInv
  <2>5. CASE added[j] > 0 /\ ~ Register(kind[j])
    <3>1. added'[j] = added[j] + 1 /\ added[j] \in Nat \ {0} /\ TotalFaults' = TotalFaults
      BY <1>1, <1>2, <2>5 DEF TotalFaults
    <3>2. Allowed(j)' = Allowed(j) + 1
      BY <1>1, <2>2, <2>5, <3>1 DEF Allowed
    <3>3. Ahead(j)' + Allowed(j) <= Ahead(j) + Allowed(j)'
      BY <2>1, <2>2, <3>2
    <3> QED BY <1>1, <2>1, <3>3, QuietCount DEF CoreInv, RepeatInv
  <2> QED BY <1>2, <2>3, <2>4, <2>5
<1> QED BY <1>3, <1>4, <1>5 DEF RepeatInv

\* Repeats: every step.
LEMMA RepeatStep ==
  ASSUME CoreInv, CoreInv', RepeatInv, [Next]_vars PROVE RepeatInv'
<1>1. CASE UNCHANGED vars
  BY <1>1 DEF RepeatInv, BeforeAdded, Counted, Pending, Ahead, Allowed, TotalFaults, vars, queue,
     executionVars, dataVars
<1> QED BY <1>1, MoveRepeat, StartRepeat, ReportRepeat, LossRepeat, ReturnRepeat, DispatchRepeat
        DEF Next, WorkerStep, Move

-------------------------------------------------------------------------------
(* The theorems                                                            *)

Inv == CoreInv /\ RepeatInv /\ (faults.loss = 0 => QuietInv)

\* The invariant that all others follow from.
THEOREM Invariance == Spec => []Inv
<1>1. Init => Inv
  BY InitInv DEF Inv
<1>2. Inv /\ [Next]_vars => Inv'
  <2> SUFFICES ASSUME Inv, [Next]_vars PROVE Inv'
    OBVIOUS
  <2>1. CoreInv'
    BY CoreStep DEF Inv
  <2>2. RepeatInv'
    BY <2>1, RepeatStep DEF Inv
  <2>3. faults'.loss = 0 => QuietInv'
    BY <2>1, QuietStep DEF Inv
  <2> QED BY <2>1, <2>2, <2>3 DEF Inv
<1> QED BY <1>1, <1>2, PTL DEF Spec

\* Every variable keeps its type: attemptsMade, for instance, never exceeds the attempts
\* that the dispatcher gives to queue.add.
THEOREM TypeCorrectness == Spec => []TypeOK
<1>1. Inv => TypeOK
  BY DEF Inv, CoreInv
<1> QED BY <1>1, Invariance, PTL

\* A mail is sent again, or an export generated again, only for a failure of its own, or
\* when the outbox adds the job of a handler without a register again.
THEOREM RepeatsCounted == Spec => []RepeatsAccounted
<1>1. Inv => RepeatsAccounted
  <2> SUFFICES ASSUME Inv, NEW j \in Jobs PROVE effects[j] <= Allowed(j)
    BY DEF RepeatsAccounted, Allowed
  <2>1. /\ effects[j] \in Nat /\ Ahead(j) \in {0, 1} /\ Allowed(j) \in Nat
        /\ Cardinality(Pending(j)) \in Nat
    BY CountTypes DEF Inv, CoreInv
  <2>2. effects[j] + Cardinality(Pending(j)) + Ahead(j) <= Allowed(j)
    BY DEF Inv, RepeatInv, Counted
  <2> QED BY <2>1, <2>2
<1> QED BY <1>1, Invariance, PTL

\* While no lock is lost, the record of a completed job says DONE and its effect was
\* carried out, however many updates were rejected on the way.
THEOREM CompletedJobsDone == Spec => []CompletedMeansDone
<1>1. Inv => CompletedMeansDone
  BY DEF Inv, QuietInv, OutcomeInv, CompletedMeansDone
<1> QED BY <1>1, Invariance, PTL

\* While no lock is lost, a job that only its effect failed is in the dead-letter queue with
\* its record FAILED, and a job in there is not tried again.
THEOREM DeadLettersAgree == Spec => []DeadLetterAgrees
<1>1. Inv => DeadLetterAgrees
  BY DEF Inv, QuietInv, OutcomeInv, GivenUp, DeadLetterAgrees
<1> QED BY <1>1, Invariance, PTL
===============================================================================
