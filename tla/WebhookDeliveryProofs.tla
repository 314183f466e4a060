------------------------- MODULE WebhookDeliveryProofs --------------------------
(***************************************************************************)
(* Safety of WebhookDelivery for every number of jobs, executions,         *)
(* webhooks and failures.  An execution knows little: the document it is   *)
(* about to update may have been passed by those of other executions, and  *)
(* it may have lost its lock.  What it can rely on is that a SUCCESS, once *)
(* it was read or written, stands for a POST that arrived; the inductive   *)
(* invariant follows this fact from the POST to the processed event.  A    *)
(* second invariant is about behaviours in which only POSTs fail, where    *)
(* the executions of a job do not overlap.                                 *)
(***************************************************************************)
EXTENDS WebhookDelivery, TLAPS

\* Of a job that BullMQ still executes, an attempt is left.
AttemptLeft ==
  \A j \in Jobs : bull[j] \in {"waiting", "active"} => made[j] < MaxJobAttempts

\* Nothing happens to an event before the outbox has added its job.
AddedFirst ==
  /\ \A j \in Jobs : bull[j] # "unknown" \/ j \in processed => added[j] > 0
  /\ \A w \in Workers : at[w] # "idle" => added[on[w]] > 0

\* Every webhook that was registered when j was added has received it.
KnownReceived(j) == \A h \in known[j] : received[j][h] > 0

\* What execution w knows about webhook h.
DeliveryInv(w, h) ==
  /\ step[w][h] # "none" => at[w] = "deliver"
  /\ at[w] = "deliver" /\ h \in known[on[w]] => step[w][h] # "none"
  /\ step[w][h] \in {"success", "fulfilled"} => received[on[w]][h] > 0

ReceiptInv ==
  /\ \A j \in Jobs : known[j] \subseteq active
  /\ \A j \in Jobs, h \in Hooks : Delivered(j, h) => received[j][h] > 0
  /\ \A w \in Workers, h \in Hooks : DeliveryInv(w, h)
  /\ \A w \in Workers : at[w] = "mark" => KnownReceived(on[w])
  /\ \A j \in processed : KnownReceived(j)

Inv == TypeOK /\ AttemptLeft /\ AddedFirst /\ ReceiptInv

\* The invariant in three parts: the queue and the executions, the types of the
\* rest, and what is known of the POSTs.
ExecutionInv == ExecutionTypeOK(Points) /\ AttemptLeft /\ AddedFirst

DeliveryTypeOK ==
  /\ active \subseteq Hooks
  /\ step \in [Workers -> [Hooks -> Steps]]
  /\ row \in [Workers -> [Hooks -> Nat]]
  /\ deliveries \in [Jobs -> [Hooks -> Seq(DeliveryStatus)]]
  /\ \A w \in Workers, h \in Hooks :
       step[w][h] \in {"post", "refused", "success", "failed"}
         => row[w][h] \in DOMAIN deliveries[on[w]][h]
  /\ processed \subseteq Jobs /\ dlq \subseteq Jobs
  /\ received \in [Jobs -> [Hooks -> Nat]]
  /\ known \in [Jobs -> SUBSET Hooks]
  /\ postFaults \in [Hooks -> 0 .. MaxPostFaults]

\* The invariant in three parts: executions, types of the deliveries, and receipts.
LEMMA InvParts == Inv <=> ExecutionInv /\ DeliveryTypeOK /\ ReceiptInv
  BY DEF Inv, TypeOK, ExecutionInv, DeliveryTypeOK

\* The same of the next state.
LEMMA InvPartsNext == Inv' <=> ExecutionInv' /\ DeliveryTypeOK' /\ ReceiptInv'
  BY DEF Inv, TypeOK, ExecutionInv, DeliveryTypeOK

\* An execution that is under way has a job.
LEMMA UnderWay ==
  ASSUME ExecutionInv, NEW w \in Workers, at[w] # "idle"
  PROVE  on[w] \in Jobs
  BY DEF ExecutionInv, ExecutionTypeOK

\* Before the first job the invariant holds.
LEMMA InitInv == Init => Inv
<1> SUFFICES ASSUME Init PROVE ExecutionInv /\ DeliveryTypeOK /\ ReceiptInv
  BY InvParts
<1>1. ExecutionTypeOK(Points)
  BY QueueAssumption, ExecutionBoundsAssumption
     DEF Init, ExecutionInit, QueueInit, ExecutionTypeOK, QueueTypeOK, BullStates, Points
<1>2. AttemptLeft /\ AddedFirst
  BY DEF Init, ExecutionInit, QueueInit, AttemptLeft, AddedFirst
<1>3. << >> \in Seq(DeliveryStatus)
  OBVIOUS
<1>4. deliveries \in [Jobs -> [Hooks -> Seq(DeliveryStatus)]]
  BY <1>3 DEF Init
<1>5. DeliveryTypeOK
  BY <1>4, PostBoundAssumption DEF Init, DeliveryTypeOK, Steps
<1>6. ReceiptInv
  BY DEF Init, ExecutionInit, ReceiptInv, DeliveryInv, KnownReceived, Delivered
<1> QED BY <1>1, <1>2, <1>5, <1>6 DEF ExecutionInv

-------------------------------------------------------------------------------
(* The queue and the executions                                            *)

\* An execution goes to another point of process, and may register its event.
LEMMA ProceedExecution ==
  ASSUME ExecutionInv, NEW w \in Workers, at[w] # "idle",
         NEW p \in Points \ {"idle"}, Goto(w, p),
         UNCHANGED <<queue, on, attempt, added>>, CallFault \/ UNCHANGED faults,
         processed' \subseteq processed \cup {on[w]}, processed \subseteq Jobs
  PROVE  ExecutionInv'
<1>1. on[w] \in Jobs
  BY UnderWay
<1>2. faults' \in [call : 0 .. MaxCallFaults, loss : 0 .. MaxLosses]
  BY ExecutionBoundsAssumption DEF ExecutionInv, ExecutionTypeOK, CallFault
<1>3. ExecutionTypeOK(Points)'
  BY <1>1, <1>2, ExecutionBoundsAssumption
     DEF ExecutionInv, ExecutionTypeOK, QueueTypeOK, Goto, queue
<1>4. AttemptLeft' /\ AddedFirst'
  BY <1>1 DEF ExecutionInv, AttemptLeft, AddedFirst, ExecutionTypeOK, Goto, queue
<1> QED BY <1>3, <1>4 DEF ExecutionInv

\* A worker takes a job that is waiting.
LEMMA EnterExecution ==
  ASSUME ExecutionInv, NEW w \in Workers, NEW j \in Jobs, Enter(w, j, "check"),
         UNCHANGED processed
  PROVE  ExecutionInv'
<1>1. made[j] + 1 \in 0 .. MaxJobAttempts /\ bull[j] = "waiting" /\ added[j] > 0
  BY QueueAssumption
     DEF ExecutionInv, AttemptLeft, AddedFirst, ExecutionTypeOK, QueueTypeOK, Enter, Take
<1>2. QueueTypeOK'
  BY DEF ExecutionInv, ExecutionTypeOK, QueueTypeOK, BullStates, Enter, Take
<1>3. ExecutionTypeOK(Points)'
  BY <1>1, <1>2, ExecutionBoundsAssumption
     DEF ExecutionInv, ExecutionTypeOK, Points, Enter, Take, Goto
<1>4. AttemptLeft'
  BY <1>1 DEF ExecutionInv, AttemptLeft, ExecutionTypeOK, QueueTypeOK, Enter, Take
<1>5. AddedFirst'
  BY <1>1 DEF ExecutionInv, AddedFirst, ExecutionTypeOK, QueueTypeOK, Enter, Take, Goto
<1> QED BY <1>3, <1>4, <1>5 DEF ExecutionInv

\* A worker reports the outcome, which is refused if it has lost the lock.
LEMMA SettleExecution ==
  ASSUME ExecutionInv, NEW w \in Workers, Settle(w), UNCHANGED processed
  PROVE  ExecutionInv'
<1>1. on[w] \in Jobs
  BY UnderWay DEF Settle
<1>2. QueueTypeOK' /\ AttemptLeft' /\ (\A j \in Jobs : bull'[j] # "unknown" => bull[j] # "unknown")
  <2>1. CASE UNCHANGED queue
    BY <2>1 DEF ExecutionInv, ExecutionTypeOK, QueueTypeOK, AttemptLeft, queue
  <2>2. CASE lock[on[w]] = w /\ Succeed(w, on[w])
    BY <1>1, <2>2, QueueAssumption DEF ExecutionInv, ExecutionTypeOK, QueueTypeOK, BullStates,
       AttemptLeft, Succeed
  <2>3. CASE lock[on[w]] = w /\ FailAttempt(w, on[w])
    BY <1>1, <2>3, QueueAssumption DEF ExecutionInv, ExecutionTypeOK, QueueTypeOK, BullStates,
       AttemptLeft, FailAttempt
  <2> QED BY <2>1, <2>2, <2>3 DEF Settle, Succeed, FailAttempt
<1>3. ExecutionTypeOK(Points)'
  BY <1>2, ExecutionBoundsAssumption, QueueAssumption
     DEF ExecutionInv, ExecutionTypeOK, Points, Settle, Idle, Goto
<1>4. AddedFirst'
  BY <1>2 DEF ExecutionInv, AddedFirst, ExecutionTypeOK, Settle, Idle, Goto
<1> QED BY <1>2, <1>3, <1>4 DEF ExecutionInv

\* A job whose lock was not renewed is given back, or has failed.
LEMMA StallQueue ==
  ASSUME ExecutionInv, NEW j \in Jobs, Stall(j)
  PROVE  QueueTypeOK' /\ AttemptLeft' /\ (\A k \in Jobs : bull'[k] # "unknown" => bull[k] # "unknown")
  BY QueueAssumption DEF ExecutionInv, ExecutionTypeOK, QueueTypeOK, BullStates, AttemptLeft, Stall

\* A lock is lost, or BullMQ takes a stalled job back.
LEMMA LossExecution ==
  ASSUME ExecutionInv, NEW j \in Jobs, LoseLock(j) \/ Rescue(j), UNCHANGED processed
  PROVE  ExecutionInv'
<1>1. QueueTypeOK' /\ AttemptLeft' /\ (\A k \in Jobs : bull'[k] # "unknown" => bull[k] # "unknown")
  BY StallQueue DEF LoseLock, Rescue
<1>2. faults' \in [call : 0 .. MaxCallFaults, loss : 0 .. MaxLosses]
  BY ExecutionBoundsAssumption DEF ExecutionInv, ExecutionTypeOK, LoseLock, Rescue
<1>3. ExecutionTypeOK(Points)'
  BY <1>1, <1>2 DEF ExecutionInv, ExecutionTypeOK, LoseLock, Rescue, executionVars
<1>4. AddedFirst'
  BY <1>1 DEF ExecutionInv, AddedFirst, LoseLock, Rescue, executionVars
<1> QED BY <1>1, <1>3, <1>4 DEF ExecutionInv

\* A process dies; its lock will not be renewed.
LEMMA DieExecution ==
  ASSUME ExecutionInv, NEW w \in Workers, Die(w), UNCHANGED processed
  PROVE  ExecutionInv'
<1>1. QueueTypeOK' /\ AttemptLeft'
  BY DEF ExecutionInv, ExecutionTypeOK, QueueTypeOK, AttemptLeft, Die
<1>2. faults' \in [call : 0 .. MaxCallFaults, loss : 0 .. MaxLosses]
  BY ExecutionBoundsAssumption DEF ExecutionInv, ExecutionTypeOK, Die
<1>3. ExecutionTypeOK(Points)'
  BY <1>1, <1>2, QueueAssumption, ExecutionBoundsAssumption
     DEF ExecutionInv, ExecutionTypeOK, Points, Die, Idle, Goto
<1>4. AddedFirst'
  BY DEF ExecutionInv, AddedFirst, ExecutionTypeOK, Die, Idle, Goto
<1> QED BY <1>1, <1>3, <1>4 DEF ExecutionInv

\* The outbox adds the job, or Redis forgets it.
LEMMA AddExecution ==
  ASSUME ExecutionInv, NEW j \in Jobs, Readd(j) \/ Forget(j), UNCHANGED processed
  PROVE  ExecutionInv'
<1>1. QueueTypeOK'
  BY QueueAssumption
     DEF ExecutionInv, ExecutionTypeOK, QueueTypeOK, BullStates, Readd, Add, Forget, Remove
<1>2. AttemptLeft'
  BY QueueAssumption
     DEF ExecutionInv, ExecutionTypeOK, QueueTypeOK, AttemptLeft, Readd, Add, Forget, Remove
<1>3. ExecutionTypeOK(Points)'
  BY <1>1, ExecutionBoundsAssumption
     DEF ExecutionInv, ExecutionTypeOK, Readd, Forget, executionVars
<1>4. AddedFirst'
  <2>1. \A k \in Jobs : added'[k] >= added[k] /\ added[k] \in Nat
    BY ExecutionBoundsAssumption DEF ExecutionInv, ExecutionTypeOK, Readd, Forget
  <2>2. \A k \in Jobs : bull'[k] # "unknown" => bull[k] # "unknown" \/ added'[k] > 0
    BY ExecutionBoundsAssumption
       DEF ExecutionInv, ExecutionTypeOK, QueueTypeOK, Readd, Add, Forget, Remove
  <2>3. UNCHANGED <<at, on>>
    BY DEF Readd, Forget, executionVars
  <2>4. \A w \in Workers : at[w] # "idle" => on[w] \in Jobs
    BY UnderWay
  <2>5. \A k \in Jobs : added[k] > 0 => added'[k] > 0
    BY <2>1, ExecutionBoundsAssumption DEF ExecutionInv, ExecutionTypeOK, Readd, Forget
  <2> QED BY <2>2, <2>3, <2>4, <2>5 DEF ExecutionInv, AddedFirst
<1> QED BY <1>2, <1>3, <1>4 DEF ExecutionInv
-------------------------------------------------------------------------------
(* The steps of process                                                    *)

\* Outside deliver nothing is under way with any webhook.
LEMMA NothingUnderWay ==
  ASSUME Inv, NEW w \in Workers, at[w] # "deliver", NEW h \in Hooks
  PROVE  step[w][h] = "none"
  BY DEF Inv, ReceiptInv, DeliveryInv

\* The execution begins: nothing is known yet.
LEMMA StartInv ==
  ASSUME Inv, NEW w \in Workers, NEW j \in Jobs, Start(w, j) PROVE Inv'
<1>1. ExecutionInv'
  BY EnterExecution, InvParts DEF Start, registerVars
<1>2. at[w] = "idle" /\ on' = [on EXCEPT ![w] = j] /\ at' = [at EXCEPT ![w] = "check"]
  BY DEF Start, Enter, Goto
<1>3. \A h \in Hooks : step[w][h] = "none"
  BY <1>2, NothingUnderWay
<1>4. UNCHANGED <<active, step, deliveries, row, received, postFaults, processed, dlq, known>>
  BY DEF Start, deliveryVars, registerVars
<1>5. at \in [Workers -> Points] /\ on \in [Workers -> Jobs \cup {NoJob}]
  BY DEF Inv, TypeOK, ExecutionTypeOK
<1>6. DeliveryTypeOK'
  BY <1>2, <1>3, <1>4, <1>5, InvParts DEF DeliveryTypeOK
<1>7. ReceiptInv'
  BY <1>2, <1>3, <1>4, <1>5 DEF Inv, ReceiptInv, DeliveryInv, KnownReceived, Delivered
<1> QED BY <1>1, <1>6, <1>7, InvPartsNext

\* A step of process that leaves the deliveries alone.  The event is registered at
\* "mark" only.
LEMMA MoveInv ==
  ASSUME Inv, NEW w \in Workers, at[w] \notin {"idle", "deliver"},
         NEW p \in Points \ {"idle", "deliver", "mark"}, Goto(w, p),
         UNCHANGED <<queue, on, attempt, added>>, CallFault \/ UNCHANGED faults,
         UNCHANGED <<active, deliveryVars, known>>,
         processed' = processed \/ (at[w] = "mark" /\ processed' = processed \cup {on[w]}),
         dlq' \subseteq dlq \cup {on[w]}
  PROVE  Inv'
<1>1. on[w] \in Jobs
  BY UnderWay, InvParts
<1>2. ExecutionInv'
  BY ProceedExecution, InvParts DEF Inv, TypeOK
<1>3. DeliveryTypeOK'
  BY <1>1, InvParts DEF DeliveryTypeOK, deliveryVars
<1>4. ReceiptInv'
  BY <1>1 DEF Inv, TypeOK, ExecutionTypeOK, ReceiptInv, DeliveryInv, KnownReceived, Delivered,
     Goto, deliveryVars
<1> QED BY <1>2, <1>3, <1>4, InvPartsNext

\* process before and after the deliveries, with its catch block and rejected calls.
LEMMA ProcessInv ==
  ASSUME Inv, NEW w \in Workers,
         Check(w) \/ Mark(w) \/ Handle(w) \/ DeadLetter(w) \/ CallRejected(w)
  PROVE  Inv'
<1> USE DEF Points
<1>1. CASE Check(w)
  BY <1>1, MoveInv DEF Check, Only, Proceed, registerVars
<1>2. CASE Mark(w)
  BY <1>2, MoveInv DEF Mark, Only, Proceed
<1>3. CASE Handle(w)
  BY <1>3, MoveInv DEF Handle, Only, Proceed, registerVars
<1>4. CASE DeadLetter(w)
  BY <1>4, MoveInv DEF DeadLetter, Only, Proceed
<1>5. CASE CallRejected(w)
  BY <1>5, MoveInv DEF CallRejected, registerVars
<1> QED BY <1>1, <1>2, <1>3, <1>4, <1>5

\* A delivery is started for every active webhook, and so for every known one.
LEMMA FindHooksInv == ASSUME Inv, NEW w \in Workers, FindHooks(w) PROVE Inv'
<1>1. on[w] \in Jobs
  BY UnderWay, InvParts DEF FindHooks
<1>2. ExecutionInv'
  BY ProceedExecution, InvParts
     DEF FindHooks, Only, Proceed, Points, registerVars, Inv, TypeOK
<1>3. DeliveryTypeOK'
  BY InvParts DEF DeliveryTypeOK, FindHooks, Only, Proceed, registerVars, Steps
<1>4. ReceiptInv'
  BY <1>1 DEF Inv, TypeOK, ExecutionTypeOK, ReceiptInv, DeliveryInv, KnownReceived, Delivered,
     FindHooks, Only, Proceed, Goto, registerVars
<1> QED BY <1>2, <1>3, <1>4, InvPartsNext

\* If no delivery was rejected, all were fulfilled, those of the known webhooks too.
LEMMA GatherInv == ASSUME Inv, NEW w \in Workers, Gather(w) PROVE Inv'
<1>1. on[w] \in Jobs
  BY UnderWay, InvParts DEF Gather
<1>2. ExecutionInv'
  BY ProceedExecution, InvParts
     DEF Gather, Only, Proceed, Points, registerVars, Inv, TypeOK
<1>3. DeliveryTypeOK'
  BY InvParts DEF DeliveryTypeOK, Gather, DropDeliveries, Only, Proceed, registerVars, Steps
<1>4. at'[w] = "mark" => KnownReceived(on[w])
  <2> SUFFICES ASSUME at'[w] = "mark", NEW h \in known[on[w]]
               PROVE  received[on[w]][h] > 0
    BY DEF KnownReceived
  <2>1. h \in Hooks
    BY <1>1 DEF Inv, TypeOK
  <2>2. step[w][h] # "rejected"
    BY <2>1 DEF Gather, Only, Proceed, Goto, Inv, TypeOK, ExecutionTypeOK
  <2>3. step[w][h] # "none"
    BY <2>1 DEF Gather, Inv, ReceiptInv, DeliveryInv
  <2>4. step[w][h] = "fulfilled"
    BY <2>1, <2>2, <2>3 DEF Gather, AllSettled, Settled
  <2> QED BY <2>1, <2>4 DEF Inv, ReceiptInv, DeliveryInv
<1>5. at' = [at EXCEPT ![w] = at'[w]] /\ at'[w] # "deliver"
  BY DEF Gather, Only, Proceed, Goto, Inv, TypeOK, ExecutionTypeOK
<1>6. UNCHANGED <<on, active, deliveries, received, processed, known>>
  BY DEF Gather, Only, Proceed, registerVars
<1>7. \A v \in Workers, h \in Hooks : DeliveryInv(v, h)'
  BY <1>5, <1>6 DEF Inv, TypeOK, ExecutionTypeOK, ReceiptInv, DeliveryInv, Gather, DropDeliveries
<1>8. ReceiptInv'
  BY <1>4, <1>5, <1>6, <1>7 DEF Inv, TypeOK, ExecutionTypeOK, ReceiptInv, KnownReceived, Delivered
<1> QED BY <1>2, <1>3, <1>8, InvPartsNext

\* The execution is over, and what it knew is dropped.
LEMMA EndInv ==
  ASSUME Inv, NEW w \in Workers, Report(w) \/ Crash(w) PROVE Inv'
<1>1. ExecutionInv'
  BY SettleExecution, DieExecution, InvParts DEF Report, Crash, registerVars
<1>2. /\ at' = [at EXCEPT ![w] = "idle"] /\ on' = [on EXCEPT ![w] = NoJob]
      /\ UNCHANGED <<active, deliveries, received, postFaults, processed, dlq, known>>
  BY DEF Report, Crash, Settle, Die, Idle, Goto, deliveryVars, registerVars
<1>3. /\ step' \in [Workers -> [Hooks -> Steps]] /\ row' \in [Workers -> [Hooks -> Nat]]
      /\ \A h \in Hooks : step'[w][h] = "none"
      /\ \A v \in Workers \ {w} : step'[v] = step[v] /\ row'[v] = row[v]
  <2>1. CASE Report(w)
    <3>1. UNCHANGED <<step, row>> /\ at[w] # "deliver"
      BY <2>1 DEF Report, Settle, deliveryVars
    <3> QED BY <3>1, NothingUnderWay DEF Inv, TypeOK
  <2>2. CASE Crash(w)
    BY <2>2 DEF Crash, DropDeliveries, Inv, TypeOK, Steps
  <2> QED BY <2>1, <2>2
<1>4. at \in [Workers -> Points] /\ on \in [Workers -> Jobs \cup {NoJob}]
  BY DEF Inv, TypeOK, ExecutionTypeOK
<1>5. DeliveryTypeOK'
  BY <1>2, <1>3, <1>4, InvParts DEF DeliveryTypeOK
<1>6. ReceiptInv'
  BY <1>2, <1>3, <1>4, SMTT(30) DEF Inv, ReceiptInv, DeliveryInv, KnownReceived, Delivered
<1> QED BY <1>1, <1>5, <1>6, InvPartsNext

-------------------------------------------------------------------------------
(* The surroundings                                                        *)

\* Lost locks, stalled jobs and jobs that are forgotten leave the deliveries alone.
LEMMA LossInv ==
  ASSUME Inv, NEW j \in Jobs, LockLost(j) \/ Recover(j) \/ Evict(j) PROVE Inv'
<1>1. ExecutionInv'
  BY LossExecution, AddExecution, InvParts DEF LockLost, Recover, Evict, registerVars
<1>2. UNCHANGED <<at, on, active, deliveryVars, registerVars, known>>
  BY DEF LockLost, Recover, Evict, LoseLock, Rescue, Forget, executionVars
<1>3. DeliveryTypeOK'
  BY <1>2, InvParts DEF DeliveryTypeOK, deliveryVars, registerVars
<1>4. ReceiptInv'
  BY <1>2 DEF Inv, ReceiptInv, DeliveryInv, KnownReceived, Delivered, deliveryVars, registerVars
<1> QED BY <1>1, <1>3, <1>4, InvPartsNext

\* When the job is added first, no execution and no registration knows it.
LEMMA DispatchInv == ASSUME Inv, NEW j \in Jobs, Dispatch(j) PROVE Inv'
<1>1. ExecutionInv'
  BY AddExecution, InvParts DEF Dispatch, registerVars
<1>2. UNCHANGED <<at, on, active, deliveryVars, registerVars>>
  BY DEF Dispatch, Readd, executionVars
<1>3. DeliveryTypeOK'
  BY <1>2, InvParts DEF DeliveryTypeOK, deliveryVars, registerVars, Dispatch
<1>4. \A i \in Jobs : added[i] > 0 => known'[i] = known[i]
  BY DEF Dispatch, Inv, TypeOK
<1>5. \A i \in Jobs : known'[i] \subseteq active'
  BY <1>2 DEF Dispatch, Inv, TypeOK, ReceiptInv
<1>6. \A w \in Workers : at[w] # "idle" => on[w] \in Jobs /\ added[on[w]] > 0
  BY UnderWay, InvParts DEF Inv, AddedFirst
<1>7. \A i \in processed : i \in Jobs /\ added[i] > 0
  BY DEF Inv, TypeOK, AddedFirst
<1>8. ReceiptInv'
  BY <1>2, <1>4, <1>5, <1>6, <1>7
     DEF Inv, ReceiptInv, DeliveryInv, KnownReceived, Delivered, deliveryVars, registerVars
<1> QED BY <1>1, <1>3, <1>8, InvPartsNext

\* A webhook that is registered later is not among the known ones.
LEMMA RegisterInv == ASSUME Inv, NEW h \in Hooks, Register(h) PROVE Inv'
<1>1. ExecutionInv'
  BY InvParts DEF ExecutionInv, ExecutionTypeOK, QueueTypeOK, AttemptLeft, AddedFirst,
     Register, queue, executionVars, registerVars
<1>2. DeliveryTypeOK'
  BY InvParts DEF DeliveryTypeOK, Register, executionVars, deliveryVars, registerVars
<1>3. ReceiptInv'
  BY DEF Inv, ReceiptInv, DeliveryInv, KnownReceived, Delivered, Register, executionVars,
     deliveryVars, registerVars
<1> QED BY <1>1, <1>2, <1>3, InvPartsNext
-------------------------------------------------------------------------------
(* The steps of deliver                                                    *)

\* A delivery goes to step s.  Documents are only added, what was received stays
\* received, and a SUCCESS that is new, or the success of s, stands for a POST.
LEMMA DeliveryMoveInv ==
  ASSUME Inv, NEW w \in Workers, NEW h \in Hooks, at[w] = "deliver", step[w][h] # "none",
         UNCHANGED <<queue, executionVars, added, active, registerVars, known>>,
         CallFault \/ UNCHANGED faults,
         NEW s \in Steps \ {"none"}, StepTo(w, h, s),
         deliveries' \in [Jobs -> [Hooks -> Seq(DeliveryStatus)]],
         \A j \in Jobs, k \in Hooks : DOMAIN deliveries[j][k] \subseteq DOMAIN deliveries'[j][k],
         row' \in [Workers -> [Hooks -> Nat]],
         \A v \in Workers, k \in Hooks : v # w \/ k # h => row'[v][k] = row[v][k],
         s \in {"post", "refused", "success", "failed"}
           => row'[w][h] \in DOMAIN deliveries'[on[w]][h],
         received' \in [Jobs -> [Hooks -> Nat]],
         \A j \in Jobs, k \in Hooks : received[j][k] > 0 => received'[j][k] > 0,
         postFaults' \in [Hooks -> 0 .. MaxPostFaults],
         \A j \in Jobs, k \in Hooks :
           Delivered(j, k)' => Delivered(j, k) \/ received'[j][k] > 0,
         s \in {"success", "fulfilled"} => received'[on[w]][h] > 0
  PROVE  Inv'
<1>1. on[w] \in Jobs /\ \A v \in Workers : at[v] # "idle" => on[v] \in Jobs
  BY UnderWay, InvParts
<1>2. faults' \in [call : 0 .. MaxCallFaults, loss : 0 .. MaxLosses]
  BY ExecutionBoundsAssumption DEF Inv, TypeOK, ExecutionTypeOK, CallFault
<1>3. ExecutionInv'
  BY <1>2, InvParts DEF ExecutionInv, ExecutionTypeOK, QueueTypeOK, AttemptLeft, AddedFirst,
     queue, executionVars, registerVars
<1>4. /\ step' \in [Workers -> [Hooks -> Steps]] /\ step'[w][h] = s
      /\ \A v \in Workers, k \in Hooks : v # w \/ k # h => step'[v][k] = step[v][k]
  BY DEF Inv, TypeOK, StepTo
<1>5. UNCHANGED <<at, on, active, processed, dlq, known>>
  BY DEF executionVars, registerVars
<1>6. \A v \in Workers, k \in Hooks : step[v][k] # "none" => on[v] \in Jobs
  BY <1>1, NothingUnderWay
<1>7. ASSUME NEW v \in Workers, NEW k \in Hooks,
             step'[v][k] \in {"post", "refused", "success", "failed"}
      PROVE  row'[v][k] \in DOMAIN deliveries'[on'[v]][k]
  <2>1. CASE v = w /\ k = h
    BY <2>1, <1>4, <1>5, <1>7
  <2>2. CASE v # w \/ k # h
    <3>1. step[v][k] \in {"post", "refused", "success", "failed"} /\ on[v] \in Jobs
      BY <2>2, <1>4, <1>6, <1>7
    <3>2. row[v][k] \in DOMAIN deliveries[on[v]][k]
      BY <3>1 DEF Inv, TypeOK
    <3> QED BY <2>2, <3>1, <3>2, <1>5
  <2> QED BY <2>1, <2>2
<1>8. DeliveryTypeOK'
  BY <1>4, <1>5, <1>7, InvParts DEF DeliveryTypeOK
<1>9. \A v \in Workers, k \in Hooks : DeliveryInv(v, k)'
  <2> SUFFICES ASSUME NEW v \in Workers, NEW k \in Hooks PROVE DeliveryInv(v, k)'
    OBVIOUS
  <2>1. DeliveryInv(v, k)
    BY DEF Inv, ReceiptInv
  <2>2. CASE v = w /\ k = h
    BY <2>1, <2>2, <1>4, <1>5 DEF DeliveryInv
  <2>3. CASE v # w \/ k # h
    BY <2>1, <2>3, <1>4, <1>5, <1>6 DEF DeliveryInv
  <2> QED BY <2>2, <2>3
<1>10. \A j \in Jobs : KnownReceived(j) => KnownReceived(j)'
  BY <1>5 DEF KnownReceived, Inv, TypeOK
<1>11. \A j \in Jobs, k \in Hooks : Delivered(j, k)' => received'[j][k] > 0
  BY DEF Inv, ReceiptInv
<1>12. processed \subseteq Jobs
  BY DEF Inv, TypeOK
<1>13. ReceiptInv'
  BY <1>1, <1>5, <1>9, <1>10, <1>11, <1>12 DEF Inv, ReceiptInv
<1> QED BY <1>3, <1>8, <1>13, InvPartsNext

\* What SetStatus and a new document do to the documents.
LEMMA StatusSet ==
  ASSUME Inv, NEW w \in Workers, NEW h \in Hooks, on[w] \in Jobs,
         NEW s \in DeliveryStatus, SetStatus(w, h, s),
         row[w][h] \in DOMAIN deliveries[on[w]][h]
  PROVE  /\ deliveries' \in [Jobs -> [Hooks -> Seq(DeliveryStatus)]]
         /\ \A j \in Jobs, k \in Hooks : DOMAIN deliveries'[j][k] = DOMAIN deliveries[j][k]
         /\ \A j \in Jobs, k \in Hooks : Delivered(j, k)' =>
              Delivered(j, k) \/ (j = on[w] /\ k = h /\ s = "SUCCESS")
<1> DEFINE d == deliveries[on[w]][h]
           e == [d EXCEPT ![row[w][h]] = s]
<1>1. d \in Seq(DeliveryStatus)
  BY DEF Inv, TypeOK
<1>2. e \in Seq(DeliveryStatus) /\ DOMAIN e = DOMAIN d
  BY <1>1
<1>3. \A n \in DOMAIN e : e[n] = "SUCCESS" => d[n] = "SUCCESS" \/ s = "SUCCESS"
  BY <1>1, <1>2
<1>4. deliveries' = [deliveries EXCEPT ![on[w]][h] = e]
  BY DEF SetStatus
<1> HIDE DEF d, e
<1>5. /\ deliveries'[on[w]][h] = e
      /\ \A j \in Jobs, k \in Hooks : j # on[w] \/ k # h => deliveries'[j][k] = deliveries[j][k]
      /\ deliveries' \in [Jobs -> [Hooks -> Seq(DeliveryStatus)]]
  BY <1>2, <1>4 DEF Inv, TypeOK
<1>6. deliveries[on[w]][h] = d
  BY DEF d
<1>7. ASSUME NEW j \in Jobs, NEW k \in Hooks
      PROVE  /\ DOMAIN deliveries'[j][k] = DOMAIN deliveries[j][k]
             /\ Delivered(j, k)' => Delivered(j, k) \/ (j = on[w] /\ k = h /\ s = "SUCCESS")
  <2>1. CASE j = on[w] /\ k = h
    <3>1. deliveries'[j][k] = e /\ deliveries[j][k] = d
      BY <1>5, <1>6, <2>1
    <3> QED BY <1>2, <1>3, <2>1, <3>1 DEF Delivered
  <2>2. CASE j # on[w] \/ k # h
    <3>1. deliveries'[j][k] = deliveries[j][k]
      BY <1>5, <2>2
    <3> QED BY <3>1 DEF Delivered
  <2> QED BY <2>1, <2>2
<1> QED BY <1>5, <1>7

\* A new document is PENDING and leaves the other documents as they are.
LEMMA DocumentAdded ==
  ASSUME Inv, NEW w \in Workers, NEW h \in Hooks, on[w] \in Jobs,
         deliveries' = [deliveries EXCEPT ![on[w]][h] = Append(@, "PENDING")]
  PROVE  /\ deliveries' \in [Jobs -> [Hooks -> Seq(DeliveryStatus)]]
         /\ \A j \in Jobs, k \in Hooks : DOMAIN deliveries[j][k] \subseteq DOMAIN deliveries'[j][k]
         /\ \A j \in Jobs, k \in Hooks : Delivered(j, k)' => Delivered(j, k)
         /\ Len(deliveries[on[w]][h]) \in Nat
         /\ Len(deliveries[on[w]][h]) + 1 \in DOMAIN deliveries'[on[w]][h]
<1> DEFINE d == deliveries[on[w]][h]
           e == Append(d, "PENDING")
<1>1. d \in Seq(DeliveryStatus) /\ "PENDING" \in DeliveryStatus
  BY DEF Inv, TypeOK, DeliveryStatus
<1>2. /\ e \in Seq(DeliveryStatus) /\ Len(d) \in Nat
      /\ DOMAIN d = 1 .. Len(d) /\ DOMAIN e = 1 .. Len(d) + 1
  BY <1>1
<1>3. DOMAIN d \subseteq DOMAIN e /\ Len(d) + 1 \in DOMAIN e
  BY <1>2
<1>4. \A n \in DOMAIN e : e[n] = "SUCCESS" => n \in DOMAIN d /\ d[n] = "SUCCESS"
  BY <1>1, <1>2
<1>5. /\ deliveries'[on[w]][h] = e
      /\ \A j \in Jobs, k \in Hooks : j # on[w] \/ k # h => deliveries'[j][k] = deliveries[j][k]
      /\ deliveries' \in [Jobs -> [Hooks -> Seq(DeliveryStatus)]]
  <2> HIDE DEF e
  <2>1. deliveries' = [deliveries EXCEPT ![on[w]][h] = e]
    BY DEF e
  <2> QED BY <1>2, <2>1 DEF Inv, TypeOK
<1> HIDE DEF e
<1>6. ASSUME NEW j \in Jobs, NEW k \in Hooks
      PROVE  /\ DOMAIN deliveries[j][k] \subseteq DOMAIN deliveries'[j][k]
             /\ Delivered(j, k)' => Delivered(j, k)
  <2>1. CASE j = on[w] /\ k = h
    <3>1. deliveries'[j][k] = e /\ deliveries[j][k] = d
      BY <1>5, <2>1
    <3> QED BY <1>3, <1>4, <3>1 DEF Delivered
  <2>2. CASE j # on[w] \/ k # h
    <3>1. deliveries'[j][k] = deliveries[j][k]
      BY <1>5, <2>2
    <3> QED BY <3>1 DEF Delivered
  <2> QED BY <2>1, <2>2
<1> QED BY <1>2, <1>3, <1>5, <1>6

\* The facts about w and h that every step of deliver starts from.
LEMMA WithinFacts ==
  ASSUME Inv, NEW w \in Workers, NEW h \in Hooks, NEW s, Within(w, h, s)
  PROVE  /\ at[w] = "deliver" /\ on[w] \in Jobs
         /\ UNCHANGED <<queue, executionVars, added, active, registerVars, known>>
         /\ DeliveryInv(w, h)
         /\ s \in {"post", "refused", "success", "failed"}
              => row[w][h] \in DOMAIN deliveries[on[w]][h]
  BY UnderWay, InvParts DEF Within, Inv, TypeOK, ReceiptInv

\* What of the types a step of deliver that leaves a variable alone needs.
LEMMA DeliveryTypes ==
  ASSUME Inv
  PROVE  /\ deliveries \in [Jobs -> [Hooks -> Seq(DeliveryStatus)]]
         /\ row \in [Workers -> [Hooks -> Nat]]
         /\ received \in [Jobs -> [Hooks -> Nat]]
         /\ postFaults \in [Hooks -> 0 .. MaxPostFaults]
         /\ \A j \in Jobs, h \in Hooks : Delivered(j, h) => received[j][h] > 0
  BY DEF Inv, TypeOK, ReceiptInv
\* findSuccessfulDelivery: a SUCCESS that was found stands for a POST.
LEMMA FindSuccessfulInv ==
  ASSUME Inv, NEW w \in Workers, NEW h \in Hooks, FindSuccessful(w, h) PROVE Inv'
<1>1. Within(w, h, "lookup") /\ step[w][h] = "lookup"
  BY DEF FindSuccessful, Within
<1>2. PICK s \in {"fulfilled", "create"} :
        StepTo(w, h, s) /\ (s = "fulfilled" => Delivered(on[w], h))
  BY DEF FindSuccessful
<1>3. UNCHANGED <<deliveries, row, received, postFaults, faults>>
  BY DEF FindSuccessful
<1>4. \A j \in Jobs, k \in Hooks : Delivered(j, k)' => Delivered(j, k)
  BY <1>3 DEF Delivered
<1>5. s \in Steps \ {"none"}
  BY DEF Steps, Settled
<1> QED BY <1>1, <1>2, <1>3, <1>4, <1>5, WithinFacts, DeliveryTypes, DeliveryMoveInv

\* create: a document of its own, which is PENDING.
LEMMA CreateDeliveryInv ==
  ASSUME Inv, NEW w \in Workers, NEW h \in Hooks, CreateDelivery(w, h) PROVE Inv'
<1>1. Within(w, h, "create") /\ step[w][h] = "create"
  BY DEF CreateDelivery, Within
<1>2. /\ deliveries' = [deliveries EXCEPT ![on[w]][h] = Append(@, "PENDING")]
      /\ row' = [row EXCEPT ![w][h] = Len(deliveries[on[w]][h]) + 1]
      /\ StepTo(w, h, "post") /\ UNCHANGED <<received, postFaults, faults>>
  BY DEF CreateDelivery
<1>3. on[w] \in Jobs
  BY <1>1, WithinFacts
<1>4. /\ Len(deliveries[on[w]][h]) + 1 \in Nat
      /\ Len(deliveries[on[w]][h]) + 1 \in DOMAIN deliveries'[on[w]][h]
  <2>1. deliveries' = [deliveries EXCEPT ![on[w]][h] = Append(@, "PENDING")]
    BY <1>2
  <2>2. /\ Len(deliveries[on[w]][h]) \in Nat
        /\ Len(deliveries[on[w]][h]) + 1 \in DOMAIN deliveries'[on[w]][h]
    BY <1>3, <2>1, DocumentAdded, Zenon
  <2> QED BY <2>2
<1>5. /\ row' \in [Workers -> [Hooks -> Nat]]
      /\ row'[w][h] = Len(deliveries[on[w]][h]) + 1
      /\ \A v \in Workers, k \in Hooks : v # w \/ k # h => row'[v][k] = row[v][k]
  BY <1>2, <1>4, DeliveryTypes
<1>6. row'[w][h] \in DOMAIN deliveries'[on[w]][h]
  BY <1>4, <1>5
<1>7. "post" \in Steps \ {"none"}
  BY DEF Steps
<1>8. /\ deliveries' \in [Jobs -> [Hooks -> Seq(DeliveryStatus)]]
      /\ \A j \in Jobs, k \in Hooks : DOMAIN deliveries[j][k] \subseteq DOMAIN deliveries'[j][k]
      /\ \A j \in Jobs, k \in Hooks : Delivered(j, k)' => Delivered(j, k)
  BY <1>2, <1>3, DocumentAdded
<1>9. /\ received' \in [Jobs -> [Hooks -> Nat]] /\ postFaults' \in [Hooks -> 0 .. MaxPostFaults]
      /\ \A j \in Jobs, k \in Hooks : received[j][k] > 0 => received'[j][k] > 0
  BY <1>2, DeliveryTypes
<1>10. /\ at[w] = "deliver" /\ step[w][h] # "none"
       /\ UNCHANGED <<queue, executionVars, added, active, registerVars, known>>
       /\ CallFault \/ UNCHANGED faults
  BY <1>1, <1>2, WithinFacts
<1>11. \A j \in Jobs, k \in Hooks : Delivered(j, k)' => Delivered(j, k) \/ received'[j][k] > 0
  BY <1>8
<1>12. PICK s \in Steps \ {"none"} : s = "post"
  BY <1>7
<1>13. StepTo(w, h, s) /\ s \notin {"success", "fulfilled"}
  BY <1>2, <1>12
<1> QED BY <1>5, <1>6, <1>8, <1>9, <1>10, <1>11, <1>13, DeliveryMoveInv

\* The POST, whatever comes of it: only an answer of success is counted on.
LEMMA PostInv ==
  ASSUME Inv, NEW w \in Workers, NEW h \in Hooks, Post(w, h) \/ PostFails(w, h) PROVE Inv'
<1>1. Within(w, h, "post") /\ step[w][h] = "post"
  BY DEF Post, PostFails, Within
<1>2. on[w] \in Jobs /\ row[w][h] \in DOMAIN deliveries[on[w]][h]
  BY <1>1, WithinFacts
<1>3. UNCHANGED <<deliveries, row, faults>>
  BY DEF Post, PostFails
<1>4. postFaults' \in [Hooks -> 0 .. MaxPostFaults]
  <2>1. CASE Post(w, h)
    BY <2>1, DeliveryTypes DEF Post
  <2>2. CASE PostFails(w, h)
    <3>1. postFaults[h] + 1 \in 0 .. MaxPostFaults
      BY <2>2, DeliveryTypes, PostBoundAssumption DEF PostFails
    <3>2. postFaults' = [postFaults EXCEPT ![h] = postFaults[h] + 1]
      BY <2>2 DEF PostFails
    <3> QED BY <3>1, <3>2, DeliveryTypes
  <2> QED BY <2>1, <2>2
<1>5. \A j \in Jobs, k \in Hooks : Delivered(j, k)' => Delivered(j, k)
  BY <1>3 DEF Delivered
<1>6. PICK s \in {"refused", "failed", "success"} :
        /\ StepTo(w, h, s)
        /\ received' \in {received, [received EXCEPT ![on[w]][h] = @ + 1]}
        /\ s = "success" => received' = [received EXCEPT ![on[w]][h] = @ + 1]
  BY DEF Post, PostFails
<1>7. /\ received' \in [Jobs -> [Hooks -> Nat]]
      /\ \A j \in Jobs, k \in Hooks : received[j][k] > 0 => received'[j][k] > 0
      /\ s = "success" => received'[on[w]][h] > 0
  <2>1. CASE UNCHANGED received
    <3>1. s # "success"
      BY <1>2, <1>6, <2>1, DeliveryTypes
    <3> QED BY <2>1, <3>1, DeliveryTypes
  <2>2. CASE received' = [received EXCEPT ![on[w]][h] = @ + 1]
    <3>1. received[on[w]][h] \in Nat
      BY <1>2, DeliveryTypes
    <3>2. received' \in [Jobs -> [Hooks -> Nat]] /\ received'[on[w]][h] = received[on[w]][h] + 1
      BY <1>2, <2>2, <3>1, DeliveryTypes
    <3>3. \A j \in Jobs, k \in Hooks : j # on[w] \/ k # h => received'[j][k] = received[j][k]
      BY <1>2, <2>2, DeliveryTypes
    <3> QED BY <3>1, <3>2, <3>3
  <2> QED BY <1>6, <2>1, <2>2
<1>8. s \in Steps \ {"none"}
  BY DEF Steps, Settled
<1> QED BY <1>1, <1>2, <1>3, <1>4, <1>5, <1>6, <1>7, <1>8, WithinFacts, DeliveryTypes,
     DeliveryMoveInv

\* The update of the delivery, SUCCESS only after a POST that succeeded, applied or
\* not; "fulfilled" only after SUCCESS.
LEMMA RecordMoveInv ==
  ASSUME Inv, NEW w \in Workers, NEW h \in Hooks,
         NEW t \in {"refused", "success", "failed"}, Within(w, h, t),
         NEW d \in {"SUCCESS", "FAILED"}, d = "SUCCESS" => t = "success",
         SetStatus(w, h, d) \/ UNCHANGED deliveries,
         NEW s \in {"fulfilled", "rejected", "failed"}, s = "fulfilled" => t = "success",
         StepTo(w, h, s), UNCHANGED <<row, received, postFaults>>,
         CallFault \/ UNCHANGED faults
  PROVE  Inv'
<1>1. /\ on[w] \in Jobs /\ row[w][h] \in DOMAIN deliveries[on[w]][h] /\ step[w][h] = t
      /\ t = "success" => received[on[w]][h] > 0
  BY WithinFacts DEF Within, DeliveryInv
<1>2. /\ deliveries' \in [Jobs -> [Hooks -> Seq(DeliveryStatus)]]
      /\ \A j \in Jobs, k \in Hooks : DOMAIN deliveries'[j][k] = DOMAIN deliveries[j][k]
      /\ \A j \in Jobs, k \in Hooks :
           Delivered(j, k)' => Delivered(j, k) \/ (j = on[w] /\ k = h /\ d = "SUCCESS")
  <2>1. CASE SetStatus(w, h, d)
    BY <1>1, <2>1, StatusSet DEF DeliveryStatus
  <2>2. CASE UNCHANGED deliveries
    BY <2>2, DeliveryTypes DEF Delivered
  <2> QED BY <2>1, <2>2
<1>3. \A j \in Jobs, k \in Hooks :
        Delivered(j, k)' => Delivered(j, k) \/ received'[j][k] > 0
  BY <1>1, <1>2
<1>4. s \in Steps \ {"none"} /\ (s = "fulfilled" => received'[on[w]][h] > 0)
  BY <1>1 DEF Steps, Settled
<1>5. s = "failed" => row'[w][h] \in DOMAIN deliveries'[on[w]][h]
  BY <1>1, <1>2
<1> QED BY <1>1, <1>2, <1>3, <1>4, <1>5, WithinFacts, DeliveryTypes, DeliveryMoveInv

\* The updates to SUCCESS and to FAILED after the POST.
LEMMA RecordInv ==
  ASSUME Inv, NEW w \in Workers, NEW h \in Hooks,
         RecordRefusal(w, h) \/ RecordSuccess(w, h) \/ RecordFailure(w, h)
  PROVE  Inv'
  BY RecordMoveInv DEF RecordRefusal, RecordSuccess, RecordFailure

\* A call of deliver that rejects: at lookup and create the delivery is rejected, at
\* create perhaps with a new document; the updates may have been applied.
LEMMA DeliveryRejectedInv ==
  ASSUME Inv, NEW w \in Workers, NEW h \in Hooks, DeliveryCallRejected(w, h) PROVE Inv'
<1>1. CallFault /\ UNCHANGED <<row, received, postFaults>>
  BY DEF DeliveryCallRejected
<1>2. "rejected" \in Steps \ {"none"}
  BY DEF Steps, Settled
<1>3. CASE Within(w, h, "lookup") /\ StepTo(w, h, "rejected") /\ UNCHANGED deliveries
  <2>1. \A j \in Jobs, k \in Hooks : Delivered(j, k)' => Delivered(j, k)
    BY <1>3 DEF Delivered
  <2>2. step[w][h] # "none"
    BY <1>3 DEF Within
  <2> QED BY <1>1, <1>2, <1>3, <2>1, <2>2, WithinFacts, DeliveryTypes, DeliveryMoveInv
<1>4. CASE /\ Within(w, h, "create") /\ StepTo(w, h, "rejected")
           /\ deliveries' \in {deliveries,
                               [deliveries EXCEPT ![on[w]][h] = Append(@, "PENDING")]}
  <2>1. on[w] \in Jobs /\ step[w][h] # "none"
    BY <1>4, WithinFacts DEF Within
  <2>2. /\ deliveries' \in [Jobs -> [Hooks -> Seq(DeliveryStatus)]]
        /\ \A j \in Jobs, k \in Hooks :
             DOMAIN deliveries[j][k] \subseteq DOMAIN deliveries'[j][k]
        /\ \A j \in Jobs, k \in Hooks : Delivered(j, k)' => Delivered(j, k)
    <3>1. CASE UNCHANGED deliveries
      BY <3>1, DeliveryTypes DEF Delivered
    <3>2. CASE deliveries' = [deliveries EXCEPT ![on[w]][h] = Append(@, "PENDING")]
      BY <2>1, <3>2, DocumentAdded
    <3> QED BY <1>4, <3>1, <3>2
  <2> QED BY <1>1, <1>2, <1>4, <2>1, <2>2, WithinFacts, DeliveryTypes, DeliveryMoveInv
<1>5. CASE /\ Within(w, h, "success") /\ StepTo(w, h, "failed")
           /\ SetStatus(w, h, "SUCCESS") \/ UNCHANGED deliveries
  BY <1>1, <1>5, RecordMoveInv
<1>6. CASE /\ Within(w, h, "refused") /\ StepTo(w, h, "failed")
           /\ SetStatus(w, h, "FAILED") \/ UNCHANGED deliveries
  BY <1>1, <1>6, RecordMoveInv
<1>7. CASE /\ Within(w, h, "failed") /\ StepTo(w, h, "rejected")
           /\ SetStatus(w, h, "FAILED") \/ UNCHANGED deliveries
  BY <1>1, <1>7, RecordMoveInv
<1> QED BY <1>3, <1>4, <1>5, <1>6, <1>7 DEF DeliveryCallRejected

-------------------------------------------------------------------------------
(* The theorems                                                            *)

\* Every step keeps the invariant.
LEMMA NextInv == Inv /\ [Next]_vars => Inv'
<1> SUFFICES ASSUME Inv, [Next]_vars PROVE Inv'
  OBVIOUS
<1>1. ASSUME NEW w \in Workers, \E j \in Jobs : Start(w, j) PROVE Inv'
  BY <1>1, StartInv
<1>2. ASSUME NEW w \in Workers, WorkerStep(w) \/ CallRejected(w) \/ Crash(w) PROVE Inv'
  BY <1>2, ProcessInv, FindHooksInv, GatherInv, EndInv DEF WorkerStep
<1>3. ASSUME NEW w \in Workers, NEW h \in Hooks,
             DeliveryStep(w, h) \/ PostFails(w, h) \/ DeliveryCallRejected(w, h)
      PROVE  Inv'
  BY <1>3, FindSuccessfulInv, CreateDeliveryInv, PostInv, RecordInv, DeliveryRejectedInv
     DEF DeliveryStep
<1>4. ASSUME NEW j \in Jobs, LockLost(j) \/ Recover(j) \/ Dispatch(j) \/ Evict(j) PROVE Inv'
  BY <1>4, LossInv, DispatchInv
<1>5. ASSUME NEW h \in Hooks, Register(h) PROVE Inv'
  BY <1>5, RegisterInv
<1>6. CASE UNCHANGED vars
  BY <1>6 DEF vars, Inv, TypeOK, ExecutionTypeOK, QueueTypeOK, AttemptLeft, AddedFirst,
     ReceiptInv, DeliveryInv, KnownReceived, Delivered, queue, executionVars, deliveryVars,
     registerVars
<1> QED BY <1>1, <1>2, <1>3, <1>4, <1>5, <1>6 DEF Next

\* The webhook processor never leaves its inductive invariant.
THEOREM Invariance == Spec => []Inv
  BY InitInv, NextInv, PTL DEF Spec

\* Types, whatever overlaps or fails.
THEOREM TypeCorrectness == Spec => []TypeOK
  BY Invariance, PTL DEF Inv

\* However many executions of however many jobs overlap, lose their locks, die or
\* are repeated: an event that counts as processed has been received by every
\* webhook that was registered when its job was added.
THEOREM ProcessedReceived == Spec => []ProcessedMeansReceived
<1>1. Inv => ProcessedMeansReceived
  BY DEF Inv, ReceiptInv, KnownReceived, ProcessedMeansReceived
<1> QED BY <1>1, Invariance, PTL

-------------------------------------------------------------------------------
(* As long as only POSTs fail                                              *)

Undisturbed == faults.call = 0 /\ faults.loss = 0

\* An execution is alone with its job and knows the attempt.
AloneInv ==
  /\ \A w \in Workers : at[w] # "idle" => lock[on[w]] = w /\ attempt[w] = made[on[w]] + 1
  /\ \A j \in Jobs : bull[j] = "active" => lock[j] # NoWorker
  /\ \A j \in Jobs : lock[j] # NoWorker => on[lock[j]] = j

\* The webhooks known when j was added have their SUCCESS; some webhook has none.
LoggedAll(j) == \A h \in known[j] : Delivered(j, h)
Gap(j) == \E h \in active : ~ Delivered(j, h)

\* What an execution knows of its job at each point of process.
PointInv(w) ==
  /\ at[w] \in {"find", "deliver", "mark"} => on[w] \notin processed
  /\ at[w] = "mark" => LoggedAll(on[w])
  /\ at[w] = "returned" => on[w] \in processed
  /\ at[w] \in {"handle", "dead", "thrown"} => Gap(on[w])
  /\ at[w] = "dead" => IsFinalAttempt(w)
  /\ at[w] = "thrown" /\ IsFinalAttempt(w) => on[w] \in dlq

\* What it knows of the log of one webhook.
LogInv(w, h) ==
  /\ step[w][h] # "none" => h \in active
  /\ step[w][h] \in {"create", "post", "refused", "success", "failed", "rejected"}
       => ~ Delivered(on[w], h)
  /\ step[w][h] = "fulfilled" => Delivered(on[w], h)

OutcomeInv(j) ==
  /\ j \in processed => LoggedAll(j)
  /\ bull[j] = "completed" => j \in processed
  /\ bull[j] = "failed" => j \in dlq /\ Gap(j)

\* Beyond the failed ones, one POST counts: that of the SUCCESS, or of an execution that is
\* going to record one.
Arrived(j, h) == Delivered(j, h) \/ \E w \in Workers : on[w] = j /\ step[w][h] = "success"

CountInv(j, h) == received[j][h] <= postFaults[h] + (IF Arrived(j, h) THEN 1 ELSE 0)

QuietInv ==
  /\ AloneInv
  /\ \A w \in Workers : PointInv(w) /\ \A h \in Hooks : LogInv(w, h)
  /\ \A j \in Jobs : OutcomeInv(j) /\ \A h \in Hooks : CountInv(j, h)

\* Before the first job.
LEMMA InitQuiet == Init => QuietInv
<1> SUFFICES ASSUME Init PROVE QuietInv
  OBVIOUS
<1>1. AloneInv
  BY DEF Init, ExecutionInit, QueueInit, AloneInv
<1>2. \A w \in Workers : PointInv(w) /\ \A h \in Hooks : LogInv(w, h)
  BY DEF Init, ExecutionInit, PointInv, LogInv
<1>3. \A j \in Jobs : OutcomeInv(j)
  BY DEF Init, ExecutionInit, QueueInit, OutcomeInv
<1>4. \A j \in Jobs, h \in Hooks : CountInv(j, h)
  BY DEF Init, CountInv
<1> QED BY <1>1, <1>2, <1>3, <1>4 DEF QuietInv

\* The types that the steps below need.
LEMMA QuietTypes ==
  ASSUME Inv
  PROVE  /\ at \in [Workers -> Points] /\ on \in [Workers -> Jobs \cup {NoJob}]
         /\ attempt \in [Workers -> 0 .. MaxJobAttempts] /\ made \in [Jobs -> 0 .. MaxJobAttempts]
         /\ bull \in [Jobs -> BullStates] /\ lock \in [Jobs -> Workers \cup {NoWorker}]
         /\ \A j \in Jobs : lock[j] # NoWorker => bull[j] = "active"
         /\ \A w \in Workers : at[w] # "idle" <=> on[w] \in Jobs
         /\ step \in [Workers -> [Hooks -> Steps]]
         /\ \A w \in Workers, h \in Hooks : step[w][h] # "none" => at[w] = "deliver"
         /\ received \in [Jobs -> [Hooks -> Nat]] /\ postFaults \in [Hooks -> Nat]
         /\ known \in [Jobs -> SUBSET Hooks] /\ active \subseteq Hooks
         /\ processed \subseteq Jobs /\ dlq \subseteq Jobs
<1>1. /\ at \in [Workers -> Points] /\ on \in [Workers -> Jobs \cup {NoJob}]
      /\ attempt \in [Workers -> 0 .. MaxJobAttempts] /\ made \in [Jobs -> 0 .. MaxJobAttempts]
      /\ bull \in [Jobs -> BullStates] /\ lock \in [Jobs -> Workers \cup {NoWorker}]
      /\ \A j \in Jobs : lock[j] # NoWorker => bull[j] = "active"
      /\ \A w \in Workers : at[w] # "idle" <=> on[w] \in Jobs
  BY ExecutionBoundsAssumption DEF Inv, TypeOK, ExecutionTypeOK, QueueTypeOK
<1>2. \A w \in Workers, h \in Hooks : step[w][h] # "none" => at[w] = "deliver"
  BY DEF Inv, ReceiptInv, DeliveryInv
<1>3. /\ step \in [Workers -> [Hooks -> Steps]] /\ received \in [Jobs -> [Hooks -> Nat]]
      /\ known \in [Jobs -> SUBSET Hooks] /\ active \subseteq Hooks
      /\ processed \subseteq Jobs /\ dlq \subseteq Jobs
  BY DEF Inv, TypeOK
<1>4. postFaults \in [Hooks -> Nat]
  BY PostBoundAssumption DEF Inv, TypeOK
<1> QED BY <1>1, <1>2, <1>3, <1>4

\* An execution that is under way shares its job with no other.
LEMMA Alone ==
  ASSUME Inv, QuietInv, NEW w \in Workers, at[w] # "idle"
  PROVE  /\ on[w] \in Jobs /\ lock[on[w]] = w /\ bull[on[w]] = "active"
         /\ attempt[w] = made[on[w]] + 1
         /\ \A v \in Workers \ {w} : on[v] # on[w]
         /\ \A j \in Jobs \ {on[w]} : lock[j] # w
<1>1. on[w] \in Jobs /\ lock[on[w]] = w /\ attempt[w] = made[on[w]] + 1
  BY QuietTypes DEF QuietInv, AloneInv
<1>2. bull[on[w]] = "active"
  BY <1>1, QuietTypes, QueueAssumption
<1>3. \A v \in Workers \ {w} : on[v] # on[w]
  BY <1>1, QuietTypes DEF QuietInv, AloneInv
<1>4. \A j \in Jobs \ {on[w]} : lock[j] # w
  BY QueueAssumption DEF QuietInv, AloneInv
<1> QED BY <1>1, <1>2, <1>3, <1>4

\* A step of process.  What it is about in its own execution is left to the actions.
LEMMA ProcessQuiet ==
  ASSUME Inv, QuietInv, NEW w \in Workers, at[w] # "idle", NEW p \in Points \ {"idle"}, Goto(w, p),
         UNCHANGED <<queue, on, attempt, faults, active, deliveries, received, postFaults, known>>,
         processed \subseteq processed', processed' \subseteq processed \cup {on[w]},
         dlq \subseteq dlq',
         \A v \in Workers \ {w} : step'[v] = step[v],
         \A h \in Hooks : step[w][h] # "success" /\ step'[w][h] # "success" /\ LogInv(w, h)',
         PointInv(w)', on[w] \in processed' => LoggedAll(on[w])
  PROVE  QuietInv'
<1>1. /\ at'[w] # "idle" /\ \A v \in Workers \ {w} : at'[v] = at[v] /\ on[v] # on[w]
      /\ UNCHANGED <<bull, made, lock>>
  BY QuietTypes, Alone DEF Goto, queue
<1>2. \A j \in Jobs, h \in Hooks : Delivered(j, h)' <=> Delivered(j, h)
  BY DEF Delivered
<1>3. AloneInv'
  BY <1>1 DEF QuietInv, AloneInv
<1>4. ASSUME NEW v \in Workers \ {w} PROVE PointInv(v)' /\ \A h \in Hooks : LogInv(v, h)'
  <2>1. PointInv(v) /\ \A h \in Hooks : LogInv(v, h)
    BY DEF QuietInv
  <2>2. PointInv(v)'
    BY <1>1, <2>1 DEF PointInv, LoggedAll, Gap, Delivered, IsFinalAttempt
  <2>3. \A h \in Hooks : LogInv(v, h)'
    BY <2>1 DEF LogInv, Delivered
  <2> QED BY <2>2, <2>3
<1>5. ASSUME NEW j \in Jobs PROVE OutcomeInv(j)'
  <2>1. OutcomeInv(j)
    BY DEF QuietInv
  <2> QED BY <1>1, <2>1 DEF OutcomeInv, LoggedAll, Gap, Delivered
<1>6. ASSUME NEW j \in Jobs, NEW h \in Hooks PROVE CountInv(j, h)'
  <2>1. CountInv(j, h)
    BY DEF QuietInv
  <2>2. Arrived(j, h)' <=> Arrived(j, h)
    BY <1>2 DEF Arrived
  <2> QED BY <2>1, <2>2 DEF CountInv
<1> QED BY <1>3, <1>4, <1>5, <1>6 DEF QuietInv

\* hasBeenProcessed, the end of the deliveries, the register and the catch block.
LEMMA HandlerQuiet ==
  ASSUME Inv, QuietInv, NEW w \in Workers,
         Check(w) \/ FindHooks(w) \/ Gather(w) \/ Mark(w) \/ Handle(w) \/ DeadLetter(w)
  PROVE  QuietInv'
<1>1. /\ at[w] \notin {"idle", "returned", "thrown"}
      /\ UNCHANGED <<queue, on, attempt, faults, active, deliveries, received, postFaults, known>>
  BY DEF Check, FindHooks, Gather, Mark, Handle, DeadLetter, Only, Proceed, deliveryVars
<1>2. /\ on[w] \in Jobs /\ at \in [Workers -> Points] /\ known[on[w]] \subseteq active
      /\ step \in [Workers -> [Hooks -> Steps]] /\ active \subseteq Hooks
  BY <1>1, QuietTypes DEF Inv, ReceiptInv
<1>3. PointInv(w) /\ OutcomeInv(on[w]) /\ \A h \in Hooks : LogInv(w, h)
  BY <1>2 DEF QuietInv
<1>4. \A j \in Jobs : (LoggedAll(j)' <=> LoggedAll(j)) /\ (Gap(j)' <=> Gap(j))
  BY <1>1 DEF LoggedAll, Gap, Delivered
<1>5. \A v \in Workers, h \in Hooks : step[v][h] # "none" => at[v] = "deliver"
  BY QuietTypes
<1>6. ASSUME Check(w) \/ Mark(w) \/ Handle(w) \/ DeadLetter(w) PROVE QuietInv'
  <2>1. at[w] # "deliver" /\ step' = step
    BY <1>6 DEF Check, Mark, Handle, DeadLetter, deliveryVars
  <2>2. PICK p \in Points \ {"idle"} : Goto(w, p)
    BY <1>6 DEF Check, Mark, Handle, DeadLetter, Only, Proceed, Points
  <2>3. \A h \in Hooks : step[w][h] = "none" /\ LogInv(w, h)'
    BY <1>5, <2>1 DEF LogInv
  <2>4. /\ PointInv(w)' /\ (on[w] \in processed' => LoggedAll(on[w]))
        /\ processed \subseteq processed' /\ processed' \subseteq processed \cup {on[w]}
        /\ dlq \subseteq dlq'
    <3>1. CASE Check(w)
      BY <1>1, <1>2, <1>3, <3>1
         DEF Check, Only, Proceed, Goto, PointInv, OutcomeInv, registerVars
    <3>2. CASE Mark(w)
      BY <1>1, <1>2, <1>3, <3>2 DEF Mark, Only, Proceed, Goto, PointInv, OutcomeInv
    <3>3. CASE Handle(w)
      BY <1>1, <1>2, <1>3, <1>4, <3>3
         DEF Handle, Only, Proceed, Goto, PointInv, OutcomeInv, IsFinalAttempt, registerVars
    <3>4. CASE DeadLetter(w)
      BY <1>1, <1>2, <1>3, <1>4, <3>4
         DEF DeadLetter, Only, Proceed, Goto, PointInv, OutcomeInv, IsFinalAttempt
    <3> QED BY <1>6, <3>1, <3>2, <3>3, <3>4
  <2> QED BY <1>1, <2>1, <2>2, <2>3, <2>4, ProcessQuiet
<1>7. ASSUME FindHooks(w) PROVE QuietInv'
  <2>1. /\ Goto(w, "deliver") /\ at'[w] = "deliver" /\ at[w] = "find" /\ UNCHANGED <<processed, dlq>>
        /\ \A v \in Workers \ {w} : step'[v] = step[v]
        /\ \A h \in Hooks : step'[w][h] = IF h \in active THEN "lookup" ELSE "none"
    BY <1>2, <1>7 DEF FindHooks, Only, Proceed, Goto, registerVars
  <2>2. \A h \in Hooks : step[w][h] = "none" /\ step'[w][h] # "success" /\ LogInv(w, h)'
    BY <1>1, <1>5, <2>1 DEF LogInv
  <2>3. PointInv(w)' /\ on[w] \notin processed'
    BY <1>1, <1>3, <2>1 DEF PointInv
  <2>4. "deliver" \in Points \ {"idle"}
    BY DEF Points
  <2> QED BY <1>1, <2>1, <2>2, <2>3, <2>4, ProcessQuiet
<1>8. ASSUME Gather(w) PROVE QuietInv'
  <2>1. /\ at[w] = "deliver" /\ UNCHANGED <<processed, dlq>>
        /\ \A v \in Workers \ {w} : step'[v] = step[v]
        /\ \A h \in Hooks : step'[w][h] = "none" /\ step[w][h] \in {"fulfilled", "rejected", "none"}
    BY <1>2, <1>8 DEF Gather, AllSettled, Settled, DropDeliveries, Only, registerVars
  <2>2. \A h \in Hooks : step[w][h] # "success" /\ step'[w][h] # "success" /\ LogInv(w, h)'
    BY <2>1 DEF LogInv
  <2>3. on[w] \notin processed'
    BY <1>3, <2>1 DEF PointInv
  <2>4. CASE \E h \in Hooks : step[w][h] = "rejected"
    <3>1. Goto(w, "handle") /\ at'[w] = "handle" /\ "handle" \in Points \ {"idle"}
      BY <1>2, <1>8, <2>4 DEF Gather, Only, Proceed, Goto, Points
    <3>2. Gap(on[w])'
      BY <1>1, <1>2, <1>3, <1>4, <2>4 DEF LogInv, Gap
    <3>3. PointInv(w)'
      BY <1>1, <3>1, <3>2 DEF PointInv
    <3> QED BY <1>1, <2>1, <2>2, <2>3, <3>1, <3>3, ProcessQuiet
  <2>5. CASE \A h \in Hooks : step[w][h] # "rejected"
    <3>1. Goto(w, "mark") /\ at'[w] = "mark" /\ "mark" \in Points \ {"idle"}
      BY <1>2, <1>8, <2>5 DEF Gather, Only, Proceed, Goto, Points
    <3>2. \A h \in known[on[w]] : step[w][h] # "none"
      BY <1>2, <2>1 DEF Inv, ReceiptInv, DeliveryInv
    <3>3. LoggedAll(on[w])
      BY <1>2, <1>3, <2>1, <2>5, <3>2 DEF LoggedAll, LogInv
    <3>4. PointInv(w)'
      BY <1>1, <1>2, <1>4, <2>3, <3>1, <3>3 DEF PointInv
    <3> QED BY <1>1, <2>1, <2>2, <2>3, <3>1, <3>4, ProcessQuiet
  <2> QED BY <2>4, <2>5
<1> QED BY <1>6, <1>7, <1>8

\* A worker takes a job that nobody executes.
LEMMA StartQuiet ==
  ASSUME Inv, QuietInv, NEW w \in Workers, NEW j \in Jobs, Start(w, j)
  PROVE  QuietInv'
<1>1. /\ at[w] = "idle" /\ bull[j] = "waiting" /\ at' = [at EXCEPT ![w] = "check"]
      /\ on' = [on EXCEPT ![w] = j] /\ attempt' = [attempt EXCEPT ![w] = made[j] + 1]
      /\ bull' = [bull EXCEPT ![j] = "active"] /\ lock' = [lock EXCEPT ![j] = w]
      /\ UNCHANGED <<made, faults, active, step, deliveries, received, postFaults, processed, dlq, known>>
  BY DEF Start, Enter, Take, Goto, deliveryVars, registerVars
<1>2. /\ at \in [Workers -> Points] /\ on \in [Workers -> Jobs \cup {NoJob}]
      /\ attempt \in [Workers -> 0 .. MaxJobAttempts]
      /\ bull \in [Jobs -> BullStates] /\ lock \in [Jobs -> Workers \cup {NoWorker}]
      /\ \A k \in Jobs : lock[k] # NoWorker => bull[k] = "active"
      /\ \A v \in Workers : at[v] # "idle" <=> on[v] \in Jobs
      /\ \A v \in Workers, h \in Hooks : step[v][h] # "none" => at[v] = "deliver"
  BY QuietTypes
<1>3. lock[j] = NoWorker /\ \A v \in Workers \ {w} : at[v] # "idle" => on[v] # j
  BY <1>1, <1>2, QueueAssumption DEF QuietInv, AloneInv
<1>4. AloneInv'
  BY <1>1, <1>2, <1>3, QueueAssumption DEF QuietInv, AloneInv
<1>5. \A k \in Jobs, h \in Hooks : Delivered(k, h)' <=> Delivered(k, h)
  BY <1>1 DEF Delivered
<1>6. ASSUME NEW v \in Workers PROVE PointInv(v)' /\ \A h \in Hooks : LogInv(v, h)'
  <2>1. CASE v = w
    BY <1>1, <1>2, <2>1 DEF PointInv, LogInv
  <2>2. CASE v # w
    <3>1. PointInv(v) /\ \A h \in Hooks : LogInv(v, h)
      BY DEF QuietInv
    <3>2. PointInv(v)'
      BY <1>1, <1>2, <2>2, <3>1 DEF PointInv, LoggedAll, Gap, Delivered, IsFinalAttempt
    <3>3. \A h \in Hooks : LogInv(v, h)'
      BY <1>1, <1>2, <2>2, <3>1 DEF LogInv, Delivered
    <3> QED BY <3>2, <3>3
  <2> QED BY <2>1, <2>2
<1>7. ASSUME NEW k \in Jobs PROVE OutcomeInv(k)'
  <2>1. OutcomeInv(k)
    BY DEF QuietInv
  <2>2. (LoggedAll(k)' <=> LoggedAll(k)) /\ (Gap(k)' <=> Gap(k))
    BY <1>1 DEF LoggedAll, Gap, Delivered
  <2> QED BY <1>1, <1>2, <2>1, <2>2 DEF OutcomeInv
<1>8. ASSUME NEW k \in Jobs, NEW h \in Hooks PROVE CountInv(k, h)'
  <2>1. CountInv(k, h) /\ (Arrived(k, h) => Arrived(k, h)') /\ (Arrived(k, h)' => Arrived(k, h))
    <3>1. CountInv(k, h)
      BY DEF QuietInv
    <3> QED BY <1>1, <1>2, <1>5, <3>1 DEF Arrived
  <2> QED BY <1>1, <2>1 DEF CountInv
<1> QED BY <1>4, <1>6, <1>7, <1>8 DEF QuietInv

\* What changes of Arrived and the log when no delivery is under way where a step is made.
LEMMA ArrivedStays ==
  ASSUME UNCHANGED <<step, deliveries>>, NEW w, \A h \in Hooks : step[w][h] = "none",
         \A v \in Workers \ {w} : on'[v] = on[v]
  PROVE  /\ \A j \in Jobs, h \in Hooks : Arrived(j, h)' <=> Arrived(j, h)
         /\ \A j \in Jobs, h \in Hooks : Delivered(j, h)' <=> Delivered(j, h)
<1>1. \A j \in Jobs, h \in Hooks : Delivered(j, h)' <=> Delivered(j, h)
  BY DEF Delivered
<1>2. \A j \in Jobs, h \in Hooks, v \in Workers :
        (on'[v] = j /\ step'[v][h] = "success") <=> (on[v] = j /\ step[v][h] = "success")
  OBVIOUS
<1> QED BY <1>1, <1>2 DEF Arrived

\* A worker reports an outcome, and is not refused.
LEMMA ReportQuiet ==
  ASSUME Inv, QuietInv, NEW w \in Workers, Report(w) PROVE QuietInv'
<1> PICK j \in Jobs : j = on[w]
  BY QuietTypes DEF Report, Settle
<1>1. /\ at[w] \in {"returned", "thrown"} /\ lock[j] = w /\ bull[j] = "active"
      /\ attempt[w] = made[j] + 1 /\ \A v \in Workers \ {w} : on[v] # j
      /\ \A k \in Jobs \ {j} : lock[k] # w
  BY Alone DEF Report, Settle
<1>2. /\ at \in [Workers -> Points] /\ on \in [Workers -> Jobs \cup {NoJob}]
      /\ attempt \in [Workers -> 0 .. MaxJobAttempts] /\ made \in [Jobs -> 0 .. MaxJobAttempts]
      /\ bull \in [Jobs -> BullStates] /\ lock \in [Jobs -> Workers \cup {NoWorker}]
      /\ \A v \in Workers : at[v] # "idle" <=> on[v] \in Jobs
      /\ \A v \in Workers, h \in Hooks : step[v][h] # "none" => at[v] = "deliver"
  BY QuietTypes
<1>3. /\ at' = [at EXCEPT ![w] = "idle"] /\ on' = [on EXCEPT ![w] = NoJob]
      /\ attempt' = [attempt EXCEPT ![w] = 0] /\ lock' = [lock EXCEPT ![j] = NoWorker]
      /\ made' = [made EXCEPT ![j] = made[j] + 1]
      /\ \/ at[w] = "returned" /\ bull' = [bull EXCEPT ![j] = "completed"]
         \/ at[w] = "thrown" /\ IsFinalAttempt(w) /\ bull' = [bull EXCEPT ![j] = "failed"]
         \/ at[w] = "thrown" /\ bull' = [bull EXCEPT ![j] = "waiting"]
      /\ UNCHANGED <<faults, active, step, deliveries, received, postFaults, processed, dlq, known>>
  <2>1. CASE at[w] = "returned"
    BY <1>1, <2>1 DEF Report, Settle, Idle, Goto, Succeed, deliveryVars, registerVars
  <2>2. CASE at[w] = "thrown"
    <3>1. FailAttempt(w, j) /\ Idle(w)
      BY <2>2 DEF Report, Settle
    <3> QED BY <1>1, <2>2, <3>1
            DEF Report, Settle, Idle, Goto, FailAttempt, IsFinalAttempt, deliveryVars, registerVars
  <2> QED BY <1>1, <2>1, <2>2
<1>4. \A h \in Hooks : step[w][h] = "none"
  BY <1>1, <1>2
<1>5. /\ \A k \in Jobs, h \in Hooks : Arrived(k, h)' <=> Arrived(k, h)
      /\ \A k \in Jobs, h \in Hooks : Delivered(k, h)' <=> Delivered(k, h)
  BY <1>2, <1>3, <1>4, ArrivedStays
<1>6. AloneInv'
  BY <1>1, <1>2, <1>3, QueueAssumption DEF QuietInv, AloneInv
<1>7. ASSUME NEW v \in Workers PROVE PointInv(v)' /\ \A h \in Hooks : LogInv(v, h)'
  <2>1. CASE v = w
    BY <1>2, <1>3, <1>4, <2>1 DEF PointInv, LogInv
  <2>2. CASE v # w
    <3>1. PointInv(v) /\ \A h \in Hooks : LogInv(v, h)
      BY DEF QuietInv
    <3>2. PointInv(v)'
      BY <1>2, <1>3, <2>2, <3>1 DEF PointInv, LoggedAll, Gap, Delivered, IsFinalAttempt
    <3>3. \A h \in Hooks : LogInv(v, h)'
      BY <1>2, <1>3, <2>2, <3>1 DEF LogInv, Delivered
    <3> QED BY <3>2, <3>3
  <2> QED BY <2>1, <2>2
<1>8. ASSUME NEW k \in Jobs PROVE OutcomeInv(k)'
  <2>1. OutcomeInv(k) /\ PointInv(w)
    BY DEF QuietInv
  <2>2. (LoggedAll(k)' <=> LoggedAll(k)) /\ (Gap(k)' <=> Gap(k))
    BY <1>3 DEF LoggedAll, Gap, Delivered
  <2> QED BY <1>1, <1>2, <1>3, <2>1, <2>2 DEF OutcomeInv, PointInv
<1>9. ASSUME NEW k \in Jobs, NEW h \in Hooks PROVE CountInv(k, h)'
  <2>1. CountInv(k, h)
    BY DEF QuietInv
  <2> QED BY <1>3, <1>5, <2>1 DEF CountInv
<1> QED BY <1>6, <1>7, <1>8, <1>9 DEF QuietInv

\* The outbox adds a job, Redis forgets one, or a webhook is registered.
LEMMA SurroundingsQuiet ==
  ASSUME Inv, QuietInv,
         (\E j \in Jobs : Dispatch(j) \/ Evict(j)) \/ \E h \in Hooks : Register(h)
  PROVE  QuietInv'
<1>1. /\ UNCHANGED <<lock, at, on, attempt, faults, step, deliveries, received, postFaults,
                     processed, dlq>>
      /\ active \subseteq active'
  BY DEF Dispatch, Evict, Register, Readd, Forget, Add, Remove, queue, executionVars, deliveryVars,
     registerVars
<1>2. /\ bull \in [Jobs -> BullStates] /\ lock \in [Jobs -> Workers \cup {NoWorker}]
      /\ made \in [Jobs -> 0 .. MaxJobAttempts] /\ known \in [Jobs -> SUBSET Hooks]
      /\ \A j \in Jobs : lock[j] # NoWorker => bull[j] = "active"
      /\ \A w \in Workers : at[w] # "idle" => on[w] \in Jobs
  BY QuietTypes
<1>3. \A k \in Jobs : \/ bull'[k] = bull[k] /\ made'[k] = made[k]
                      \/ bull[k] # "active" /\ bull'[k] \in {"waiting", "unknown"}
  BY <1>2 DEF Dispatch, Evict, Register, Readd, Forget, Add, Remove, queue
<1>4. \A k \in Jobs : added[k] > 0 => known'[k] = known[k]
  BY <1>2 DEF Dispatch, Evict, Register
<1>5. AloneInv'
  BY <1>1, <1>2, <1>3, QueueAssumption DEF QuietInv, AloneInv
<1>6. \A k \in Jobs : (Gap(k) => Gap(k)') /\ (added[k] > 0 /\ LoggedAll(k) => LoggedAll(k)')
  BY <1>1, <1>4 DEF Gap, LoggedAll, Delivered
<1>7. /\ \A k \in processed : added[k] > 0 /\ k \in Jobs
      /\ \A w \in Workers : at[w] # "idle" => added[on[w]] > 0 /\ on[w] \in Jobs
  BY QuietTypes DEF Inv, AddedFirst
<1>8. ASSUME NEW w \in Workers PROVE PointInv(w)' /\ \A h \in Hooks : LogInv(w, h)'
  <2>1. PointInv(w) /\ \A h \in Hooks : LogInv(w, h)
    BY DEF QuietInv
  <2>2. PointInv(w)'
    BY <1>1, <1>6, <1>7, <2>1 DEF PointInv, IsFinalAttempt
  <2>3. \A h \in Hooks : LogInv(w, h)'
    BY <1>1, <2>1 DEF LogInv, Delivered
  <2> QED BY <2>2, <2>3
<1>9. ASSUME NEW k \in Jobs PROVE OutcomeInv(k)'
  <2>1. OutcomeInv(k)
    BY DEF QuietInv
  <2> QED BY <1>1, <1>3, <1>6, <1>7, <2>1 DEF OutcomeInv
<1>10. ASSUME NEW k \in Jobs, NEW h \in Hooks PROVE CountInv(k, h)'
  <2>1. CountInv(k, h)
    BY DEF QuietInv
  <2> QED BY <1>1, <2>1 DEF CountInv, Arrived, Delivered
<1> QED BY <1>5, <1>8, <1>9, <1>10 DEF QuietInv

\* A step of deliver: the other deliveries, and the other jobs, are left as they are.
LEMMA DeliverQuiet ==
  ASSUME Inv, QuietInv, NEW w \in Workers, NEW h \in Hooks, at[w] = "deliver", step[w][h] # "none",
         NEW j \in Jobs, j = on[w],
         UNCHANGED <<queue, executionVars, active, registerVars, known, faults>>,
         NEW s \in Steps \ {"none"}, StepTo(w, h, s),
         \A i \in Jobs, k \in Hooks : i # j \/ k # h =>
           deliveries'[i][k] = deliveries[i][k] /\ received'[i][k] = received[i][k],
         Delivered(j, h) => Delivered(j, h)', LogInv(w, h)', CountInv(j, h)',
         \A k \in Hooks : postFaults'[k] \in Nat /\ postFaults'[k] >= postFaults[k]
  PROVE  QuietInv'
<1>1. /\ UNCHANGED <<bull, made, lock, at, on, attempt, active, processed, dlq, known>>
      /\ bull[j] = "active" /\ \A v \in Workers \ {w} : on[v] # j
  BY Alone DEF queue, executionVars, registerVars
<1>2. /\ step'[w][h] = s
      /\ \A v \in Workers, k \in Hooks : v # w \/ k # h => step'[v][k] = step[v][k]
  BY QuietTypes DEF StepTo
<1>3. /\ \A v \in Workers, k \in Hooks : step[v][k] # "none" => at[v] = "deliver"
      /\ \A v \in Workers : at[v] # "idle" => on[v] \in Jobs
      /\ known \in [Jobs -> SUBSET Hooks] /\ active \subseteq Hooks /\ processed \subseteq Jobs
      /\ received \in [Jobs -> [Hooks -> Nat]] /\ postFaults \in [Hooks -> Nat]
  BY QuietTypes
<1>4. AloneInv'
  BY <1>1 DEF QuietInv, AloneInv
<1>5. \A i \in Jobs, k \in Hooks : i # j \/ k # h => (Delivered(i, k)' <=> Delivered(i, k))
  BY DEF Delivered
<1>6. ASSUME NEW i \in Jobs
      PROVE  (LoggedAll(i) => LoggedAll(i)') /\ (i # j => (Gap(i) => Gap(i)'))
  BY <1>1, <1>3, <1>5 DEF LoggedAll, Gap
<1>7. ASSUME NEW v \in Workers PROVE PointInv(v)'
  <2>1. PointInv(v)
    BY DEF QuietInv
  <2> QED BY <1>1, <1>3, <1>6, <2>1 DEF PointInv, IsFinalAttempt
<1>8. ASSUME NEW v \in Workers, NEW k \in Hooks PROVE LogInv(v, k)'
  <2>1. CASE v = w /\ k = h
    BY <2>1
  <2>2. CASE v # w \/ k # h
    <3>1. LogInv(v, k) /\ step'[v][k] = step[v][k]
      BY <1>2, <2>2 DEF QuietInv
    <3>2. step[v][k] # "none" => (Delivered(on[v], k)' <=> Delivered(on[v], k))
      BY <1>1, <1>3, <1>5, <2>2
    <3> QED BY <1>1, <3>1, <3>2 DEF LogInv
  <2> QED BY <2>1, <2>2
<1>9. ASSUME NEW i \in Jobs PROVE OutcomeInv(i)'
  <2>1. OutcomeInv(i)
    BY DEF QuietInv
  <2> QED BY <1>1, <1>6, <2>1 DEF OutcomeInv
<1>10. ASSUME NEW i \in Jobs, NEW k \in Hooks PROVE CountInv(i, k)'
  <2>1. CASE i = j /\ k = h
    BY <1>1, <2>1
  <2>2. CASE i # j \/ k # h
    <3>1. CountInv(i, k) /\ received'[i][k] = received[i][k]
      BY <2>2 DEF QuietInv
    <3>2. Arrived(i, k) => Arrived(i, k)'
      BY <1>1, <1>2, <1>5, <2>2 DEF Arrived
    <3>3. /\ received[i][k] \in Nat /\ postFaults[k] \in Nat
          /\ postFaults'[k] \in Nat /\ postFaults'[k] >= postFaults[k]
      BY <1>3
    <3> QED BY <3>1, <3>2, <3>3 DEF CountInv
  <2> QED BY <2>1, <2>2
<1>11. \A v \in Workers : PointInv(v)' /\ \A k \in Hooks : LogInv(v, k)'
  BY <1>7, <1>8
<1> QED BY <1>4, <1>9, <1>10, <1>11 DEF QuietInv

\* Nobody else is going to record a SUCCESS of the same job.
LEMMA ArrivedAlone ==
  ASSUME Inv, QuietInv, NEW w \in Workers, at[w] = "deliver", NEW h \in Hooks
  PROVE  /\ Arrived(on[w], h) <=> Delivered(on[w], h) \/ step[w][h] = "success"
         /\ received[on[w]][h] \in Nat /\ postFaults[h] \in Nat
         /\ received[on[w]][h] <= postFaults[h] + (IF Arrived(on[w], h) THEN 1 ELSE 0)
         /\ LogInv(w, h) /\ on[w] \in Jobs /\ on[w] \notin processed
<1>1. on[w] \in Jobs /\ \A v \in Workers \ {w} : on[v] # on[w]
  BY Alone
<1>2. Arrived(on[w], h) <=> Delivered(on[w], h) \/ step[w][h] = "success"
  BY <1>1 DEF Arrived
<1>3. CountInv(on[w], h) /\ LogInv(w, h) /\ PointInv(w)
  BY <1>1 DEF QuietInv
<1> QED BY <1>1, <1>2, <1>3, QuietTypes DEF CountInv, PointInv

\* deliver, as long as only POSTs fail.
LEMMA DeliveryQuiet ==
  ASSUME Inv, QuietInv, NEW w \in Workers, NEW h \in Hooks, DeliveryStep(w, h) \/ PostFails(w, h)
  PROVE  QuietInv'
<1> PICK j \in Jobs : j = on[w]
  BY QuietTypes
     DEF DeliveryStep, FindSuccessful, CreateDelivery, Post, PostFails, RecordRefusal, RecordSuccess,
         RecordFailure, Within
<1>1. /\ at[w] = "deliver" /\ step[w][h] \in {"lookup", "create", "post", "refused", "success", "failed"}
      /\ UNCHANGED <<queue, executionVars, active, registerVars, known, faults>> /\ on' = on
  BY DEF DeliveryStep, FindSuccessful, CreateDelivery, Post, PostFails, RecordRefusal, RecordSuccess,
     RecordFailure, Within, executionVars
<1>2. /\ Arrived(j, h) <=> Delivered(j, h) \/ step[w][h] = "success"
      /\ received[j][h] \in Nat /\ postFaults[h] \in Nat
      /\ received[j][h] <= postFaults[h] + (IF Arrived(j, h) THEN 1 ELSE 0)
      /\ h \in active
      /\ step[w][h] # "lookup" => ~ Delivered(j, h)
  BY <1>1, ArrivedAlone DEF LogInv
<1>3. /\ step \in [Workers -> [Hooks -> Steps]] /\ received \in [Jobs -> [Hooks -> Nat]]
      /\ postFaults \in [Hooks -> Nat]
  BY QuietTypes
<1>4. \A s : StepTo(w, h, s) => step'[w][h] = s
  BY <1>3 DEF StepTo
<1>5. step'[w][h] = "success" => Arrived(j, h)'
  BY <1>1 DEF Arrived
<1>6. Delivered(j, h)' => Arrived(j, h)'
  BY DEF Arrived
<1> DEFINE Elsewhere == \A i \in Jobs, k \in Hooks : i # j \/ k # h =>
                          deliveries'[i][k] = deliveries[i][k] /\ received'[i][k] = received[i][k]
           Faults == \A k \in Hooks : postFaults'[k] \in Nat /\ postFaults'[k] >= postFaults[k]
<1>0. /\ UNCHANGED postFaults => Faults
      /\ \A e : deliveries' = [deliveries EXCEPT ![j][h] = e] /\ UNCHANGED received
           => deliveries'[j][h] = e /\ Elsewhere
  BY <1>3, DeliveryTypes
<1>7. CASE FindSuccessful(w, h)
  <2>1. PICK s \in {"fulfilled", "create"} :
          StepTo(w, h, s) /\ (IF Delivered(j, h) THEN s = "fulfilled" ELSE s = "create")
    BY <1>7 DEF FindSuccessful
  <2>2. UNCHANGED <<deliveries, received, postFaults>> /\ step[w][h] = "lookup"
    BY <1>7 DEF FindSuccessful, Within
  <2>3. Delivered(j, h)' <=> Delivered(j, h)
    BY <2>2 DEF Delivered
  <2>4. LogInv(w, h)'
    BY <1>1, <1>2, <1>4, <2>1, <2>3 DEF LogInv
  <2>5. CountInv(j, h)'
    BY <1>2, <1>6, <2>2, <2>3 DEF CountInv
  <2>6. s \in Steps \ {"none"}
    BY DEF Steps, Settled
  <2>7. Elsewhere /\ Faults
    BY <1>0, <2>2
  <2> QED BY <1>1, <2>1, <2>3, <2>4, <2>5, <2>6, <2>7, DeliverQuiet
<1>8. CASE CreateDelivery(w, h)
  <2>1. /\ deliveries' = [deliveries EXCEPT ![j][h] = Append(@, "PENDING")]
        /\ StepTo(w, h, "post") /\ UNCHANGED <<received, postFaults>> /\ step[w][h] = "create"
    BY <1>8 DEF CreateDelivery, Within
  <2>2. ~ Delivered(j, h)'
    BY <1>2, <2>1, DocumentAdded
  <2>3. Elsewhere /\ Faults
    BY <1>0, <2>1
  <2>4. LogInv(w, h)'
    BY <1>1, <1>2, <1>4, <2>1, <2>2 DEF LogInv
  <2>5. CountInv(j, h)'
    BY <1>2, <2>1 DEF CountInv
  <2>6. "post" \in Steps \ {"none"}
    BY DEF Steps
  <2> QED BY <1>1, <1>2, <2>1, <2>3, <2>4, <2>5, <2>6, DeliverQuiet
<1>9. CASE Post(w, h)
  <2>1. /\ received' = [received EXCEPT ![j][h] = received[j][h] + 1]
        /\ StepTo(w, h, "success") /\ UNCHANGED <<deliveries, postFaults>> /\ step[w][h] = "post"
    BY <1>9 DEF Post, Within
  <2>2. Delivered(j, h)' <=> Delivered(j, h)
    BY <2>1 DEF Delivered
  <2>3. /\ received'[j][h] = received[j][h] + 1
        /\ Elsewhere /\ Faults
    BY <1>0, <1>3, <2>1
  <2>4. LogInv(w, h)'
    BY <1>1, <1>2, <1>4, <2>1, <2>2 DEF LogInv
  <2>5. CountInv(j, h)'
    BY <1>2, <1>4, <1>5, <2>1, <2>3 DEF CountInv
  <2>6. "success" \in Steps \ {"none"}
    BY DEF Steps
  <2> QED BY <1>1, <1>2, <2>1, <2>2, <2>3, <2>4, <2>5, <2>6, DeliverQuiet
<1>10. CASE PostFails(w, h)
  <2>1. PICK s \in {"refused", "failed"} : StepTo(w, h, s)
    BY <1>10 DEF PostFails
  <2>2. /\ received' = received \/ received' = [received EXCEPT ![j][h] = received[j][h] + 1]
        /\ postFaults' = [postFaults EXCEPT ![h] = postFaults[h] + 1]
        /\ UNCHANGED deliveries /\ step[w][h] = "post"
    BY <1>10 DEF PostFails, Within
  <2>3. Delivered(j, h)' <=> Delivered(j, h)
    BY <2>2 DEF Delivered
  <2>4. /\ received'[j][h] \in {received[j][h], received[j][h] + 1}
        /\ Elsewhere
    BY <1>3, <2>2
  <2>5. postFaults'[h] = postFaults[h] + 1 /\ Faults
    BY <1>3, <2>2
  <2>6. LogInv(w, h)'
    BY <1>1, <1>2, <1>4, <2>1, <2>2, <2>3 DEF LogInv
  <2>7. CountInv(j, h)'
    BY <1>2, <2>2, <2>4, <2>5 DEF CountInv
  <2>8. s \in Steps \ {"none"}
    BY DEF Steps
  <2> QED BY <1>1, <2>1, <2>3, <2>4, <2>5, <2>6, <2>7, <2>8, DeliverQuiet
<1>11. CASE RecordRefusal(w, h) \/ RecordFailure(w, h)
  <2>1. PICK s \in {"failed", "rejected"} : StepTo(w, h, s)
    BY <1>11 DEF RecordRefusal, RecordFailure
  <2>2. /\ SetStatus(w, h, "FAILED") /\ UNCHANGED <<received, postFaults>>
        /\ step[w][h] \in {"refused", "failed"}
    BY <1>11 DEF RecordRefusal, RecordFailure, Within
  <2>3. row[w][h] \in DOMAIN deliveries[j][h] /\ "FAILED" \in DeliveryStatus
    BY <2>2 DEF Inv, TypeOK, DeliveryStatus
  <2>4. ~ Delivered(j, h)'
    BY <1>2, <2>2, <2>3, StatusSet
  <2>5. Elsewhere /\ Faults
    <3>1. PICK e : deliveries' = [deliveries EXCEPT ![j][h] = e]
      BY <2>2 DEF SetStatus
    <3> QED BY <1>0, <2>2, <3>1
  <2>6. LogInv(w, h)'
    BY <1>1, <1>2, <1>4, <2>1, <2>4 DEF LogInv
  <2>7. CountInv(j, h)'
    BY <1>2, <2>2 DEF CountInv
  <2>8. s \in Steps \ {"none"}
    BY DEF Steps, Settled
  <2> QED BY <1>1, <1>2, <2>1, <2>2, <2>5, <2>6, <2>7, <2>8, DeliverQuiet
<1>12. CASE RecordSuccess(w, h)
  <2>1. /\ SetStatus(w, h, "SUCCESS") /\ UNCHANGED <<received, postFaults>>
        /\ StepTo(w, h, "fulfilled") /\ step[w][h] = "success"
    BY <1>12 DEF RecordSuccess, Within
  <2>2. row[w][h] \in DOMAIN deliveries[j][h]
    BY <2>1 DEF Inv, TypeOK
  <2>3. /\ deliveries'[j][h] = [deliveries[j][h] EXCEPT ![row[w][h]] = "SUCCESS"]
        /\ Elsewhere /\ Faults
    <3>1. deliveries' = [deliveries EXCEPT ![j][h] = [deliveries[j][h] EXCEPT ![row[w][h]] = "SUCCESS"]]
      BY <2>1 DEF SetStatus
    <3> QED BY <1>0, <2>1, <3>1
  <2>4. deliveries[j][h] \in Seq(DeliveryStatus)
    BY DeliveryTypes
  <2>5. Delivered(j, h)'
    BY <2>2, <2>3, <2>4 DEF Delivered
  <2>6. LogInv(w, h)'
    BY <1>1, <1>2, <1>4, <2>1, <2>5 DEF LogInv
  <2>7. CountInv(j, h)'
    BY <1>2, <1>6, <2>1, <2>5 DEF CountInv
  <2>8. "fulfilled" \in Steps \ {"none"}
    BY DEF Steps, Settled
  <2> QED BY <1>1, <1>2, <2>1, <2>3, <2>5, <2>6, <2>7, <2>8, DeliverQuiet
<1> QED BY <1>7, <1>8, <1>9, <1>10, <1>11, <1>12 DEF DeliveryStep

\* Every step after which only POSTs have failed.
LEMMA QuietStep ==
  ASSUME Inv, Undisturbed => QuietInv, [Next]_vars, Undisturbed' PROVE QuietInv'
<1> USE DEF Undisturbed
<1>1. faults \in [call : 0 .. MaxCallFaults, loss : 0 .. MaxLosses]
  BY DEF Inv, TypeOK, ExecutionTypeOK
<1>2. ~ CallFault
  BY <1>1, ExecutionBoundsAssumption DEF CallFault
<1>3. \A w \in Workers : ~ CallRejected(w) /\ \A h \in Hooks : ~ DeliveryCallRejected(w, h)
  BY <1>2 DEF CallRejected, DeliveryCallRejected
<1>4. \A w \in Workers : ~ Crash(w)
  BY <1>1, ExecutionBoundsAssumption DEF Crash, Die
<1>5. \A j \in Jobs : ~ LockLost(j)
  BY <1>1, ExecutionBoundsAssumption DEF LockLost, LoseLock
<1>6. CASE UNCHANGED vars
  BY <1>6 DEF QuietInv, AloneInv, PointInv, LogInv, OutcomeInv, CountInv, Arrived, LoggedAll, Gap,
     Delivered, IsFinalAttempt, vars, queue, executionVars, deliveryVars, registerVars
<1>7. CASE Next
  <2>1. UNCHANGED faults
    <3>1. ASSUME NEW w \in Workers, (\E j \in Jobs : Start(w, j)) \/ WorkerStep(w)
          PROVE  UNCHANGED faults
      BY <3>1 DEF WorkerStep, Start, Enter, Check, FindHooks, Gather, Mark, Handle, DeadLetter, Only,
         Proceed, Report, Settle
    <3>2. ASSUME NEW w \in Workers, NEW h \in Hooks, DeliveryStep(w, h) \/ PostFails(w, h)
          PROVE  UNCHANGED faults
      BY <3>2 DEF DeliveryStep, FindSuccessful, CreateDelivery, Post, PostFails, RecordRefusal,
         RecordSuccess, RecordFailure
    <3>3. ASSUME NEW j \in Jobs, Recover(j) \/ Dispatch(j) \/ Evict(j)
          PROVE  UNCHANGED faults
      BY <3>3 DEF Recover, Rescue, Dispatch, Readd, Evict, Forget
    <3>4. ASSUME NEW h \in Hooks, Register(h) PROVE UNCHANGED faults
      BY <3>4 DEF Register
    <3> QED BY <1>3, <1>4, <1>5, <1>7, <3>1, <3>2, <3>3, <3>4 DEF Next
  <2>2. QuietInv
    BY <2>1
  <2>3. \A j \in Jobs : ~ Recover(j)
    BY <2>2 DEF QuietInv, AloneInv, Recover, Rescue, Stall
  <2> QED BY <1>3, <1>4, <1>5, <1>7, <2>2, <2>3, StartQuiet, HandlerQuiet, ReportQuiet,
             SurroundingsQuiet, DeliveryQuiet DEF Next, WorkerStep
<1> QED BY <1>6, <1>7

\* As long as only POSTs fail, executions do not overlap and the log says what arrived.
THEOREM UndisturbedInvariance == Spec => [](Undisturbed => QuietInv)
<1>1. Init => (Undisturbed => QuietInv)
  BY InitQuiet
<1>2. Inv /\ (Undisturbed => QuietInv) /\ [Next]_vars => (Undisturbed => QuietInv)'
  BY QuietStep
<1> QED BY <1>1, <1>2, Invariance, PTL DEF Spec

\* However many webhooks fail how often: each receives the event once, and once more for each
\* of its own failed POSTs, although every failure repeats the job for all of them.
THEOREM Isolation == Spec => []FailuresIsolated
<1>1. Inv /\ (Undisturbed => QuietInv) => FailuresIsolated
  <2> SUFFICES ASSUME Inv, QuietInv, NEW j \in Jobs, NEW h \in Hooks
               PROVE  received[j][h] <= 1 + postFaults[h]
    BY DEF FailuresIsolated, Undisturbed
  <2>1. received[j][h] \in Nat /\ postFaults[h] \in Nat
    BY QuietTypes
  <2>2. received[j][h] <= postFaults[h] + (IF Arrived(j, h) THEN 1 ELSE 0)
    BY DEF QuietInv, CountInv
  <2> QED BY <2>1, <2>2
<1> QED BY <1>1, Invariance, UndisturbedInvariance, PTL

\* As long as only POSTs fail, the outcome of a job is that of its delivery log.
THEOREM OutcomeLogged == Spec => []OutcomeAgreesWithLog
<1>1. (Undisturbed => QuietInv) => OutcomeAgreesWithLog
  BY DEF Undisturbed, QuietInv, OutcomeInv, LoggedAll, Gap, OutcomeAgreesWithLog
<1> QED BY <1>1, UndisturbedInvariance, PTL
===============================================================================
