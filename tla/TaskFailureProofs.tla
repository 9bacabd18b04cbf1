--------------------------- MODULE TaskFailureProofs ---------------------------
(***************************************************************************)
(* While its owner only cancels and retries it, and for every value of the *)
(* constants: a task is failed only when its attempts or its deliveries    *)
(* are used up, and it keeps the contract of TaskContract.                 *)
(***************************************************************************)
EXTENDS TaskQueueProofs

\* What a step may do to the record.
Kept == task' = task \/ task' = Aged(task)
Renewal == \E w \in Worker : CanRenew(task, w) /\ task' = Renewed(task)
Marking ==
  \/ /\ CanClaimEnqueue(task) /\ Used(OverduePublished(task) \/ task.runAt = 0)
     /\ \E p \in Publisher : task' = EnqueueClaimed(task, p, nextRunAt)
  \/ \E p \in Publisher, id \in WorkflowRunId : task' = RunIdRecorded(task, p, id)
Claiming ==
  \E k \in RunAt, w \in Worker, iter \in Iteration :
    /\ wk[w].pc = "idle" /\ wk'[w].pc # "writing"
    /\ CanClaim(task, k, iter) /\ task' = Claimed(task, w, k, iter)
Settlement == \E w \in Worker : SettleWrite(w) \/ CrashAfterSettle(w)
Counting ==
  \E p \in Publisher : LET k == pub[p].for IN
    /\ CallbackApplies(task, k)
    /\ \/ task.failures >= 2 /\ task' = DeliveryFailed(task, k)
       \/ /\ task.failures < 2 /\ Used(TRUE)
          /\ task' = DeliveryRetried(task, k, nextRunAt)

LEMMA TaskMoves ==
  ASSUME TypeInv, Next
  PROVE  Kept \/ Renewal \/ Marking \/ Claiming \/ Settlement \/ Counting \/ Commanded
<1>1. wk \in [Worker -> Invocation] /\ wf \in [RunAt -> Run] /\ PubOK
  BY TypeParts DEF WkOK
<1>2. CASE Tick
  BY <1>2 DEF Tick, Kept
<1>3. ASSUME NEW p \in Publisher,
             Sweep(p) \/ Publishing(p) \/ CallbackStep(p) \/ Failing(p)
      PROVE  Kept \/ Marking \/ Counting
  <2>1. CASE PubClaim(p)
    BY <2>1 DEF PubClaim, Marking
  <2>2. CASE PubRecord(p)
    BY <1>1, <2>2, MarkerType DEF PubRecord, Marking, PubOK, CallOK
  <2>3. CASE PubClear(p)
    BY <2>3, MarkerType DEF PubClear, Marking
  <2>4. CASE CallbackCount(p) \/ CallbackGiveUp(p)
    BY <1>1, <2>4 DEF CallbackCount, CallbackGiveUp, Counting, PubOK, CallOK
  <2>5. CASE Sweep(p) \/ CallbackStale(p) \/ Failing(p) \/ PubRefused(p)
             \/ PubSend(p, TRUE)
    BY <2>5
    DEF Sweep, CallbackStale, Failing, PubRefused, PubSend, PubRejected, PubCrash, Kept
  <2> QED BY <1>3, <2>1, <2>2, <2>3, <2>4, <2>5 DEF Publishing, CallbackStep
<1>4. ASSUME NEW k \in RunAt, Wake(k) \/ DeliveryExhausted(k)
      PROVE  Kept
  BY <1>4 DEF Wake, DeliveryExhausted, Kept
<1>5. ASSUME NEW k \in RunAt, NEW p \in Publisher, Handoff(k, p) \/ CallbackRead(k, p)
      PROVE  Kept
  BY <1>5 DEF Handoff, CallbackRead, Kept
<1>6. ASSUME NEW k \in RunAt, NEW w \in Worker, StepClaim(k, w) \/ StepRefused(k, w)
      PROVE  Kept \/ Claiming
  <2>1. CASE StepClaim(k, w)
    <3>1. wk'[w].pc = "run" /\ wf[k].iter \in Iteration
      BY <1>1, <2>1 DEF StepClaim, Run
    <3> QED BY <2>1, <3>1 DEF StepClaim, Deliver, Claiming
  <2>2. CASE StepRefused(k, w)
    BY <2>2 DEF StepRefused, Kept
  <2> QED BY <1>6, <2>1, <2>2
<1>7. ASSUME NEW w \in Worker, Working(w) \/ Renew(w) \/ Slice(w) \/ Dying(w)
      PROVE  Kept \/ Renewal \/ Settlement
  <2>1. CASE SettleWrite(w) \/ CrashAfterSettle(w)
    BY <2>1 DEF SettleWrite, CrashAfterSettle, Settlement
  <2>2. CASE Renew(w)
    BY <2>2 DEF Renew, Renewal
  <2>3. CASE Slice(w) \/ WorkerCrash(w) \/ ReportRefused(w) \/ SettleThrown(w)
             \/ SettleLost(w)
    BY <2>3
    DEF Slice, Finish, ThrowSettled, Throw, WorkerCrash, ReportRefused,
        SettleThrown, SettleLost, Kept
  <2> QED BY <1>7, <2>1, <2>2, <2>3 DEF Working, Dying
<1> QED BY <1>2, <1>3, <1>4, <1>5, <1>6, <1>7 DEF Next

LEMMA SettlementParts ==
  Settlement =>
    \E w \in Worker :
      /\ wk[w].pc = "writing" /\ HoldsLease(task, w)
      /\ Used(wk[w].result \in Requeues)
      /\ task' = Settled(task, wk[w].result, nextRunAt)
BY DEF Settlement, SettleWrite, CrashAfterSettle

\* A gentle owner's commands.
LEMMA GentleCommands ==
  ASSUME OwnerCancelsAndRetries, Commanded
  PROVE  \/ CanCancel(task) /\ task' = Cancelled(task)
         \/ Used(TRUE) /\ CanRetry(task) /\ task' = Retried(task, nextRunAt)
<1>1. Commands \cap {"schedule", "checkpoint", "block", "complete"} = {}
  BY DEF OwnerCancelsAndRetries
<1> QED BY <1>1
    DEF Commanded, Cancel, Retry, Schedule, Checkpoint, Block, Complete, Command

-----------------------------------------------------------------------------
(* A task at rest has no lease: the settlement that puts it to rest clears *)
(* the lease, and no other step ends a run.                                *)

LEMMA SettledHasNoLease ==
  ASSUME NEW t \in TaskRecordType, NEW d, NEW fresh
  PROVE  Settled(t, d, fresh).lease = NoLease
BY DEF Settled, Requeued, TaskRecordType

LEMMA RestStep ==
  ASSUME OwnerCancelsAndRetries, TypeInv, RestHasNoLease, [Next]_vars
  PROVE  RestHasNoLease'
<1>1. task \in TaskRecordType
  BY TypeParts
<1> SUFFICES ASSUME task'.status \notin {"running", "cancel_requested"}
             PROVE  task'.lease = NoLease
  BY DEF RestHasNoLease
<1>2. ASSUME task.status = task'.status PROVE task.lease = NoLease
  BY <1>2 DEF RestHasNoLease
<1>3. CASE task' = task
  BY <1>2, <1>3
<1>4. CASE task' = Aged(task)
  <2>1. task'.status = task.status /\ task'.lease = [task.lease EXCEPT !.left = Less(@)]
    BY <1>1, <1>4 DEF Aged, TaskRecordType
  <2>2. [NoLease EXCEPT !.left = Less(@)] = NoLease
    BY DEF NoLease, Less
  <2> QED BY <1>2, <2>1, <2>2
<1>5. CASE Renewal
  <2>1. task'.status \in {"running", "cancel_requested"}
    BY <1>1, <1>5, QuietOperations DEF Renewal, CanRenew
  <2> QED BY <2>1
<1>6. CASE Marking
  <2>1. task'.status = task.status /\ task'.lease = task.lease
    BY <1>1, <1>6 DEF Marking, EnqueueClaimed, RunIdRecorded, TaskRecordType
  <2> QED BY <1>2, <2>1
<1>7. CASE Claiming
  BY <1>1, <1>7 DEF Claiming, Claimed, TaskRecordType
<1>8. CASE Settlement
  BY <1>1, <1>8, SettledHasNoLease, SettlementParts
<1>9. CASE Counting
  <2>1. task.status = "queued"
    BY <1>9 DEF Counting, CallbackApplies, Unclaimed
  <2>2. task'.lease = task.lease
    BY <1>1, <1>9 DEF Counting, DeliveryFailed, DeliveryRetried, TaskRecordType
  <2> QED BY <2>1, <2>2 DEF RestHasNoLease
<1>10. CASE CanCancel(task) /\ task' = Cancelled(task)
  <2>1. task'.lease = task.lease
    BY <1>1, <1>10 DEF Cancelled, TaskRecordType
  <2>2. task.status \in {"queued", "blocked", "failed"}
    BY <1>1, <1>10 DEF Cancelled, TaskRecordType
  <2> QED BY <2>1, <2>2 DEF RestHasNoLease
<1>11. CASE CanRetry(task) /\ task' = Retried(task, nextRunAt)
  <2>1. task'.lease = task.lease
    BY <1>1, <1>11 DEF Retried, TaskRecordType
  <2>2. task.status \in {"failed", "blocked", "cancelled"}
    BY <1>11 DEF CanRetry
  <2> QED BY <2>1, <2>2 DEF RestHasNoLease
<1> QED BY <1>3, <1>4, <1>5, <1>6, <1>7, <1>8, <1>9, <1>10, <1>11,
           TaskMoves, GentleCommands DEF Kept, vars

-----------------------------------------------------------------------------
(* attempt stands still between a decision to fail and its settlement.     *)

\* A worker that is about to write decided just now, or had decided before.
LEMMA DecidedWhen ==
  ASSUME TypeInv, Next, NEW w \in Worker, wk'[w].pc = "writing"
  PROVE  \/ wk[w].pc = "writing" /\ wk'[w].result = wk[w].result
         \/ /\ task' = task
            /\ \E outcome \in Outcomes \cup {"cancelled", "blocked", "failed"} :
                 wk'[w].result = Decided(task, outcome)
<1>1. wk \in [Worker -> Invocation]
  BY TypeParts DEF WkOK
<1> DEFINE Returned == Outcomes \cup {"cancelled", "blocked", "failed"}
           Since(v) ==
      \/ wk[v].pc = "writing" /\ wk'[v].result = wk[v].result
      \/ task' = task /\ \E outcome \in Returned : wk'[v].result = Decided(task, outcome)
<1>2. ASSUME UNCHANGED wk PROVE Since(w)
  BY <1>2
<1>3. ASSUME NEW v \in Worker, NEW i, wk' = [wk EXCEPT ![v] = i], i.pc # "writing"
      PROVE  Since(w)
  BY <1>1, <1>3
<1>4. ASSUME NEW v \in Worker, NEW outcome \in Returned, task' = task,
             Settling(v, outcome)
      PROVE  Since(w)
  <2>1. CASE task.lease.holder = v
    <3>1. wk' = [wk EXCEPT ![v].pc = "writing", ![v].result = Decided(task, outcome)]
      BY <2>1, <1>4 DEF Settling
    <3>2. wk'[v].result = Decided(task, outcome)
      BY <1>1, <3>1 DEF Invocation
    <3>3. v # w => wk'[w] = wk[w]
      BY <1>1, <3>1
    <3> QED BY <1>4, <3>2, <3>3
  <2>2. CASE task.lease.holder # v
    <3>1. wk' = [wk EXCEPT ![v] = NoInvocation]
      BY <1>4, <2>2 DEF Settling, ReportNothing
    <3>2. NoInvocation.pc # "writing"
      BY DEF NoInvocation
    <3> QED BY <1>3, <3>1, <3>2
  <2> QED BY <2>1, <2>2
<1>5. ASSUME NEW k \in RunAt, NEW v \in Worker, StepClaim(k, v) \/ StepRefused(k, v)
      PROVE  Since(w)
  <2>1. ASSUME NEW pc \in {"run", "refused"}
        PROVE  [pc |-> pc, run |-> k, iter |-> wf[k].iter, result |-> "none"].pc # "writing"
    OBVIOUS
  <2> QED BY <1>3, <1>5, <2>1 DEF StepClaim, StepRefused
<1>6. ASSUME NEW v \in Worker, Working(v) \/ Renew(v) \/ Slice(v) \/ Dying(v)
      PROVE  Since(w)
  <2>1. CASE ReportRefused(v) \/ SettleWrite(v) \/ SettleLost(v) \/ Dying(v)
             \/ ThrowSettled(v)
    <3>1. wk' = [wk EXCEPT ![v] = NoInvocation]
      BY <2>1, Zenon
      DEF ReportRefused, SettleWrite, SettleLost, Dying, WorkerCrash,
          CrashAfterSettle, ThrowSettled, Report, ReportNothing
    <3>2. NoInvocation.pc # "writing"
      BY DEF NoInvocation
    <3> QED BY <1>3, <3>1, <3>2
  <2>2. CASE SettleThrown(v)
    <3>1. wk[v].result \in Returned
      BY <2>2, TypeParts DEF SettleThrown, WkOK, WorkOK
    <3> QED BY <1>4, <2>2, <3>1 DEF SettleThrown
  <2>3. ASSUME NEW outcome \in Outcomes, Finish(v, outcome)
        PROVE  Since(w)
    BY <1>4, <2>3 DEF Finish
  <2>4. ASSUME NEW leaseLoss \in BOOLEAN, Throw(v, leaseLoss)
        PROVE  Since(w)
    <3> DEFINE result == IF task.status \in {"cancel_requested", "cancelled"} THEN "cancelled"
                         ELSE IF leaseLoss /\ task.lease.holder = v THEN "blocked"
                         ELSE "failed"
               i == [wk[v] EXCEPT !.pc = "settling", !.result = result]
    <3>1. wk' = [wk EXCEPT ![v] = i]
      BY <1>1, <2>4 DEF Throw
    <3>2. i.pc # "writing"
      BY <1>1 DEF Invocation
    <3> QED BY <1>3, <3>1, <3>2
  <2>5. CASE Renew(v)
    BY <1>2, <2>5 DEF Renew
  <2> QED BY <1>6, <2>1, <2>2, <2>3, <2>4, <2>5 DEF Working, Slice
<1>7. Since(w)
  <2>1. CASE Tick \/ Commanded
    BY <1>2, <2>1
    DEF Tick, Commanded, Cancel, Retry, Schedule, Checkpoint, Block, Complete, Command
  <2>2. ASSUME NEW p \in Publisher,
               Sweep(p) \/ Publishing(p) \/ CallbackStep(p) \/ Failing(p)
        PROVE  Since(w)
    BY <1>2, <2>2
    DEF Sweep, Publishing, PubClaim, PubRefused, PubSend, PubRecord, PubClear,
        CallbackStep, CallbackCount, CallbackGiveUp, CallbackStale,
        Failing, PubRejected, PubCrash
  <2>3. ASSUME NEW k \in RunAt,
               \/ Wake(k) \/ DeliveryExhausted(k)
               \/ \E p \in Publisher : Handoff(k, p) \/ CallbackRead(k, p)
        PROVE  Since(w)
    BY <1>2, <2>3 DEF Wake, DeliveryExhausted, Handoff, CallbackRead
  <2> QED BY <1>5, <1>6, <2>1, <2>2, <2>3 DEF Next
<1> QED BY <1>7

LEMMA DecisionStep ==
  ASSUME OwnerCancelsAndRetries, TypeInv, RestHasNoLease, DecisionStands, [Next]_vars
  PROVE  DecisionStands'
<1>1. task \in TaskRecordType
  BY TypeParts
<1>2. CASE UNCHANGED vars
  BY <1>2 DEF vars, DecisionStands
<1>3. CASE Next
  <2> SUFFICES ASSUME NEW w \in Worker, wk'[w].pc = "writing",
                      wk'[w].result = "failed", task'.lease.holder = w
               PROVE  task'.attempt = MaxAttempts
    BY DEF DecisionStands
  <2>1. CASE /\ task' = task
             /\ \E outcome \in Outcomes \cup {"cancelled", "blocked", "failed"} :
                  wk'[w].result = Decided(task, outcome)
    BY <1>1, <2>1, Bounds DEF Decided, TaskRecordType
  <2>2. CASE wk[w].pc = "writing" /\ wk[w].result = "failed"
    <3>1. ASSUME task'.attempt = task.attempt, task'.lease.holder = task.lease.holder
          PROVE  task'.attempt = MaxAttempts
      BY <2>2, <3>1 DEF DecisionStands
    <3>2. NoLease.holder # w
      BY NoLeaseType, Bounds
    <3>3. CASE Kept \/ Renewal
      BY <1>1, <3>1, <3>3, QuietOperations DEF Kept, Renewal
    <3>4. CASE Marking
      BY <1>1, <3>1, <3>4 DEF Marking, EnqueueClaimed, RunIdRecorded, TaskRecordType
    <3>5. CASE Claiming
      BY <1>1, <2>2, <3>5 DEF Claiming, Claimed, TaskRecordType
    <3>6. CASE Settlement
      BY <1>1, <3>2, <3>6, SettledHasNoLease, SettlementParts
    <3>7. CASE Counting
      BY <1>1, <3>1, <3>7 DEF Counting, DeliveryFailed, DeliveryRetried, TaskRecordType
    <3>8. CASE task' = Cancelled(task)
      BY <1>1, <3>1, <3>8 DEF Cancelled, TaskRecordType
    <3>9. CASE CanRetry(task) /\ task' = Retried(task, nextRunAt)
      <4>1. task.lease = NoLease
        BY <3>9 DEF CanRetry, RestHasNoLease
      <4>2. task'.lease = task.lease
        BY <1>1, <3>9 DEF Retried, TaskRecordType
      <4> QED BY <3>2, <4>1, <4>2
    <3> QED BY <1>3, <3>3, <3>4, <3>5, <3>6, <3>7, <3>8, <3>9, TaskMoves, GentleCommands
  <2> QED BY <1>3, <2>1, <2>2, DecidedWhen
<1> QED BY <1>2, <1>3

-----------------------------------------------------------------------------

LEMMA FailureInitially == Init => TypeInv /\ RestHasNoLease /\ DecisionStands
<1>1. Init => RestHasNoLease /\ DecisionStands
  BY DEF Init, RestHasNoLease, DecisionStands, NewTask, NoInvocation
<1> QED BY <1>1, TypeInitially

\* A step that fails the task finds its attempts or its deliveries used up.
LEMMA FailingStep ==
  ASSUME OwnerCancelsAndRetries, TypeInv, DecisionStands, [Next]_vars,
         task'.status = "failed", task.status # "failed"
  PROVE  task'.attempt = MaxAttempts \/ task'.failures = 3
<1>1. task \in TaskRecordType
  BY TypeParts
<1>2. Next /\ ~Kept /\ ~Renewal
  BY <1>1, QuietOperations DEF vars, Kept, Renewal
<1>3. ~Marking
  BY <1>1 DEF Marking, EnqueueClaimed, RunIdRecorded, TaskRecordType
<1>4. ~Claiming
  BY <1>1 DEF Claiming, Claimed, TaskRecordType
<1>5. CASE Settlement
  <2>1. PICK w \in Worker : /\ wk[w].pc = "writing" /\ HoldsLease(task, w)
                            /\ task' = Settled(task, wk[w].result, nextRunAt)
    BY <1>5, SettlementParts
  <2>2. wk[w].result = "failed"
    BY <1>1, <2>1 DEF Settled, Requeued, TaskRecordType
  <2>3. task.attempt = MaxAttempts
    BY <2>1, <2>2 DEF DecisionStands, HoldsLease
  <2>4. task'.attempt = task.attempt
    BY <1>1, <2>1, <2>2 DEF Settled, Requeues, Waits, TaskRecordType
  <2> QED BY <2>3, <2>4
<1>6. CASE Counting
  BY <1>1, <1>6 DEF Counting, CallbackApplies, Unclaimed, DeliveryFailed,
                   DeliveryRetried, TaskRecordType
<1>7. CASE Commanded
  BY <1>1, <1>7, GentleCommands DEF Cancelled, Retried, TaskRecordType
<1> QED BY <1>2, <1>3, <1>4, <1>5, <1>6, <1>7, TaskMoves

\* The decision to fail a task is taken from a record read earlier.  It is still
\* right when it is written: attempt stands still under the decider's lease.
THEOREM FailureJustified == OwnerCancelsAndRetries => (Spec => FailsOnlyWhenUsedUp)
<1> SUFFICES ASSUME OwnerCancelsAndRetries PROVE Spec => FailsOnlyWhenUsedUp
  OBVIOUS
<1> DEFINE Inv == TypeInv /\ RestHasNoLease /\ DecisionStands
<1>1. Inv /\ [Next]_vars => Inv'
  BY TypeStep, RestStep, DecisionStep
<1>2. Inv /\ [Next]_vars =>
        [task'.status = "failed" /\ task.status # "failed"
           => task'.attempt = MaxAttempts \/ task'.failures = 3]_vars
  BY FailingStep
<1> QED BY <1>1, <1>2, FailureInitially, PTL DEF Spec, FailsOnlyWhenUsedUp

-----------------------------------------------------------------------------
(* The task keeps the contract: each of its steps, however it came about,  *)
(* is a step of TaskContract or leaves what that sees alone.               *)

LEMMA DeliveriesStep ==
  ASSUME OwnerCancelsAndRetries, TypeInv, RestHasNoLease, DeliveriesLeft, [Next]_vars
  PROVE  DeliveriesLeft'
<1>1. task \in TaskRecordType
  BY TypeParts
<1> SUFFICES ASSUME task'.status \notin {"failed", "cancelled"}
             PROVE  task'.failures < 3
  BY DEF DeliveriesLeft
<1>2. ASSUME task'.status = task.status, task'.failures = task.failures
      PROVE  task'.failures < 3
  BY <1>2 DEF DeliveriesLeft
<1>3. CASE task' = task
  BY <1>2, <1>3
<1>4. CASE task' = Aged(task) \/ Renewal
  BY <1>1, <1>2, <1>4 DEF Renewal, Renewed, Aged, TaskRecordType
<1>5. CASE Marking
  BY <1>1, <1>2, <1>5 DEF Marking, EnqueueClaimed, RunIdRecorded, TaskRecordType
<1>6. CASE Claiming
  BY <1>1, <1>6 DEF Claiming, Claimed, TaskRecordType
<1>7. CASE Settlement
  <2>1. PICK w \in Worker : /\ HoldsLease(task, w)
                            /\ task' = Settled(task, wk[w].result, nextRunAt)
    BY <1>7, SettlementParts
  <2>2. task.status \in {"running", "cancel_requested"}
    BY <2>1, NoLeaseType, Bounds DEF HoldsLease, RestHasNoLease
  <2>3. task'.failures = task.failures
    BY <1>1, <2>1 DEF Settled, Requeued, TaskRecordType
  <2> QED BY <2>2, <2>3 DEF DeliveriesLeft
<1>8. CASE Counting
  <2>1. PICK p \in Publisher :
          \/ task' = DeliveryFailed(task, pub[p].for)
          \/ task.failures < 2 /\ task' = DeliveryRetried(task, pub[p].for, nextRunAt)
    BY <1>8 DEF Counting
  <2>2. CASE task' = DeliveryFailed(task, pub[p].for)
    BY <1>1, <2>2 DEF DeliveryFailed, TaskRecordType
  <2>3. CASE task.failures < 2 /\ task' = DeliveryRetried(task, pub[p].for, nextRunAt)
    <3>1. task.failures \in 0..3
      BY <1>1 DEF TaskRecordType
    <3>2. task'.failures = task.failures + 1
      BY <1>1, <2>3 DEF DeliveryRetried, TaskRecordType
    <3> QED BY <2>3, <3>1, <3>2
  <2> QED BY <2>1, <2>2, <2>3
<1>9. CASE CanCancel(task) /\ task' = Cancelled(task)
  <2>1. task.status \notin {"failed", "cancelled"} /\ task'.failures = task.failures
    BY <1>1, <1>9 DEF CanCancel, Cancelled, TaskRecordType, Status
  <2> QED BY <2>1 DEF DeliveriesLeft
<1>10. CASE task' = Retried(task, nextRunAt)
  BY <1>1, <1>10 DEF Retried, TaskRecordType
<1> QED BY <1>3, <1>4, <1>5, <1>6, <1>7, <1>8, <1>9, <1>10,
           TaskMoves, GentleCommands DEF Kept, vars

LEMMA ContractStep ==
  ASSUME OwnerCancelsAndRetries, TypeInv, RestHasNoLease, DecisionStands,
         DeliveriesLeft, [Next]_vars
  PROVE  [Contract!Next]_(Contract!vars)
<1>1. task \in TaskRecordType
  BY TypeParts
<1>2. ASSUME task'.status = task.status, task'.attempt = task.attempt,
             task'.failures = task.failures
      PROVE  UNCHANGED Contract!vars
  BY <1>2 DEF Contract!vars
<1>3. CASE task' = task
  BY <1>2, <1>3
<1>4. CASE task' = Aged(task) \/ Renewal
  BY <1>1, <1>2, <1>4 DEF Renewal, Renewed, Aged, TaskRecordType
<1>5. CASE Marking
  BY <1>1, <1>2, <1>5 DEF Marking, EnqueueClaimed, RunIdRecorded, TaskRecordType
<1>6. CASE Claiming
  <2>1. task.status \in {"queued", "running"}
    BY <1>6 DEF Claiming, CanClaim, ExpiredRunning
  <2>2. /\ task'.status = "running" /\ task'.failures = 0
        /\ task'.attempt = Attempted(task)
    BY <1>1, <1>6 DEF Claiming, Claimed, TaskRecordType
  <2>3. /\ Attempted(task) \in {task.attempt, task.attempt + 1}
        /\ Attempted(task) <= MaxAttempts
    BY <1>1, Bounds DEF Attempted, TaskRecordType
  <2>4. Contract!Take
    BY <2>1, <2>2, <2>3 DEF Contract!Take
  <2> QED BY <2>4 DEF Contract!Next
<1>7. CASE Settlement
  <2>1. PICK w \in Worker : /\ wk[w].pc = "writing" /\ HoldsLease(task, w)
                            /\ task' = Settled(task, wk[w].result, nextRunAt)
    BY <1>7, SettlementParts
  <2>2. task.status \in {"running", "cancel_requested"}
    BY <2>1, NoLeaseType, Bounds DEF HoldsLease, RestHasNoLease
  <2>3. wk[w].result \in Decision
    BY <2>1, TypeParts DEF WkOK, WorkOK
  <2>4. task'.failures = task.failures
    BY <1>1, <2>1 DEF Settled, Requeued, TaskRecordType
  <2>5. CASE wk[w].result \in Requeues
    <3>1. task'.status = "queued" /\ task'.attempt \in {0, task.attempt}
      BY <1>1, <2>1, <2>5 DEF Settled, Requeued, Requeues, Waits, TaskRecordType
    <3>2. Contract!PutBack
      BY <2>2, <2>4, <3>1 DEF Contract!PutBack, Contract!InHand
    <3> QED BY <3>2 DEF Contract!Next
  <2>6. CASE wk[w].result \in {"completed", "blocked", "failed", "cancelled"}
    <3>1. task'.status = wk[w].result /\ task'.attempt = task.attempt
      BY <1>1, <2>1, <2>6 DEF Settled, Requeues, Waits, TaskRecordType
    <3>2. wk[w].result = "failed" => task.attempt = MaxAttempts
      BY <2>1 DEF DecisionStands, HoldsLease
    <3>3. Contract!Finish(wk[w].result)
      BY <2>2, <2>4, <3>1, <3>2 DEF Contract!Finish, Contract!InHand
    <3> QED BY <2>6, <3>3 DEF Contract!Next
  <2> QED BY <2>3, <2>5, <2>6 DEF Decision, Outcome, Requeues
<1>8. CASE Counting
  <2>1. task.status = "queued" /\ task.failures < 3
    BY <1>8 DEF Counting, CallbackApplies, Unclaimed, DeliveriesLeft
  <2>2. /\ task'.failures = task.failures + 1 /\ task'.attempt = task.attempt
        /\ task'.status = IF task'.failures = 3 THEN "failed" ELSE "queued"
    <3>1. PICK p \in Publisher :
            \/ task.failures >= 2 /\ task' = DeliveryFailed(task, pub[p].for)
            \/ task.failures < 2 /\ task' = DeliveryRetried(task, pub[p].for, nextRunAt)
      BY <1>8 DEF Counting
    <3>2. task.failures \in 0..3
      BY <1>1 DEF TaskRecordType
    <3>3. CASE task.failures >= 2 /\ task' = DeliveryFailed(task, pub[p].for)
      <4>1. task'.failures = 3 /\ task'.attempt = task.attempt /\ task'.status = "failed"
        BY <1>1, <3>3 DEF DeliveryFailed, TaskRecordType
      <4> QED BY <2>1, <3>2, <3>3, <4>1
    <3>4. CASE task.failures < 2 /\ task' = DeliveryRetried(task, pub[p].for, nextRunAt)
      <4>1. /\ task'.failures = task.failures + 1 /\ task'.attempt = task.attempt
            /\ task'.status = task.status
        BY <1>1, <3>4 DEF DeliveryRetried, TaskRecordType
      <4> QED BY <2>1, <3>2, <3>4, <4>1
    <3> QED BY <3>1, <3>3, <3>4
  <2>3. Contract!Miss
    BY <2>1, <2>2 DEF Contract!Miss
  <2> QED BY <2>3 DEF Contract!Next
<1>9. CASE CanCancel(task) /\ task' = Cancelled(task)
  <2>1. /\ task'.status = IF task.status \in {"running", "cancel_requested"}
                            THEN "cancel_requested" ELSE "cancelled"
        /\ task'.attempt = task.attempt /\ task'.failures = task.failures
    BY <1>1, <1>9 DEF CanCancel, Cancelled, TaskRecordType, Status
  <2>2. Contract!Cancel
    BY <1>9, <2>1 DEF CanCancel, Contract!Cancel, Contract!InHand
  <2> QED BY <2>2 DEF Contract!Next
<1>10. CASE CanRetry(task) /\ task' = Retried(task, nextRunAt)
  <2>1. Contract!Retry
    BY <1>1, <1>10 DEF CanRetry, Retried, TaskRecordType, Contract!Retry
  <2> QED BY <2>1 DEF Contract!Next
<1> QED BY <1>3, <1>4, <1>5, <1>6, <1>7, <1>8, <1>9, <1>10,
           TaskMoves, GentleCommands DEF Kept, vars

\* The task record with everyone who acts on it implements the contract, while
\* its owner only cancels and retries it: a completed task stays so, a failure
\* is earned, and publication, delivery and recovery change nothing else.
THEOREM ContractKept == OwnerCancelsAndRetries => (Spec => KeepsContract)
<1> SUFFICES ASSUME OwnerCancelsAndRetries PROVE Spec => KeepsContract
  OBVIOUS
<1> DEFINE Inv == TypeInv /\ RestHasNoLease /\ DecisionStands /\ DeliveriesLeft
<1>1. Init => Inv /\ Contract!Init
  <2>1. Init => DeliveriesLeft /\ Contract!Init
    BY DEF Init, NewTask, DeliveriesLeft, Contract!Init
  <2> QED BY <2>1, FailureInitially
<1>2. Inv /\ [Next]_vars => Inv'
  BY TypeStep, RestStep, DecisionStep, DeliveriesStep
<1>3. Inv /\ [Next]_vars => [Contract!Next]_(Contract!vars)
  BY ContractStep
<1> HIDE DEF Inv
<1> QED BY <1>1, <1>2, <1>3, PTL DEF Spec, KeepsContract, Contract!Spec
=============================================================================
