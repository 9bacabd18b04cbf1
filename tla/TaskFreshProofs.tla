---------------------------- MODULE TaskFreshProofs ---------------------------
(***************************************************************************)
(* What a step leaves alone: a runAt value not used yet is known to nobody, *)
(* a workflow run that exists stays in existence, and a worker's step       *)
(* touches only its own run.  From the first: a run's failed delivery is    *)
(* counted once.                                                            *)
(***************************************************************************)
EXTENDS TaskFailureProofs, FiniteSetTheorems

-----------------------------------------------------------------------------
(* A fresh runAt is one nothing knows yet.                                 *)

LEMMA FreshParts ==
  ASSUME TypeInv, FreshIsUnused
  PROVE  /\ task.runAt < nextRunAt /\ task.lastFailed < nextRunAt
         /\ \A p \in Publisher : pub[p].key < nextRunAt /\ pub[p].for < nextRunAt
         /\ \A w \in Worker : wk[w].run < nextRunAt
         /\ \A k \in RunAt : wf[k].st # "none" => k < nextRunAt
         /\ nextRunAt \in Nat /\ 0 < nextRunAt
<1>1. nextRunAt \in Nat /\ 0 < nextRunAt
  BY Bounds DEF TypeInv, TypeOK
<1>2. \A k \in RunAt : k \in Nat
  BY Bounds DEF RunAt
<1> QED BY <1>1, <1>2 DEF FreshIsUnused

\* The step keeps the fields that FreshIsUnused is about below the counter.
LEMMA FreshNext ==
  ASSUME TypeInv, TypeInv', FreshIsUnused, nextRunAt' >= nextRunAt,
         task'.runAt < nextRunAt', task'.lastFailed < nextRunAt',
         \A p \in Publisher : pub'[p].key < nextRunAt' /\ pub'[p].for < nextRunAt',
         \A w \in Worker : wk'[w].run < nextRunAt',
         \A k \in RunAt : k >= nextRunAt => wf'[k].st = wf[k].st
  PROVE  FreshIsUnused'
<1>1. nextRunAt \in Nat /\ nextRunAt' \in Nat /\ \A k \in RunAt : k \in Nat
  BY Bounds DEF TypeInv, TypeOK, RunAt
<1>2. \A k \in RunAt : k >= nextRunAt' => wf'[k].st = "none"
  BY <1>1 DEF FreshIsUnused
<1> QED BY <1>2 DEF FreshIsUnused

\* What every step does to the counter.
LEMMA CounterGrows ==
  ASSUME TypeInv, Next
  PROVE  nextRunAt' = nextRunAt \/ nextRunAt' = nextRunAt + 1
BY DEF Next, Tick, Sweep, Publishing, PubClaim, PubRefused, PubSend, PubRecord,
       PubClear, CallbackStep, CallbackCount, CallbackGiveUp, CallbackStale,
       Failing, PubRejected, PubCrash, Wake, DeliveryExhausted, Handoff,
       CallbackRead, StepClaim, StepRefused, Working, ReportRefused,
       SettleThrown, SettleWrite, SettleLost, Renew, Slice, Finish,
       ThrowSettled, Throw, Dying, WorkerCrash, CrashAfterSettle,
       Commanded, Cancel, Retry, Schedule, Checkpoint, Block, Complete, Used

\* A worker's step touches the run it is for and no other, and a worker keeps to
\* its run until it is done.
LEMMA WorkerKeepsToItsRun ==
  ASSUME TypeInv, NEW v \in Worker, Working(v) \/ Renew(v) \/ Slice(v) \/ Dying(v)
  PROVE  /\ \A k \in RunAt : k # wk[v].run => wf'[k] = wf[k]
         /\ \A w \in Worker : wk'[w].run = wk[w].run \/ wk'[w].run = 0
         /\ UNCHANGED pub
<1>1. wf \in [RunAt -> Run] /\ wk \in [Worker -> Invocation]
  BY TypeParts DEF WkOK
<1> DEFINE Away == \A k \in RunAt : k # wk[v].run => wf'[k] = wf[k]
           Keeps == \A w \in Worker : wk'[w].run = wk[w].run \/ wk'[w].run = 0
<1>2. ASSUME UNCHANGED wf PROVE Away
  BY <1>2
<1>3. ASSUME NEW i, wk' = [wk EXCEPT ![v] = i], i.run = wk[v].run \/ i.run = 0
      PROVE  Keeps
  BY <1>1, <1>3
<1>4. NoInvocation.run = 0
  BY DEF NoInvocation
<1>5. ASSUME NEW claimed, NEW t, Report(v, claimed, t)
      PROVE  Away /\ Keeps
  <2>1. Away
    BY <1>1, <1>5 DEF Report
  <2>2. wk' = [wk EXCEPT ![v] = NoInvocation]
    BY <1>5 DEF Report
  <2> QED BY <1>3, <1>4, <2>1, <2>2
<1>6. ASSUME ReportNothing(v)
      PROVE  Away /\ Keeps
  <2>1. Away
    BY <1>1, <1>6 DEF ReportNothing, EndedFor
  <2>2. wk' = [wk EXCEPT ![v] = NoInvocation]
    BY <1>6 DEF ReportNothing
  <2> QED BY <1>3, <1>4, <2>1, <2>2
<1>7. ASSUME NEW outcome, Settling(v, outcome)
      PROVE  Away /\ Keeps
  <2>1. CASE task.lease.holder = v
    <3> DEFINE i == [wk[v] EXCEPT !.pc = "writing", !.result = Decided(task, outcome)]
    <3>1. wk' = [wk EXCEPT ![v] = i] /\ UNCHANGED wf
      BY <1>1, <1>7, <2>1 DEF Settling
    <3>2. i.run = wk[v].run
      BY <1>1 DEF Invocation
    <3> QED BY <1>2, <1>3, <3>1, <3>2
  <2> QED BY <1>6, <1>7, <2>1 DEF Settling
<1>8. ASSUME NEW leaseLoss \in BOOLEAN, Throw(v, leaseLoss)
      PROVE  Away /\ Keeps
  <2>1. PICK result : wk' = [wk EXCEPT ![v].pc = "settling", ![v].result = result]
    BY <1>8 DEF Throw
  <2>2. wk' = [wk EXCEPT ![v] = [wk[v] EXCEPT !.pc = "settling", !.result = result]]
    BY <1>1, <2>1
  <2>3. [wk[v] EXCEPT !.pc = "settling", !.result = result].run = wk[v].run
    BY <1>1 DEF Invocation
  <2> QED BY <1>2, <1>3, <1>8, <2>2, <2>3 DEF Throw
<1>9. ASSUME Working(v) PROVE Away /\ Keeps
  BY <1>5, <1>6, <1>7, <1>9
  DEF Working, ReportRefused, SettleThrown, SettleWrite, SettleLost
<1>10. ASSUME Slice(v) PROVE Away /\ Keeps
  BY <1>5, <1>7, <1>8, <1>10 DEF Slice, Finish, ThrowSettled
<1>11. ASSUME Dying(v) PROVE Away /\ Keeps
  BY <1>2, <1>3, <1>4, <1>11 DEF Dying, WorkerCrash, CrashAfterSettle
<1>12. ASSUME Renew(v) PROVE Away /\ Keeps
  BY <1>1, <1>12 DEF Renew
<1>13. UNCHANGED pub
  BY DEF Working, ReportRefused, SettleThrown, SettleWrite, SettleLost, Renew,
         Slice, Finish, ThrowSettled, Throw, Dying, WorkerCrash, CrashAfterSettle
<1> QED BY <1>9, <1>10, <1>11, <1>12, <1>13

\* A step changes at most one run, and one that exists or is being created.
LEMMA FreshRuns ==
  ASSUME TypeInv, FreshIsUnused, Next, NEW k \in RunAt, k >= nextRunAt
  PROVE  wf'[k] = wf[k] \/ Tick
<1>1. wf \in [RunAt -> Run] /\ PubOK /\ WkOK
  BY TypeParts
<1>2. k # 0 /\ k \in Nat /\ nextRunAt \in Nat /\ k # nextRunAt - 1
  BY FreshParts DEF RunAt
<1>3. ASSUME NEW j, j = 0 \/ j < nextRunAt, NEW r, wf' = [wf EXCEPT ![j] = r]
      PROVE  wf'[k] = wf[k]
  BY <1>1, <1>2, <1>3
<1>4. ASSUME NEW j, j < nextRunAt, wf' = EndedFor(j)
      PROVE  wf'[k] = wf[k]
  BY <1>1, <1>2, <1>4 DEF EndedFor
<1>5. ASSUME NEW p \in Publisher,
             Sweep(p) \/ Publishing(p) \/ CallbackStep(p) \/ Failing(p)
      PROVE  wf'[k] = wf[k]
  <2>1. pub[p].for < nextRunAt /\ pub[p].key < nextRunAt
    BY FreshParts
  <2>2. CASE PubRefused(p) \/ PubRecord(p) \/ CallbackGiveUp(p) \/ CallbackStale(p)
    BY <1>4, <2>1, <2>2 DEF PubRefused, PubRecord, CallbackGiveUp, CallbackStale
  <2>3. ASSUME NEW answered \in BOOLEAN, PubSend(p, answered)
        PROVE  wf'[k] = wf[k]
    BY <1>3, <2>1, <2>3 DEF PubSend
  <2>4. CASE Sweep(p) \/ PubClaim(p) \/ PubClear(p) \/ CallbackCount(p)
             \/ PubRejected(p) \/ PubCrash(p)
    BY <2>4 DEF Sweep, PubClaim, PubClear, CallbackCount, PubRejected, PubCrash
  <2> QED BY <1>5, <2>2, <2>3, <2>4 DEF Publishing, CallbackStep, Failing
<1>6. ASSUME NEW j \in RunAt,
             \/ Wake(j) \/ DeliveryExhausted(j)
             \/ \E p \in Publisher : Handoff(j, p) \/ CallbackRead(j, p)
      PROVE  wf'[k] = wf[k]
  <2>1. j < nextRunAt
    BY <1>6, FreshParts DEF Wake, DeliveryExhausted, Handoff, CallbackRead
  <2>2. CASE Wake(j) \/ DeliveryExhausted(j)
    BY <1>1, <1>2, <2>1, <2>2 DEF Wake, DeliveryExhausted
  <2> QED BY <1>4, <1>6, <2>1, <2>2 DEF Handoff, CallbackRead
<1>7. ASSUME NEW w \in Worker, Working(w) \/ Renew(w) \/ Slice(w) \/ Dying(w)
      PROVE  wf'[k] = wf[k]
  <2>1. wk[w].run \in Nat /\ wk[w].run < nextRunAt
    BY FreshParts DEF TypeInv, TypeOK, Invocation, RunAt
  <2> QED BY <1>2, <1>7, <2>1, WorkerKeepsToItsRun
<1>8. ASSUME NEW j \in RunAt, NEW w \in Worker, StepClaim(j, w) \/ StepRefused(j, w)
      PROVE  wf'[k] = wf[k]
  BY <1>8 DEF StepClaim, StepRefused
<1>9. CASE Commanded
  BY <1>9 DEF Commanded, Cancel, Retry, Schedule, Checkpoint, Block, Complete, Command
<1> QED BY <1>5, <1>6, <1>7, <1>8, <1>9 DEF Next

\* A call works on a key and for a run that exist or are being created.
LEMMA FreshCalls ==
  ASSUME TypeInv, FreshIsUnused, Next, NEW p \in Publisher
  PROVE  pub'[p].key < nextRunAt' /\ pub'[p].for < nextRunAt'
<1> DEFINE Below(c) == c.key < nextRunAt' /\ c.for < nextRunAt'
<1>1. pub \in [Publisher -> Publication]
  BY TypeParts DEF PubOK
<1>2. /\ nextRunAt \in Nat /\ 0 < nextRunAt
      /\ nextRunAt' = nextRunAt \/ nextRunAt' = nextRunAt + 1
  BY FreshParts, CounterGrows
<1>3. \A q \in Publisher : pub[q].key < nextRunAt /\ pub[q].key \in Nat
                           /\ pub[q].for < nextRunAt /\ pub[q].for \in Nat
  BY <1>1, FreshParts DEF Publication, RunAt
<1>4. \A q \in Publisher : Below(pub[q])
  BY <1>2, <1>3
<1>5. ASSUME UNCHANGED pub PROVE Below(pub'[p])
  BY <1>4, <1>5
<1>6. ASSUME NEW q \in Publisher, NEW c, pub' = [pub EXCEPT ![q] = c], Below(c)
      PROVE  Below(pub'[p])
  BY <1>1, <1>4, <1>6
<1>7. Below(NoPublication)
  BY <1>2 DEF NoPublication
<1>8. ASSUME NEW q \in Publisher, NEW step, NEW k, k < nextRunAt, k \in Nat,
             Calling(q, step, k)
      PROVE  Below(pub'[p])
  <2>1. pub' = [pub EXCEPT ![q] = [pub[q] EXCEPT !.pc = step, !.for = k]]
    BY <1>1, <1>8 DEF Calling
  <2>2. Below([pub[q] EXCEPT !.pc = step, !.for = k])
    BY <1>1, <1>2, <1>4, <1>8 DEF Publication
  <2> QED BY <1>6, <2>1, <2>2
<1>9. ASSUME NEW q \in Publisher, NEW step, pub' = [pub EXCEPT ![q].pc = step]
      PROVE  Below(pub'[p])
  <2>1. pub' = [pub EXCEPT ![q] = [pub[q] EXCEPT !.pc = step]]
    BY <1>1, <1>9
  <2>2. Below([pub[q] EXCEPT !.pc = step])
    BY <1>1, <1>4 DEF Publication
  <2> QED BY <1>6, <2>1, <2>2
<1>10. CASE Tick
  <2>1. pub'[p] = [pub[p] EXCEPT !.wait = Less(pub[p].wait)]
    BY <1>10 DEF Tick
  <2> QED BY <1>1, <1>4, <2>1 DEF Publication
<1>11. ASSUME NEW q \in Publisher,
              Sweep(q) \/ Publishing(q) \/ CallbackStep(q) \/ Failing(q)
       PROVE  Below(pub'[p])
  <2>1. CASE PubClaim(q)
    <3> DEFINE fresh == OverduePublished(task) \/ task.runAt = 0
               key == IF fresh THEN nextRunAt ELSE task.runAt
               c == [pub[q] EXCEPT !.pc = "claimed", !.key = key,
                                   !.wait = task.due, !.wake = task'.runAt]
    <3>1. pub' = [pub EXCEPT ![q] = c]
      BY <1>1, <2>1 DEF PubClaim
    <3>2. fresh => nextRunAt' = nextRunAt + 1
      BY <2>1 DEF PubClaim, Used
    <3>3. task.runAt < nextRunAt /\ task.runAt \in Nat
      BY FreshParts DEF TypeInv, TypeOK, TaskRecordType, RunAt
    <3>4. key < nextRunAt'
      BY <1>2, <3>2, <3>3
    <3>5. c.key = key /\ c.for = pub[q].for
      BY <1>1 DEF Publication
    <3> HIDE DEF c, key, fresh
    <3>6. Below(c)
      BY <1>4, <3>4, <3>5
    <3> QED BY <1>6, <3>1, <3>6
  <2>2. CASE Sweep(q)
    BY <1>2, <1>8, <2>2 DEF Sweep
  <2>3. CASE PubRefused(q) \/ PubRecord(q) \/ PubClear(q) \/ PubCrash(q)
             \/ CallbackGiveUp(q)
    BY <1>6, <1>7, <2>3 DEF PubRefused, PubRecord, PubClear, PubCrash, CallbackGiveUp
  <2>4. CASE PubSend(q, TRUE) \/ PubSend(q, FALSE) \/ PubRejected(q)
             \/ CallbackCount(q)
    BY <1>9, <2>4 DEF PubSend, PubRejected, CallbackCount
  <2>5. CASE CallbackStale(q)
    BY <1>6, <1>7, <1>9, <2>5 DEF CallbackStale
  <2> QED BY <1>11, <2>1, <2>2, <2>3, <2>4, <2>5 DEF Publishing, CallbackStep, Failing
<1>12. ASSUME NEW k \in RunAt, NEW q \in Publisher, Handoff(k, q) \/ CallbackRead(k, q)
       PROVE  Below(pub'[p])
  <2>1. k < nextRunAt /\ k \in Nat
    BY <1>12, FreshParts DEF Handoff, CallbackRead, RunAt
  <2>2. \/ \E step \in {"want", "counting"} : Calling(q, step, k)
        \/ UNCHANGED pub
    BY <1>12 DEF Handoff, CallbackRead
  <2> QED BY <1>5, <1>8, <2>1, <2>2
<1>13. CASE Commanded
  BY <1>2, <1>5, <1>8, <1>13
  DEF Commanded, Cancel, Retry, Schedule, Checkpoint, Block, Complete
<1>14. ASSUME \/ \E k \in RunAt : Wake(k) \/ DeliveryExhausted(k)
              \/ \E k \in RunAt, w \in Worker : StepClaim(k, w) \/ StepRefused(k, w)
              \/ \E w \in Worker : Working(w) \/ Renew(w) \/ Slice(w) \/ Dying(w)
       PROVE  Below(pub'[p])
  BY <1>5, <1>14
  DEF Wake, DeliveryExhausted, StepClaim, StepRefused, Working, ReportRefused,
      SettleThrown, SettleWrite, SettleLost, Renew, Slice, Finish, ThrowSettled,
      Throw, Dying, WorkerCrash, CrashAfterSettle
<1> QED BY <1>10, <1>11, <1>12, <1>13, <1>14 DEF Next

LEMMA FreshInvocations ==
  ASSUME TypeInv, FreshIsUnused, Next, NEW w \in Worker
  PROVE  wk'[w].run < nextRunAt
<1>1. wk \in [Worker -> Invocation]
  BY TypeParts DEF WkOK
<1>2. ASSUME NEW v \in Worker, NEW i, wk' = [wk EXCEPT ![v] = i], i.run < nextRunAt
      PROVE  wk'[w].run < nextRunAt
  BY <1>1, <1>2, FreshParts
<1>5. ASSUME NEW k \in RunAt, NEW v \in Worker, StepClaim(k, v) \/ StepRefused(k, v)
      PROVE  wk'[w].run < nextRunAt
  <2>1. k < nextRunAt
    BY <1>5, FreshParts DEF StepClaim, StepRefused, Deliver
  <2>2. PICK pc \in {"run", "refused"} :
          wk' = [wk EXCEPT ![v] = [pc |-> pc, run |-> k, iter |-> wf[k].iter,
                                   result |-> "none"]]
    BY <1>5 DEF StepClaim, StepRefused
  <2>3. [pc |-> pc, run |-> k, iter |-> wf[k].iter, result |-> "none"].run = k
    OBVIOUS
  <2> QED BY <1>2, <2>1, <2>2, <2>3
<1>6. ASSUME NEW v \in Worker, Working(v) \/ Renew(v) \/ Slice(v) \/ Dying(v)
      PROVE  wk'[w].run < nextRunAt
  BY <1>6, FreshParts, WorkerKeepsToItsRun
<1>7. ASSUME UNCHANGED wk PROVE wk'[w].run < nextRunAt
  BY <1>7, FreshParts
<1>8. ASSUME NEW p \in Publisher,
             Sweep(p) \/ Publishing(p) \/ CallbackStep(p) \/ Failing(p)
      PROVE  UNCHANGED wk
  BY <1>8
  DEF Sweep, Publishing, PubClaim, PubRefused, PubSend, PubRecord, PubClear,
      CallbackStep, CallbackCount, CallbackGiveUp, CallbackStale,
      Failing, PubRejected, PubCrash
<1>9. ASSUME NEW k \in RunAt,
             \/ Wake(k) \/ DeliveryExhausted(k)
             \/ \E p \in Publisher : Handoff(k, p) \/ CallbackRead(k, p)
      PROVE  UNCHANGED wk
  BY <1>9 DEF Wake, DeliveryExhausted, Handoff, CallbackRead
<1>10. CASE Tick \/ Commanded
  BY <1>7, <1>10
  DEF Tick, Commanded, Cancel, Retry, Schedule, Checkpoint, Block, Complete, Command
<1> QED BY <1>5, <1>6, <1>7, <1>8, <1>9, <1>10 DEF Next

LEMMA FreshTask ==
  ASSUME OwnerCancelsAndRetries, TypeInv, FreshIsUnused, Next
  PROVE  task'.runAt < nextRunAt' /\ task'.lastFailed < nextRunAt'
<1>1. task \in TaskRecordType
  BY TypeParts
<1>2. /\ nextRunAt \in Nat /\ 0 < nextRunAt
      /\ nextRunAt' = nextRunAt \/ nextRunAt' = nextRunAt + 1
      /\ task.runAt \in Nat /\ task.runAt < nextRunAt
      /\ task.lastFailed \in Nat /\ task.lastFailed < nextRunAt
  BY <1>1, FreshParts, CounterGrows DEF TaskRecordType, RunAt
<1>3. ASSUME task'.runAt = task.runAt, task'.lastFailed = task.lastFailed
      PROVE  task'.runAt < nextRunAt' /\ task'.lastFailed < nextRunAt'
  BY <1>2, <1>3
<1>4. CASE Kept \/ Renewal
  BY <1>1, <1>3, <1>4 DEF Kept, Renewal, Aged, Renewed, TaskRecordType
<1>5. CASE Marking
  <2>1. CASE \E p \in Publisher, id \in WorkflowRunId : task' = RunIdRecorded(task, p, id)
    BY <1>1, <1>3, <2>1 DEF RunIdRecorded, TaskRecordType
  <2>2. ASSUME Used(OverduePublished(task) \/ task.runAt = 0),
               NEW p \in Publisher, task' = EnqueueClaimed(task, p, nextRunAt)
        PROVE  task'.runAt < nextRunAt' /\ task'.lastFailed < nextRunAt'
    <3>1. /\ task'.runAt = IF OverduePublished(task) THEN nextRunAt ELSE task.runAt
          /\ task'.lastFailed = task.lastFailed
      BY <1>1, <2>2 DEF EnqueueClaimed, TaskRecordType
    <3>2. OverduePublished(task) => nextRunAt' = nextRunAt + 1
      BY <2>2 DEF Used
    <3> QED BY <1>2, <3>1, <3>2
  <2> QED BY <1>5, <2>1, <2>2 DEF Marking
<1>6. CASE Claiming
  BY <1>1, <1>3, <1>6 DEF Claiming, Claimed, TaskRecordType
<1>7. CASE Settlement
  <2>1. PICK w \in Worker : /\ Used(wk[w].result \in Requeues)
                            /\ task' = Settled(task, wk[w].result, nextRunAt)
    BY <1>7, SettlementParts
  <2>2. task'.lastFailed = task.lastFailed
    BY <1>1, <2>1 DEF Settled, Requeued, TaskRecordType
  <2>3. \/ task'.runAt = task.runAt \/ task'.runAt = 0
        \/ task'.runAt = nextRunAt /\ wk[w].result \in Requeues
    <3>1. CASE wk[w].result \in Requeues /\ wk[w].result # "cancelled"
      <4>1. PICK waits, progress : task' = Requeued(task, waits, progress, nextRunAt)
        BY <2>1, <3>1, Zenon DEF Settled
      <4>2. task'.runAt = nextRunAt
        BY <1>1, <4>1, Zenon DEF Requeued, TaskRecordType
      <4> QED BY <3>1, <4>2
    <3>2. CASE wk[w].result \notin Requeues \/ wk[w].result = "cancelled"
      BY <1>1, <2>1, <3>2 DEF Settled, TaskRecordType
    <3> QED BY <3>1, <3>2
  <2>4. wk[w].result \in Requeues => nextRunAt' = nextRunAt + 1
    BY <2>1 DEF Used
  <2> QED BY <1>2, <2>2, <2>3, <2>4
<1>8. CASE Counting
  <2>1. PICK p \in Publisher :
           \/ task' = DeliveryFailed(task, pub[p].for)
           \/ Used(TRUE) /\ task' = DeliveryRetried(task, pub[p].for, nextRunAt)
    BY <1>8 DEF Counting
  <2>2. pub[p].for < nextRunAt /\ pub[p].for \in Nat
    BY FreshParts, TypeParts DEF PubOK, Publication, RunAt
  <2>3. task'.lastFailed = pub[p].for
    BY <1>1, <2>1 DEF DeliveryFailed, DeliveryRetried, TaskRecordType
  <2>4. \/ task'.runAt = task.runAt
        \/ task'.runAt = nextRunAt /\ nextRunAt' = nextRunAt + 1
    <3>1. CASE task' = DeliveryFailed(task, pub[p].for)
      BY <1>1, <3>1 DEF DeliveryFailed, TaskRecordType
    <3>2. CASE Used(TRUE) /\ task' = DeliveryRetried(task, pub[p].for, nextRunAt)
      <4>1. task'.runAt = nextRunAt
        BY <1>1, <3>2 DEF DeliveryRetried, TaskRecordType
      <4>2. nextRunAt' = nextRunAt + 1
        BY <3>2 DEF Used
      <4> QED BY <4>1, <4>2
    <3> QED BY <2>1, <3>1, <3>2
  <2> QED BY <1>2, <2>2, <2>3, <2>4
<1>9. CASE task' = Cancelled(task)
  BY <1>1, <1>3, <1>9 DEF Cancelled, TaskRecordType
<1>10. CASE Used(TRUE) /\ task' = Retried(task, nextRunAt)
  BY <1>1, <1>2, <1>10 DEF Retried, Used, TaskRecordType
<1> QED BY <1>4, <1>5, <1>6, <1>7, <1>8, <1>9, <1>10, TaskMoves, GentleCommands

LEMMA FreshStep ==
  ASSUME OwnerCancelsAndRetries, TypeInv, FreshIsUnused, [Next]_vars
  PROVE  FreshIsUnused'
<1>1. CASE UNCHANGED vars
  BY <1>1 DEF vars, FreshIsUnused
<1>2. CASE Next
  <2>1. /\ TypeInv' /\ nextRunAt' >= nextRunAt
        /\ \A w \in Worker : wk'[w].run < nextRunAt'
    <3>1. TypeInv'
      BY <1>2, TypeStep
    <3>2. nextRunAt \in Nat /\ (nextRunAt' = nextRunAt \/ nextRunAt' = nextRunAt + 1)
      BY <1>2, CounterGrows, FreshParts
    <3>3. \A w \in Worker : wk'[w].run \in Nat
      BY <3>1 DEF TypeInv, TypeOK, Invocation, RunAt
    <3> QED BY <1>2, <3>1, <3>2, <3>3, FreshInvocations
  <2>2. ASSUME NEW k \in RunAt, k >= nextRunAt PROVE wf'[k].st = wf[k].st
    <3>1. wf \in [RunAt -> Run]
      BY TypeParts
    <3>2. CASE Tick
      BY <3>1, <3>2 DEF Tick, Run
    <3> QED BY <1>2, <2>2, <3>2, FreshRuns
  <2> QED BY <1>2, <2>1, <2>2, FreshTask, FreshCalls, FreshNext
<1> QED BY <1>1, <1>2

-----------------------------------------------------------------------------
(* A run that exists stays in existence, and none fails unless QStash may  *)
(* give up.                                                                *)

LEMMA RunsStay ==
  ASSUME TypeInv, Next, NEW k \in RunAt
  PROVE  /\ wf[k].st # "none" => wf'[k].st # "none"
         /\ wf'[k].st = "failed" => wf[k].st = "failed" \/ DeliveryExhausted(k)
<1> DEFINE Stays == /\ wf[k].st # "none" => wf'[k].st # "none"
                    /\ wf'[k].st = "failed"
                         => wf[k].st = "failed" \/ DeliveryExhausted(k)
<1>1. /\ wf \in [RunAt -> Run] /\ WkOK /\ PubOK /\ task \in TaskRecordType
      /\ task' \in TaskRecordType
  <2>1. TypeInv'
    BY TypeStep
  <2> QED BY <2>1, TypeParts DEF TypeInv, TypeOK
<1>2. ASSUME NEW j \in RunAt, NEW r, wf' = [wf EXCEPT ![j] = r],
             r.st \notin {"none", "failed"}
      PROVE  Stays
  BY <1>1, <1>2
<1>3. ASSUME NEW j, wf' = EndedFor(j)
      PROVE  Stays
  BY <1>1, <1>3, OverType DEF EndedFor
<1>4. CASE UNCHANGED wf
  BY <1>4
<1>5. CASE Tick
  BY <1>1, <1>5 DEF Tick, Run
<1>6. ASSUME NEW p \in Publisher,
             Sweep(p) \/ Publishing(p) \/ CallbackStep(p) \/ Failing(p)
      PROVE  Stays
  <2>1. ASSUME NEW answered \in BOOLEAN, PubSend(p, answered)
        PROVE  Stays
    <3> DEFINE r == [st |-> "sleep", iter |-> 0, wake |-> pub[p].wake,
                     wait |-> pub[p].wait]
    <3>1. UNCHANGED wf \/ wf' = [wf EXCEPT ![pub[p].key] = r]
      BY <2>1, Zenon DEF PubSend
    <3>2. pub[p].key \in RunAt /\ r.st = "sleep"
      BY <1>1, <2>1 DEF PubSend, PubOK, CallOK
    <3> HIDE DEF r
    <3> QED BY <1>2, <1>4, <3>1, <3>2
  <2>2. CASE PubRefused(p) \/ PubRecord(p) \/ CallbackGiveUp(p) \/ CallbackStale(p)
    BY <1>3, <1>4, <2>2 DEF PubRefused, PubRecord, CallbackGiveUp, CallbackStale
  <2>3. CASE Sweep(p) \/ PubClaim(p) \/ PubClear(p) \/ CallbackCount(p)
             \/ PubRejected(p) \/ PubCrash(p)
    BY <1>4, <2>3 DEF Sweep, PubClaim, PubClear, CallbackCount, PubRejected, PubCrash
  <2> QED BY <1>6, <2>1, <2>2, <2>3 DEF Publishing, CallbackStep, Failing
<1>7. ASSUME NEW j \in RunAt,
             \/ Wake(j) \/ DeliveryExhausted(j)
             \/ \E p \in Publisher : Handoff(j, p) \/ CallbackRead(j, p)
      PROVE  Stays
  <2>1. CASE Wake(j)
    BY <1>1, <2>1 DEF Wake, Run
  <2>2. CASE DeliveryExhausted(j)
    BY <1>1, <2>2, OverType DEF DeliveryExhausted
  <2>3. ASSUME NEW p \in Publisher, Handoff(j, p) \/ CallbackRead(j, p)
        PROVE  Stays
    BY <1>3, <1>4, <2>3 DEF Handoff, CallbackRead
  <2> QED BY <1>7, <2>1, <2>2, <2>3
<1>8. ASSUME NEW w \in Worker, Working(w) \/ Renew(w) \/ Slice(w) \/ Dying(w)
      PROVE  Stays
  <2>1. ASSUME NEW claimed \in BOOLEAN, NEW t \in TaskRecordType,
               wk[w].pc # "idle", Report(w, claimed, t)
        PROVE  Stays
    <3>1. wk[w].run \in RunAt
      BY <1>1, <2>1 DEF WkOK, WorkOK
    <3>2. \/ UNCHANGED wf
          \/ wf' = [wf EXCEPT ![wk[w].run] = AfterStep(wf[wk[w].run], claimed, t)]
      BY <2>1 DEF Report
    <3>3. AfterStep(wf[wk[w].run], claimed, t).st \in {"sleep", "handoff", "ended"}
      BY <1>1, <3>1, AfterStepType
    <3> QED BY <1>2, <1>4, <3>1, <3>2, <3>3
  <2>2. CASE ReportNothing(w)
    BY <1>3, <1>4, <2>2 DEF ReportNothing
  <2>3. ASSUME NEW outcome, Settling(w, outcome)
        PROVE  Stays
    BY <1>4, <2>2, <2>3 DEF Settling
  <2>4. CASE ReportRefused(w) \/ ThrowSettled(w)
    <3>1. /\ wk[w].pc # "idle"
          /\ Report(w, TRUE, task) \/ Report(w, FALSE, task)
      BY <2>4 DEF ReportRefused, ThrowSettled
    <3> QED BY <1>1, <2>1, <3>1
  <2>5. CASE SettleWrite(w)
    BY <1>1, <2>1, <2>5 DEF SettleWrite
  <2>6. CASE SettleThrown(w) \/ SettleLost(w)
    BY <2>2, <2>3, <2>6 DEF SettleThrown, SettleLost
  <2>7. CASE \E outcome \in Outcomes : Finish(w, outcome)
    BY <2>3, <2>7 DEF Finish
  <2>8. CASE Renew(w) \/ Dying(w) \/ \E leaseLoss \in BOOLEAN : Throw(w, leaseLoss)
    BY <1>4, <2>8 DEF Renew, Dying, WorkerCrash, CrashAfterSettle, Throw
  <2> QED BY <1>8, <2>4, <2>5, <2>6, <2>7, <2>8 DEF Working, Slice
<1>9. ASSUME NEW j \in RunAt, NEW w \in Worker, StepClaim(j, w) \/ StepRefused(j, w)
      PROVE  Stays
  BY <1>4, <1>9 DEF StepClaim, StepRefused
<1>10. CASE Commanded
  BY <1>4, <1>10 DEF Commanded, Cancel, Retry, Schedule, Checkpoint, Block, Complete, Command
<1> QED BY <1>5, <1>6, <1>7, <1>8, <1>9, <1>10 DEF Next

LEMMA FailureStep ==
  ASSUME TypeInv, NoFailureUnlessExhausted, [Next]_vars
  PROVE  NoFailureUnlessExhausted'
<1>1. CASE UNCHANGED vars
  BY <1>1 DEF vars, NoFailureUnlessExhausted
<1> QED BY <1>1, RunsStay DEF NoFailureUnlessExhausted, DeliveryExhausted, Fault

\* How a call comes to be accepted or rejected.
LEMMA AnswerStep ==
  ASSUME TypeInv, CleanPublication, NoRejectionUnlessFaulty, AcceptedRunExists,
         [Next]_vars
  PROVE  NoRejectionUnlessFaulty' /\ AcceptedRunExists'
<1>1. CASE UNCHANGED vars
  BY <1>1 DEF vars, NoRejectionUnlessFaulty, AcceptedRunExists
<1>2. ASSUME Next, NEW p \in Publisher
      PROVE  /\ "exhausted" \in FaultKinds => pub'[p].pc # "rejected"
             /\ pub'[p].pc = "accepted" => wf'[pub'[p].key].st # "none"
  <2> DEFINE Answered == /\ "exhausted" \in FaultKinds => pub'[p].pc # "rejected"
                         /\ pub'[p].pc = "accepted" => wf'[pub'[p].key].st # "none"
  <2>1. PubOK /\ pub \in [Publisher -> Publication] /\ wf \in [RunAt -> Run]
    BY TypeParts DEF PubOK
  <2>2. ASSUME pub'[p].pc = pub[p].pc, pub'[p].key = pub[p].key
        PROVE  Answered
    <3>1. pub[p].pc = "accepted" => pub[p].key \in RunAt
      BY <2>1 DEF PubOK, CallOK
    <3> QED BY <1>2, <2>2, <3>1, RunsStay DEF NoRejectionUnlessFaulty, AcceptedRunExists
  <2>3. ASSUME pub'[p].pc \notin {"accepted", "rejected"}
        PROVE  Answered
    BY <2>3
  <2>4. CASE UNCHANGED pub
    BY <2>2, <2>4
  <2>5. CASE Tick
    BY <2>1, <2>2, <2>5 DEF Tick, Publication
  <2>6. ASSUME NEW q \in Publisher, NEW c, pub' = [pub EXCEPT ![q] = c],
               c.pc \notin {"accepted", "rejected"}
        PROVE  Answered
    BY <2>1, <2>2, <2>3, <2>6
  <2>7. ASSUME NEW q \in Publisher, NEW step \in {"want", "counting"}, NEW k,
               Calling(q, step, k)
        PROVE  Answered
    <3>1. pub' = [pub EXCEPT ![q] = [pub[q] EXCEPT !.pc = step, !.for = k]]
      BY <2>1, <2>7 DEF Calling
    <3>2. [pub[q] EXCEPT !.pc = step, !.for = k].pc = step
      BY <2>1 DEF Publication
    <3> QED BY <2>6, <3>1, <3>2
  <2>8. ASSUME NEW q \in Publisher,
               Sweep(q) \/ Publishing(q) \/ CallbackStep(q) \/ Failing(q)
        PROVE  Answered
    <3>1. CASE PubClaim(q)
      <4>1. PICK c : pub' = [pub EXCEPT ![q] = c] /\ c.pc = "claimed"
        <5> DEFINE c == [pub[q] EXCEPT !.pc = "claimed",
                           !.key = IF OverduePublished(task) \/ task.runAt = 0
                                     THEN nextRunAt ELSE task.runAt,
                           !.wait = task.due, !.wake = task'.runAt]
        <5>1. pub' = [pub EXCEPT ![q] = c]
          BY <2>1, <3>1 DEF PubClaim
        <5>2. c.pc = "claimed"
          BY <2>1 DEF Publication
        <5> QED BY <5>1, <5>2
      <4> QED BY <2>6, <4>1
    <3>2. CASE Sweep(q)
      BY <2>7, <3>2 DEF Sweep
    <3>3. CASE pub' = [pub EXCEPT ![q] = NoPublication]
      BY <2>6, <3>3 DEF NoPublication
    <3>4. CASE pub' = [pub EXCEPT ![q].pc = "want"]
      <4>1. pub' = [pub EXCEPT ![q] = [pub[q] EXCEPT !.pc = "want"]]
        BY <2>1, <3>4
      <4>2. [pub[q] EXCEPT !.pc = "want"].pc = "want"
        BY <2>1 DEF Publication
      <4> QED BY <2>6, <4>1, <4>2
    <3>5. CASE PubSend(q, TRUE)
      <4>1. q = p => pub'[p].pc = "accepted" /\ pub'[p].key = pub[p].key
        BY <2>1, <3>5 DEF PubSend, Publication
      <4>2. q # p => pub'[p] = pub[p]
        BY <2>1, <3>5 DEF PubSend
      <4>3. pub[q].key \in RunAt
        BY <2>1, <3>5 DEF PubSend, PubOK, CallOK
      <4>4. wf'[pub[q].key].st # "none"
        BY <2>1, <3>5, <4>3 DEF PubSend
      <4> QED BY <2>2, <4>1, <4>2, <4>4
    <3>6. CASE PubSend(q, FALSE) \/ PubRejected(q)
      <4>1. "exhausted" \notin FaultKinds
        BY <3>6 DEF PubSend, PubRejected, Fault, CleanPublication
      <4>2. q = p => pub'[p].pc = "rejected"
        BY <2>1, <3>6 DEF PubSend, PubRejected, Publication
      <4>3. q # p => pub'[p] = pub[p]
        BY <2>1, <3>6 DEF PubSend, PubRejected
      <4> QED BY <2>2, <4>1, <4>2, <4>3
    <3> QED BY <2>8, <3>1, <3>2, <3>3, <3>4, <3>5, <3>6
        DEF Publishing, CallbackStep, Failing, PubRefused, PubRecord, PubClear,
            PubCrash, CallbackCount, CallbackGiveUp, CallbackStale
  <2>9. ASSUME NEW k \in RunAt, NEW q \in Publisher, Handoff(k, q) \/ CallbackRead(k, q)
        PROVE  Answered
    BY <2>4, <2>7, <2>9 DEF Handoff, CallbackRead
  <2>10. CASE Commanded
    BY <2>4, <2>7, <2>10
    DEF Commanded, Cancel, Retry, Schedule, Checkpoint, Block, Complete
  <2>11. ASSUME \/ \E k \in RunAt : Wake(k) \/ DeliveryExhausted(k)
                \/ \E k \in RunAt, w \in Worker : StepClaim(k, w) \/ StepRefused(k, w)
                \/ \E w \in Worker : Working(w) \/ Renew(w) \/ Slice(w) \/ Dying(w)
         PROVE  Answered
    BY <2>4, <2>11
    DEF Wake, DeliveryExhausted, StepClaim, StepRefused, Working, ReportRefused,
        SettleThrown, SettleWrite, SettleLost, Renew, Slice, Finish, ThrowSettled,
        Throw, Dying, WorkerCrash, CrashAfterSettle
  <2> QED BY <1>2, <2>5, <2>8, <2>9, <2>10, <2>11 DEF Next
<1> QED BY <1>1, <1>2 DEF NoRejectionUnlessFaulty, AcceptedRunExists

-----------------------------------------------------------------------------
(* A run's failure is counted once, whatever else fails: when a callback   *)
(* has read that the record waits for its run, or for none and counted     *)
(* none, the run has not been counted, and it stays uncounted until this   *)
(* callback counts it.                                                     *)

Calls == OneCallPerRun /\ \A p \in Publisher : CallOfUncounted(p)
Counts == CountedIsLeftBehind /\ Calls /\ DeliveryFailuresCountedOnce

LEMMA CountFacts ==
  ASSUME CountedInv
  PROVE  /\ TypeInv /\ FreshIsUnused /\ task \in TaskRecordType /\ PubOK
         /\ pub \in [Publisher -> Publication]
         /\ nextRunAt \in Nat /\ nextRunAt \notin counted /\ 0 \notin counted
         /\ counted \subseteq RunAt /\ IsFiniteSet(counted)
         /\ task.failures \in 0..3 /\ task.failures = Cardinality(counted)
<1>1. TypeInv /\ FreshIsUnused
  BY DEF CountedInv
<1>2. task \in TaskRecordType /\ PubOK /\ counted \subseteq RunAt /\ nextRunAt \in Nat
  BY <1>1, TypeParts, FreshParts DEF RestOK
<1>3. IsFiniteSet(counted)
  <2>1. IsFiniteSet(RunAt)
    BY Bounds, FS_Interval DEF RunAt
  <2> QED BY <1>2, <2>1, FS_Subset
<1>4. nextRunAt \notin counted /\ 0 \notin counted
  BY <1>2, Bounds DEF CountedInv, CountedIsLeftBehind, RunAt
<1> QED BY <1>1, <1>2, <1>3, <1>4
    DEF PubOK, TaskRecordType, CountedInv, DeliveryFailuresCountedOnce

LEMMA MarkersDiffer ==
  /\ \A p, q \in Publisher : Pending(p) = Pending(q) => p = q
  /\ \A p \in Publisher : Pending(p) # NoRun /\ \A k : Pending(p) # Published(k)
  /\ \A k : Published(k) # NoRun
  /\ \A j, k : Published(j) = Published(k) => j = k
BY DEF Pending, NoRun, Published

\* What the record's other operations do to what the counting is about.
Quiet ==
  \/ Kept \/ Renewal \/ Marking \/ Settlement
  \/ CanCancel(task) /\ task' = Cancelled(task)

LEMMA QuietRecord ==
  ASSUME CountedInv, Quiet
  PROVE  /\ task'.failures = task.failures /\ task'.lastFailed = task.lastFailed
         /\ task'.status = "queued" => task'.runAt \notin counted
<1>1. task \in TaskRecordType /\ nextRunAt \notin counted
  BY CountFacts
<1>2. task.status = "queued" => task.runAt \notin counted
  BY DEF CountedInv, CountedIsLeftBehind
<1>3. CASE Kept \/ Renewal
  BY <1>1, <1>2, <1>3 DEF Kept, Renewal, Aged, Renewed, TaskRecordType
<1>4. CASE Marking
  <2>1. CASE \E p \in Publisher, id \in WorkflowRunId : task' = RunIdRecorded(task, p, id)
    BY <1>1, <1>2, <2>1 DEF RunIdRecorded, TaskRecordType
  <2>2. CASE \E p \in Publisher : task' = EnqueueClaimed(task, p, nextRunAt)
    BY <1>1, <1>2, <2>2 DEF EnqueueClaimed, TaskRecordType
  <2> QED BY <1>4, <2>1, <2>2 DEF Marking
<1>5. CASE Settlement
  <2>1. PICK w \in Worker : /\ HoldsLease(task, w)
                            /\ task' = Settled(task, wk[w].result, nextRunAt)
    BY <1>5, SettlementParts
  <2>2. task'.failures = task.failures /\ task'.lastFailed = task.lastFailed
    BY <1>1, <2>1 DEF Settled, Requeued, TaskRecordType
  <2>3. task.status # "queued"
    BY <2>1, NoLeaseType DEF HoldsLease, CountedInv, RestHasNoLease
  <2>4. CASE wk[w].result \in Requeues /\ wk[w].result # "cancelled"
    <3>1. PICK waits, progress : task' = Requeued(task, waits, progress, nextRunAt)
      BY <2>1, <2>4, Zenon DEF Settled
    <3>2. task'.runAt = nextRunAt
      BY <1>1, <3>1, Zenon DEF Requeued, TaskRecordType
    <3> QED BY <1>1, <2>2, <3>2
  <2>5. CASE wk[w].result \notin Requeues
    <3>1. wk[w].result # "queued"
      BY TypeParts, CountFacts DEF WkOK, Invocation, Decision, Outcome, Waits
    <3>2. task'.status # "queued"
      BY <1>1, <2>1, <2>5, <3>1 DEF Settled, TaskRecordType
    <3> QED BY <2>2, <3>2
  <2>6. CASE wk[w].result = "cancelled"
    BY <1>1, <2>1, <2>2, <2>6 DEF Settled, TaskRecordType
  <2> QED BY <2>4, <2>5, <2>6
<1>6. CASE CanCancel(task) /\ task' = Cancelled(task)
  BY <1>1, <1>6 DEF CanCancel, Cancelled, TaskRecordType
<1> QED BY <1>3, <1>4, <1>5, <1>6 DEF Quiet

\* A quiet step whose marker, if it is one of a run, is of an uncounted one.
LEMMA QuietCounts ==
  ASSUME CountedInv, Next, Quiet, UNCHANGED counted, Calls',
         \A k \in counted : task'.workflow = Published(k) => task.workflow = Published(k)
  PROVE  Counts'
<1>1. \A k \in counted : k < nextRunAt' /\ task'.workflow # Published(k)
  <2>1. TypeInv /\ nextRunAt \in Nat /\ counted \subseteq RunAt
    BY CountFacts
  <2>2. nextRunAt' = nextRunAt \/ nextRunAt' = nextRunAt + 1
    BY <2>1, CounterGrows
  <2>3. \A k \in counted : k \in Nat /\ k < nextRunAt /\ task.workflow # Published(k)
    BY <2>1, Bounds DEF RunAt, CountedInv, CountedIsLeftBehind
  <2> QED BY <2>1, <2>2, <2>3
<1>2. /\ task'.status = "queued" => task'.runAt \notin counted
      /\ task'.lastFailed = 0 => counted = {}
      /\ task'.failures = Cardinality(counted)
  BY QuietRecord DEF CountedInv, CountedIsLeftBehind, DeliveryFailuresCountedOnce
<1> QED BY <1>1, <1>2 DEF Counts, CountedIsLeftBehind, DeliveryFailuresCountedOnce

\* The calls' steps and keys stay, and no marker becomes one of theirs.
LEMMA CallsStay ==
  ASSUME CountedInv, counted' \subseteq counted,
         \A p \in Publisher : /\ pub'[p].pc = pub[p].pc /\ pub'[p].for = pub[p].for
                              /\ pub'[p].key = pub[p].key
                              /\ task'.workflow = Pending(p) => task.workflow = Pending(p)
  PROVE  Calls'
BY DEF CountedInv, Calls, OneCallPerRun, CallOfUncounted

\* One call moves, for the run it was for, for none, or for one nobody is for.
LEMMA OneCallMoves ==
  ASSUME CountedInv, UNCHANGED counted,
         NEW p \in Publisher, NEW c, pub' = [pub EXCEPT ![p] = c],
         c.for = pub[p].for \/ c.for = 0 \/ (\A q \in Publisher : pub[q].for # c.for),
         c.pc = "counting" => c.for \notin counted,
         c.pc \in {"claimed", "accepted"} /\ task'.workflow = Pending(p)
           => c.key \notin counted,
         \A q \in Publisher : q # p /\ task'.workflow = Pending(q)
                                => task.workflow = Pending(q)
  PROVE  Calls'
<1>1. \A q \in Publisher : pub'[q] = IF q = p THEN c ELSE pub[q]
  BY CountFacts
<1>2. OneCallPerRun'
  BY <1>1 DEF CountedInv, OneCallPerRun
<1>3. ASSUME NEW q \in Publisher PROVE CallOfUncounted(q)'
  BY <1>1 DEF CountedInv, CallOfUncounted
<1> QED BY <1>2, <1>3 DEF Calls

-----------------------------------------------------------------------------
(* The steps that count nothing.                                           *)

\* Time, runs, workers and a cancellation leave the calls alone and at most
\* clear the marker.
LEMMA OthersAreQuiet ==
  ASSUME CountedInv,
         \/ Tick
         \/ \E k \in RunAt : Wake(k) \/ DeliveryExhausted(k)
         \/ \E k \in RunAt, w \in Worker : StepRefused(k, w)
         \/ \E w \in Worker : Working(w) \/ Renew(w) \/ Slice(w) \/ Dying(w)
         \/ Cancel
  PROVE  /\ UNCHANGED counted /\ Quiet
         /\ task'.workflow = task.workflow \/ task'.workflow = NoRun
         /\ \A p \in Publisher :
              /\ pub'[p].pc = pub[p].pc /\ pub'[p].for = pub[p].for
              /\ pub'[p].key = pub[p].key
<1>t. task \in TaskRecordType /\ pub \in [Publisher -> Publication]
  BY CountFacts
<1> DEFINE Goal == /\ UNCHANGED counted /\ Quiet
                   /\ task'.workflow = task.workflow \/ task'.workflow = NoRun
                   /\ \A p \in Publisher :
                        /\ pub'[p].pc = pub[p].pc /\ pub'[p].for = pub[p].for
                        /\ pub'[p].key = pub[p].key
<1>1. CASE Tick
  <2>1. task' = Aged(task) /\ UNCHANGED counted
    BY <1>1 DEF Tick
  <2>2. task'.workflow = task.workflow
    BY <1>t, <2>1 DEF Aged, TaskRecordType
  <2>3. \A p \in Publisher : pub'[p] = [pub[p] EXCEPT !.wait = Less(pub[p].wait)]
    BY <1>1 DEF Tick
  <2> QED BY <1>t, <2>1, <2>2, <2>3 DEF Quiet, Kept, Publication
<1>2. CASE \/ \E k \in RunAt : Wake(k) \/ DeliveryExhausted(k)
           \/ \E k \in RunAt, w \in Worker : StepRefused(k, w)
  BY <1>2 DEF Wake, DeliveryExhausted, StepRefused, Quiet, Kept
<1>3. ASSUME NEW w \in Worker, Working(w) \/ Renew(w) \/ Slice(w) \/ Dying(w)
      PROVE  Goal
  <2>1. CASE SettleWrite(w) \/ CrashAfterSettle(w)
    <3>1. UNCHANGED <<counted, pub>> /\ Settlement
      BY <2>1 DEF SettleWrite, CrashAfterSettle, Settlement
    <3>2. task' = Settled(task, wk[w].result, nextRunAt)
      BY <2>1 DEF SettleWrite, CrashAfterSettle
    <3>3. task'.workflow = task.workflow \/ task'.workflow = NoRun
      BY <1>t, <3>2 DEF Settled, Requeued, TaskRecordType
    <3> QED BY <3>1, <3>3 DEF Quiet
  <2>2. CASE Renew(w)
    BY <1>t, <2>2 DEF Renew, Renewed, Renewal, Quiet, TaskRecordType
  <2>3. CASE Slice(w) \/ WorkerCrash(w) \/ ReportRefused(w) \/ SettleThrown(w)
             \/ SettleLost(w)
    BY <2>3
    DEF Slice, Finish, ThrowSettled, Throw, WorkerCrash, ReportRefused,
        SettleThrown, SettleLost, Quiet, Kept
  <2> QED BY <1>3, <2>1, <2>2, <2>3 DEF Working, Dying
<1>4. CASE Cancel
  BY <1>t, <1>4 DEF Cancel, Command, Cancelled, Quiet, TaskRecordType
<1> QED BY <1>1, <1>2, <1>3, <1>4

LEMMA OthersKeepCounts ==
  ASSUME CountedInv, Next,
         \/ Tick
         \/ \E k \in RunAt : Wake(k) \/ DeliveryExhausted(k)
         \/ \E k \in RunAt, w \in Worker : StepRefused(k, w)
         \/ \E w \in Worker : Working(w) \/ Renew(w) \/ Slice(w) \/ Dying(w)
         \/ Cancel
  PROVE  Counts'
<1>1. Calls'
  BY OthersAreQuiet, CallsStay, MarkersDiffer
<1> QED BY <1>1, OthersAreQuiet, QuietCounts, MarkersDiffer

\* A claim and a retry start the count over.
LEMMA ResetStartsOver ==
  ASSUME CountedInv,
         Retry \/ \E k \in RunAt, w \in Worker : StepClaim(k, w)
  PROVE  Counts'
<1>1. task \in TaskRecordType
  BY CountFacts
<1>2. /\ counted' = {} /\ UNCHANGED pub /\ task'.failures = 0
      /\ task'.workflow = task.workflow \/ task'.workflow = NoRun
  BY <1>1
  DEF Retry, Command, Retried, StepClaim, Claimed, TaskRecordType
<1>3. Calls'
  BY <1>2, CallsStay, MarkersDiffer
<1>4. CountedIsLeftBehind' /\ DeliveryFailuresCountedOnce'
  BY <1>2, FS_EmptySet DEF CountedIsLeftBehind, DeliveryFailuresCountedOnce
<1> QED BY <1>3, <1>4 DEF Counts

\* Calls that begin, go on or end, without the record.
Going(p) ==
  \/ Sweep(p) \/ PubRefused(p) \/ CallbackStale(p) \/ Failing(p) \/ PubSend(p, TRUE)
  \/ \E k \in RunAt : Handoff(k, p) \/ CallbackRead(k, p)

LEMMA CallsGoOn ==
  ASSUME CountedInv, NEW p \in Publisher, Going(p)
  PROVE  /\ UNCHANGED <<task, counted, nextRunAt>>
         /\ \/ UNCHANGED pub
            \/ \E c :
                 /\ pub' = [pub EXCEPT ![p] = c]
                 /\ \/ c.for = pub[p].for \/ c.for = 0
                    \/ \A q \in Publisher : pub[q].for # c.for
                 /\ c.pc \in {"claimed", "accepted"}
                      => pub[p].pc = "claimed" /\ c.key = pub[p].key
                 /\ c.pc = "counting"
                      => /\ CallbackApplies(task, c.for) /\ ~Cleared(task)
                         /\ wf[c.for].st = "failed"
<1>1. pub \in [Publisher -> Publication]
  BY CountFacts
<1>2. UNCHANGED <<task, counted, nextRunAt>>
  BY DEF Going, Sweep, PubRefused, CallbackStale, Failing, PubSend, PubRejected,
         PubCrash, Handoff, CallbackRead
<1> DEFINE Moves(c) ==
      /\ pub' = [pub EXCEPT ![p] = c]
      /\ \/ c.for = pub[p].for \/ c.for = 0
         \/ \A q \in Publisher : pub[q].for # c.for
      /\ c.pc \in {"claimed", "accepted"}
           => pub[p].pc = "claimed" /\ c.key = pub[p].key
      /\ c.pc = "counting"
           => /\ CallbackApplies(task, c.for) /\ ~Cleared(task)
              /\ wf[c.for].st = "failed"
<1> SUFFICES UNCHANGED pub \/ \E c : Moves(c)
  BY <1>2
<1>3. ASSUME pub' = [pub EXCEPT ![p] = NoPublication] PROVE Moves(NoPublication)
  BY <1>3 DEF NoPublication
<1>4. ASSUME NEW k, NEW step \in {"want", "counting"}, Calling(p, step, k),
             k = 0 \/ \A q \in Publisher : pub[q].for # k,
             step = "counting"
               => CallbackApplies(task, k) /\ ~Cleared(task) /\ wf[k].st = "failed"
      PROVE  \E c : Moves(c)
  <2>1. PICK c : c = [pub[p] EXCEPT !.pc = step, !.for = k]
    OBVIOUS
  <2>2. c.pc = step /\ c.for = k /\ pub' = [pub EXCEPT ![p] = c]
    BY <1>1, <1>4, <2>1 DEF Calling, Publication
  <2>3. Moves(c)
    BY <1>4, <2>2
  <2> QED BY <2>3
<1>5. ASSUME NEW step \in {"want", "accepted", "rejected"},
             pub' = [pub EXCEPT ![p].pc = step],
             step = "accepted" => pub[p].pc = "claimed"
      PROVE  \E c : Moves(c)
  <2>1. PICK c : c = [pub[p] EXCEPT !.pc = step]
    OBVIOUS
  <2>2. /\ c.pc = step /\ c.for = pub[p].for /\ c.key = pub[p].key
        /\ pub' = [pub EXCEPT ![p] = c]
    BY <1>1, <1>5, <2>1 DEF Publication
  <2>3. Moves(c)
    BY <1>5, <2>2
  <2> QED BY <2>3
<1> HIDE DEF Moves
<1>6. CASE Sweep(p)
  BY <1>4, <1>6 DEF Sweep
<1>7. CASE PubRefused(p) \/ PubCrash(p)
  BY <1>3, <1>7 DEF PubRefused, PubCrash
<1>8. CASE CallbackStale(p)
  BY <1>3, <1>5, <1>8 DEF CallbackStale
<1>9. CASE PubSend(p, TRUE) \/ PubSend(p, FALSE) \/ PubRejected(p)
  BY <1>5, <1>9 DEF PubSend, PubRejected
<1>10. CASE \E k \in RunAt : Handoff(k, p)
  BY <1>4, <1>10 DEF Handoff
<1>11. ASSUME NEW k \in RunAt, CallbackRead(k, p)
       PROVE  UNCHANGED pub \/ \E c : Moves(c)
  <2>1. wf[k].st = "failed" /\ \A q \in Publisher : pub[q].for # k
    BY <1>11 DEF CallbackRead
  <2>2. \/ UNCHANGED pub \/ Calling(p, "want", k)
        \/ Calling(p, "counting", k) /\ CallbackApplies(task, k) /\ ~Cleared(task)
    BY <1>11 DEF CallbackRead
  <2> QED BY <1>4, <2>1, <2>2
<1> QED BY <1>6, <1>7, <1>8, <1>9, <1>10, <1>11 DEF Going, Failing

\* A callback that finds its run to be counted is about an uncounted one.
LEMMA CallsKeepCounts ==
  ASSUME CountedInv, Next, NEW p \in Publisher, Going(p)
  PROVE  Counts'
<1>1. UNCHANGED <<task, counted>>
  BY CallsGoOn
<1>2. CASE UNCHANGED pub
  <2>1. Calls'
    BY <1>1, <1>2, CallsStay
  <2> QED BY <1>1, <2>1, QuietCounts DEF Quiet, Kept
<1>3. CASE ~UNCHANGED pub
  <2>1. PICK c :
          /\ pub' = [pub EXCEPT ![p] = c]
          /\ \/ c.for = pub[p].for \/ c.for = 0
             \/ \A q \in Publisher : pub[q].for # c.for
          /\ c.pc \in {"claimed", "accepted"}
               => pub[p].pc = "claimed" /\ c.key = pub[p].key
          /\ c.pc = "counting" => CallbackApplies(task, c.for) /\ ~Cleared(task)
    BY <1>3, CallsGoOn
  <2>2. c.pc = "counting" => c.for \notin counted
    BY <2>1
    DEF CallbackApplies, Unclaimed, Cleared, CountedInv, CountedIsLeftBehind, Pending,
        Published, NoRun
  <2>3. c.pc \in {"claimed", "accepted"} /\ task'.workflow = Pending(p)
          => c.key \notin counted
    BY <1>1, <2>1 DEF CountedInv, CallOfUncounted
  <2>4. Calls'
    BY <1>1, <2>1, <2>2, <2>3, OneCallMoves
  <2> QED BY <1>1, <2>4, QuietCounts DEF Quiet, Kept
<1> QED BY <1>2, <1>3

\* A publisher claims the key of a queued task or a new one: an uncounted one.
LEMMA ClaimKeepsCounts ==
  ASSUME CountedInv, Next, NEW p \in Publisher, PubClaim(p)
  PROVE  Counts'
<1>1. /\ pub \in [Publisher -> Publication] /\ task \in TaskRecordType
      /\ nextRunAt \notin counted
  BY CountFacts
<1>2. PICK key : key = IF OverduePublished(task) \/ task.runAt = 0 THEN nextRunAt
                       ELSE task.runAt
  OBVIOUS
<1>3. key \notin counted
  BY <1>1, <1>2 DEF PubClaim, CanClaimEnqueue, CountedInv, CountedIsLeftBehind
<1>4. PICK c : c = [pub[p] EXCEPT !.pc = "claimed", !.key = key, !.wait = task.due,
                                  !.wake = task'.runAt]
  OBVIOUS
<1>5. /\ c.pc = "claimed" /\ c.key = key /\ c.for = pub[p].for
      /\ pub' = [pub EXCEPT ![p] = c] /\ UNCHANGED counted
  BY <1>1, <1>2, <1>4 DEF PubClaim, Publication
<1>6. task'.workflow = Pending(p) /\ Marking
  BY <1>1 DEF PubClaim, EnqueueClaimed, Marking, TaskRecordType
<1>7. Calls'
  BY <1>3, <1>5, <1>6, OneCallMoves, MarkersDiffer
<1> QED BY <1>5, <1>6, <1>7, QuietCounts, MarkersDiffer DEF Quiet

\* It records a run id under its own marker, which is about an uncounted run.
LEMMA AnswerKeepsCounts ==
  ASSUME CountedInv, Next, NEW p \in Publisher, PubRecord(p) \/ PubClear(p)
  PROVE  Counts'
<1>1. pub \in [Publisher -> Publication] /\ task \in TaskRecordType /\ PubOK
  BY CountFacts
<1>2. /\ UNCHANGED counted /\ pub' = [pub EXCEPT ![p] = NoPublication]
      /\ NoPublication.pc = "idle" /\ NoPublication.for = 0
  BY DEF PubRecord, PubClear, NoPublication
<1>3. Marking
  BY <1>1, MarkerType DEF PubRecord, PubClear, Marking, PubOK, CallOK
<1>4. \/ task'.workflow = task.workflow \/ task'.workflow = NoRun
      \/ task'.workflow = Published(pub[p].key) /\ pub[p].key \notin counted
  <2>1. CASE task.workflow = Pending(p) /\ PubRecord(p)
    BY <1>1, <2>1 DEF PubRecord, RunIdRecorded, TaskRecordType, CountedInv,
                      CallOfUncounted
  <2>2. CASE task.workflow = Pending(p) /\ PubClear(p)
    BY <1>1, <2>2 DEF PubClear, RunIdRecorded, TaskRecordType
  <2>3. CASE task.workflow # Pending(p)
    BY <2>3 DEF PubRecord, PubClear, RunIdRecorded
  <2> QED BY <2>1, <2>2, <2>3
<1>5. Calls'
  BY <1>2, <1>4, OneCallMoves, MarkersDiffer
<1> QED BY <1>2, <1>3, <1>4, <1>5, QuietCounts, MarkersDiffer DEF Quiet

-----------------------------------------------------------------------------
(* The step that counts.                                                   *)

LEMMA CountingCounts ==
  ASSUME CountedInv, NEW p \in Publisher, CallbackCount(p) \/ CallbackGiveUp(p)
  PROVE  Counts'
<1>1. PICK k : k = pub[p].for
  OBVIOUS
<1>2. /\ task \in TaskRecordType /\ pub \in [Publisher -> Publication]
      /\ nextRunAt \in Nat /\ nextRunAt \notin counted /\ IsFiniteSet(counted)
      /\ task.failures = Cardinality(counted) /\ task.failures \in 0..3
      /\ counted \subseteq RunAt
  BY CountFacts
<1>3. /\ k \in RunAt /\ k \in Nat /\ k # 0 /\ k < nextRunAt /\ k \notin counted
      /\ counted' = counted \cup {k}
  <2>1. pub[p].pc = "counting" /\ counted' = counted \cup {k}
    BY <1>1 DEF CallbackCount, CallbackGiveUp
  <2>2. k \in RunAt /\ k < nextRunAt
    BY <1>1, <2>1, CountFacts, FreshParts DEF PubOK, CallOK
  <2>3. k \notin counted
    BY <1>1, <2>1 DEF CountedInv, CallOfUncounted
  <2> QED BY <2>1, <2>2, <2>3, Bounds DEF RunAt
<1>4. /\ task'.workflow = NoRun /\ task'.lastFailed = k
      /\ task'.failures = task.failures + 1
      /\ task'.status = "queued" => task'.runAt = nextRunAt
      /\ nextRunAt' = nextRunAt \/ nextRunAt' = nextRunAt + 1
      /\ task'.status = "queued" => nextRunAt' = nextRunAt + 1
  <2>1. CASE CallbackCount(p)
    <3>1. task' = DeliveryRetried(task, k, nextRunAt) /\ nextRunAt' = nextRunAt + 1
      BY <1>1, <2>1 DEF CallbackCount, Used
    <3> QED BY <1>2, <3>1 DEF DeliveryRetried, TaskRecordType
  <2>2. CASE CallbackGiveUp(p)
    <3>1. /\ task' = DeliveryFailed(task, k) /\ UNCHANGED nextRunAt
          /\ task.failures >= 2 /\ task.status = "queued"
      BY <1>1, <2>2 DEF CallbackGiveUp, CallbackApplies, Unclaimed
    <3>2. task.failures = 2
      BY <1>2, <3>1 DEF CountedInv, DeliveriesLeft
    <3> QED BY <1>2, <3>1, <3>2 DEF DeliveryFailed, TaskRecordType
  <2> QED BY <2>1, <2>2
<1>5. DeliveryFailuresCountedOnce'
  <2>1. Cardinality(counted \cup {k}) = Cardinality(counted) + 1
    BY <1>2, <1>3, FS_AddElement
  <2> QED BY <1>2, <1>3, <1>4, <2>1 DEF DeliveryFailuresCountedOnce
<1>6. CountedIsLeftBehind'
  <2>1. \A j \in counted' : j \in Nat /\ j < nextRunAt
    BY <1>2, <1>3, Bounds DEF RunAt, CountedInv, CountedIsLeftBehind
  <2>2. \A j \in counted' : j < nextRunAt' /\ task'.workflow # Published(j)
    BY <1>2, <1>4, <2>1, MarkersDiffer
  <2>3. task'.status = "queued" => task'.runAt \notin counted'
    BY <1>2, <1>4, <2>1
  <2>4. task'.lastFailed # 0
    BY <1>3, <1>4
  <2> QED BY <2>2, <2>3, <2>4 DEF CountedIsLeftBehind
<1>7. \A q \in Publisher : q # p => pub[q].for # k
  BY <1>1, <1>3 DEF CountedInv, OneCallPerRun
<1>8. \A q \in Publisher :
        /\ q # p => pub'[q] = pub[q]
        /\ q = p => pub'[q].pc \in {"want", "idle"} /\ pub'[q].for \in {0, k}
  <2>1. PICK c : /\ pub' = [pub EXCEPT ![p] = c]
                 /\ c.pc \in {"want", "idle"} /\ c.for \in {0, k}
    <3>1. CASE CallbackCount(p)
      <4>1. PICK c : c = [pub[p] EXCEPT !.pc = "want"]
        OBVIOUS
      <4>2. pub' = [pub EXCEPT ![p] = c]
        BY <1>2, <3>1, <4>1 DEF CallbackCount
      <4>3. c.pc = "want" /\ c.for = k
        BY <1>1, <1>2, <4>1 DEF Publication
      <4> QED BY <4>2, <4>3
    <3>2. CASE CallbackGiveUp(p)
      <4>1. pub' = [pub EXCEPT ![p] = NoPublication]
        BY <3>2 DEF CallbackGiveUp
      <4>2. NoPublication.pc = "idle" /\ NoPublication.for = 0
        BY DEF NoPublication
      <4> QED BY <4>1, <4>2
    <3> QED BY <3>1, <3>2
  <2> QED BY <1>2, <2>1
<1>9. OneCallPerRun'
  BY <1>3, <1>7, <1>8 DEF CountedInv, OneCallPerRun
<1>10. ASSUME NEW q \in Publisher PROVE CallOfUncounted(q)'
  <2>1. task'.workflow # Pending(q)
    BY <1>4, MarkersDiffer
  <2>2. pub'[q].pc = "counting" => q # p /\ pub'[q] = pub[q]
    BY <1>8
  <2> QED BY <1>3, <1>7, <2>1, <2>2 DEF CountedInv, CallOfUncounted
<1> QED BY <1>5, <1>6, <1>9, <1>10 DEF Counts, Calls

-----------------------------------------------------------------------------

LEMMA CountedStep ==
  ASSUME OwnerCancelsAndRetries, CountedInv, [Next]_vars
  PROVE  CountedInv'
<1>1. TypeInv' /\ FreshIsUnused' /\ RestHasNoLease' /\ DeliveriesLeft'
  BY TypeStep, FreshStep, RestStep, DeliveriesStep DEF CountedInv
<1>2. CASE UNCHANGED vars
  BY <1>1, <1>2
  DEF vars, CountedInv, CountedIsLeftBehind, OneCallPerRun, CallOfUncounted,
      DeliveryFailuresCountedOnce
<1>3. CASE Next
  <2> SUFFICES Counts'
    BY <1>1 DEF CountedInv, Counts, Calls
  <2>1. ASSUME NEW p \in Publisher,
               Sweep(p) \/ Publishing(p) \/ CallbackStep(p) \/ Failing(p)
        PROVE  Counts'
    BY <1>3, <2>1, CallsKeepCounts, ClaimKeepsCounts, AnswerKeepsCounts, CountingCounts
    DEF Publishing, CallbackStep, Going
  <2>2. ASSUME NEW k \in RunAt, NEW p \in Publisher, Handoff(k, p) \/ CallbackRead(k, p)
        PROVE  Counts'
    BY <1>3, <2>2, CallsKeepCounts DEF Going
  <2>3. CASE Tick \/ \E k \in RunAt : Wake(k) \/ DeliveryExhausted(k)
    BY <1>3, <2>3, OthersKeepCounts
  <2>4. CASE \E k \in RunAt, w \in Worker : StepClaim(k, w) \/ StepRefused(k, w)
    BY <1>3, <2>4, OthersKeepCounts, ResetStartsOver
  <2>5. CASE \E w \in Worker : Working(w) \/ Renew(w) \/ Slice(w) \/ Dying(w)
    BY <1>3, <2>5, OthersKeepCounts
  <2>6. CASE Commanded
    <3>1. Cancel \/ Retry
      BY <2>6
      DEF OwnerCancelsAndRetries, Commanded, Schedule, Checkpoint, Block, Complete,
          Command
    <3> QED BY <1>3, <3>1, OthersKeepCounts, ResetStartsOver
  <2> QED BY <1>3, <2>1, <2>2, <2>3, <2>4, <2>5, <2>6 DEF Next
<1> QED BY <1>2, <1>3

LEMMA CountedInitially == Init => CountedInv
<1> SUFFICES ASSUME Init PROVE CountedInv
  OBVIOUS
<1>1. TypeInv /\ RestHasNoLease
  BY FailureInitially
<1>2. /\ task.status = "queued" /\ task.failures = 0 /\ task.lastFailed = 0
      /\ task.runAt \in {0, 1} /\ task.runAt < nextRunAt /\ nextRunAt \in {1, 2}
      /\ counted = {}
  BY DEF Init, NewTask
<1>3. /\ \A k \in RunAt : wf[k].st = "none"
      /\ \A p \in Publisher : pub[p].pc = "idle" /\ pub[p].key = 0 /\ pub[p].for = 0
      /\ \A w \in Worker : wk[w].run = 0
  BY DEF Init, NoRunYet, NoPublication, NoInvocation
<1>4. FreshIsUnused /\ DeliveriesLeft
  BY <1>2, <1>3 DEF FreshIsUnused, DeliveriesLeft
<1>5. CountedIsLeftBehind /\ OneCallPerRun /\ \A p \in Publisher : CallOfUncounted(p)
  BY <1>2, <1>3 DEF CountedIsLeftBehind, OneCallPerRun, CallOfUncounted
<1>6. DeliveryFailuresCountedOnce
  BY <1>2, FS_EmptySet DEF DeliveryFailuresCountedOnce
<1> QED BY <1>1, <1>4, <1>5, <1>6 DEF CountedInv

\* While the owner only cancels and retries, the record's count of failed deliveries
\* is the number of different runs counted since the last claim or retry, whatever
\* is lost, rejected, redelivered or dies between reading, counting and publishing.
THEOREM FailuresAreCountedOnce ==
  OwnerCancelsAndRetries => (Spec => []DeliveryFailuresCountedOnce)
<1> SUFFICES ASSUME OwnerCancelsAndRetries
             PROVE  Spec => []DeliveryFailuresCountedOnce
  OBVIOUS
<1>1. CountedInv /\ [Next]_vars => CountedInv'
  BY CountedStep
<1>2. CountedInv => DeliveryFailuresCountedOnce
  BY DEF CountedInv
<1> QED BY <1>1, <1>2, CountedInitially, PTL DEF Spec
=============================================================================
