---------------------------- MODULE TaskQueueProofs ----------------------------
(***************************************************************************)
(* TaskQueue for every value of its constants: type correctness and the    *)
(* worker's undisturbed lease.                                             *)
(***************************************************************************)
EXTENDS TaskQueueInductive, TLAPS

-----------------------------------------------------------------------------
(* Every operation on the task record yields a task record.                *)

\* Bounds that the assumptions give.
LEMMA Bounds ==
  /\ MaxRunAt \in Nat /\ MaxRunAt >= 1 /\ MaxAttempts \in Nat /\ MaxAttempts >= 1
  /\ LoopMax \in Nat /\ LoopMax >= 1 /\ LeaseTicks \in Nat /\ LeaseTicks >= 1
  /\ ClaimTicks \in Nat /\ ClaimTicks >= 1 /\ StaleTicks \in Nat /\ StaleTicks >= 1
  /\ DelayTicks \in Nat /\ DelayTicks >= 1
  /\ None \notin Worker
BY RecordAssumption

\* The values the operations write.
LEMMA Written ==
  /\ 0 \in 0..StaleTicks /\ 0 \in 0..ClaimTicks /\ 0 \in 0..DelayTicks
  /\ 0 \in 0..MaxAttempts /\ 0 \in 0..3 /\ 3 \in 0..3
  /\ ClaimTicks \in 0..ClaimTicks /\ DelayTicks \in 0..DelayTicks
  /\ LeaseTicks \in 0..LeaseTicks
BY Bounds

LEMMA NamedStatus ==
  /\ "queued" \in Status /\ "running" \in Status /\ "blocked" \in Status
  /\ "completed" \in Status /\ "failed" \in Status
  /\ "cancel_requested" \in Status /\ "cancelled" \in Status
BY DEF Status

LEMMA NoLeaseType == NoLease \in Lease /\ NoLease.holder = None /\ NoLease.left = 0
BY Bounds DEF NoLease, Lease, Iteration

LEMMA MarkerType ==
  /\ NoRun \in WorkflowRunId /\ NoRun.kind = "none"
  /\ \A p \in Publisher : Pending(p) \in WorkflowRunId /\ Pending(p).kind = "pending"
  /\ \A k \in RunAt : Published(k) \in WorkflowRunId /\ Published(k).kind = "published"
BY DEF WorkflowRunId, NoRun, Pending, Published

LEMMA NewTaskType == ASSUME NEW r \in RunAt \cup {0} PROVE NewTask(r) \in TaskRecordType
BY Bounds, NoLeaseType, MarkerType DEF NewTask, TaskRecordType, Status

LEMMA AgedType == ASSUME NEW t \in TaskRecordType PROVE Aged(t) \in TaskRecordType
<1>1. \A n \in Nat : Less(n) \in Nat /\ Less(n) <= n
  BY DEF Less
<1>2. /\ Less(t.due) \in 0..DelayTicks /\ Less(t.claim) \in 0..ClaimTicks
      /\ Less(t.lease.left) \in 0..LeaseTicks
  BY <1>1, Bounds DEF TaskRecordType, Lease
<1>3. [t.lease EXCEPT !.left = Less(@)] \in Lease
  BY <1>2 DEF TaskRecordType, Lease
<1>4. (IF t.workflow.kind = "published" /\ t.age < StaleTicks
         THEN t.age + 1 ELSE t.age) \in 0..StaleTicks
  BY Bounds DEF TaskRecordType
<1>5. Aged(t) = [t EXCEPT !.due = Less(t.due), !.claim = Less(t.claim),
                          !.lease = [t.lease EXCEPT !.left = Less(@)],
                          !.age = IF t.workflow.kind = "published" /\ t.age < StaleTicks
                                    THEN t.age + 1 ELSE t.age]
  BY DEF Aged, TaskRecordType
<1> QED BY <1>2, <1>3, <1>4, <1>5 DEF TaskRecordType

LEMMA EnqueueClaimedType ==
  ASSUME NEW t \in TaskRecordType, NEW p \in Publisher, NEW fresh,
         OverduePublished(t) => fresh \in RunAt
  PROVE  EnqueueClaimed(t, p, fresh) \in TaskRecordType
<1>1. (IF OverduePublished(t) THEN fresh ELSE t.runAt) \in RunAt \cup {0}
  BY DEF TaskRecordType
<1>2. EnqueueClaimed(t, p, fresh)
        = [t EXCEPT !.runAt = IF OverduePublished(t) THEN fresh ELSE t.runAt,
                    !.workflow = Pending(p), !.age = 0, !.claim = ClaimTicks]
  BY DEF EnqueueClaimed
<1>3. Pending(p) \in WorkflowRunId
  BY MarkerType
<1>4. 0 \in 0..StaleTicks /\ ClaimTicks \in 0..ClaimTicks
  BY Bounds
<1> QED BY <1>1, <1>2, <1>3, <1>4 DEF TaskRecordType

LEMMA RunIdRecordedType ==
  ASSUME NEW t \in TaskRecordType, NEW p, NEW id \in WorkflowRunId
  PROVE  RunIdRecorded(t, p, id) \in TaskRecordType
BY Written DEF RunIdRecorded, TaskRecordType

LEMMA ClaimedType ==
  ASSUME NEW t \in TaskRecordType, NEW w \in Worker, NEW k \in RunAt,
         NEW iter \in Iteration
  PROVE  Claimed(t, w, k, iter) \in TaskRecordType
<1>1. Attempted(t) \in 0..MaxAttempts
  BY Bounds DEF Attempted, TaskRecordType
<1>2. [holder |-> w, run |-> k, iter |-> iter, left |-> LeaseTicks] \in Lease
  BY Bounds DEF Lease
<1> QED BY <1>1, <1>2, NamedStatus, Written DEF Claimed, TaskRecordType

LEMMA RenewedType == ASSUME NEW t \in TaskRecordType PROVE Renewed(t) \in TaskRecordType
<1>1. [t.lease EXCEPT !.left = LeaseTicks] \in Lease
  BY Bounds DEF TaskRecordType, Lease
<1>2. Renewed(t) = [t EXCEPT !.lease = [t.lease EXCEPT !.left = LeaseTicks]]
  BY DEF Renewed
<1> QED BY <1>1, <1>2 DEF TaskRecordType

LEMMA RequeuedType ==
  ASSUME NEW t \in TaskRecordType, NEW fresh \in RunAt,
         NEW waits \in BOOLEAN, NEW progress \in BOOLEAN
  PROVE  Requeued(t, waits, progress, fresh) \in TaskRecordType
<1>1. (IF progress THEN 0 ELSE t.attempt) \in 0..MaxAttempts
  BY Written DEF TaskRecordType
<1>2. /\ "queued" \in Status /\ NoLease \in Lease /\ NoRun \in WorkflowRunId
      /\ 0 \in 0..StaleTicks /\ 0 \in 0..ClaimTicks /\ DelayTicks \in 0..DelayTicks
      /\ fresh \in RunAt \cup {0}
  BY NoLeaseType, MarkerType, NamedStatus, Written
<1> QED BY <1>1, <1>2, Zenon DEF Requeued, TaskRecordType

LEMMA SettledType ==
  ASSUME NEW t \in TaskRecordType, NEW d \in Decision, NEW fresh,
         d \in Requeues => fresh \in RunAt
  PROVE  Settled(t, d, fresh) \in TaskRecordType
<1>1. CASE d = "cancelled"
  <2>1. Settled(t, d, fresh) =
          [t EXCEPT !.status = "cancelled", !.waiting = FALSE, !.lease = NoLease]
    BY <1>1 DEF Settled
  <2> QED BY <2>1, NoLeaseType, NamedStatus DEF TaskRecordType
<1>2. CASE d \in Requeues
  <2>1. d # "cancelled"
    BY <1>2 DEF Requeues, Waits
  <2>2. Settled(t, d, fresh)
          = Requeued(t, d \in {"wait", "wait+progress"},
                     d \in {"wait+progress", "continue+progress"}, fresh)
    BY <1>2, <2>1, Zenon DEF Settled
  <2>3. fresh \in RunAt
    BY <1>2
  <2>4. /\ (d \in {"wait", "wait+progress"}) \in BOOLEAN
        /\ (d \in {"wait+progress", "continue+progress"}) \in BOOLEAN
    OBVIOUS
  <2> QED BY <2>2, <2>3, <2>4, RequeuedType, Zenon
<1>3. CASE d \notin Requeues /\ d # "cancelled"
  <2>1. d \in Status
    BY <1>3 DEF Decision, Outcome, Requeues, Status
  <2>2. Settled(t, d, fresh) =
          [t EXCEPT !.status = d, !.waiting = FALSE, !.lease = NoLease,
                    !.runAt = 0, !.due = 0]
    BY <1>3 DEF Settled
  <2> QED BY <2>1, <2>2, NoLeaseType, Written DEF TaskRecordType
<1> QED BY <1>1, <1>2, <1>3

LEMMA DecidedType ==
  ASSUME NEW t \in TaskRecordType, NEW o \in Outcome
  PROVE  Decided(t, o) \in Decision
BY DEF Decided, Decision, Outcome

LEMMA DeliveryType ==
  ASSUME NEW t \in TaskRecordType, NEW k \in RunAt
  PROVE  /\ DeliveryFailed(t, k) \in TaskRecordType
         /\ \A fresh \in RunAt :
              t.failures < 2 => DeliveryRetried(t, k, fresh) \in TaskRecordType
<1>1. DeliveryFailed(t, k) \in TaskRecordType
  BY MarkerType, NamedStatus, Written DEF DeliveryFailed, TaskRecordType
<1>2. ASSUME NEW fresh \in RunAt, t.failures < 2
      PROVE  DeliveryRetried(t, k, fresh) \in TaskRecordType
  <2>1. t.failures + 1 \in 0..3
    BY <1>2 DEF TaskRecordType
  <2> QED
    BY <2>1, MarkerType, Written DEF DeliveryRetried, TaskRecordType
<1> QED BY <1>1, <1>2

LEMMA CommandType ==
  ASSUME NEW t \in TaskRecordType
  PROVE  /\ Cancelled(t) \in TaskRecordType
         /\ \A fresh \in RunAt : Retried(t, fresh) \in TaskRecordType
         /\ \A fresh \in RunAt : Scheduled(t, fresh) \in TaskRecordType
         /\ Checkpointed(t) \in TaskRecordType
         /\ Blocked(t) \in TaskRecordType /\ Completed(t) \in TaskRecordType
<1>1. Cancelled(t) \in TaskRecordType
  <2>1. (IF t.status \in {"queued", "blocked", "failed"}
           THEN "cancelled" ELSE "cancel_requested") \in Status
    BY NamedStatus
  <2> QED BY <2>1 DEF Cancelled, TaskRecordType
<1>2. ASSUME NEW fresh \in RunAt
      PROVE  Retried(t, fresh) \in TaskRecordType /\ Scheduled(t, fresh) \in TaskRecordType
  BY MarkerType, NamedStatus, Written DEF Retried, Scheduled, TaskRecordType
<1>3. /\ Checkpointed(t) \in TaskRecordType
      /\ Blocked(t) \in TaskRecordType /\ Completed(t) \in TaskRecordType
  BY NamedStatus DEF Checkpointed, Blocked, Completed, TaskRecordType
<1> QED BY <1>1, <1>2, <1>3

-----------------------------------------------------------------------------
(* The pieces of the state keep their types.                               *)

LEMMA LessType ==
  ASSUME NEW b \in Nat, NEW n \in 0..b
  PROVE  Less(n) \in 0..b /\ Less(n) <= n /\ (n = 0 => Less(n) = 0)
BY DEF Less

LEMMA OverType ==
  ASSUME NEW r \in Run, NEW st \in {"handoff", "failed", "ended"}
  PROVE  Over(r, st) \in Run /\ Over(r, st).st = st
<1>1. 0 \in Iteration /\ 0 \in 0..DelayTicks
  BY Bounds DEF Iteration
<1> QED BY <1>1 DEF Over, Run

LEMMA AfterStepType ==
  ASSUME NEW r \in Run, NEW claimed \in BOOLEAN, NEW t \in TaskRecordType
  PROVE  /\ AfterStep(r, claimed, t) \in Run
         /\ AfterStep(r, claimed, t).st \in {"sleep", "handoff", "ended"}
<1> DEFINE goes == t.status = "queued" /\ (claimed => t.runAt # 0)
<1>1. CASE ~goes
  <2>1. AfterStep(r, claimed, t) = Over(r, "ended")
    BY <1>1 DEF AfterStep
  <2> QED BY <2>1, OverType
<1>2. CASE goes /\ r.iter = LoopMax - 1
  <2>1. AfterStep(r, claimed, t) = Over(r, "handoff")
    BY <1>2 DEF AfterStep
  <2> QED BY <2>1, OverType
<1>3. CASE goes /\ r.iter # LoopMax - 1
  <2>1. AfterStep(r, claimed, t)
          = [r EXCEPT !.st = "sleep", !.iter = r.iter + 1, !.wait = t.due]
    BY <1>3 DEF AfterStep
  <2>2. r.iter + 1 \in Iteration
    BY <1>3, Bounds DEF Run, Iteration
  <2>3. t.due \in 0..DelayTicks
    BY DEF TaskRecordType
  <2> QED BY <2>1, <2>2, <2>3 DEF Run
<1> QED BY <1>1, <1>2, <1>3

LEMMA EndedForType ==
  ASSUME wf \in [RunAt -> Run], NEW k
  PROVE  EndedFor(k) \in [RunAt -> Run]
<1>1. \A r \in Run : Over(r, "ended") \in Run
  BY OverType
<1> QED BY <1>1 DEF EndedFor

\* A call of enqueueTaskWithClaim that knows its run.
CallOK(c) ==
  /\ c \in Publication
  /\ c.pc \in {"claimed", "accepted", "rejected"} => c.key \in RunAt
  /\ c.pc = "counting" => c.for \in RunAt

PubOK == pub \in [Publisher -> Publication] /\ \A p \in Publisher : CallOK(pub[p])

\* A call of executeDurableTask that knows its run and decision.
WorkOK(i) ==
  /\ i \in Invocation
  /\ i.pc # "idle" => i.run \in RunAt
  /\ i.pc = "settling" => i.result \in {"cancelled", "blocked", "failed"}
  /\ i.pc = "writing" => i.result \in Decision

WkOK == wk \in [Worker -> Invocation] /\ \A w \in Worker : WorkOK(wk[w])

RestOK ==
  nextRunAt \in 1..(MaxRunAt + 1) /\ faults \in 0..MaxFaults /\ counted \subseteq RunAt

LEMMA TypeParts ==
  TypeInv <=> /\ task \in TaskRecordType /\ wf \in [RunAt -> Run]
              /\ PubOK /\ WkOK /\ RestOK
BY DEF TypeInv, TypeOK, CallsKnowTheirRun, PubOK, CallOK, WkOK, WorkOK, RestOK

LEMMA TypeNext ==
  ASSUME task' \in TaskRecordType, wf' \in [RunAt -> Run], PubOK', WkOK', RestOK'
  PROVE  TypeInv'
BY DEF TypeInv, TypeOK, CallsKnowTheirRun, PubOK, CallOK, WkOK, WorkOK, RestOK

LEMMA NoPublicationOK == CallOK(NoPublication)
BY Bounds DEF CallOK, NoPublication, Publication

LEMMA NoInvocationOK == WorkOK(NoInvocation)
BY Bounds DEF WorkOK, NoInvocation, Invocation, Iteration

LEMMA PubStep ==
  ASSUME PubOK, NEW p \in Publisher, NEW c, CallOK(c), pub' = [pub EXCEPT ![p] = c]
  PROVE  PubOK'
BY DEF PubOK, CallOK

LEMMA WkStep ==
  ASSUME WkOK, NEW w \in Worker, NEW i, WorkOK(i), wk' = [wk EXCEPT ![w] = i]
  PROVE  WkOK'
BY DEF WkOK, WorkOK

LEMMA CallingOK ==
  ASSUME PubOK, NEW p \in Publisher, NEW step, NEW k, Calling(p, step, k),
         \/ step = "want" /\ k \in RunAt \cup {0}
         \/ step = "counting" /\ k \in RunAt
  PROVE  PubOK'
<1> DEFINE c == [pub[p] EXCEPT !.pc = step, !.for = k]
<1>1. CallOK(c)
  BY DEF PubOK, CallOK, Publication
<1>2. pub' = [pub EXCEPT ![p] = c]
  BY DEF Calling, PubOK
<1> QED BY <1>1, <1>2, PubStep

LEMMA FaultType ==
  ASSUME faults \in 0..MaxFaults, NEW kind, Fault(kind)
  PROVE  faults' \in 0..MaxFaults
<1>1. MaxFaults \in Nat
  BY QueueAssumption
<1> QED BY <1>1 DEF Fault

LEMMA UsedType ==
  ASSUME nextRunAt \in 1..(MaxRunAt + 1), NEW condition, Used(condition)
  PROVE  /\ nextRunAt' \in 1..(MaxRunAt + 1)
         /\ condition => nextRunAt \in RunAt /\ nextRunAt' = nextRunAt + 1
         /\ nextRunAt' >= nextRunAt
<1>1. CASE condition
  BY <1>1, Bounds DEF Used, FreshLeft, RunAt
<1>2. CASE ~condition
  BY <1>2, Bounds DEF Used
<1> QED BY <1>1, <1>2

-----------------------------------------------------------------------------
(* Publishers keep the types.                                              *)

LEMMA TickType == TypeInv /\ Tick => TypeInv'
<1> SUFFICES ASSUME TypeInv, Tick PROVE TypeInv'
  OBVIOUS
<1> USE TypeParts
<1>1. task' \in TaskRecordType
  BY AgedType DEF Tick
<1>2. wf' \in [RunAt -> Run]
  <2>1. \A r \in Run : [r EXCEPT !.wait = Less(r.wait)] \in Run
    BY LessType, Bounds DEF Run
  <2> QED BY <2>1 DEF Tick
<1>3. PubOK'
  <2>1. \A c : CallOK(c) => CallOK([c EXCEPT !.wait = Less(c.wait)])
    BY LessType, Bounds DEF CallOK, Publication
  <2>2. \A p \in Publisher : pub'[p] = [pub[p] EXCEPT !.wait = Less(pub[p].wait)]
    BY DEF Tick
  <2>3. ASSUME NEW p \in Publisher
        PROVE  CallOK(pub'[p]) /\ pub'[p] \in Publication
    <3>1. CallOK(pub[p])
      BY DEF PubOK
    <3>2. CallOK([pub[p] EXCEPT !.wait = Less(pub[p].wait)])
      BY <2>1, <3>1
    <3>3. CallOK(pub'[p])
      BY <2>2, <3>2
    <3> QED BY <3>3 DEF CallOK
  <2>4. pub' = [p \in Publisher |-> [pub[p] EXCEPT !.wait = Less(pub[p].wait)]]
    BY DEF Tick
  <2> QED BY <2>3, <2>4 DEF PubOK
<1>4. WkOK' /\ RestOK'
  BY DEF Tick, WkOK, RestOK
<1> QED BY <1>1, <1>2, <1>3, <1>4, TypeNext

LEMMA PubClaimType ==
  ASSUME TypeInv, NEW p \in Publisher, PubClaim(p)
  PROVE  TypeInv'
<1> DEFINE fresh == OverduePublished(task) \/ task.runAt = 0
           key == IF fresh THEN nextRunAt ELSE task.runAt
           c == [pub[p] EXCEPT !.pc = "claimed", !.key = key, !.wait = task.due,
                               !.wake = task'.runAt]
<1> USE TypeParts
<1>1. Used(fresh)
  BY DEF PubClaim
<1>2. /\ nextRunAt' \in 1..(MaxRunAt + 1)
      /\ fresh => nextRunAt \in RunAt
  BY <1>1, UsedType DEF RestOK
<1>3. task' = EnqueueClaimed(task, p, nextRunAt)
  BY DEF PubClaim
<1>4. OverduePublished(task) => nextRunAt \in RunAt
  BY <1>2
<1>5. task' \in TaskRecordType
  BY <1>3, <1>4, EnqueueClaimedType
<1>6. key \in RunAt
  BY <1>2 DEF TaskRecordType
<1>7. task'.runAt \in RunAt \cup {0} /\ task.due \in 0..DelayTicks
  BY <1>5 DEF TaskRecordType
<1>8. CallOK(c)
  <2>1. pub[p] \in Publication
    BY DEF PubOK
  <2> HIDE DEF key
  <2> QED BY <2>1, <1>6, <1>7 DEF CallOK, Publication
<1>9. pub' = [pub EXCEPT ![p] = c]
  BY DEF PubClaim, PubOK
<1>10. PubOK'
  BY <1>8, <1>9, PubStep
<1>11. wf' \in [RunAt -> Run] /\ WkOK' /\ RestOK'
  BY <1>2 DEF PubClaim, WkOK, RestOK
<1> QED BY <1>5, <1>10, <1>11, TypeNext

LEMMA CallingType ==
  ASSUME TypeInv, NEW p \in Publisher,
         \/ Sweep(p)
         \/ \E k \in RunAt : Handoff(k, p) \/ CallbackRead(k, p)
  PROVE  TypeInv'
<1> USE TypeParts
<1>1. task' \in TaskRecordType /\ WkOK' /\ RestOK'
  BY DEF Sweep, Handoff, CallbackRead, WkOK, RestOK
<1>2. CASE Sweep(p)
  BY <1>1, <1>2, CallingOK, TypeNext DEF Sweep
<1>3. ASSUME NEW k \in RunAt, Handoff(k, p)
      PROVE  TypeInv'
  BY <1>1, <1>3, CallingOK, TypeNext DEF Handoff
<1>4. ASSUME NEW k \in RunAt, CallbackRead(k, p)
      PROVE  TypeInv'
  <2>1. wf' \in [RunAt -> Run]
    BY <1>4, EndedForType DEF CallbackRead
  <2>2. PubOK'
    <3>1. \/ \E step \in {"want", "counting"} : Calling(p, step, k)
          \/ UNCHANGED pub
      BY <1>4 DEF CallbackRead
    <3> QED BY <3>1, CallingOK DEF PubOK
  <2> QED BY <1>1, <2>1, <2>2, TypeNext
<1> QED BY <1>2, <1>3, <1>4

\* The steps of a call, once it holds its claim or was refused one.
LEMMA PublishingType ==
  ASSUME TypeInv, NEW p \in Publisher,
         \/ PubRefused(p) \/ PubRecord(p) \/ PubClear(p) \/ PubCrash(p)
         \/ PubRejected(p) \/ \E answered \in BOOLEAN : PubSend(p, answered)
  PROVE  TypeInv'
<1> USE TypeParts
<1>1. WkOK'
  BY DEF PubRefused, PubRecord, PubClear, PubCrash, PubRejected, PubSend, WkOK
<1>2. RestOK'
  BY FaultType
  DEF PubRefused, PubRecord, PubClear, PubCrash, PubRejected, PubSend, RestOK
<1>3. PubOK'
  <2>1. CASE PubRefused(p) \/ PubRecord(p) \/ PubClear(p) \/ PubCrash(p)
    BY <2>1, NoPublicationOK, PubStep
    DEF PubRefused, PubRecord, PubClear, PubCrash
  <2>2. ASSUME NEW step \in {"accepted", "rejected"},
               pub[p].pc = "claimed", pub' = [pub EXCEPT ![p].pc = step]
        PROVE  PubOK'
    <3>1. CallOK([pub[p] EXCEPT !.pc = step])
      BY <2>2 DEF PubOK, CallOK, Publication
    <3>2. pub' = [pub EXCEPT ![p] = [pub[p] EXCEPT !.pc = step]]
      BY <2>2 DEF PubOK
    <3> QED BY <3>1, <3>2, PubStep
  <2>3. CASE PubRejected(p)
    BY <2>2, <2>3 DEF PubRejected
  <2>4. ASSUME NEW answered \in BOOLEAN, PubSend(p, answered)
        PROVE  PubOK'
    BY <2>2, <2>4 DEF PubSend
  <2> QED BY <2>1, <2>3, <2>4
<1>4. task' \in TaskRecordType
  <2>1. CASE PubRecord(p)
    <3>1. Published(pub[p].key) \in WorkflowRunId
      BY <2>1, MarkerType DEF PubRecord, PubOK, CallOK
    <3> QED BY <2>1, <3>1, RunIdRecordedType DEF PubRecord
  <2>2. CASE PubClear(p)
    BY <2>2, MarkerType, RunIdRecordedType DEF PubClear
  <2> QED BY <2>1, <2>2 DEF PubRefused, PubCrash, PubRejected, PubSend
<1>5. wf' \in [RunAt -> Run]
  <2>1. CASE PubRefused(p) \/ PubRecord(p)
    BY <2>1, EndedForType DEF PubRefused, PubRecord
  <2>2. ASSUME NEW answered \in BOOLEAN, PubSend(p, answered)
        PROVE  wf' \in [RunAt -> Run]
    <3> DEFINE r == [st |-> "sleep", iter |-> 0, wake |-> pub[p].wake,
                     wait |-> pub[p].wait]
    <3>1. r \in Run
      BY Bounds DEF PubOK, Publication, Run, Iteration
    <3>2. wf' = wf \/ wf' = [wf EXCEPT ![pub[p].key] = r]
      BY <2>2, Zenon DEF PubSend
    <3> HIDE DEF r
    <3> QED BY <3>1, <3>2
  <2> QED BY <2>1, <2>2 DEF PubClear, PubCrash, PubRejected
<1> QED BY <1>1, <1>2, <1>3, <1>4, <1>5, TypeNext

-----------------------------------------------------------------------------
(* So do the failure callback and the workflow runs.                       *)

LEMMA CallbackType ==
  ASSUME TypeInv, NEW p \in Publisher, CallbackStep(p)
  PROVE  TypeInv'
<1> DEFINE k == pub[p].for
<1> USE TypeParts
<1>1. k \in RunAt /\ pub[p].pc = "counting"
  BY DEF CallbackStep, CallbackCount, CallbackGiveUp, CallbackStale, PubOK, CallOK
<1>2. WkOK'
  BY DEF CallbackStep, CallbackCount, CallbackGiveUp, CallbackStale, WkOK
<1>3. PubOK'
  <2>1. CallOK([pub[p] EXCEPT !.pc = "want"])
    BY DEF PubOK, CallOK, Publication
  <2>2. \/ pub' = [pub EXCEPT ![p] = [pub[p] EXCEPT !.pc = "want"]]
        \/ pub' = [pub EXCEPT ![p] = NoPublication]
    BY DEF CallbackStep, CallbackCount, CallbackGiveUp, CallbackStale, PubOK
  <2> QED BY <2>1, <2>2, NoPublicationOK, PubStep
<1>4. wf' \in [RunAt -> Run]
  BY EndedForType DEF CallbackStep, CallbackCount, CallbackGiveUp, CallbackStale
<1>5. CASE CallbackCount(p)
  <2>1. nextRunAt \in RunAt /\ nextRunAt' \in 1..(MaxRunAt + 1)
    BY <1>5, UsedType DEF CallbackCount, RestOK
  <2>2. task' \in TaskRecordType
    BY <1>1, <1>5, <2>1, DeliveryType DEF CallbackCount
  <2>3. RestOK'
    BY <1>1, <1>5, <2>1 DEF CallbackCount, RestOK
  <2> QED BY <1>2, <1>3, <1>4, <2>2, <2>3, TypeNext
<1>6. CASE CallbackGiveUp(p)
  <2>1. task' \in TaskRecordType
    BY <1>1, <1>6, DeliveryType DEF CallbackGiveUp
  <2>2. RestOK'
    BY <1>1, <1>6 DEF CallbackGiveUp, RestOK
  <2> QED BY <1>2, <1>3, <1>4, <2>1, <2>2, TypeNext
<1>7. CASE CallbackStale(p)
  BY <1>2, <1>3, <1>4, <1>7, TypeNext DEF CallbackStale, RestOK
<1> QED BY <1>5, <1>6, <1>7 DEF CallbackStep

LEMMA RunType ==
  ASSUME TypeInv, NEW k \in RunAt, Wake(k) \/ DeliveryExhausted(k)
  PROVE  TypeInv'
<1> USE TypeParts
<1>1. task' \in TaskRecordType /\ PubOK' /\ WkOK'
  BY DEF Wake, DeliveryExhausted, PubOK, WkOK
<1>2. RestOK'
  BY FaultType DEF Wake, DeliveryExhausted, RestOK
<1>3. wf' \in [RunAt -> Run]
  <2>1. [wf[k] EXCEPT !.st = "step"] \in Run /\ Over(wf[k], "failed") \in Run
    BY OverType DEF Run
  <2>2. \/ wf' = [wf EXCEPT ![k] = [wf[k] EXCEPT !.st = "step"]]
        \/ wf' = [wf EXCEPT ![k] = Over(wf[k], "failed")]
    BY DEF Wake, DeliveryExhausted
  <2> QED BY <2>1, <2>2
<1> QED BY <1>1, <1>2, <1>3, TypeNext

-----------------------------------------------------------------------------
(* So do the workers.                                                      *)

LEMMA ReportType ==
  ASSUME wf \in [RunAt -> Run], WkOK, NEW w \in Worker, wk[w].pc # "idle",
         NEW claimed \in BOOLEAN, NEW t \in TaskRecordType,
         Report(w, claimed, t) \/ ReportNothing(w)
  PROVE  wf' \in [RunAt -> Run] /\ WkOK'
<1>1. WkOK'
  BY NoInvocationOK, WkStep DEF Report, ReportNothing
<1>2. wk[w].run \in RunAt
  BY DEF WkOK, WorkOK
<1>3. AfterStep(wf[wk[w].run], claimed, t) \in Run
  BY <1>2, AfterStepType
<1>4. \/ wf' = wf \/ wf' = EndedFor(wk[w].run)
      \/ wf' = [wf EXCEPT ![wk[w].run] = AfterStep(wf[wk[w].run], claimed, t)]
  BY DEF Report, ReportNothing
<1>5. wf' \in [RunAt -> Run]
  BY <1>3, <1>4, EndedForType
<1> QED BY <1>1, <1>5

LEMMA SettlingType ==
  ASSUME task \in TaskRecordType, wf \in [RunAt -> Run], WkOK,
         NEW w \in Worker, wk[w].pc # "idle", NEW o \in Outcome, Settling(w, o)
  PROVE  wf' \in [RunAt -> Run] /\ WkOK'
<1>1. CASE task.lease.holder = w
  <2> DEFINE i == [wk[w] EXCEPT !.pc = "writing", !.result = Decided(task, o)]
  <2>1. WorkOK(i)
    BY DecidedType DEF WkOK, WorkOK, Invocation
  <2>2. wk' = [wk EXCEPT ![w] = i] /\ wf' = wf
    BY <1>1 DEF Settling, WkOK
  <2> QED BY <2>1, <2>2, WkStep
<1>2. CASE task.lease.holder # w
  BY <1>2, ReportType DEF Settling
<1> QED BY <1>1, <1>2

LEMMA StepType ==
  ASSUME TypeInv, NEW k \in RunAt, NEW w \in Worker,
         StepClaim(k, w) \/ StepRefused(k, w)
  PROVE  TypeInv'
<1> USE TypeParts
<1>1. wf[k].iter \in Iteration
  BY DEF Run
<1>2. wf' \in [RunAt -> Run] /\ PubOK'
  BY DEF StepClaim, StepRefused, PubOK
<1>3. faults' \in 0..MaxFaults
  BY FaultType DEF StepClaim, StepRefused, Deliver, RestOK
<1>4. RestOK'
  BY <1>3 DEF StepClaim, StepRefused, RestOK
<1>5. task' \in TaskRecordType
  BY <1>1, ClaimedType DEF StepClaim, StepRefused
<1>6. WkOK'
  <2>1. ASSUME NEW pc \in {"run", "refused"}
        PROVE  WorkOK([pc |-> pc, run |-> k, iter |-> wf[k].iter, result |-> "none"])
    BY <1>1 DEF WorkOK, Invocation
  <2> QED BY <2>1, WkStep DEF StepClaim, StepRefused
<1> QED BY <1>2, <1>4, <1>5, <1>6, TypeNext

LEMMA SliceType ==
  ASSUME TypeInv, NEW w \in Worker, Slice(w) \/ ReportRefused(w)
  PROVE  TypeInv'
<1> USE TypeParts
<1>1. task' \in TaskRecordType /\ PubOK' /\ RestOK'
  BY DEF Slice, Finish, ThrowSettled, Throw, ReportRefused, PubOK, RestOK
<1>2. ASSUME NEW o \in Outcomes, Finish(w, o)
      PROVE  wf' \in [RunAt -> Run] /\ WkOK'
  BY <1>2, SettlingType, QueueAssumption DEF Finish
<1>3. CASE ThrowSettled(w) \/ ReportRefused(w)
  <2>1. /\ wk[w].pc # "idle"
        /\ Report(w, TRUE, task) \/ Report(w, FALSE, task)
    BY <1>3 DEF ThrowSettled, ReportRefused
  <2>2. wf' \in [RunAt -> Run] /\ WkOK'
    BY <2>1, ReportType
  <2> QED BY <1>1, <2>2, TypeNext
<1>4. ASSUME NEW leaseLoss \in BOOLEAN, Throw(w, leaseLoss)
      PROVE  wf' \in [RunAt -> Run] /\ WkOK'
  <2> DEFINE result == IF task.status \in {"cancel_requested", "cancelled"} THEN "cancelled"
                       ELSE IF leaseLoss /\ task.lease.holder = w THEN "blocked"
                       ELSE "failed"
             i == [wk[w] EXCEPT !.pc = "settling", !.result = result]
  <2>1. result \in {"cancelled", "blocked", "failed"}
    OBVIOUS
  <2>2. wk' = [wk EXCEPT ![w] = i]
    BY <1>4 DEF Throw, WkOK
  <2> HIDE DEF result
  <2>3. WorkOK(i)
    BY <1>4, <2>1 DEF Throw, WkOK, WorkOK, Invocation, Decision, Outcome
  <2> QED BY <1>4, <2>2, <2>3, WkStep DEF Throw
<1> QED BY <1>1, <1>2, <1>3, <1>4, TypeNext DEF Slice

LEMMA SettleType ==
  ASSUME TypeInv, NEW w \in Worker,
         \/ SettleThrown(w) \/ SettleWrite(w) \/ SettleLost(w)
         \/ CrashAfterSettle(w)
  PROVE  TypeInv'
<1> USE TypeParts
<1>1. PubOK'
  BY DEF SettleThrown, SettleWrite, SettleLost, CrashAfterSettle, PubOK
<1>2. CASE SettleThrown(w)
  <2>1. wk[w].result \in Outcome
    BY <1>2 DEF SettleThrown, WkOK, WorkOK, Outcome
  <2> QED BY <1>1, <1>2, <2>1, SettlingType, TypeNext DEF SettleThrown, RestOK
<1>3. CASE SettleWrite(w) \/ CrashAfterSettle(w)
  <2>1. wk[w].result \in Decision /\ wk[w].pc = "writing"
    BY <1>3 DEF SettleWrite, CrashAfterSettle, WkOK, WorkOK
  <2>2. Used(wk[w].result \in Requeues)
    BY <1>3 DEF SettleWrite, CrashAfterSettle
  <2>3. /\ nextRunAt' \in 1..(MaxRunAt + 1)
        /\ wk[w].result \in Requeues => nextRunAt \in RunAt
    BY <2>2, UsedType DEF RestOK
  <2>4. task' \in TaskRecordType
    BY <1>3, <2>1, <2>3, SettledType DEF SettleWrite, CrashAfterSettle
  <2>5. RestOK'
    BY <1>3, <2>3, FaultType DEF SettleWrite, CrashAfterSettle, RestOK
  <2>6. wf' \in [RunAt -> Run] /\ WkOK'
    BY <1>3, <2>1, <2>4, ReportType, NoInvocationOK, WkStep
    DEF SettleWrite, CrashAfterSettle
  <2> QED BY <1>1, <2>4, <2>5, <2>6, TypeNext
<1>4. CASE SettleLost(w)
  BY <1>1, <1>4, ReportType, TypeNext DEF SettleLost, RestOK
<1> QED BY <1>2, <1>3, <1>4

LEMMA LeaseType ==
  ASSUME TypeInv, NEW w \in Worker, Renew(w) \/ WorkerCrash(w)
  PROVE  TypeInv'
<1> USE TypeParts
<1>1. task' \in TaskRecordType
  BY RenewedType DEF Renew, WorkerCrash
<1>2. WkOK'
  BY NoInvocationOK, WkStep DEF Renew, WorkerCrash, WkOK
<1>3. RestOK'
  BY FaultType DEF Renew, WorkerCrash, RestOK
<1> QED BY <1>1, <1>2, <1>3, TypeNext DEF Renew, WorkerCrash, PubOK

-----------------------------------------------------------------------------
(* So do the commands.                                                     *)

LEMMA CommandedType ==
  ASSUME TypeInv, Commanded
  PROVE  TypeInv'
<1> USE TypeParts
<1>1. wf' \in [RunAt -> Run] /\ WkOK'
  BY DEF Commanded, Cancel, Retry, Schedule, Checkpoint, Block, Complete, Command, WkOK
<1>2. PubOK'
  BY CallingOK
  DEF Commanded, Cancel, Retry, Schedule, Checkpoint, Block, Complete, PubOK
<1>3. RestOK'
  BY UsedType
  DEF Commanded, Cancel, Retry, Schedule, Checkpoint, Block, Complete, Command, RestOK
<1>4. task' \in TaskRecordType
  <2>1. Used(TRUE) => nextRunAt \in RunAt
    BY UsedType DEF RestOK
  <2> QED BY <2>1, CommandType
    DEF Commanded, Cancel, Retry, Schedule, Checkpoint, Block, Complete, Command
<1> QED BY <1>1, <1>2, <1>3, <1>4, TypeNext

-----------------------------------------------------------------------------

LEMMA TypeInitially == Init => TypeInv
<1> SUFFICES ASSUME Init PROVE TypeInv
  OBVIOUS
<1>1. task \in TaskRecordType
  <2>1. (IF CreatedWithRunAt THEN 1 ELSE 0) \in RunAt \cup {0}
    BY Bounds DEF RunAt
  <2> QED BY <2>1, NewTaskType DEF Init
<1>2. wf \in [RunAt -> Run]
  <2>1. NoRunYet \in Run
    BY Bounds DEF NoRunYet, Run, Iteration
  <2> QED BY <2>1 DEF Init
<1>3. PubOK
  BY NoPublicationOK DEF Init, PubOK, CallOK
<1>4. WkOK
  BY NoInvocationOK DEF Init, WkOK, WorkOK
<1>5. RestOK
  <2> MaxFaults \in Nat
    BY QueueAssumption
  <2>1. 1 \in 1..(MaxRunAt + 1) /\ 2 \in 1..(MaxRunAt + 1)
    BY Bounds
  <2>2. faults \in 0..MaxFaults /\ counted \subseteq RunAt
    BY DEF Init
  <2>3. nextRunAt \in 1..(MaxRunAt + 1)
    BY <2>1 DEF Init
  <2> QED BY <2>2, <2>3 DEF RestOK
<1> QED BY <1>1, <1>2, <1>3, <1>4, <1>5, TypeParts

LEMMA TypeStep == TypeInv /\ [Next]_vars => TypeInv'
<1> SUFFICES ASSUME TypeInv, [Next]_vars PROVE TypeInv'
  OBVIOUS
<1>1. CASE UNCHANGED vars
  BY <1>1 DEF vars, TypeInv, TypeOK, CallsKnowTheirRun
<1>2. CASE Tick
  BY <1>2, TickType
<1>3. ASSUME NEW p \in Publisher,
             Sweep(p) \/ Publishing(p) \/ CallbackStep(p) \/ Failing(p)
      PROVE  TypeInv'
  BY <1>3, CallingType, PubClaimType, PublishingType, CallbackType
  DEF Publishing, Failing
<1>4. ASSUME NEW k \in RunAt, Wake(k) \/ DeliveryExhausted(k)
      PROVE  TypeInv'
  BY <1>4, RunType
<1>5. ASSUME NEW k \in RunAt, NEW p \in Publisher, Handoff(k, p) \/ CallbackRead(k, p)
      PROVE  TypeInv'
  BY <1>5, CallingType
<1>6. ASSUME NEW k \in RunAt, NEW w \in Worker, StepClaim(k, w) \/ StepRefused(k, w)
      PROVE  TypeInv'
  BY <1>6, StepType
<1>7. ASSUME NEW w \in Worker, Working(w) \/ Renew(w) \/ Slice(w) \/ Dying(w)
      PROVE  TypeInv'
  BY <1>7, SliceType, SettleType, LeaseType DEF Working, Dying
<1>8. CASE Commanded
  BY <1>8, CommandedType
<1> QED BY <1>1, <1>2, <1>3, <1>4, <1>5, <1>6, <1>7, <1>8 DEF Next

\* Every variable keeps its type, and every call past its first step knows the
\* run and the decision it works on.
THEOREM TypeCorrect == Spec => []TypeOK
<1>1. TypeInv => TypeOK
  BY DEF TypeInv
<1> QED BY <1>1, TypeInitially, TypeStep, PTL DEF Spec

-----------------------------------------------------------------------------
(* A worker's lease.                                                       *)

Undisturbed(w) ==
  \/ /\ task'.status = task.status /\ task'.attempt = task.attempt
     /\ task'.runAt = task.runAt /\ task'.lease.holder = w
  \/ wk[w].pc = "writing" /\ wk'[w].pc = "idle"
  \/ Commanded

\* The operations that leave a running task to its worker.
LEMMA QuietOperations ==
  ASSUME NEW t \in TaskRecordType, NEW u,
         \/ u = t \/ u = Aged(t) \/ u = Renewed(t)
         \/ \E p, id : u = RunIdRecorded(t, p, id)
  PROVE  /\ u.status = t.status /\ u.attempt = t.attempt
         /\ u.runAt = t.runAt /\ u.lease.holder = t.lease.holder
<1>1. CASE u = Aged(t)
  BY <1>1 DEF Aged, TaskRecordType, Lease
<1>2. CASE u = Renewed(t)
  BY <1>2 DEF Renewed, TaskRecordType, Lease
<1>3. ASSUME NEW p, NEW id, u = RunIdRecorded(t, p, id)
      PROVE  /\ u.status = t.status /\ u.attempt = t.attempt
             /\ u.runAt = t.runAt /\ u.lease.holder = t.lease.holder
  BY <1>3 DEF RunIdRecorded, TaskRecordType
<1> QED BY <1>1, <1>2, <1>3

\* While a worker holds its lease, only its own settlement and the owner's
\* commands touch the status, the attempt, the runAt or the holder.
THEOREM LeaseProtects == Spec => OwnedRunIsUndisturbed
<1>1. ASSUME TypeInv, Next,
             NEW w \in Worker, HoldsLease(task, w),
             task.status \in {"running", "cancel_requested"}
      PROVE  Undisturbed(w)
  <2>1. task \in TaskRecordType /\ wk \in [Worker -> Invocation]
    BY <1>1 DEF TypeInv, TypeOK
  <2>2. task.status # "queued" /\ task.lease.left # 0 /\ task.lease.holder = w
    BY <1>1 DEF HoldsLease
  <2>3. ASSUME task' = task \/ task' = Aged(task) \/ task' = Renewed(task)
               \/ \E p, id : task' = RunIdRecorded(task, p, id)
        PROVE  Undisturbed(w)
    BY <2>1, <2>2, <2>3, QuietOperations DEF Undisturbed
  <2>4. CASE Tick
    BY <2>3, <2>4 DEF Tick
  <2>5. ASSUME NEW p \in Publisher,
               Sweep(p) \/ Publishing(p) \/ CallbackStep(p) \/ Failing(p)
        PROVE  Undisturbed(w)
    <3>1. ~PubClaim(p)
      BY <2>2 DEF PubClaim, CanClaimEnqueue
    <3>2. ~CallbackCount(p) /\ ~CallbackGiveUp(p)
      BY <2>2 DEF CallbackCount, CallbackGiveUp, CallbackApplies, Unclaimed
    <3>3. CASE Sweep(p) \/ CallbackStale(p) \/ Failing(p) \/ PubRefused(p)
               \/ PubSend(p, TRUE)
      BY <2>3, <3>3
      DEF Sweep, CallbackStale, Failing, PubRefused, PubSend, PubRejected, PubCrash
    <3>4. CASE PubRecord(p) \/ PubClear(p)
      BY <2>3, <3>4 DEF PubRecord, PubClear
    <3> QED BY <2>5, <3>1, <3>2, <3>3, <3>4 DEF Publishing, CallbackStep
  <2>6. ASSUME NEW k \in RunAt, Wake(k) \/ DeliveryExhausted(k)
        PROVE  Undisturbed(w)
    BY <2>3, <2>6 DEF Wake, DeliveryExhausted
  <2>7. ASSUME NEW k \in RunAt, NEW p \in Publisher, Handoff(k, p) \/ CallbackRead(k, p)
        PROVE  Undisturbed(w)
    BY <2>3, <2>7 DEF Handoff, CallbackRead
  <2>8. ASSUME NEW k \in RunAt, NEW v \in Worker, StepClaim(k, v) \/ StepRefused(k, v)
        PROVE  Undisturbed(w)
    BY <2>2, <2>3, <2>8 DEF StepClaim, StepRefused, CanClaim
  <2>9. ASSUME NEW v \in Worker, Working(v) \/ Renew(v) \/ Slice(v) \/ Dying(v)
        PROVE  Undisturbed(w)
    <3>1. CASE SettleWrite(v) \/ CrashAfterSettle(v)
      <4>1. v = w /\ wk[w].pc = "writing"
        BY <2>2, <3>1 DEF SettleWrite, CrashAfterSettle, HoldsLease
      <4>2. wk' = [wk EXCEPT ![w] = NoInvocation]
        BY <3>1, <4>1 DEF SettleWrite, CrashAfterSettle, Report
      <4>3. wk'[w].pc = "idle"
        BY <2>1, <4>2 DEF NoInvocation
      <4> QED BY <4>1, <4>3 DEF Undisturbed
    <3>2. CASE Slice(v) \/ WorkerCrash(v) \/ ReportRefused(v) \/ SettleThrown(v)
               \/ SettleLost(v)
      BY <2>3, <3>2
      DEF Slice, Finish, ThrowSettled, Throw, WorkerCrash, ReportRefused,
          SettleThrown, SettleLost
    <3>3. CASE Renew(v)
      BY <2>3, <3>3 DEF Renew
    <3> QED BY <2>9, <3>1, <3>2, <3>3 DEF Working, Dying
  <2>10. CASE Commanded
    BY <2>10 DEF Undisturbed
  <2> QED BY <1>1, <2>4, <2>5, <2>6, <2>7, <2>8, <2>9, <2>10 DEF Next
<1>2. TypeInv /\ [Next]_vars =>
        [\A w \in Worker :
           HoldsLease(task, w) /\ task.status \in {"running", "cancel_requested"}
             => Undisturbed(w)]_vars
  BY <1>1
<1> QED BY <1>2, TypeInitially, TypeStep, PTL
        DEF Spec, OwnedRunIsUndisturbed, Undisturbed
=============================================================================
