---------------------------- MODULE TaskWakeProofs ----------------------------
(***************************************************************************)
(* No queued task is stranded, for every value of the constants under      *)
(* which the owner only cancels and retries and a failed delivery does not *)
(* meet a failed publication; and a task that nobody touches asks for a    *)
(* bounded number of wakes, for every value under which no slice asks to   *)
(* be continued.                                                           *)
(***************************************************************************)
EXTENDS TaskFreshProofs

LEMMA QueuedParts ==
  ASSUME WakeInv, task.status = "queued"
  PROVE  /\ TypeInv /\ MarkerIsOwn /\ RunIsUntaken /\ FailureIsExpected
         /\ wf \in [RunAt -> Run] /\ pub \in [Publisher -> Publication]
         /\ wk \in [Worker -> Invocation] /\ task \in TaskRecordType
         /\ task.runAt \in RunAt /\ task.runAt # 0
         /\ task.lease.holder = None /\ task.lease.left = 0
<1>1. TypeInv /\ MarkerIsOwn /\ RunIsUntaken /\ FailureIsExpected
  BY DEF WakeInv, OwnRunAhead
<1>2. task.lease = NoLease
  BY DEF WakeInv, RestHasNoLease
<1> QED BY <1>1, <1>2, NoLeaseType DEF TypeInv, TypeOK, MarkerIsOwn, RunAt

-----------------------------------------------------------------------------
(* Three ways in which a queued task's own run stays ahead of it.          *)

\* The task has a new runAt, which nothing knows.
LEMMA OwnRunFresh ==
  ASSUME NEW k \in RunAt, task'.runAt = k, task'.workflow = NoRun,
         task'.lastFailed # k, wf'[k].st = "none",
         \A w \in Worker : wk'[w].run # k,
         \A p \in Publisher : pub'[p].for # k /\ pub'[p].key # k
  PROVE  OwnRunAhead'
<1>1. \A p \in Publisher : NoRun # Pending(p)
  BY DEF NoRun, Pending
<1>2. NoRun.kind # "published"
  BY DEF NoRun
<1>3. MarkerIsOwn'
  BY <1>1, <1>2 DEF MarkerIsOwn
<1>4. RunIsUntaken'
  BY DEF RunIsUntaken
<1>5. FailureIsExpected'
  BY DEF FailureIsExpected
<1> QED BY <1>3, <1>4, <1>5 DEF OwnRunAhead

\* A worker or QStash is busy with another run.
LEMMA OwnRunKept ==
  ASSUME OwnRunAhead, UNCHANGED <<task, pub>>, wf'[task.runAt] = wf[task.runAt],
         \A w \in Worker : wk'[w].run # task.runAt
  PROVE  OwnRunAhead'
BY DEF OwnRunAhead, MarkerIsOwn, RunIsUntaken, FailureIsExpected

\* A call of enqueueTaskWithClaim begins, or ends without having been accepted.
LEMMA OwnRunCall ==
  ASSUME OwnRunAhead, pub \in [Publisher -> Publication],
         UNCHANGED <<task, wk>>, wf'[task.runAt] = wf[task.runAt],
         NEW p \in Publisher, NEW c, pub' = [pub EXCEPT ![p] = c],
         c.pc \notin {"claimed", "accepted"},
         c.for = task.runAt => c.pc = "counting" /\ wf[task.runAt].st = "failed"
  PROVE  OwnRunAhead'
<1>1. \A q \in Publisher : pub'[q] = IF q = p THEN c ELSE pub[q]
  OBVIOUS
<1>2. MarkerIsOwn'
  BY <1>1 DEF OwnRunAhead, MarkerIsOwn
<1>3. RunIsUntaken'
  BY <1>1 DEF OwnRunAhead, RunIsUntaken
<1>4. FailureIsExpected'
  BY <1>1 DEF OwnRunAhead, FailureIsExpected
<1> QED BY <1>2, <1>3, <1>4 DEF OwnRunAhead

\* A call that waits for the task's own run is its callback, and nothing else.
LEMMA CallForOther ==
  ASSUME RunIsUntaken, NEW p \in Publisher, pub[p].pc # "counting"
  PROVE  pub[p].for # task.runAt
BY DEF RunIsUntaken

-----------------------------------------------------------------------------
(* The steps of the runs and the workers.                                  *)

LEMMA WorkersKeepWake ==
  ASSUME WakeInv, task.status = "queued", NEW w \in Worker,
         Working(w) \/ Renew(w) \/ Slice(w) \/ Dying(w)
  PROVE  OwnRunAhead'
<1>1. UNCHANGED task
  <2>1. ~HoldsLease(task, w) /\ ~CanRenew(task, w)
    BY QueuedParts DEF HoldsLease, CanRenew
  <2> QED BY <2>1
    DEF Working, ReportRefused, SettleThrown, SettleWrite, SettleLost, Renew,
        Slice, Finish, ThrowSettled, Throw, Dying, WorkerCrash, CrashAfterSettle
<1>2. \A v \in Worker : wk[v].run # task.runAt
  BY QueuedParts DEF RunIsUntaken
<1>3. wf'[task.runAt] = wf[task.runAt]
  BY <1>2, QueuedParts, WorkerKeepsToItsRun
<1>4. (\A v \in Worker : wk'[v].run # task.runAt) /\ UNCHANGED pub
  BY <1>2, QueuedParts, WorkerKeepsToItsRun
<1> QED BY <1>1, <1>3, <1>4, QueuedParts, OwnRunKept DEF OwnRunAhead

LEMMA DeliveriesKeepWake ==
  ASSUME WakeInv, task.status = "queued", task'.status = "queued",
         NEW k \in RunAt, NEW w \in Worker, StepClaim(k, w) \/ StepRefused(k, w)
  PROVE  OwnRunAhead'
<1>1. ~StepClaim(k, w)
  BY QueuedParts DEF StepClaim, Claimed, TaskRecordType
<1>2. StepRefused(k, w)
  BY <1>1
<1>3. k # task.runAt
  <2>1. ASSUME k = task.runAt PROVE CanClaim(task, k, wf[k].iter)
    BY <1>2, <2>1, QueuedParts DEF StepRefused, Deliver, RunIsUntaken, CanClaim
  <2> QED BY <1>2, <2>1 DEF StepRefused
<1>4. \A v \in Worker : wk'[v].run # task.runAt
  <2>1. \A v \in Worker : wk[v].run # task.runAt
    BY QueuedParts DEF RunIsUntaken
  <2> DEFINE i == [pc |-> "refused", run |-> k, iter |-> wf[k].iter, result |-> "none"]
  <2>2. wk' = [wk EXCEPT ![w] = i] /\ i.run = k
    BY <1>2 DEF StepRefused
  <2> HIDE DEF i
  <2> QED BY <1>3, <2>1, <2>2, QueuedParts
<1> QED BY <1>2, <1>4, QueuedParts, OwnRunKept DEF StepRefused, OwnRunAhead

LEMMA RunsKeepWake ==
  ASSUME WakeInv, task.status = "queued",
         NEW k \in RunAt, Wake(k) \/ DeliveryExhausted(k)
  PROVE  OwnRunAhead'
<1>1. UNCHANGED <<task, pub, wk>>
  BY DEF Wake, DeliveryExhausted
<1>2. CASE k # task.runAt
  <2>1. wf'[task.runAt] = wf[task.runAt]
    BY <1>2, QueuedParts DEF Wake, DeliveryExhausted
  <2>2. \A w \in Worker : wk'[w].run # task.runAt
    BY <1>1, QueuedParts DEF RunIsUntaken
  <2> QED BY <1>1, <2>1, <2>2, QueuedParts, OwnRunKept DEF OwnRunAhead
<1>3. CASE k = task.runAt
  <2>1. /\ wf[k].st \in {"sleep", "step"} /\ wf'[k].st \in {"step", "failed"}
        /\ wf'[k].st = "failed" => wf[k].st = "step"
        /\ task.due = 0
    <3>1. CASE Wake(k)
      <4>1. task.due = 0
        BY <1>3, <3>1, QueuedParts DEF Wake, RunIsUntaken, TaskRecordType
      <4> QED BY <3>1, <4>1, QueuedParts DEF Wake, Run
    <3>2. CASE DeliveryExhausted(k)
      BY <1>3, <3>2, QueuedParts, OverType DEF DeliveryExhausted, RunIsUntaken
    <3> QED BY <3>1, <3>2
  <2>2. \A p \in Publisher : pub[p].for # k
    BY <1>3, <2>1, QueuedParts DEF RunIsUntaken
  <2>3. MarkerIsOwn'
    BY <1>1, <1>3, <2>1, QueuedParts DEF MarkerIsOwn
  <2>4. RunIsUntaken'
    BY <1>1, <1>3, <2>1, <2>2, QueuedParts DEF RunIsUntaken
  <2>5. FailureIsExpected'
    BY <1>1, <1>3, <2>1, QueuedParts DEF FailureIsExpected
  <2> QED BY <2>3, <2>4, <2>5 DEF OwnRunAhead
<1> QED BY <1>2, <1>3

LEMMA TimeKeepsWake ==
  ASSUME WakeInv, task.status = "queued", Tick
  PROVE  OwnRunAhead'
<1>1. /\ task'.runAt = task.runAt /\ task'.lastFailed = task.lastFailed
      /\ task'.workflow = task.workflow /\ task'.due = Less(task.due)
  BY QueuedParts DEF Tick, Aged, TaskRecordType
<1>2. \A k \in RunAt : /\ wf'[k].st = wf[k].st /\ wf'[k].wait = Less(wf[k].wait)
  BY QueuedParts DEF Tick, Run
<1>3. \A p \in Publisher : /\ pub'[p].pc = pub[p].pc /\ pub'[p].for = pub[p].for
                           /\ pub'[p].key = pub[p].key
                           /\ pub'[p].wait = Less(pub[p].wait)
  BY QueuedParts DEF Tick, Publication
<1>4. UNCHANGED wk
  BY DEF Tick
<1>5. \A m, n \in Nat : /\ m >= n => Less(m) >= Less(n)
                        /\ n = 0 => Less(n) = 0
  BY DEF Less
<1>6. /\ task.due \in Nat /\ \A k \in RunAt : wf[k].wait \in Nat
      /\ \A p \in Publisher : pub[p].wait \in Nat
  BY QueuedParts, Bounds DEF TaskRecordType, Run, Publication
<1>7. MarkerIsOwn'
  BY <1>1, <1>2, <1>3, <1>5, <1>6, QueuedParts DEF MarkerIsOwn
<1>8. RunIsUntaken'
  BY <1>1, <1>2, <1>3, <1>4, <1>5, <1>6, QueuedParts DEF RunIsUntaken
<1>9. FailureIsExpected'
  BY <1>1, <1>2, <1>3, QueuedParts DEF FailureIsExpected
<1> QED BY <1>7, <1>8, <1>9 DEF OwnRunAhead

-----------------------------------------------------------------------------
(* The publishers.                                                         *)

\* The sweep and the handoff begin a call for no run, or for one that is over.
LEMMA CallersKeepWake ==
  ASSUME WakeInv, task.status = "queued", NEW p \in Publisher,
         Sweep(p) \/ \E k \in RunAt : Handoff(k, p)
  PROVE  OwnRunAhead'
<1>1. UNCHANGED <<task, wf, wk>>
  BY DEF Sweep, Handoff
<1>2. PICK k : Calling(p, "want", k) /\ k # task.runAt
  BY QueuedParts DEF Sweep, Handoff, RunIsUntaken
<1> DEFINE c == [pub[p] EXCEPT !.pc = "want", !.for = k]
<1>3. pub' = [pub EXCEPT ![p] = c] /\ c.pc = "want" /\ c.for = k
  BY <1>2, QueuedParts DEF Calling, Publication
<1> HIDE DEF c
<1> QED BY <1>1, <1>2, <1>3, QueuedParts, OwnRunCall DEF OwnRunAhead

LEMMA RefusalKeepsWake ==
  ASSUME WakeInv, task.status = "queued", NEW p \in Publisher,
         PubRefused(p) \/ PubCrash(p)
  PROVE  OwnRunAhead'
<1>1. UNCHANGED <<task, wk>> /\ pub' = [pub EXCEPT ![p] = NoPublication]
  BY DEF PubRefused, PubCrash
<1>2. wf'[task.runAt] = wf[task.runAt]
  <2>1. CASE PubRefused(p)
    BY <2>1, QueuedParts, CallForOther DEF PubRefused, EndedFor
  <2>2. CASE PubCrash(p)
    BY <2>2 DEF PubCrash
  <2> QED BY <2>1, <2>2
<1>3. NoPublication.pc = "idle" /\ NoPublication.for # task.runAt
  BY QueuedParts DEF NoPublication
<1> QED BY <1>1, <1>2, <1>3, QueuedParts, OwnRunCall DEF OwnRunAhead

\* The claim takes the task's own key, or a new one together with a new runAt.
LEMMA ClaimKeepsWake ==
  ASSUME WakeInv, task.status = "queued", NEW p \in Publisher, PubClaim(p)
  PROVE  OwnRunAhead'
<1> DEFINE late == OverduePublished(task)
           key == IF late \/ task.runAt = 0 THEN nextRunAt ELSE task.runAt
           c == [pub[p] EXCEPT !.pc = "claimed", !.key = key, !.wait = task.due,
                               !.wake = task'.runAt]
<1>1. UNCHANGED <<wf, wk>> /\ pub[p].pc = "want"
  BY DEF PubClaim
<1>2. /\ task'.runAt = IF late THEN nextRunAt ELSE task.runAt
      /\ task'.workflow = Pending(p) /\ task'.lastFailed = task.lastFailed
      /\ task'.due = task.due
  BY QueuedParts DEF PubClaim, EnqueueClaimed, TaskRecordType
<1>3. late => nextRunAt \in RunAt
  BY QueuedParts, UsedType, TypeParts DEF PubClaim, RestOK
<1>4. key = task'.runAt /\ key \in RunAt
  BY <1>2, <1>3, QueuedParts
<1>5. pub' = [pub EXCEPT ![p] = c]
  BY QueuedParts DEF PubClaim
<1>6. c.pc = "claimed" /\ c.key = key /\ c.wait = task.due /\ c.for = pub[p].for
  BY QueuedParts DEF Publication
<1> HIDE DEF c, key
<1>7. \A q \in Publisher : pub'[q] = IF q = p THEN c ELSE pub[q]
  BY <1>5, QueuedParts
<1>8. task.due \in Nat /\ task.due >= task.due
  BY QueuedParts, Bounds DEF TaskRecordType
<1>9. late => /\ task.lastFailed # nextRunAt /\ wf[nextRunAt].st = "none"
              /\ \A w \in Worker : wk[w].run # nextRunAt
              /\ \A q \in Publisher : pub[q].key # nextRunAt /\ pub[q].for # nextRunAt
  <2>1. TypeInv /\ FreshIsUnused
    BY DEF WakeInv
  <2>2. /\ task.lastFailed \in Nat /\ \A w \in Worker : wk[w].run \in Nat
        /\ \A q \in Publisher : pub[q].key \in Nat /\ pub[q].for \in Nat
    BY QueuedParts DEF TaskRecordType, Invocation, Publication, RunAt
  <2> QED BY <1>3, <2>1, <2>2, FreshParts
<1>10. pub[p].for # task.runAt
  BY <1>1, QueuedParts, CallForOther
<1>11. Pending(p).kind = "pending" /\ Pending(p) # NoRun
       /\ \A q \in Publisher : Pending(q) = Pending(p) => q = p
  BY DEF Pending, NoRun
<1>12. MarkerIsOwn'
  <2>1. task'.runAt \in RunAt /\ task'.lastFailed # task'.runAt
    BY <1>2, <1>4, <1>9, QueuedParts DEF MarkerIsOwn
  <2>2. task'.workflow.kind # "published"
    BY <1>2, <1>11
  <2>3. \A q \in Publisher :
          pub'[q].pc \in {"claimed", "accepted"} /\ task'.workflow = Pending(q)
            => pub'[q].key = task'.runAt
    BY <1>2, <1>4, <1>6, <1>7, <1>11
  <2>4. \A q \in Publisher :
          pub'[q].pc = "claimed" /\ pub'[q].key = task'.runAt => pub'[q].wait >= task'.due
    BY <1>2, <1>6, <1>7, <1>8, <1>9, QueuedParts DEF MarkerIsOwn
  <2> QED BY <2>1, <2>2, <2>3, <2>4 DEF MarkerIsOwn
<1>13. RunIsUntaken'
  <2>1. CASE late
    <3>1. task'.runAt = nextRunAt /\ wf'[nextRunAt].st = "none"
      BY <1>1, <1>2, <1>9, <2>1
    <3>2. \A q \in Publisher : pub'[q].for # nextRunAt
      BY <1>6, <1>7, <1>9, <2>1
    <3> QED BY <1>1, <1>9, <2>1, <3>1, <3>2 DEF RunIsUntaken
  <2>2. CASE ~late
    BY <1>1, <1>2, <1>6, <1>7, <1>10, <2>2, QueuedParts DEF RunIsUntaken
  <2> QED BY <2>1, <2>2
<1>14. FailureIsExpected'
  BY <1>2, <1>11 DEF FailureIsExpected
<1> QED BY <1>12, <1>13, <1>14 DEF OwnRunAhead

\* The request creates the task's own run, if it is for it, no earlier than due.
LEMMA SendKeepsWake ==
  ASSUME WakeInv, task.status = "queued", NEW p \in Publisher,
         PubSend(p, TRUE) \/ PubSend(p, FALSE) \/ PubRejected(p)
  PROVE  OwnRunAhead'
<1>1. UNCHANGED <<task, wk>> /\ pub[p].pc = "claimed" /\ pub[p].key \in RunAt
  BY QueuedParts, TypeParts DEF PubSend, PubRejected, PubOK, CallOK
<1>2. PICK step \in {"accepted", "rejected"} : pub' = [pub EXCEPT ![p].pc = step]
  BY DEF PubSend, PubRejected
<1>3. \A q \in Publisher :
        /\ pub'[q].key = pub[q].key /\ pub'[q].for = pub[q].for
        /\ pub'[q].wait = pub[q].wait
        /\ IF q = p THEN pub'[q].pc = step ELSE pub'[q].pc = pub[q].pc
  BY <1>2, QueuedParts DEF Publication
<1>4. pub[p].for # task.runAt
  BY <1>1, QueuedParts, CallForOther
<1>5. \/ wf'[task.runAt] = wf[task.runAt]
      \/ /\ wf'[task.runAt].st = "sleep" /\ wf'[task.runAt].wait = pub[p].wait
         /\ pub[p].key = task.runAt
  <2> DEFINE r == [st |-> "sleep", iter |-> 0, wake |-> pub[p].wake,
                   wait |-> pub[p].wait]
  <2>1. wf' = wf \/ wf' = [wf EXCEPT ![pub[p].key] = r]
    BY Zenon DEF PubSend, PubRejected
  <2>2. r.st = "sleep" /\ r.wait = pub[p].wait
    OBVIOUS
  <2> HIDE DEF r
  <2> QED BY <1>1, <2>1, <2>2, QueuedParts
<1>6. wf[task.runAt].st # "none" => wf'[task.runAt].st # "none"
  BY <1>5
<1>7. MarkerIsOwn'
  BY <1>1, <1>3, <1>6, QueuedParts DEF MarkerIsOwn
<1>8. RunIsUntaken'
  <2>1. CASE wf'[task.runAt] = wf[task.runAt]
    BY <1>1, <1>3, <1>4, <2>1, QueuedParts DEF RunIsUntaken
  <2>2. CASE wf'[task.runAt] # wf[task.runAt]
    <3>1. wf[task.runAt].st = "none"
      BY <1>1, <1>5, <2>2, QueuedParts, Zenon DEF PubSend, PubRejected
    <3>2. wf'[task.runAt].wait >= task.due
      BY <1>1, <1>5, <2>2, QueuedParts DEF MarkerIsOwn
    <3>3. \A q \in Publisher : pub'[q].for # task.runAt
      BY <1>3, <3>1, QueuedParts DEF RunIsUntaken
    <3> QED BY <1>1, <1>5, <2>2, <3>2, <3>3, QueuedParts DEF RunIsUntaken
  <2> QED BY <2>1, <2>2
<1>9. FailureIsExpected'
  <2>1. \/ wf'[task.runAt] = wf[task.runAt]
        \/ pub[p].pc = "claimed" /\ pub[p].key = task.runAt
    BY <1>1, <1>5
  <2> QED BY <1>1, <1>3, <2>1, QueuedParts DEF FailureIsExpected
<1> QED BY <1>7, <1>8, <1>9 DEF OwnRunAhead

\* The recorded answer is about the task's own run; a rejection clears only a
\* marker, and only where no run fails.
LEMMA AnswerKeepsWake ==
  ASSUME WakeInv, task.status = "queued", NEW p \in Publisher,
         PubRecord(p) \/ PubClear(p)
  PROVE  OwnRunAhead'
<1>1. UNCHANGED wk /\ pub' = [pub EXCEPT ![p] = NoPublication]
  BY DEF PubRecord, PubClear
<1>2. /\ task'.runAt = task.runAt /\ task'.lastFailed = task.lastFailed
      /\ task'.due = task.due
  BY QueuedParts DEF PubRecord, PubClear, RunIdRecorded, TaskRecordType
<1>3. /\ NoPublication.pc = "idle" /\ NoPublication.for = 0
      /\ \A q \in Publisher : pub'[q] = IF q = p THEN NoPublication ELSE pub[q]
  BY <1>1, QueuedParts DEF NoPublication
<1>4. pub[p].for # task.runAt
  BY QueuedParts, CallForOther DEF PubRecord, PubClear
<1>5. wf'[task.runAt] = wf[task.runAt]
  BY <1>4, QueuedParts DEF PubRecord, PubClear, EndedFor
<1>6. RunIsUntaken'
  BY <1>1, <1>2, <1>3, <1>5, QueuedParts DEF RunIsUntaken
<1>7. CASE task'.workflow = task.workflow
  <2>1. MarkerIsOwn'
    BY <1>2, <1>3, <1>5, <1>7, QueuedParts DEF MarkerIsOwn
  <2>2. FailureIsExpected'
    BY <1>2, <1>3, <1>5, <1>7, QueuedParts DEF FailureIsExpected
  <2> QED BY <1>6, <2>1, <2>2 DEF OwnRunAhead
<1>8. CASE task'.workflow # task.workflow
  <2>1. task.workflow = Pending(p)
    BY <1>8 DEF PubRecord, PubClear, RunIdRecorded
  <2>2. CASE PubRecord(p)
    <3>1. task'.workflow = Published(pub[p].key)
      BY <2>1, <2>2, QueuedParts DEF PubRecord, RunIdRecorded, TaskRecordType
    <3>2. pub[p].key = task.runAt
      BY <2>1, <2>2, QueuedParts DEF PubRecord, MarkerIsOwn
    <3>3. wf[task.runAt].st # "none"
      BY <2>2, <3>2 DEF PubRecord, WakeInv, AcceptedRunExists
    <3>4. /\ \A q \in Publisher : Pending(q) # task'.workflow
          /\ task'.workflow # NoRun
      BY <3>1 DEF Published, Pending, NoRun
    <3>5. MarkerIsOwn'
      BY <1>2, <1>3, <1>5, <3>1, <3>2, <3>3, <3>4, QueuedParts DEF MarkerIsOwn
    <3>6. FailureIsExpected'
      BY <3>4 DEF FailureIsExpected
    <3> QED BY <1>6, <3>5, <3>6 DEF OwnRunAhead
  <2>3. CASE PubClear(p)
    <3>1. task'.workflow = NoRun
      BY <2>1, <2>3, QueuedParts DEF PubClear, RunIdRecorded, TaskRecordType
    <3>2. "exhausted" \notin FaultKinds
      BY <2>3 DEF PubClear, WakeInv, NoRejectionUnlessFaulty
    <3>3. task'.workflow.kind # "published" /\ \A q \in Publisher : Pending(q) # NoRun
      BY <3>1 DEF Pending, NoRun
    <3>4. MarkerIsOwn'
      BY <1>2, <1>3, <3>1, <3>3, QueuedParts DEF MarkerIsOwn
    <3>5. FailureIsExpected'
      BY <3>2 DEF FailureIsExpected
    <3> QED BY <1>6, <3>4, <3>5 DEF OwnRunAhead
  <2> QED BY <2>2, <2>3
<1> QED BY <1>7, <1>8

-----------------------------------------------------------------------------
(* The failure callback.                                                   *)

\* The failure of the task's own run is always still to be counted.
LEMMA CallbackIsDue ==
  ASSUME WakeInv, task.status = "queued", wf[task.runAt].st = "failed"
  PROVE  CallbackApplies(task, task.runAt) /\ ~Cleared(task)
<1>1. "exhausted" \in FaultKinds
  BY QueuedParts DEF WakeInv, NoFailureUnlessExhausted
<1>2. task.workflow # NoRun
  BY <1>1, QueuedParts DEF FailureIsExpected
<1>3. Unclaimed(task)
  BY QueuedParts DEF Unclaimed, RunIsUntaken
<1>4. task.workflow.kind = "pending" \/ task.workflow = Published(task.runAt)
  <2>1. task.workflow \in WorkflowRunId
    BY QueuedParts DEF TaskRecordType
  <2>2. CASE task.workflow.kind = "published"
    BY <2>2, QueuedParts DEF MarkerIsOwn
  <2> QED BY <1>2, <2>1, <2>2 DEF WorkflowRunId, Pending, Published
<1> QED BY <1>2, <1>3, <1>4 DEF CallbackApplies, Cleared

LEMMA CallbackReadKeepsWake ==
  ASSUME WakeInv, task.status = "queued",
         NEW k \in RunAt, NEW p \in Publisher, CallbackRead(k, p)
  PROVE  OwnRunAhead'
<1>1. UNCHANGED <<task, wk>> /\ wf[k].st = "failed"
  BY DEF CallbackRead
<1>2. AlreadyCounted(task, k) => k # task.runAt
  BY QueuedParts DEF AlreadyCounted, MarkerIsOwn
<1>3. k = task.runAt => CallbackApplies(task, k) /\ ~Cleared(task)
  BY <1>1, CallbackIsDue
<1>4. ASSUME NEW step \in {"want", "counting"}, Calling(p, step, k), UNCHANGED wf,
             k = task.runAt => step = "counting"
      PROVE  OwnRunAhead'
  <2> DEFINE c == [pub[p] EXCEPT !.pc = step, !.for = k]
  <2>1. pub' = [pub EXCEPT ![p] = c] /\ c.pc = step /\ c.for = k
    BY <1>4, QueuedParts DEF Calling, Publication
  <2> HIDE DEF c
  <2> QED BY <1>1, <1>4, <2>1, QueuedParts, OwnRunCall DEF OwnRunAhead
<1>5. CASE AlreadyCounted(task, k)
  BY <1>2, <1>4, <1>5 DEF CallbackRead
<1>6. CASE ~AlreadyCounted(task, k) /\ CallbackApplies(task, k) /\ ~Cleared(task)
  BY <1>4, <1>6 DEF CallbackRead
<1>7. CASE wf' = EndedFor(k) /\ UNCHANGED pub /\ k # task.runAt
  <2>1. wf'[task.runAt] = wf[task.runAt]
    BY <1>7, QueuedParts DEF EndedFor
  <2>2. \A w \in Worker : wk'[w].run # task.runAt
    BY <1>1, QueuedParts DEF RunIsUntaken
  <2> QED BY <1>1, <1>7, <2>1, <2>2, QueuedParts, OwnRunKept DEF OwnRunAhead
<1> QED BY <1>3, <1>5, <1>6, <1>7 DEF CallbackRead

LEMMA CallbackStaleKeepsWake ==
  ASSUME WakeInv, task.status = "queued", NEW p \in Publisher, CallbackStale(p)
  PROVE  OwnRunAhead'
<1> DEFINE k == pub[p].for
<1>1. UNCHANGED <<task, wk>> /\ pub[p].pc = "counting" /\ ~CallbackApplies(task, k)
  BY DEF CallbackStale
<1>2. k # task.runAt
  BY <1>1, QueuedParts, CallbackIsDue DEF RunIsUntaken
<1>3. wf'[task.runAt] = wf[task.runAt]
  BY <1>2, QueuedParts DEF CallbackStale, EndedFor
<1>4. ASSUME NEW c, pub' = [pub EXCEPT ![p] = c], c.pc \in {"idle", "want"},
             c.for \in {k, 0}
      PROVE  OwnRunAhead'
  BY <1>1, <1>2, <1>3, <1>4, QueuedParts, OwnRunCall DEF OwnRunAhead
<1>5. CASE pub' = [pub EXCEPT ![p] = NoPublication]
  BY <1>4, <1>5 DEF NoPublication
<1>6. CASE pub' = [pub EXCEPT ![p].pc = "want"]
  <2> DEFINE c == [pub[p] EXCEPT !.pc = "want"]
  <2>1. pub' = [pub EXCEPT ![p] = c] /\ c.pc = "want" /\ c.for = k
    BY <1>6, QueuedParts DEF Publication
  <2> HIDE DEF c
  <2> QED BY <1>4, <2>1
<1>7. \/ pub' = [pub EXCEPT ![p].pc = "want"]
      \/ pub' = [pub EXCEPT ![p] = NoPublication]
  BY DEF CallbackStale
<1> QED BY <1>5, <1>6, <1>7

-----------------------------------------------------------------------------
(* The steps that queue a task again give it a new runAt.                  *)

\* The parts of the state that do not know the next runAt yet.
LEMMA NextIsUnknown ==
  ASSUME WakeInv, nextRunAt \in RunAt
  PROVE  /\ task.lastFailed # nextRunAt /\ wf[nextRunAt].st = "none"
         /\ \A w \in Worker : wk[w].run # nextRunAt
         /\ \A p \in Publisher : pub[p].key # nextRunAt /\ pub[p].for # nextRunAt
         /\ nextRunAt # 0
<1>1. TypeInv /\ FreshIsUnused
  BY DEF WakeInv
<1>2. /\ task.lastFailed \in Nat /\ \A w \in Worker : wk[w].run \in Nat
      /\ \A p \in Publisher : pub[p].key \in Nat /\ pub[p].for \in Nat
  BY <1>1 DEF TypeInv, TypeOK, TaskRecordType, Invocation, Publication, RunAt
<1> QED BY <1>1, <1>2, FreshParts

LEMMA RetryHasWake ==
  ASSUME WakeInv, Retry
  PROVE  OwnRunAhead'
<1>1. task \in TaskRecordType
  BY DEF WakeInv, TypeInv, TypeOK
<1>2. nextRunAt \in RunAt
  BY UsedType, TypeParts DEF Retry, WakeInv, RestOK
<1>3. task'.runAt = nextRunAt /\ task'.workflow = NoRun /\ task'.lastFailed = 0
  BY <1>1 DEF Retry, Command, Retried, TaskRecordType
<1>4. UNCHANGED <<wf, wk, pub>>
  BY DEF Retry, Command
<1> QED BY <1>2, <1>3, <1>4, NextIsUnknown, OwnRunFresh

LEMMA CountHasWake ==
  ASSUME WakeInv, NEW p \in Publisher, CallbackCount(p)
  PROVE  OwnRunAhead'
<1>1. task \in TaskRecordType /\ pub \in [Publisher -> Publication]
  BY DEF WakeInv, TypeInv, TypeOK
<1>2. nextRunAt \in RunAt
  BY UsedType, TypeParts DEF CallbackCount, WakeInv, RestOK
<1>3. /\ task'.runAt = nextRunAt /\ task'.workflow = NoRun
      /\ task'.lastFailed = pub[p].for
  BY <1>1 DEF CallbackCount, DeliveryRetried, TaskRecordType
<1>4. UNCHANGED <<wf, wk>>
  BY DEF CallbackCount
<1>5. \A q \in Publisher : pub'[q].for = pub[q].for /\ pub'[q].key = pub[q].key
  BY <1>1 DEF CallbackCount, Publication
<1> QED BY <1>2, <1>3, <1>4, <1>5, NextIsUnknown, OwnRunFresh

LEMMA SettlementHasWake ==
  ASSUME WakeInv, task.status # "queued", task'.status = "queued",
         NEW w \in Worker, SettleWrite(w) \/ CrashAfterSettle(w)
  PROVE  OwnRunAhead'
<1>1. task \in TaskRecordType /\ TypeInv
  BY DEF WakeInv, TypeInv, TypeOK
<1> DEFINE d == wk[w].result
<1>2. task' = Settled(task, d, nextRunAt) /\ Used(d \in Requeues)
  BY DEF SettleWrite, CrashAfterSettle
<1>3. d \in Decision
  BY <1>1, TypeParts DEF SettleWrite, CrashAfterSettle, WkOK, WorkOK
<1>4. d \in Requeues /\ d # "cancelled"
  <2>1. CASE d = "cancelled"
    BY <1>1, <1>2, <2>1 DEF Settled, TaskRecordType
  <2>2. CASE d \notin Requeues /\ d # "cancelled"
    <3>1. task'.status = d
      BY <1>1, <1>2, <2>2 DEF Settled, TaskRecordType
    <3>2. d # "queued"
      BY <1>3 DEF Decision, Outcome, Waits
    <3> QED BY <3>1, <3>2
  <2> QED BY <2>1, <2>2
<1>5. nextRunAt \in RunAt
  BY <1>1, <1>2, <1>4, UsedType, TypeParts DEF RestOK
<1>6. PICK waits, progress : task' = Requeued(task, waits, progress, nextRunAt)
  BY <1>2, <1>4, Zenon DEF Settled
<1>7. /\ task'.runAt = nextRunAt /\ task'.workflow = NoRun
      /\ task'.lastFailed = task.lastFailed
  BY <1>1, <1>6, Zenon DEF Requeued, TaskRecordType
<1>8. Working(w) \/ Dying(w)
  BY DEF Working, Dying
<1>9. wf'[nextRunAt] = wf[nextRunAt] /\ UNCHANGED pub
      /\ \A v \in Worker : wk'[v].run = wk[v].run \/ wk'[v].run = 0
  BY <1>1, <1>5, <1>8, NextIsUnknown, WorkerKeepsToItsRun
<1> QED BY <1>5, <1>7, <1>9, NextIsUnknown, OwnRunFresh

-----------------------------------------------------------------------------
(* The invariant, and what follows from it.                                *)

LEMMA WakeStep ==
  ASSUME OwnerCancelsAndRetries, WakeInv, Next, task'.status = "queued"
  PROVE  OwnRunAhead'
<1>1. task \in TaskRecordType /\ TypeInv
  BY DEF WakeInv, TypeInv, TypeOK
<1>2. CASE task.status = "queued"
  <2>1. ASSUME NEW p \in Publisher,
               Sweep(p) \/ Publishing(p) \/ CallbackStep(p) \/ Failing(p)
        PROVE  OwnRunAhead'
    <3>1. ~CallbackGiveUp(p)
      BY <1>1 DEF CallbackGiveUp, DeliveryFailed, TaskRecordType
    <3> QED BY <1>2, <2>1, <3>1, CallersKeepWake, ClaimKeepsWake, RefusalKeepsWake,
               SendKeepsWake, AnswerKeepsWake, CountHasWake, CallbackStaleKeepsWake
        DEF Publishing, CallbackStep, Failing
  <2>2. ASSUME NEW k \in RunAt, NEW p \in Publisher, Handoff(k, p) \/ CallbackRead(k, p)
        PROVE  OwnRunAhead'
    BY <1>2, <2>2, CallersKeepWake, CallbackReadKeepsWake
  <2>3. CASE Commanded
    <3>1. ~(CanCancel(task) /\ task' = Cancelled(task))
      BY <1>1, <1>2 DEF Cancelled, TaskRecordType
    <3>2. ~(CanRetry(task) /\ task' = Retried(task, nextRunAt))
      BY <1>2 DEF CanRetry
    <3> QED BY <2>3, <3>1, <3>2, GentleCommands
  <2> QED BY <1>2, <2>1, <2>2, <2>3, TimeKeepsWake, RunsKeepWake,
             DeliveriesKeepWake, WorkersKeepWake DEF Next
<1>3. CASE task.status # "queued"
  <2>1. ~Kept /\ ~Renewal
    BY <1>1, <1>3, QuietOperations DEF Kept, Renewal
  <2>2. ~Marking /\ ~Claiming /\ ~Counting
    BY <1>1, <1>3
    DEF Marking, CanClaimEnqueue, RunIdRecorded, Claiming, Claimed, Counting,
        CallbackApplies, Unclaimed, TaskRecordType
  <2>3. CASE Commanded
    <3>1. task' # Cancelled(task)
      BY <1>1 DEF Cancelled, TaskRecordType
    <3>2. CanRetry(task)
      BY <2>3, <3>1, GentleCommands
    <3>3. Retry
      BY <2>3, <3>1, <1>1
      DEF OwnerCancelsAndRetries, Commanded, Cancel, Schedule, Checkpoint, Block,
          Complete, Command
    <3> QED BY <3>3, RetryHasWake
  <2>4. CASE Settlement
    BY <1>3, <2>4, SettlementHasWake DEF Settlement
  <2> QED BY <2>1, <2>2, <2>3, <2>4, TaskMoves, <1>1
<1> QED BY <1>2, <1>3

LEMMA WakeInvStep ==
  ASSUME OwnerCancelsAndRetries, CleanPublication, WakeInv, [Next]_vars
  PROVE  WakeInv'
<1>1. TypeInv' /\ FreshIsUnused' /\ RestHasNoLease'
  BY TypeStep, FreshStep, RestStep DEF WakeInv
<1>2. NoFailureUnlessExhausted' /\ NoRejectionUnlessFaulty' /\ AcceptedRunExists'
  BY FailureStep, AnswerStep DEF WakeInv
<1>3. ASSUME task'.status = "queued" PROVE OwnRunAhead'
  <2>1. CASE Next
    BY <1>3, <2>1, WakeStep
  <2>2. CASE UNCHANGED vars
    BY <1>3, <2>2
    DEF vars, WakeInv, OwnRunAhead, MarkerIsOwn, RunIsUntaken, FailureIsExpected
  <2> QED BY <2>1, <2>2
<1> QED BY <1>1, <1>2, <1>3 DEF WakeInv

LEMMA WakeInitially == CreatedWithRunAt /\ Init => WakeInv
<1> SUFFICES ASSUME CreatedWithRunAt, Init PROVE WakeInv
  OBVIOUS
<1>1. TypeInv /\ RestHasNoLease
  BY FailureInitially
<1>2. /\ task = NewTask(1) /\ nextRunAt = 2 /\ 1 \in RunAt
      /\ \A k \in RunAt : wf[k] = NoRunYet
      /\ \A p \in Publisher : pub[p] = NoPublication
      /\ \A w \in Worker : wk[w] = NoInvocation
  BY Bounds DEF Init, RunAt
<1>3. /\ task.runAt = 1 /\ task.lastFailed = 0 /\ task.workflow = NoRun
      /\ NoRunYet.st = "none" /\ NoInvocation.run = 0
      /\ NoPublication.pc = "idle" /\ NoPublication.key = 0 /\ NoPublication.for = 0
  BY <1>2 DEF NewTask, NoRunYet, NoInvocation, NoPublication
<1>4. FreshIsUnused
  BY <1>2, <1>3 DEF FreshIsUnused
<1>5. NoFailureUnlessExhausted /\ NoRejectionUnlessFaulty /\ AcceptedRunExists
  BY <1>2, <1>3
  DEF NoFailureUnlessExhausted, NoRejectionUnlessFaulty, AcceptedRunExists
<1>6. OwnRunAhead
  <2>1. MarkerIsOwn
    BY <1>2, <1>3, MarkerType DEF MarkerIsOwn
  <2>2. RunIsUntaken
    BY <1>2, <1>3 DEF RunIsUntaken
  <2>3. FailureIsExpected
    BY <1>2, <1>3 DEF FailureIsExpected
  <2> QED BY <2>1, <2>2, <2>3 DEF OwnRunAhead
<1> QED BY <1>1, <1>4, <1>5, <1>6 DEF WakeInv

LEMMA WakeSuffices == WakeInv => QueuedHasWake
<1> SUFFICES ASSUME WakeInv, task.status = "queued", task.workflow.kind = "published"
             PROVE  \E k \in RunAt : LiveRun(k)
  BY DEF QueuedHasWake
<1>1. LiveRun(task.runAt)
  BY QueuedParts DEF MarkerIsOwn, RunIsUntaken, LiveRun
<1> QED BY <1>1, QueuedParts

\* The recovery sweep trusts a recorded run id.  It may: as long as the owner only
\* cancels and retries, the creator stores a runAt, and failed deliveries do not
\* meet failed publications, the run recorded for a queued task is the task's
\* own, nobody has taken it up, and it will wake or its failure be counted.
THEOREM NoQueuedTaskIsStranded ==
  GentleOwner /\ CleanPublication => (Spec => []QueuedHasWake)
<1> SUFFICES ASSUME OwnerCancelsAndRetries, CreatedWithRunAt, CleanPublication
             PROVE  Spec => []QueuedHasWake
  BY DEF GentleOwner
<1>1. Init => WakeInv
  BY WakeInitially
<1>2. WakeInv /\ [Next]_vars => WakeInv'
  BY WakeInvStep
<1> QED BY <1>1, <1>2, WakeSuffices, PTL DEF Spec

-----------------------------------------------------------------------------
(* A task that is left alone does not come back for ever.                  *)

ToCountKept == \A k \in RunAt : StillToCount(k)' => StillToCount(k)
Accounted == nextRunAt + Cardinality(ToCount) <= 2 + RetriesAllowed + faults
RecordOK == ~task.waiting /\ (task.status = "queued" => task.runAt # 0)

LEMMA RepublicationFacts ==
  ASSUME RepublicationInv
  PROVE  /\ CountedInv /\ RetryStands /\ RecordOK /\ Accounted
         /\ TypeInv /\ FreshIsUnused /\ RestHasNoLease /\ task \in TaskRecordType
         /\ task.attempt \in 0..MaxAttempts /\ RetriesAllowed \in Int
         /\ RetriesAllowed < MaxAttempts
         /\ nextRunAt \in Nat /\ nextRunAt > 0 /\ faults \in 0..MaxFaults
         /\ IsFiniteSet(ToCount) /\ Cardinality(ToCount) \in Nat
<1>1. /\ CountedInv /\ RetryStands /\ RecordOK /\ Accounted
      /\ TypeInv /\ FreshIsUnused /\ RestHasNoLease
  BY DEF RepublicationInv, RecordOK, Accounted, CountedInv
<1>2. task \in TaskRecordType /\ faults \in 0..MaxFaults
  BY <1>1 DEF TypeInv, TypeOK
<1>3. nextRunAt \in Nat /\ nextRunAt > 0
  BY <1>1, FreshParts
<1>4. task.attempt \in 0..MaxAttempts
  BY <1>2 DEF TaskRecordType
<1>5. RetriesAllowed \in Int /\ RetriesAllowed < MaxAttempts
  BY <1>4, Bounds DEF RetriesAllowed
<1>6. IsFiniteSet(ToCount)
  <2>1. IsFiniteSet(RunAt)
    BY Bounds, FS_Interval DEF RunAt
  <2> QED BY <2>1, FS_Subset DEF ToCount
<1> QED BY <1>1, <1>2, <1>3, <1>4, <1>5, <1>6, FS_CardinalityType

\* The faults only grow.
LEMMA FaultsGrow ==
  ASSUME TypeInv, Next
  PROVE  faults' = faults \/ faults' = faults + 1
BY DEF Next, Tick, Sweep, Publishing, PubClaim, PubRefused, PubSend, PubRecord,
       PubClear, CallbackStep, CallbackCount, CallbackGiveUp, CallbackStale,
       Failing, PubRejected, PubCrash, Wake, DeliveryExhausted, Handoff,
       CallbackRead, StepClaim, StepRefused, Deliver, Working, ReportRefused,
       SettleThrown, SettleWrite, SettleLost, Renew, Slice, Finish,
       ThrowSettled, Throw, Dying, WorkerCrash, CrashAfterSettle,
       Commanded, Cancel, Retry, Schedule, Checkpoint, Block, Complete, Command, Fault

\* Nothing new is to be counted, and a runAt value was used only for what pays.
LEMMA AccountKept ==
  ASSUME RepublicationInv, Next, ToCountKept,
         NEW n \in {0, 1}, nextRunAt' = nextRunAt + n,
         RetriesAllowed' \in Int, RetriesAllowed' >= RetriesAllowed + n
  PROVE  Accounted'
<1>1. ToCount' \subseteq ToCount
  BY DEF ToCountKept, ToCount
<1>2. Cardinality(ToCount') <= Cardinality(ToCount) /\ Cardinality(ToCount') \in Nat
  BY <1>1, RepublicationFacts, FS_Subset, FS_CardinalityType
<1>3. faults' >= faults /\ faults' \in Int /\ faults \in Int
  BY FaultsGrow, RepublicationFacts
<1> QED BY <1>2, <1>3, RepublicationFacts DEF Accounted

-----------------------------------------------------------------------------
(* What a step does to the record's part of the account.                   *)

\* The results a worker may be about to write.
LEMMA RetryKnown ==
  ASSUME RepublicationInv, NEW w \in Worker, wk[w].pc = "writing",
         wk[w].result \in Requeues
  PROVE  /\ wk[w].result = "retry"
         /\ task.lease.holder = w => task.attempt < MaxAttempts
BY RepublicationFacts DEF RetryStands

LEMMA RetrySettled ==
  ASSUME NEW t \in TaskRecordType, NEW fresh
  PROVE  LET u == Settled(t, "retry", fresh)
         IN /\ u.status = "queued" /\ u.attempt = t.attempt /\ ~u.waiting
            /\ u.runAt = fresh
BY DEF Settled, Requeued, Requeues, Waits, TaskRecordType

LEMMA RestSettled ==
  ASSUME NEW t \in TaskRecordType, NEW result \in Decision, result \notin Requeues,
         NEW fresh
  PROVE  LET u == Settled(t, result, fresh)
         IN /\ u.status \in {"completed", "blocked", "failed", "cancelled"}
            /\ u.attempt = t.attempt /\ ~u.waiting
<1>1. result \in {"completed", "blocked", "failed", "cancelled"}
  BY DEF Decision, Outcome, Requeues
<1> QED BY <1>1 DEF Settled, TaskRecordType

\* Every step but a retry, a count or a claim of attempts keeps what is allowed.
LEMMA AllowanceKept ==
  ASSUME NEW t \in TaskRecordType, task' = t, RepublicationInv,
         task'.attempt = task.attempt,
         \/ task'.status = task.status
         \/ task'.status \notin {"running", "cancel_requested"}
         \/ task.status \in {"running", "cancel_requested"}
  PROVE  RetriesAllowed' \in Int /\ RetriesAllowed' >= RetriesAllowed
BY RepublicationFacts, Bounds DEF RetriesAllowed

LEMMA RecordKept ==
  ASSUME RepublicationInv, LeftAlone, Next, ~Settlement
  PROVE  /\ RecordOK' /\ RetriesAllowed' \in Int /\ RetriesAllowed' >= RetriesAllowed
<1>1. /\ task \in TaskRecordType /\ RecordOK /\ nextRunAt > 0 /\ TypeInv
      /\ nextRunAt \in Nat
  BY RepublicationFacts
<1>2. task' \in TaskRecordType
  BY <1>1, TypeStep DEF TypeInv, TypeOK
<1>3. ASSUME task'.attempt = task.attempt, task'.waiting = task.waiting,
             task'.status = task.status, task'.runAt = task.runAt \/ task'.runAt = nextRunAt
      PROVE  RecordOK' /\ RetriesAllowed' \in Int /\ RetriesAllowed' >= RetriesAllowed
  BY <1>1, <1>2, <1>3, AllowanceKept DEF RecordOK
<1>4. CASE Kept \/ Renewal
  BY <1>1, <1>3, <1>4 DEF Kept, Renewal, Aged, Renewed, TaskRecordType
<1>5. CASE Marking
  <2>1. CASE \E p \in Publisher, id \in WorkflowRunId : task' = RunIdRecorded(task, p, id)
    BY <1>1, <1>3, <2>1 DEF RunIdRecorded, TaskRecordType
  <2>2. CASE \E p \in Publisher : task' = EnqueueClaimed(task, p, nextRunAt)
    BY <1>1, <1>3, <2>2 DEF EnqueueClaimed, TaskRecordType
  <2> QED BY <1>5, <2>1, <2>2 DEF Marking
<1>6. CASE Claiming
  <2>1. PICK k \in RunAt, w \in Worker, iter \in Iteration :
          CanClaim(task, k, iter) /\ task' = Claimed(task, w, k, iter)
    BY <1>6 DEF Claiming
  <2>2. /\ task'.status = "running" /\ ~task'.waiting
        /\ task'.attempt = IF task.attempt = MaxAttempts THEN task.attempt
                           ELSE task.attempt + 1
    BY <1>1, <2>1 DEF Claimed, Attempted, RecordOK, TaskRecordType
  <2>3. task.status \in {"queued", "running"}
    BY <2>1 DEF CanClaim, ExpiredRunning
  <2>4. RetriesAllowed' \in Int /\ RetriesAllowed' >= RetriesAllowed
    BY <2>2, <2>3, RepublicationFacts, Bounds DEF RetriesAllowed
  <2> QED BY <2>2, <2>4 DEF RecordOK
<1>7. CASE Counting
  <2>1. PICK p \in Publisher :
          /\ CallbackApplies(task, pub[p].for)
          /\ \/ task' = DeliveryFailed(task, pub[p].for)
             \/ task' = DeliveryRetried(task, pub[p].for, nextRunAt)
    BY <1>7 DEF Counting
  <2>2. task.status = "queued"
    BY <2>1 DEF CallbackApplies, Unclaimed
  <2>3. CASE task' = DeliveryFailed(task, pub[p].for)
    <3>1. task'.status = "failed" /\ task'.attempt = task.attempt /\ ~task'.waiting
      BY <1>1, <2>3 DEF DeliveryFailed, TaskRecordType
    <3> QED BY <1>2, <3>1, AllowanceKept DEF RecordOK
  <2>4. CASE task' = DeliveryRetried(task, pub[p].for, nextRunAt)
    <3>1. /\ task'.status = "queued" /\ task'.attempt = task.attempt
          /\ ~task'.waiting /\ task'.runAt = nextRunAt
      BY <1>1, <2>2, <2>4 DEF DeliveryRetried, TaskRecordType
    <3> QED BY <1>1, <1>2, <3>1, AllowanceKept DEF RecordOK
  <2> QED BY <2>1, <2>3, <2>4
<1>8. CASE Commanded
  <2>1. task' = Cancelled(task)
    BY <1>8
    DEF LeftAlone, Commanded, Cancel, Retry, Schedule, Checkpoint, Block, Complete,
        Command
  <2>2. /\ task'.attempt = task.attempt /\ ~task'.waiting
        /\ task'.status = IF task.status \in {"queued", "blocked", "failed"}
                            THEN "cancelled" ELSE "cancel_requested"
    BY <1>1, <2>1 DEF Cancelled, TaskRecordType
  <2>3. CanCancel(task)
    BY <1>8
    DEF LeftAlone, Commanded, Cancel, Retry, Schedule, Checkpoint, Block, Complete,
        Command
  <2>4. task.status \in {"queued", "blocked", "failed", "running", "cancel_requested"}
    BY <1>1, <2>3 DEF CanCancel, TaskRecordType, Status
  <2> QED BY <1>2, <2>2, <2>4, AllowanceKept DEF RecordOK
<1> QED BY <1>1, <1>4, <1>5, <1>6, <1>7, <1>8, TaskMoves

LEMMA RetryStandsStep ==
  ASSUME RepublicationInv, LeftAlone, Next
  PROVE  RetryStands'
<1>1. task \in TaskRecordType /\ TypeInv /\ RestHasNoLease
  BY RepublicationFacts
<1> SUFFICES ASSUME NEW w \in Worker, wk'[w].pc = "writing", wk'[w].result \in Requeues
             PROVE  /\ wk'[w].result = "retry"
                    /\ task'.lease.holder = w => task'.attempt < MaxAttempts
  BY DEF RetryStands
<1>2. CASE /\ task' = task
           /\ \E outcome \in Outcomes \cup {"cancelled", "blocked", "failed"} :
                wk'[w].result = Decided(task, outcome)
  <2>1. PICK outcome \in Outcomes \cup {"cancelled", "blocked", "failed"} :
          wk'[w].result = Decided(task, outcome)
    BY <1>2
  <2>2. outcome \notin Requeues
    BY QueueAssumption DEF LeftAlone, Requeues, Outcome, Waits
  <2>3. wk'[w].result = "retry" /\ task.attempt < MaxAttempts
    BY <2>1, <2>2 DEF Decided, Requeues, Waits
  <2> QED BY <1>2, <2>3
<1>3. CASE wk[w].pc = "writing" /\ wk'[w].result = wk[w].result
  <2> SUFFICES task'.lease.holder = w => task'.attempt < MaxAttempts
    BY <1>3, RetryKnown
  <2>1. task.lease.holder = w => task.attempt < MaxAttempts
    BY <1>3, RetryKnown
  <2>2. ASSUME task'.attempt = task.attempt, task'.lease.holder = task.lease.holder
        PROVE  task'.lease.holder = w => task'.attempt < MaxAttempts
    BY <2>1, <2>2
  <2>3. NoLease.holder # w
    BY NoLeaseType, Bounds
  <2>4. CASE Kept \/ Renewal
    BY <1>1, <2>2, <2>4, QuietOperations DEF Kept, Renewal
  <2>5. CASE Marking
    BY <1>1, <2>2, <2>5 DEF Marking, EnqueueClaimed, RunIdRecorded, TaskRecordType
  <2>6. CASE Claiming
    BY <1>1, <1>3, <2>6 DEF Claiming, Claimed, TaskRecordType
  <2>7. CASE Settlement
    BY <1>1, <2>3, <2>7, SettledHasNoLease, SettlementParts
  <2>8. CASE Counting
    BY <1>1, <2>2, <2>8 DEF Counting, DeliveryFailed, DeliveryRetried, TaskRecordType
  <2>9. CASE Commanded
    <3>1. task' = Cancelled(task)
      BY <2>9
      DEF LeftAlone, Commanded, Cancel, Retry, Schedule, Checkpoint, Block, Complete,
          Command
    <3> QED BY <1>1, <2>2, <3>1 DEF Cancelled, TaskRecordType
  <2> QED BY <1>1, <2>4, <2>5, <2>6, <2>7, <2>8, <2>9, TaskMoves
<1> QED BY <1>1, <1>2, <1>3, DecidedWhen

\* Where the wake of a task goes when nothing is claimed, counted or retried.
LEMMA QuietWake ==
  ASSUME CountedInv, Quiet
  PROVE  task'.runAt \in {task.runAt, nextRunAt, 0}
<1>1. task \in TaskRecordType
  BY CountFacts
<1>2. CASE Kept \/ Renewal
  BY <1>1, <1>2 DEF Kept, Renewal, Aged, Renewed, TaskRecordType
<1>3. CASE Marking
  <2>1. CASE \E p \in Publisher, id \in WorkflowRunId : task' = RunIdRecorded(task, p, id)
    BY <1>1, <2>1 DEF RunIdRecorded, TaskRecordType
  <2>2. CASE \E p \in Publisher : task' = EnqueueClaimed(task, p, nextRunAt)
    BY <1>1, <2>2 DEF EnqueueClaimed, TaskRecordType
  <2> QED BY <1>3, <2>1, <2>2 DEF Marking
<1>4. CASE Settlement
  <2>1. PICK w \in Worker : task' = Settled(task, wk[w].result, nextRunAt)
    BY <1>4, SettlementParts
  <2> QED BY <1>1, <2>1 DEF Settled, Requeued, TaskRecordType
<1>5. CASE CanCancel(task) /\ task' = Cancelled(task)
  BY <1>1, <1>5 DEF Cancelled, TaskRecordType
<1> QED BY <1>2, <1>3, <1>4, <1>5 DEF Quiet

-----------------------------------------------------------------------------
(* What a step does to the runs still to be counted.                       *)

\* A step that makes no run fail and no marker, wake or callback about a failed
\* run that was not to be counted.
LEMMA StaysCounted ==
  ASSUME RepublicationInv, Next, \A k \in RunAt : ~DeliveryExhausted(k),
         task'.lastFailed = task.lastFailed,
         task'.runAt \in {task.runAt, nextRunAt, 0},
         \A k \in RunAt :
           task'.workflow = Published(k)
             => \/ task.workflow = Published(k)
                \/ \E p \in Publisher : /\ pub[p].pc = "accepted" /\ pub[p].key = k
                                        /\ task.workflow = Pending(p),
         \A p \in Publisher :
           /\ pub'[p].pc \in {"claimed", "accepted"} /\ task'.workflow = Pending(p)
                => \/ /\ pub[p].pc \in {"claimed", "accepted"}
                      /\ task.workflow = Pending(p) /\ pub'[p].key = pub[p].key
                   \/ pub'[p].key \in {task.runAt, nextRunAt}
           /\ pub'[p].pc = "counting"
                => \/ pub[p].pc = "counting" /\ pub'[p].for = pub[p].for
                   \/ /\ CallbackApplies(task, pub'[p].for) /\ ~Cleared(task)
                      /\ wf[pub'[p].for].st = "failed"
  PROVE  ToCountKept
<1> SUFFICES ASSUME NEW k \in RunAt, StillToCount(k)'
             PROVE  StillToCount(k)
  BY DEF ToCountKept
<1>1. ASSUME NEW p \in Publisher, pub'[p].pc = "counting", pub'[p].for = k
      PROVE  StillToCount(k)
  <2>1. CASE pub[p].pc = "counting" /\ pub[p].for = k
    BY <2>1 DEF StillToCount
  <2>2. CASE CallbackApplies(task, k) /\ ~Cleared(task) /\ wf[k].st = "failed"
    BY <2>2 DEF StillToCount, CallbackApplies, Cleared
  <2> QED BY <1>1, <2>1, <2>2
<1>2. CASE wf'[k].st = "failed" /\ ~\E p \in Publisher : pub'[p].pc = "counting" /\ pub'[p].for = k
  <2>1. wf[k].st = "failed"
    BY <1>2, RepublicationFacts, RunsStay
  <2>2. k # nextRunAt /\ k # 0
    BY <2>1, Bounds, RepublicationFacts, FreshParts DEF RunAt
  <2>3. CASE task'.lastFailed = 0 \/ task'.runAt = k \/ task'.workflow = Published(k)
    BY <2>1, <2>2, <2>3 DEF StillToCount
  <2>4. ASSUME NEW p \in Publisher, pub'[p].pc \in {"claimed", "accepted"},
               pub'[p].key = k, task'.workflow = Pending(p)
        PROVE  StillToCount(k)
    BY <2>1, <2>2, <2>4 DEF StillToCount
  <2> QED BY <1>2, <2>3, <2>4 DEF StillToCount
<1> QED BY <1>1, <1>2 DEF StillToCount

\* Time, runs, workers and the cancellation.
LEMMA OthersKeepToCount ==
  ASSUME RepublicationInv, Next, \A k \in RunAt : ~DeliveryExhausted(k),
         \/ Tick \/ (\E k \in RunAt : Wake(k))
         \/ \E k \in RunAt, w \in Worker : StepClaim(k, w) \/ StepRefused(k, w)
         \/ \E w \in Worker : Working(w) \/ Renew(w) \/ Slice(w) \/ Dying(w)
         \/ Cancel
  PROVE  ToCountKept
<1>1. task \in TaskRecordType /\ CountedInv
  BY RepublicationFacts
<1>2. CASE \E k \in RunAt, w \in Worker : StepClaim(k, w)
  <2>1. /\ task'.lastFailed = task.lastFailed /\ task'.runAt = task.runAt
        /\ task'.workflow = task.workflow /\ UNCHANGED pub
    BY <1>1, <1>2 DEF StepClaim, Claimed, TaskRecordType
  <2> QED BY <2>1, StaysCounted
<1>3. CASE \/ Tick \/ (\E k \in RunAt : Wake(k))
           \/ \E k \in RunAt, w \in Worker : StepRefused(k, w)
           \/ \E w \in Worker : Working(w) \/ Renew(w) \/ Slice(w) \/ Dying(w)
           \/ Cancel
  <2>1. /\ Quiet
        /\ task'.workflow = task.workflow \/ task'.workflow = NoRun
        /\ \A p \in Publisher :
             /\ pub'[p].pc = pub[p].pc /\ pub'[p].for = pub[p].for
             /\ pub'[p].key = pub[p].key
    BY <1>1, <1>3, OthersAreQuiet
  <2>2. task'.lastFailed = task.lastFailed
    BY <1>1, <2>1, QuietRecord
  <2>3. task'.runAt \in {task.runAt, nextRunAt, 0}
    BY <1>1, <2>1, QuietWake
  <2> QED BY <2>1, <2>2, <2>3, StaysCounted, MarkersDiffer
<1> QED BY <1>2, <1>3

LEMMA CallsKeepToCount ==
  ASSUME RepublicationInv, Next, \A k \in RunAt : ~DeliveryExhausted(k),
         NEW p \in Publisher, Going(p)
  PROVE  ToCountKept
<1>1. CountedInv /\ pub \in [Publisher -> Publication]
  BY RepublicationFacts, CountFacts
<1>2. UNCHANGED task
  BY <1>1, CallsGoOn
<1>3. CASE UNCHANGED pub
  BY <1>2, <1>3, StaysCounted
<1>4. CASE ~UNCHANGED pub
  <2>1. PICK c :
          /\ pub' = [pub EXCEPT ![p] = c]
          /\ c.pc \in {"claimed", "accepted"}
               => pub[p].pc = "claimed" /\ c.key = pub[p].key
          /\ c.pc = "counting"
               => /\ CallbackApplies(task, c.for) /\ ~Cleared(task)
                  /\ wf[c.for].st = "failed"
    BY <1>1, <1>4, CallsGoOn
  <2>2. \A q \in Publisher : pub'[q] = IF q = p THEN c ELSE pub[q]
    BY <1>1, <2>1
  <2> QED BY <1>2, <2>1, <2>2, StaysCounted
<1> QED BY <1>3, <1>4

LEMMA ClaimKeepsToCount ==
  ASSUME RepublicationInv, Next, \A k \in RunAt : ~DeliveryExhausted(k),
         NEW p \in Publisher, PubClaim(p)
  PROVE  ToCountKept
<1>1. /\ pub \in [Publisher -> Publication] /\ task \in TaskRecordType
  BY RepublicationFacts, CountFacts
<1>2. PICK key : key = IF OverduePublished(task) \/ task.runAt = 0 THEN nextRunAt
                       ELSE task.runAt
  OBVIOUS
<1>3. PICK c : c = [pub[p] EXCEPT !.pc = "claimed", !.key = key, !.wait = task.due,
                                  !.wake = task'.runAt]
  OBVIOUS
<1>4. c.pc = "claimed" /\ c.key = key /\ pub' = [pub EXCEPT ![p] = c]
  BY <1>1, <1>2, <1>3 DEF PubClaim, Publication
<1>5. \A q \in Publisher : pub'[q] = IF q = p THEN c ELSE pub[q]
  BY <1>1, <1>4
<1>6. /\ task'.workflow = Pending(p) /\ task'.lastFailed = task.lastFailed
      /\ task'.runAt \in {task.runAt, nextRunAt, 0}
  BY <1>1 DEF PubClaim, EnqueueClaimed, TaskRecordType
<1> QED BY <1>2, <1>4, <1>5, <1>6, StaysCounted, MarkersDiffer

LEMMA AnswerKeepsToCount ==
  ASSUME RepublicationInv, Next, \A k \in RunAt : ~DeliveryExhausted(k),
         NEW p \in Publisher, PubRecord(p) \/ PubClear(p)
  PROVE  ToCountKept
<1>1. /\ pub \in [Publisher -> Publication] /\ task \in TaskRecordType
  BY RepublicationFacts, CountFacts
<1>2. /\ pub' = [pub EXCEPT ![p] = NoPublication] /\ NoPublication.pc = "idle"
  BY DEF PubRecord, PubClear, NoPublication
<1>3. \A q \in Publisher : pub'[q] = IF q = p THEN NoPublication ELSE pub[q]
  BY <1>1, <1>2
<1>4. task'.lastFailed = task.lastFailed /\ task'.runAt = task.runAt
  BY <1>1 DEF PubRecord, PubClear, RunIdRecorded, TaskRecordType
<1>5. \/ task'.workflow = task.workflow \/ task'.workflow = NoRun
      \/ /\ task'.workflow = Published(pub[p].key) /\ task.workflow = Pending(p)
         /\ pub[p].pc = "accepted"
  BY <1>1 DEF PubRecord, PubClear, RunIdRecorded, TaskRecordType
<1> QED BY <1>2, <1>3, <1>4, <1>5, StaysCounted, MarkersDiffer

-----------------------------------------------------------------------------
(* The steps that use a runAt value or a fault.                            *)

\* A settlement that requeues is a retry, of which the attempt was still owed one.
LEMMA SettlementAccounted ==
  ASSUME RepublicationInv, LeftAlone, Next, Settlement
  PROVE  Accounted' /\ RecordOK'
<1>1. PICK w \in Worker :
        /\ wk[w].pc = "writing" /\ HoldsLease(task, w)
        /\ Used(wk[w].result \in Requeues)
        /\ task' = Settled(task, wk[w].result, nextRunAt)
  BY SettlementParts
<1>2. /\ task \in TaskRecordType /\ nextRunAt \in Nat /\ nextRunAt > 0
      /\ task.attempt \in 0..MaxAttempts
  BY RepublicationFacts
<1>3. task.status \in {"running", "cancel_requested"}
  BY <1>1, NoLeaseType, RepublicationFacts, Bounds DEF HoldsLease, RestHasNoLease
<1>4. ToCountKept
  <2>1. \E v \in Worker : Working(v) \/ Renew(v) \/ Slice(v) \/ Dying(v)
    BY DEF Settlement, Working, Dying
  <2>2. \A k \in RunAt : ~DeliveryExhausted(k)
    <3>1. task'.lease.left = 0 /\ task.lease.left > 0
      BY <1>1, <1>2, NoLeaseType, SettledHasNoLease DEF HoldsLease
    <3> QED BY <3>1 DEF DeliveryExhausted
  <2> QED BY <2>1, <2>2, OthersKeepToCount
<1>5. CASE wk[w].result \in Requeues
  <2>1. wk[w].result = "retry" /\ task.attempt < MaxAttempts
    BY <1>1, <1>5, RetryKnown DEF HoldsLease
  <2>2. /\ task'.status = "queued" /\ task'.attempt = task.attempt /\ ~task'.waiting
        /\ task'.runAt = nextRunAt
    BY <1>1, <1>2, <2>1, RetrySettled
  <2>3. nextRunAt' = nextRunAt + 1
    BY <1>1, <1>5 DEF Used
  <2>4. RetriesAllowed' \in Int /\ RetriesAllowed' >= RetriesAllowed + 1
    BY <1>2, <1>3, <2>1, <2>2, Bounds DEF RetriesAllowed
  <2>5. RecordOK'
    BY <1>2, <2>2 DEF RecordOK
  <2> QED BY <1>4, <2>3, <2>4, <2>5, AccountKept
<1>6. CASE wk[w].result \notin Requeues
  <2>1. wk[w].result \in Decision
    BY <1>1, RepublicationFacts, TypeParts DEF WkOK, WorkOK
  <2>2. /\ task'.status \in {"completed", "blocked", "failed", "cancelled"}
        /\ task'.attempt = task.attempt /\ ~task'.waiting
    BY <1>1, <1>2, <1>6, <2>1, RestSettled
  <2>3. nextRunAt' = nextRunAt + 0
    BY <1>1, <1>2, <1>6 DEF Used
  <2>4. RetriesAllowed' \in Int /\ RetriesAllowed' >= RetriesAllowed + 0
    BY <1>2, <1>3, <2>2, Bounds DEF RetriesAllowed
  <2>5. RecordOK'
    BY <2>2 DEF RecordOK
  <2> QED BY <1>4, <2>3, <2>4, <2>5, AccountKept
<1> QED BY <1>5, <1>6

\* A count takes its run from those still to be counted, and uses one runAt value.
LEMMA CountAccounted ==
  ASSUME RepublicationInv, LeftAlone, Next,
         NEW p \in Publisher, CallbackCount(p) \/ CallbackGiveUp(p)
  PROVE  Accounted'
<1>1. PICK k : k = pub[p].for
  OBVIOUS
<1>2. /\ pub[p].pc = "counting" /\ k \in RunAt /\ k # 0 /\ task \in TaskRecordType
      /\ pub \in [Publisher -> Publication] /\ wf \in [RunAt -> Run]
      /\ nextRunAt \in Nat
  <2>1. pub[p].pc = "counting"
    BY DEF CallbackCount, CallbackGiveUp
  <2> QED BY <1>1, <2>1, Bounds, RepublicationFacts, CountFacts, TypeParts
          DEF PubOK, CallOK, RunAt
<1>3. /\ task'.lastFailed = k /\ task'.workflow = NoRun
      /\ \/ task'.runAt = nextRunAt /\ UNCHANGED wf
         \/ task'.runAt = task.runAt /\ wf'[k].st = "ended"
      /\ nextRunAt' = nextRunAt \/ nextRunAt' = nextRunAt + 1
      /\ task'.attempt = task.attempt
      /\ task'.status \in {"queued", "failed"}
  <2>1. CASE CallbackCount(p)
    <3>1. /\ task' = DeliveryRetried(task, k, nextRunAt) /\ nextRunAt' = nextRunAt + 1
          /\ UNCHANGED wf /\ task.status = "queued"
      BY <1>1, <2>1 DEF CallbackCount, Used, CallbackApplies, Unclaimed
    <3> QED BY <1>2, <3>1 DEF DeliveryRetried, TaskRecordType
  <2>2. CASE CallbackGiveUp(p)
    <3>1. /\ task' = DeliveryFailed(task, k) /\ UNCHANGED nextRunAt
          /\ wf' = EndedFor(k)
      BY <1>1, <2>2 DEF CallbackGiveUp
    <3>2. wf'[k].st = "ended"
      BY <1>2, <3>1, OverType DEF EndedFor
    <3> QED BY <1>2, <3>1, <3>2 DEF DeliveryFailed, TaskRecordType
  <2> QED BY <2>1, <2>2
<1>4. \A q \in Publisher :
        /\ q # p => pub'[q] = pub[q] /\ pub[q].for # k
        /\ pub'[p].pc \in {"want", "idle"}
  <2>1. \A q \in Publisher : q # p => pub[q].for # k
    BY <1>1, <1>2, RepublicationFacts DEF CountedInv, OneCallPerRun
  <2>2. CASE CallbackCount(p)
    BY <1>2, <2>1, <2>2 DEF CallbackCount, Publication
  <2>3. CASE CallbackGiveUp(p)
    BY <1>2, <2>1, <2>3 DEF CallbackGiveUp, NoPublication
  <2> QED BY <2>2, <2>3
<1>5. ASSUME NEW j \in RunAt, StillToCount(j)' PROVE StillToCount(j) /\ j # k
  <2>1. CASE \E q \in Publisher : pub'[q].pc = "counting" /\ pub'[q].for = j
    BY <1>4, <2>1 DEF StillToCount
  <2>2. CASE wf'[j].st = "failed" /\ task'.runAt = j
    <3>1. wf[j].st = "failed" \/ DeliveryExhausted(j)
      BY <2>2, RepublicationFacts, RunsStay
    <3>2. ~DeliveryExhausted(j)
      BY <1>2, <1>4 DEF DeliveryExhausted
    <3>3. j # nextRunAt
      BY <3>1, <3>2, <1>2, RepublicationFacts, FreshParts DEF RunAt
    <3> QED BY <1>3, <2>2, <3>1, <3>2, <3>3 DEF StillToCount
  <2>3. task'.lastFailed # 0 /\ task'.workflow # Published(j)
        /\ \A q \in Publisher : task'.workflow # Pending(q)
    BY <1>2, <1>3, MarkersDiffer
  <2> QED BY <1>5, <2>1, <2>2, <2>3 DEF StillToCount
<1>6. ToCount' \subseteq ToCount \ {k} /\ k \in ToCount
  BY <1>1, <1>2, <1>5 DEF ToCount, StillToCount
<1>7. Cardinality(ToCount') <= Cardinality(ToCount) - 1 /\ Cardinality(ToCount') \in Nat
  <2>1. /\ IsFiniteSet(ToCount \ {k})
        /\ Cardinality(ToCount \ {k}) = Cardinality(ToCount) - 1
    BY <1>6, RepublicationFacts, FS_RemoveElement
  <2> QED BY <1>6, <2>1, FS_Subset, FS_CardinalityType
<1>8. RetriesAllowed' \in Int /\ RetriesAllowed' >= RetriesAllowed
  <2>1. task' \in TaskRecordType
    BY RepublicationFacts, TypeStep DEF TypeInv, TypeOK
  <2> QED BY <1>3, <2>1, RepublicationFacts, AllowanceKept
<1>9. faults' >= faults /\ faults' \in Int /\ faults \in Int
  BY FaultsGrow, RepublicationFacts
<1>10. Cardinality(ToCount) \in Nat /\ RetriesAllowed \in Int /\ Accounted
  BY RepublicationFacts
<1> QED BY <1>2, <1>3, <1>7, <1>8, <1>9, <1>10 DEF Accounted

\* A run that fails is one more to be counted, at the price of a fault.
LEMMA ExhaustedAccounted ==
  ASSUME RepublicationInv, NEW k \in RunAt, DeliveryExhausted(k)
  PROVE  Accounted'
<1>1. /\ UNCHANGED <<task, pub, nextRunAt>> /\ faults' = faults + 1
      /\ wf' = [wf EXCEPT ![k] = Over(@, "failed")] /\ wf \in [RunAt -> Run]
  BY RepublicationFacts, TypeParts DEF DeliveryExhausted, Fault
<1>2. \A j \in RunAt : j # k => (StillToCount(j)' <=> StillToCount(j))
  BY <1>1 DEF StillToCount
<1>3. ToCount' \subseteq ToCount \cup {k}
  BY <1>2 DEF ToCount
<1>4. Cardinality(ToCount') <= Cardinality(ToCount) + 1 /\ Cardinality(ToCount') \in Nat
  <2>1. /\ IsFiniteSet(ToCount \cup {k}) /\ Cardinality(ToCount \cup {k}) \in Nat
        /\ Cardinality(ToCount \cup {k}) <= Cardinality(ToCount) + 1
    <3>1. IsFiniteSet(ToCount) /\ Cardinality(ToCount) \in Nat
      BY RepublicationFacts
    <3>2. /\ IsFiniteSet(ToCount \cup {k})
          /\ \/ Cardinality(ToCount \cup {k}) = Cardinality(ToCount)
             \/ Cardinality(ToCount \cup {k}) = Cardinality(ToCount) + 1
      BY <3>1, FS_AddElement, Zenon
    <3> QED BY <3>1, <3>2
  <2>2. IsFiniteSet(ToCount') /\ Cardinality(ToCount') <= Cardinality(ToCount \cup {k})
    BY <1>3, <2>1, FS_Subset
  <2> QED BY <2>1, <2>2, RepublicationFacts, FS_CardinalityType
<1>5. RetriesAllowed' = RetriesAllowed
  BY <1>1 DEF RetriesAllowed
<1>6. /\ Cardinality(ToCount) \in Nat /\ RetriesAllowed \in Int /\ Accounted
      /\ faults \in Int /\ nextRunAt \in Nat
  BY RepublicationFacts
<1> QED BY <1>1, <1>4, <1>5, <1>6 DEF Accounted

-----------------------------------------------------------------------------

\* The steps that use no runAt value.
LEMMA RestAccounted ==
  ASSUME RepublicationInv, LeftAlone, Next,
         \A p \in Publisher : PubClaim(p) => ~OverduePublished(task),
         ~Settlement, \A k \in RunAt : ~DeliveryExhausted(k),
         \A p \in Publisher : ~CallbackCount(p) /\ ~CallbackGiveUp(p)
  PROVE  Accounted'
<1>1. ~Retry /\ ~Checkpoint /\ ~Block /\ ~Complete /\ \A p \in Publisher : ~Schedule(p)
  BY DEF LeftAlone, Retry, Schedule, Checkpoint, Block, Complete, Command
<1>2. ToCountKept
  <2>1. ASSUME NEW p \in Publisher,
               Sweep(p) \/ Publishing(p) \/ CallbackStep(p) \/ Failing(p)
        PROVE  ToCountKept
    BY <2>1, CallsKeepToCount, ClaimKeepsToCount, AnswerKeepsToCount
    DEF Publishing, CallbackStep, Going
  <2>2. ASSUME NEW k \in RunAt, NEW p \in Publisher, Handoff(k, p) \/ CallbackRead(k, p)
        PROVE  ToCountKept
    BY <2>2, CallsKeepToCount DEF Going
  <2>3. CASE \/ Tick \/ (\E k \in RunAt : Wake(k))
             \/ \E k \in RunAt, w \in Worker : StepClaim(k, w) \/ StepRefused(k, w)
             \/ \E w \in Worker : Working(w) \/ Renew(w) \/ Slice(w) \/ Dying(w)
             \/ Cancel
    BY <2>3, OthersKeepToCount
  <2> QED BY <1>1, <2>1, <2>2, <2>3 DEF Next, Commanded
<1>3. UNCHANGED nextRunAt
  <2>1. ASSUME NEW p \in Publisher, PubClaim(p) PROVE UNCHANGED nextRunAt
    <3>1. task.runAt # 0 /\ ~OverduePublished(task)
      BY <2>1, RepublicationFacts DEF PubClaim, CanClaimEnqueue, RecordOK
    <3> QED BY <2>1, <3>1 DEF PubClaim, Used
  <2>2. \A w \in Worker : ~SettleWrite(w) /\ ~CrashAfterSettle(w)
    BY DEF Settlement
  <2> QED BY <1>1, <2>1, <2>2
    DEF Next, Tick, Sweep, Publishing, PubRefused, PubSend, PubRecord,
        PubClear, CallbackStep, CallbackStale, Failing, PubRejected, PubCrash, Wake,
        Handoff, CallbackRead, StepClaim, StepRefused, Working, ReportRefused,
        SettleThrown, SettleLost, Renew, Slice, Finish, ThrowSettled, Throw, Dying,
        WorkerCrash, Commanded, Cancel
<1>4. nextRunAt' = nextRunAt + 0
  BY <1>3, RepublicationFacts
<1>5. RetriesAllowed' \in Int /\ RetriesAllowed' >= RetriesAllowed + 0
  BY RecordKept, RepublicationFacts
<1> QED BY <1>2, <1>4, <1>5, AccountKept

LEMMA RepublicationStep ==
  ASSUME LeftAlone, RepublicationInv, [Next]_vars,
         [\A p \in Publisher : PubClaim(p) => ~OverduePublished(task)]_vars
  PROVE  RepublicationInv'
<1>1. CASE UNCHANGED vars
  BY <1>1, CountedStep, RepublicationFacts
  DEF vars, RepublicationInv, RetryStands, RetriesAllowed, ToCount, StillToCount,
      LeftAlone, OwnerCancelsAndRetries
<1>2. CASE Next /\ ~UNCHANGED vars
  <2>1. CountedInv'
    <3>1. OwnerCancelsAndRetries
      BY DEF LeftAlone, OwnerCancelsAndRetries
    <3> QED BY <1>2, <3>1, CountedStep, RepublicationFacts
  <2>2. RetryStands'
    BY <1>2, RetryStandsStep
  <2>3. RecordOK'
    BY <1>2, RecordKept, SettlementAccounted
  <2>4. Accounted'
    BY <1>2, SettlementAccounted, CountAccounted, ExhaustedAccounted, RestAccounted
  <2> QED BY <2>1, <2>2, <2>3, <2>4 DEF RepublicationInv, RecordOK, Accounted
<1> QED BY <1>1, <1>2

LEMMA RepublicationInitially == CreatedWithRunAt /\ Init => RepublicationInv
<1> SUFFICES ASSUME CreatedWithRunAt, Init PROVE RepublicationInv
  OBVIOUS
<1>1. CountedInv
  BY CountedInitially
<1>2. /\ task.status = "queued" /\ task.attempt = 0 /\ ~task.waiting /\ task.runAt = 1
      /\ nextRunAt = 2 /\ faults = 0
  BY DEF Init, NewTask
<1>3. /\ \A k \in RunAt : wf[k].st = "none"
      /\ \A p \in Publisher : pub[p].pc = "idle"
      /\ \A w \in Worker : wk[w].pc = "idle"
  BY DEF Init, NoRunYet, NoPublication, NoInvocation
<1>4. RetryStands
  BY <1>3 DEF RetryStands
<1>5. ToCount = {}
  BY <1>3 DEF ToCount, StillToCount
<1>6. Cardinality(ToCount) = 0
  BY <1>5, FS_EmptySet
<1>7. RetriesAllowed = 0
  BY <1>2, Bounds DEF RetriesAllowed
<1> QED BY <1>1, <1>2, <1>4, <1>6, <1>7 DEF RepublicationInv

\* However its publications, deliveries and callbacks go wrong, a task that nobody
\* touches asks for one wake when it is created and for no more than one for each
\* attempt that was counted and each delivery that QStash gave up on, as long as
\* no publication is made over another's overdue one.
THEOREM WakesAreBounded ==
  LeftAlone => (Spec /\ NothingIsReplaced => []WakesArePaidFor)
<1> SUFFICES ASSUME LeftAlone
             PROVE  Spec /\ NothingIsReplaced => []WakesArePaidFor
  OBVIOUS
<1>1. Init => RepublicationInv
  BY RepublicationInitially DEF LeftAlone
<1>2. RepublicationInv /\ [Next]_vars
        /\ [\A p \in Publisher : PubClaim(p) => ~OverduePublished(task)]_vars
        => RepublicationInv'
  BY RepublicationStep
<1>3. RepublicationInv => WakesArePaidFor
  <2> SUFFICES ASSUME RepublicationInv PROVE WakesArePaidFor
    OBVIOUS
  <2>1. /\ Cardinality(ToCount) \in Nat /\ Accounted /\ nextRunAt \in Nat
        /\ task.attempt \in 0..MaxAttempts /\ faults \in 0..MaxFaults
    BY RepublicationFacts
  <2>2. RetriesAllowed \in Int /\ RetriesAllowed <= task.attempt
    BY <2>1, Bounds DEF RetriesAllowed
  <2>3. MaxFaults \in Nat
    BY QueueAssumption
  <2> QED BY <2>1, <2>2, <2>3 DEF Accounted, WakesArePaidFor
<1> QED BY <1>1, <1>2, <1>3, PTL DEF Spec, NothingIsReplaced
=============================================================================
