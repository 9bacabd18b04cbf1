------------------------------- MODULE TaskQueue -------------------------------
(***************************************************************************)
(* One generic durable task and everyone who acts on it: the publishers of *)
(* its workflow (creator, recovery sweep, loop handoff, failure callback,  *)
(* scheduling tool), the workflow runs QStash delivers, the workers that   *)
(* execute a run's step under a lease, and the owner's commands.           *)
(*                                                                         *)
(*   task  the record in the store                                         *)
(*   wf    QStash's view of the workflow run with each key                 *)
(*   pub   the calls of enqueueTaskWithClaim in progress                   *)
(*   wk    the calls of executeDurableTask in progress                     *)
(*                                                                         *)
(* Every record operation is atomic (TaskRecord); the interleavings are    *)
(* those of the callers, which read, wait for a model, a provider or       *)
(* QStash, and then write.                                                 *)
(***************************************************************************)
EXTENDS TaskRecord, FiniteSets

CONSTANTS
  Commands,          \* which commands the owner or the task's own turn gives
  Outcomes,          \* what a slice may return
  CreatedWithRunAt,  \* whether the creator stored a runAt
  FaultKinds,        \* what may go wrong around the program
  MaxFaults          \* bound: how often

ASSUME QueueAssumption ==
  /\ Commands \subseteq {"cancel", "retry", "schedule", "checkpoint", "block",
                         "complete"}
  /\ Outcomes \subseteq Outcome
  /\ CreatedWithRunAt \in BOOLEAN
  /\ FaultKinds \subseteq {"lost answer", "rejected", "publisher crash",
                           "worker crash", "redelivery", "exhausted"}
  /\ MaxFaults \in Nat

VARIABLES
  task, wf, pub, wk,
  nextRunAt,  \* the next unused runAt value
  faults,     \* faults so far
  counted     \* the runs whose delivery failure the record has counted, since
              \* the last claim or retry

vars == <<task, wf, pub, wk, nextRunAt, faults, counted>>

-----------------------------------------------------------------------------
Run == [st : {"none", "sleep", "step", "handoff", "failed", "ended"},
        iter : Iteration, wait : 0..DelayTicks, wake : RunAt \cup {0}]
NoRunYet == [st |-> "none", iter |-> 0, wait |-> 0, wake |-> 0]
Over(r, st) == [r EXCEPT !.st = st, !.iter = 0, !.wait = 0]

Publication ==
  [pc : {"idle", "counting", "want", "claimed", "accepted", "rejected"},
   for : RunAt \cup {0},    \* the run that waits for this call, if any
   key : RunAt \cup {0},    \* the key it publishes under
   wait : 0..DelayTicks,    \* ticks until that instant
   wake : RunAt \cup {0}]   \* the record's runAt when it was claimed
NoPublication == [pc |-> "idle", for |-> 0, key |-> 0, wait |-> 0, wake |-> 0]

Invocation ==
  [pc : {"idle", "refused", "run", "settling", "writing"},
   run : RunAt \cup {0}, iter : Iteration, result : Decision \cup {"none"}]
NoInvocation == [pc |-> "idle", run |-> 0, iter |-> 0, result |-> "none"]

TypeOK ==
  /\ task \in TaskRecordType
  /\ wf \in [RunAt -> Run]
  /\ pub \in [Publisher -> Publication]
  /\ wk \in [Worker -> Invocation]
  /\ nextRunAt \in 1..(MaxRunAt + 1)
  /\ faults \in 0..MaxFaults
  /\ counted \subseteq RunAt

\* createTask; the creator's own enqueueTaskWithClaim may never come, so it is
\* one of the publishers the sweep stands for.
Init ==
  /\ task = NewTask(IF CreatedWithRunAt THEN 1 ELSE 0)
  /\ nextRunAt = IF CreatedWithRunAt THEN 2 ELSE 1
  /\ wf = [k \in RunAt |-> NoRunYet]
  /\ pub = [p \in Publisher |-> NoPublication]
  /\ wk = [w \in Worker |-> NoInvocation]
  /\ faults = 0
  /\ counted = {}

-----------------------------------------------------------------------------
Fault(kind) ==
  kind \in FaultKinds /\ faults < MaxFaults /\ faults' = faults + 1
FreshLeft == nextRunAt <= MaxRunAt
Used(condition) ==
  IF condition THEN FreshLeft /\ nextRunAt' = nextRunAt + 1
               ELSE UNCHANGED nextRunAt

Tick ==
  /\ task' = Aged(task)
  /\ wf' = [k \in RunAt |-> [wf[k] EXCEPT !.wait = Less(@)]]
  /\ pub' = [p \in Publisher |-> [pub[p] EXCEPT !.wait = Less(@)]]
  /\ <<task, wf, pub>>' # <<task, wf, pub>>
  /\ UNCHANGED <<wk, nextRunAt, faults, counted>>

-----------------------------------------------------------------------------
(* enqueueTaskWithClaim.                                                   *)

\* The run that waited for the call ends with it.
EndedFor(k) == IF k = 0 THEN wf ELSE [wf EXCEPT ![k] = Over(@, "ended")]

Calling(p, step, for) ==
  /\ pub[p].pc = "idle"
  /\ pub' = [pub EXCEPT ![p].pc = step, ![p].for = for]

\* recoverQueuedTaskWorkflows finds the task (or its creator publishes it)
Sweep(p) ==
  /\ NeedsPublication(task)
  /\ Calling(p, "want", 0)
  /\ UNCHANGED <<task, wf, wk, nextRunAt, faults, counted>>

PubClaim(p) ==
  /\ pub[p].pc = "want" /\ CanClaimEnqueue(task)
  /\ LET fresh == OverduePublished(task) \/ task.runAt = 0
     IN /\ Used(fresh)
        /\ task' = EnqueueClaimed(task, p, nextRunAt)
        /\ pub' = [pub EXCEPT ![p].pc = "claimed",
                              ![p].key = IF fresh THEN nextRunAt ELSE task.runAt,
                              ![p].wait = task.due, ![p].wake = task'.runAt]
  /\ UNCHANGED <<wf, wk, faults, counted>>

PubRefused(p) ==
  /\ pub[p].pc = "want" /\ ~CanClaimEnqueue(task)
  /\ pub' = [pub EXCEPT ![p] = NoPublication]
  /\ wf' = EndedFor(pub[p].for)
  /\ UNCHANGED <<task, wk, nextRunAt, faults, counted>>

\* QStash creates one run per key; a second request with the key is answered
\* with the run that exists.  A lost answer is an error to the caller.
PubSend(p, answered) ==
  /\ pub[p].pc = "claimed"
  /\ IF answered THEN UNCHANGED faults ELSE Fault("lost answer")
  /\ wf' = IF wf[pub[p].key].st # "none" THEN wf
           ELSE [wf EXCEPT ![pub[p].key] =
                  [st |-> "sleep", iter |-> 0, wake |-> pub[p].wake,
                   wait |-> pub[p].wait]]
  /\ pub' = [pub EXCEPT ![p].pc = IF answered THEN "accepted" ELSE "rejected"]
  /\ UNCHANGED <<task, wk, nextRunAt, counted>>

PubRejected(p) ==
  /\ pub[p].pc = "claimed" /\ Fault("rejected")
  /\ pub' = [pub EXCEPT ![p].pc = "rejected"]
  /\ UNCHANGED <<task, wf, wk, nextRunAt, counted>>

\* The answer is recorded and the call returns, or the record no longer holds
\* this call's marker and the call throws.
PubRecord(p) ==
  /\ pub[p].pc = "accepted"
  /\ task' = RunIdRecorded(task, p, Published(pub[p].key))
  /\ wf' = IF task.workflow = Pending(p) THEN EndedFor(pub[p].for) ELSE wf
  /\ pub' = [pub EXCEPT ![p] = NoPublication]
  /\ UNCHANGED <<wk, nextRunAt, faults, counted>>

\* The catch clears this call's own marker and throws; the step or the loop
\* that called it is delivered again by QStash.
PubClear(p) ==
  /\ pub[p].pc = "rejected"
  /\ task' = RunIdRecorded(task, p, NoRun)
  /\ pub' = [pub EXCEPT ![p] = NoPublication]
  /\ UNCHANGED <<wf, wk, nextRunAt, faults, counted>>

PubCrash(p) ==
  /\ pub[p].pc # "idle" /\ Fault("publisher crash")
  /\ pub' = [pub EXCEPT ![p] = NoPublication]
  /\ UNCHANGED <<task, wf, wk, nextRunAt, counted>>

-----------------------------------------------------------------------------
(* A workflow run: the loop of /workflows/task.                            *)

Wake(k) ==
  /\ wf[k].st = "sleep" /\ wf[k].wait = 0
  /\ wf' = [wf EXCEPT ![k].st = "step"]
  /\ UNCHANGED <<task, pub, wk, nextRunAt, faults, counted>>

\* one iteration too many
AfterStep_Bug(r, claimed, t) ==
  IF t.status = "queued" /\ (claimed => t.runAt # 0)
    THEN [r EXCEPT !.st = IF r.iter > LoopMax THEN "handoff" ELSE "sleep",
                   !.iter = @ + 1, !.wait = t.due]
    ELSE Over(r, "ended")

\* Where the loop goes from a step that reported the record t.
AfterStep(r, claimed, t) ==
  IF t.status = "queued" /\ (claimed => t.runAt # 0)
    THEN IF r.iter = LoopMax - 1
           THEN Over(r, "handoff")
           ELSE [r EXCEPT !.st = "sleep", !.iter = @ + 1, !.wait = t.due]
    ELSE Over(r, "ended")

\* The step of worker w ends.  QStash hears of it unless w was a second
\* delivery of a step that has been reported already.
StillAsked(w) == LET r == wf[wk[w].run] IN r.st = "step" /\ r.iter = wk[w].iter
Report(w, claimed, t) ==
  /\ wk' = [wk EXCEPT ![w] = NoInvocation]
  /\ wf' = IF StillAsked(w)
             THEN [wf EXCEPT ![wk[w].run] = AfterStep(@, claimed, t)]
             ELSE wf

\* settleTaskRun returned undefined: the loop sees neither status nor runAt.
ReportNothing(w) ==
  /\ wk' = [wk EXCEPT ![w] = NoInvocation]
  /\ wf' = IF StillAsked(w) THEN EndedFor(wk[w].run) ELSE wf

\* At its last iteration the loop publishes a run to take its place.
Handoff(k, p) ==
  /\ wf[k].st = "handoff"
  /\ \A q \in Publisher : pub[q].for # k
  /\ Calling(p, "want", k)
  /\ UNCHANGED <<task, wf, wk, nextRunAt, faults, counted>>

\* QStash gives up on a run whose endpoint does not answer.
DeliveryExhausted(k) ==
  /\ \/ wf[k].st = "step"
     \/ wf[k].st = "handoff" /\ \A p \in Publisher : pub[p].for # k
  /\ Fault("exhausted")
  /\ wf' = [wf EXCEPT ![k] = Over(@, "failed")]
  /\ UNCHANGED <<task, pub, wk, nextRunAt, counted>>

-----------------------------------------------------------------------------
(* executeDurableTask by worker w for the step of run k.                   *)

Deliver(k, w) ==
  /\ wf[k].st = "step" /\ wk[w].pc = "idle"
  /\ IF \E v \in Worker : wk[v].run = k /\ wk[v].iter = wf[k].iter
       THEN Fault("redelivery") ELSE UNCHANGED faults

StepClaim(k, w) ==
  /\ Deliver(k, w) /\ CanClaim(task, k, wf[k].iter)
  /\ task' = Claimed(task, w, k, wf[k].iter)
  /\ wk' = [wk EXCEPT ![w] = [pc |-> "run", run |-> k, iter |-> wf[k].iter,
                              result |-> "none"]]
  /\ counted' = {}
  /\ UNCHANGED <<wf, pub, nextRunAt>>

StepRefused(k, w) ==
  /\ Deliver(k, w) /\ ~CanClaim(task, k, wf[k].iter)
  /\ wk' = [wk EXCEPT ![w] = [pc |-> "refused", run |-> k, iter |-> wf[k].iter,
                              result |-> "none"]]
  /\ UNCHANGED <<task, wf, pub, nextRunAt, counted>>

ReportRefused(w) ==
  /\ wk[w].pc = "refused"
  /\ Report(w, FALSE, task)
  /\ UNCHANGED <<task, pub, nextRunAt, faults, counted>>

\* The renewal timer, while the slice runs.
Renew(w) ==
  /\ wk[w].pc # "idle" /\ CanRenew(task, w)
  /\ task' = Renewed(task) /\ task' # task
  /\ UNCHANGED <<wf, pub, wk, nextRunAt, faults, counted>>

\* settleTaskRun reads the record and decides what to write.
Settling(w, outcome) ==
  IF task.lease.holder = w
    THEN /\ wk' = [wk EXCEPT ![w].pc = "writing",
                             ![w].result = Decided(task, outcome)]
         /\ UNCHANGED wf
    ELSE ReportNothing(w)

\* The slice returns.
Finish(w, outcome) ==
  /\ wk[w].pc = "run"
  /\ outcome \in Requeues \/ (outcome = "failed" /\ task.attempt < MaxAttempts)
       => FreshLeft
  /\ Settling(w, outcome)
  /\ UNCHANGED <<task, pub, nextRunAt, faults, counted>>

\* The slice throws, and the catch inspects the record: a status the turn or
\* the owner has settled is left alone.
ThrowSettled(w) ==
  /\ wk[w].pc = "run"
  /\ task.lease.holder = w /\ task.status \notin {"running", "cancel_requested"}
  /\ Report(w, TRUE, task)
  /\ UNCHANGED <<task, pub, nextRunAt, faults, counted>>

Throw(w, leaseLoss) ==
  /\ wk[w].pc = "run"
  /\ ~(task.lease.holder = w /\ task.status \notin {"running", "cancel_requested"})
  /\ wk' = [wk EXCEPT ![w].pc = "settling", ![w].result =
              IF task.status \in {"cancel_requested", "cancelled"} THEN "cancelled"
              ELSE IF leaseLoss /\ task.lease.holder = w THEN "blocked"
              ELSE "failed"]
  /\ UNCHANGED <<task, wf, pub, nextRunAt, faults, counted>>

SettleThrown(w) ==
  /\ wk[w].pc = "settling"
  /\ wk[w].result = "failed" /\ task.attempt < MaxAttempts => FreshLeft
  /\ Settling(w, wk[w].result)
  /\ UNCHANGED <<task, pub, nextRunAt, faults, counted>>

\* backend.settleTask: the lease is checked, the status is not.
SettleWrite(w) ==
  /\ wk[w].pc = "writing" /\ HoldsLease(task, w)
  /\ Used(wk[w].result \in Requeues)
  /\ task' = Settled(task, wk[w].result, nextRunAt)
  /\ Report(w, TRUE, task')
  /\ UNCHANGED <<pub, faults, counted>>

SettleLost(w) ==
  /\ wk[w].pc = "writing" /\ ~HoldsLease(task, w)
  /\ ReportNothing(w)
  /\ UNCHANGED <<task, pub, nextRunAt, faults, counted>>

\* The process dies, and QStash delivers the step again.
WorkerCrash(w) ==
  /\ wk[w].pc # "idle" /\ Fault("worker crash")
  /\ wk' = [wk EXCEPT ![w] = NoInvocation]
  /\ UNCHANGED <<task, wf, pub, nextRunAt, counted>>

\* It dies after its settlement was written and before QStash hears of it.
CrashAfterSettle(w) ==
  /\ wk[w].pc = "writing" /\ HoldsLease(task, w) /\ Fault("worker crash")
  /\ Used(wk[w].result \in Requeues)
  /\ task' = Settled(task, wk[w].result, nextRunAt)
  /\ wk' = [wk EXCEPT ![w] = NoInvocation]
  /\ UNCHANGED <<wf, pub, counted>>

-----------------------------------------------------------------------------
(* QStash's failure callback: processWorkflowFailureWork, one step of a    *)
(* workflow of its own.                                                    *)

\* recoverTaskAfterWorkflowFailure reads the record.
CallbackRead(k, p) ==
  /\ wf[k].st = "failed"
  /\ \A q \in Publisher : pub[q].for # k
  /\ IF AlreadyCounted(task, k)
       THEN Calling(p, "want", k) /\ UNCHANGED wf
     ELSE IF CallbackApplies(task, k) /\ ~Cleared(task)
       THEN Calling(p, "counting", k) /\ UNCHANGED wf
     ELSE wf' = EndedFor(k) /\ UNCHANGED pub
  /\ UNCHANGED <<task, wk, nextRunAt, faults, counted>>

\* It counts the failure and makes room for another run; the call publishes it.
CallbackCount(p) ==
  LET k == pub[p].for IN
  /\ pub[p].pc = "counting"
  /\ CallbackApplies(task, k) /\ task.failures < 2
  /\ Used(TRUE)
  /\ task' = DeliveryRetried(task, k, nextRunAt)
  /\ counted' = counted \cup {k}
  /\ pub' = [pub EXCEPT ![p].pc = "want"]
  /\ UNCHANGED <<wf, wk, faults>>

CallbackGiveUp(p) ==
  LET k == pub[p].for IN
  /\ pub[p].pc = "counting"
  /\ CallbackApplies(task, k) /\ task.failures >= 2
  /\ task' = DeliveryFailed(task, k)
  /\ counted' = counted \cup {k}
  /\ pub' = [pub EXCEPT ![p] = NoPublication]
  /\ wf' = EndedFor(k)
  /\ UNCHANGED <<wk, nextRunAt, faults>>

\* The record changed since it was read.
CallbackStale(p) ==
  LET k == pub[p].for IN
  /\ pub[p].pc = "counting" /\ ~CallbackApplies(task, k)
  /\ IF AlreadyCounted(task, k)
       THEN pub' = [pub EXCEPT ![p].pc = "want"] /\ UNCHANGED wf
       ELSE pub' = [pub EXCEPT ![p] = NoPublication] /\ wf' = EndedFor(k)
  /\ UNCHANGED <<task, wk, nextRunAt, faults, counted>>

-----------------------------------------------------------------------------
(* Commands.                                                               *)

Command(name, guard, result) ==
  /\ name \in Commands /\ guard
  /\ task' = result /\ task' # task
  /\ UNCHANGED <<wf, wk, faults>>

Cancel ==
  /\ Command("cancel", CanCancel(task), Cancelled(task))
  /\ UNCHANGED <<pub, nextRunAt, counted>>

\* The sweep or, on the SDK's route, the caller publishes it.
Retry ==
  /\ Command("retry", CanRetry(task), Retried(task, nextRunAt))
  /\ Used(TRUE)
  /\ counted' = {}
  /\ UNCHANGED pub

Schedule(p) ==
  /\ Command("schedule", CanSchedule(task), Scheduled(task, nextRunAt))
  /\ Used(TRUE)
  /\ Calling(p, "want", 0)
  /\ UNCHANGED counted

Checkpoint ==
  /\ Command("checkpoint", Unfinished(task), Checkpointed(task))
  /\ UNCHANGED <<pub, nextRunAt, counted>>

Block ==
  /\ Command("block", Unfinished(task), Blocked(task))
  /\ UNCHANGED <<pub, nextRunAt, counted>>

Complete ==
  /\ Command("complete", CanComplete(task), Completed(task))
  /\ UNCHANGED <<pub, nextRunAt, counted>>

-----------------------------------------------------------------------------
Publishing(p) ==
  PubClaim(p) \/ PubRefused(p) \/ PubSend(p, TRUE) \/ PubRecord(p) \/ PubClear(p)
CallbackStep(p) == CallbackCount(p) \/ CallbackGiveUp(p) \/ CallbackStale(p)
Working(w) ==
  ReportRefused(w) \/ SettleThrown(w) \/ SettleWrite(w) \/ SettleLost(w)
Failing(p) == PubSend(p, FALSE) \/ PubRejected(p) \/ PubCrash(p)
Slice(w) ==
  \/ \E outcome \in Outcomes : Finish(w, outcome)
  \/ ThrowSettled(w) \/ \E leaseLoss \in BOOLEAN : Throw(w, leaseLoss)
Dying(w) == WorkerCrash(w) \/ CrashAfterSettle(w)
Commanded ==
  \/ Cancel \/ Retry \/ Checkpoint \/ Block \/ Complete
  \/ \E p \in Publisher : Schedule(p)

Next ==
  \/ Tick
  \/ \E p \in Publisher : Sweep(p) \/ Publishing(p) \/ CallbackStep(p) \/ Failing(p)
  \/ \E k \in RunAt : Wake(k) \/ DeliveryExhausted(k)
  \/ \E k \in RunAt, p \in Publisher : Handoff(k, p) \/ CallbackRead(k, p)
  \/ \E k \in RunAt, w \in Worker : StepClaim(k, w) \/ StepRefused(k, w)
  \/ \E w \in Worker : Working(w) \/ Renew(w) \/ Slice(w) \/ Dying(w)
  \/ Commanded

Spec == Init /\ [][Next]_vars

-----------------------------------------------------------------------------
(* Fairness, for the liveness properties.  Publishers, workflow runs and   *)
(* callbacks are handlers or workflow steps that run to their end or are   *)
(* delivered again; the sweep is a timer; a slice has a time budget.       *)
(* Faults and commands are owed to nobody.  A renewal is due every quarter *)
(* of the lease (taskRunner.ts) and a publication is one request within a  *)
(* claim of two minutes, so time passes the end of neither while its       *)
(* holder is alive; a holder that may always be late can starve everyone.  *)

HeartbeatInTime ==
  \A w \in Worker :
    wk[w].pc # "idle" /\ CanRenew(task, w)
      => task'.lease.left > 0 \/ task'.lease.holder # w

PublishedInTime ==
  \A p \in Publisher :
    pub[p].pc # "idle" /\ task.workflow = Pending(p) /\ task.claim > 0
      => task'.claim > 0 \/ task'.workflow # Pending(p)

InTime == HeartbeatInTime /\ PublishedInTime
TimelyNext == Next /\ InTime

Fairness ==
  /\ WF_vars(Tick /\ InTime)
  /\ WF_vars(\E p \in Publisher : Sweep(p))
  /\ \A p \in Publisher : WF_vars(Publishing(p)) /\ WF_vars(CallbackStep(p))
  /\ \A k \in RunAt :
       /\ WF_vars(Wake(k))
       /\ WF_vars(\E p \in Publisher : Handoff(k, p))
       /\ WF_vars(\E p \in Publisher : CallbackRead(k, p))
       /\ WF_vars(\E w \in Worker : StepClaim(k, w) \/ StepRefused(k, w))
  /\ \A w \in Worker : WF_vars(Working(w)) /\ WF_vars(Slice(w))

FairSpec == Init /\ [][TimelyNext]_vars /\ Fairness

-----------------------------------------------------------------------------
(* Safety.                                                                 *)

LiveRun(k) == wf[k].st \in {"sleep", "step", "handoff", "failed"}

\* A task nobody touches is not republished for ever: after the first, each wake
\* it asks for is owed to an attempt that was counted or to a delivery that failed,
\* however the callbacks, the sweep and the retries of the workers overtake each
\* other.
WakesArePaidFor == nextRunAt <= 2 + task.attempt + faults

\* No queued task is stranded.  The recovery sweep trusts a recorded run id and
\* skips the task (needsPublication), so whenever a queued task carries one,
\* some run of it must still be going to wake, or its failure callback to come.
QueuedHasWake ==
  task.status = "queued" /\ task.workflow.kind = "published"
    => \E k \in RunAt : LiveRun(k)

\* The three delivery failures that fail a task are three different runs:
\* however often a failure callback is delivered, interrupted between counting
\* and publishing, or overtaken by the sweep, its run is counted once.
DeliveryFailuresCountedOnce == task.failures = Cardinality(counted)

\* While a worker holds its lease, nothing but its own settlement and the
\* owner's commands touches what it runs on: not a second run of the task, a
\* repeated step, a late failure callback or a publisher still busy with it.
OwnedRunIsUndisturbed ==
  [][\A w \in Worker :
       HoldsLease(task, w) /\ task.status \in {"running", "cancel_requested"}
         => \/ /\ task'.status = task.status /\ task'.attempt = task.attempt
               /\ task'.runAt = task.runAt /\ task'.lease.holder = w
            \/ wk[w].pc = "writing" /\ wk'[w].pc = "idle"
            \/ Commanded]_vars

\* The decision to fail a task is taken from a record read before the write.
\* It is still right when it is written: a task fails only when its attempts,
\* or its deliveries, are used up.
FailsOnlyWhenUsedUp ==
  [][task'.status = "failed" /\ task.status # "failed"
       => task'.attempt = MaxAttempts \/ task'.failures = 3]_vars

-----------------------------------------------------------------------------
(* What a task promises to those who only watch its status.                *)

Contract ==
  INSTANCE TaskContract
    WITH MaxDeliveries <- 3,
         status <- task.status, attempt <- task.attempt, failures <- task.failures

\* While its owner only cancels and retries it, the task keeps the contract,
\* whatever its publishers, runs, callbacks, workers and clocks do: one step of
\* theirs is one step of the contract or none, a completed task stays so, and
\* only those that have it in hand give its result.
KeepsContract == Contract!Spec

-----------------------------------------------------------------------------
(* Liveness.                                                               *)

\* Every queued task is eventually taken by a worker or failed, whichever of
\* its publications, deliveries and callbacks were lost on the way.
QueuedIsTaken == task.status = "queued" ~> task.status # "queued"

\* A task in the hands of workers, or asked to stop, comes to rest.
Settles ==
  task.status \in {"running", "cancel_requested"}
    ~> task.status \in {"completed", "blocked", "failed", "cancelled"}

-----------------------------------------------------------------------------
(* What the comments and tests say, and the code does not do.              *)

\* requestTaskCancellation: "Request cancellation without racing an in-flight
\* worker into a false success."
CancellationStands ==
  [][task.status = "cancel_requested" => task'.status # "completed"]_vars

\* executeDurableTask: what a task control did while the slice ran "is already
\* the authoritative result".
ControlledStateStands ==
  [][\A w \in Worker :
       wk[w].pc = "writing" /\ task.status \in {"queued", "blocked", "completed"}
         /\ wk'[w].pc = "idle"
         => task'.status = task.status]_vars

\* taskWorkflowRunId: a republication of the same task and runAt never creates
\* a second workflow.
OneWorkflowPerWake ==
  \A j, k \in RunAt :
    wf[j].st # "none" /\ wf[k].st # "none" /\ wf[j].wake = wf[k].wake => j = k

\* The runner's test: "An expired running lease must not strand the task."
ExpiredRunIsResolved == ExpiredRunning(task) ~> ~ExpiredRunning(task)
=============================================================================
