------------------------------ MODULE TaskRecord ------------------------------
(***************************************************************************)
(* The durable task record of src/store.ts and its operations, each one a  *)
(* guard and the record it writes.  Every operation is one compare-and-set *)
(* on the record's version (mutateTask, writeTaskIfVersion), so each is    *)
(* atomic; what is not atomic, the callers that read, wait and write, is   *)
(* in TaskQueue.                                                           *)
(*                                                                         *)
(* Time is relative.  Where the code keeps an absolute time, the record    *)
(* keeps the ticks left until it: 0 means "not after Date.now()".  A tick  *)
(* is long against a second: delays of a second or a millisecond round to  *)
(* zero ticks.  runAt is also the provider's idempotency key, so a runAt   *)
(* value is a number that stands for that instant, fresh for each new one, *)
(* and 0 for a task created without one.                                   *)
(*                                                                         *)
(* A definition whose name ends in _Bug is the next one with a plausible   *)
(* mistake in it, and nothing uses it: the README says which property      *)
(* notices the mistake.                                                    *)
(***************************************************************************)
EXTENDS Integers

CONSTANTS
  Worker,        \* invocations of /workflows/task that may be in progress
  Publisher,     \* callers of enqueueTaskWithClaim that may be in progress
  None,          \* no worker
  MaxRunAt,      \* bound: how many distinct runAt values a behaviour uses
  MaxAttempts,   \* the record's maxAttempts; attempt saturates there
  LoopMax,       \* iterations of the /workflows/task loop (10 in the code)
  LeaseTicks,    \* DURABLE_TASK_LEASE_MS (5 minutes)
  ClaimTicks,    \* the enqueue claim (2 minutes)
  StaleTicks,    \* age at which a due publication may be replaced (1 minute)
  DelayTicks     \* how far ahead a requeued or scheduled task is put

ASSUME RecordAssumption ==
  /\ None \notin Worker
  /\ {MaxRunAt, MaxAttempts, LoopMax, LeaseTicks, ClaimTicks, StaleTicks,
      DelayTicks} \subseteq Nat \ {0}

RunAt == 1..MaxRunAt
Iteration == 0..(LoopMax - 1)
Status == {"queued", "running", "blocked", "completed", "failed",
           "cancel_requested", "cancelled"}

(***************************************************************************)
(* workflowRunId is absent, "pending:<token>" or the provider's run id.    *)
(* The token of an enqueue claim is its publisher: a publisher's earlier   *)
(* claims are dead when it claims again, so no two live claims share one.  *)
(* Likewise a lease token is the invocation that took the lease.           *)
(***************************************************************************)
NoRun == [kind |-> "none"]
Pending(p) == [kind |-> "pending", token |-> p]
Published(k) == [kind |-> "published", id |-> k]
WorkflowRunId == {NoRun} \cup {Pending(p) : p \in Publisher}
                         \cup {Published(k) : k \in RunAt}

Lease == [holder : Worker \cup {None}, run : RunAt \cup {0},
          iter : Iteration, left : 0..LeaseTicks]
NoLease == [holder |-> None, run |-> 0, iter |-> 0, left |-> 0]

TaskRecordType ==
  [status : Status,
   attempt : 0..MaxAttempts,
   waiting : BOOLEAN,            \* the last event is a "waiting" event
   runAt : RunAt \cup {0},
   due : 0..DelayTicks,          \* ticks until runAt
   workflow : WorkflowRunId,
   age : 0..StaleTicks,          \* ticks since workflowPublishedAt; read only
                                 \* of a published task, 0 otherwise
   claim : 0..ClaimTicks,        \* ticks until enqueueClaim.expiresAt
   lease : Lease,
   failures : 0..3,              \* workflowDeliveryFailures
   lastFailed : RunAt \cup {0}]  \* lastFailedWorkflowRunId

\* createTask: the record as createTaskIfAbsent stores it.
NewTask(runAt) ==
  [status |-> "queued", attempt |-> 0, waiting |-> FALSE, runAt |-> runAt,
   due |-> 0, workflow |-> NoRun, age |-> 0, claim |-> 0, lease |-> NoLease,
   failures |-> 0, lastFailed |-> 0]

\* Time passes: every remaining time shrinks, and the publication ages.
Less(n) == IF n > 0 THEN n - 1 ELSE 0
Aged(t) ==
  [t EXCEPT !.due = Less(@), !.claim = Less(@), !.lease.left = Less(@),
            !.age = IF t.workflow.kind = "published" /\ @ < StaleTicks
                      THEN @ + 1 ELSE @]

-----------------------------------------------------------------------------
(* Publication: the enqueue claim and the recorded run id.                 *)

\* overduePublishedTask in claimTaskEnqueue
OverduePublished(t) ==
  /\ t.status = "queued"
  /\ t.runAt # 0 /\ t.due = 0
  /\ t.workflow.kind = "published"
  /\ t.age = StaleTicks

CanClaimEnqueue(t) ==
  /\ t.status = "queued"
  /\ t.workflow.kind = "published" => OverduePublished(t)
  /\ t.claim = 0

\* A replaced publication moves runAt forward, so that it gets a new run id.
EnqueueClaimed(t, p, fresh) ==
  [t EXCEPT !.runAt = IF OverduePublished(t) THEN fresh ELSE @,
            !.workflow = Pending(p), !.age = 0, !.claim = ClaimTicks]

\* setTaskWorkflowRunId with an expected "pending:<token>" id
RunIdRecorded(t, p, id) ==
  IF t.workflow = Pending(p)
    THEN [t EXCEPT !.workflow = id, !.age = 0, !.claim = 0]
    ELSE t

\* an abandoned claim is taken for a publication
NeedsPublication_Bug(t) == t.status = "queued" /\ t.workflow = NoRun

\* needsPublication of the recovery sweep
NeedsPublication(t) ==
  /\ t.status = "queued"
  /\ t.workflow.kind # "published"
  /\ t.claim = 0

-----------------------------------------------------------------------------
(* The worker's lease.                                                     *)

ExpiredRunning(t) ==
  t.status = "running" /\ t.lease.holder # None /\ t.lease.left = 0

\* a live lease does not stop a second claim
CanClaim_Bug(t, k, iter) == t.status \in {"queued", "running"} /\ t.due = 0

\* claimTask by the step iter of the workflow run k
CanClaim(t, k, iter) ==
  /\ \/ t.status = "queued"
     \/ ExpiredRunning(t) /\ <<t.lease.run, t.lease.iter>> # <<k, iter>>
  /\ t.due = 0
  /\ t.lease.left = 0

\* every wake passes for a continuation
Attempted_Bug(t) == t.attempt

Attempted(t) ==
  IF t.waiting \/ t.attempt = MaxAttempts THEN t.attempt ELSE t.attempt + 1

Claimed(t, w, k, iter) ==
  [t EXCEPT !.status = "running", !.attempt = Attempted(t), !.waiting = FALSE,
            !.failures = 0,
            !.lease = [holder |-> w, run |-> k, iter |-> iter,
                       left |-> LeaseTicks]]

HoldsLease(t, w) == t.lease.holder = w /\ t.lease.left > 0

\* a worker asked to stop loses its heartbeat
CanRenew_Bug(t, w) == HoldsLease(t, w) /\ t.status = "running"

CanRenew(t, w) ==
  HoldsLease(t, w) /\ t.status \in {"running", "cancel_requested"}

Renewed(t) == [t EXCEPT !.lease.left = LeaseTicks]

-----------------------------------------------------------------------------
(* Settlement.  settleTaskRun reads the record, decides, and writes the    *)
(* decision with backend.settleTask, which checks the lease alone.         *)

Waits == {"wait", "wait+progress", "continue", "continue+progress"}
Outcome == {"completed", "blocked", "failed", "cancelled"} \cup Waits
Decision == Outcome \cup {"retry"}
Requeues == Waits \cup {"retry"}

\* one attempt too few
Decided_Bug(t, outcome) ==
  IF t.status \in {"cancel_requested", "cancelled"} THEN "cancelled"
  ELSE IF outcome = "failed" /\ t.attempt + 1 < MaxAttempts THEN "retry"
  ELSE outcome

Decided(t, outcome) ==
  IF t.status \in {"cancel_requested", "cancelled"} THEN "cancelled"
  ELSE IF outcome = "failed" /\ t.attempt < MaxAttempts THEN "retry"
  ELSE outcome

\* a requeue keeps the id of the run that made it
Settled_Bug(t, decision, fresh) ==
  IF decision \in Requeues
    THEN [t EXCEPT !.status = "queued", !.lease = NoLease, !.claim = 0,
                   !.runAt = fresh, !.due = DelayTicks]
    ELSE [t EXCEPT !.status = decision, !.lease = NoLease, !.runAt = 0, !.due = 0]

\* The patch of each decision; every settlement clears the lease.
Requeued(t, waits, progress, fresh) ==
  [t EXCEPT !.status = "queued", !.lease = NoLease,
            !.workflow = NoRun, !.age = 0, !.claim = 0,
            !.waiting = waits, !.attempt = IF progress THEN 0 ELSE @,
            !.runAt = fresh, !.due = DelayTicks]

Settled(t, decision, fresh) ==
  IF decision = "cancelled"
    THEN [t EXCEPT !.status = "cancelled", !.waiting = FALSE, !.lease = NoLease]
  ELSE IF decision \in Requeues
    THEN Requeued(t, decision \in {"wait", "wait+progress"},
                  decision \in {"wait+progress", "continue+progress"}, fresh)
  ELSE [t EXCEPT !.status = decision, !.waiting = FALSE, !.lease = NoLease,
                 !.runAt = 0, !.due = 0]

-----------------------------------------------------------------------------
(* The failure callback: recoverTaskAfterWorkflowFailure.                  *)

Unclaimed(t) == t.status = "queued" /\ t.lease.holder = None /\ t.due = 0

\* a task that was claimed meanwhile is not left alone
CallbackApplies_Bug(t, k) == t.workflow \in {NoRun, Published(k)}

CallbackApplies(t, k) ==
  /\ Unclaimed(t)
  /\ \/ t.workflow.kind = "pending" /\ t.runAt = k
     \/ t.workflow = Published(k)
     \/ t.workflow = NoRun

\* The id was cleared by an earlier callback.  If it was this one, it has been
\* counted and only its publication is missing.
Cleared(t) == t.workflow = NoRun /\ t.lastFailed # 0
AlreadyCounted(t, k) == Unclaimed(t) /\ t.workflow = NoRun /\ t.lastFailed = k

DeliveryFailed(t, k) ==
  [t EXCEPT !.status = "failed", !.failures = 3, !.workflow = NoRun,
            !.age = 0, !.claim = 0, !.lastFailed = k, !.waiting = FALSE]

\* the counted run is forgotten
DeliveryRetried_Bug(t, k, fresh) ==
  [t EXCEPT !.failures = @ + 1, !.workflow = NoRun, !.claim = 0, !.runAt = fresh]

DeliveryRetried(t, k, fresh) ==
  [t EXCEPT !.failures = @ + 1, !.workflow = NoRun, !.age = 0, !.claim = 0,
            !.lastFailed = k, !.runAt = fresh, !.waiting = FALSE]

-----------------------------------------------------------------------------
(* Commands: the owner's surfaces, and the CHUCK_TASK_* tools of the       *)
(* worker's own turn, call the same functions.                             *)

CanCancel(t) == t.status \notin {"completed", "cancelled"}
Cancelled(t) ==
  [t EXCEPT !.status = IF @ \in {"queued", "blocked", "failed"}
                         THEN "cancelled" ELSE "cancel_requested",
            !.waiting = FALSE]

\* any task that is not in hand, the completed one too
CanRetry_Bug(t) == t.status \notin {"queued", "running", "cancel_requested"}

CanRetry(t) == t.status \in {"failed", "blocked", "cancelled"}

\* a retried task fails at its next failed delivery
Retried_Bug(t, fresh) ==
  [t EXCEPT !.status = "queued", !.attempt = 0, !.waiting = FALSE,
            !.workflow = NoRun, !.age = 0, !.claim = 0, !.runAt = fresh]

Retried(t, fresh) ==
  [t EXCEPT !.status = "queued", !.attempt = 0, !.waiting = FALSE,
            !.workflow = NoRun, !.age = 0, !.claim = 0,
            !.failures = 0, !.lastFailed = 0,
            !.runAt = fresh]    \* not before the runAt it had

CanSchedule(t) == t.status \notin {"completed", "running"}
Scheduled(t, fresh) ==
  [t EXCEPT !.status = "queued", !.waiting = FALSE,
            !.runAt = fresh, !.due = DelayTicks]

Unfinished(t) == t.status \notin {"completed", "cancel_requested", "cancelled"}
Checkpointed(t) == [t EXCEPT !.status = "running"]
Blocked(t) == [t EXCEPT !.status = "blocked", !.waiting = FALSE]

CanComplete(t) == t.status \notin {"cancel_requested", "cancelled"}
Completed(t) == [t EXCEPT !.status = "completed", !.waiting = FALSE]
=============================================================================
