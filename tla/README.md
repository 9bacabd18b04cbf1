# Chusky in TLA+

Chusky is a TypeScript agent service.  A model turn is short; what outlives it
is kept in durable records (Redis or Postgres) and carried on by QStash
workflows, timers and callbacks.  Several replicas run the same code, every
call to the store, to QStash or to a provider is awaited, and QStash delivers a
step again when it hears no answer.  The program is correct when its records
stay true and its work goes on whatever the order of those steps.  This
directory models those records and the handlers that race on them, checks them
with TLC on small instances, and proves the main results with TLAPS.

Contents: 1 inventory, 2 plan, 3 the models, 4 runs, 5 bounds, 6 fairness and
timeliness, 7 what was found, 8 proofs, 9 mutants, 10 not modelled.

## 1. Inventory

Paths are relative to `src/src/` of the repository.

| Component | State it keeps | Operations | Hard behaviour | What makes it correct |
|---|---|---|---|---|
| Generic durable tasks (`store.ts`, `taskEnqueue.ts`, `taskRunner.ts`, `taskRecovery.ts`, `/workflows/task` in `index.ts`) | a versioned task record: status, attempt, lease, runAt, workflowRunId, enqueue claim, delivery failures | create, publish, claim, renew, settle, failure callback, sweep, cancel, retry, schedule, checkpoint, block, complete | publishers and workers race; steps are delivered again; answers get lost; workers die | a lease holder works undisturbed; a queued task always has a wake; failures are counted once; decisions hold when written |
| Missions (`store.ts`, `missionSlice.ts`, `missionApproval.ts`) | a versioned mission: status, steps, waits, leases of the mission and of its steps, budget, evidence | create, replan, lease, complete a step, wait and resume (timer, approval, provider event), verify, finalize | mission and tasks are separate records; closeout reads three of them; a late resume | completed steps stay completed; a terminal mission has no open task; a wait is resumed by its own event once; budgets bound work |
| Mission recovery and scheduling (`missionRecovery.ts`, `missionScheduler.ts`) | none of its own | quarantine of expired task leases, repair, rescheduling | the sweep races the workers it recovers | uncertain work is not replayed; a runnable step has a task |
| Channel and webhook outbox (`channels/outbox.ts`, `lib/webhookOutbox.ts`) | a delivery record: status, attempts, lease | enqueue, claim, send, update, recover, confirm, retry | listings grow old; updates are read then write; a sender may be late | an uncertain delivery is not repeated; a delivered one stays delivered; every message comes to rest |
| Inbound channels (`channels/gateway.ts`, `channels/identity.ts`) | event claims, identities, conversations | claim an event, link an identity, run a turn | duplicated and reordered provider events | an event is handled once; a turn holds the user lock |
| Delivery and occurrence claims (`store.ts`) | claim and done keys, job occurrences | claim, complete, release | a claim expires under its holder | one completion per key |
| Approvals (`approvals/escalation.ts`, `missionApproval.ts`) | an approval record, expiring | create, claim (approve), deny, resume what waits | expiry between check and use | an action is released by its own approval, once |
| Locks (`distributedLease.ts`, `store.ts`) | tokens with an expiry | acquire, renew, release | renewal fails or is late | exclusion while the lease is held, failure reported otherwise |
| Spend guards (`treg/spend.ts`, `monid/spend.ts`) | a daily ledger of spent and reserved amounts | reserve, settle | the lock is not renewed; settlement repeats | spent and reserved never exceed the budget; a reservation settles once |
| Web session reconciliation (`webSessionReconciliation.ts`) | one task per owner and channel | ensure, execute, recover | requeues expired leases | the repair is eventually done |
| Reminders (`nativeTools.ts`, `workflows.ts`, `store.ts`) | a list of reminders per user, a workflow run and a delivery claim per attempt | set, pause, resume, cancel, run now, approve, deliver, fail | the list is written whole; runs are retried, delivered again, given up on | an attempt reaches its owner once; a reminder called scheduled is coming |
| Jobs, autonomy, reliability | jobs, action receipts, quotas | fire, reconcile, compensate | repeated fires, uncertain writes | one execution per occurrence; compensation settles once |
| Calls, meetings, proactive watches, subagents, composer | provider ids, capacity, receipts, stage graphs | reconcile, admit, deliver, advance | provider callbacks out of order | capacity is not exceeded; a stage advances once |
| Agent loop and tools (`agent.ts`, `nativeTools.ts`, `handlers.ts`) | the session | run a turn, call tools | the turn changes records it runs on | through the records above |
| HTTP API, SDK, side services | none beyond the records | map requests to store calls | | through the records above |
| Durable backends (`neonDurableState.ts`, `redisClient.ts`) | the records | compare-and-set | migration between stores | a version is written once |

They interact through the records.  A tool or a route creates a task and
publishes its workflow; QStash calls `/workflows/task`, whose steps claim,
execute and settle the task; a failed delivery calls `/workflows/failure` and
through it the task's recovery; a timer sweeps for what nobody publishes.
Missions create tasks for their steps and are closed by the last settlement;
approvals and provider events resume missions and tasks that wait.

## 2. Plan

Written so far, in this order:

1. **Task queue** (`TaskRecord`, `TaskQueue`, `TaskQueueInductive`,
   `MC_TaskQueue`; proofs in `TaskQueueProofs`, `TaskFailureProofs`,
   `TaskFreshProofs`, `TaskWakeProofs`), and `TaskContract`, what the queue
   promises those who watch a task's status, which `TaskQueue` implements.
2. **Outbox** (`Outbox`, `MC_Outbox`, `OutboxProofs`): channel messages and
   webhooks, their recoveries, listings and owners.
3. **Missions** (`MissionRecord`, `Mission`, `MC_Mission`, `MissionProofs`): the
   record's operations, and their composition with the tasks of the steps, the
   workers, the owner and the recovery sweep.  The tasks behave there as
   `TaskContract` says, so the two levels meet in that module.
4. **Spend guards** (`Spend`, `MC_Spend`, `SpendProofs`): both ledgers with
   their lock and the paid calls around them.
5. **Reminders** (`Reminder`, `MC_Reminder`, `ReminderProofs`): the list, the
   workflow runs and the delivery claims.

What is worth doing next:

* Approvals (`approvals/escalation.ts`, `missionApproval.ts`) and their
  resumption of missions, as further commands and waits of `Mission`.
* `LeaseHeartbeat`: `distributedLease.ts` and the renewal timer of
  `taskRunner.ts`, which `TaskQueue` and `Mission` take as an assumption.
* `WebReconciliation`, the second client of the task queue, with
  `requeueExpiredTask`; the other users of delivery claims; jobs; the composer.
* Proofs: that the tasks of `Mission` keep `TaskContract`, step by step;
  `QueuedHasWake` with a weaker hypothesis than `CleanPublication`; what is left of
  `BudgetKept` when a lock lapses, and of the outbox when deliveries overlap.

A component gets one or two passing runs, mixed enough to fire all its actions
together.  A counterexample is a run where the program contradicts itself most
gravely; the others are configurations listed in section 7.

## 3. The models

### The task queue

`TaskRecord` is the record of `store.ts`.  Each operation there is a
compare-and-set on the version (`mutateTask`, `writeTaskIfVersion`), retried on
conflict, so it is one atomic step: a guard (`CanClaim`, `CanClaimEnqueue`,
`CanRetry`, ...) and the record written (`Claimed`, `EnqueueClaimed`,
`Retried`, ...).  `TaskQueue` is everyone who calls it.  It is about one
*generic* task (`isGenericTask` in `taskRecovery.ts`: no mission, no kind of
its own); tasks do not interact.

| Variable | In the program |
|---|---|
| `task` | the stored record |
| `wf[k]` | QStash's workflow run of key `k`: sleeping until its time or in a `workflow.sleep`, asking for step `iter` of the loop, handing over, failed with its callback still to be processed, or ended |
| `pub[p]` | a call of `enqueueTaskWithClaim`: about to claim, claimed, accepted by QStash, or rejected; `"counting"` is the failure callback between its read and its write.  `for` is the run that waits for the call |
| `wk[w]` | an invocation of `executeDurableTask`: running its slice, about to settle after a throw, between the read and the write of `settleTaskRun`, or refused |
| `nextRunAt` | the next unused `runAt`; history that makes fresh instants distinct |
| `faults`, `counted` | history: faults so far; runs counted since the last claim or retry |

Abstractions, and why they lose nothing the properties see:

* **Time** is ticks left until an instant.  A tick is long against a second, so
  second-long and millisecond delays are zero ticks; leases, enqueue claims,
  the age of a publication and requeue delays are constants.  `Tick` may happen
  at any moment: in the runs without fairness a lease may expire under a worker
  that is alive, and a claim under its publisher.
* **runAt** doubles as the provider's idempotency key
  (`task-<id>-<runAt>`), so each new instant gets a number of its own, and 0 is
  a task created without one.
* **QStash** is external.  It creates one run per key and answers a repeated
  request with the run that exists (`PubSend`); it records a step's result once
  and delivers a step again when it got no answer (`Deliver` when another
  worker is already at it is the `redelivery` fault, after a crash it is not a
  fault); when it gives up on a run it starts the failure workflow, once per
  run (`DeliveryExhausted`, `CallbackRead`).
* **A slice** returns any of `Outcomes` or throws.  `wait` and `continue`
  stand for `queued` results with and without `waiting`; `+progress` resets the
  attempts.
* **Commands** come from the owner's surfaces and from the `CHUCK_TASK_*` tools
  of the slice itself.  They are the same functions, so one action each, enabled
  at any moment.  Commands that would not change the modelled record are left
  out.
* A task's creator publishes it, or fails to: it is one of the publishers
  `Sweep` stands for, as is the SDK's retry route.

The order of the code's steps is kept.  `settleTaskRun` reads and decides
(`Settling`), then `backend.settleTask` writes if the lease is still held
(`SettleWrite`, else `SettleLost`); the loop sees the record that the settlement
returned, or nothing (`ReportNothing`).  The callback reads, then mutates with
its conditions rechecked (`CallbackRead`, `CallbackCount`, `CallbackGiveUp`,
`CallbackStale`), then publishes.  `ThrowSettled`, `Throw` and `SettleThrown`
are the catch of `taskRunner.ts`; when a settlement as `blocked` is refused
because the lease is gone, the second one the code attempts is refused for the
same reason and is not a separate step.  A `cancelled` outcome of a slice that
was not asked to stop also clears `runAt`; no reader tells the difference,
because a cancelled task leaves that status only with a new `runAt`.

### The outbox

`Outbox` is the records of `channels/outbox.ts` and `lib/webhookOutbox.ts`, which
share one store and one index, and the calls that work on them.

| Variable | In the program |
|---|---|
| `out[m]` | the stored record: status, attempts, lease, and whether the provider has answered (`receipt`) |
| `index[m]` | the sorted sets of `store.ts` that hold the id, one per recoverable status |
| `call[c]` | a call of `deliver` or `deliverSdkWebhook`, with the listing that led to it, or an owner's request.  `seen` is the record it works on: the listed one, then the one its update read |
| `arrived` | history: messages whose receiver may have taken a request |
| `crashes` | history: calls that died |

`createOutbox` and `claimOutbox` are compare-and-set and one step each (`Created`
in `Send` and `Notify`; `Claim`, `Quarantine`, `Refused`).  `updateOutbox` is two,
`UpdateRead` and `UpdateWrite`: it has no version, so what it writes is what it
read with its patch (`Patched`).  A recovery is three: the ids (`Recover`), the
records and the choice of the oldest (`ListRead`), and the removal of what was
not as indexed (`Cleanup`), which is decided on the records read before.
`GiveUp` and `Exhaust` are the checks that precede the claim and look at the
*listed* record.  The two timers list different statuses over the same index
(`Statuses`), the channels' without `failed`, and each drops the other's records
only after the limit was applied (`Own`).

Abstractions:

* Attempts count without a cap, as `claimOutbox` does.  A webhook's are bounded by
  `MaxClaims`, because retries start its count over; without retries the bound is
  never reached (`AttemptsAreLimited`).
* A recovery is one call per listed message.  They run concurrently in batches
  or one after the other, which is some order of the same steps; `found`, what
  the listing's records are, is read in one step.
* A compare-and-set that loses three times behaves like one that ended before.
* A server that stops is its calls ending one by one, at any point (`Crash`).
* A tick may be long: leases have one, live and then over.

### What a task promises

`TaskContract` has three variables, a task's status, attempt and delivery
failures, and six actions: somebody takes it, puts it back or finishes it, a
delivery misses, the owner cancels or retries.  `TaskQueue` instantiates it with
its record's fields (`Contract`), and `KeepsContract` says that every behaviour of
the queue is one of the contract: leases, publications, runs and callbacks are
below it.  It is checked, and proved, for an owner who cancels and retries; the
commands of the task's own turn (checkpoint, block, complete, schedule) set the
status as they please and are not in the contract.

### Missions

`MissionRecord` is the record of `store.ts`: steps with their dependencies,
status, wait, evidence and budget, and one operator pair per operation, a guard
and the record written.  Each is a `mutateMission`, so atomic.  `Mission` is
everyone who calls them.

| Variable | In the program |
|---|---|
| `m` | the stored mission |
| `task[s]` | the durable task of step `s`; its id is a hash of both ids, so there is one |
| `call[c]` | what a worker (`executeMissionTaskSlice`), a request of the owner or the sweep is doing: a point in it, the step, the outcome, what it read |
| `crashes` | history: workers that died |

No write covers two records.  A call reads one, and then writes the other, and
the order is the code's:

* a slice (`Begin` ... `Settle`) finds its step done, its mission not going, a
  wait, or work; takes the step; runs the turn, which may use one mission tool;
  accounts for it; hands over to the next step or parks; and settles its task;
* closing (`Close`, `Verify`, `Refuse`, `CompleteIt`) is
  `finalizeMissionIfReady`: it reads the mission, then its tasks, verifies,
  and completes or blocks;
* reconciliation closes, cancels the tasks of steps that do not run (`Clear`),
  closes again, reads which running steps want a task (`Schedule`) and creates or
  retries them one by one (`Launch`);
* what follows a bad settlement (`Project`, `StopStep`) stops the step, and the
  mission when nothing else of it works; a pause or cancellation is followed by
  `Drop`, the cancellation of its tasks;
* the sweep resumes what is due, repairs once, quarantines tasks whose worker
  died and reconciles the rest; the owner's requests change the record and then
  do one of the above.

A queued task is taken sooner or later however its publication fares, as
`TaskContract` and the liveness of `TaskQueue` have it; a dead worker's task stays
as it is, its lease lapsed (`lapsed`).  A timer or deadline is due or not
(`WaitEnds`, `TaskDue`).  What a turn does is one of `Turns`.  A task's attempt is
one more each time it is taken for something new, and nothing caps it;
`MaxClaims` bounds how often that happens.

### Spend guards

`Spend` is one owner's ledger of one day at one of the two gateways.

| Variable | In the program |
|---|---|
| `guard` | whose guard it is, Treg's or Monid's |
| `ledger` | the stored snapshot: spent and reserved for the day and the mission, the minute's count, Monid's open reservations |
| `lock` | who holds its lock, a lease of 15 seconds that nobody renews |
| `proc[p]` | a call: waiting for the lock, checking it, having read, about to write, releasing, or with its request at the provider |
| `run[r]` | the paid call: what was reserved, what the provider charged, Monid's receipt |
| `minute`, `made`, `lapses` | the minute; calls made; leases that ended before their holder was done |

The ledger is read and written whole, under the lock and in two steps, so a
holder that outlives its lease writes over another's booking (`LockExpires`,
bounded by `MaxLapses`).  A call dies at any point, the provider answers, stays
silent or was never reached, and a Monid run is looked up again until it is final.
A charge is one of `Charges`, whatever was reserved: the gateways book the cost that
is reported, or the estimate where there is none, and no settlement clamps it.

### Reminders

| Variable | In the program |
|---|---|
| `list` | one user's reminders, one value |
| `run[r]` | a workflow run of QStash with the attempt id it was given: asleep, its step due, given up on, or over; and the claim of that attempt, free, held or done |
| `call[c]` | a server in `deliverReminder` or in the failure work of `index.ts`, or a request of the owner: what it read and what it still has to do, in order |
| `sent[r]`, `faults` | history: how often a run reached the owner; faults so far |

`updateReminder` is two steps, `UpdateReads` and `UpdateWrites`: it reads the list
and writes it whole, with one reminder changed.  `claimDelivery` is two as well,
`EXISTS` of the done key and then `SET NX`.  `Plan` is what a delivery does after
its turn, in the order of the code.  A message may be taken although its sender
is told of an error (`Send`): the claim is held then, as after a crash.  A run sleeps at least a second, so what
triggered it is over by the time it wakes; a claim of a quarter of an hour
outlives the seconds of its run's retries.

## 4. Runs

A run's MC module is named in PROJECT.json; the first letters tell it.  "Faults"
of a task are lost answers, rejected publications, crashes, redeliveries and
exhausted deliveries.

| Run | Checks | Shows |
|---|---|---|
| `TaskPublication` | `QueuedHasWake`, `DeliveryFailuresCountedOnce` | two publishers and a worker with any two faults |
| `TaskWorkers` | `QueuedHasWake`, `OwnedRunIsUndisturbed`, `FailsOnlyWhenUsedUp`, `KeepsContract` | two workers, one fault, an owner who cancels and retries |
| `TaskCommands` | `TypeOK`, `DeliveryFailuresCountedOnce`, `OwnedRunIsUndisturbed` | all six commands against a worker that renews its lease, and three exhausted deliveries, the last of which gives the task up |
| `TaskLiveness` | `WakesArePaidFor`, `QueuedIsTaken`, `Settles` | progress under `FairSpec` with cancellation and two faults: publisher crashes, exhausted and repeated deliveries |
| `OutboxOverlap` | `OneSender`, `AttemptsAreLimited`, `DeliveredStands` | two servers, each sending, listing and recovering a channel message and a webhook, with two crashes and status callbacks |
| `OutboxDelivery` | `TypeOK`, `NotReplayed`, `Rests` | a channel message and a webhook, one delivery at a time, with two crashes, every answer, and an owner who confirms |
| `MissionPlan` | `DependencyOrder`, `StepsCountedOnce`, `CompletionIsEarned`, `CompletedWorkIsKept` | three dependent steps, replanned and completed by the owner and by the worker's own turn between any two steps of a slice or a reconciliation |
| `MissionCloseout` | `TypeOK`, `CompletionIsEarned` | one strict step with every other command, every end of a turn, four tools, the sweep and a crash |
| `MissionLiveness` | `RestsForGood`, `CancelledReleasesTasks` | two parallel steps under `FairSpec`, with waits and a cancellation |
| `MissionReplay` | `UncertainIsNotReplayed` | the disagreement of section 7 |
| `Spend` | `TypeOK`, `BudgetKept`, `RateKept`, `NothingBookedTwice`, `ChargesAreCovered` | two callers and three calls over two minutes at either guard, charged up to twice what was reserved, with crashes, lost answers and repeated look-ups |
| `Reminders` | `TypeOK`, `SentOncePerAttempt`, `ScheduledIsComing` | one reminder with every request but to run now what is scheduled, every end of a turn, and three faults of any kind but a second delivery of a step at work |

Of the tasks, `OwnedRunIsUndisturbed` is the fence: from the claim to the expiry
of the lease nothing but the holder's settlement or a command changes status,
attempt, runAt or holder.  `QueuedHasWake` is about the trust the sweep puts in a
recorded run id.  `FailsOnlyWhenUsedUp` relates a write to the earlier read it
was decided from.  `QueuedIsTaken` and `Settles` are the two halves of progress;
they need no assumption that faults stop beyond the bound on their number.
`WakesArePaidFor` is that recovery comes to an end too: every wake after the first
is owed to a counted attempt or a failed delivery.

In the outbox, `NotReplayed` is the promise of the ambiguous status: no request
for a message whose receiver may have taken an earlier one, whatever died and
wherever.  It holds while deliveries do not overlap, which is what
`OutboxDelivery` checks with its single sender, and `MC_StaleListing` shows what
an overlap does to it.
`OneSender` and `DeliveredStands` hold however many overlap.
`AttemptsAreLimited` says what an overlap costs where the limit is checked on the
listed record and the claim does not look at it: one attempt for each further
server.  What an overlap breaks is in section 7, the index (`MC_IndexRace`) and
confirmations (`MC_ConfirmRace`) included.  `DeliveredStands` is
about the writes of `updateOutbox`: nothing but the lease keeps two of them
apart.  `Rests` says that recovery finds whatever a crash left.

Of missions, `CompletionIsEarned` is what closing must not get wrong: it decides
on one read of the mission, another of its tasks and a third after verifying,
and what keeps the last write honest is only that each operation looks at its
own record again.  `DependencyOrder` and `StepsCountedOnce` are what replans,
late completions and repeated ones could break; `CompletedWorkIsKept` is what a
replan could.  `RestsForGood` is that no wait, handover or closing is lost
and none is repeated for ever; `CancelledReleasesTasks` includes the task which a
reconciliation creates behind a cancellation's back.

`BudgetKept` and `ChargesAreCovered` relate the ledger to what the provider
charged, from both sides.  No call is let in that does not fit, so only what is
booked beyond a reservation takes the ledger over its budget (which the code
allows: it books what is reported); and no charge is forgotten, as far as it was
reserved.  `NothingBookedTwice` bounds the ledger by each run's reservation or its
one cost, whoever settles it.
`ChargesAreCovered` is claimed of Monid only, whose receipts survive a crash.
`SentOncePerAttempt` relates the retries of a run to one claim.
`ScheduledIsComing` says that, when nobody is at work on it, a reminder listed as
scheduled has a run that will come or that ended in a way the owner was told of.

## 5. Bounds

Two workers are enough for every pair of racing executions (a second run, a
redelivery, a takeover); two publishers for every pair of racing publications;
`TaskWorkers`, `TaskCommands` and `TaskLiveness` use one publisher because they
aim at workers, and sweeps, callbacks and handoffs still interleave with the
loop through it.  `TaskCommands` has one worker: it is about commands against a
worker, and its three faults let the callback reach the count at which it gives
a task up.  `LoopMax` is 2 instead of 10: a first iteration, and the last
one, which hands over.  `MaxAttempts` 2 has an attempt that may be retried and
one that may not; where it is 1 the run is about something else.  Lease, claim,
staleness and delay are one tick: live, then over; `TaskCommands` and
`TaskLiveness` have a lease of two, so that there is a time
to renew it in before it ends.  `MaxRunAt` bounds the distinct
wake times of a behaviour and thus its length: an action that needs a new one is
disabled when they are used up, which only cuts behaviours off in the safety
runs; `TaskLiveness` never meets its bound, its state space is the same with one
more, so its liveness is not cut off.  `MaxFaults` bounds the faults.  Symmetry
is used in runs without liveness only.  Deadlock is not checked anywhere: a task, a
message, a mission, a call or a reminder at rest needs nobody.

In the outbox a channel message and a webhook suffice for what the two share, the
index and its listings.  `OutboxOverlap` has two senders, the least that overlap,
and two attempts, the second of which a recovery makes and an overlap may repeat.
A webhook's retry is left out of both runs: it starts the count over, and it
breaks `NotReplayed` (section 7).  `MaxClaims` is 6, which neither
run reaches.  `OutboxDelivery` has three
attempts: a first one, one that recovery may still repeat, and the last.  It
lists both messages; two editors let a confirmation meet another one or a status
callback between its read and its write.

A mission's state is large, so its runs divide the questions.  `MissionPlan` is
about the plan: three steps, of which the last joins the others, against a plan
of one; an owner and a worker who both replan and complete; one slice per step.
A step's attempts, waits and ends other than progress do not touch the plan.
`MissionCloseout` is about ends: a single strict step meets every command, turn and
tool but a replan, and one crash.  `MissionLiveness` has two parallel
steps, so that one may wait while the other works, and one worker; it has no
crash, because a crash breaks `RestsForGood` (section 7).  One owner is one
request at a time; together with the worker and the sweep, each in the midst of
its own calls, there are three.  `MaxClaims` is 1 in
the two larger runs, where progress and retries start the count over and a wait
that ends goes on with it, so a task is still taken many times; left out is the
second attempt of a task whose slice was refused its step and put back.
`MissionLiveness` has `MaxClaims` 2, and the same state space with 3.
`MaxSlices` and `MaxSteps` are the mission's own
budgets, not bounds of the model.

`Spend` has two callers, so one holds the lock or works while the other does; three
calls of at most one unit against a budget of two for the day and one for the
mission, and a limit of one in a minute, so that each of the three limits refuses;
charges of nothing and of two units, less and more than was reserved; and two
minutes, for the window to start over.  `Reminders` has one reminder, two
runs, so that one made by a resumption, a poll or an approval meets the one
before it, and three faults, so that a retry can fail again in another way.  It
has two runners, one for each run or for its failure work, and one owner.  A
request to run a scheduled reminder now ("hurry"), a redelivery and a second
reminder are left out: each breaks a property of the run, as section 7 shows.

## 6. Fairness and timeliness

`Fairness` gives weak fairness to what the program or QStash owes: time passes;
the sweep's timer fires; a handler that began a publication or a callback goes
on; QStash wakes runs, delivers their steps and processes failures; a slice ends
(it has a time budget and an abort signal).  Nothing is owed by faults or
commands.  `InTime` keeps `Tick` from passing the end of a lease that its holder
is alive to renew, or of an enqueue claim whose publisher is alive: renewals
come every quarter of a lease (`taskRunner.ts:83`), a publication is one request
within a claim of two minutes.  Without it a worker that is always late starves
the task, and two slow publishers clear each other's markers for ever; the
safety runs do not assume it.

`Outbox` has two assumptions.  `InTime`, in `TimelySpec` and so in all its runs: a
sender ends its request and its update before its lease of a minute ends.  A
webhook's request is aborted after ten seconds (`lib/webhooks.ts`); some channel
adapters set no limit, so for them it is an assumption about the provider, and
without it a message may be found interrupted, and confirmed, while it is being
sent.  `Fairness`, in `FairSpec`: time passes; a call that does not
crash goes on to its end and gets an answer; and recovery by the message's own timer
gets to a message that is listed again and again, strongly because the listing
comes and goes with the other message.  Nobody has to send, confirm or retry.

`Mission`'s `FairSpec` says: a worker that has begun goes on; a queued task is
delivered to some worker, strongly because workers are at times all busy; a call
of the owner or the sweep that has begun goes on; the sweep comes round; time
passes.  The owner owes nothing, not even the start of the mission, and an
awaited event need not come; its deadline does.

`Spend` is safety only.  `MaxLapses = 0` is the assumption that a holder of the
ledger's lock, who reads and writes one key, is done within 15 seconds; nothing
in the code enforces it, and `MC_SlowLedger` shows what happens otherwise.
`Reminder` is safety only too; its two assumptions about time are at the head of
the module.

## 7. What was found

`MissionReplay`: a worker dies with its task in hand.  The sweep blocks the task
(`quarantineExpiredTask`, `store.ts:11805-11814`); only then, in writes of their
own, is its step stopped (`store.ts:12003`) and the mission blocked
(`missionRecovery.ts:220`).  In between, a sibling's worker settles, and its
reconciliation finds the mission and the step running and the task blocked, and
retries it.  The function's comment says "recovery must not turn lease
expiry into a blind replay. The mission remains explicitly blocked until a fresh
read-back or owner-directed repair decides what is safe" (`store.ts:11800-11802`).

### Further counterexamples

TLC finds each with the configuration named (`tlc -config MC_X.cfg` and the MC
module at the head of the list; where one names several properties, with
`-continue`).

`MC_TaskQueue`:

* `MC_CancelRace` (`CancellationStands`): a cancellation between `settleTaskRun`'s
  read and write is overwritten by `completed`, because `settleTask` checks only
  the lease; `store.ts:11854` has it "Request cancellation without racing an
  in-flight worker into a false success."
* `MC_LostAnswer` (`QueuedHasWake`): after one counted failure, a publication with a
  lost answer whose run is then exhausted is ignored by the callback
  (`taskRecovery.ts:44-46`); the republication is deduplicated onto the dead run
  and recorded.
* `MC_CrashedWorker` (`ExpiredRunIsResolved`): the step of a crashed worker is
  delivered again under the same worker id, which may not take over an expired
  lease; the loop ends on `running`, and no sweep looks at running generic tasks
  (compare `tests/task-runner.test.ts:22`).
* `MC_ControlRace` (`ControlledStateStands`): as in `MC_CancelRace`, a block or
  retry given while the slice ran is overwritten when the slice returns normally;
  the throwing path takes care of it.
* `MC_ScheduleStopped` (`QueuedHasWake`): `scheduleTask` keeps the id of an
  ended run; publication is then refused and the sweep looks away.
* `MC_RetryUnderLease` (`QueuedHasWake`): a lease left by an in-turn block
  outlives the retry; the new run's ten one-second iterations end first, and its
  handoff is refused because its own id is recorded.
* `MC_NoRunAt` (`OneWorkflowPerWake`): a task stored without runAt is
  published under the caller's clock, so a recovery creates a second workflow.

`MC_Outbox`:

* `MC_StaleListing` (`NotReplayed`): a recovery that listed a channel message as
  queued claims it after another call's send ended as ambiguous: `claimOutbox`
  refuses only delivered and leased records.  The message is sent again;
  `tests/channels.test.ts:605` and `channels/README.md:25-26` say it is not.
* `MC_IndexRace` (`IndexComplete`): the channels' listing reads a webhook's id as
  delivering, finds its record failed, and takes it off all three indexes, the
  one of failed records too (`store.ts:5437-5438`).  No recovery finds it again.
* `MC_ConfirmRace` (`ConfirmsAmbiguous`): a confirmation admitted while the
  record was ambiguous is written over a delivery that a stale recovery claimed.
* `MC_RetryRace` (`NotReplayed`): a retry admitted while the webhook's record
  was failed puts it back to queued after a recovery has claimed it: over a
  delivery in progress, or over its ambiguous outcome.
* `MC_StuckDelivery` (`Rests`): a channel message whose fifth attempt is
  interrupted stays delivering, because the attempt check comes before the claim
  that would make it ambiguous.  It takes stale listings to get to five.
* `MC_ExhaustedWebhook` (`FailedIsDefinite`): a webhook whose fifth attempt is
  interrupted is written as failed; "Only definitively failed webhook deliveries
  can be retried", says `sdkApi.ts:4899`.
* `MC_CrowdedListing` (`Rests`): webhooks whose attempts are used up stay
  indexed as failed; as many of them as the listing's limit hide all younger
  ones.

`MC_Mission`:

* `MC_MissionRaces` (`EndedStands`): a worker that was already past the
  check of the mission's status revives a cancelled one: the slice's own
  updates (`taskSlice.ts:85`, 154, 242, 453, 521) are a plain `updateMission` that
  looks at no status, although `recordMissionSlice` says late results leave an
  ended mission alone (`store.ts:11717-11719`), and `docs/mission-audit.md:65` that
  settlement cannot mutate a cancelled one.
* `MC_MissionRaces` (`PauseStands`): the sweep saw a timer due, the owner pauses,
  and the sweep's `resumeMissionAndSchedule`, which looks at the mission afresh,
  finds no wait and resumes a paused mission.
* `MC_MissionRaces` (`ClosedOverNoTask`): `finalizeMissionIfReady` completes the
  mission over a task that a reconciliation made after it had read them
  (`store.ts:11204-11207`).
* `MC_MissionStall` (`StoppedMissionEnds`): a reconciliation retries a task that has
  just ended badly, before its step is stopped.  The projection counts the task as
  unsettled and leaves the mission running; the next reconciliation cancels it,
  because its step does not run, and a cancelled task stops nothing.  The
  message at `store.ts:12013` has the mission enter "its terminal state" once the
  other tasks have settled.
* `MC_MissionCrashStall` (`RestsForGood`): a worker dies with a task that was asked
  to cancel.  The sweep quarantines only running tasks, nothing else ends it,
  and no closing succeeds beside it.
* `MC_MissionLateEvidence` (`LateEvidenceCloses`): a closing has verified in vain;
  evidence is recorded, and finds the mission still running; the closing then
  blocks it, with its evidence there and nobody to look again.

`MC_Spend`:

* `MC_SlowLedger` (`BudgetKept`): with one lapse of the lock, the late holder's write
  loses another's reservation and the budget is overspent.
* `MC_Treg` (`RateRefusalIsJustified`): Treg names the new minute but adds to the
  old count (`treg/spend.ts:114`), so after the first call of a minute the next may
  be refused over those of the minutes before; `README.md:1639` has it a limit per
  minute.
* `MC_Treg` (`TregChargesAreCovered`): a call whose answer was lost is settled at
  nothing (`treg/gateway.ts:1085`), though it may have been charged.

`MC_Reminder`:

* `MC_ReminderPause` (`PauseStands`): a delivery at work writes its status over a
  pause; "Pausing is authoritative even if an older QStash delivery is still in
  flight", says `README.md:764-765`.
* `MC_ReminderPause` (`SentOnce`): a reminder paused and resumed before its time has
  two runs with an attempt each, and both deliver it.
* `MC_ReminderRedelivered` (`SentOncePerAttempt`): a second delivery of one step
  finds no done key, the first completes and its claim is released, and the
  second takes the claim; the comment at `workflows.ts:137-139` rules that out.
* `MC_ReminderCrash` (`ScheduledHasRun`): a server dies with the claim; the run's
  retries are skipped while it lasts, the run ends, and the reminder stays
  scheduled with nothing to come.
* `MC_ReminderStale` (`ScheduledIsComing`): the write of one reminder restores the
  status that another had when the list was read, "scheduled".
* `MC_Reminders` with "hurry" among its commands (`ScheduledIsComing`): a request to
  run a scheduled reminder now fails to trigger its run, and writes back the
  "scheduled" it found over the failure that the first run came to.

One more needs no run: `index.ts:763-764` says of webhooks that they are "sent
immediately on enqueue; this is only crash recovery", but `notifyWebhooks` only
enqueues and nothing calls `deliverSdkWebhook` except the ten-minute recovery
(hence `Notify` starts no call).

## 8. Proofs

`tlapm` proves, for all values of the constants allowed by the assumptions of each
module (`RecordAssumption` and `QueueAssumption`, `OutboxAssumption`,
`PlanAssumption` and `CallAssumption`, `SpendAssumption`, `ReminderAssumption`):

| Theorem | States |
|---|---|
| `TaskQueueProofs!TypeCorrect` | `Spec => []TypeOK` |
| `TaskQueueProofs!LeaseProtects` | `Spec => OwnedRunIsUndisturbed` |
| `TaskFailureProofs!FailureJustified` | `OwnerCancelsAndRetries => (Spec => FailsOnlyWhenUsedUp)` |
| `TaskFailureProofs!ContractKept` | `OwnerCancelsAndRetries => (Spec => KeepsContract)` |
| `TaskWakeProofs!NoQueuedTaskIsStranded` | `GentleOwner /\ CleanPublication => (Spec => []QueuedHasWake)` |
| `TaskFreshProofs!FailuresAreCountedOnce` | `OwnerCancelsAndRetries => (Spec => []DeliveryFailuresCountedOnce)` |
| `TaskWakeProofs!WakesAreBounded` | `LeftAlone` gives `Spec /\ NothingIsReplaced => []WakesArePaidFor` |
| `OutboxProofs!OutboxTypes` | `Spec => []TypeOK` |
| `OutboxProofs!LeaseExcludes` | `NoConfirmations => (TimelySpec => []OneSender)` |
| `OutboxProofs!DeliveryIsFinal` | `NoConfirmations => (TimelySpec => DeliveredStands)` |
| `OutboxProofs!AttemptsStayLimited` | `NoConfirmations /\ NoRetries`, finitely many servers: `TimelySpec => []AttemptsAreLimited` |
| `MissionProofs!TypeCorrect` | `Spec => []TypeOK` |
| `MissionProofs!RecordInvariant` | `Spec => []RecordInv(m)` |
| `MissionProofs!StepsRunInOrder` | `Spec => []DependencyOrder` |
| `MissionProofs!CompletedWorkStays` | `Spec => CompletedWorkIsKept` |
| `MissionProofs!StepsAreCountedOnce` | `Spec => []StepsCountedOnce` |
| `MissionProofs!MissionsAreEarned` | `Spec => []CompletionIsEarned` |
| `SpendProofs!TypeCorrect` | `Spec => []TypeOK` |
| `SpendProofs!RateIsKept` | `MaxLapses = 0` gives `Spec => []RateKept` |
| `SpendProofs!BudgetIsKept` | `MaxLapses = 0` gives `Spec => []BudgetKept` |
| `SpendProofs!RunsAreBookedOnce` | `MaxLapses = 0` gives `Spec => []NothingBookedTwice` |
| `SpendProofs!MonidChargesAreCovered` | `MaxLapses = 0` gives `Spec => []ChargesAreCovered` |
| `ReminderProofs!TypeCorrect` | `Spec => []TypeOK` |
| `ReminderProofs!AttemptReachesOnce` | `"redelivery" \notin Faults => (Spec => []SentOncePerAttempt)` |
| `ReminderProofs!OneReminderStaysComing` | without "redelivery" and "hurry", for one reminder, `Spec => []ScheduledIsComing` |

`TaskQueueInductive` holds the inductive invariants of the task queue; those of the
other modules stand at the head of their proofs.

* **Types of the queue.**  `TypeOK` is not inductive: that `PubSend` writes a legal
  run needs that a claimed call has a key.  `TypeInv` adds `CallsKnowTheirRun`.
  `TaskQueueProofs` shows first, once for each record operation, that it keeps the
  record's type, and then has one lemma per group of actions.
* **The fence.**  From `TypeInv`, action by action: while a lease is live
  `CanClaim` and the callback's `Unclaimed` are false, publication touches
  neither status nor runAt of a running task, and a settlement by another
  worker fails `HoldsLease`.
* **Failure.**  `DecisionStands` strengthens the types: a worker about to write
  `failed`, whose lease is still on the record, sees the attempts used up.  It is
  inductive because only a claim changes `attempt` upwards, and a claim changes
  the holder; a retry resets attempts but only of a task at rest, which has no
  lease (`RestHasNoLease`).  That last fact fails once the task's own turn may
  block it, hence `OwnerCancelsAndRetries`.
* **The contract.**  The refinement is the identity on three fields, so each action
  is shown to be an action of `TaskContract` or to leave the three alone.
  `Finish` needs `DecisionStands`; `Miss` needs that failures stay below their
  limit while the task is queued (`DeliveriesLeft`), and that a counted run is one
  of a task nobody has.
* **The wake.**  `WakeInv` says that a queued task's runAt is its own: no run
  of that key has been taken up, ended or been rejected, a recorded id is this
  key's, a publisher that holds the marker publishes this key and not too early,
  and a failure of that run is still to be counted (`MarkerIsOwn`,
  `RunIsUntaken`, `FailureIsExpected`); `FreshIsUnused` lets each requeue start
  over.  `TaskFreshProofs` shows that requeues establish `OwnRunAhead`;
  `TaskWakeProofs` that all other steps preserve it.  The hypotheses are the
  negations of what section 7 found: without `GentleOwner`, `MC_ScheduleStopped`
  and `MC_RetryUnderLease` are counterexamples, and a task without runAt has no key
  of its own (`MC_NoRunAt`); without `CleanPublication`, `MC_LostAnswer` is one.
* **The count.**  The record remembers one failed run (`lastFailed`) to tell whether a
  failure was counted, and yet no run is counted twice.  `CountedInv` says why: a
  counted run is behind the task for good, neither the one it waits for nor the
  one its marker is about (`CountedIsLeftBehind`); a callback that finds no marker
  counts its run only if `lastFailed = 0`, and then none is counted yet; the runs of publications still
  under way are not counted (`CallOfUncounted`), and a run has one callback at
  work (`OneCallPerRun`: the run is over once QStash has taken its failure up).
  The lemmas are in `TaskFreshProofs`, with those on requeues, because a requeue
  is where a run is left behind.
* **The wakes.**  A runAt value is used for each requeue.  `RepublicationInv` keeps an
  account: `nextRunAt` and the runs whose failure may yet be counted (`ToCount`)
  are together at most two more than the retries that the attempts allow and the
  faults so far.  A retry is paid by the attempt that the claim used up, and a
  counted failure by the fault that ended its run, so the account needs
  `CountedInv`.  `LeftAlone` leaves out what may be repeated without limit by
  intention: the owner's retries, and slices that ask to be continued.
  `NothingIsReplaced` leaves out a publisher whose claim
  overwrites a publication that was missing when it read the record, and has been
  made and is overdue when it writes: two publishers that are always that late
  replace each other's for ever, and each replaced run still ends, and counts
  (hazard at `store.ts:4744`; the fair specification excludes the same with
  `PublishedInTime`).  TLC finds `NothingIsReplaced` true of `TaskLiveness`: it has one
  publisher, and a task that is retried once does not fill the loop of its run,
  whose handoff would publish beside the sweep.
* **The outbox.**  `TypeInv` adds to the types that an update has its patch.
  `LeaseInv` adds what a lease gives a channel message's sender in time: from the
  claim to the end of its update the record is delivering and leased (`LeaseOK`)
  and no other call is at that point of it (`UniqueOK`); its patch is an outcome
  (`PatchOK`); a receipt is only on a delivered record, and not on the one a
  sender read (`ReceiptOK`); a status callback read, and writes over, a delivered
  record (`EditorOK`).  So nobody's update falls between another's read and
  write.  `QuietStep` and `WebhookStep` deal once with all steps that leave the
  channel messages alone.  `NoConfirmations` excludes what `MC_ConfirmRace` shows, a
  confirmation that is written over a live lease.
* **The attempts.**  `CountInv` adds to `LeaseInv` an account of the attempts.  As long
  as a record has attempts left (`Unspent`), its lease keeps every other call from
  it, a webhook's too (`HoldOK`, `AloneOK`), because exhaustion comes only after;
  so no update puts a spent record back below the limit (`SeenOK`).  Once it is
  spent, each call that was begun with an older listing is a chance of one more
  attempt (`Chances`), its claim uses it up, and there are at most as many as
  servers beside the one that spent it (`LimitOK`, `WriteOK`).  `NoRetries`,
  because a retry starts the count over, also under a call that has it listed.
* **The mission's types.**  `TypeInv` adds where the calls are (`CallsOK`): a call parks a
  task only after a turn that waits for a timer or an event, and a worker at work
  has a step.  That no step is counted beyond the plan comes from `Counted`.
* **The mission record.**  `RecordInv` speaks of the record alone: types, a plan
  whose dependencies precede (`Ordered`: also for steps that are only listed as
  active or current, because a later operation starts those without looking),
  `Counted`, `Judged` (a strict mission is verified only with its evidence) and
  `Earned`.  Each operation preserves it under its own guard, so it holds however
  the calls of `Mission` interleave, which is the point: the actions need no
  fact about a call but which operation it applies.  `Keeps` is shown beside it
  for the action property.
* **The rate.**  `RateInv`: who is between the check and the release holds the lock,
  what it read is what is stored, the stored window is no later than the minute,
  and its count is at least what that minute has seen.  A late holder would break
  the first, hence the assumption.
* **The books.**  The three properties compare sums over the runs.  `BooksInv` has, for
  the day and for the mission, two functions from runs to amounts as witnesses:
  what is held and what is booked for each (`Balanced`).  The ledger's `reserved`
  is the sum of the first, `reserved + spent` of the second, an open run holds its
  estimate, no run has more booked than its reservation or its cost, and what it was
  charged up to its reservation is covered by what is booked.  `BudgetKept` is part
  of the invariant: a reservation is made where it fits, and what a settlement books
  beyond its own is the run's `Excess`.  The steps
  change one run's amounts, and `TotalChanges` and `TotalGrows`, about sums of
  functions that differ at one run or are ordered, do the rest; they are
  proved by induction over the number of runs (`UpToTheLast`), as set induction
  without an operator parameter.  `OneCall`, `Informed` and `RunsFit` say that a
  run is in one caller's hands, or in Monid's look-up beside it, and what those know
  of its charge.  The hypothesis is the rate's: `MC_SlowLedger` breaks the budget with
  one lapse.
* **Reminders.**  `TypeInv` adds to the types that a call in the midst of a write has
  something to write; that no run is claimed before it begins needs `StartInv`, that
  whatever a call is at has begun.  `AttemptInv`: a run has at most one server at it (`Alone`,
  which is where a second delivery comes in); whoever may still send holds a claim
  and its run has not been sent (`Own`); and a run that was sent has its claim held
  or done (`Counted`), so that no later delivery of it gets past the check or the
  claim.
* **What is coming.**  `ComingInv` makes `ScheduledIsComing` inductive by saying what is
  promised: a scheduled reminder has a run that is not over, or was sent, or died
  with its claim, or a server whose list of things left to do keeps the
  reminder (`ServerOK`), or a request of the owner that will trigger a run or
  write another status (`OwnerOK`, `Kept`).  An update writes the whole list back,
  so `Undisturbed` asks that what was read of the *other* reminders still stands.
  The code does not see to it (`MC_ReminderStale`), so the theorem is about one
  reminder, of which there is nothing to ask, as the run `Reminders` is.  A second
  delivery at work ends the argument of `AttemptInv`, on which this one rests, and
  "hurry" is the counterexample of section 7.

Model-checked only:

* `NotReplayed`: it holds while one server delivers, and the overlaps of the code break
  it, so there is no theorem for any number of servers;
* liveness, `QueuedIsTaken`, `Settles`, `Rests`, `RestsForGood` and
  `CancelledReleasesTasks`: fairness and ENABLED are outside what TLAPS proves;
* what a passing run shows outside the theorem's hypotheses: `QueuedHasWake` where exhausted
  deliveries meet failed publications (`TaskPublication` and `TaskWorkers` check it with
  two faults and one, `MC_LostAnswer` shows it broken with three).

## 9. Mutants

A definition whose name ends in `_Bug` is the next definition with a plausible
mistake in it.  Nothing uses it; put in place of the original, TLC finds the
property violated in the run named.

| Mistake | Noticed by |
|---|---|
| `Settled_Bug`: a requeue keeps the id of the run that made it | `QueuedHasWake` (`TaskPublication`, `TaskWorkers`) |
| `DeliveryRetried_Bug`: the counted run is not remembered | `DeliveryFailuresCountedOnce` (`TaskPublication`) |
| `CanClaim_Bug`: a live lease does not stop a claim | `OwnedRunIsUndisturbed` (`TaskWorkers`) |
| `Decided_Bug`: one attempt too few | `FailsOnlyWhenUsedUp` (`TaskWorkers`) |
| `CanRetry_Bug`: a completed task may be retried | `KeepsContract` (`TaskWorkers`) |
| `Retried_Bug`: a retry keeps the count of failed deliveries and the run they were of | `DeliveryFailuresCountedOnce` (`TaskCommands`) |
| `AfterStep_Bug`: one iteration too many | `TypeOK` (`TaskCommands`) |
| `CallbackApplies_Bug`: the callback does not see that the task was claimed | `OwnedRunIsUndisturbed` (`TaskCommands`) |
| `Attempted_Bug`: a claim does not use up an attempt | `WakesArePaidFor` (`TaskLiveness`) |
| `NeedsPublication_Bug`: the sweep trusts an abandoned claim | `QueuedIsTaken` (`TaskLiveness`) |
| `CanRenew_Bug`: a worker asked to stop cannot renew | `Settles` (`TaskLiveness`) |
| `ClaimableLeased_Bug`: a live lease does not stop a second claim | `OneSender` (`OutboxOverlap`) |
| `ClaimableDelivered_Bug`: nor does a delivery | `DeliveredStands` (`OutboxOverlap`) |
| `UsedUp_Bug`: `>` for `>=` at the attempt limit | `AttemptsAreLimited` (`OutboxOverlap`) |
| `Indexed_Bug`: every status is indexed | `TypeOK` (`OutboxDelivery`) |
| `ClaimableExpired_Bug`: an interrupted send is taken up again | `NotReplayed` (`OutboxDelivery`) |
| `Statuses_Bug`: recovery does not look at deliveries in progress | `Rests` (`OutboxDelivery`) |
| `Ready_Bug`: any one dependency will do | `DependencyOrder` (`MissionPlan`) |
| `CanCompleteStep_Bug`: a repeated completion counts again | `StepsCountedOnce` (`MissionPlan`), `TypeOK` (`MissionCloseout`) |
| `CanComplete_Bug`: completion looks at the verification alone | `CompletionIsEarned` (`MissionPlan`) |
| `Replanned_Bug`: a replan starts completed steps again | `CompletedWorkIsKept` (`MissionPlan`) |
| `MissionVerified_Bug`: verification looks at the steps alone | `CompletionIsEarned` (`MissionCloseout`) |
| `SliceRecorded_Bug`: the slice that uses up the budget does not block | `RestsForGood` (`MissionLiveness`) |
| `NotGoing_Bug`: a cancelled mission's task is put back for later | `CancelledReleasesTasks` (`MissionLiveness`) |
| `Settled_Bug` (of `Spend`): the estimate is taken out of what was spent | `TypeOK` (`Spend`) |
| `Acquire_Bug`: the lock is taken from whoever holds it | `BudgetKept` (`Spend`) |
| `RateFull_Bug`: `>` for `>=` at the rate limit | `RateKept` (`Spend`) |
| `Settleable_Bug`: a reservation is settled again | `NothingBookedTwice` (`Spend`) |
| `MonidIsSilent_Bug`: a call without an answer is settled at nothing | `ChargesAreCovered` (`Spend`) |
| `ClaimKey_Bug`: a delivery is known by its reminder, not its attempt | `TypeOK` (`Reminders`) |
| `Claim_Bug`: the claim is set whoever has it | `SentOncePerAttempt` (`Reminders`) |
| `Plan_Bug`: a poll is recorded but its run not triggered | `ScheduledIsComing` (`Reminders`) |

## 10. Not modelled

Everything below the plan's line in section 1 that is provider I/O, formatting,
retrieval or model output, and the components named in section 2 as next.
Within what is modelled:

* **Task queue.**  `requeueExpiredTask` and `updateTask` (called for web
  reconciliation and missions), the composer after a settlement,
  the distributed lease of the sweep (two sweeps at once are allowed, which is
  more than it permits), the three-try limit of a compare-and-set (a caller that
  gives up behaves like one that failed before it), and a second delivery of the
  failure workflow's one step while the first is still running.
* **Outbox.**  The Postgres backend (the same compare-and-set promises), the expiry
  of records after thirty days, the one-time migration of records into the index,
  the owner's listings, targets and attachments, and what a message says.
* **Missions.**  Approvals and waits for human input; event waits without a
  deadline and malformed waits; the duration, tool and cost budgets and their
  extension; the evidence that a single step requires, and its repair from
  external receipts; the leases of mission and step, and the blocks that follow
  their loss; work schedules; a second run of a task whose lease lapsed under a
  live worker, and publication, which `TaskQueue` has; more than one mission tool
  in a turn; and the sweep's passing over a mission whose tasks were all published
  lately.
* **Spend guards.**  A day that ends between the check and the lock; stopping a
  Monid run, balances and listings; the wording of receipts; what a provider
  charges for an answer that names no cost and is not of a completed call.
* **Reminders.**  A server that stops in a request of the owner (a resumption then
  leaves the reminder scheduled without a run); an `updateReminder` or
  `completeDelivery` that fails; a missing
  channel adapter and reminders shown on the dashboard only; the limit on their
  number; claims that expire.  Jobs share the delivery claims and have occurrence
  records beside them, which are not modelled.
