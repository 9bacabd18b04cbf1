--------------------------- MODULE TaskQueueInductive ---------------------------
(***************************************************************************)
(* The inductive invariants from which TaskQueue's safety properties       *)
(* follow, for every value of the constants.                               *)
(***************************************************************************)
EXTENDS TaskQueue

-----------------------------------------------------------------------------
(* What TypeOK needs to be inductive: a call past its first step knows the *)
(* run or the decision it works on.                                        *)

CallsKnowTheirRun ==
  /\ \A p \in Publisher :
       /\ pub[p].pc \in {"claimed", "accepted", "rejected"} => pub[p].key \in RunAt
       /\ pub[p].pc = "counting" => pub[p].for \in RunAt
  /\ \A w \in Worker :
       /\ wk[w].pc # "idle" => wk[w].run \in RunAt
       /\ wk[w].pc = "settling" => wk[w].result \in {"cancelled", "blocked", "failed"}
       /\ wk[w].pc = "writing" => wk[w].result \in Decision

TypeInv == TypeOK /\ CallsKnowTheirRun

-----------------------------------------------------------------------------
(* Why a queued task has a wake.  A queued task's runAt is its own: no run *)
(* of that key has been taken up, ended or been refused, and the failure   *)
(* of that run, if it failed, is still to be counted.                      *)

\* The environment the argument needs: the owner cancels and retries, and QStash
\* either never gives up on a run or never fails a publication.
OwnerCancelsAndRetries == Commands \subseteq {"cancel", "retry"}
GentleOwner == OwnerCancelsAndRetries /\ CreatedWithRunAt
CleanPublication ==
  "exhausted" \notin FaultKinds \/ FaultKinds \cap {"lost answer", "rejected"} = {}

FreshIsUnused ==
  /\ task.runAt < nextRunAt /\ task.lastFailed < nextRunAt
  /\ \A p \in Publisher : pub[p].key < nextRunAt /\ pub[p].for < nextRunAt
  /\ \A w \in Worker : wk[w].run < nextRunAt
  /\ \A k \in RunAt : k >= nextRunAt => wf[k].st = "none"

RestHasNoLease ==
  task.status \notin {"running", "cancel_requested"} => task.lease = NoLease

\* The marker of a queued task is about its own runAt.
MarkerIsOwn ==
  /\ task.runAt \in RunAt
  /\ task.lastFailed # task.runAt
  /\ task.workflow.kind = "published" =>
       task.workflow = Published(task.runAt) /\ wf[task.runAt].st # "none"
  /\ \A p \in Publisher :
       /\ pub[p].pc \in {"claimed", "accepted"} /\ task.workflow = Pending(p)
            => pub[p].key = task.runAt
       /\ pub[p].pc = "claimed" /\ pub[p].key = task.runAt
            => pub[p].wait >= task.due

\* Its run has not been taken up, and does not come early.
RunIsUntaken ==
  LET r == wf[task.runAt] IN
  /\ r.st \in {"none", "sleep", "step", "failed"}
  /\ r.st = "sleep" => r.wait >= task.due
  /\ r.st \in {"step", "failed"} => task.due = 0
  /\ \A w \in Worker : wk[w].run # task.runAt
  /\ \A p \in Publisher :
       pub[p].for = task.runAt => pub[p].pc = "counting" /\ r.st = "failed"

\* If its run may fail, the record shows that the run may exist.
FailureIsExpected ==
  "exhausted" \in FaultKinds /\ task.workflow = NoRun
    =>   /\ wf[task.runAt].st = "none"
         /\ \A p \in Publisher : pub[p].pc = "claimed" => pub[p].key # task.runAt

NoFailureUnlessExhausted ==
  "exhausted" \notin FaultKinds => \A k \in RunAt : wf[k].st # "failed"
NoRejectionUnlessFaulty ==
  "exhausted" \in FaultKinds => \A p \in Publisher : pub[p].pc # "rejected"
AcceptedRunExists ==
  \A p \in Publisher : pub[p].pc = "accepted" => wf[pub[p].key].st # "none"

OwnRunAhead == MarkerIsOwn /\ RunIsUntaken /\ FailureIsExpected

WakeInv ==
  /\ TypeInv
  /\ FreshIsUnused
  /\ RestHasNoLease
  /\ NoFailureUnlessExhausted /\ NoRejectionUnlessFaulty /\ AcceptedRunExists
  /\ task.status = "queued" => OwnRunAhead

-----------------------------------------------------------------------------
(* Why a decision to fail is still right when it is written: attempt does  *)
(* not move under the lease of the worker that decided.                    *)

DecisionStands ==
  \A w \in Worker :
    wk[w].pc = "writing" /\ wk[w].result = "failed" /\ task.lease.holder = w
      => task.attempt = MaxAttempts

\* A task has deliveries left until the last one fails it.
DeliveriesLeft == task.status \notin {"failed", "cancelled"} => task.failures < 3

-----------------------------------------------------------------------------
(* Why a run's failure is counted once.  A counted run is not the one a    *)
(* queued task waits for, nor the one its marker is about; the marker is   *)
(* absent without a run counted before it only while none is counted; and  *)
(* at most one callback of a run is at work.                               *)

CountedIsLeftBehind ==
  /\ \A k \in counted : k < nextRunAt /\ task.workflow # Published(k)
  /\ task.status = "queued" => task.runAt \notin counted
  /\ task.lastFailed = 0 => counted = {}

CallOfUncounted(p) ==
  /\ pub[p].pc \in {"claimed", "accepted"} /\ task.workflow = Pending(p)
       => pub[p].key \notin counted
  /\ pub[p].pc = "counting" => pub[p].for \notin counted

OneCallPerRun ==
  \A p, q \in Publisher : pub[p].for # 0 /\ pub[q].for = pub[p].for => q = p

CountedInv ==
  /\ TypeInv /\ FreshIsUnused /\ RestHasNoLease /\ DeliveriesLeft
  /\ CountedIsLeftBehind /\ OneCallPerRun
  /\ \A p \in Publisher : CallOfUncounted(p)
  /\ DeliveryFailuresCountedOnce

-----------------------------------------------------------------------------
(* Why a task that nobody touches is not republished for ever: a runAt     *)
(* value is used for each retry, of which an attempt is allowed one, and   *)
(* for each counted failure, which one fault pays for.                     *)

\* The owner at most cancels, and no slice asks to be continued.
LeftAlone == CreatedWithRunAt /\ Commands \subseteq {"cancel"} /\ Outcomes \cap Waits = {}

\* No call finds the publication that was missing made meanwhile, and overdue.
NothingIsReplaced == [][\A p \in Publisher : PubClaim(p) => ~OverduePublished(task)]_vars

\* The runs whose failure may still be counted: by a callback that is at work, or
\* by one that has yet to read the record.
StillToCount(k) ==
  \/ \E p \in Publisher : pub[p].pc = "counting" /\ pub[p].for = k
  \/ /\ wf[k].st = "failed"
     /\ \/ task.lastFailed = 0 \/ task.runAt = k \/ task.workflow = Published(k)
        \/ \E p \in Publisher :
             /\ pub[p].pc \in {"claimed", "accepted"} /\ pub[p].key = k
             /\ task.workflow = Pending(p)
ToCount == {k \in RunAt : StillToCount(k)}

\* How many retries the attempts made so far allow.
RetriesAllowed ==
  IF task.status \in {"running", "cancel_requested"} \/ task.attempt = MaxAttempts
    THEN task.attempt - 1
    ELSE task.attempt

RetryStands ==
  \A w \in Worker :
    wk[w].pc = "writing" /\ wk[w].result \in Requeues
      => /\ wk[w].result = "retry"
         /\ task.lease.holder = w => task.attempt < MaxAttempts

RepublicationInv ==
  /\ CountedInv /\ RetryStands
  /\ ~task.waiting /\ (task.status = "queued" => task.runAt # 0)
  /\ nextRunAt + Cardinality(ToCount) <= 2 + RetriesAllowed + faults
=============================================================================
