-------------------------------- MODULE Mission --------------------------------
(***************************************************************************)
(* One mission, the durable tasks of its steps and everyone who acts on    *)
(* them: the workers that execute a task's slice, and the owner's surfaces *)
(* and the recovery sweep, each a call of a driver.                        *)
(*                                                                         *)
(*   m     the mission record                                              *)
(*   task  the durable task of each step (its id is a hash of both ids)    *)
(*   call  what each worker, owner's request and the sweep is doing        *)
(*                                                                         *)
(* The record operations are atomic (MissionRecord); mission and tasks are *)
(* separate records, and every call reads one, then writes the other.      *)
(*                                                                         *)
(* A task behaves here as TaskContract says: a queued task is taken by a   *)
(* worker sooner or later (TaskQueue's QueuedIsTaken), however its         *)
(* publication fares, and the worker's settlement puts it back or ends it. *)
(* A dead worker's task stays as it is, its lease lapsed.                  *)
(***************************************************************************)
EXTENDS MissionRecord

CONSTANTS
  Worker,        \* who executes slices
  Owner,         \* requests of the owner: chat tools, API routes, the console
  Sweeper,       \* the recovery sweep, the only holder of its lease
  Plans,         \* the plans an owner or a worker may give
  FirstPlan,     \* the plan of createMission
  MaxAttempts,   \* the tasks' maxAttempts
  MaxClaims,     \* bound: the attempts counted when a task is taken
  Commands,      \* what the owner may do besides starting the mission
  Turns,         \* how a worker's turn may end
  Tools,         \* which mission tools a turn may use, one at most (bound)
  MaxCrashes     \* bound: how many workers die

ASSUME CallAssumption ==
  /\ Worker \cap Owner = {} /\ Sweeper \notin Worker \cup Owner
  /\ FirstPlan \in Plans /\ Plans \subseteq Plan
  /\ \A p \in Plans : ValidPlan(p, {}) /\ \A s \in Step \ p.steps : p.deps[s] = {}
  /\ MaxAttempts \in Nat \ {0} /\ MaxClaims \in Nat /\ MaxCrashes \in Nat
  /\ Commands \subseteq {"pause", "cancel", "resume", "replan", "evidence",
                         "verify", "complete step", "repair"}
  /\ Turns \subseteq {"progress", "nothing", "uncertain", "timer", "event", "throw"}
  /\ Tools \subseteq {"complete step", "replan", "evidence", "pause", "block"}

VARIABLES m, task, call, crashes

vars == <<m, task, call, crashes>>
Driver == Owner \cup {Sweeper}
Caller == Worker \cup Driver

-----------------------------------------------------------------------------
TaskStatus == {"none", "queued", "running", "cancel_requested", "blocked",
               "failed", "completed", "cancelled"}
Class == {"none", "no_progress", "uncertain"}
MissionTask ==
  [status : TaskStatus,
   attempt : Nat,
   wake : {"none", "parked", "due"},  \* queued by a wait, until a time or past it
   class : Class,                     \* lastFailureClass
   lapsed : BOOLEAN,                  \* its worker died and its lease expired
   repaired : BOOLEAN]                \* automaticRepairCount = 1
NoTask == [status |-> "none", attempt |-> 0, wake |-> "none", class |-> "none",
           lapsed |-> FALSE, repaired |-> FALSE]
NewTask == [NoTask EXCEPT !.status = "queued"]

InHand == {"running", "cancel_requested"}
Settled == {"none", "completed", "cancelled"}
AtRest == Settled \cup {"blocked", "failed"}

\* cancelTask and retryTask
Dropped(t) == [t EXCEPT !.status = IF @ \in InHand THEN "cancel_requested" ELSE "cancelled"]
DropTasks(S) ==
  [s \in Step |-> IF s \in S /\ task[s].status \notin Settled
                    THEN Dropped(task[s]) ELSE task[s]]
CanRetryTask(t) == t.status \in {"blocked", "failed", "cancelled"}
Retried(t) == [t EXCEPT !.status = "queued", !.attempt = 0, !.class = "none",
                        !.wake = "none"]

\* A call: where it is; the step it works for; the steps it read about (those
\* that run, those to schedule, the one to wait for); where it goes on after
\* looking whether the mission can be closed, and after the whole
\* reconciliation; and what it will report of the slice.
Point == {"idle",
          "begin", "wake", "lease", "blind", "turn", "account", "own", "block",
          "park", "recheck", "handoff", "settle",
          "close", "verify", "refuse", "complete", "clear", "plan", "launch",
          "project", "stop", "quarantine", "quarantined", "drop", "resume",
          "call up", "closeout", "reverify", "reopen"}
Outcome == {"none", "completed", "cancelled", "blocked", "failed", "queued",
            "waiting", "progress"}
Call ==
  [pc : Point, step : Step \cup {None}, seen : SUBSET Step, then : Point,
   back : Point, out : Outcome, class : Class, turn : Turns \cup {"none"},
   flag : BOOLEAN]    \* in a turn: it used a tool; later: other tasks go on
Idle == [pc |-> "idle", step |-> None, seen |-> {}, then |-> "idle",
         back |-> "idle", out |-> "none", class |-> "none", turn |-> "none",
         flag |-> FALSE]

TypeOK ==
  /\ m \in MissionRecordType
  /\ task \in [Step -> MissionTask]
  /\ call \in [Caller -> Call]
  /\ crashes \in 0..MaxCrashes

Init ==
  /\ m = NewMission(FirstPlan)
  /\ task = [s \in Step |-> NoTask]
  /\ call = [c \in Caller |-> Idle]
  /\ crashes = 0

-----------------------------------------------------------------------------
(* How a call moves on.                                                    *)

At(c, pc) == call[c].pc = pc
Set(c, x) == call' = [call EXCEPT ![c] = IF x.pc = "idle" THEN Idle ELSE x]
Go(c, pc) == Set(c, [call[c] EXCEPT !.pc = pc])
Report(c, outcome) == Set(c, [call[c] EXCEPT !.pc = "settle", !.out = outcome])
Mine(c) == IF c \in Worker THEN {call[c].step} ELSE {}

\* Start to reconcile, or only to close, and return to back with an outcome.
Reconcile(c, back, outcome) ==
  Set(c, [call[c] EXCEPT !.pc = "close", !.then = "clear", !.back = back,
                         !.out = outcome])
CloseThen(c, then) == Set(c, [call[c] EXCEPT !.pc = "close", !.then = then])
Return(c) ==
  Set(c, [call[c] EXCEPT !.pc = call[c].back, !.seen = {}, !.then = "idle",
                         !.back = "idle"])

\* finalizeMissionIfReady returned the record r: a reconciliation ends unless it
\* still runs, and keeps what it says of the running steps.
Closed(c, r) ==
  LET x == call[c] IN
  IF x.then \in {"clear", "plan"} /\ r.status # "running" THEN Return(c)
  ELSE Set(c, [x EXCEPT !.pc = x.then, !.then = "idle",
                        !.seen = IF x.then = "clear" THEN Running(r) ELSE @])

-----------------------------------------------------------------------------
(* Closing: finalizeMissionIfReady.                                        *)

Closable ==
  /\ m.status = "running" /\ AllDone(m)
  /\ \A s \in Step : task[s].status \in Settled

Close(c) ==
  /\ At(c, "close")
  /\ IF Closable THEN Go(c, IF Strict THEN "verify" ELSE "complete")
                 ELSE Closed(c, m)
  /\ UNCHANGED <<m, task, crashes>>

Verify(c) ==
  /\ At(c, "verify")
  /\ m' = IF CanVerify(m) THEN MissionVerified(m) ELSE m
  /\ IF m'.verified THEN Go(c, "complete")
     ELSE IF m'.status \in {"blocked", "failed"} THEN Closed(c, m')
     ELSE Go(c, "refuse")
  /\ UNCHANGED <<task, crashes>>

\* A refused block leaves the caller with the record it read, a running one.
Refuse(c) ==
  /\ At(c, "refuse")
  /\ m' = IF CanBlock(m) THEN MissionBlocked(m) ELSE m
  /\ Closed(c, IF CanBlock(m) THEN m' ELSE [m EXCEPT !.status = "running"])
  /\ UNCHANGED <<task, crashes>>

CompleteIt(c) ==
  /\ At(c, "complete")
  /\ m' = IF CanComplete(m) THEN MissionCompleted(m) ELSE m
  /\ Closed(c, m')
  /\ UNCHANGED <<task, crashes>>

-----------------------------------------------------------------------------
(* Reconciliation: close, clear the tasks of steps that do not run, close, *)
(* then schedule the tasks of those that do.                               *)

\* cancelTask of each, preserving the caller's own task
Clear(c) ==
  /\ At(c, "clear")
  /\ task' = DropTasks(Step \ (call[c].seen \cup Mine(c)))
  /\ CloseThen(c, "plan")
  /\ UNCHANGED <<m, crashes>>

\* scheduleMissionSteps reads mission and tasks ...
ToSchedule ==
  {s \in Running(m) : task[s].status \in {"none", "failed", "cancelled", "blocked"}}
Schedule(c) ==
  /\ At(c, "plan")
  /\ IF m.status \in {"running", "waiting"} /\ ToSchedule # {}
       THEN Set(c, [call[c] EXCEPT !.pc = "launch", !.seen = ToSchedule])
       ELSE Return(c)
  /\ UNCHANGED <<m, task, crashes>>

\* ... and creates or retries them one by one, without looking at the mission.
Launch(c) ==
  LET s == First(call[c].seen)
      left == call[c].seen \ {s}
  IN /\ At(c, "launch")
     /\ task' = [task EXCEPT ![s] = IF @.status = "none" THEN NewTask
                                    ELSE IF CanRetryTask(@) THEN Retried(@) ELSE @]
     /\ IF left = {} THEN Return(c) ELSE Set(c, [call[c] EXCEPT !.seen = left])
     /\ UNCHANGED <<m, crashes>>

Reconciles(c) ==
  \/ Close(c) \/ Verify(c) \/ Refuse(c) \/ CompleteIt(c)
  \/ Clear(c) \/ Schedule(c) \/ Launch(c)

-----------------------------------------------------------------------------
(* A task that came to rest without success stops its step, and pauseMission *)
(* and cancelMission are followed by cancelMissionTasks.                   *)

Project(c) ==
  /\ At(c, "project")
  /\ Set(c, [call[c] EXCEPT !.pc = "stop",
                            !.flag = \E s \in Step : task[s].status \notin AtRest])
  /\ UNCHANGED <<m, task, crashes>>

StopStep(c) ==
  LET x == call[c] IN
  /\ At(c, "stop")
  /\ m' = IF CanStopStep(m, x.step) THEN StepStopped(m, x.step, x.out, x.flag) ELSE m
  /\ Go(c, IF c \in Worker THEN "idle" ELSE "quarantined")
  /\ UNCHANGED <<task, crashes>>

Drop(c) ==
  /\ At(c, "drop")
  /\ task' = DropTasks(Step)
  /\ Return(c)
  /\ UNCHANGED <<m, crashes>>

\* finalizeMissionCloseout: a mission blocked for want of evidence is verified
\* again, reopened and closed.
Closeout(c) ==
  /\ At(c, "closeout")
  /\ IF AllDone(m) /\ m.status = "running" THEN CloseThen(c, call[c].back)
     ELSE IF AllDone(m) /\ m.status = "blocked"
       THEN Go(c, IF Strict THEN "reverify" ELSE "reopen")
     ELSE Return(c)
  /\ UNCHANGED <<m, task, crashes>>

Reverify(c) ==
  /\ At(c, "reverify")
  /\ m' = IF CanVerify(m) THEN MissionVerified(m) ELSE m
  /\ IF m'.verified THEN Go(c, "reopen") ELSE Return(c)
  /\ UNCHANGED <<task, crashes>>

Reopen(c) ==
  /\ At(c, "reopen")
  /\ m' = IF CanResume(m) THEN MissionResumed(m) ELSE m
  /\ IF m'.status = "running" THEN CloseThen(c, call[c].back) ELSE Return(c)
  /\ UNCHANGED <<task, crashes>>

ClosesOut(c) == Closeout(c) \/ Reverify(c) \/ Reopen(c)

-----------------------------------------------------------------------------
(* The start of a slice: executeTaskSlice reads the mission.               *)

\* claimTask: the attempt counts, past maxAttempts too, unless the task continues
\* after a wait.
Attempted(t) == IF t.wake = "due" THEN t.attempt ELSE t.attempt + 1

Begin(w, s) ==
  /\ At(w, "idle")
  /\ task[s].status = "queued" /\ task[s].wake # "parked"
  /\ Attempted(task[s]) <= MaxClaims
  /\ task' = [task EXCEPT ![s].status = "running", ![s].wake = "none",
                          ![s].attempt = Attempted(task[s])]
  /\ Set(w, [Idle EXCEPT !.pc = "begin", !.step = s])
  /\ UNCHANGED <<m, crashes>>

Enter(w) == Go(w, IF OutOfSteps(m) THEN "blind" ELSE "lease")

\* Its step was completed before it began: the mission was handed on.
AlreadyDone(w) ==
  LET s == call[w].step IN
  /\ At(w, "begin") /\ m.st[s] = "completed"
  /\ \/ m.status = "waiting" /\ m.wait.step = s /\ Go(w, "blind")
     \/ m.status = "waiting" /\ m.wait.step # s /\ Report(w, "completed")
     \/ m.status = "running" /\ Reconcile(w, "settle", "completed")
  /\ UNCHANGED <<m, task, crashes>>

\* a cancelled mission's task is put back to be tried later
NotGoing_Bug(w) ==
  /\ At(w, "begin")
  /\ \/ m.status \in {"paused", "blocked"} /\ Report(w, "blocked")
     \/ m.status = "completed" /\ Report(w, "completed")
     \/ m.status = "cancelled" /\ Report(w, "progress")
  /\ UNCHANGED <<m, task, crashes>>

NotGoing(w) ==
  /\ At(w, "begin")
  /\ \/ m.status \in {"paused", "blocked"} /\ Report(w, "blocked")
     \/ m.status \in Ended /\ Report(w, m.status)
  /\ UNCHANGED <<m, task, crashes>>

FindsWait(w) ==
  /\ At(w, "begin")
  /\ m.status = "waiting" /\ m.st[call[w].step] # "completed"
  /\ IF ~m.wait.due THEN Report(w, "waiting")
     ELSE Go(w, IF m.wait.kind = "timer" THEN "wake" ELSE "blind")
  /\ UNCHANGED <<m, task, crashes>>

FindsWork(w) ==
  /\ At(w, "begin")
  /\ \/ m.status \in {"queued", "failed"}
     \/ m.status = "running" /\ m.st[call[w].step] # "completed"
  /\ Enter(w)
  /\ UNCHANGED <<m, task, crashes>>

\* resumeMissionFromTimer, which another caller may have done before
Wake(w) ==
  /\ At(w, "wake")
  /\ m' = IF CanWake(m, "timer") THEN Woken(m) ELSE m
  /\ IF m'.status = "running" THEN Enter(w) ELSE Report(w, "blocked")
  /\ UNCHANGED <<task, crashes>>

\* acquireMissionStepLease; refused, the slice is put back without a wait.
TakeStep(w) ==
  /\ At(w, "lease")
  /\ IF m.status \notin Ended /\ call[w].step \in Running(m)
       THEN Go(w, "turn") ELSE Report(w, "queued")
  /\ UNCHANGED <<m, task, crashes>>

\* updateMission with a plain patch: whatever became of the mission since
BlockBlindly(w) ==
  /\ At(w, "blind")
  /\ m' = MissionBlocked(m)
  /\ Report(w, "blocked")
  /\ UNCHANGED <<task, crashes>>

Enters(w) ==
  \/ \E s \in Step : Begin(w, s)
  \/ AlreadyDone(w) \/ NotGoing(w) \/ FindsWait(w) \/ FindsWork(w)
  \/ Wake(w) \/ TakeStep(w) \/ BlockBlindly(w)

-----------------------------------------------------------------------------
(* The turn: the model uses tools, then the slice ends in one of the ways  *)
(* of Turns.  Without a tool it may still checkpoint and so make progress. *)

Uses(w, tool) == At(w, "turn") /\ tool \in Tools /\ ~call[w].flag
Used(w, pc) ==
  Set(w, [call[w] EXCEPT !.pc = pc, !.flag = TRUE, !.back = "turn",
                         !.then = IF pc = "close" THEN "clear" ELSE "idle"])

\* completeMissionStepAndAdvance
ToolCompletesStep(w) ==
  /\ Uses(w, "complete step") /\ CanCompleteStep(m, call[w].step)
  /\ m' = StepCompleted(m, call[w].step)
  /\ Used(w, "close")
  /\ UNCHANGED <<task, crashes>>

ToolReplans(w) ==
  /\ Uses(w, "replan")
  /\ \E p \in Plans : CanReplan(m, p) /\ m' = Replanned(m, p)
  /\ Used(w, "close")
  /\ UNCHANGED <<task, crashes>>

ToolRecordsEvidence(w) ==
  /\ Uses(w, "evidence") /\ CanRecordEvidence(m)
  /\ m' = EvidenceRecorded(m)
  /\ Used(w, "closeout")
  /\ UNCHANGED <<task, crashes>>

ToolPauses(w) ==
  /\ Uses(w, "pause") /\ CanPause(m)
  /\ m' = MissionPaused(m)
  /\ Used(w, "drop")
  /\ UNCHANGED <<task, crashes>>

ToolBlocks(w) ==
  /\ Uses(w, "block") /\ CanBlock(m)
  /\ m' = MissionBlocked(m)
  /\ Used(w, "turn")
  /\ UNCHANGED <<task, crashes>>

EndTurn(w, turn) ==
  LET x == [call[w] EXCEPT !.turn = turn, !.flag = FALSE, !.back = "idle"] IN
  /\ At(w, "turn")
  /\ turn = "nothing" => ~call[w].flag
  /\ CASE turn = "throw" -> Set(w, [x EXCEPT !.pc = "settle", !.out = "failed"])
       [] turn \in {"timer", "event"} -> Set(w, [x EXCEPT !.pc = "own"])
       [] OTHER -> Set(w, [x EXCEPT !.pc = "account"])
  /\ UNCHANGED <<m, task, crashes>>

TakesTurn(w) ==
  \/ ToolCompletesStep(w) \/ ToolReplans(w) \/ ToolRecordsEvidence(w)
  \/ ToolPauses(w) \/ ToolBlocks(w)
  \/ \E turn \in Turns : EndTurn(w, turn)

-----------------------------------------------------------------------------
(* The end of the slice: its accounting, and what the worker reports.      *)

\* A worker that asked for a wait must still own a running step.
OwnsStep(w) ==
  LET s == call[w].step IN
  /\ At(w, "own")
  /\ IF s \in Running(m)
       THEN IF m.status \in {"running", "waiting"} THEN Go(w, "account")
            ELSE Report(w, IF call[w].turn = "timer" /\ m.status \in Ended
                             THEN m.status ELSE "blocked")
       ELSE IF m.st[s] = "completed" /\ m.status = "running"
         THEN Reconcile(w, "settle", "completed")
       ELSE Go(w, "blind")
  /\ UNCHANGED <<m, task, crashes>>

\* recordMissionSlice
Account(w) == m' = IF CanRecordSlice(m) THEN SliceRecorded(m) ELSE m

AccountUncertain(w) ==
  /\ At(w, "account") /\ call[w].turn = "uncertain"
  /\ Account(w)
  /\ Set(w, [call[w] EXCEPT !.pc = "settle", !.out = "blocked", !.class = "uncertain"])
  /\ UNCHANGED <<task, crashes>>

AccountNothing(w) ==
  /\ At(w, "account") /\ call[w].turn = "nothing"
  /\ Account(w)
  /\ Set(w, [call[w] EXCEPT !.pc = "settle", !.class = "no_progress",
               !.out = IF CanRecordSlice(m) /\ m'.status = "blocked" THEN "blocked"
                       ELSE "failed"])
  /\ UNCHANGED <<task, crashes>>

AccountProgress(w) ==
  /\ At(w, "account") /\ call[w].turn = "progress"
  /\ Account(w)
  /\ IF m'.status \in {"running", "waiting"} THEN CloseThen(w, "handoff")
     ELSE Report(w, IF m'.status \in Ended THEN m'.status ELSE "blocked")
  /\ UNCHANGED <<task, crashes>>

\* missionTimerResumeStep: its own step, failing that the current one, failing
\* that another running one
WaitStep(r, s) ==
  IF s \in Running(r) THEN s
  ELSE IF r.current \in Running(r) THEN r.current ELSE First(Running(r))

AccountTimer(w) ==
  LET s == WaitStep(m', call[w].step) IN
  /\ At(w, "account") /\ call[w].turn = "timer"
  /\ Account(w)
  /\ IF m'.status = "running"
       THEN Set(w, [call[w] EXCEPT !.pc = IF s = None THEN "block" ELSE "park",
                                   !.seen = {s} \ {None}])
       ELSE Report(w, IF m'.status \in Ended THEN m'.status ELSE "blocked")
  /\ UNCHANGED <<task, crashes>>

AccountEvent(w) ==
  /\ At(w, "account") /\ call[w].turn = "event"
  /\ Account(w)
  /\ IF m'.status = "blocked" THEN Report(w, "blocked")
     ELSE Set(w, [call[w] EXCEPT !.pc = "park", !.seen = {call[w].step}])
  /\ UNCHANGED <<task, crashes>>

\* a guarded updateMission: only a mission still running is blocked, and for an
\* event only if its step still runs
BlockRunning(w) ==
  /\ At(w, "block")
  /\ m' = IF /\ m.status = "running"
             /\ call[w].turn = "event" => m.st[call[w].step] = "running"
            THEN MissionBlocked(m) ELSE m
  /\ Report(w, "blocked")
  /\ UNCHANGED <<task, crashes>>

\* waitMission.  Refused, a timer fails the slice; an event, unless the mission
\* already waits for it, looks at the mission again.
Park(w) ==
  LET x == call[w]
      s == First(x.seen)
  IN
  /\ At(w, "park")
  /\ m' = IF CanWait(m) THEN MissionWaits(m, x.turn, s) ELSE m
  /\ IF \/ CanWait(m)
        \/ /\ x.turn = "event" /\ m.status = "waiting"
           /\ m.wait.kind = "event" /\ m.wait.step = s
       THEN Report(w, "waiting")
     ELSE IF x.turn = "timer" THEN Report(w, "failed")
     ELSE Go(w, "recheck")
  /\ UNCHANGED <<task, crashes>>

Recheck(w) ==
  LET st == m.st[call[w].step] IN
  /\ At(w, "recheck")
  /\ IF m.status = "running" /\ st = "completed" THEN Reconcile(w, "settle", "completed")
     ELSE IF m.status = "running" /\ st = "running" THEN Go(w, "block")
     ELSE Report(w, "blocked")
  /\ UNCHANGED <<m, task, crashes>>

\* settleMissionSlice after its closeout: complete, blocked, or on to the next
\* branch, its own task put back or, if its step no longer runs, completed.
HandOff(w) ==
  LET s == call[w].step IN
  /\ At(w, "handoff")
  /\ IF m.status = "completed" THEN Report(w, "completed")
     ELSE IF m.status \in {"blocked", "failed"} THEN Report(w, "blocked")
     ELSE IF m.status = "running" /\ AllDone(m) THEN Report(w, "completed")
     ELSE Reconcile(w, "settle",
                    IF m.active # {} /\ s \notin m.active THEN "completed" ELSE "progress")
  /\ UNCHANGED <<m, task, crashes>>

-----------------------------------------------------------------------------
(* Settlement: settleTaskRun, then the mission's closeout or its stop.     *)

Fate(t, out) ==
  CASE out = "failed" /\ t.attempt < MaxAttempts -> "queued"
    [] out \in {"waiting", "progress"} -> "queued"
    [] OTHER -> out

SettledAs(t, x, fate) ==
  [t EXCEPT !.status = fate,
            !.wake = IF x.out = "waiting" /\ fate = "queued" THEN "parked" ELSE "none",
            !.attempt = IF x.out = "progress" /\ fate = "queued" THEN 0 ELSE @,
            !.class = IF fate = "cancelled" THEN @
                      ELSE IF x.class # "none" THEN x.class
                      ELSE IF x.out \in {"failed", "blocked"} THEN @ ELSE "none"]

\* A task asked to cancel is cancelled, unless the request came after
\* settleTaskRun had read the task.
Settle(w) ==
  LET x == call[w]
      s == x.step
      after == [Idle EXCEPT !.step = s]
  IN
  /\ At(w, "settle")
  /\ \E fate \in {Fate(task[s], x.out)}
                   \cup {f \in {"cancelled"} : task[s].status = "cancel_requested"} :
       /\ task' = [task EXCEPT ![s] = SettledAs(@, x, fate)]
       /\ CASE fate = "completed" -> Set(w, [after EXCEPT !.pc = "close"])
            [] fate \in {"blocked", "failed"} ->
                 Set(w, [after EXCEPT !.pc = "project", !.out = fate])
            [] OTHER -> Set(w, Idle)
  /\ UNCHANGED <<m, crashes>>

EndsSlice(w) ==
  \/ OwnsStep(w) \/ AccountUncertain(w) \/ AccountNothing(w) \/ AccountProgress(w)
  \/ AccountTimer(w) \/ AccountEvent(w) \/ BlockRunning(w) \/ Park(w) \/ Recheck(w)
  \/ HandOff(w) \/ Settle(w)

\* The worker dies; a task it has not settled keeps its lease until it lapses.
Crash(w) ==
  LET x == call[w]
      settled == \/ x.pc \in {"project", "stop"}
                 \/ /\ x.pc \in {"close", "verify", "refuse", "complete"}
                    /\ x.then = "idle"
  IN
  /\ ~At(w, "idle") /\ crashes < MaxCrashes
  /\ crashes' = crashes + 1
  /\ task' = IF settled THEN task ELSE [task EXCEPT ![x.step].lapsed = TRUE]
  /\ Set(w, Idle)
  /\ UNCHANGED m

-----------------------------------------------------------------------------
(* The owner.  Any request may come at any time.                           *)

Asks(d, command) == d \in Owner /\ At(d, "idle") /\ command \in Commands
Then(d, pc) ==
  Set(d, [Idle EXCEPT !.pc = pc, !.then = IF pc = "close" THEN "clear" ELSE "idle"])

\* startMission and reconcileMissionExecution
Start(d) ==
  /\ d \in Owner /\ At(d, "idle") /\ CanStart(m)
  /\ m' = MissionStarted(m)
  /\ Then(d, "close")
  /\ UNCHANGED <<task, crashes>>

Pause(d) ==
  /\ Asks(d, "pause") /\ CanPause(m)
  /\ m' = MissionPaused(m)
  /\ Then(d, "drop")
  /\ UNCHANGED <<task, crashes>>

Cancel(d) ==
  /\ Asks(d, "cancel") /\ CanCancelMission(m)
  /\ m' = MissionCancelled(m)
  /\ Then(d, "drop")
  /\ UNCHANGED <<task, crashes>>

AskResume(d) ==
  /\ Asks(d, "resume")
  /\ Then(d, "resume")
  /\ UNCHANGED <<m, task, crashes>>

\* replanMissionAndSchedule
Replan(d) ==
  /\ Asks(d, "replan")
  /\ \E p \in Plans : CanReplan(m, p) /\ m' = Replanned(m, p)
  /\ Then(d, "close")
  /\ UNCHANGED <<task, crashes>>

\* recordMissionEvidenceAndCloseout
RecordEvidence(d) ==
  /\ Asks(d, "evidence") /\ CanRecordEvidence(m)
  /\ m' = EvidenceRecorded(m)
  /\ Then(d, "closeout")
  /\ UNCHANGED <<task, crashes>>

AskVerify(d) ==
  /\ Asks(d, "verify") /\ CanVerify(m)
  /\ m' = MissionVerified(m)
  /\ Then(d, "closeout")
  /\ UNCHANGED <<task, crashes>>

CompleteStep(d) ==
  /\ Asks(d, "complete step")
  /\ \E s \in Step : CanCompleteStep(m, s) /\ m' = StepCompleted(m, s)
  /\ Then(d, "close")
  /\ UNCHANGED <<task, crashes>>

\* repairMission blocks; the owner resumes
Repair(d) ==
  /\ Asks(d, "repair") /\ CanBlock(m)
  /\ m' = MissionBlocked(m)
  /\ UNCHANGED <<task, call, crashes>>

\* resumeMissionFromProviderEvent, then its task is made due
EventArrives(d) ==
  /\ d \in Owner /\ At(d, "idle") /\ CanWake(m, "event")
  /\ m' = Woken(m)
  /\ Set(d, [Idle EXCEPT !.pc = "call up", !.step = m.wait.step])
  /\ UNCHANGED <<task, crashes>>

CallUp(d) ==
  /\ At(d, "call up")
  /\ task' = [task EXCEPT ![call[d].step].wake = IF @ = "parked" THEN "due" ELSE @]
  /\ Then(d, "close")
  /\ UNCHANGED <<m, crashes>>

\* resumeMissionAndSchedule looks at the mission itself.
Resume(d) ==
  LET waits == m.status = "waiting" /\ m.wait.kind = "timer" IN
  /\ At(d, "resume")
  /\ m' = IF waits /\ CanWake(m, "timer") THEN Woken(m)
          ELSE IF ~waits /\ CanResume(m) THEN MissionResumed(m) ELSE m
  /\ Then(d, IF (CanWake(m, "timer") \/ CanResume(m)) /\ m'.status = "running"
               THEN "close" ELSE "idle")
  /\ UNCHANGED <<task, crashes>>

Commanded(d) ==
  \/ Start(d) \/ Pause(d) \/ Cancel(d) \/ AskResume(d) \/ Replan(d)
  \/ RecordEvidence(d) \/ AskVerify(d) \/ CompleteStep(d) \/ Repair(d)
  \/ EventArrives(d)

-----------------------------------------------------------------------------
(* The recovery sweep, one mission at a time.                              *)

Sweeps == At(Sweeper, "idle")
Lapsed == {s \in Step : task[s].lapsed /\ task[s].status = "running"}

\* An event that did not come in time; the block is guarded by the same wait.
SweepsLateEvent ==
  /\ Sweeps /\ m.status = "waiting" /\ m.wait.kind = "event" /\ m.wait.due
  /\ m' = MissionBlocked(m)
  /\ UNCHANGED <<task, call, crashes>>

SweepsDueTimer ==
  /\ Sweeps /\ m.status = "waiting" /\ m.wait.kind = "timer" /\ m.wait.due
  /\ Then(Sweeper, "resume")
  /\ UNCHANGED <<m, task, crashes>>

\* claimMissionAutomaticRepair: once, and only after a failure without progress
Repairable(t) == t.status = "failed" /\ t.class = "no_progress" /\ ~t.repaired

SweepRepairs(s) ==
  /\ Sweeps /\ m.status = "failed" /\ Repairable(task[s])
  /\ task' = [task EXCEPT ![s].repaired = TRUE, ![s].attempt = 0]
  /\ Then(Sweeper, "resume")
  /\ UNCHANGED <<m, crashes>>

\* The sweep read a running mission with a task whose lease has expired ...
SweepFindsLapsed(s) ==
  /\ Sweeps /\ m.status = "running" /\ s \in Lapsed
  /\ Set(Sweeper, [Idle EXCEPT !.pc = "quarantine", !.step = s, !.out = "blocked"])
  /\ UNCHANGED <<m, task, crashes>>

\* ... and blocks the task, if it still runs (quarantineExpiredTask), ...
Quarantine ==
  LET s == call[Sweeper].step IN
  /\ At(Sweeper, "quarantine")
  /\ IF s \in Lapsed
       THEN /\ task' = [task EXCEPT ![s].status = "blocked", ![s].lapsed = FALSE]
            /\ Go(Sweeper, "project")
       ELSE Then(Sweeper, "idle") /\ UNCHANGED task
  /\ UNCHANGED <<m, crashes>>

\* ... and then the mission (blockMission), also one paused since.
BlockQuarantined ==
  /\ At(Sweeper, "quarantined")
  /\ m' = IF CanBlock(m) THEN MissionBlocked(m) ELSE m
  /\ Then(Sweeper, "idle")
  /\ UNCHANGED <<task, crashes>>

SweepReconciles ==
  /\ Sweeps /\ m.status = "running" /\ Lapsed = {}
  /\ Then(Sweeper, "close")
  /\ UNCHANGED <<m, task, crashes>>

Sweep ==
  \/ SweepsLateEvent \/ SweepsDueTimer \/ SweepReconciles
  \/ Quarantine \/ BlockQuarantined
  \/ \E s \in Step : SweepRepairs(s) \/ SweepFindsLapsed(s)

-----------------------------------------------------------------------------
(* Time: the wait's timer or deadline passes, and a task parked until then *)
(* becomes due.                                                            *)

WaitEnds ==
  /\ m.status = "waiting" /\ ~m.wait.due
  /\ m' = [m EXCEPT !.wait = [@ EXCEPT !.due = TRUE]]
  /\ UNCHANGED <<task, call, crashes>>

TaskDue(s) ==
  /\ task[s].status = "queued" /\ task[s].wake = "parked"
  /\ ~(m.status = "waiting" /\ m.wait.step = s /\ ~m.wait.due)
  /\ task' = [task EXCEPT ![s].wake = "due"]
  /\ UNCHANGED <<m, call, crashes>>

Time == WaitEnds \/ \E s \in Step : TaskDue(s)

-----------------------------------------------------------------------------
\* What every caller does of its own accord once it has begun.
Continues(c) ==
  \/ Reconciles(c) \/ ClosesOut(c) \/ Project(c) \/ StopStep(c) \/ Drop(c)
Works(w) == Enters(w) \/ TakesTurn(w) \/ EndsSlice(w) \/ Continues(w)
Drives(d) == Resume(d) \/ CallUp(d) \/ Continues(d)

Next ==
  \/ \E w \in Worker : Works(w) \/ Crash(w)
  \/ \E d \in Owner : Commanded(d)
  \/ \E d \in Driver : Drives(d)
  \/ Sweep
  \/ Time

Spec == Init /\ [][Next]_vars

-----------------------------------------------------------------------------
(* Fairness: who began goes on, the sweep comes round, a queued task is    *)
(* delivered to some worker and time passes.  The owner need not ask       *)
(* anything, not even to start, and no event need arrive.                  *)

FairSpec ==
  /\ Spec
  /\ \A w \in Worker : WF_vars(Works(w))
  /\ \A s \in Step : SF_vars(\E w \in Worker : Begin(w, s))
  /\ \A d \in Driver : WF_vars(Drives(d))
  /\ WF_vars(Sweep)
  /\ WF_vars(WaitEnds) /\ \A s \in Step : WF_vars(TaskDue(s))

-----------------------------------------------------------------------------
(* Properties.                                                             *)

\* No step runs, or is done, before the steps it depends on are done: neither
\* replans, resumptions nor late completions start a step out of order.
DependencyOrder ==
  \A s \in Step : m.st[s] \in {"running", "completed"} =>
    \A d \in m.deps[s] : m.st[d] = "completed"

\* A completed step stays as it is in every later plan.
CompletedWorkIsKept ==
  [][\A s \in Step : m.st[s] = "completed" =>
       m'.st[s] = "completed" /\ m'.deps[s] = m.deps[s]]_vars

\* A mission is completed when every step is and, where the mission is strict,
\* the evidence was there; also when a replan, a new task or late evidence came
\* between the closing's reads and its write.
CompletionIsEarned ==
  m.status = "completed" => AllDone(m) /\ (Strict => m.evidence)

\* Each completed step is counted once in the budget, whoever completes it.
StepsCountedOnce == m.consumed = Cardinality(Completed(m))

\* A mission comes to rest, and nothing but an owner's order sets it going
\* again: slices, attempts and repairs are bounded, and no wait, no handover and
\* no closing is lost.
RestsForGood == <>[](m.status \notin {"running", "waiting"})

\* The tasks of a cancelled mission all come to rest, the one that a reconciliation
\* created behind the cancellation's back too.
CancelledReleasesTasks ==
  m.status = "cancelled" ~> \A s \in Step : task[s].status \in AtRest

-----------------------------------------------------------------------------
(* What the code says of itself, and what the runs refute.                 *)

\* A mission with a stopped branch enters its terminal state once the remaining
\* task workers have settled (the message of reconcileTerminalMissionTask).
StoppedMissionEnds ==
  (\E s \in Step : m.st[s] \in {"blocked", "failed"}) /\ m.status = "running"
    ~> m.status # "running"

\* Without an order of the owner a blocked task, whose effect may have taken
\* place, is not tried again (quarantineExpiredTask, settleMissionSlice).
UncertainIsNotReplayed ==
  [][\A s \in Step : task[s].status = "blocked" => task'[s].status # "queued"]_vars

\* Late results of a worker leave an ended mission as it is (recordMissionSlice).
EndedStands == [][m.status \in Ended => m'.status = m.status]_vars

\* A mission is closed over no task (finalizeMissionIfReady).
ClosedOverNoTask ==
  [][m.status # "completed" /\ m'.status = "completed" =>
       \A s \in Step : task[s].status \in Settled]_vars

\* A paused mission goes on when the owner says so (docs/mission-audit.md).
PauseStands ==
  [][m.status = "paused" /\ m'.status = "running" =>
       \E d \in Owner : At(d, "resume")]_vars

\* Late evidence closes a mission whose steps are done
\* (recordMissionEvidenceAndCloseout).
LateEvidenceCloses ==
  (\A c \in Caller : At(c, "idle")) /\ AllDone(m) /\ m.evidence
    => m.status # "blocked"
=============================================================================
