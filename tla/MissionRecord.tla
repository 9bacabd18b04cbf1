----------------------------- MODULE MissionRecord -----------------------------
(***************************************************************************)
(* The durable mission record of src/store.ts, its plan of steps and its   *)
(* operations, each one a guard and the record it writes.  Every operation *)
(* is one compare-and-set on the record's version (mutateMission), so each *)
(* is atomic; those who read a mission, wait for a model or a task and     *)
(* then write are in Mission.                                              *)
(*                                                                         *)
(* Titles, results, checkpoints, events and leases of the record are left  *)
(* out.  Of the budgets it keeps the two that count what is modelled,      *)
(* slices and steps; of the waits, the timer and the provider event.       *)
(***************************************************************************)
EXTENDS Integers, FiniteSets

CONSTANTS
  NSteps,      \* step ids 1..NSteps; a plan lists its steps in this order
  Strict,      \* verification mode: strict (evidence required) or legacy
  MaxSteps,    \* budget.maxSteps
  MaxSlices    \* budget.maxSlices

ASSUME PlanAssumption ==
  /\ NSteps \in Nat \ {0}
  /\ Strict \in BOOLEAN
  /\ MaxSteps \in Nat /\ MaxSlices \in Nat

Step == 1..NSteps
None == 0
StepStatus == {"absent", "pending", "running", "completed", "blocked", "failed"}
MissionStatus == {"queued", "running", "waiting", "paused", "blocked", "failed",
                  "completed", "cancelled"}
Ended == {"completed", "cancelled"}

\* What the mission waits for, for which step, and whether the timer has
\* elapsed or the event's deadline has passed.
Wait(kind, s) == [kind |-> kind, step |-> s, due |-> FALSE]
NoWait == Wait("none", None)

MissionRecordType ==
  [status : MissionStatus,
   st : [Step -> StepStatus],
   deps : [Step -> SUBSET Step],     \* dependsOn
   active : SUBSET Step,             \* activeStepIds
   current : Step \cup {None},       \* currentStepId
   wait : [kind : {"none", "timer", "event"}, step : Step \cup {None},
           due : BOOLEAN],
   evidence : BOOLEAN,               \* the required evidence is recorded
   verified : BOOLEAN,               \* verification.verified
   consumed : 0..NSteps,             \* consumedSteps
   slices : 0..(MaxSlices + 1)]      \* consumedSlices; saturates past the budget

\* A plan: its steps and what each depends on.
Plan == [steps : SUBSET Step, deps : [Step -> SUBSET Step]]

\* validateMissionStepGraph: no unknown dependency and, of the steps not yet
\* completed, no cycle: in every set of them one depends on none of the set.
ValidPlan(p, completed) ==
  /\ \A s \in p.steps : p.deps[s] \subseteq p.steps \ {s}
  /\ \A T \in SUBSET (p.steps \ completed) :
       T # {} => \E s \in T : p.deps[s] \cap T = {}

\* any one dependency will do
Ready_Bug(st, deps) ==
  {s \in Step : st[s] = "pending"
                /\ (deps[s] = {} \/ \E d \in deps[s] : st[d] = "completed")}

\* readyMissionSteps
Ready(st, deps) ==
  {s \in Step : st[s] = "pending" /\ \A d \in deps[s] : st[d] = "completed"}

First(S) == IF S = {} THEN None ELSE CHOOSE s \in S : \A t \in S : s <= t
Started(st, ready) == [s \in Step |-> IF s \in ready THEN "running" ELSE st[s]]

Active(m) == IF m.active # {} THEN m.active ELSE {m.current} \ {None}
Completed(m) == {s \in Step : m.st[s] = "completed"}
Running(m) == {s \in Active(m) : m.st[s] = "running"}
AllDone(m) == \A s \in Step : m.st[s] \in {"completed", "absent"}
OutOfSteps(m) == m.consumed >= MaxSteps

\* createMission
NewMission(p) ==
  [status |-> "queued",
   st |-> [s \in Step |-> IF s \in p.steps THEN "pending" ELSE "absent"],
   deps |-> p.deps, active |-> {},
   current |-> First({s \in p.steps : p.deps[s] = {}}), wait |-> NoWait,
   evidence |-> FALSE, verified |-> FALSE, consumed |-> 0, slices |-> 0]

-----------------------------------------------------------------------------
(* The course of the plan.                                                 *)

CanStart(m) == m.status = "queued"
MissionStarted(m) ==
  LET ready == Ready(m.st, m.deps) IN
  [m EXCEPT !.status = "running", !.active = ready,
            !.current = IF ready = {} THEN @ ELSE First(ready),
            !.st = Started(@, ready)]

\* a repetition counts again
CanCompleteStep_Bug(m, s) ==
  m.status = "running" /\ s \in Step /\ m.st[s] \in {"running", "completed"}

\* completeMissionStep; a repetition leaves a completed step as it is
CanCompleteStep(m, s) ==
  /\ m.status = "running"
  /\ s \in Step /\ s \in Running(m)
  /\ \A d \in m.deps[s] : m.st[d] = "completed"
StepCompleted(m, s) ==
  LET done == [m.st EXCEPT ![s] = "completed"]
      ready == Ready(done, m.deps)
      active == (Active(m) \ {s}) \cup ready
  IN [m EXCEPT !.st = Started(done, ready), !.active = active,
               !.current = First(active), !.consumed = @ + 1]

\* the completed steps start again with the rest
Replanned_Bug(m, p) ==
  LET st == [s \in Step |-> IF s \in p.steps THEN "pending" ELSE "absent"]
      ready == Ready(st, p.deps)
  IN [m EXCEPT !.st = Started(st, ready), !.deps = p.deps, !.active = ready,
               !.current = First(ready)]

\* replanMission: a completed step must be in the new plan and is kept as it is
Kept(m, p) ==
  [p EXCEPT !.deps = [s \in Step |-> IF m.st[s] = "completed" THEN m.deps[s]
                                     ELSE p.deps[s]]]
CanReplan(m, p) ==
  /\ m.status \notin Ended
  /\ Completed(m) \subseteq p.steps
  /\ ValidPlan(Kept(m, p), Completed(m))
Replanned(m, p) ==
  LET deps == Kept(m, p).deps
      st == [s \in Step |-> IF m.st[s] = "completed" THEN "completed"
                            ELSE IF s \in p.steps THEN "pending" ELSE "absent"]
      ready == Ready(st, deps)
  IN [m EXCEPT !.st = Started(st, ready), !.deps = deps, !.active = ready,
               !.current = First(ready)]

\* reconcileTerminalMissionTask: the task of step s came to rest without success;
\* unsettled says whether a task of the mission was still going.
CanStopStep(m, s) ==
  /\ m.status \in {"queued", "running"}
  /\ s \in Step /\ m.st[s] \notin {"absent", "completed"}
StepStopped(m, s, outcome, unsettled) ==
  LET result == IF outcome = "blocked" THEN "blocked" ELSE "failed" IN
  [m EXCEPT !.status = IF unsettled THEN "running" ELSE result,
            !.st = [@ EXCEPT ![s] = result], !.active = @ \ {s},
            !.current = First(m.active \ {s}), !.wait = NoWait]

-----------------------------------------------------------------------------
(* Control: the owner, the sweep and the worker's tools.                   *)

CanPause(m) == m.status \in {"running", "waiting"}
MissionPaused(m) == [m EXCEPT !.status = "paused", !.wait = NoWait]

\* resumeMission: blocked and failed steps become pending, and what is ready
\* starts; without steps left in the budget the mission stays blocked.
CanResume(m) == m.status \in {"paused", "blocked", "failed", "running"}
MissionResumed(m) ==
  LET st == [s \in Step |-> IF m.st[s] \in {"blocked", "failed"} THEN "pending"
                            ELSE m.st[s]]
      active == m.active \cup Ready(st, m.deps)
      next == Started(st, {s \in active : st[s] = "pending"})
      going == {s \in active : next[s] = "running"}
  IN IF OutOfSteps(m) /\ ~AllDone(m)
       THEN [m EXCEPT !.status = "blocked"]
       ELSE [m EXCEPT !.status = "running", !.wait = NoWait, !.st = next,
                      !.active = active,
                      !.current = IF going = {} THEN @ ELSE First(going)]

CanCancelMission(m) == m.status \notin Ended
MissionCancelled(m) == [m EXCEPT !.status = "cancelled", !.wait = NoWait]
\* blockMission and, in the worker, a plain updateMission: with no guard
CanBlock(m) == m.status \notin Ended
MissionBlocked(m) == [m EXCEPT !.status = "blocked", !.wait = NoWait]

-----------------------------------------------------------------------------
(* Waits and accounting.                                                   *)

CanWait(m) == m.status = "running"
MissionWaits(m, kind, s) == [m EXCEPT !.status = "waiting", !.wait = Wait(kind, s)]

\* resumeMissionFromTimer and resumeMissionFromProviderEvent: the timer must
\* have elapsed, the event must not be late.
CanWake(m, kind) ==
  m.status = "waiting" /\ m.wait.kind = kind /\ m.wait.due = (kind = "timer")
Woken(m) == [m EXCEPT !.status = "running", !.wait = NoWait]

\* the slice that uses up the budget does not block the mission
SliceRecorded_Bug(m) ==
  [m EXCEPT !.slices = IF @ > MaxSlices THEN @ ELSE @ + 1]

\* recordMissionSlice; a block it is asked for is left to the task's settlement
CanRecordSlice(m) == m.status \notin Ended \cup {"queued"}
SliceRecorded(m) ==
  LET slices == IF m.slices > MaxSlices THEN m.slices ELSE m.slices + 1 IN
  [m EXCEPT !.slices = slices,
            !.status = IF @ = "running" /\ slices > MaxSlices THEN "blocked" ELSE @]

-----------------------------------------------------------------------------
(* Evidence and completion.                                                *)

CanRecordEvidence(m) == m.status \notin Ended
EvidenceRecorded(m) == [m EXCEPT !.evidence = TRUE]

\* the steps alone are looked at
MissionVerified_Bug(m) == [m EXCEPT !.verified = AllDone(m)]

\* verifyMission; a replan leaves the verdict as it was
CanVerify(m) == m.status # "cancelled"
MissionVerified(m) ==
  [m EXCEPT !.verified = AllDone(m) /\ (Strict => m.evidence)]

\* the verification alone is asked for
CanComplete_Bug(m) == m.status = "running" /\ (m.verified \/ ~Strict)

\* completeMission
CanComplete(m) == m.status = "running" /\ AllDone(m) /\ (Strict => m.verified)
MissionCompleted(m) == [m EXCEPT !.status = "completed", !.wait = NoWait]
=============================================================================
