----------------------------- MODULE MissionProofs -----------------------------
(***************************************************************************)
(* The mission record under every interleaving of its callers: its plan is  *)
(* worked off in order, completed work is kept and counted once, and a      *)
(* completed mission has earned it; and the types of all that it touches.  *)
(***************************************************************************)
EXTENDS Mission, TLAPS, FiniteSetTheorems, WellFoundedInduction

-----------------------------------------------------------------------------
(* First of a set of steps is one of them.                                 *)

LEMMA LeastStep ==
  ASSUME NEW S \in SUBSET Step, S # {}
  PROVE  \E s \in S : \A t \in S : s <= t
<1>1. S \subseteq Nat
  BY PlanAssumption DEF Step
<1>2. PICK s \in S : \A t \in S : ~ (<<t, s>> \in OpToRel(<, Nat))
  BY <1>1, WFMin, NatLessThanWellFounded, Zenon
<1>3. \A t \in S : ~ (t < s)
  BY <1>1, <1>2, Zenon DEF OpToRel
<1> QED BY <1>1, <1>3

LEMMA FirstOfSteps ==
  ASSUME NEW S \in SUBSET Step
  PROVE  First(S) \in S \cup {None}
BY LeastStep DEF First

-----------------------------------------------------------------------------
(* The inductive invariant.  Beside what is to be proved it says that a    *)
(* step that is only listed as active, or as current, has its dependencies *)
(* done as well, since resumeMission starts it without looking at them, and *)
(* that a verdict, once given, rests on evidence, since completeMission     *)
(* looks only at the verdict.                                              *)

IsRecord(r) ==
  DOMAIN r = {"status", "st", "deps", "active", "current", "wait", "evidence",
              "verified", "consumed", "slices"}

Typed(r) ==
  /\ r.st \in [Step -> StepStatus]
  /\ r.deps \in [Step -> SUBSET Step]
  /\ r.active \in SUBSET Step
  /\ r.current \in Step \cup {None}

DoneBefore(r, s) == \A d \in r.deps[s] : r.st[d] = "completed"
Ordered(r) ==
  \A s \in Step :
    \/ r.st[s] \in {"running", "completed"} \/ s \in r.active \/ s = r.current
    => DoneBefore(r, s)
Counted(r) == r.consumed = Cardinality(Completed(r))
Judged(r) == Strict /\ r.verified => r.evidence
Earned(r) == r.status = "completed" => AllDone(r) /\ (Strict => r.evidence)

RecordInv(r) ==
  IsRecord(r) /\ Typed(r) /\ Ordered(r) /\ Counted(r) /\ Judged(r) /\ Earned(r)

\* From r to q every completed step stays completed, with its dependencies.
Keeps(r, q) ==
  \A s \in Step : r.st[s] = "completed" =>
    q.st[s] = "completed" /\ q.deps[s] = r.deps[s]
Advances(r, q) == RecordInv(q) /\ Keeps(r, q)

-----------------------------------------------------------------------------
(* An operation that leaves the plan's course alone.                       *)

SameCourse(r, q) ==
  /\ q.st = r.st /\ q.deps = r.deps /\ q.active = r.active
  /\ q.current = r.current /\ q.consumed = r.consumed

LEMMA CourseKept ==
  ASSUME NEW r, RecordInv(r), NEW q, IsRecord(q), SameCourse(r, q),
         Judged(q), Earned(q)
  PROVE  Advances(r, q)
<1>1. Typed(q)
  BY DEF RecordInv, Typed, SameCourse
<1>2. Ordered(q)
  BY DEF RecordInv, Ordered, DoneBefore, SameCourse
<1>3. Counted(q)
  BY DEF RecordInv, Counted, Completed, SameCourse
<1>4. Keeps(r, q)
  BY DEF SameCourse, Keeps
<1> QED BY <1>1, <1>2, <1>3, <1>4 DEF RecordInv, Advances

\* ... nor the evidence, nor completes the mission: control, waits, accounting.
Marked(r, q) ==
  /\ IsRecord(q) /\ SameCourse(r, q)
  /\ q.evidence = r.evidence /\ q.verified = r.verified
  /\ q.status = "completed" => r.status = "completed"

LEMMA MarkedAdvances ==
  ASSUME NEW r, RecordInv(r), NEW q, Marked(r, q)
  PROVE  Advances(r, q)
<1>1. Judged(q)
  BY DEF RecordInv, Judged, Marked
<1>2. Earned(q)
  BY DEF RecordInv, Earned, AllDone, Marked, SameCourse
<1> QED BY <1>1, <1>2, CourseKept DEF Marked

LEMMA ControlAdvances ==
  ASSUME NEW r, RecordInv(r)
  PROVE  /\ Advances(r, r)
         /\ Advances(r, MissionPaused(r))
         /\ Advances(r, MissionCancelled(r))
         /\ Advances(r, MissionBlocked(r))
         /\ \A kind, s : Advances(r, MissionWaits(r, kind, s))
         /\ Advances(r, Woken(r))
<1>1. Marked(r, r) /\ Marked(r, MissionPaused(r)) /\ Marked(r, MissionCancelled(r))
  BY DEF RecordInv, IsRecord, Marked, SameCourse, MissionPaused, MissionCancelled
<1>2. Marked(r, MissionBlocked(r)) /\ Marked(r, Woken(r))
  BY DEF RecordInv, IsRecord, Marked, SameCourse, MissionBlocked, Woken
<1>3. ASSUME NEW kind, NEW s PROVE Marked(r, MissionWaits(r, kind, s))
  BY DEF RecordInv, IsRecord, Marked, SameCourse, MissionWaits
<1> QED BY <1>1, <1>2, <1>3, MarkedAdvances

LEMMA AccountingAdvances ==
  ASSUME NEW r, RecordInv(r)
  PROVE  Advances(r, SliceRecorded(r))
<1>1. Marked(r, SliceRecorded(r))
  BY DEF RecordInv, IsRecord, Marked, SameCourse, SliceRecorded
<1> QED BY <1>1, MarkedAdvances

LEMMA WaitEndsAdvances ==
  ASSUME NEW r, RecordInv(r)
  PROVE  Advances(r, [r EXCEPT !.wait = [@ EXCEPT !.due = TRUE]])
<1> DEFINE q == [r EXCEPT !.wait = [@ EXCEPT !.due = TRUE]]
<1>1. Marked(r, q)
  BY DEF RecordInv, IsRecord, Marked, SameCourse
<1> HIDE DEF q
<1>2. Advances(r, q)
  BY <1>1, MarkedAdvances
<1> QED BY <1>2 DEF q

-----------------------------------------------------------------------------
(* Evidence, verdict and completion.                                       *)

LEMMA EvidenceAdvances ==
  ASSUME NEW r, RecordInv(r)
  PROVE  Advances(r, EvidenceRecorded(r))
<1> DEFINE q == EvidenceRecorded(r)
<1>1. /\ IsRecord(q) /\ SameCourse(r, q) /\ q.evidence = TRUE /\ q.status = r.status
  BY DEF RecordInv, IsRecord, SameCourse, EvidenceRecorded
<1>2. Judged(q)
  BY <1>1 DEF Judged
<1>3. Earned(q)
  BY <1>1 DEF RecordInv, Earned, AllDone, SameCourse
<1> QED BY <1>1, <1>2, <1>3, CourseKept

LEMMA VerdictAdvances ==
  ASSUME NEW r, RecordInv(r)
  PROVE  Advances(r, MissionVerified(r))
<1> DEFINE q == MissionVerified(r)
<1>1. /\ IsRecord(q) /\ SameCourse(r, q) /\ q.evidence = r.evidence
      /\ q.status = r.status /\ q.verified = (AllDone(r) /\ (Strict => r.evidence))
  BY DEF RecordInv, IsRecord, SameCourse, MissionVerified
<1>2. Judged(q)
  BY <1>1, Zenon DEF Judged
<1>3. Earned(q)
  BY <1>1 DEF RecordInv, Earned, AllDone, SameCourse
<1> QED BY <1>1, <1>2, <1>3, CourseKept

LEMMA CompletionAdvances ==
  ASSUME NEW r, RecordInv(r), CanComplete(r)
  PROVE  Advances(r, MissionCompleted(r))
<1> DEFINE q == MissionCompleted(r)
<1>1. /\ IsRecord(q) /\ SameCourse(r, q) /\ q.evidence = r.evidence
      /\ q.verified = r.verified
  BY DEF RecordInv, IsRecord, SameCourse, MissionCompleted
<1>2. Judged(q)
  BY <1>1 DEF RecordInv, Judged
<1>3. AllDone(q) /\ (Strict => q.evidence)
  BY <1>1 DEF RecordInv, Judged, AllDone, SameCourse, CanComplete
<1>4. Earned(q)
  BY <1>3 DEF Earned
<1> QED BY <1>1, <1>2, <1>4, CourseKept

-----------------------------------------------------------------------------
(* The operations that move the plan on.                                   *)

\* Starting steps that are pending completes none and undoes none.
LEMMA StartedCompletesNone ==
  ASSUME NEW st \in [Step -> StepStatus], NEW S, \A s \in S : st[s] = "pending"
  PROVE  /\ Started(st, S) \in [Step -> StepStatus]
         /\ \A s \in Step : /\ Started(st, S)[s] = "completed" <=> st[s] = "completed"
                            /\ Started(st, S)[s] = "running" => s \in S \/ st[s] = "running"
BY DEF Started, StepStatus

\* The steps that are ready are pending, and wait for nothing.
LEMMA ReadySteps ==
  ASSUME NEW st, NEW deps
  PROVE  /\ Ready(st, deps) \in SUBSET Step
         /\ \A s \in Ready(st, deps) : st[s] = "pending" /\ \A d \in deps[s] : st[d] = "completed"
BY DEF Ready

LEMMA StartAdvances ==
  ASSUME NEW r, RecordInv(r), CanStart(r)
  PROVE  Advances(r, MissionStarted(r))
<1> DEFINE ready == Ready(r.st, r.deps)
           q == MissionStarted(r)
<1>1. /\ IsRecord(q) /\ q.st = Started(r.st, ready) /\ q.deps = r.deps
      /\ q.active = ready /\ q.consumed = r.consumed /\ q.evidence = r.evidence
      /\ q.verified = r.verified /\ q.status = "running"
      /\ q.current = IF ready = {} THEN r.current ELSE First(ready)
  BY DEF RecordInv, IsRecord, MissionStarted
<1>2. ready \in SUBSET Step /\ \A s \in ready : r.st[s] = "pending" /\ DoneBefore(r, s)
  BY ReadySteps DEF DoneBefore
<1>3. q.current \in ready \/ q.current = r.current \/ q.current = None
  BY <1>1, <1>2, FirstOfSteps
<1> HIDE DEF ready, q
<1>4. /\ q.st \in [Step -> StepStatus]
      /\ \A s \in Step : /\ q.st[s] = "completed" <=> r.st[s] = "completed"
                         /\ q.st[s] = "running" => s \in ready \/ r.st[s] = "running"
  BY <1>1, <1>2, StartedCompletesNone DEF RecordInv, Typed
<1>5. Typed(q)
  BY <1>1, <1>2, <1>3, <1>4 DEF RecordInv, Typed
<1>6. \A s \in Step : DoneBefore(r, s) => DoneBefore(q, s)
  BY <1>1, <1>4 DEF DoneBefore, RecordInv, Typed
<1>7. Ordered(q)
  BY <1>1, <1>2, <1>3, <1>4, <1>6, PlanAssumption DEF RecordInv, Ordered, Step, None
<1>8. Completed(q) = Completed(r)
  BY <1>4 DEF Completed
<1>9. Counted(q) /\ Judged(q) /\ Earned(q)
  BY <1>1, <1>8 DEF RecordInv, Counted, Judged, Earned
<1>10. Keeps(r, q)
  BY <1>1, <1>4 DEF Keeps
<1>11. Advances(r, q)
  BY <1>1, <1>5, <1>7, <1>9, <1>10 DEF Advances, RecordInv
<1> QED BY <1>11 DEF q

LEMMA StopAdvances ==
  ASSUME NEW r, RecordInv(r), NEW s \in Step, CanStopStep(r, s), NEW outcome, NEW unsettled
  PROVE  Advances(r, StepStopped(r, s, outcome, unsettled))
<1> DEFINE q == StepStopped(r, s, outcome, unsettled)
           result == IF outcome = "blocked" THEN "blocked" ELSE "failed"
<1>1. /\ IsRecord(q) /\ q.st = [r.st EXCEPT ![s] = result] /\ q.deps = r.deps
      /\ q.active = r.active \ {s} /\ q.consumed = r.consumed
      /\ q.evidence = r.evidence /\ q.verified = r.verified /\ q.status # "completed"
      /\ q.current = First(r.active \ {s})
  BY DEF RecordInv, IsRecord, StepStopped
<1>2. q.current \in r.active \/ q.current = None
  BY <1>1, FirstOfSteps DEF RecordInv, Typed
<1>3. result \in StepStatus /\ result \notin {"running", "completed"}
  BY DEF StepStatus
<1>4. r.st[s] # "completed"
  BY DEF CanStopStep
<1> HIDE DEF q, result
<1>5. /\ q.st \in [Step -> StepStatus]
      /\ \A t \in Step : /\ q.st[t] = "completed" <=> r.st[t] = "completed"
                         /\ q.st[t] = "running" => r.st[t] = "running"
  BY <1>1, <1>3, <1>4 DEF RecordInv, Typed
<1>6. Typed(q)
  BY <1>1, <1>2, <1>5 DEF RecordInv, Typed
<1>7. \A t \in Step : DoneBefore(r, t) => DoneBefore(q, t)
  BY <1>1, <1>5 DEF DoneBefore, RecordInv, Typed
<1>8. Ordered(q)
  BY <1>1, <1>2, <1>5, <1>7, PlanAssumption DEF RecordInv, Ordered, Step, None
<1>9. Completed(q) = Completed(r)
  BY <1>5 DEF Completed
<1>10. Counted(q) /\ Judged(q) /\ Earned(q)
  BY <1>1, <1>9 DEF RecordInv, Counted, Judged, Earned
<1>11. Keeps(r, q)
  BY <1>1, <1>5 DEF Keeps
<1>12. Advances(r, q)
  BY <1>1, <1>6, <1>8, <1>10, <1>11 DEF Advances, RecordInv
<1> QED BY <1>12 DEF q

\* A replan makes its own dependencies, but not for what is done.
LEMMA ReplanAdvances ==
  ASSUME NEW r, RecordInv(r), NEW p \in Plan, CanReplan(r, p)
  PROVE  Advances(r, Replanned(r, p))
<1> DEFINE q == Replanned(r, p)
           deps == [s \in Step |-> IF r.st[s] = "completed" THEN r.deps[s] ELSE p.deps[s]]
           st == [s \in Step |-> IF r.st[s] = "completed" THEN "completed"
                                 ELSE IF s \in p.steps THEN "pending" ELSE "absent"]
           ready == Ready(st, deps)
<1>1. Kept(r, p).deps = deps
  BY DEF Kept, Plan
<1>2. /\ IsRecord(q) /\ q.st = Started(st, ready) /\ q.deps = deps
      /\ q.active = ready /\ q.consumed = r.consumed /\ q.evidence = r.evidence
      /\ q.verified = r.verified /\ q.status = r.status
      /\ q.current = First(ready)
  BY <1>1 DEF RecordInv, IsRecord, Replanned
<1>3. /\ st \in [Step -> StepStatus] /\ deps \in [Step -> SUBSET Step]
      /\ \A s \in Step : st[s] = "completed" <=> r.st[s] = "completed"
      /\ \A s \in Step : st[s] # "running"
      /\ \A s \in Step : st[s] = "completed" => deps[s] = r.deps[s]
  BY DEF RecordInv, Typed, StepStatus, Plan
<1>4. ready \in SUBSET Step
      /\ \A s \in ready : st[s] = "pending" /\ \A d \in deps[s] : st[d] = "completed"
  BY ReadySteps
<1>5. q.current \in ready \/ q.current = None
  BY <1>2, <1>4, FirstOfSteps
<1> HIDE DEF ready, q, st, deps
<1>6. /\ q.st \in [Step -> StepStatus]
      /\ \A s \in Step : /\ q.st[s] = "completed" <=> r.st[s] = "completed"
                         /\ q.st[s] = "running" => s \in ready
  BY <1>2, <1>3, <1>4, StartedCompletesNone
<1>7. Typed(q)
  BY <1>2, <1>3, <1>4, <1>5, <1>6 DEF Typed
<1>8. \A s \in ready : DoneBefore(q, s)
  BY <1>2, <1>3, <1>4, <1>6 DEF DoneBefore
<1>9. \A s \in Step : q.st[s] = "completed" => DoneBefore(q, s)
  BY <1>2, <1>3, <1>6 DEF DoneBefore, RecordInv, Ordered, Typed
<1>10. Ordered(q)
  BY <1>2, <1>5, <1>6, <1>8, <1>9, PlanAssumption DEF Ordered, Step, None
<1>11. Completed(q) = Completed(r)
  BY <1>6 DEF Completed
<1>12. Counted(q) /\ Judged(q) /\ Earned(q)
  BY <1>2, <1>11 DEF RecordInv, Counted, Judged, Earned, CanReplan, Ended
<1>13. Keeps(r, q)
  BY <1>2, <1>3, <1>6 DEF Keeps
<1>14. Advances(r, q)
  BY <1>2, <1>7, <1>10, <1>12, <1>13 DEF Advances, RecordInv
<1> QED BY <1>14 DEF q

\* A resumption starts what is ready and what is listed as active.
LEMMA ResumeAdvances ==
  ASSUME NEW r, RecordInv(r)
  PROVE  Advances(r, MissionResumed(r))
<1> DEFINE q == MissionResumed(r)
           st == [s \in Step |-> IF r.st[s] \in {"blocked", "failed"} THEN "pending"
                                 ELSE r.st[s]]
           active == r.active \cup Ready(st, r.deps)
           begun == {s \in active : st[s] = "pending"}
           next == Started(st, begun)
           going == {s \in active : next[s] = "running"}
<1>1. CASE OutOfSteps(r) /\ ~AllDone(r)
  <2>1. q = [r EXCEPT !.status = "blocked"]
    BY <1>1 DEF MissionResumed
  <2>2. Marked(r, q)
    BY <2>1 DEF RecordInv, IsRecord, Marked, SameCourse
  <2> QED BY <2>2, MarkedAdvances
<1>2. CASE ~(OutOfSteps(r) /\ ~AllDone(r))
  <2>1. /\ IsRecord(q) /\ q.st = next /\ q.deps = r.deps
        /\ q.active = active /\ q.consumed = r.consumed /\ q.evidence = r.evidence
        /\ q.verified = r.verified /\ q.status = "running"
        /\ q.current = IF going = {} THEN r.current ELSE First(going)
    BY <1>2 DEF RecordInv, IsRecord, MissionResumed
  <2>2. /\ st \in [Step -> StepStatus]
        /\ \A s \in Step : /\ st[s] = "completed" <=> r.st[s] = "completed"
                           /\ st[s] = "running" <=> r.st[s] = "running"
    BY DEF RecordInv, Typed, StepStatus
  <2>3. Ready(st, r.deps) \in SUBSET Step
        /\ \A s \in Ready(st, r.deps) : \A d \in r.deps[s] : st[d] = "completed"
    BY ReadySteps
  <2>4. active \in SUBSET Step /\ \A s \in active : DoneBefore(r, s)
    BY <2>2, <2>3 DEF DoneBefore, RecordInv, Ordered, Typed
  <2>5. q.current \in active \/ q.current = r.current \/ q.current = None
    BY <2>1, <2>4, FirstOfSteps
  <2>6. begun \subseteq active /\ \A s \in begun : st[s] = "pending"
    OBVIOUS
  <2> HIDE DEF q, st, active, begun
  <2>7. /\ q.st \in [Step -> StepStatus]
        /\ \A s \in Step : /\ q.st[s] = "completed" <=> r.st[s] = "completed"
                           /\ q.st[s] = "running" => s \in active \/ r.st[s] = "running"
    BY <2>1, <2>2, <2>4, <2>6, StartedCompletesNone
  <2> HIDE DEF next, going
  <2>8. Typed(q)
    BY <2>1, <2>4, <2>5, <2>7 DEF RecordInv, Typed
  <2>9. \A s \in Step : DoneBefore(r, s) => DoneBefore(q, s)
    BY <2>1, <2>7 DEF DoneBefore, RecordInv, Typed
  <2>10. Ordered(q)
    BY <2>1, <2>4, <2>5, <2>7, <2>9, PlanAssumption DEF RecordInv, Ordered, Step, None
  <2>11. Completed(q) = Completed(r)
    BY <2>7 DEF Completed
  <2>12. Counted(q) /\ Judged(q) /\ Earned(q)
    BY <2>1, <2>11 DEF RecordInv, Counted, Judged, Earned
  <2>13. Keeps(r, q)
    BY <2>1, <2>7 DEF Keeps
  <2>14. Advances(r, q)
    BY <2>1, <2>8, <2>10, <2>12, <2>13 DEF Advances, RecordInv
  <2> QED BY <2>14 DEF q
<1> QED BY <1>1, <1>2

\* Completing a running step completes that one, which was not completed.
LEMMA CompletingAdvances ==
  ASSUME NEW r, RecordInv(r), NEW s, CanCompleteStep(r, s)
  PROVE  Advances(r, StepCompleted(r, s))
<1> DEFINE q == StepCompleted(r, s)
           done == [r.st EXCEPT ![s] = "completed"]
           ready == Ready(done, r.deps)
           active == (Active(r) \ {s}) \cup ready
<1>1. /\ IsRecord(q) /\ q.st = Started(done, ready) /\ q.deps = r.deps
      /\ q.active = active /\ q.consumed = r.consumed + 1 /\ q.evidence = r.evidence
      /\ q.verified = r.verified /\ q.status = "running" /\ q.current = First(active)
  BY DEF RecordInv, IsRecord, StepCompleted, CanCompleteStep
<1>2. s \in Step /\ r.st[s] = "running" /\ DoneBefore(r, s)
  BY DEF CanCompleteStep, Running, DoneBefore
<1>3. /\ done \in [Step -> StepStatus]
      /\ \A t \in Step : t # s => done[t] = r.st[t]
      /\ done[s] = "completed"
  BY <1>2 DEF RecordInv, Typed, StepStatus
<1>4. /\ ready \in SUBSET Step
      /\ \A t \in ready : done[t] = "pending" /\ \A d \in r.deps[t] : done[d] = "completed"
  BY ReadySteps
<1>5. \A t \in Step : DoneBefore(r, t) => \A d \in r.deps[t] : done[d] = "completed"
  BY <1>3 DEF DoneBefore, RecordInv, Typed
<1>6. /\ active \in SUBSET Step
      /\ \A t \in active : \A d \in r.deps[t] : done[d] = "completed"
  <2>1. Active(r) \in SUBSET Step /\ \A t \in Active(r) : DoneBefore(r, t)
    BY PlanAssumption DEF Active, RecordInv, Typed, Ordered, Step, None
  <2> QED BY <2>1, <1>4, <1>5
<1>7. q.current \in active \/ q.current = None
  BY <1>1, <1>6, FirstOfSteps
<1>8. ready \subseteq active
  OBVIOUS
<1> HIDE DEF q, done, ready, active
<1>9. /\ q.st \in [Step -> StepStatus]
      /\ \A t \in Step : /\ q.st[t] = "completed" <=> t = s \/ r.st[t] = "completed"
                         /\ q.st[t] = "completed" <=> done[t] = "completed"
                         /\ q.st[t] = "running" => t \in active \/ r.st[t] = "running"
  BY <1>1, <1>3, <1>4, <1>8, StartedCompletesNone
<1>10. Typed(q)
  BY <1>1, <1>6, <1>7, <1>9 DEF RecordInv, Typed
<1>11. \A t \in Step : (\A d \in r.deps[t] : done[d] = "completed") => DoneBefore(q, t)
  BY <1>1, <1>9 DEF DoneBefore, RecordInv, Typed
<1>12. \A t \in Step : t \in active => DoneBefore(q, t)
  BY <1>6, <1>11
<1>13. \A t \in Step : DoneBefore(r, t) => DoneBefore(q, t)
  BY <1>5, <1>11
<1>14. Ordered(q)
  BY <1>1, <1>2, <1>7, <1>9, <1>12, <1>13, PlanAssumption
  DEF RecordInv, Ordered, Step, None
<1>15. Completed(q) = Completed(r) \cup {s} /\ s \notin Completed(r)
  BY <1>2, <1>9 DEF Completed
<1>16. IsFiniteSet(Completed(r))
  <2>1. IsFiniteSet(Step) /\ Completed(r) \subseteq Step
    BY FS_Interval, PlanAssumption DEF Completed, Step
  <2> QED BY <2>1, FS_Subset
<1>17. Counted(q)
  BY <1>1, <1>15, <1>16, FS_AddElement DEF RecordInv, Counted
<1>18. Judged(q) /\ Earned(q)
  BY <1>1 DEF RecordInv, Judged, Earned
<1>19. Keeps(r, q)
  BY <1>1, <1>9 DEF Keeps
<1>20. Advances(r, q)
  BY <1>1, <1>10, <1>14, <1>17, <1>18, <1>19 DEF Advances, RecordInv
<1> QED BY <1>20 DEF q

LEMMA NewMissionInv == RecordInv(NewMission(FirstPlan))
<1> DEFINE q == NewMission(FirstPlan)
           free == {s \in FirstPlan.steps : FirstPlan.deps[s] = {}}
<1>1. FirstPlan \in Plan
  BY CallAssumption
<1>2. /\ IsRecord(q) /\ q.deps = FirstPlan.deps /\ q.active = {} /\ q.consumed = 0
      /\ q.st = [s \in Step |-> IF s \in FirstPlan.steps THEN "pending" ELSE "absent"]
      /\ q.current = First(free)
      /\ q.verified = FALSE /\ q.status = "queued"
  BY DEF NewMission, IsRecord
<1>3. FirstPlan.deps \in [Step -> SUBSET Step] /\ FirstPlan.steps \in SUBSET Step
  BY <1>1 DEF Plan
<1> HIDE DEF q, free
<1>4. q.current = None \/ (q.current \in Step /\ FirstPlan.deps[q.current] = {})
  <2>1. free \in SUBSET Step
    BY <1>3 DEF free
  <2>2. First(free) \in free \cup {None}
    BY <2>1, FirstOfSteps
  <2>3. q.current \in free \cup {None}
    BY <1>2, <2>2
  <2>4. \A s \in free : s \in Step /\ FirstPlan.deps[s] = {}
    BY <2>1, Zenon DEF free
  <2> QED BY <2>3, <2>4, Zenon
<1>5. q.st \in [Step -> StepStatus] /\ \A s \in Step : q.st[s] \in {"pending", "absent"}
  BY <1>2 DEF StepStatus
<1>6. Typed(q)
  BY <1>2, <1>3, <1>4, <1>5 DEF Typed
<1>7. Ordered(q)
  BY <1>2, <1>4, <1>5, PlanAssumption DEF Ordered, DoneBefore, Step, None
<1>8. Completed(q) = {}
  BY <1>5 DEF Completed
<1>9. Counted(q)
  BY <1>2, <1>8, FS_EmptySet DEF Counted
<1>10. Judged(q) /\ Earned(q)
  BY <1>2 DEF Judged, Earned
<1>11. RecordInv(q)
  BY <1>2, <1>6, <1>7, <1>9, <1>10 DEF RecordInv
<1> QED BY <1>11 DEF q

-----------------------------------------------------------------------------
(* Whatever a caller does, the mission record sees one of its operations.  *)

PlanStep ==
  \/ CanStart(m) /\ m' = MissionStarted(m)
  \/ \E s \in Step : CanCompleteStep(m, s) /\ m' = StepCompleted(m, s)
  \/ \E p \in Plan : CanReplan(m, p) /\ m' = Replanned(m, p)
  \/ \E s \in Step : \E outcome, unsettled :
       CanStopStep(m, s) /\ m' = StepStopped(m, s, outcome, unsettled)
ControlStep ==
  \/ m' = MissionPaused(m) \/ m' = MissionResumed(m) \/ m' = MissionCancelled(m)
  \/ m' = MissionBlocked(m)
WaitStepOf ==
  \/ \E w \in Worker : Park(w)
  \/ m' = Woken(m) \/ m' = SliceRecorded(m)
  \/ m' = [m EXCEPT !.wait = [@ EXCEPT !.due = TRUE]]
ClosingStep ==
  \/ m' = EvidenceRecorded(m) \/ m' = MissionVerified(m)
  \/ CanComplete(m) /\ m' = MissionCompleted(m)
RecordStep == UNCHANGED m \/ PlanStep \/ ControlStep \/ WaitStepOf \/ ClosingStep

LEMMA StepAdvances ==
  ASSUME RecordInv(m), RecordStep
  PROVE  Advances(m, m')
<1>1. CASE UNCHANGED m
  BY <1>1, ControlAdvances
<1>2. CASE PlanStep
  BY <1>2, StartAdvances, CompletingAdvances, ReplanAdvances, StopAdvances DEF PlanStep
<1>3. CASE ControlStep
  BY <1>3, ControlAdvances, ResumeAdvances DEF ControlStep
<1>4. CASE WaitStepOf
  <2>1. \A w : Park(w) => m' = m \/ \E kind, s : m' = MissionWaits(m, kind, s)
    BY DEF Park
  <2> QED BY <1>4, <2>1, ControlAdvances, AccountingAdvances, WaitEndsAdvances
          DEF WaitStepOf
<1>5. CASE ClosingStep
  BY <1>5, EvidenceAdvances, VerdictAdvances, CompletionAdvances DEF ClosingStep
<1> QED BY <1>1, <1>2, <1>3, <1>4, <1>5 DEF RecordStep

LEMMA ContinuesIsRecordStep == ASSUME NEW c \in Caller, Continues(c) PROVE RecordStep
<1>1. CASE Verify(c) \/ CompleteIt(c)
  BY <1>1 DEF Verify, CompleteIt, RecordStep, ClosingStep
<1>2. CASE Refuse(c) \/ Reopen(c)
  BY <1>2 DEF Refuse, Reopen, RecordStep, ControlStep
<1>3. CASE Reverify(c)
  BY <1>3 DEF Reverify, RecordStep, ClosingStep
<1>4. CASE StopStep(c)
  BY <1>4 DEF StopStep, RecordStep, PlanStep, CanStopStep
<1>5. CASE Close(c) \/ Clear(c) \/ Schedule(c) \/ Launch(c) \/ Closeout(c)
           \/ Project(c) \/ Drop(c)
  BY <1>5 DEF Close, Clear, Schedule, Launch, Closeout, Project, Drop, RecordStep
<1> QED BY <1>1, <1>2, <1>3, <1>4, <1>5 DEF Continues, Reconciles, ClosesOut

LEMMA WorksIsRecordStep == ASSUME NEW w \in Worker, Works(w) PROVE RecordStep
<1>1. CASE Enters(w)
  BY <1>1 DEF Enters, Begin, AlreadyDone, NotGoing, FindsWait, FindsWork, Wake,
              TakeStep, BlockBlindly, RecordStep, ControlStep, WaitStepOf
<1>2. CASE TakesTurn(w)
  <2>1. CASE ToolCompletesStep(w)
    BY <2>1 DEF ToolCompletesStep, RecordStep, PlanStep, CanCompleteStep
  <2>2. CASE ToolReplans(w)
    BY <2>2, CallAssumption DEF ToolReplans, RecordStep, PlanStep
  <2>3. CASE ToolRecordsEvidence(w)
    BY <2>3 DEF ToolRecordsEvidence, RecordStep, ClosingStep
  <2>4. CASE ToolPauses(w) \/ ToolBlocks(w)
    BY <2>4 DEF ToolPauses, ToolBlocks, RecordStep, ControlStep
  <2>5. ASSUME NEW turn \in Turns, EndTurn(w, turn) PROVE RecordStep
    BY <2>5, Zenon DEF EndTurn, RecordStep
  <2> QED BY <1>2, <2>1, <2>2, <2>3, <2>4, <2>5 DEF TakesTurn
<1>3. CASE EndsSlice(w)
  <2>1. Account(w) => RecordStep
    BY DEF Account, RecordStep, WaitStepOf
  <2>2. CASE AccountUncertain(w) \/ AccountNothing(w) \/ AccountProgress(w)
             \/ AccountTimer(w) \/ AccountEvent(w)
    BY <2>1, <2>2 DEF AccountUncertain, AccountNothing, AccountProgress,
                      AccountTimer, AccountEvent
  <2>3. CASE BlockRunning(w)
    BY <2>3 DEF BlockRunning, RecordStep, ControlStep
  <2>4. CASE Park(w)
    BY <2>4 DEF RecordStep, WaitStepOf
  <2>5. CASE OwnsStep(w) \/ Recheck(w) \/ HandOff(w)
    BY <2>5 DEF OwnsStep, Recheck, HandOff, RecordStep
  <2>6. CASE Settle(w)
    BY <2>6, Zenon DEF Settle, RecordStep
  <2> QED BY <1>3, <2>2, <2>3, <2>4, <2>5, <2>6 DEF EndsSlice
<1>4. CASE Continues(w)
  BY <1>4, ContinuesIsRecordStep DEF Caller
<1> QED BY <1>1, <1>2, <1>3, <1>4 DEF Works

LEMMA CommandedIsRecordStep == ASSUME NEW d \in Owner, Commanded(d) PROVE RecordStep
<1>1. CASE Start(d) \/ CompleteStep(d)
  BY <1>1 DEF Start, CompleteStep, RecordStep, PlanStep
<1>2. CASE Replan(d)
  BY <1>2, CallAssumption DEF Replan, RecordStep, PlanStep
<1>3. CASE Pause(d) \/ Cancel(d) \/ AskResume(d) \/ Repair(d)
  BY <1>3 DEF Pause, Cancel, AskResume, Repair, RecordStep, ControlStep
<1>4. CASE RecordEvidence(d) \/ AskVerify(d)
  BY <1>4 DEF RecordEvidence, AskVerify, RecordStep, ClosingStep
<1>5. CASE EventArrives(d)
  BY <1>5 DEF EventArrives, RecordStep, WaitStepOf
<1> QED BY <1>1, <1>2, <1>3, <1>4, <1>5 DEF Commanded

LEMMA NextIsRecordStep == ASSUME Next PROVE RecordStep
<1>1. ASSUME NEW w \in Worker, Works(w) \/ Crash(w) PROVE RecordStep
  BY <1>1, WorksIsRecordStep DEF Crash, RecordStep
<1>2. ASSUME NEW d \in Driver, Drives(d) PROVE RecordStep
  <2>1. CASE Resume(d)
    BY <2>1 DEF Resume, RecordStep, ControlStep, WaitStepOf
  <2>2. CASE CallUp(d)
    BY <2>2 DEF CallUp, RecordStep
  <2>3. CASE Continues(d)
    BY <2>3, ContinuesIsRecordStep DEF Caller
  <2> QED BY <1>2, <2>1, <2>2, <2>3 DEF Drives
<1>3. CASE Sweep
  BY <1>3 DEF Sweep, SweepsLateEvent, SweepsDueTimer, SweepReconciles, BlockQuarantined,
              SweepRepairs, SweepFindsLapsed, Quarantine, RecordStep, ControlStep
<1>4. CASE Time
  BY <1>4 DEF Time, WaitEnds, TaskDue, RecordStep, WaitStepOf
<1> QED BY <1>1, <1>2, <1>3, <1>4, CommandedIsRecordStep DEF Next

-----------------------------------------------------------------------------
(* The theorems.                                                           *)

LEMMA RecordInvInit == Init => RecordInv(m)
BY NewMissionInv DEF Init

LEMMA RecordInvStep == RecordInv(m) /\ [Next]_vars => RecordInv(m)' /\ Keeps(m, m')
<1> SUFFICES ASSUME RecordInv(m), [Next]_vars PROVE RecordInv(m') /\ Keeps(m, m')
  OBVIOUS
<1>1. RecordStep
  BY NextIsRecordStep DEF vars, RecordStep
<1> QED BY <1>1, StepAdvances DEF Advances

\* The mission record is well-formed, in order, counted, judged and earned in
\* every state of every interleaving of its callers.
THEOREM RecordInvariant == Spec => []RecordInv(m)
BY RecordInvInit, RecordInvStep, PTL DEF Spec

\* No step starts before its dependencies are done (readyMissionSteps and all who
\* start steps: startMission, completeMissionStep, replanMission, resumeMission).
THEOREM StepsRunInOrder == Spec => []DependencyOrder
<1>1. RecordInv(m) => DependencyOrder
  BY DEF RecordInv, Ordered, DoneBefore, DependencyOrder
<1> QED BY <1>1, RecordInvariant, PTL

\* A completed step is completed in every later plan, with the dependencies it had
\* (replanMission, reconcileTerminalMissionTask, resumeMission).
THEOREM CompletedWorkStays == Spec => CompletedWorkIsKept
<1>1. RecordInv(m) /\ [Next]_vars =>
        [\A s \in Step : m.st[s] = "completed" =>
           m'.st[s] = "completed" /\ m'.deps[s] = m.deps[s]]_vars
  BY RecordInvStep DEF Keeps
<1> QED BY <1>1, RecordInvariant, PTL DEF Spec, CompletedWorkIsKept

\* The step budget counts each completed step once, though the worker, its tool and
\* the owner may all report it (completeMissionStep).
THEOREM StepsAreCountedOnce == Spec => []StepsCountedOnce
<1>1. RecordInv(m) => StepsCountedOnce
  BY DEF RecordInv, Counted, StepsCountedOnce
<1> QED BY <1>1, RecordInvariant, PTL

\* A completed mission has all its steps completed and, if strict, its evidence,
\* whatever happened between the closing's reads and writes (finalizeMissionIfReady).
THEOREM MissionsAreEarned == Spec => []CompletionIsEarned
<1>1. RecordInv(m) => CompletionIsEarned
  BY DEF RecordInv, Earned, CompletionIsEarned
<1> QED BY <1>1, RecordInvariant, PTL
-----------------------------------------------------------------------------
(***************************************************************************)
(* Types.  A call may wait only for a timer or an event, so no call comes  *)
(* to park but from such a turn; and a worker that is at work has a step.  *)
(***************************************************************************)
CallOK(c, x) ==
  /\ x \in Call
  /\ x.then # "park" /\ x.back # "park"
  /\ x.pc = "park" => x.turn \in {"timer", "event"}
  /\ c \in Worker /\ x.pc # "idle" => x.step \in Step

CallsOK == call \in [Caller -> Call] /\ \A c \in Caller : CallOK(c, call[c])

TypeInv == TypeOK /\ CallsOK

\* The fields that the record invariant does not speak of.
MarksTyped(r) ==
  /\ r.status \in MissionStatus
  /\ r.wait \in [kind : {"none", "timer", "event"}, step : Step \cup {None},
                 due : BOOLEAN]
  /\ r.evidence \in BOOLEAN /\ r.verified \in BOOLEAN
  /\ r.slices \in 0..(MaxSlices + 1)

LEMMA ConsumedType == ASSUME NEW r, Counted(r) PROVE r.consumed \in 0..NSteps
<1>1. NSteps \in Nat /\ Step = 1..NSteps
  BY PlanAssumption DEF Step
<1>2. IsFiniteSet(Step) /\ Cardinality(Step) = NSteps
  BY <1>1, FS_Interval
<1>3. Completed(r) \subseteq Step
  BY DEF Completed
<1>4. Cardinality(Completed(r)) \in Nat /\ Cardinality(Completed(r)) <= NSteps
  BY <1>2, <1>3, FS_Subset, FS_CardinalityType
<1> QED BY <1>1, <1>4 DEF Counted

LEMMA NoWaitType ==
  NoWait \in [kind : {"none", "timer", "event"}, step : Step \cup {None}, due : BOOLEAN]
BY DEF NoWait, Wait

\* What an operation writes beside the plan's course.
LEMMA MarksKept ==
  ASSUME NEW r \in MissionRecordType
  PROVE  /\ MissionPaused(r) \in MissionRecordType
         /\ MissionCancelled(r) \in MissionRecordType
         /\ MissionBlocked(r) \in MissionRecordType
         /\ MissionCompleted(r) \in MissionRecordType
         /\ Woken(r) \in MissionRecordType
         /\ EvidenceRecorded(r) \in MissionRecordType
         /\ MissionVerified(r) \in MissionRecordType
         /\ SliceRecorded(r) \in MissionRecordType
         /\ [r EXCEPT !.wait = [@ EXCEPT !.due = TRUE]] \in MissionRecordType
         /\ \A kind \in {"timer", "event"}, s \in Step \cup {None} :
              MissionWaits(r, kind, s) \in MissionRecordType
<1>1. \A t \in MissionStatus : [r EXCEPT !.status = t, !.wait = NoWait] \in MissionRecordType
  BY NoWaitType DEF MissionRecordType
<1>2. /\ MissionPaused(r) \in MissionRecordType
      /\ MissionCancelled(r) \in MissionRecordType
      /\ MissionBlocked(r) \in MissionRecordType
      /\ MissionCompleted(r) \in MissionRecordType
      /\ Woken(r) \in MissionRecordType
  BY <1>1 DEF MissionPaused, MissionCancelled, MissionBlocked, MissionCompleted, Woken,
              MissionStatus
<1>3. EvidenceRecorded(r) \in MissionRecordType
  BY DEF EvidenceRecorded, MissionRecordType
<1>4. MissionVerified(r) \in MissionRecordType
  <2> DEFINE verdict == AllDone(r) /\ (Strict => r.evidence)
  <2>1. verdict \in BOOLEAN
    OBVIOUS
  <2>2. MissionVerified(r) = [r EXCEPT !.verified = verdict]
    BY DEF MissionVerified
  <2> HIDE DEF verdict
  <2> QED BY <2>1, <2>2 DEF MissionRecordType
<1>5. SliceRecorded(r) \in MissionRecordType
  <2>1. r.slices \in 0..(MaxSlices + 1) /\ MaxSlices \in Nat /\ r.status \in MissionStatus
    BY PlanAssumption DEF MissionRecordType
  <2> DEFINE slices == IF r.slices > MaxSlices THEN r.slices ELSE r.slices + 1
             status == IF r.status = "running" /\ slices > MaxSlices THEN "blocked"
                       ELSE r.status
  <2>2. slices \in 0..(MaxSlices + 1)
    BY <2>1
  <2>3. status \in MissionStatus
    BY <2>1 DEF MissionStatus
  <2>4. SliceRecorded(r) = [r EXCEPT !.slices = slices, !.status = status]
    BY DEF SliceRecorded, MissionRecordType
  <2> HIDE DEF slices, status
  <2> QED BY <2>2, <2>3, <2>4 DEF MissionRecordType
<1>6. [r EXCEPT !.wait = [@ EXCEPT !.due = TRUE]] \in MissionRecordType
  BY DEF MissionRecordType
<1>7. ASSUME NEW kind \in {"timer", "event"}, NEW s \in Step \cup {None}
      PROVE  MissionWaits(r, kind, s) \in MissionRecordType
  <2>1. Wait(kind, s) \in [kind : {"none", "timer", "event"}, step : Step \cup {None},
                           due : BOOLEAN]
    BY DEF Wait
  <2>2. "waiting" \in MissionStatus
    BY DEF MissionStatus
  <2> HIDE DEF Wait
  <2> QED BY <2>1, <2>2 DEF MissionWaits, MissionRecordType
<1> QED BY <1>2, <1>3, <1>4, <1>5, <1>6, <1>7

\* ... and those that change the course: by the record invariant, whatever they
\* make of steps, dependencies and the count has its type.
LEMMA RecordTyped ==
  ASSUME NEW q, IsRecord(q), q = [f \in DOMAIN q |-> q[f]],
         Typed(q), Counted(q), MarksTyped(q)
  PROVE  q \in MissionRecordType
BY ConsumedType DEF IsRecord, Typed, MarksTyped, MissionRecordType

LEMMA PlanStepTyped ==
  ASSUME NEW r \in MissionRecordType, NEW q, RecordInv(q),
         \/ q = MissionStarted(r)
         \/ \E s \in Step : q = StepCompleted(r, s)
         \/ \E p \in Plan : q = Replanned(r, p)
         \/ \E s \in Step : \E outcome, unsettled : q = StepStopped(r, s, outcome, unsettled)
         \/ q = MissionResumed(r)
  PROVE  q \in MissionRecordType
<1>1. Typed(q) /\ Counted(q) /\ IsRecord(q)
  BY DEF RecordInv
<1>2. /\ MarksTyped(r) /\ IsRecord(r)
      /\ {"running", "blocked", "failed"} \subseteq MissionStatus
  BY DEF MissionRecordType, MarksTyped, IsRecord, MissionStatus
<1>3. CASE q = MissionStarted(r)
  <2>1. q = [f \in DOMAIN q |-> q[f]]
    BY <1>3 DEF MissionStarted
  <2>2. MarksTyped(q)
    BY <1>2, <1>3 DEF MissionStarted, MarksTyped, IsRecord
  <2> QED BY <1>1, <2>1, <2>2, RecordTyped
<1>4. ASSUME NEW s \in Step, q = StepCompleted(r, s) PROVE q \in MissionRecordType
  <2>1. q = [f \in DOMAIN q |-> q[f]]
    BY <1>4 DEF StepCompleted
  <2>2. MarksTyped(q)
    BY <1>2, <1>4 DEF StepCompleted, MarksTyped, IsRecord
  <2> QED BY <1>1, <2>1, <2>2, RecordTyped
<1>5. ASSUME NEW p \in Plan, q = Replanned(r, p) PROVE q \in MissionRecordType
  <2>1. q = [f \in DOMAIN q |-> q[f]]
    BY <1>5 DEF Replanned
  <2>2. MarksTyped(q)
    BY <1>2, <1>5 DEF Replanned, MarksTyped, IsRecord
  <2> QED BY <1>1, <2>1, <2>2, RecordTyped
<1>6. ASSUME NEW s \in Step, NEW outcome, NEW unsettled,
             q = StepStopped(r, s, outcome, unsettled)
      PROVE  q \in MissionRecordType
  <2>1. q = [f \in DOMAIN q |-> q[f]]
    BY <1>6 DEF StepStopped
  <2>2. MarksTyped(q)
    BY <1>2, <1>6, NoWaitType DEF StepStopped, MarksTyped, IsRecord
  <2> QED BY <1>1, <2>1, <2>2, RecordTyped
<1>7. CASE q = MissionResumed(r)
  <2>1. q = [f \in DOMAIN q |-> q[f]]
    BY <1>7 DEF MissionResumed
  <2>2. MarksTyped(q)
    BY <1>2, <1>7, NoWaitType DEF MissionResumed, MarksTyped, IsRecord
  <2> QED BY <1>1, <2>1, <2>2, RecordTyped
<1> QED BY <1>3, <1>4, <1>5, <1>6, <1>7

LEMMA NewMissionType == NewMission(FirstPlan) \in MissionRecordType
<1>1. RecordInv(NewMission(FirstPlan))
  BY NewMissionInv
<1>2. MarksTyped(NewMission(FirstPlan))
  BY NoWaitType, PlanAssumption DEF NewMission, MarksTyped, MissionStatus
<1>3. NewMission(FirstPlan)
        = [f \in DOMAIN NewMission(FirstPlan) |-> NewMission(FirstPlan)[f]]
  BY DEF NewMission
<1> QED BY <1>1, <1>2, <1>3, RecordTyped DEF RecordInv

\* Where a call may go, but to park.
Places == Point \ {"park"}

LEMMA PlacesAre ==
  /\ {"idle", "settle", "close", "clear", "plan", "launch", "turn", "handoff",
       "recheck", "block", "blind", "wake", "lease", "begin", "own", "account"}
       \subseteq Places
  /\ {"verify", "refuse", "complete", "project", "stop", "quarantine", "quarantined",
       "drop", "resume", "call up", "closeout", "reverify", "reopen"} \subseteq Places
  /\ "park" \in Point /\ Places \subseteq Point
BY DEF Places, Point

\* How a call moves on keeps it well-formed.
LEMMA IdleOK == \A c : CallOK(c, Idle)
BY DEF CallOK, Idle, Call, Point, Outcome, Class

LEMMA SetOK ==
  ASSUME TypeInv, NEW c \in Caller, NEW x, CallOK(c, x), Set(c, x)
  PROVE  CallsOK'
<1>1. call \in [Caller -> Call] /\ \A d \in Caller : CallOK(d, call[d])
  BY DEF TypeInv, CallsOK
<1>2. PICK y : CallOK(c, y) /\ call' = [call EXCEPT ![c] = y]
  BY IdleOK DEF Set
<1>3. y \in Call
  BY <1>2 DEF CallOK
<1>4. call' \in [Caller -> Call]
  BY <1>1, <1>2, <1>3
<1>5. \A d \in Caller : call'[d] = IF d = c THEN y ELSE call[d]
  BY <1>1, <1>2
<1> QED BY <1>1, <1>2, <1>4, <1>5 DEF CallsOK

LEMMA KnownCall ==
  ASSUME TypeInv, NEW c \in Caller
  PROVE  /\ CallOK(c, call[c]) /\ call[c] \in Call
         /\ c \in Worker /\ call[c].pc # "idle" => call[c].step \in Step
  BY DEF TypeInv, CallsOK, CallOK

LEMMA Fields ==
  ASSUME TypeInv, NEW c \in Caller
  PROVE  /\ call[c].pc \in Point /\ call[c].out \in Outcome /\ call[c].seen \in SUBSET Step
         /\ call[c].then \in Places /\ call[c].back \in Places
         /\ call[c].flag \in BOOLEAN /\ call[c].class \in Class
         /\ call[c].step \in Step \cup {None} /\ call[c].turn \in Turns \cup {"none"}
  BY KnownCall, PlacesAre DEF CallOK, Call, Places

\* A call at work, which goes on elsewhere but to park.
LEMMA MovesOK ==
  ASSUME TypeInv, NEW c \in Caller, call[c].pc # "idle",
         NEW x \in Call, Set(c, x), x.step = call[c].step,
         x.pc # "park", x.then # "park", x.back # "park"
  PROVE  CallsOK'
<1>1. CallOK(c, x)
  BY KnownCall DEF CallOK
<1> QED BY <1>1, SetOK

LEMMA GoOK ==
  ASSUME TypeInv, NEW c \in Caller, call[c].pc # "idle",
         NEW pc \in Places, Go(c, pc)
  PROVE  CallsOK'
<1> DEFINE x == [call[c] EXCEPT !.pc = pc]
<1>1. /\ x \in Call /\ x.step = call[c].step /\ x.pc = pc
      /\ x.then = call[c].then /\ x.back = call[c].back
  BY KnownCall, PlacesAre DEF Call
<1>2. Set(c, x)
  BY DEF Go
<1> HIDE DEF x
<1> QED BY <1>1, <1>2, Fields, MovesOK DEF Places

LEMMA ReportOK ==
  ASSUME TypeInv, NEW c \in Caller, call[c].pc # "idle",
         NEW outcome \in Outcome, Report(c, outcome)
  PROVE  CallsOK'
<1> DEFINE x == [call[c] EXCEPT !.pc = "settle", !.out = outcome]
<1>1. /\ x \in Call /\ x.step = call[c].step /\ x.pc = "settle"
      /\ x.then = call[c].then /\ x.back = call[c].back
  BY KnownCall, PlacesAre DEF Call
<1>2. Set(c, x)
  BY DEF Report
<1> HIDE DEF x
<1> QED BY <1>1, <1>2, Fields, MovesOK DEF Places

LEMMA ReconcileOK ==
  ASSUME TypeInv, NEW c \in Caller, call[c].pc # "idle",
         NEW outcome \in Outcome, Reconcile(c, "settle", outcome)
  PROVE  CallsOK'
<1> DEFINE x == [call[c] EXCEPT !.pc = "close", !.then = "clear", !.back = "settle",
                                !.out = outcome]
<1>1. /\ x \in Call /\ x.step = call[c].step /\ x.pc = "close"
      /\ x.then = "clear" /\ x.back = "settle"
  BY KnownCall, PlacesAre DEF Call
<1>2. Set(c, x)
  BY DEF Reconcile
<1> HIDE DEF x
<1> QED BY <1>1, <1>2, MovesOK DEF Places

LEMMA CloseThenOK ==
  ASSUME TypeInv, NEW c \in Caller, call[c].pc # "idle",
         NEW then \in Places, CloseThen(c, then)
  PROVE  CallsOK'
<1> DEFINE x == [call[c] EXCEPT !.pc = "close", !.then = then]
<1>1. /\ x \in Call /\ x.step = call[c].step /\ x.pc = "close"
      /\ x.then = then /\ x.back = call[c].back
  BY KnownCall, PlacesAre DEF Call
<1>2. Set(c, x)
  BY DEF CloseThen
<1> HIDE DEF x
<1> QED BY <1>1, <1>2, Fields, MovesOK DEF Places

LEMMA ReturnOK ==
  ASSUME TypeInv, NEW c \in Caller, call[c].pc # "idle", Return(c)
  PROVE  CallsOK'
<1> DEFINE x == [call[c] EXCEPT !.pc = call[c].back, !.seen = {}, !.then = "idle",
                                !.back = "idle"]
<1>1. /\ x \in Call /\ x.step = call[c].step /\ x.pc = call[c].back
      /\ x.then = "idle" /\ x.back = "idle"
  BY KnownCall, Fields, PlacesAre DEF Call
<1>2. Set(c, x)
  BY DEF Return
<1> HIDE DEF x
<1> QED BY <1>1, <1>2, Fields, MovesOK DEF Places

LEMMA RunningSteps ==
  ASSUME NEW r \in MissionRecordType PROVE Running(r) \subseteq Step
BY DEF Running, Active, MissionRecordType

LEMMA ClosedOK ==
  ASSUME TypeInv, NEW c \in Caller, call[c].pc # "idle",
         NEW r \in MissionRecordType, Closed(c, r)
  PROVE  CallsOK'
<1> DEFINE seen == IF call[c].then = "clear" THEN Running(r) ELSE call[c].seen
           x == [call[c] EXCEPT !.pc = call[c].then, !.then = "idle", !.seen = seen]
<1>1. CASE Return(c)
  BY <1>1, ReturnOK
<1>2. CASE Set(c, x)
  <2>1. seen \in SUBSET Step
    BY Fields, RunningSteps
  <2> HIDE DEF seen
  <2>2. /\ x \in Call /\ x.step = call[c].step /\ x.pc = call[c].then
        /\ x.then = "idle" /\ x.back = call[c].back
    BY <2>1, KnownCall, Fields, PlacesAre DEF Call
  <2> HIDE DEF x
  <2> QED BY <1>2, <2>2, Fields, MovesOK DEF Places
<1>3. Return(c) \/ Set(c, x)
  BY KnownCall DEF Closed, Call
<1> QED BY <1>1, <1>2, <1>3

\* A call that begins, or begins again for its step.
LEMMA BeginsOK ==
  ASSUME TypeInv, NEW c \in Caller, NEW x \in Call, Set(c, x),
         c \in Worker => x.step \in Step,
         x.pc # "park", x.then # "park", x.back # "park"
  PROVE  CallsOK'
<1>1. CallOK(c, x)
  BY DEF CallOK
<1> QED BY <1>1, SetOK

LEMMA ThenOK ==
  ASSUME TypeInv, NEW d \in Driver, NEW pc \in Places, Then(d, pc)
  PROVE  CallsOK'
<1> DEFINE then == IF pc = "close" THEN "clear" ELSE "idle"
           x == [Idle EXCEPT !.pc = pc, !.then = then]
<1>1. d \in Caller /\ d \notin Worker
  BY CallAssumption DEF Caller, Driver
<1>2. then \in Places
  BY PlacesAre
<1>3. Set(d, x)
  BY DEF Then
<1> HIDE DEF then
<1>4. x \in Call /\ x.pc = pc /\ x.then = then /\ x.back = "idle"
  BY <1>2, IdleOK, PlacesAre DEF CallOK, Call, Idle
<1> HIDE DEF x
<1> QED BY <1>1, <1>2, <1>3, <1>4, BeginsOK DEF Places

LEMMA UsedOK ==
  ASSUME TypeInv, NEW w \in Worker, call[w].pc # "idle",
         NEW pc \in Places, Used(w, pc)
  PROVE  CallsOK'
<1> DEFINE then == IF pc = "close" THEN "clear" ELSE "idle"
           x == [call[w] EXCEPT !.pc = pc, !.flag = TRUE, !.back = "turn", !.then = then]
<1>1. w \in Caller
  BY DEF Caller
<1>2. then \in Places /\ "turn" \in Places
  BY PlacesAre
<1>3. Set(w, x)
  BY DEF Used
<1> HIDE DEF then
<1>4. /\ x \in Call /\ x.step = call[w].step /\ x.pc = pc
      /\ x.then = then /\ x.back = "turn"
  BY <1>1, <1>2, KnownCall, PlacesAre DEF Call
<1> HIDE DEF x
<1> QED BY <1>1, <1>2, <1>3, <1>4, MovesOK DEF Places

\* A call that keeps its step and goes on with these steps, or to this outcome.
LEMMA ListsOK ==
  ASSUME TypeInv, NEW c \in Caller, call[c].pc # "idle", NEW pc \in Places,
         NEW seen \in SUBSET Step, Set(c, [call[c] EXCEPT !.pc = pc, !.seen = seen])
  PROVE  CallsOK'
<1> DEFINE x == [call[c] EXCEPT !.pc = pc, !.seen = seen]
<1>1. /\ x \in Call /\ x.step = call[c].step /\ x.pc = pc
      /\ x.then = call[c].then /\ x.back = call[c].back
  BY KnownCall, PlacesAre DEF Call
<1> HIDE DEF x
<1> QED BY <1>1, Fields, MovesOK DEF Places, x

LEMMA SettlesOK ==
  ASSUME TypeInv, NEW c \in Caller, call[c].pc # "idle", NEW outcome \in Outcome,
         NEW class \in Class,
         Set(c, [call[c] EXCEPT !.pc = "settle", !.out = outcome, !.class = class])
  PROVE  CallsOK'
<1> DEFINE x == [call[c] EXCEPT !.pc = "settle", !.out = outcome, !.class = class]
<1>1. /\ x \in Call /\ x.step = call[c].step /\ x.pc = "settle"
      /\ x.then = call[c].then /\ x.back = call[c].back
  BY KnownCall, PlacesAre DEF Call
<1> HIDE DEF x
<1> QED BY <1>1, Fields, MovesOK DEF Places, x

LEMMA ContinuesTyped ==
  ASSUME TypeInv, m' \in MissionRecordType, NEW c \in Caller, Continues(c)
  PROVE  CallsOK'
<1>0. m \in MissionRecordType
  BY DEF TypeInv, TypeOK
<1>1. CASE Close(c) \/ Verify(c) \/ CompleteIt(c)
  BY <1>0, <1>1, GoOK, ClosedOK, PlacesAre DEF Close, Verify, CompleteIt, At
<1>2. CASE Refuse(c)
  <2>1. [m EXCEPT !.status = "running"] \in MissionRecordType
    BY <1>0 DEF MissionRecordType, MissionStatus
  <2>2. CASE CanBlock(m)
    BY <1>2, <2>2, ClosedOK DEF Refuse, At
  <2>3. CASE ~CanBlock(m)
    BY <1>2, <2>1, <2>3, ClosedOK DEF Refuse, At
  <2> QED BY <2>2, <2>3
<1>3. CASE Clear(c) \/ Drop(c)
  BY <1>3, CloseThenOK, ReturnOK, PlacesAre DEF Clear, Drop, At
<1>4. CASE Schedule(c) \/ Launch(c)
  <2>1. ToSchedule \in SUBSET Step
    BY <1>0, RunningSteps DEF ToSchedule
  <2>2. \A S : call[c].seen \ S \in SUBSET Step
    BY Fields
  <2>3. CASE Schedule(c)
    BY <2>1, <2>3, ReturnOK, ListsOK, PlacesAre DEF Schedule, At
  <2>4. CASE Launch(c)
    <3> DEFINE left == call[c].seen \ {First(call[c].seen)}
               x == [call[c] EXCEPT !.seen = left]
    <3>1. Return(c) \/ Set(c, x)
      BY <2>4, Zenon DEF Launch
    <3>2. left \in SUBSET Step /\ call[c].pc = "launch"
      BY <2>2, <2>4 DEF Launch, At
    <3> HIDE DEF left
    <3>3. /\ x \in Call /\ x.step = call[c].step /\ x.pc = call[c].pc
          /\ x.then = call[c].then /\ x.back = call[c].back
      BY <3>2, KnownCall DEF Call
    <3> HIDE DEF x
    <3> QED BY <3>1, <3>2, <3>3, ReturnOK, MovesOK, Fields DEF Places
  <2> QED BY <1>4, <2>3, <2>4
<1>5. CASE Project(c)
  <2>1. PICK flag \in BOOLEAN : Set(c, [call[c] EXCEPT !.pc = "stop", !.flag = flag])
    BY <1>5, Zenon DEF Project
  <2> DEFINE x == [call[c] EXCEPT !.pc = "stop", !.flag = flag]
  <2>2. /\ x \in Call /\ x.step = call[c].step /\ x.pc = "stop"
        /\ x.then = call[c].then /\ x.back = call[c].back
    BY KnownCall, PlacesAre DEF Call
  <2> HIDE DEF x
  <2> QED BY <1>5, <2>1, <2>2, MovesOK, Fields DEF Places, Project, At, x
<1>6. CASE StopStep(c)
  BY <1>6, GoOK, PlacesAre DEF StopStep, At
<1>7. CASE ClosesOut(c)
  BY <1>7, GoOK, ReturnOK, CloseThenOK, PlacesAre, Fields
  DEF ClosesOut, Closeout, Reverify, Reopen, At
<1> QED BY <1>1, <1>2, <1>3, <1>4, <1>5, <1>6, <1>7 DEF Continues, Reconciles

LEMMA EntersTyped ==
  ASSUME TypeInv, m' \in MissionRecordType, NEW w \in Worker, Enters(w)
  PROVE  CallsOK'
<1>0. w \in Caller /\ m.status \in MissionStatus /\ Ended \subseteq Outcome
      /\ {"completed", "blocked", "waiting", "queued"} \subseteq Outcome
  BY DEF TypeInv, TypeOK, MissionRecordType, Caller, Outcome, Ended
<1>1. ASSUME NEW s \in Step, Begin(w, s) PROVE CallsOK'
  <2> DEFINE x == [Idle EXCEPT !.pc = "begin", !.step = s]
  <2>1. x \in Call /\ x.pc = "begin" /\ x.step = s /\ x.then = "idle" /\ x.back = "idle"
    BY IdleOK, PlacesAre DEF CallOK, Call, Idle
  <2> HIDE DEF x
  <2> QED BY <1>0, <1>1, <2>1, BeginsOK DEF Begin, x
<1>2. CASE AlreadyDone(w) \/ NotGoing(w)
  BY <1>0, <1>2, GoOK, ReportOK, ReconcileOK, PlacesAre DEF AlreadyDone, NotGoing, At
<1>3. CASE FindsWait(w) \/ FindsWork(w) \/ Wake(w) \/ TakeStep(w) \/ BlockBlindly(w)
  BY <1>0, <1>3, GoOK, ReportOK, PlacesAre
  DEF FindsWait, FindsWork, Wake, TakeStep, BlockBlindly, Enter, At
<1> QED BY <1>1, <1>2, <1>3 DEF Enters

LEMMA TurnTyped ==
  ASSUME TypeInv, NEW w \in Worker, TakesTurn(w)
  PROVE  CallsOK'
<1>0. w \in Caller
  BY DEF Caller
<1>1. CASE ToolCompletesStep(w) \/ ToolReplans(w) \/ ToolRecordsEvidence(w)
           \/ ToolPauses(w) \/ ToolBlocks(w)
  BY <1>1, UsedOK, PlacesAre
  DEF ToolCompletesStep, ToolReplans, ToolRecordsEvidence, ToolPauses, ToolBlocks,
      Uses, At
<1>2. ASSUME NEW turn \in Turns, EndTurn(w, turn) PROVE CallsOK'
  <2> DEFINE x == [call[w] EXCEPT !.turn = turn, !.flag = FALSE, !.back = "idle"]
  <2>1. /\ x \in Call /\ x.step = call[w].step /\ x.then = call[w].then
        /\ x.back = "idle" /\ x.turn = turn
    BY <1>0, KnownCall, PlacesAre DEF Call
  <2>2. \/ Set(w, [x EXCEPT !.pc = "settle", !.out = "failed"])
        \/ Set(w, [x EXCEPT !.pc = "own"])
        \/ Set(w, [x EXCEPT !.pc = "account"])
    BY <1>2 DEF EndTurn
  <2>3. call[w].pc # "idle"
    BY <1>2 DEF EndTurn, At
  <2> HIDE DEF x
  <2>4. ASSUME NEW pc \in {"settle", "own", "account"}, NEW outcome \in Outcome,
               Set(w, [x EXCEPT !.pc = pc, !.out = outcome])
        PROVE  CallsOK'
    <3> DEFINE y == [x EXCEPT !.pc = pc, !.out = outcome]
    <3>1. /\ y \in Call /\ y.step = call[w].step /\ y.pc = pc
          /\ y.then = call[w].then /\ y.back = "idle"
      BY <2>1, PlacesAre DEF Call
    <3>2. Set(w, y)
      BY <2>4
    <3> HIDE DEF y
    <3> QED BY <1>0, <2>3, <3>1, <3>2, MovesOK, Fields DEF Places
  <2>5. /\ [x EXCEPT !.pc = "own"] = [x EXCEPT !.pc = "own", !.out = x.out]
        /\ [x EXCEPT !.pc = "account"] = [x EXCEPT !.pc = "account", !.out = x.out]
    BY <2>1 DEF Call
  <2>6. x.out \in Outcome /\ "failed" \in Outcome
    BY <2>1 DEF Call, Outcome
  <2> QED BY <2>2, <2>4, <2>5, <2>6
<1> QED BY <1>1, <1>2 DEF TakesTurn

LEMMA EndsTyped ==
  ASSUME TypeInv, m' \in MissionRecordType, NEW w \in Worker, EndsSlice(w)
  PROVE  CallsOK'
<1>0. /\ w \in Caller /\ m.status \in MissionStatus /\ m'.status \in MissionStatus
      /\ Ended \subseteq Outcome /\ "uncertain" \in Class /\ "no_progress" \in Class
      /\ {"completed", "blocked", "waiting", "queued", "failed", "progress"}
           \subseteq Outcome
  BY DEF TypeInv, TypeOK, MissionRecordType, Caller, Outcome, Ended, Class
<1>1. CASE OwnsStep(w) \/ Recheck(w) \/ HandOff(w)
  BY <1>0, <1>1, GoOK, ReportOK, ReconcileOK, PlacesAre
  DEF OwnsStep, Recheck, HandOff, At
<1>2. CASE AccountUncertain(w)
  BY <1>0, <1>2, SettlesOK DEF AccountUncertain, At
<1>3. CASE AccountNothing(w)
  <2> DEFINE outcome == IF CanRecordSlice(m) /\ m'.status = "blocked" THEN "blocked"
                        ELSE "failed"
             x == [call[w] EXCEPT !.pc = "settle", !.class = "no_progress",
                                  !.out = outcome]
  <2>1. Set(w, x) /\ call[w].pc # "idle"
    BY <1>3 DEF AccountNothing, At
  <2>2. outcome \in Outcome
    BY <1>0
  <2> HIDE DEF outcome
  <2>3. /\ x \in Call /\ x.step = call[w].step /\ x.pc = "settle"
        /\ x.then = call[w].then /\ x.back = call[w].back
    BY <1>0, <2>2, KnownCall, PlacesAre DEF Call
  <2> HIDE DEF x
  <2> QED BY <1>0, <2>1, <2>3, MovesOK, Fields DEF Places
<1>4. CASE AccountProgress(w)
  BY <1>0, <1>4, ReportOK, CloseThenOK, PlacesAre DEF AccountProgress, At
\* to park, or to block, with a turn that waits
<1>5. ASSUME NEW pc \in {"park", "block"}, NEW seen \in SUBSET Step,
             call[w].pc # "idle", call[w].turn \in {"timer", "event"},
             Set(w, [call[w] EXCEPT !.pc = pc, !.seen = seen])
      PROVE  CallsOK'
  <2> DEFINE x == [call[w] EXCEPT !.pc = pc, !.seen = seen]
  <2>1. /\ x \in Call /\ x.step = call[w].step /\ x.turn = call[w].turn
        /\ x.then = call[w].then /\ x.back = call[w].back
    BY <1>0, KnownCall, PlacesAre DEF Call
  <2> HIDE DEF x
  <2>2. CallOK(w, x)
    BY <1>0, <1>5, <2>1, KnownCall, Fields DEF CallOK, Places
  <2> QED BY <1>0, <1>5, <2>2, SetOK DEF x
<1>6. CASE AccountTimer(w)
  <2>1. WaitStep(m', call[w].step) \in Step \cup {None}
    <3>1. /\ \A r \in MissionRecordType : Running(r) \in SUBSET Step
          /\ \A S \in SUBSET Step : First(S) \in Step \cup {None}
      BY RunningSteps, FirstOfSteps
    <3> QED BY <3>1 DEF WaitStep
  <2> DEFINE s == WaitStep(m', call[w].step)
  <2> HIDE DEF s
  <2>2. {s} \ {None} \in SUBSET Step
    BY <2>1 DEF s
  <2>3. CASE m'.status = "running"
    <3>1. \/ Set(w, [call[w] EXCEPT !.pc = "block", !.seen = {s} \ {None}])
          \/ Set(w, [call[w] EXCEPT !.pc = "park", !.seen = {s} \ {None}])
      BY <1>6, <2>3 DEF AccountTimer, s
    <3> QED BY <1>5, <1>6, <2>2, <3>1 DEF AccountTimer, At
  <2>4. CASE m'.status # "running"
    BY <1>0, <1>6, <2>4, ReportOK DEF AccountTimer, At
  <2> QED BY <2>3, <2>4
<1>7. CASE AccountEvent(w)
  <2>1. call[w].step \in Step /\ call[w].pc # "idle"
    BY <1>0, <1>7, KnownCall DEF AccountEvent, At
  <2> QED BY <1>0, <1>5, <1>7, <2>1, ReportOK DEF AccountEvent
<1>8. CASE BlockRunning(w)
  BY <1>0, <1>8, ReportOK DEF BlockRunning, At
<1>9. CASE Park(w)
  BY <1>0, <1>9, ReportOK, GoOK, PlacesAre DEF Park, At
<1>10. CASE Settle(w)
  <2> DEFINE s == call[w].step
             after == [Idle EXCEPT !.step = s]
  <2>1. PICK fate \in TaskStatus \cup {Fate(task[s], call[w].out)} :
             \/ Set(w, [after EXCEPT !.pc = "close"])
             \/ /\ fate \in {"blocked", "failed"}
                /\ Set(w, [after EXCEPT !.pc = "project", !.out = fate])
             \/ Set(w, Idle)
    <3>1. PICK fate \in {Fate(task[s], call[w].out)} \cup
                  {f \in {"cancelled"} : task[s].status = "cancel_requested"} :
             CASE fate = "completed" -> Set(w, [after EXCEPT !.pc = "close"])
               [] fate \in {"blocked", "failed"} ->
                    Set(w, [after EXCEPT !.pc = "project", !.out = fate])
               [] OTHER -> Set(w, Idle)
      BY <1>10 DEF Settle
    <3>2. fate \in TaskStatus \cup {Fate(task[s], call[w].out)}
      BY DEF TaskStatus
    <3> QED BY <3>1, <3>2
  <2>2. s \in Step
    BY <1>0, <1>10, KnownCall DEF Settle, At
  <2>3. after \in Call /\ after.step = s /\ after.then = "idle" /\ after.back = "idle"
    BY <2>2, IdleOK, PlacesAre DEF CallOK, Call, Idle
  <2> HIDE DEF after
  <2>4. CASE Set(w, [after EXCEPT !.pc = "close"])
    <3> DEFINE x == [after EXCEPT !.pc = "close"]
    <3>1. x \in Call /\ x.pc = "close" /\ x.step = s /\ x.then = "idle" /\ x.back = "idle"
      BY <2>3, PlacesAre DEF Call
    <3> HIDE DEF x
    <3> QED BY <1>0, <2>2, <2>4, <3>1, BeginsOK DEF x
  <2>5. CASE fate \in {"blocked", "failed"}
             /\ Set(w, [after EXCEPT !.pc = "project", !.out = fate])
    <3> DEFINE x == [after EXCEPT !.pc = "project", !.out = fate]
    <3>1. x \in Call /\ x.pc = "project" /\ x.step = s /\ x.then = "idle" /\ x.back = "idle"
      BY <1>0, <2>3, <2>5, PlacesAre DEF Call
    <3> HIDE DEF x
    <3> QED BY <1>0, <2>2, <2>5, <3>1, BeginsOK DEF x
  <2>6. CASE Set(w, Idle)
    BY <1>0, <2>6, IdleOK, SetOK
  <2> QED BY <2>1, <2>4, <2>5, <2>6
<1> QED BY <1>1, <1>2, <1>3, <1>4, <1>6, <1>7, <1>8, <1>9, <1>10 DEF EndsSlice

\* A driver's call has the step it found, or none.
LEMMA DriverBeginsOK ==
  ASSUME TypeInv, NEW d \in Driver, NEW pc \in Places, NEW s \in Step \cup {None},
         NEW outcome \in Outcome,
         Set(d, [Idle EXCEPT !.pc = pc, !.step = s, !.out = outcome])
  PROVE  CallsOK'
<1> DEFINE x == [Idle EXCEPT !.pc = pc, !.step = s, !.out = outcome]
<1>1. d \in Caller /\ d \notin Worker
  BY CallAssumption DEF Caller, Driver
<1>2. x \in Call /\ x.pc = pc /\ x.then = "idle" /\ x.back = "idle"
  BY IdleOK, PlacesAre DEF CallOK, Call, Idle
<1> HIDE DEF x
<1> QED BY <1>1, <1>2, BeginsOK DEF Places, x

LEMMA DriversTyped ==
  ASSUME TypeInv, m' \in MissionRecordType, NEW d \in Driver,
         (d \in Owner /\ Commanded(d)) \/ Resume(d) \/ CallUp(d)
  PROVE  CallsOK'
<1>1. CASE Start(d) \/ Pause(d) \/ Cancel(d) \/ AskResume(d) \/ Replan(d)
           \/ RecordEvidence(d) \/ AskVerify(d) \/ CompleteStep(d)
  BY <1>1, ThenOK, PlacesAre
  DEF Start, Pause, Cancel, AskResume, Replan, RecordEvidence, AskVerify, CompleteStep
<1>2. CASE Repair(d)
  BY <1>2 DEF Repair, TypeInv, CallsOK, CallOK
<1>3. CASE EventArrives(d)
  <2> DEFINE s == m.wait.step
             x == [Idle EXCEPT !.pc = "call up", !.step = s]
  <2>1. s \in Step \cup {None}
    BY DEF TypeInv, TypeOK, MissionRecordType
  <2>2. Set(d, x) /\ d \in Caller /\ d \notin Worker
    BY <1>3, CallAssumption DEF EventArrives, Caller, Driver
  <2> HIDE DEF s
  <2>3. x \in Call /\ x.pc = "call up" /\ x.then = "idle" /\ x.back = "idle"
    BY <2>1, IdleOK, PlacesAre DEF CallOK, Call, Idle
  <2> HIDE DEF x
  <2> QED BY <2>2, <2>3, BeginsOK
<1>4. CASE Resume(d) \/ CallUp(d)
  BY <1>4, ThenOK, PlacesAre DEF Resume, CallUp
<1> QED BY <1>1, <1>2, <1>3, <1>4 DEF Commanded

LEMMA SweepTyped == ASSUME TypeInv, Sweep PROVE CallsOK'
<1>0. Sweeper \in Driver /\ Sweeper \in Caller /\ "blocked" \in Outcome
  BY DEF Driver, Caller, Outcome
<1>1. CASE SweepsLateEvent
  BY <1>1 DEF SweepsLateEvent, TypeInv, CallsOK, CallOK
<1>2. CASE SweepsDueTimer \/ SweepReconciles \/ BlockQuarantined
           \/ \E s \in Step : SweepRepairs(s)
  BY <1>0, <1>2, ThenOK, PlacesAre
  DEF SweepsDueTimer, SweepReconciles, BlockQuarantined, SweepRepairs
<1>3. ASSUME NEW s \in Step, SweepFindsLapsed(s) PROVE CallsOK'
  BY <1>0, <1>3, DriverBeginsOK, PlacesAre DEF SweepFindsLapsed
<1>4. CASE Quarantine
  BY <1>0, <1>4, GoOK, ThenOK, PlacesAre DEF Quarantine, At
<1> QED BY <1>1, <1>2, <1>3, <1>4 DEF Sweep

-----------------------------------------------------------------------------
(* The tasks.                                                              *)

LEMMA TaskStep ==
  ASSUME TypeInv, NEW s, NEW t, s \in Step => t \in MissionTask,
         task' = [task EXCEPT ![s] = t]
  PROVE  task' \in [Step -> MissionTask]
BY DEF TypeInv, TypeOK

LEMMA TaskTyped ==
  ASSUME NEW t \in MissionTask
  PROVE  /\ t.status \in TaskStatus /\ t.attempt \in Nat
         /\ \A status \in TaskStatus : [t EXCEPT !.status = status] \in MissionTask
         /\ \A wake \in {"none", "parked", "due"} : [t EXCEPT !.wake = wake] \in MissionTask
         /\ [t EXCEPT !.lapsed = TRUE] \in MissionTask
         /\ [t EXCEPT !.repaired = TRUE, !.attempt = 0] \in MissionTask
         /\ [t EXCEPT !.status = "blocked", !.lapsed = FALSE] \in MissionTask
         /\ Retried(t) \in MissionTask /\ Dropped(t) \in MissionTask
<1>1. /\ t.status \in TaskStatus /\ t.attempt \in Nat
      /\ {"blocked", "queued", "cancel_requested", "cancelled"} \subseteq TaskStatus
      /\ "none" \in Class
  BY DEF MissionTask, TaskStatus, Class
<1>2. /\ \A status \in TaskStatus : [t EXCEPT !.status = status] \in MissionTask
      /\ \A wake \in {"none", "parked", "due"} : [t EXCEPT !.wake = wake] \in MissionTask
      /\ [t EXCEPT !.lapsed = TRUE] \in MissionTask
      /\ [t EXCEPT !.repaired = TRUE, !.attempt = 0] \in MissionTask
      /\ [t EXCEPT !.status = "blocked", !.lapsed = FALSE] \in MissionTask
  BY <1>1 DEF MissionTask
<1>3. Retried(t) \in MissionTask
  BY <1>1 DEF Retried, MissionTask
<1>4. Dropped(t) \in MissionTask
  <2> DEFINE status == IF t.status \in InHand THEN "cancel_requested" ELSE "cancelled"
  <2>1. status \in TaskStatus
    BY <1>1
  <2>2. Dropped(t) = [t EXCEPT !.status = status]
    BY DEF Dropped
  <2> HIDE DEF status
  <2> QED BY <1>2, <2>1, <2>2
<1> QED BY <1>1, <1>2, <1>3, <1>4

LEMMA DropTyped ==
  ASSUME TypeInv, NEW S, task' = DropTasks(S)
  PROVE  task' \in [Step -> MissionTask]
<1>1. \A s \in Step : task[s] \in MissionTask
  BY DEF TypeInv, TypeOK
<1>2. \A s \in Step : Dropped(task[s]) \in MissionTask
  BY <1>1, TaskTyped
<1> QED BY <1>1, <1>2 DEF DropTasks

LEMMA TasksTyped == ASSUME TypeInv, Next PROVE task' \in [Step -> MissionTask]
<1>0. /\ task \in [Step -> MissionTask] /\ \A s \in Step : task[s] \in MissionTask
      /\ task = [s \in Step |-> task[s]]
  BY DEF TypeInv, TypeOK
<1>1. ASSUME NEW w \in Worker, NEW s \in Step, Begin(w, s)
      PROVE  task' \in [Step -> MissionTask]
  <2> DEFINE t == [task[s] EXCEPT !.status = "running", !.wake = "none",
                                  !.attempt = Attempted(task[s])]
  <2>1. task' = [task EXCEPT ![s] = t]
    BY <1>0, <1>1 DEF Begin
  <2>2. Attempted(task[s]) \in Nat
    <3>1. task[s].attempt \in Nat
      BY <1>0, TaskTyped
    <3> QED BY <3>1 DEF Attempted
  <2>3. t \in MissionTask
    BY <1>0, <2>2 DEF MissionTask, TaskStatus
  <2> HIDE DEF t
  <2> QED BY <2>1, <2>3, TaskStep
<1>2. ASSUME NEW c \in Caller, Clear(c) \/ Drop(c) PROVE task' \in [Step -> MissionTask]
  BY <1>2, DropTyped DEF Clear, Drop
<1>3. ASSUME NEW c \in Caller, Launch(c) PROVE task' \in [Step -> MissionTask]
  <2> DEFINE s == First(call[c].seen)
             t == IF task[s].status = "none" THEN NewTask
                  ELSE IF CanRetryTask(task[s]) THEN Retried(task[s]) ELSE task[s]
  <2>1. task' = [task EXCEPT ![s] = t]
    BY <1>3 DEF Launch
  <2>2. NewTask \in MissionTask
    <3>1. NoTask \in MissionTask
      BY DEF NoTask, MissionTask, Class, TaskStatus
    <3> QED BY <3>1 DEF NewTask, MissionTask, TaskStatus
  <2> HIDE DEF s
  <2>3. ASSUME s \in Step PROVE t \in MissionTask
    <3>1. task[s] \in MissionTask
      BY <1>0, <2>3
    <3>2. Retried(task[s]) \in MissionTask
      BY <3>1, TaskTyped
    <3> QED BY <2>2, <3>1, <3>2
  <2> HIDE DEF t
  <2> QED BY <2>1, <2>3, TaskStep
<1>4. ASSUME NEW w \in Worker, Settle(w) PROVE task' \in [Step -> MissionTask]
  <2> DEFINE x == call[w]
             s == x.step
  <2>1. PICK fate \in {Fate(task[s], x.out)} \cup
                {f \in {"cancelled"} : task[s].status = "cancel_requested"} :
           task' = [task EXCEPT ![s] = SettledAs(@, x, fate)]
    BY <1>4, Zenon DEF Settle
  <2>2. x.out \in Outcome /\ x.class \in Class /\ s \in Step
    BY <1>4, Fields, KnownCall DEF Settle, At, Caller
  <2>3. fate \in TaskStatus
    BY <2>2 DEF Fate, TaskStatus, Outcome
  <2> DEFINE t == task[s]
             wake == IF x.out = "waiting" /\ fate = "queued" THEN "parked" ELSE "none"
             attempt == IF x.out = "progress" /\ fate = "queued" THEN 0 ELSE t.attempt
             class == IF fate = "cancelled" THEN t.class
                      ELSE IF x.class # "none" THEN x.class
                      ELSE IF x.out \in {"failed", "blocked"} THEN t.class ELSE "none"
             new == [t EXCEPT !.status = fate, !.wake = wake, !.attempt = attempt,
                              !.class = class]
  <2>4. task' = [task EXCEPT ![s] = new]
    BY <1>0, <2>1, <2>2 DEF SettledAs, MissionTask
  <2>5. /\ t \in MissionTask /\ t.class \in Class /\ t.attempt \in Nat
    BY <1>0, <2>2, TaskTyped DEF MissionTask
  <2>6. /\ wake \in {"none", "parked", "due"} /\ attempt \in Nat
        /\ class \in Class
    BY <2>2, <2>5 DEF Class
  <2> HIDE DEF x, s, t, wake, attempt, class
  <2>7. new \in MissionTask
    BY <2>3, <2>5, <2>6 DEF MissionTask
  <2> HIDE DEF new
  <2> QED BY <2>4, <2>7, TaskStep
<1>5. ASSUME NEW w \in Worker, Crash(w) PROVE task' \in [Step -> MissionTask]
  <2> DEFINE s == call[w].step
             t == [task[s] EXCEPT !.lapsed = TRUE]
  <2>1. UNCHANGED task \/ task' = [task EXCEPT ![s] = t]
    BY <1>0, <1>5 DEF Crash
  <2>2. s \in Step => t \in MissionTask
    BY <1>0, TaskTyped
  <2> HIDE DEF s, t
  <2> QED BY <1>0, <2>1, <2>2, TaskStep
<1>6. ASSUME NEW d \in Driver, CallUp(d) PROVE task' \in [Step -> MissionTask]
  <2> DEFINE s == call[d].step
             wake == IF task[s].wake = "parked" THEN "due" ELSE task[s].wake
             t == [task[s] EXCEPT !.wake = wake]
  <2>1. task' = [task EXCEPT ![s] = t]
    BY <1>0, <1>6 DEF CallUp
  <2>2. s \in Step => t \in MissionTask
    BY <1>0, TaskTyped DEF MissionTask
  <2> HIDE DEF s, t
  <2> QED BY <2>1, <2>2, TaskStep
<1>7. ASSUME Sweep \/ Time PROVE task' \in [Step -> MissionTask]
  <2>1. ASSUME NEW s \in Step, SweepRepairs(s) PROVE task' \in [Step -> MissionTask]
    <3>1. task' = [task EXCEPT ![s] = [task[s] EXCEPT !.repaired = TRUE, !.attempt = 0]]
      BY <1>0, <2>1 DEF SweepRepairs
    <3> QED BY <1>0, <3>1, TaskTyped, TaskStep
  <2>2. ASSUME Quarantine PROVE task' \in [Step -> MissionTask]
    <3> DEFINE s == call[Sweeper].step
    <3>1. \/ UNCHANGED task
          \/ task' = [task EXCEPT ![s] = [task[s] EXCEPT !.status = "blocked",
                                                         !.lapsed = FALSE]]
      BY <1>0, <2>2 DEF Quarantine
    <3> HIDE DEF s
    <3>2. CASE UNCHANGED task
      BY <1>0, <3>2
    <3>3. CASE task' = [task EXCEPT ![s] = [task[s] EXCEPT !.status = "blocked",
                                                           !.lapsed = FALSE]]
      BY <1>0, <3>3, TaskTyped, TaskStep
    <3> QED BY <3>1, <3>2, <3>3
  <2>3. ASSUME NEW s \in Step, TaskDue(s) PROVE task' \in [Step -> MissionTask]
    <3>1. task' = [task EXCEPT ![s] = [task[s] EXCEPT !.wake = "due"]]
      BY <1>0, <2>3 DEF TaskDue
    <3> QED BY <1>0, <3>1, TaskTyped, TaskStep
  <2>4. ASSUME \/ SweepsLateEvent \/ SweepsDueTimer \/ SweepReconciles
               \/ BlockQuarantined \/ WaitEnds \/ \E s \in Step : SweepFindsLapsed(s)
        PROVE  task' \in [Step -> MissionTask]
    BY <1>0, <2>4 DEF SweepsLateEvent, SweepsDueTimer, SweepReconciles, BlockQuarantined,
                      WaitEnds, SweepFindsLapsed
  <2> QED BY <1>7, <2>1, <2>2, <2>3, <2>4 DEF Sweep, Time
<1>8. ASSUME NEW c \in Caller, Continues(c) PROVE task' \in [Step -> MissionTask]
  BY <1>0, <1>2, <1>3, <1>8
  DEF Continues, Reconciles, ClosesOut, Close, Verify, Refuse, CompleteIt, Schedule,
      Project, StopStep, Closeout, Reverify, Reopen
<1>9. ASSUME NEW w \in Worker, Works(w) PROVE task' \in [Step -> MissionTask]
  <2>1. CASE Enters(w)
    BY <1>0, <1>1, <2>1 DEF Enters, AlreadyDone, NotGoing, FindsWait, FindsWork, Wake,
                            TakeStep, BlockBlindly
  <2>2. CASE TakesTurn(w)
    <3>1. ASSUME NEW turn \in Turns, EndTurn(w, turn) PROVE UNCHANGED task
      BY <3>1, Zenon DEF EndTurn
    <3> QED BY <1>0, <2>2, <3>1 DEF TakesTurn, ToolCompletesStep, ToolReplans,
              ToolRecordsEvidence, ToolPauses, ToolBlocks
  <2>3. CASE EndsSlice(w)
    BY <1>0, <1>4, <2>3 DEF EndsSlice, OwnsStep, AccountUncertain, AccountNothing,
       AccountProgress, AccountTimer, AccountEvent, BlockRunning, Park, Recheck, HandOff
  <2> QED BY <1>8, <1>9, <2>1, <2>2, <2>3 DEF Works, Caller
<1>10. ASSUME NEW d \in Owner, Commanded(d) PROVE task' \in [Step -> MissionTask]
  BY <1>0, <1>10 DEF Commanded, Start, Pause, Cancel, AskResume, Replan, RecordEvidence,
                     AskVerify, CompleteStep, Repair, EventArrives
<1>11. ASSUME NEW d \in Driver, Drives(d) PROVE task' \in [Step -> MissionTask]
  BY <1>0, <1>6, <1>8, <1>11 DEF Drives, Resume, Caller
<1> QED BY <1>5, <1>7, <1>9, <1>10, <1>11 DEF Next

-----------------------------------------------------------------------------
(* All of it.                                                              *)

LEMMA MissionTyped ==
  ASSUME TypeInv, RecordInv(m'), RecordStep PROVE m' \in MissionRecordType
<1>0. m \in MissionRecordType
  BY DEF TypeInv, TypeOK
<1>1. CASE UNCHANGED m
  BY <1>0, <1>1
<1>2. CASE PlanStep
  BY <1>0, <1>2, PlanStepTyped DEF PlanStep
<1>3. CASE ControlStep
  BY <1>0, <1>3, MarksKept, PlanStepTyped DEF ControlStep
<1>4. ASSUME NEW w \in Worker, Park(w) PROVE m' \in MissionRecordType
  <2>1. call[w].turn \in {"timer", "event"}
    BY <1>4, KnownCall DEF Park, At, CallOK, Caller
  <2>2. First(call[w].seen) \in Step \cup {None}
    BY FirstOfSteps, Fields DEF Caller
  <2> QED BY <1>0, <1>4, <2>1, <2>2, MarksKept DEF Park
<1>5. CASE WaitStepOf
  BY <1>0, <1>4, <1>5, MarksKept DEF WaitStepOf
<1>6. CASE ClosingStep
  BY <1>0, <1>6, MarksKept DEF ClosingStep
<1> QED BY <1>1, <1>2, <1>3, <1>5, <1>6 DEF RecordStep

LEMMA TypeInit == Init => TypeInv
<1> SUFFICES ASSUME Init PROVE TypeInv
  OBVIOUS
<1>1. task \in [Step -> MissionTask]
  <2>1. NoTask \in MissionTask
    BY DEF NoTask, MissionTask, TaskStatus, Class
  <2> QED BY <2>1 DEF Init
<1>2. call \in [Caller -> Call] /\ \A c \in Caller : CallOK(c, call[c])
  <2>1. Idle \in Call
    BY IdleOK DEF CallOK
  <2> QED BY <2>1, IdleOK DEF Init
<1>3. crashes \in 0..MaxCrashes
  <2>1. MaxCrashes \in Nat
    BY CallAssumption
  <2> QED BY <2>1 DEF Init
<1>4. m \in MissionRecordType
  BY NewMissionType DEF Init
<1> QED BY <1>1, <1>2, <1>3, <1>4 DEF TypeInv, TypeOK, CallsOK

LEMMA TypeNext ==
  ASSUME TypeInv, RecordInv(m), RecordInv(m'), [Next]_vars
  PROVE  TypeInv'
<1>1. m' \in MissionRecordType
  <2>1. RecordStep
    BY NextIsRecordStep DEF vars, RecordStep
  <2> QED BY <2>1, MissionTyped
<1>2. CASE UNCHANGED vars
  BY <1>2 DEF vars, TypeInv, TypeOK, CallsOK, CallOK
<1>3. CASE Next
  <2>1. ASSUME NEW w \in Worker, Crash(w) PROVE CallsOK' /\ crashes' \in 0..MaxCrashes
    <3>1. MaxCrashes \in Nat
      BY CallAssumption
    <3>2. crashes' \in 0..MaxCrashes
      BY <2>1, <3>1 DEF Crash, TypeInv, TypeOK
    <3>3. Set(w, Idle)
      BY <2>1, Zenon DEF Crash
    <3> QED BY <3>2, <3>3, IdleOK, SetOK DEF Caller
  <2>2. ASSUME NEW c \in Caller, Continues(c) PROVE CallsOK' /\ UNCHANGED crashes
    <3>1. UNCHANGED crashes
      BY <2>2 DEF Continues, Reconciles, ClosesOut, Close, Verify, Refuse, CompleteIt,
         Clear, Schedule, Launch, Project, StopStep, Drop, Closeout, Reverify, Reopen
    <3> QED BY <1>1, <2>2, <3>1, ContinuesTyped
  <2>3. ASSUME NEW w \in Worker, Works(w) PROVE CallsOK' /\ UNCHANGED crashes
    <3>1. CASE Enters(w)
      <4>1. UNCHANGED crashes
        BY <3>1 DEF Enters, Begin, AlreadyDone, NotGoing, FindsWait, FindsWork, Wake,
                    TakeStep, BlockBlindly
      <4> QED BY <1>1, <3>1, <4>1, EntersTyped
    <3>2. CASE TakesTurn(w)
      <4>1. ASSUME NEW turn \in Turns, EndTurn(w, turn) PROVE UNCHANGED crashes
        BY <4>1, Zenon DEF EndTurn
      <4>2. UNCHANGED crashes
        BY <3>2, <4>1 DEF TakesTurn, ToolCompletesStep, ToolReplans,
                          ToolRecordsEvidence, ToolPauses, ToolBlocks
      <4> QED BY <3>2, <4>2, TurnTyped
    <3>3. CASE EndsSlice(w)
      <4>1. Settle(w) => UNCHANGED crashes
        BY Zenon DEF Settle
      <4>2. UNCHANGED crashes
        BY <3>3, <4>1 DEF EndsSlice, OwnsStep, AccountUncertain, AccountNothing,
           AccountProgress, AccountTimer, AccountEvent, BlockRunning, Park, Recheck,
           HandOff
      <4> QED BY <1>1, <3>3, <4>2, EndsTyped
    <3> QED BY <2>2, <2>3, <3>1, <3>2, <3>3 DEF Works, Caller
  <2>4. ASSUME NEW d \in Owner, Commanded(d) PROVE CallsOK' /\ UNCHANGED crashes
    <3>1. UNCHANGED crashes
      BY <2>4 DEF Commanded, Start, Pause, Cancel, AskResume, Replan, RecordEvidence,
                  AskVerify, CompleteStep, Repair, EventArrives
    <3> QED BY <1>1, <2>4, <3>1, DriversTyped DEF Driver
  <2>5. ASSUME NEW d \in Driver, Drives(d) PROVE CallsOK' /\ UNCHANGED crashes
    <3>1. Resume(d) \/ CallUp(d) => UNCHANGED crashes
      BY DEF Resume, CallUp
    <3> QED BY <1>1, <2>2, <2>5, <3>1, DriversTyped DEF Drives, Caller
  <2>6. ASSUME Sweep PROVE CallsOK' /\ UNCHANGED crashes
    <3>1. UNCHANGED crashes
      BY <2>6 DEF Sweep, SweepsLateEvent, SweepsDueTimer, SweepReconciles, Quarantine,
                  BlockQuarantined, SweepRepairs, SweepFindsLapsed
    <3> QED BY <2>6, <3>1, SweepTyped
  <2>7. ASSUME Time PROVE CallsOK' /\ UNCHANGED crashes
    BY <2>7 DEF Time, WaitEnds, TaskDue, TypeInv, CallsOK, CallOK
  <2>8. CallsOK' /\ crashes' \in 0..MaxCrashes
    BY <1>3, <2>1, <2>3, <2>4, <2>5, <2>6, <2>7 DEF Next, TypeInv, TypeOK
  <2>9. task' \in [Step -> MissionTask]
    BY <1>3, TasksTyped
  <2> QED BY <1>1, <2>8, <2>9 DEF TypeInv, TypeOK, CallsOK
<1> QED BY <1>2, <1>3

\* The mission, its tasks and its callers keep their types under every
\* interleaving: no step is counted beyond the plan's, no task is tried beyond its
\* attempts, and nothing but a timer or an event is waited for.
THEOREM TypeCorrect == Spec => []TypeOK
<1>1. TypeInv /\ RecordInv(m) /\ [Next]_vars => TypeInv' /\ RecordInv(m)'
  BY RecordInvStep, TypeNext
<1>2. Init => TypeInv /\ RecordInv(m)
  BY TypeInit, RecordInvInit
<1>3. TypeInv /\ RecordInv(m) => TypeOK
  BY DEF TypeInv
<1> QED BY <1>1, <1>2, <1>3, PTL DEF Spec
=============================================================================
