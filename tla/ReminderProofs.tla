----------------------------- MODULE ReminderProofs -----------------------------
(***************************************************************************)
(* Reminder for every value of its constants: type correctness, an attempt *)
(* that reaches its owner once, and a reminder that is called scheduled    *)
(* and is coming.                                                          *)
(***************************************************************************)
EXTENDS Reminder, TLAPS

-----------------------------------------------------------------------------
(* Types.                                                                  *)

\* A call that is about to write has something to write.
Writing(x) == x.pc = "write" => x.todo # <<>> /\ Head(x.todo) \in Write
TypeInv == Typed /\ \A c \in Caller : Writing(call[c])

LEMMA Numbers == MaxRuns \in Nat /\ MaxFaults \in Nat /\ Runner \cap Owner = {}
BY ReminderAssumption

LEMMA IdleType == Idle \in Call /\ Writing(Idle)
BY DEF Idle, Call, Status, Writing

LEMMA Deeds ==
  /\ \A s \in Status : s \in Deed
  /\ {"keep", "send", "trigger", "done", "throw"} \subseteq Deed
  /\ {"none", "scheduled", "waiting", "paused", "sent", "failed", "cancelled"}
       \subseteq Status
BY DEF Status, Deed, Write

LEMMA PlanParts ==
  /\ Plan["send"] = <<"keep", "send", "done", "sent">>
  /\ Plan["poll"] = <<"keep", "trigger", "scheduled", "done">>
  /\ Plan["approval"] = <<"keep", "waiting", "done">>
  /\ Plan["throw"] = <<"keep", "failed", "throw">>
BY DEF Plan

LEMMA PlanType == ASSUME NEW result \in Results PROVE Plan[result] \in Seq(Deed)
<1>1. CASE result = "send" BY <1>1, PlanParts, Deeds
<1>2. CASE result = "poll" BY <1>2, PlanParts, Deeds
<1>3. CASE result = "approval" BY <1>3, PlanParts, Deeds
<1>4. CASE result = "throw" BY <1>4, PlanParts, Deeds
<1> QED BY <1>1, <1>2, <1>3, <1>4, ReminderAssumption

LEMMA PlanThrowType == Plan["throw"] \in Seq(Deed)
BY PlanParts, Deeds

\* A call's other values are a call again.
LEMMA CallType ==
  ASSUME NEW x \in Call, NEW pc \in {"idle", "check", "claim", "turn", "go"},
         NEW todo \in Seq(Deed), NEW k \in Run \cup {0}
  PROVE  LET y == [x EXCEPT !.pc = pc, !.todo = todo]
             z == [x EXCEPT !.todo = todo, !.made = k]
             i == [x EXCEPT !.pc = pc]
         IN /\ y \in Call /\ Writing(y)
            /\ i \in Call /\ Writing(i)
            /\ z \in Call /\ (x.pc # "write" => Writing(z))
BY DEF Call, Writing

LEMMA TailType == ASSUME NEW t \in Seq(Deed), t # <<>> PROVE Tail(t) \in Seq(Deed)
OBVIOUS

\* One caller moves, to a call of the type.
LEMMA Moves ==
  ASSUME TypeInv, NEW c \in Caller, NEW x \in Call, Writing(x), Set(c, x)
  PROVE  call' \in [Caller -> Call] /\ \A d \in Caller : Writing(call'[d])
BY DEF TypeInv, Typed, Set

LEMMA TriggeredType ==
  ASSUME TypeInv, NewRuns # {}, NEW m \in Reminders \cup {"nothing"}, NEW a \in BOOLEAN
  PROVE  Triggered(m, a) \in [Run -> WorkflowRun]
<1>1. NewRun \in Run
  BY DEF NewRun, NewRuns
<1>2. [NoRun EXCEPT !.of = m, !.state = "asleep", !.approved = a] \in WorkflowRun
  BY DEF NoRun, WorkflowRun
<1> QED BY <1>1, <1>2 DEF Triggered, TypeInv, Typed

LEMMA RunTypes ==
  ASSUME TypeInv, NEW r \in Run \cup {0}
  PROVE  /\ \A st \in {"asleep", "due", "dead", "over"} :
              [run EXCEPT ![r].state = st] \in [Run -> WorkflowRun]
         /\ \A cl \in {"held", "done"} :
              [run EXCEPT ![r].claim = cl] \in [Run -> WorkflowRun]
         /\ \A a \in BOOLEAN : [run EXCEPT ![r].asks = a] \in [Run -> WorkflowRun]
BY DEF TypeInv, Typed, WorkflowRun

LEMMA FaultType ==
  ASSUME TypeInv, NEW kind, Fault(kind) \/ UNCHANGED faults
  PROVE  faults' \in 0..MaxFaults
BY Numbers DEF TypeInv, Typed, Fault

LEMMA CallIs ==
  ASSUME TypeInv, NEW c \in Caller
  PROVE  /\ call[c] \in Call /\ call[c].todo \in Seq(Deed)
         /\ call[c].run \in Run \cup {0} /\ call[c].was \in Status
         /\ call[c].made \in Run \cup {0}
         /\ call[c].read \in [Reminders -> Status]
         /\ (call[c].pc = "write" => call[c].todo # <<>> /\ Head(call[c].todo) \in Write)
BY DEF TypeInv, Typed, Call, Writing

LEMMA TypeInit == Init => TypeInv
<1> SUFFICES ASSUME Init PROVE TypeInv
  OBVIOUS
<1>1. list \in [Reminders -> Status]
  BY DEF Init, Status
<1>2. run \in [Run -> WorkflowRun]
  BY DEF Init, NoRun, WorkflowRun
<1>3. call \in [Caller -> Call] /\ \A c \in Caller : Writing(call[c])
  BY IdleType DEF Init
<1>4. sent \in [Run -> Nat] /\ faults \in 0..MaxFaults
  BY Numbers DEF Init
<1> QED BY <1>1, <1>2, <1>3, <1>4 DEF TypeInv, Typed

\* The steps of updateReminder.
LEMMA UpdateTypes ==
  ASSUME TypeInv, NEW c \in Caller, UpdateReads(c) \/ UpdateWrites(c)
  PROVE  TypeInv'
<1>1. CASE UpdateReads(c)
  <2> DEFINE x == [call[c] EXCEPT !.pc = "write", !.read = list]
  <2>1. x \in Call /\ Writing(x)
    BY <1>1, CallIs DEF UpdateReads, Does, Next1, Call, Writing, TypeInv, Typed
  <2>2. Set(c, x)
    BY <1>1 DEF UpdateReads
  <2>3. call' \in [Caller -> Call] /\ \A d \in Caller : Writing(call'[d])
    BY <2>1, <2>2, Moves
  <2> QED BY <2>3, <1>1 DEF UpdateReads, TypeInv, Typed
<1>2. CASE UpdateWrites(c)
  <2> DEFINE x == [call[c] EXCEPT !.pc = "go", !.todo = Tail(@), !.read = Idle.read]
  <2>1. call[c].todo # <<>> /\ Next1(c) \in Write /\ Tail(call[c].todo) \in Seq(Deed)
    BY <1>2, CallIs, TailType DEF UpdateWrites, At, Next1
  <2>2. Idle.read \in [Reminders -> Status]
    BY Deeds DEF Idle
  <2>3. x \in Call /\ Writing(x)
    BY <2>1, <2>2, CallIs DEF Call, Writing
  <2>4. Set(c, x)
    BY <1>2 DEF UpdateWrites
  <2>5. call' \in [Caller -> Call] /\ \A d \in Caller : Writing(call'[d])
    BY <2>3, <2>4, Moves
  <2>6. list' \in [Reminders -> Status]
    BY <1>2, <2>1, CallIs DEF UpdateWrites, Write
  <2> QED BY <2>5, <2>6, <1>2 DEF UpdateWrites, TypeInv, Typed
<1> QED BY <1>1, <1>2

\* The ways a call moves on.
CallsTyped == call' \in [Caller -> Call] /\ \A d \in Caller : Writing(call'[d])
LEMMA CallMoves ==
  ASSUME TypeInv, NEW c \in Caller
  PROVE  /\ \A todo \in Seq(Deed) : Goes(c, todo) => CallsTyped
         /\ \A pc \in {"claim", "turn"} : Set(c, [call[c] EXCEPT !.pc = pc]) => CallsTyped
         /\ Set(c, Idle) => CallsTyped
         /\ UNCHANGED call => CallsTyped
<1>1. ASSUME NEW todo \in Seq(Deed), Goes(c, todo) PROVE CallsTyped
  <2> DEFINE x == [call[c] EXCEPT !.pc = "go", !.todo = todo]
  <2>1. x \in Call /\ Writing(x)
    BY CallIs DEF Call, Writing
  <2>2. Set(c, x)
    BY <1>1 DEF Goes
  <2> QED BY <2>1, <2>2, Moves DEF CallsTyped
<1>2. ASSUME NEW pc \in {"claim", "turn"}, Set(c, [call[c] EXCEPT !.pc = pc])
      PROVE  CallsTyped
  <2> DEFINE x == [call[c] EXCEPT !.pc = pc]
  <2>1. x \in Call /\ Writing(x)
    BY CallIs DEF Call, Writing
  <2> QED BY <2>1, <1>2, Moves DEF CallsTyped
<1>3. Set(c, Idle) => CallsTyped
  BY IdleType, Moves DEF CallsTyped
<1>4. UNCHANGED call => CallsTyped
  BY DEF CallsTyped, TypeInv, Typed
<1> QED BY <1>1, <1>2, <1>3, <1>4

\* Every part typed is the state typed.
LEMMA Parts ==
  ASSUME list' \in [Reminders -> Status], run' \in [Run -> WorkflowRun], CallsTyped,
         sent' \in [Run -> Nat], faults' \in 0..MaxFaults
  PROVE  TypeInv'
BY DEF TypeInv, Typed, CallsTyped

LEMMA DeliverTypes ==
  ASSUME TypeInv, NEW w \in Runner, NEW r \in Run, Deliver(w, r) \/ Fails(w, r)
  PROVE  TypeInv'
<1> DEFINE of == run[r].of
           x == [Idle EXCEPT !.pc = "check", !.of = run[r].of, !.run = r]
           y == [Idle EXCEPT !.pc = "go", !.of = run[r].of, !.run = r,
                             !.todo = <<"failed">>]
<1>1. w \in Caller /\ run[r].of \in Reminders \cup {"nothing"} /\ <<"failed">> \in Seq(Deed)
  BY Deeds DEF TypeInv, Typed, WorkflowRun, Caller
<1>2. x \in Call /\ Writing(x) /\ y \in Call /\ Writing(y)
  BY <1>1, IdleType DEF Call, Writing
<1>3. CallsTyped
  <2>1. CASE Deliver(w, r)
    <3>1. Set(w, x) \/ UNCHANGED call
      BY <2>1 DEF Deliver
    <3> QED BY <3>1, <1>1, <1>2, Moves, CallMoves DEF CallsTyped
  <2>2. CASE Fails(w, r)
    <3>1. Set(w, y) \/ UNCHANGED call
      BY <2>2 DEF Fails
    <3> QED BY <3>1, <1>1, <1>2, Moves, CallMoves DEF CallsTyped
  <2> QED BY <2>1, <2>2
<1>4. run' \in [Run -> WorkflowRun]
  <2>1. run' = run \/ run' = [run EXCEPT ![r].state = "over"]
    BY DEF Deliver, Fails, Over
  <2>2. r \in Run \cup {0}
    OBVIOUS
  <2>3. [run EXCEPT ![r].state = "over"] \in [Run -> WorkflowRun]
    BY <2>2, RunTypes
  <2> QED BY <2>1, <2>3 DEF TypeInv, Typed
<1>5. faults' \in 0..MaxFaults
  BY FaultType DEF Deliver, Fails
<1> QED BY <1>3, <1>4, <1>5, Parts DEF Deliver, Fails, TypeInv, Typed

LEMMA RunnerTypes ==
  ASSUME TypeInv, NEW w \in Runner, Delivers(w) \/ Crash(w)
  PROVE  TypeInv'
<1>0. w \in Caller /\ call[w].run \in Run \cup {0} /\ call[w].todo \in Seq(Deed)
  BY CallIs DEF Caller
<1>1. CASE Check(w)
  BY <1>1, <1>0, CallMoves, RunTypes, Parts DEF Check, Over, TypeInv, Typed
<1>2. CASE Claim(w)
  <2>1. CallsTyped
    BY <1>2, <1>0, CallMoves DEF Claim
  <2>2. run' \in [Run -> WorkflowRun]
    <3>1. \/ run' = [run EXCEPT ![call[w].run].claim = "held"]
          \/ run' = [run EXCEPT ![call[w].run].state = "over"]
      BY <1>2 DEF Claim, Over
    <3>2. /\ [run EXCEPT ![call[w].run].claim = "held"] \in [Run -> WorkflowRun]
          /\ [run EXCEPT ![call[w].run].state = "over"] \in [Run -> WorkflowRun]
      BY <1>0, RunTypes
    <3> QED BY <3>1, <3>2
  <2>3. UNCHANGED <<list, sent, faults>>
    BY <1>2 DEF Claim
  <2> QED BY <2>1, <2>2, <2>3, Parts DEF TypeInv, Typed
<1>3. CASE Turn(w)
  <2>1. PICK result \in Results :
          /\ Goes(w, Plan[result])
          /\ run' = [run EXCEPT ![call[w].run].asks = result \in {"poll", "approval"}]
    BY <1>3 DEF Turn
  <2>2. CallsTyped
    BY <2>1, <1>0, CallMoves, PlanType
  <2>3. run' \in [Run -> WorkflowRun]
    <3> DEFINE asks == result \in {"poll", "approval"}
    <3>1. asks \in BOOLEAN
      OBVIOUS
    <3> HIDE DEF asks
    <3>2. [run EXCEPT ![call[w].run].asks = asks] \in [Run -> WorkflowRun]
      BY <3>1, <1>0, RunTypes
    <3> QED BY <3>2, <2>1 DEF asks
  <2> QED BY <2>2, <2>3, <1>3, Parts DEF Turn, TypeInv, Typed
<1>4. CASE Send(w)
  <2>1. CallsTyped
    <3>1. Did(w) \/ Goes(w, Plan["throw"])
      BY <1>4 DEF Send
    <3>2. Tail(call[w].todo) \in Seq(Deed)
      BY <1>4, <1>0, TailType DEF Send, Does
    <3> QED BY <3>1, <3>2, <1>0, PlanThrowType, CallMoves DEF Did
  <2>2. sent' \in [Run -> Nat]
    <3>1. sent' = sent \/ sent' = [sent EXCEPT ![call[w].run] = @ + 1]
      BY <1>4 DEF Send
    <3>2. sent \in [Run -> Nat]
      BY DEF TypeInv, Typed
    <3> QED BY <3>1, <3>2
  <2>3. faults' \in 0..MaxFaults
    BY <1>4, FaultType DEF Send
  <2> QED BY <2>1, <2>2, <2>3, <1>4, Parts DEF Send, TypeInv, Typed
<1>5. CASE Done(w)
  <2>1. CallsTyped
    <3>1. Tail(call[w].todo) \in Seq(Deed)
      BY <1>5, <1>0, TailType DEF Done, Does
    <3> QED BY <3>1, <1>5, <1>0, CallMoves DEF Done, Did
  <2> QED BY <2>1, <1>5, <1>0, RunTypes, Parts DEF Done, TypeInv, Typed
<1>6. CASE Ends(w)
  BY <1>6, <1>0, CallMoves, RunTypes, Parts DEF Ends, Over, TypeInv, Typed
<1>7. CASE Throws(w)
  BY <1>7, <1>0, CallMoves, Parts DEF Throws, TypeInv, Typed
<1>8. CASE Crash(w)
  BY <1>8, <1>0, CallMoves, FaultType, Parts DEF Crash, TypeInv, Typed
<1> QED BY <1>1, <1>2, <1>3, <1>4, <1>5, <1>6, <1>7, <1>8, DeliverTypes DEF Delivers

LEMMA TriggerTypes ==
  ASSUME TypeInv, NEW c \in Caller, Trigger(c)
  PROVE  TypeInv'
<1>0. /\ call[c] \in Call /\ call[c].pc # "write" /\ Tail(call[c].todo) \in Seq(Deed)
      /\ NewRuns # {} /\ NewRun \in Run
  BY CallIs, TailType DEF Trigger, Does, At, NewRun, NewRuns
<1>1. Triggered(call[c].of, FALSE) \in [Run -> WorkflowRun]
  BY <1>0, TriggeredType DEF Call
<1>2. run' \in [Run -> WorkflowRun]
  BY <1>1 DEF Trigger, TypeInv, Typed
<1>3. faults' \in 0..MaxFaults
  BY FaultType DEF Trigger
<1>4. CASE Set(c, [call[c] EXCEPT !.todo = Tail(@), !.made = NewRun])
  <2> DEFINE x == [call[c] EXCEPT !.todo = Tail(@), !.made = NewRun]
  <2>1. x \in Call /\ Writing(x)
    BY <1>0, CallIs DEF Call, Writing
  <2> QED BY <2>1, <1>2, <1>3, <1>4, Moves, Parts DEF Trigger, CallsTyped, TypeInv, Typed
<1>5. CASE Refused(c)
  <2>1. <<call[c].was>> \in Seq(Deed)
    BY CallIs, Deeds
  <2>2. CallsTyped
    BY <1>5, <2>1, PlanThrowType, CallMoves DEF Refused
  <2> QED BY <2>2, <1>2, <1>3, Parts DEF Trigger, TypeInv, Typed
<1> QED BY <1>4, <1>5 DEF Trigger

LEMMA OwnerTypes ==
  ASSUME TypeInv, NEW o \in Owner, Commanded(o) \/ Answered(o)
  PROVE  TypeInv'
<1>0. o \in Caller
  BY DEF Caller
<1>1. ASSUME NEW m \in Reminders, NEW todo \in Seq(Deed), NEW was \in Status,
             Request(o, m, todo, was)
      PROVE  CallsTyped
  <2> DEFINE x == [Idle EXCEPT !.pc = "go", !.of = m, !.todo = todo, !.was = was]
  <2>1. x \in Call /\ Writing(x)
    BY IdleType DEF Call, Writing
  <2> QED BY <2>1, <1>0, <1>1, Moves DEF Request, CallsTyped
<1>2. /\ <<"trigger", "keep">> \in Seq(Deed) /\ <<"paused">> \in Seq(Deed)
      /\ <<"scheduled", "trigger", "keep">> \in Seq(Deed)
  BY Deeds
<1>3. ASSUME NEW m \in Reminders, SetIt(o, m) PROVE TypeInv'
  <2>1. CallsTyped
    BY <1>1, <1>2, <1>3, Deeds DEF SetIt
  <2>2. list' \in [Reminders -> Status]
    BY <1>3, Deeds DEF SetIt, TypeInv, Typed
  <2> QED BY <2>1, <2>2, <1>3, Parts DEF SetIt, TypeInv, Typed
<1>4. ASSUME NEW m \in Reminders, Cancel(o, m) PROVE TypeInv'
  <2>1. list' \in [Reminders -> Status]
    BY <1>4, Deeds DEF Cancel, TypeInv, Typed
  <2> QED BY <2>1, <1>0, <1>4, CallMoves, Parts DEF Cancel, TypeInv, Typed
<1>5. ASSUME NEW m \in Reminders, Pause(o, m) \/ Resume(o, m) \/ RunNow(o, m)
      PROVE  TypeInv'
  <2>1. list[m] \in Status
    BY DEF TypeInv, Typed
  <2>2. CallsTyped
    BY <2>1, <1>1, <1>2, <1>5, Deeds DEF Pause, Resume, RunNow
  <2> QED BY <2>2, <1>5, Parts DEF Pause, Resume, RunNow, TypeInv, Typed
<1>6. ASSUME NEW r \in Run, Approve(o, r) PROVE TypeInv'
  <2> DEFINE t == Triggered(run[r].of, TRUE)
  <2>1. t \in [Run -> WorkflowRun]
    <3>1. NewRun \in Run /\ run[r].of \in Reminders \cup {"nothing"}
      BY <1>6 DEF Approve, NewRun, NewRuns, TypeInv, Typed, WorkflowRun
    <3>2. [NoRun EXCEPT !.of = run[r].of, !.state = "asleep", !.approved = TRUE]
            \in WorkflowRun
      BY <3>1 DEF NoRun, WorkflowRun
    <3> QED BY <3>1, <3>2 DEF Triggered, TypeInv, Typed
  <2> HIDE DEF t
  <2>2. [t EXCEPT ![r].asks = FALSE] \in [Run -> WorkflowRun]
    BY <2>1 DEF WorkflowRun
  <2>3. run' \in [Run -> WorkflowRun]
    BY <2>2, <1>6 DEF Approve, t
  <2> QED BY <2>3, <1>0, <1>6, CallMoves, Parts DEF Approve, TypeInv, Typed
<1>7. CASE Answered(o)
  BY <1>7, <1>0, CallMoves, Parts DEF Answered, TypeInv, Typed
<1> QED BY <1>3, <1>4, <1>5, <1>6, <1>7 DEF Commanded

LEMMA RunTimeTypes ==
  ASSUME TypeInv, NEW r \in Run, Wakes(r) \/ Exhausted(r)
  PROVE  TypeInv'
<1>1. run' \in [Run -> WorkflowRun]
  <2>1. r \in Run \cup {0}
    OBVIOUS
  <2>2. /\ [run EXCEPT ![r].state = "due"] \in [Run -> WorkflowRun]
        /\ [run EXCEPT ![r].state = "dead"] \in [Run -> WorkflowRun]
    BY <2>1, RunTypes
  <2> QED BY <2>2 DEF Wakes, Exhausted
<1>2. faults' \in 0..MaxFaults
  BY FaultType DEF Wakes, Exhausted
<1>3. CallsTyped
  BY DEF Wakes, Exhausted, CallsTyped, TypeInv, Typed
<1> QED BY <1>1, <1>2, <1>3, Parts DEF Wakes, Exhausted, TypeInv, Typed

LEMMA TypeStep == TypeInv /\ [Next]_vars => TypeInv'
<1> SUFFICES ASSUME TypeInv, [Next]_vars PROVE TypeInv'
  OBVIOUS
<1>1. CASE \E w \in Runner : Delivers(w) \/ Crash(w)
  BY <1>1, RunnerTypes
<1>2. CASE \E o \in Owner : Commanded(o) \/ Answered(o)
  BY <1>2, OwnerTypes
<1>3. CASE \E c \in Caller : UpdateReads(c) \/ UpdateWrites(c) \/ Trigger(c)
  BY <1>3, UpdateTypes, TriggerTypes
<1>4. CASE \E r \in Run : Wakes(r) \/ Exhausted(r)
  BY <1>4, RunTimeTypes
<1>5. CASE UNCHANGED vars
  BY <1>5 DEF vars, TypeInv, Typed
<1> QED BY <1>1, <1>2, <1>3, <1>4, <1>5 DEF Next

\* A run that a call is at has begun, and no other is claimed.
Begun(r) == run[r].state \in {"due", "dead", "over"}
Unclaimed == \A r \in Run : run[r].state \in {"none", "asleep"} => run[r].claim = "free"
StartInv == Unclaimed /\ \A c \in Caller : call[c].run # 0 => Begun(call[c].run)
RunsGoOn == Unclaimed' /\ \A r \in Run : Begun(r) => Begun(r)'

LEMMA RunGoesOn ==
  ASSUME TypeInv, StartInv, NEW k,
         \/ run' = run
         \/ \E st \in {"due", "dead", "over"} : run' = [run EXCEPT ![k].state = st]
         \/ \E cl : (k \in Run => Begun(k)) /\ run' = [run EXCEPT ![k].claim = cl]
         \/ \E a : run' = [run EXCEPT ![k].asks = a]
  PROVE  RunsGoOn
BY DEF TypeInv, Typed, StartInv, Unclaimed, RunsGoOn, Begun, WorkflowRun

LEMMA NewRunUnclaimed ==
  ASSUME TypeInv, StartInv, NewRuns # {}, NEW of, NEW approved
  PROVE  \A r \in Run :
           /\ Triggered(of, approved)[r].state \in {"none", "asleep"} =>
                Triggered(of, approved)[r].claim = "free"
           /\ Begun(r) => Triggered(of, approved)[r].state \in {"due", "dead", "over"}
<1>1. NewRun \in Run /\ run[NewRun].state = "none"
  BY DEF NewRun, NewRuns
<1>2. Triggered(of, approved)[NewRun].claim = "free" /\ ~Begun(NewRun)
  BY <1>1 DEF Triggered, NoRun, Begun, TypeInv, Typed
<1>3. \A r \in Run : r # NewRun => Triggered(of, approved)[r] = run[r]
  BY <1>1 DEF Triggered, TypeInv, Typed
<1> QED BY <1>1, <1>2, <1>3 DEF StartInv, Unclaimed, Begun

LEMMA CallGoesOn ==
  ASSUME TypeInv, StartInv, RunsGoOn, NEW c \in Caller, NEW x, Set(c, x),
         \/ x.run \in {0, call[c].run}
         \/ x.run \in Run /\ Begun(x.run)
  PROVE  StartInv'
<1>1. call'[c] = x /\ \A d \in Caller : d # c => call'[d] = call[d]
  BY DEF Set, TypeInv, Typed
<1>2. \A d \in Caller : call[d].run \in Run \cup {0}
  BY CallIs
<1>3. ASSUME NEW d \in Caller, call'[d].run # 0
      PROVE  run'[call'[d].run].state \in {"due", "dead", "over"}
  <2>1. call'[d].run \in Run /\ Begun(call'[d].run)
    BY <1>1, <1>2, <1>3 DEF StartInv
  <2> QED BY <2>1 DEF RunsGoOn, Begun
<1> QED BY <1>3 DEF StartInv, RunsGoOn, Begun

LEMMA NoCallGoesOn == TypeInv /\ StartInv /\ RunsGoOn /\ call' = call => StartInv'
<1> SUFFICES ASSUME TypeInv, StartInv, RunsGoOn, call' = call PROVE StartInv'
  OBVIOUS
<1>1. ASSUME NEW d \in Caller, call'[d].run # 0
      PROVE  run'[call'[d].run].state \in {"due", "dead", "over"}
  <2>1. call'[d].run \in Run /\ Begun(call'[d].run)
    BY <1>1, CallIs DEF StartInv
  <2> QED BY <2>1 DEF RunsGoOn, Begun
<1> QED BY <1>1 DEF StartInv, RunsGoOn, Begun

\* A call that stays at its run, or leaves it.
LEMMA CallerGoesOn ==
  ASSUME TypeInv, StartInv, RunsGoOn, NEW c \in Caller
  PROVE  /\ \A todo : Goes(c, todo) => StartInv'
         /\ \A pc : Set(c, [call[c] EXCEPT !.pc = pc]) => StartInv'
         /\ Set(c, Idle) => StartInv'
         /\ Set(c, [call[c] EXCEPT !.pc = "write", !.read = list]) => StartInv'
         /\ Set(c, [call[c] EXCEPT !.pc = "go", !.todo = Tail(@), !.read = Idle.read])
              => StartInv'
         /\ \A k : Set(c, [call[c] EXCEPT !.todo = Tail(@), !.made = k]) => StartInv'
<1>0. call[c] \in Call
  BY CallIs
<1>1. ASSUME NEW todo, Goes(c, todo) PROVE StartInv'
  <2>1. [call[c] EXCEPT !.pc = "go", !.todo = todo].run = call[c].run
    BY <1>0 DEF Call
  <2> QED BY <1>1, <2>1, CallGoesOn DEF Goes
<1>2. ASSUME NEW pc, Set(c, [call[c] EXCEPT !.pc = pc]) PROVE StartInv'
  <2>1. [call[c] EXCEPT !.pc = pc].run = call[c].run
    BY <1>0 DEF Call
  <2> QED BY <1>2, <2>1, CallGoesOn
<1>3. Set(c, Idle) => StartInv'
  BY CallGoesOn DEF Idle
<1>4. ASSUME Set(c, [call[c] EXCEPT !.pc = "write", !.read = list]) PROVE StartInv'
  <2>1. [call[c] EXCEPT !.pc = "write", !.read = list].run = call[c].run
    BY <1>0 DEF Call
  <2> QED BY <1>4, <2>1, CallGoesOn
<1>5. ASSUME Set(c, [call[c] EXCEPT !.pc = "go", !.todo = Tail(@), !.read = Idle.read])
      PROVE  StartInv'
  <2>1. [call[c] EXCEPT !.pc = "go", !.todo = Tail(@), !.read = Idle.read].run = call[c].run
    BY <1>0 DEF Call
  <2> QED BY <1>5, <2>1, CallGoesOn
<1>6. ASSUME NEW k, Set(c, [call[c] EXCEPT !.todo = Tail(@), !.made = k]) PROVE StartInv'
  <2>1. [call[c] EXCEPT !.todo = Tail(@), !.made = k].run = call[c].run
    BY <1>0 DEF Call
  <2> QED BY <1>6, <2>1, CallGoesOn
<1> QED BY <1>1, <1>2, <1>3, <1>4, <1>5, <1>6

LEMMA RunnerStarts ==
  ASSUME TypeInv, StartInv, NEW w \in Runner, Delivers(w) \/ Crash(w) PROVE StartInv'
<1>0. w \in Caller
  BY DEF Caller
<1>k. PICK k : k = call[w].run
  OBVIOUS
<1>1. k \in Run => Begun(k)
  BY <1>0, <1>k, Numbers DEF StartInv, Run
<1>2. CASE Check(w) \/ Claim(w) \/ Turn(w) \/ Send(w) \/ Done(w) \/ Ends(w) \/ Throws(w)
           \/ Crash(w)
  <2>1. \/ run' = run
        \/ \E st \in {"due", "dead", "over"} : run' = [run EXCEPT ![k].state = st]
        \/ \E cl : run' = [run EXCEPT ![k].claim = cl]
        \/ \E a : run' = [run EXCEPT ![k].asks = a]
    <3>1. CASE Check(w) \/ Ends(w)
      BY <3>1, <1>k DEF Check, Ends, Over
    <3>2. CASE Claim(w) \/ Done(w)
      BY <3>2, <1>k DEF Claim, Done, Over
    <3>3. CASE Turn(w)
      BY <3>3, <1>k DEF Turn
    <3>4. CASE Send(w) \/ Throws(w) \/ Crash(w)
      BY <3>4 DEF Send, Throws, Crash
    <3> QED BY <1>2, <3>1, <3>2, <3>3, <3>4
  <2>2. RunsGoOn
    BY <1>1, <2>1, RunGoesOn
  <2>3. \/ \E todo : Goes(w, todo)
        \/ \E pc : Set(w, [call[w] EXCEPT !.pc = pc])
        \/ Set(w, Idle)
    BY <1>2 DEF Check, Claim, Turn, Send, Done, Ends, Throws, Crash, Did
  <2> QED BY <1>0, <2>2, <2>3, CallerGoesOn
<1>3. ASSUME NEW r \in Run, Deliver(w, r) \/ Fails(w, r) PROVE StartInv'
  <2>1. Begun(r) /\ (run' = run \/ run' = [run EXCEPT ![r].state = "over"])
    BY <1>3 DEF Deliver, Fails, Over, Begun
  <2>2. RunsGoOn
    BY <2>1, RunGoesOn
  <2>3. /\ [Idle EXCEPT !.pc = "check", !.of = run[r].of, !.run = r].run = r
        /\ [Idle EXCEPT !.pc = "go", !.of = run[r].of, !.run = r, !.todo = <<"failed">>].run = r
    BY DEF Idle
  <2>4. CASE call' = call
    BY <2>2, <2>4, NoCallGoesOn
  <2>5. CASE \/ Set(w, [Idle EXCEPT !.pc = "check", !.of = run[r].of, !.run = r])
             \/ Set(w, [Idle EXCEPT !.pc = "go", !.of = run[r].of, !.run = r,
                                    !.todo = <<"failed">>])
    BY <1>0, <2>1, <2>2, <2>3, <2>5, CallGoesOn
  <2> QED BY <1>3, <2>4, <2>5 DEF Deliver, Fails
<1> QED BY <1>2, <1>3 DEF Delivers

LEMMA OwnerStarts ==
  ASSUME TypeInv, StartInv, NEW o \in Owner, Commanded(o) \/ Answered(o) PROVE StartInv'
<1>0. o \in Caller
  BY DEF Caller
<1>1. run' = run => RunsGoOn
  BY RunGoesOn
<1>2. ASSUME NEW m, NEW todo, NEW was, Request(o, m, todo, was), RunsGoOn PROVE StartInv'
  <2>1. [Idle EXCEPT !.pc = "go", !.of = m, !.todo = todo, !.was = was].run = 0
    BY DEF Idle
  <2> QED BY <1>0, <1>2, <2>1, CallGoesOn DEF Request
<1>3. ASSUME NEW m \in Reminders,
             SetIt(o, m) \/ Cancel(o, m) \/ Pause(o, m) \/ Resume(o, m) \/ RunNow(o, m)
      PROVE  StartInv'
  <2>1. RunsGoOn
    BY <1>1, <1>3 DEF SetIt, Cancel, Pause, Resume, RunNow
  <2>2. call' = call \/ \E todo, was : Request(o, m, todo, was)
    BY <1>3 DEF SetIt, Cancel, Pause, Resume, RunNow
  <2> QED BY <1>2, <2>1, <2>2, NoCallGoesOn
<1>4. ASSUME NEW r \in Run, Approve(o, r) PROVE StartInv'
  <2>t. PICK t : t = Triggered(run[r].of, TRUE)
    OBVIOUS
  <2>1. NewRuns # {} /\ call' = call /\ run' = [t EXCEPT ![r].asks = FALSE]
    BY <1>4, <2>t DEF Approve
  <2>2. t \in [Run -> WorkflowRun]
    BY <2>1, <2>t, TriggeredType DEF TypeInv, Typed, WorkflowRun
  <2>3. \A q \in Run : run'[q].state = t[q].state /\ run'[q].claim = t[q].claim
    BY <2>1, <2>2 DEF WorkflowRun
  <2>4. RunsGoOn
    <3>1. \A q \in Run : /\ t[q].state \in {"none", "asleep"} => t[q].claim = "free"
                         /\ Begun(q) => t[q].state \in {"due", "dead", "over"}
      BY <2>1, <2>t, NewRunUnclaimed
    <3> QED BY <2>3, <3>1 DEF RunsGoOn, Unclaimed, Begun
  <2> QED BY <2>1, <2>4, NoCallGoesOn
<1>5. CASE Answered(o)
  BY <1>0, <1>1, <1>5, CallerGoesOn DEF Answered
<1> QED BY <1>3, <1>4, <1>5 DEF Commanded

LEMMA StartStep == ASSUME TypeInv, StartInv, [Next]_vars PROVE StartInv'
<1>1. ASSUME NEW c \in Caller, UpdateReads(c) \/ UpdateWrites(c) PROVE StartInv'
  <2>1. RunsGoOn
    BY <1>1, RunGoesOn DEF UpdateReads, UpdateWrites
  <2> QED BY <1>1, <2>1, CallerGoesOn DEF UpdateReads, UpdateWrites
<1>2. ASSUME NEW c \in Caller, Trigger(c) PROVE StartInv'
  <2>1. NewRuns # {} /\ (run' = run \/ run' = Triggered(call[c].of, FALSE))
    BY <1>2 DEF Trigger
  <2>2. RunsGoOn
    <3>1. CASE run' = run
      BY <3>1, RunGoesOn
    <3>2. CASE run' = Triggered(call[c].of, FALSE)
      BY <2>1, <3>2, NewRunUnclaimed DEF RunsGoOn, Unclaimed, Begun
    <3> QED BY <2>1, <3>1, <3>2
  <2>3. \/ \E todo : Goes(c, todo)
        \/ \E k : Set(c, [call[c] EXCEPT !.todo = Tail(@), !.made = k])
    BY <1>2 DEF Trigger, Refused
  <2> QED BY <2>2, <2>3, CallerGoesOn
<1>3. ASSUME NEW r \in Run, Wakes(r) \/ Exhausted(r) PROVE StartInv'
  <2>1. \E st \in {"due", "dead", "over"} : run' = [run EXCEPT ![r].state = st]
    BY <1>3 DEF Wakes, Exhausted
  <2>2. RunsGoOn /\ call' = call
    BY <1>3, <2>1, RunGoesOn DEF Wakes, Exhausted
  <2> QED BY <2>2, NoCallGoesOn
<1>4. CASE UNCHANGED vars
  BY <1>4, RunGoesOn, NoCallGoesOn DEF vars
<1> QED BY <1>1, <1>2, <1>3, <1>4, RunnerStarts, OwnerStarts DEF Next

LEMMA StartInit == Init => StartInv
BY DEF Init, StartInv, Unclaimed, Begun, NoRun, Idle

\* Reminders, runs, calls and deliveries keep their types, and a delivery is claimed by
\* its own attempt alone, never before its time: for any number of reminders, servers,
\* owners and runs, and every fault, a second delivery of a step at work included.
THEOREM TypeCorrect == Spec => []TypeOK
<1> DEFINE IInv == TypeInv /\ StartInv
<1>1. Init => IInv
  BY TypeInit, StartInit
<1>2. IInv /\ [Next]_vars => IInv'
  BY TypeStep, StartStep
<1>3. IInv => TypeOK
  BY DEF TypeInv, TypeOK, StartInv, Unclaimed
<1> HIDE DEF IInv
<1> QED BY <1>1, <1>2, <1>3, PTL DEF Spec

-----------------------------------------------------------------------------
(* An attempt reaches its owner once, if no step is delivered while a      *)
(* server is at it.  Then each run has one server at most, and it may only *)
(* send under a claim that no other server took before it.                 *)

AtWork(w) == ~At(w, "idle")
MaySend(todo) == \E i \in 1..Len(todo) : todo[i] = "send"
SendsOnce(todo) ==
  \A i, j \in 1..Len(todo) : todo[i] = "send" /\ todo[j] = "send" => i = j

Alone ==
  \A v, w \in Runner :
    AtWork(v) /\ AtWork(w) /\ call[v].run = call[w].run => v = w
Counted(r) ==
  /\ sent[r] \in {0, 1}
  /\ sent[r] # 0 => run[r].claim # "free" /\ run[r].state # "none"
Own(w) ==
  LET r == call[w].run IN
  /\ AtWork(w) => r \in Run /\ run[r].state # "none"
  /\ At(w, "claim") => run[r].claim # "done"
  /\ AtWork(w) /\ (At(w, "turn") \/ MaySend(call[w].todo))
       => sent[r] = 0 /\ run[r].claim # "free"
  /\ SendsOnce(call[w].todo)
  /\ call[w].pc \in {"check", "claim", "turn"} => call[w].todo = <<>>
AttemptInv ==
  /\ Alone
  /\ \A r \in Run : Counted(r)
  /\ \A w \in Runner : Own(w)

\* The rest of a list sends if the list did, and not after it sent.
LEMMA TailSends ==
  ASSUME NEW t \in Seq(Deed), t # <<>>
  PROVE  /\ MaySend(Tail(t)) => MaySend(t)
         /\ SendsOnce(t) => SendsOnce(Tail(t))
         /\ SendsOnce(t) /\ Head(t) = "send" => ~MaySend(Tail(t))
<1>1. /\ Len(t) \in Nat /\ Len(t) >= 1 /\ Len(Tail(t)) = Len(t) - 1 /\ Head(t) = t[1]
      /\ \A i \in 1..Len(Tail(t)) : Tail(t)[i] = t[i + 1]
  OBVIOUS
<1>2. \A i \in 1..Len(Tail(t)) : i \in Nat /\ i >= 1 /\ i + 1 \in 1..Len(t) /\ i + 1 # 1
  BY <1>1
<1>3. MaySend(Tail(t)) => MaySend(t)
  BY <1>1, <1>2 DEF MaySend
<1>4. SendsOnce(t) => SendsOnce(Tail(t))
  <2> SUFFICES ASSUME SendsOnce(t), NEW i \in 1..Len(Tail(t)), NEW j \in 1..Len(Tail(t)),
                      Tail(t)[i] = "send", Tail(t)[j] = "send"
               PROVE  i = j
    BY DEF SendsOnce
  <2>1. i + 1 = j + 1
    BY <1>1, <1>2 DEF SendsOnce
  <2> QED BY <2>1, <1>2
<1>5. ASSUME SendsOnce(t), Head(t) = "send" PROVE ~MaySend(Tail(t))
  <2> SUFFICES ASSUME NEW i \in 1..Len(Tail(t)), Tail(t)[i] = "send" PROVE FALSE
    BY DEF MaySend
  <2>1. 1 \in 1..Len(t) /\ t[1] = "send" /\ t[i + 1] = "send"
    BY <1>1, <1>5
  <2> QED BY <2>1, <1>2, <1>5 DEF SendsOnce
<1> QED BY <1>3, <1>4, <1>5

LEMMA PlanSends ==
  /\ \A result \in Results : SendsOnce(Plan[result])
  /\ SendsOnce(Plan["throw"]) /\ ~MaySend(Plan["throw"])
  /\ SendsOnce(<<"failed">>) /\ ~MaySend(<<"failed">>)
  /\ SendsOnce(<<>>) /\ ~MaySend(<<>>)
<1>1. SendsOnce(<<"keep", "send", "done", "sent">>)
  BY DEF SendsOnce
<1>2. SendsOnce(<<"keep", "trigger", "scheduled", "done">>)
  BY DEF SendsOnce
<1>3. SendsOnce(<<"keep", "waiting", "done">>)
  BY DEF SendsOnce
<1>4. SendsOnce(<<"keep", "failed", "throw">>) /\ ~MaySend(<<"keep", "failed", "throw">>)
  BY DEF SendsOnce, MaySend
<1>5. SendsOnce(<<"failed">>) /\ ~MaySend(<<"failed">>)
  BY DEF SendsOnce, MaySend
<1>6. SendsOnce(<<>>) /\ ~MaySend(<<>>)
  BY DEF SendsOnce, MaySend
<1>7. ASSUME NEW result \in Results PROVE SendsOnce(Plan[result])
  <2>1. CASE result = "send" BY <2>1, <1>1, PlanParts
  <2>2. CASE result = "poll" BY <2>2, <1>2, PlanParts
  <2>3. CASE result = "approval" BY <2>3, <1>3, PlanParts
  <2>4. CASE result = "throw" BY <2>4, <1>4, PlanParts
  <2> QED BY <2>1, <2>2, <2>3, <2>4, ReminderAssumption
<1> QED BY <1>4, <1>5, <1>6, <1>7, PlanParts

\* A server that does not move, and whose run stays as it is, keeps its part.
LEMMA Untouched ==
  ASSUME NEW v \in Runner, Own(v), call'[v] = call[v],
         AtWork(v) => LET r == call[v].run IN
                      /\ sent'[r] = sent[r] /\ run'[r].claim = run[r].claim
                      /\ run'[r].state # "none"
  PROVE  Own(v)' /\ (AtWork(v)' <=> AtWork(v))
<1>1. AtWork(v)' <=> AtWork(v)
  BY DEF AtWork, At
<1>2. CASE AtWork(v)
  BY <1>1, <1>2 DEF Own, AtWork, At
<1>3. CASE ~AtWork(v)
  BY <1>1, <1>3 DEF Own, AtWork, At
<1> QED BY <1>1, <1>2, <1>3

\* A step of no server.
LEMMA NoServerMoves ==
  ASSUME TypeInv, AttemptInv, \A w \in Runner : call'[w] = call[w], sent' = sent,
         \A r \in Run : run[r].state # "none" =>
           run'[r].state # "none" /\ run'[r].claim = run[r].claim
  PROVE  AttemptInv'
<1>1. ASSUME NEW v \in Runner PROVE Own(v)' /\ (AtWork(v)' <=> AtWork(v))
  <2>1. Own(v) /\ call'[v] = call[v]
    BY DEF AttemptInv
  <2>2. AtWork(v) => call[v].run \in Run /\ run[call[v].run].state # "none"
    BY <2>1 DEF Own
  <2> QED BY <2>1, <2>2, Untouched
<1>2. Alone'
  BY <1>1 DEF AttemptInv, Alone
<1>3. ASSUME NEW r \in Run PROVE Counted(r)'
  BY DEF AttemptInv, Counted
<1> QED BY <1>1, <1>2, <1>3 DEF AttemptInv

\* A step of one server, in its run or out of it.
LEMMA ServerMoves ==
  ASSUME TypeInv, AttemptInv, NEW w \in Runner, AtWork(w), NEW x, Set(w, x),
         x.pc = "idle" \/ x.run = call[w].run,
         \A r \in Run : run[r].state # "none" =>
           /\ run'[r].state # "none"
           /\ r # call[w].run => run'[r].claim = run[r].claim /\ sent'[r] = sent[r],
         \A r \in Run : Counted(r)',
         Own(w)'
  PROVE  AttemptInv'
<1>0. call'[w] = x /\ \A v \in Runner : v # w => call'[v] = call[v]
  BY DEF Set, TypeInv, Typed, Caller
<1>1. ASSUME NEW v \in Runner, v # w PROVE Own(v)' /\ (AtWork(v)' <=> AtWork(v))
  <2>1. Own(v) /\ call'[v] = call[v]
    BY <1>0, <1>1 DEF AttemptInv
  <2>2. AtWork(v) => /\ call[v].run \in Run /\ run[call[v].run].state # "none"
                    /\ call[v].run # call[w].run
    BY <2>1, <1>1 DEF Own, AttemptInv, Alone
  <2> QED BY <2>1, <2>2, Untouched
<1>2. Alone'
  <2> SUFFICES ASSUME NEW u \in Runner, NEW v \in Runner, AtWork(u)', AtWork(v)',
                      call'[u].run = call'[v].run
               PROVE  u = v
    BY DEF Alone
  <2>1. \A y \in Runner : AtWork(y)' => AtWork(y) /\ call'[y].run = call[y].run
    <3>1. AtWork(w)' => call'[w].run = call[w].run
      BY <1>0 DEF AtWork, At
    <3> QED BY <3>1, <1>0, <1>1
  <2> QED BY <2>1 DEF AttemptInv, Alone
<1> QED BY <1>1, <1>2 DEF AttemptInv

\* A server takes up a run that no other is at.
LEMMA ServerStarts ==
  ASSUME TypeInv, AttemptInv, NEW w \in Runner, NEW k \in Run, NEW x, Set(w, x),
         x.run = k, ~Held(k), run[k].state # "none", UNCHANGED <<run, sent>>,
         x.pc \in {"check", "go"}, SendsOnce(x.todo), ~MaySend(x.todo),
         x.pc = "check" => x.todo = <<>>
  PROVE  AttemptInv'
<1>0. call'[w] = x /\ \A v \in Runner : v # w => call'[v] = call[v]
  BY DEF Set, TypeInv, Typed, Caller
<1>1. ASSUME NEW v \in Runner, v # w
      PROVE  Own(v)' /\ (AtWork(v)' <=> AtWork(v)) /\ (AtWork(v) => call[v].run # k)
  <2>1. Own(v) /\ call'[v] = call[v]
    BY <1>0, <1>1 DEF AttemptInv
  <2>2. AtWork(v) => call[v].run \in Run /\ run[call[v].run].state # "none"
    BY <2>1 DEF Own
  <2>3. AtWork(v) => call[v].run # k
    BY DEF Held, AtWork
  <2> QED BY <2>1, <2>2, <2>3, Untouched
<1>2. Own(w)'
  BY <1>0 DEF Own, AtWork, At
<1>3. Alone'
  BY <1>0, <1>1 DEF Alone, AttemptInv
<1>4. ASSUME NEW r \in Run PROVE Counted(r)'
  BY DEF AttemptInv, Counted
<1> QED BY <1>1, <1>2, <1>3, <1>4 DEF AttemptInv

LEMMA AttemptInit == Init => AttemptInv
<1> SUFFICES ASSUME Init PROVE AttemptInv
  OBVIOUS
<1>1. \A w \in Runner : call[w] = Idle /\ Idle.pc = "idle" /\ Idle.todo = <<>>
  BY DEF Init, Idle, Caller
<1>2. \A w \in Runner : Own(w) /\ ~AtWork(w)
  BY <1>1, PlanSends DEF Own, AtWork, At
<1>3. \A r \in Run : Counted(r)
  BY DEF Init, Counted
<1> QED BY <1>2, <1>3 DEF AttemptInv, Alone

\* What a run under way looks like to its server.
LEMMA ServerIs ==
  ASSUME TypeInv, AttemptInv, NEW w \in Runner, AtWork(w)
  PROVE  LET r == call[w].run IN
         /\ w \in Caller /\ r \in Run /\ run[r].state # "none" /\ Own(w) /\ Counted(r)
         /\ run[r] \in WorkflowRun /\ sent[r] \in Nat /\ call[w].todo \in Seq(Deed)
BY CallIs DEF Caller, AttemptInv, Own, TypeInv, Typed

\* A server that goes idle, and whatever its run then is: nobody is at it.
LEMMA ServerLeaves ==
  ASSUME TypeInv, AttemptInv, NEW w \in Runner, AtWork(w), Set(w, Idle), sent' = sent,
         run' = run \/ Over(call[w].run)
  PROVE  AttemptInv'
<1>0. /\ call[w].run \in Run /\ Idle.pc = "idle" /\ Idle.todo = <<>>
      /\ call'[w] = Idle
  BY ServerIs DEF Idle, Set, TypeInv, Typed, Caller
<1>1. \A r \in Run : /\ run'[r].claim = run[r].claim
                     /\ run[r].state # "none" => run'[r].state # "none"
  BY <1>0 DEF Over, TypeInv, Typed, WorkflowRun
<1>2. \A r \in Run : Counted(r)'
  BY <1>1 DEF AttemptInv, Counted
<1>3. Own(w)'
  BY <1>0, PlanSends DEF Own, AtWork, At
<1> QED BY <1>0, <1>1, <1>2, <1>3, ServerMoves

\* A server that goes on with a list that sends only if its run may still be sent.
LEMMA ServerGoes ==
  ASSUME TypeInv, AttemptInv, NEW w \in Runner, AtWork(w), NEW x, Set(w, x),
         x.run = call[w].run, x.pc \in {"go", "write"}, SendsOnce(x.todo),
         MaySend(x.todo) => sent[call[w].run] = 0 /\ run[call[w].run].claim # "free",
         sent' = sent,
         \A r \in Run : run[r].state # "none" =>
           run'[r].state # "none" /\ run'[r].claim = run[r].claim
  PROVE  AttemptInv'
<1>0. call'[w] = x
  BY DEF Set, TypeInv, Typed, Caller
<1>1. \A r \in Run : Counted(r)'
  BY DEF AttemptInv, Counted
<1>2. Own(w)'
  BY <1>0, ServerIs DEF Own, AtWork, At
<1> QED BY <1>1, <1>2, ServerMoves

LEMMA CheckStep ==
  ASSUME TypeInv, AttemptInv, NEW w \in Runner, Check(w) PROVE AttemptInv'
<1> DEFINE r == call[w].run
           x == [call[w] EXCEPT !.pc = "claim"]
<1>0. AtWork(w) /\ At(w, "check") /\ sent' = sent
  BY DEF Check, AtWork, At
<1>1. CASE run[r].claim = "done"
  BY <1>0, <1>1, ServerLeaves DEF Check
<1>2. CASE run[r].claim # "done"
  <2>1. Set(w, x) /\ run' = run
    BY <1>2 DEF Check
  <2>2. call[w].todo = <<>> /\ x.pc = "claim" /\ x.run = r /\ x.todo = call[w].todo
    BY <1>0, ServerIs DEF Own, At, TypeInv, Typed, Call
  <2>3. call'[w] = x
    BY <2>1 DEF Set, TypeInv, Typed, Caller
  <2>4. Own(w)'
    BY <1>0, <1>2, <2>1, <2>2, <2>3, ServerIs, PlanSends DEF Own, AtWork, At
  <2>5. \A q \in Run : Counted(q)'
    BY <1>0, <2>1 DEF AttemptInv, Counted
  <2> QED BY <1>0, <2>1, <2>2, <2>4, <2>5, ServerMoves
<1> QED BY <1>1, <1>2

LEMMA ClaimStep ==
  ASSUME TypeInv, AttemptInv, NEW w \in Runner, Claim(w) PROVE AttemptInv'
<1> DEFINE r == call[w].run
           x == [call[w] EXCEPT !.pc = "turn"]
<1>0. AtWork(w) /\ At(w, "claim") /\ sent' = sent
  BY DEF Claim, AtWork, At
<1>1. CASE run[r].claim = "held"
  BY <1>0, <1>1, ServerLeaves DEF Claim
<1>2. CASE run[r].claim # "held"
  <2>1. Set(w, x) /\ run' = [run EXCEPT ![r].claim = "held"]
    BY <1>2 DEF Claim
  <2>2. call[w].todo = <<>> /\ x.pc = "turn" /\ x.run = r /\ x.todo = call[w].todo
    BY <1>0, ServerIs DEF Own, At, TypeInv, Typed, Call
  <2>3. call'[w] = x
    BY <2>1 DEF Set, TypeInv, Typed, Caller
  <2>4. r \in Run /\ run[r].claim = "free" /\ sent[r] = 0
    BY <1>0, <1>2, ServerIs DEF Own, Counted, WorkflowRun
  <2>5. /\ run'[r].claim = "held" /\ run'[r].state = run[r].state
        /\ \A q \in Run : q # r => run'[q] = run[q]
    BY <2>1, <2>4 DEF TypeInv, Typed, WorkflowRun
  <2>6. Own(w)'
    BY <1>0, <2>2, <2>3, <2>4, <2>5, ServerIs, PlanSends DEF Own, AtWork, At
  <2>7. \A q \in Run : Counted(q)'
    BY <1>0, <2>4, <2>5 DEF AttemptInv, Counted
  <2>8. \A q \in Run : run[q].state # "none" =>
           /\ run'[q].state # "none"
           /\ q # r => run'[q].claim = run[q].claim /\ sent'[q] = sent[q]
    BY <1>0, <2>5
  <2> QED BY <1>0, <2>1, <2>2, <2>6, <2>7, <2>8, ServerMoves
<1> QED BY <1>1, <1>2

LEMMA TurnStep ==
  ASSUME TypeInv, AttemptInv, NEW w \in Runner, Turn(w) PROVE AttemptInv'
<1>0. AtWork(w) /\ At(w, "turn") /\ sent' = sent
  BY DEF Turn, AtWork, At
<1>1. PICK result \in Results :
        /\ Goes(w, Plan[result])
        /\ run' = [run EXCEPT ![call[w].run].asks = result \in {"poll", "approval"}]
  BY DEF Turn
<1> DEFINE x == [call[w] EXCEPT !.pc = "go", !.todo = Plan[result]]
<1>2. Set(w, x)
  BY <1>1 DEF Goes
<1>3. x.pc = "go" /\ x.run = call[w].run /\ x.todo = Plan[result]
  BY ServerIs, <1>0 DEF TypeInv, Typed, Call
<1>4. SendsOnce(x.todo)
  BY <1>3, PlanSends
<1>5. sent[call[w].run] = 0 /\ run[call[w].run].claim # "free"
  BY <1>0, ServerIs DEF Own
<1>6. \A r \in Run : run'[r].state = run[r].state /\ run'[r].claim = run[r].claim
  BY <1>1 DEF TypeInv, Typed, WorkflowRun
<1> HIDE DEF x
<1> QED BY <1>0, <1>2, <1>3, <1>4, <1>5, <1>6, ServerGoes

\* The next deed of a list, done.
LEMMA NextDeed ==
  ASSUME TypeInv, AttemptInv, NEW w \in Runner, At(w, "go") \/ At(w, "write"),
         call[w].todo # <<>>
  PROVE  /\ AtWork(w) /\ SendsOnce(Tail(call[w].todo))
         /\ MaySend(Tail(call[w].todo)) =>
              /\ sent[call[w].run] = 0 /\ run[call[w].run].claim # "free"
              /\ Next1(w) # "send"
<1>1. AtWork(w)
  BY DEF At, AtWork
<1>2. call[w].todo \in Seq(Deed) /\ SendsOnce(call[w].todo)
  BY <1>1, ServerIs DEF Own
<1>3. MaySend(Tail(call[w].todo)) => MaySend(call[w].todo) /\ Head(call[w].todo) # "send"
  BY <1>2, TailSends
<1>4. MaySend(call[w].todo) => sent[call[w].run] = 0 /\ run[call[w].run].claim # "free"
  BY <1>1, ServerIs DEF Own
<1> QED BY <1>1, <1>2, <1>3, <1>4, TailSends DEF Next1

LEMMA SendStep ==
  ASSUME TypeInv, AttemptInv, NEW w \in Runner, Send(w) PROVE AttemptInv'
<1> DEFINE r == call[w].run
<1>0. /\ At(w, "go") /\ AtWork(w) /\ call[w].todo # <<>> /\ Next1(w) = "send" /\ run' = run
      /\ r \in Run /\ run[r].state # "none" /\ call[w] \in Call
  BY ServerIs, CallIs DEF Send, Does, AtWork, At
<1>1. CASE Goes(w, Plan["throw"]) /\ sent' = sent
  <2> DEFINE x == [call[w] EXCEPT !.pc = "go", !.todo = Plan["throw"]]
  <2>1. Set(w, x) /\ x.pc = "go" /\ x.run = r /\ x.todo = Plan["throw"]
    BY <1>0, <1>1 DEF Goes, Call
  <2>2. SendsOnce(x.todo) /\ ~MaySend(x.todo)
    BY <2>1, PlanSends
  <2> HIDE DEF x
  <2> QED BY <1>0, <1>1, <2>1, <2>2, ServerGoes
<1>2. CASE (Did(w) \/ Goes(w, Plan["throw"])) /\ sent' = [sent EXCEPT ![r] = @ + 1]
  <2>0. PICK todo \in {Tail(call[w].todo), Plan["throw"]} : Goes(w, todo)
    BY <1>2 DEF Did
  <2> DEFINE x == [call[w] EXCEPT !.pc = "go", !.todo = todo]
  <2>1. Set(w, x) /\ x.pc = "go" /\ x.run = r /\ x.todo = todo
    BY <1>0, <2>0 DEF Goes, Call
  <2>2. call'[w] = x
    BY <2>1 DEF Set, TypeInv, Typed, Caller
  <2>3. SendsOnce(x.todo) /\ ~MaySend(x.todo)
    BY <1>0, <2>1, NextDeed, PlanSends
  <2>4. MaySend(call[w].todo)
    <3>1. Len(call[w].todo) >= 1 /\ call[w].todo[1] = "send" /\ Len(call[w].todo) \in Nat
      BY <1>0, ServerIs DEF Next1
    <3> QED BY <3>1 DEF MaySend
  <2>5. sent[r] = 0 /\ run[r].claim # "free"
    BY <1>0, <2>4, ServerIs DEF Own
  <2>6. sent'[r] = 1 /\ \A q \in Run : q # r => sent'[q] = sent[q]
    BY <1>0, <1>2, <2>5 DEF TypeInv, Typed
  <2>7. \A q \in Run : Counted(q)'
    BY <1>0, <2>5, <2>6 DEF AttemptInv, Counted
  <2> HIDE DEF x
  <2>8. Own(w)'
    BY <1>0, <2>1, <2>2, <2>3 DEF Own, At
  <2> QED BY <1>0, <2>1, <2>6, <2>7, <2>8, ServerMoves
<1> QED BY <1>1, <1>2 DEF Send

LEMMA DoneStep ==
  ASSUME TypeInv, AttemptInv, NEW w \in Runner, Done(w) PROVE AttemptInv'
<1> DEFINE r == call[w].run
           x == [call[w] EXCEPT !.pc = "go", !.todo = Tail(call[w].todo)]
<1>0. /\ At(w, "go") /\ AtWork(w) /\ call[w].todo # <<>> /\ sent' = sent
      /\ r \in Run /\ run[r].state # "none" /\ call[w] \in Call
      /\ run' = [run EXCEPT ![r].claim = "done"]
  BY ServerIs, CallIs DEF Done, Does, AtWork, At
<1>1. Set(w, x) /\ x.pc = "go" /\ x.run = r /\ x.todo = Tail(call[w].todo)
  BY <1>0 DEF Done, Did, Goes, Call
<1>2. call'[w] = x
  BY <1>1 DEF Set, TypeInv, Typed, Caller
<1>3. /\ run'[r].claim = "done" /\ run'[r].state = run[r].state
      /\ \A q \in Run : q # r => run'[q] = run[q]
  BY <1>0 DEF TypeInv, Typed, WorkflowRun
<1>4. \A q \in Run : Counted(q)'
  BY <1>0, <1>3 DEF AttemptInv, Counted
<1>5. SendsOnce(x.todo) /\ (MaySend(x.todo) => sent[r] = 0)
  BY <1>0, <1>1, NextDeed
<1> HIDE DEF x
<1>6. Own(w)'
  BY <1>0, <1>1, <1>2, <1>3, <1>5 DEF Own, At
<1>7. \A q \in Run : run[q].state # "none" =>
         /\ run'[q].state # "none"
         /\ q # r => run'[q].claim = run[q].claim /\ sent'[q] = sent[q]
  BY <1>0, <1>3
<1> QED BY <1>0, <1>1, <1>4, <1>6, <1>7, ServerMoves

LEMMA DeliverStep ==
  ASSUME TypeInv, AttemptInv, "redelivery" \notin Faults, NEW w \in Runner, NEW r \in Run,
         Deliver(w, r) \/ Fails(w, r)
  PROVE  AttemptInv'
<1>1. ~Held(r) /\ sent' = sent /\ At(w, "idle") /\ run[r].state # "none"
  BY DEF Deliver, Fails, Fault
<1>2. CASE UNCHANGED call /\ Over(r)
  <2>1. \A q \in Run : run[q].state # "none" =>
           run'[q].state # "none" /\ run'[q].claim = run[q].claim
    BY <1>2 DEF Over, TypeInv, Typed, WorkflowRun
  <2> QED BY <1>1, <1>2, <2>1, NoServerMoves
<1>3. CASE Set(w, [Idle EXCEPT !.pc = "check", !.of = run[r].of, !.run = r]) /\ run' = run
  <2> DEFINE x == [Idle EXCEPT !.pc = "check", !.of = run[r].of, !.run = r]
  <2>1. Set(w, x) /\ run' = run
    BY <1>3
  <2>2. x.pc = "check" /\ x.run = r /\ x.todo = <<>>
    BY DEF Idle
  <2> HIDE DEF x
  <2> QED BY <1>1, <2>1, <2>2, PlanSends, ServerStarts
<1>4. CASE /\ Set(w, [Idle EXCEPT !.pc = "go", !.of = run[r].of, !.run = r,
                              !.todo = <<"failed">>])
           /\ run' = run
  <2> DEFINE x == [Idle EXCEPT !.pc = "go", !.of = run[r].of, !.run = r,
                               !.todo = <<"failed">>]
  <2>1. Set(w, x) /\ run' = run
    BY <1>4
  <2>2. x.pc = "go" /\ x.run = r /\ x.todo = <<"failed">>
    BY DEF Idle
  <2> HIDE DEF x
  <2> QED BY <1>1, <2>1, <2>2, PlanSends, ServerStarts
<1> QED BY <1>2, <1>3, <1>4 DEF Deliver, Fails

LEMMA UpdateStep ==
  ASSUME TypeInv, AttemptInv, NEW w \in Runner, UpdateReads(w) \/ UpdateWrites(w)
  PROVE  AttemptInv'
<1>0. /\ sent' = sent /\ run' = run
      /\ At(w, "go") \/ At(w, "write")
      /\ w \in Caller
      /\ \A r \in Run : run[r].state # "none" =>
           run'[r].state # "none" /\ run'[r].claim = run[r].claim
  BY DEF UpdateReads, UpdateWrites, Does, Caller
<1>1. AtWork(w) /\ call[w] \in Call /\ call[w].todo # <<>>
  BY <1>0, CallIs DEF UpdateReads, UpdateWrites, Does, At, AtWork
<1>2. CASE UpdateReads(w)
  <2> DEFINE x == [call[w] EXCEPT !.pc = "write", !.read = list]
  <2>1. Set(w, x) /\ x.pc = "write" /\ x.run = call[w].run /\ x.todo = call[w].todo
    BY <1>1, <1>2 DEF UpdateReads, Call
  <2>2. /\ SendsOnce(x.todo)
        /\ MaySend(x.todo) => sent[call[w].run] = 0 /\ run[call[w].run].claim # "free"
    BY <1>1, <2>1, ServerIs DEF Own
  <2> HIDE DEF x
  <2> QED BY <1>0, <1>1, <2>1, <2>2, ServerGoes
<1>3. CASE UpdateWrites(w)
  <2> DEFINE x == [call[w] EXCEPT !.pc = "go", !.todo = Tail(@), !.read = Idle.read]
  <2>1. Set(w, x) /\ x.pc = "go" /\ x.run = call[w].run /\ x.todo = Tail(call[w].todo)
    BY <1>1, <1>3 DEF UpdateWrites, Call
  <2>2. /\ SendsOnce(x.todo)
        /\ MaySend(x.todo) => sent[call[w].run] = 0 /\ run[call[w].run].claim # "free"
    BY <1>0, <1>1, <2>1, NextDeed
  <2> HIDE DEF x
  <2> QED BY <1>0, <1>1, <2>1, <2>2, ServerGoes
<1> QED BY <1>2, <1>3

\* A new run takes the place of none, and nobody is at it.
LEMMA NewRunIsNobodys ==
  ASSUME TypeInv, NewRuns # {}, NEW of, NEW approved,
         run' = run \/ run' = Triggered(of, approved)
  PROVE  \A r \in Run : run[r].state # "none" =>
           run'[r].state # "none" /\ run'[r].claim = run[r].claim
<1>1. NewRun \in Run /\ run[NewRun].state = "none"
  BY DEF NewRun, NewRuns
<1> QED BY <1>1 DEF Triggered, TypeInv, Typed

LEMMA TriggerStep ==
  ASSUME TypeInv, AttemptInv, NEW w \in Runner, Trigger(w) PROVE AttemptInv'
<1>0. /\ sent' = sent /\ At(w, "go") /\ AtWork(w) /\ call[w].todo # <<>>
      /\ w \in Caller /\ w \notin Owner /\ call[w] \in Call
  BY CallIs, Numbers DEF Trigger, Does, Caller, At, AtWork
<1>1. \A r \in Run : run[r].state # "none" =>
         run'[r].state # "none" /\ run'[r].claim = run[r].claim
  BY NewRunIsNobodys DEF Trigger
<1>2. CASE Set(w, [call[w] EXCEPT !.todo = Tail(@), !.made = NewRun])
  <2> DEFINE x == [call[w] EXCEPT !.todo = Tail(@), !.made = NewRun]
  <2>1. Set(w, x) /\ x.pc = "go" /\ x.run = call[w].run /\ x.todo = Tail(call[w].todo)
    BY <1>0, <1>2 DEF At, Call
  <2>2. /\ SendsOnce(x.todo)
        /\ MaySend(x.todo) => sent[call[w].run] = 0 /\ run[call[w].run].claim # "free"
    BY <1>0, <2>1, NextDeed
  <2> HIDE DEF x
  <2> QED BY <1>0, <1>1, <2>1, <2>2, ServerGoes
<1>3. CASE Refused(w)
  <2> DEFINE x == [call[w] EXCEPT !.pc = "go", !.todo = Plan["throw"]]
  <2>1. Set(w, x) /\ x.pc = "go" /\ x.run = call[w].run /\ x.todo = Plan["throw"]
    BY <1>0, <1>3 DEF Refused, Goes, Call
  <2>2. SendsOnce(x.todo) /\ ~MaySend(x.todo)
    BY <2>1, PlanSends
  <2> HIDE DEF x
  <2> QED BY <1>0, <1>1, <2>1, <2>2, ServerGoes
<1> QED BY <1>2, <1>3 DEF Trigger

\* What an owner does moves no server.
LEMMA OwnerStep ==
  ASSUME TypeInv, AttemptInv, NEW o \in Owner,
         \/ Commanded(o) \/ Answered(o) \/ UpdateReads(o) \/ UpdateWrites(o) \/ Trigger(o)
  PROVE  AttemptInv'
<1>0. sent' = sent
  BY DEF Commanded, Answered, UpdateReads, UpdateWrites, Trigger, SetIt, Cancel, Pause,
         Resume, RunNow, Approve
<1>1. ASSUME NEW w \in Runner PROVE call'[w] = call[w]
  <2>1. w # o /\ w \in Caller
    BY Numbers DEF Caller
  <2>2. UNCHANGED call \/ \E x : Set(o, x)
    BY DEF Commanded, Answered, UpdateReads, UpdateWrites, Trigger, SetIt, Cancel, Pause,
           Resume, RunNow, Approve, Refused, Goes, Request
  <2> QED BY <2>1, <2>2 DEF Set, TypeInv, Typed
<1>2. \A r \in Run : run[r].state # "none" =>
         run'[r].state # "none" /\ run'[r].claim = run[r].claim
  <2>1. CASE run' = run
    BY <2>1
  <2>2. CASE Trigger(o)
    BY <2>2, NewRunIsNobodys DEF Trigger
  <2>3. ASSUME NEW r \in Run, Approve(o, r)
        PROVE  \A q \in Run : run[q].state # "none" =>
                 run'[q].state # "none" /\ run'[q].claim = run[q].claim
    <3>1. NewRun \in Run /\ run[NewRun].state = "none"
      BY <2>3 DEF Approve, NewRun, NewRuns
    <3>2. \A q \in Run : run[q].state # "none" =>
             /\ Triggered(run[r].of, TRUE)[q].state = run[q].state
             /\ Triggered(run[r].of, TRUE)[q].claim = run[q].claim
      BY <3>1 DEF Triggered, TypeInv, Typed
    <3>3. \A q \in Run : /\ run'[q].state = Triggered(run[r].of, TRUE)[q].state
                         /\ run'[q].claim = Triggered(run[r].of, TRUE)[q].claim
      <4> DEFINE t == Triggered(run[r].of, TRUE)
      <4>1. t \in [Run -> WorkflowRun]
        <5>1. run[r].of \in Reminders \cup {"nothing"} /\ NewRuns # {}
          BY <2>3 DEF Approve, TypeInv, Typed, WorkflowRun
        <5> QED BY <5>1, TriggeredType
      <4>2. run' = [t EXCEPT ![r].asks = FALSE]
        BY <2>3 DEF Approve
      <4> HIDE DEF t
      <4>3. \A q \in Run : run'[q].state = t[q].state /\ run'[q].claim = t[q].claim
        BY <4>1, <4>2 DEF WorkflowRun
      <4> QED BY <4>3 DEF t
    <3> QED BY <3>2, <3>3
  <2> QED BY <2>1, <2>2, <2>3 DEF Commanded, Answered, UpdateReads, UpdateWrites, SetIt,
             Cancel, Pause, Resume, RunNow
<1> QED BY <1>0, <1>1, <1>2, NoServerMoves

LEMMA TimeStep ==
  ASSUME TypeInv, AttemptInv, NEW r \in Run, Wakes(r) \/ Exhausted(r)
  PROVE  AttemptInv'
<1>1. \A q \in Run : run[q].state # "none" =>
         run'[q].state # "none" /\ run'[q].claim = run[q].claim
  BY DEF Wakes, Exhausted, TypeInv, Typed, WorkflowRun
<1> QED BY <1>1, NoServerMoves DEF Wakes, Exhausted

LEMMA AttemptStep ==
  TypeInv /\ AttemptInv /\ "redelivery" \notin Faults /\ [Next]_vars => AttemptInv'
<1> SUFFICES ASSUME TypeInv, AttemptInv, "redelivery" \notin Faults, [Next]_vars
             PROVE  AttemptInv'
  OBVIOUS
<1>1. ASSUME NEW w \in Runner, Delivers(w) \/ Crash(w) PROVE AttemptInv'
  <2>1. CASE Ends(w) \/ Throws(w) \/ Crash(w)
    <3>1. AtWork(w) /\ Set(w, Idle) /\ sent' = sent /\ (run' = run \/ Over(call[w].run))
      BY <2>1 DEF Ends, Throws, Crash, Does, AtWork, At
    <3> QED BY <3>1, ServerLeaves
  <2> QED BY <1>1, <2>1, CheckStep, ClaimStep, TurnStep, SendStep, DoneStep, DeliverStep
          DEF Delivers
<1>2. ASSUME NEW o \in Owner, Commanded(o) \/ Answered(o) PROVE AttemptInv'
  BY <1>2, OwnerStep
<1>3. ASSUME NEW c \in Caller, UpdateReads(c) \/ UpdateWrites(c) \/ Trigger(c)
      PROVE  AttemptInv'
  BY <1>3, OwnerStep, UpdateStep, TriggerStep DEF Caller
<1>4. ASSUME NEW r \in Run, Wakes(r) \/ Exhausted(r) PROVE AttemptInv'
  BY <1>4, TimeStep
<1>5. CASE UNCHANGED vars
  <2>1. \A w \in Runner : call'[w] = call[w]
    BY <1>5 DEF vars
  <2> QED BY <1>5, <2>1, NoServerMoves DEF vars
<1> QED BY <1>1, <1>2, <1>3, <1>4, <1>5 DEF Next

\* If QStash delivers no step while a server is at it, an attempt reaches its owner
\* once: servers may die anywhere, and retries, polls and the owner interleave as they
\* like.
THEOREM AttemptReachesOnce ==
  "redelivery" \notin Faults => (Spec => []SentOncePerAttempt)
<1>1. TypeInv /\ AttemptInv => SentOncePerAttempt
  <2> SUFFICES ASSUME AttemptInv, NEW r \in Run PROVE sent[r] <= 1
    BY DEF SentOncePerAttempt
  <2>1. sent[r] = 0 \/ sent[r] = 1
    BY DEF AttemptInv, Counted
  <2> QED BY <2>1
<1>2. SUFFICES ASSUME "redelivery" \notin Faults PROVE Spec => []SentOncePerAttempt
  OBVIOUS
<1>3. TypeInv /\ AttemptInv /\ [Next]_vars => (TypeInv /\ AttemptInv)'
  BY <1>2, TypeStep, AttemptStep
<1>4. Init => TypeInv /\ AttemptInv
  BY TypeInit, AttemptInit
<1> QED BY <1>1, <1>3, <1>4, PTL DEF Spec
-----------------------------------------------------------------------------
(* A reminder that is called scheduled is coming.  What a run or a request *)
(* is good for depends on what is still on its caller's list: a run whose  *)
(* server has only to mark it done, or to leave it, reaches nobody any     *)
(* more; a request that will trigger, or write another status, answers for *)
(* the reminder until it has.                                              *)

\* No update is based on a read that is stale about another reminder: with one
\* reminder there is none.
Undisturbed ==
  \A c \in Caller : At(c, "write") =>
    \A n \in Reminders \ {call[c].of} : call[c].read[n] = list[n]

Unscheduled == Status \ {"scheduled"}
OnList(w) == call[w].pc \in {"go", "write"}
Working ==
  {<<"keep", "send", "done", "sent">>, <<"send", "done", "sent">>,
   <<"keep", "trigger", "scheduled", "done">>, <<"trigger", "scheduled", "done">>,
   <<"keep", "waiting", "done">>, <<"waiting", "done">>,
   <<"keep", "failed", "throw">>, <<"failed", "throw">>, <<"throw">>}
Leaving == {<<>>, <<"done">>}
RunList(w) ==
  LET x == call[w]
      r == x.run
  IN \/ x.todo \in Working \cup {<<"done">>} /\ run[r].claim = "held"
     \/ x.todo = <<"scheduled", "done">> /\ run[r].claim = "held" /\ x.made # 0
     \/ x.todo = <<"done", "sent">> /\ run[r].claim = "held" /\ sent[r] > 0
     \/ x.todo = <<"sent">> /\ sent[r] > 0
     \/ x.todo = <<>>
ServerOK(w) ==
  LET r == call[w].run IN
  AtWork(w) =>
    /\ call[w].of = run[r].of
    /\ call[w].pc \in {"check", "claim", "turn"} => run[r].state = "due"
    /\ At(w, "turn") => run[r].claim = "held"
    /\ OnList(w) => \/ run[r].state = "due" /\ RunList(w)
                    \/ run[r].state = "dead" /\ call[w].todo \in {<<"failed">>, <<>>}

Asking == {<<"trigger", "keep">>, <<"scheduled", "trigger", "keep">>}
Undoing == {<<s>> : s \in Unscheduled}
OwnerOK(o) ==
  LET x == call[o] IN
  /\ x.pc \in {"idle", "go", "write"}
  /\ x.pc = "idle" => x.todo = <<>>
  /\ \/ x.todo \in Asking /\ x.was \in Unscheduled
     \/ x.todo = <<"keep">> /\ x.made # 0
     \/ x.todo \in Undoing
     \/ x.todo = <<>>

MadeOK(c) ==
  LET q == call[c].made IN
  q # 0 => q \in Run /\ run[q].state = "asleep" /\ run[q].of = call[c].of
Fresh(r) == run[r].state \in {"none", "asleep"} => run[r].claim = "free"

Spent(r) == \E w \in Runner : OnList(w) /\ call[w].run = r /\ call[w].todo \in Leaving
Good(r) ==
  \/ run[r].state = "asleep"
  \/ run[r].state = "due" /\ run[r].claim # "done" /\ ~Spent(r)
  \/ run[r].state = "dead" /\ ~Spent(r)
  \/ run[r].state = "over" /\ run[r].claim = "held"
  \/ sent[r] > 0
Promised(m) == \E r \in Run : run[r].of = m /\ Good(r)
Pending(o, m) == call[o].of = m /\ call[o].todo \in Asking \cup Undoing
AtIt(m) == \E o \in Owner : Pending(o, m)
Kept(m) == list[m] = "scheduled" => Promised(m) \/ AtIt(m)

ComingInv ==
  /\ \A w \in Runner : ServerOK(w)
  /\ \A o \in Owner : OwnerOK(o)
  /\ \A c \in Caller : MadeOK(c)
  /\ \A r \in Run : Fresh(r)
  /\ \A m \in Reminders : Kept(m)

\* What is left of a list.
LEMMA Lists ==
  ASSUME NEW t \in Working \cup {<<"scheduled", "done">>, <<"done", "sent">>, <<"sent">>,
                                 <<"done">>, <<"failed">>}
  PROVE  /\ t # <<>>
         /\ Head(t) = "keep" => Tail(t) \in Working
         /\ Head(t) = "send" => Tail(t) = <<"done", "sent">>
         /\ Head(t) = "trigger" => Tail(t) = <<"scheduled", "done">>
         /\ Head(t) = "scheduled" => t = <<"scheduled", "done">> /\ Tail(t) = <<"done">>
         /\ Head(t) = "waiting" => Tail(t) = <<"done">>
         /\ Head(t) = "failed" => IF t = <<"failed">> THEN Tail(t) = <<>>
                                  ELSE Tail(t) = <<"throw">>
         /\ Head(t) = "done" => \/ t = <<"done">> /\ Tail(t) = <<>>
                                \/ t = <<"done", "sent">> /\ Tail(t) = <<"sent">>
         /\ Head(t) = "sent" => t = <<"sent">> /\ Tail(t) = <<>>
         /\ Head(t) = "throw" => t = <<"throw">>
         /\ Head(t) \in {"keep", "send", "trigger", "scheduled", "waiting", "failed",
                         "done", "sent", "throw"}
<1>1. CASE t = <<"keep", "send", "done", "sent">>
  <2>1. Head(t) = "keep" /\ Tail(t) = <<"send", "done", "sent">> /\ t # <<>>
    BY <1>1
  <2> QED BY <2>1 DEF Working
<1>2. CASE t = <<"send", "done", "sent">>
  BY <1>2
<1>3. CASE t = <<"keep", "trigger", "scheduled", "done">>
  <2>1. Head(t) = "keep" /\ Tail(t) = <<"trigger", "scheduled", "done">> /\ t # <<>>
    BY <1>3
  <2> QED BY <2>1 DEF Working
<1>4. CASE t = <<"trigger", "scheduled", "done">>
  BY <1>4
<1>5. CASE t = <<"keep", "waiting", "done">>
  <2>1. Head(t) = "keep" /\ Tail(t) = <<"waiting", "done">> /\ t # <<>>
    BY <1>5
  <2> QED BY <2>1 DEF Working
<1>6. CASE t = <<"waiting", "done">>
  BY <1>6
<1>7. CASE t = <<"keep", "failed", "throw">>
  <2>1. Head(t) = "keep" /\ Tail(t) = <<"failed", "throw">> /\ t # <<>>
    BY <1>7
  <2> QED BY <2>1 DEF Working
<1>8. CASE t = <<"failed", "throw">>
  BY <1>8
<1>9. CASE t = <<"throw">>
  BY <1>9
<1>10. CASE t = <<"scheduled", "done">>
  BY <1>10
<1>11. CASE t = <<"done", "sent">>
  BY <1>11
<1>12. CASE t = <<"sent">>
  BY <1>12
<1>13. CASE t = <<"done">>
  BY <1>13
<1>14. CASE t = <<"failed">>
  BY <1>14
<1> QED BY <1>1, <1>2, <1>3, <1>4, <1>5, <1>6, <1>7, <1>8, <1>9, <1>10, <1>11, <1>12,
           <1>13, <1>14 DEF Working

LEMMA NotLeaving ==
  /\ \A t \in Working : t \notin Leaving /\ t # <<"failed">>
  /\ <<"scheduled", "done">> \notin Leaving /\ <<"done", "sent">> \notin Leaving
  /\ <<"failed">> \notin Leaving
BY DEF Working, Leaving

LEMMA PlansWork == \A result \in Results \cup {"throw"} : Plan[result] \in Working
<1> SUFFICES ASSUME NEW result \in Results \cup {"throw"} PROVE Plan[result] \in Working
  OBVIOUS
<1>1. result \in {"send", "poll", "approval", "throw"}
  BY ReminderAssumption
<1> QED BY <1>1, PlanParts DEF Working

LEMMA ComingInit == Init => ComingInv
<1> SUFFICES ASSUME Init PROVE ComingInv
  OBVIOUS
<1>1. /\ Idle.pc = "idle" /\ Idle.todo = <<>> /\ Idle.made = 0
      /\ \A c \in Caller : call[c] = Idle
  BY DEF Init, Idle
<1>2. \A r \in Run : run[r].claim = "free"
  BY DEF Init, NoRun
<1>3. \A m \in Reminders : list[m] # "scheduled"
  BY DEF Init
<1> QED BY <1>1, <1>2, <1>3
        DEF ComingInv, ServerOK, AtWork, At, OwnerOK, MadeOK, Fresh, Kept, Caller

\* What is the same of a run, and whether it is still good for something.
Same(r) ==
  /\ run'[r].state = run[r].state /\ run'[r].of = run[r].of
  /\ run'[r].claim = run[r].claim /\ sent'[r] = sent[r]

\* A step of the callers C, who are at no run but k, keeps the rest.
LEMMA Rest ==
  ASSUME TypeInv, AttemptInv, ComingInv, NEW C \in SUBSET Caller, NEW k,
         \A d \in Caller \ C : call'[d] = call[d],
         \A r \in Run : r # k /\ run[r].state # "none" => Same(r),
         \A d \in Runner \ C : AtWork(d) => call[d].run # k,
         \A d \in Caller \ C : call[d].made = k => k = 0
  PROVE  /\ \A d \in Runner \ C : ServerOK(d)'
         /\ \A d \in Owner \ C : OwnerOK(d)'
         /\ \A d \in Caller \ C : MadeOK(d)'
<1>1. ASSUME NEW d \in Runner \ C PROVE ServerOK(d)'
  <2>1. d \in Caller /\ call'[d] = call[d] /\ ServerOK(d)
    BY DEF Caller, ComingInv
  <2>2. AtWork(d) => call[d].run \in Run /\ run[call[d].run].state # "none"
                     /\ call[d].run # k
    BY ServerIs
  <2>3. AtWork(d) => Same(call[d].run)
    BY <2>2
  <2>4. AtWork(d)' <=> AtWork(d)
    BY <2>1 DEF AtWork, At
  <2> QED BY <2>1, <2>3, <2>4 DEF ServerOK, RunList, OnList, At, Same
<1>2. ASSUME NEW d \in Owner \ C PROVE OwnerOK(d)'
  <2>1. d \in Caller /\ call'[d] = call[d] /\ OwnerOK(d)
    BY DEF Caller, ComingInv
  <2> QED BY <2>1 DEF OwnerOK
<1>3. ASSUME NEW d \in Caller \ C PROVE MadeOK(d)'
  <2>1. call'[d] = call[d] /\ MadeOK(d)
    BY DEF ComingInv
  <2>2. call[d].made # 0 => Same(call[d].made)
    BY <2>1 DEF MadeOK
  <2> QED BY <2>1, <2>2 DEF MadeOK, Same
<1> QED BY <1>1, <1>2, <1>3

\* ... and leaves every other run as good as it was.
LEMMA RestGood ==
  ASSUME TypeInv, AttemptInv, ComingInv, NEW C \in SUBSET Caller, NEW k,
         \A d \in Caller \ C : call'[d] = call[d],
         \A r \in Run : r # k /\ run[r].state # "none" => Same(r),
         \A d \in C \cap Runner : call'[d].pc \in {"go", "write"} => call'[d].run = k,
         NEW r \in Run, r # k, Good(r)
  PROVE  Good(r)' /\ run'[r].of = run[r].of
<1>1. run[r].state # "none"
  <2>1. sent[r] > 0 => run[r].state # "none"
    BY DEF AttemptInv, Counted
  <2> QED BY <2>1 DEF Good
<1>2. Same(r)
  BY <1>1
<1>3. Spent(r)' => Spent(r)
  <2> SUFFICES ASSUME NEW w \in Runner, OnList(w)', call'[w].run = r, call'[w].todo \in Leaving
               PROVE  Spent(r)
    BY DEF Spent
  <2>1. w \in Caller \ C
    BY DEF Caller, OnList
  <2> QED BY <2>1 DEF Spent, OnList
<1> QED BY <1>2, <1>3 DEF Good, Same

\* The frame of every step.  For a reminder that is scheduled after it there is a
\* good run or a request at it, or neither was lost by the callers who moved.
Holds(C, k, m) ==
  \/ Promised(m)' \/ AtIt(m)'
  \/ /\ list[m] = "scheduled"
     /\ \A o \in C \cap Owner : Pending(o, m) => Pending(o, m)'
     /\ k \in Run /\ run[k].of = m /\ Good(k) => Good(k)' /\ run'[k].of = m

LEMMA Frame ==
  ASSUME TypeInv, AttemptInv, ComingInv, NEW C \in SUBSET Caller, NEW k,
         \A d \in Caller \ C : call'[d] = call[d],
         \A r \in Run : r # k /\ run[r].state # "none" => Same(r),
         \A d \in Runner \ C : AtWork(d) => call[d].run # k,
         \A d \in Caller \ C : call[d].made = k => k = 0,
         \A d \in C \cap Runner : call'[d].pc \in {"go", "write"} => call'[d].run = k,
         \A d \in C \cap Runner : ServerOK(d)',
         \A d \in C \cap Owner : OwnerOK(d)',
         \A d \in C : MadeOK(d)',
         \A r \in Run : Fresh(r)',
         \A m \in Reminders : list'[m] = "scheduled" => Holds(C, k, m)
  PROVE  ComingInv'
<1>1. /\ \A d \in Runner \ C : ServerOK(d)'
      /\ \A d \in Owner \ C : OwnerOK(d)'
      /\ \A d \in Caller \ C : MadeOK(d)'
  BY Rest
<1>2. \A r \in Run : r # k /\ Good(r) => Good(r)' /\ run'[r].of = run[r].of
  <2> SUFFICES ASSUME NEW r \in Run, r # k, Good(r)
               PROVE  Good(r)' /\ run'[r].of = run[r].of
    OBVIOUS
  <2>1. run'[r].of = run[r].of
    BY RestGood
  <2>2. Good(r)'
    BY RestGood
  <2> QED BY <2>1, <2>2
<1>3. ASSUME NEW m \in Reminders PROVE Kept(m)'
  <2> SUFFICES ASSUME list'[m] = "scheduled", ~Promised(m)', ~AtIt(m)' PROVE FALSE
    BY DEF Kept
  <2>1. /\ list[m] = "scheduled"
        /\ \A o \in C \cap Owner : Pending(o, m) => Pending(o, m)'
        /\ k \in Run /\ run[k].of = m /\ Good(k) => Good(k)' /\ run'[k].of = m
    BY DEF Holds
  <2>2. Promised(m) \/ AtIt(m)
    BY <2>1 DEF ComingInv, Kept
  <2>3. ~Promised(m)
    BY <1>2, <2>1 DEF Promised
  <2>4. ~AtIt(m)
    <3> SUFFICES ASSUME NEW o \in Owner, Pending(o, m) PROVE FALSE
      BY DEF AtIt
    <3>1. Pending(o, m)'
      <4>1. CASE o \in C
        BY <2>1, <4>1
      <4>2. CASE o \notin C
        BY <4>2 DEF Pending, Caller
      <4> QED BY <4>1, <4>2
    <3> QED BY <3>1 DEF AtIt
  <2> QED BY <2>2, <2>3, <2>4
<1> QED BY <1>1, <1>3 DEF ComingInv, Caller

-----------------------------------------------------------------------------
(* The steps of a server at its run.                                       *)

LEMMA AtItsRun ==
  ASSUME TypeInv, AttemptInv, ComingInv, NEW w \in Runner, AtWork(w)
  PROVE  /\ w \in Caller /\ call[w].run \in Run /\ ServerOK(w) /\ MadeOK(w)
         /\ run[call[w].run].state \in {"due", "dead"}
         /\ call[w].of = run[call[w].run].of
         /\ \A d \in Runner : d # w /\ AtWork(d) => call[d].run # call[w].run
         /\ \A d \in Caller : call[d].made # call[w].run
<1>1. w \in Caller /\ call[w].run \in Run /\ ServerOK(w) /\ MadeOK(w)
  BY ServerIs DEF ComingInv, Caller
<1>2. call[w].pc \in {"check", "claim", "turn", "go", "write"}
  BY <1>1 DEF AtWork, At, TypeInv, Typed, Call
<1>3. run[call[w].run].state \in {"due", "dead"} /\ call[w].of = run[call[w].run].of
  BY <1>1, <1>2 DEF ServerOK, OnList
<1>4. \A d \in Runner : d # w /\ AtWork(d) => call[d].run # call[w].run
  BY DEF AttemptInv, Alone
<1>5. \A d \in Caller : call[d].made # call[w].run
  <2> SUFFICES ASSUME NEW d \in Caller, call[d].made = call[w].run PROVE FALSE
    OBVIOUS
  <2>1. MadeOK(d) /\ call[w].run # 0
    BY <1>1, Numbers DEF ComingInv, Run
  <2> QED BY <2>1, <1>3 DEF MadeOK
<1> QED BY <1>1, <1>3, <1>4, <1>5

LEMMA ServerFrame ==
  ASSUME TypeInv, AttemptInv, ComingInv, NEW w \in Runner, AtWork(w),
         NEW k, k = call[w].run, NEW x, Set(w, x), x.pc \in {"go", "write"} => x.run = k,
         \A r \in Run : r # k /\ run[r].state # "none" => Same(r),
         ServerOK(w)', MadeOK(w)', \A r \in Run : Fresh(r)',
         \A m \in Reminders : list'[m] = "scheduled" =>
           \/ Promised(m)'
           \/ /\ list[m] = "scheduled" /\ run'[k].of = run[k].of
              /\ run[k].of = m => (Good(k) => Good(k)')
  PROVE  ComingInv'
<1> DEFINE C == {w}
<1>1. /\ call'[w] = x /\ \A d \in Caller \ C : call'[d] = call[d]
      /\ C \in SUBSET Caller
  BY DEF Set, TypeInv, Typed, Caller
<1>2. \A d \in Runner \ C : AtWork(d) => call[d].run # k
  BY AtItsRun
<1>3. \A d \in Caller \ C : call[d].made = k => k = 0
  BY AtItsRun
<1>4. \A d \in C \cap Runner : call'[d].pc \in {"go", "write"} => call'[d].run = k
  BY <1>1
<1>5. C \cap Owner = {} /\ C \cap Runner = {w}
  BY Numbers
<1>6. ASSUME NEW m \in Reminders, list'[m] = "scheduled" PROVE Holds(C, k, m)
  BY <1>5, <1>6 DEF Holds
<1>7. \A d \in C \cap Runner : ServerOK(d)'
  BY <1>5
<1>8. \A d \in C \cap Owner : OwnerOK(d)'
  BY <1>5
<1>9. \A d \in C : MadeOK(d)'
  OBVIOUS
<1> HIDE DEF C
<1> QED BY <1>1, <1>2, <1>3, <1>4, <1>6, <1>7, <1>8, <1>9, Frame

\* A run is not about to be left unless its own server is leaving it.
LEMMA Unspent ==
  ASSUME TypeInv, AttemptInv, NEW w \in Runner, AtWork(w), NEW k, k = call[w].run,
         NEW x, Set(w, x), x.pc \notin {"go", "write"} \/ x.todo \notin Leaving
  PROVE  ~Spent(k)'
<1> SUFFICES ASSUME NEW d \in Runner, OnList(d)', call'[d].run = k, call'[d].todo \in Leaving
             PROVE  FALSE
  BY DEF Spent
<1>1. call'[w] = x /\ \A v \in Runner : v # w => call'[v] = call[v]
  BY DEF Set, TypeInv, Typed, Caller
<1>2. d # w
  BY <1>1 DEF OnList
<1>3. AtWork(d) /\ call[d].run = call[w].run
  BY <1>1, <1>2 DEF OnList, AtWork, At
<1> QED BY <1>2, <1>3 DEF AttemptInv, Alone

\* What a call triggered stays to come while the call does.
LEMMA MadeStays ==
  ASSUME TypeInv, AttemptInv, ComingInv, NEW w \in Runner, AtWork(w), NEW x, Set(w, x),
         x.made = call[w].made, x.of = call[w].of,
         \A r \in Run : r # call[w].run /\ run[r].state # "none" => Same(r)
  PROVE  MadeOK(w)'
<1>1. call'[w] = x /\ MadeOK(w) /\ call[w].made # call[w].run
  BY AtItsRun DEF Set, TypeInv, Typed
<1>2. call[w].made # 0 => Same(call[w].made)
  BY <1>1 DEF MadeOK
<1> QED BY <1>1, <1>2 DEF MadeOK, Same

\* A server that goes on in a run it has claimed keeps the run good.
LEMMA GoesOn ==
  ASSUME TypeInv, AttemptInv, ComingInv, NEW w \in Runner, AtWork(w),
         NEW k, k = call[w].run, NEW x, Set(w, x), x.run = k, x.of = call[w].of,
         x.pc \in {"go", "write"},
         \A r \in Run : r # k /\ run[r].state # "none" => Same(r),
         run'[k].state = "due", run'[k].claim = "held", run'[k].of = run[k].of,
         MadeOK(w)', \A r \in Run : Fresh(r)',
         \/ x.todo \in Working
         \/ x.todo = <<"scheduled", "done">> /\ x.made # 0
         \/ x.todo = <<"done", "sent">> /\ sent'[k] > 0,
         \A m \in Reminders : list'[m] = "scheduled" =>
            list[m] = "scheduled" \/ m = call[w].of
  PROVE  ComingInv'
<1>0. k \in Run /\ run[k].of = call[w].of
  BY AtItsRun
<1>1. x.todo \notin Leaving
  BY NotLeaving
<1>2. ~Spent(k)'
  BY <1>1, Unspent
<1>3. Good(k)'
  BY <1>2 DEF Good
<1>4. call'[w] = x
  BY DEF Set, TypeInv, Typed, Caller
<1>5. ServerOK(w)'
  <2>1. RunList(w)'
    BY <1>4 DEF RunList
  <2> QED BY <1>0, <1>4, <2>1 DEF ServerOK, OnList, At
<1>6. ASSUME NEW m \in Reminders, list'[m] = "scheduled"
      PROVE  \/ Promised(m)'
             \/ list[m] = "scheduled" /\ (Good(k) => Good(k)') /\ run'[k].of = run[k].of
  <2>1. CASE m = call[w].of
    BY <1>0, <1>3, <2>1 DEF Promised
  <2>2. CASE list[m] = "scheduled"
    BY <1>3, <2>2
  <2> QED BY <1>6, <2>1, <2>2
<1> QED BY <1>5, <1>6, ServerFrame

\* A server that leaves its run, which stays as good as it was.
LEMMA LeavesRun ==
  ASSUME TypeInv, AttemptInv, ComingInv, NEW w \in Runner, AtWork(w),
         NEW k, k = call[w].run, Set(w, Idle), list' = list,
         \A r \in Run : r # k /\ run[r].state # "none" => Same(r),
         run'[k].of = run[k].of, \A r \in Run : Fresh(r)',
         Good(k) => Good(k)'
  PROVE  ComingInv'
<1>1. call'[w] = Idle /\ Idle.pc = "idle" /\ Idle.made = 0
  BY DEF Set, TypeInv, Typed, Caller, Idle
<1>2. ServerOK(w)' /\ MadeOK(w)'
  BY <1>1 DEF ServerOK, AtWork, At, MadeOK
<1> QED BY <1>1, <1>2, ServerFrame

\* A step that changes one run, and not to sleep.
LEMMA OneRun ==
  ASSUME TypeInv, ComingInv, NEW k \in Run, \A r \in Run : r # k => run'[r] = run[r],
         \A r \in Run : r # k => sent'[r] = sent[r],
         run'[k].state \notin {"none", "asleep"}
  PROVE  /\ \A r \in Run : r # k /\ run[r].state # "none" => Same(r)
         /\ \A r \in Run : Fresh(r)'
BY DEF Same, Fresh, ComingInv

LEMMA CheckComing ==
  ASSUME TypeInv, AttemptInv, ComingInv, NEW w \in Runner, Check(w) PROVE ComingInv'
<1>k. PICK k : k = call[w].run
  OBVIOUS
<1>x. PICK x : x = [call[w] EXCEPT !.pc = "claim"]
  OBVIOUS
<1>0. /\ AtWork(w) /\ At(w, "check") /\ UNCHANGED <<list, sent>> /\ k \in Run
      /\ run[k].state = "due" /\ call[w] \in Call /\ run \in [Run -> WorkflowRun]
      /\ run[k] \in WorkflowRun
  <2>1. AtWork(w) /\ At(w, "check") /\ UNCHANGED <<list, sent>>
    BY DEF Check, AtWork, At
  <2> QED BY <1>k, <2>1, AtItsRun, ServerIs, CallIs DEF ServerOK, At, TypeInv, Typed
<1>1. CASE run[k].claim = "done"
  <2>1. Set(w, Idle) /\ run' = [run EXCEPT ![k].state = "over"]
    BY <1>1, <1>k DEF Check, Over
  <2>2. /\ run'[k].state = "over" /\ run'[k].of = run[k].of
        /\ \A r \in Run : r # k => run'[r] = run[r]
    BY <1>0, <2>1 DEF WorkflowRun
  <2>3. Good(k) => Good(k)'
    <3>1. Good(k) => sent[k] > 0
      BY <1>0, <1>1 DEF Good
    <3> QED BY <1>0, <3>1 DEF Good
  <2>4. (\A r \in Run : r # k /\ run[r].state # "none" => Same(r)) /\ \A r \in Run : Fresh(r)'
    BY <1>0, <2>2, OneRun
  <2> QED BY <1>0, <2>1, <2>2, <2>3, <2>4, LeavesRun, <1>k
<1>2. CASE run[k].claim # "done"
  <2>1. Set(w, x) /\ run' = run
    BY <1>2, <1>k, <1>x DEF Check
  <2>2. x.pc = "claim" /\ x.run = k /\ x.of = call[w].of /\ x.made = call[w].made
    BY <1>0, <1>k, <1>x DEF Call
  <2>3. /\ \A r \in Run : r # k /\ run[r].state # "none" => Same(r)
        /\ \A r \in Run : Fresh(r)'
    BY <1>0, <2>1, OneRun
  <2>4. call'[w] = x
    BY <1>0, <2>1, AtItsRun DEF Set, TypeInv, Typed
  <2>5. ServerOK(w)'
    BY <1>0, <2>1, <2>2, <2>4, <1>k, AtItsRun DEF ServerOK, AtWork, At, OnList
  <2>6. MadeOK(w)'
    BY <1>0, <2>1, <2>2, <2>3, MadeStays, <1>k
  <2>7. ~Spent(k)'
    BY <1>0, <2>1, <2>2, Unspent, <1>k
  <2>8. Good(k)'
    BY <1>0, <1>2, <2>1, <2>7 DEF Good
  <2> QED BY <1>0, <2>1, <2>2, <2>3, <2>5, <2>6, <2>8, ServerFrame, <1>k
<1> QED BY <1>1, <1>2

LEMMA ClaimComing ==
  ASSUME TypeInv, AttemptInv, ComingInv, NEW w \in Runner, Claim(w) PROVE ComingInv'
<1>k. PICK k : k = call[w].run
  OBVIOUS
<1>x. PICK x : x = [call[w] EXCEPT !.pc = "turn"]
  OBVIOUS
<1>0. /\ AtWork(w) /\ At(w, "claim") /\ UNCHANGED <<list, sent>> /\ k \in Run
      /\ run[k].state = "due" /\ call[w] \in Call /\ run \in [Run -> WorkflowRun]
      /\ run[k] \in WorkflowRun
  <2>1. AtWork(w) /\ At(w, "claim") /\ UNCHANGED <<list, sent>>
    BY DEF Claim, AtWork, At
  <2> QED BY <1>k, <2>1, AtItsRun, ServerIs, CallIs DEF ServerOK, At, TypeInv, Typed
<1>1. CASE run[k].claim = "held"
  <2>1. Set(w, Idle) /\ run' = [run EXCEPT ![k].state = "over"]
    BY <1>1, <1>k DEF Claim, Over
  <2>2. /\ run'[k].state = "over" /\ run'[k].of = run[k].of /\ run'[k].claim = "held"
        /\ \A r \in Run : r # k => run'[r] = run[r]
    BY <1>0, <1>1, <2>1 DEF WorkflowRun
  <2>3. Good(k)'
    BY <2>2 DEF Good
  <2>4. (\A r \in Run : r # k /\ run[r].state # "none" => Same(r)) /\ \A r \in Run : Fresh(r)'
    BY <1>0, <2>2, OneRun
  <2> QED BY <1>0, <2>1, <2>2, <2>3, <2>4, LeavesRun, <1>k
<1>2. CASE run[k].claim # "held"
  <2>1. Set(w, x) /\ run' = [run EXCEPT ![k].claim = "held"]
    BY <1>2, <1>k, <1>x DEF Claim
  <2>2. x.pc = "turn" /\ x.run = k /\ x.of = call[w].of /\ x.made = call[w].made
    BY <1>0, <1>k, <1>x DEF Call
  <2>3. /\ run'[k].state = "due" /\ run'[k].of = run[k].of /\ run'[k].claim = "held"
        /\ \A r \in Run : r # k => run'[r] = run[r]
    BY <1>0, <2>1 DEF WorkflowRun
  <2>4. (\A r \in Run : r # k /\ run[r].state # "none" => Same(r)) /\ \A r \in Run : Fresh(r)'
    BY <1>0, <2>3, OneRun
  <2>5. call'[w] = x
    BY <1>0, <2>1, AtItsRun DEF Set, TypeInv, Typed
  <2>6. ServerOK(w)'
    BY <1>0, <2>2, <2>3, <2>5, <1>k, AtItsRun DEF ServerOK, AtWork, At, OnList
  <2>7. MadeOK(w)'
    BY <1>0, <2>1, <2>2, <2>4, MadeStays, <1>k
  <2>8. ~Spent(k)'
    BY <1>0, <2>1, <2>2, Unspent, <1>k
  <2>9. Good(k)'
    BY <2>3, <2>8 DEF Good
  <2> QED BY <1>0, <2>1, <2>2, <2>3, <2>4, <2>6, <2>7, <2>9, ServerFrame, <1>k
<1> QED BY <1>1, <1>2

LEMMA TurnComing ==
  ASSUME TypeInv, AttemptInv, ComingInv, NEW w \in Runner, Turn(w) PROVE ComingInv'
<1>k. PICK k : k = call[w].run
  OBVIOUS
<1>0. /\ AtWork(w) /\ At(w, "turn") /\ UNCHANGED <<list, sent>> /\ k \in Run
      /\ run[k].state = "due" /\ run[k].claim = "held"
      /\ call[w] \in Call /\ run \in [Run -> WorkflowRun] /\ run[k] \in WorkflowRun
  <2>1. AtWork(w) /\ At(w, "turn") /\ UNCHANGED <<list, sent>>
    BY DEF Turn, AtWork, At
  <2> QED BY <1>k, <2>1, AtItsRun, ServerIs, CallIs DEF ServerOK, At, TypeInv, Typed
<1>1. PICK result \in Results :
        /\ Goes(w, Plan[result])
        /\ run' = [run EXCEPT ![call[w].run].asks = result \in {"poll", "approval"}]
  BY DEF Turn
<1>x. PICK x : x = [call[w] EXCEPT !.pc = "go", !.todo = Plan[result]]
  OBVIOUS
<1>2. Set(w, x)
  BY <1>1, <1>x DEF Goes
<1>3. /\ x.pc = "go" /\ x.run = k /\ x.of = call[w].of /\ x.made = call[w].made
      /\ x.todo = Plan[result]
  BY <1>0, <1>k, <1>x DEF Call
<1>4. x.todo \in Working
  BY <1>3, PlansWork
<1>5. /\ run'[k].state = "due" /\ run'[k].of = run[k].of /\ run'[k].claim = "held"
      /\ \A r \in Run : r # k => run'[r] = run[r]
  BY <1>0, <1>1, <1>k DEF WorkflowRun
<1>6. (\A r \in Run : r # k /\ run[r].state # "none" => Same(r)) /\ \A r \in Run : Fresh(r)'
  BY <1>0, <1>5, OneRun
<1>7. MadeOK(w)'
  BY <1>0, <1>2, <1>3, <1>6, MadeStays, <1>k
<1> QED BY <1>0, <1>2, <1>3, <1>4, <1>5, <1>6, <1>7, GoesOn, <1>k

\* What is on the list of a server at it.
LEMMA AtItsList ==
  ASSUME TypeInv, AttemptInv, ComingInv, NEW w \in Runner, AtWork(w), OnList(w)
  PROVE  LET k == call[w].run IN
         /\ k \in Run /\ run[k] \in WorkflowRun /\ run \in [Run -> WorkflowRun]
         /\ call[w] \in Call
         /\ \/ run[k].state = "due" /\ RunList(w)
            \/ run[k].state = "dead" /\ call[w].todo \in {<<"failed">>, <<>>}
         /\ call[w].todo # <<>> =>
              call[w].todo \in Working \cup {<<"scheduled", "done">>, <<"done", "sent">>,
                                             <<"sent">>, <<"done">>, <<"failed">>}
<1>1. /\ call[w].run \in Run /\ run[call[w].run] \in WorkflowRun
      /\ run \in [Run -> WorkflowRun] /\ call[w] \in Call
  BY ServerIs, CallIs DEF TypeInv, Typed
<1>2. \/ run[call[w].run].state = "due" /\ RunList(w)
      \/ run[call[w].run].state = "dead" /\ call[w].todo \in {<<"failed">>, <<>>}
  BY AtItsRun DEF ServerOK
<1>3. call[w].todo # <<>> =>
         call[w].todo \in Working \cup {<<"scheduled", "done">>, <<"done", "sent">>,
                                        <<"sent">>, <<"done">>, <<"failed">>}
  BY <1>2 DEF RunList
<1> QED BY <1>1, <1>2, <1>3

LEMMA SendComing ==
  ASSUME TypeInv, AttemptInv, ComingInv, NEW w \in Runner, Send(w) PROVE ComingInv'
<1>k. PICK k : k = call[w].run
  OBVIOUS
<1>0. /\ AtWork(w) /\ OnList(w) /\ call[w].todo # <<>> /\ Head(call[w].todo) = "send"
      /\ UNCHANGED <<list, run>>
  BY DEF Send, Does, At, AtWork, OnList, Next1
<1>1. /\ k \in Run /\ call[w] \in Call /\ run[k].state = "due" /\ run[k].claim = "held"
      /\ Tail(call[w].todo) = <<"done", "sent">> /\ sent \in [Run -> Nat]
  <2>1. Head(call[w].todo) # "failed" /\ Head(call[w].todo) # "sent"
    BY <1>0
  <2>2. call[w].todo # <<"failed">> /\ call[w].todo # <<"sent">>
    BY <2>1
  <2> QED BY <1>k, <1>0, <2>2, AtItsList, Lists DEF RunList, TypeInv, Typed
<1>2. CASE Did(w) /\ sent' = [sent EXCEPT ![k] = @ + 1]
  <2>x. PICK x : x = [call[w] EXCEPT !.pc = "go", !.todo = Tail(call[w].todo)]
    OBVIOUS
  <2>1. /\ Set(w, x) /\ x.pc = "go" /\ x.run = k /\ x.of = call[w].of
        /\ x.made = call[w].made /\ x.todo = <<"done", "sent">>
    BY <1>k, <1>1, <1>2, <2>x DEF Did, Goes, Call
  <2>2. sent'[k] > 0 /\ \A r \in Run : r # k => sent'[r] = sent[r]
    BY <1>1, <1>2
  <2>3. (\A r \in Run : r # k /\ run[r].state # "none" => Same(r)) /\ \A r \in Run : Fresh(r)'
    BY <1>0, <1>1, <2>2, OneRun
  <2>4. MadeOK(w)'
    BY <1>0, <2>1, <2>3, MadeStays, <1>k
  <2> QED BY <1>0, <1>1, <2>1, <2>2, <2>3, <2>4, GoesOn, <1>k
<1>3. CASE Goes(w, Plan["throw"]) /\ sent' = sent
  <2>x. PICK x : x = [call[w] EXCEPT !.pc = "go", !.todo = Plan["throw"]]
    OBVIOUS
  <2>1. /\ Set(w, x) /\ x.pc = "go" /\ x.run = k /\ x.of = call[w].of
        /\ x.made = call[w].made /\ x.todo \in Working
    BY <1>k, <1>1, <1>3, <2>x, PlansWork DEF Goes, Call
  <2>2. (\A r \in Run : r # k /\ run[r].state # "none" => Same(r)) /\ \A r \in Run : Fresh(r)'
    BY <1>0, <1>1, <1>3, OneRun
  <2>3. MadeOK(w)'
    BY <1>0, <2>1, <2>2, MadeStays, <1>k
  <2> QED BY <1>0, <1>1, <2>1, <2>2, <2>3, GoesOn, <1>k
<1>4. CASE Goes(w, Plan["throw"]) /\ sent' = [sent EXCEPT ![k] = @ + 1]
  <2>x. PICK x : x = [call[w] EXCEPT !.pc = "go", !.todo = Plan["throw"]]
    OBVIOUS
  <2>1. /\ Set(w, x) /\ x.pc = "go" /\ x.run = k /\ x.of = call[w].of
        /\ x.made = call[w].made /\ x.todo \in Working
    BY <1>k, <1>1, <1>4, <2>x, PlansWork DEF Goes, Call
  <2>2. sent'[k] > 0 /\ \A r \in Run : r # k => sent'[r] = sent[r]
    BY <1>1, <1>4
  <2>3. (\A r \in Run : r # k /\ run[r].state # "none" => Same(r)) /\ \A r \in Run : Fresh(r)'
    BY <1>0, <1>1, <2>2, OneRun
  <2>4. MadeOK(w)'
    BY <1>0, <2>1, <2>3, MadeStays, <1>k
  <2> QED BY <1>0, <1>1, <2>1, <2>2, <2>3, <2>4, GoesOn, <1>k
<1> QED BY <1>k, <1>2, <1>3, <1>4 DEF Send

LEMMA DoneComing ==
  ASSUME TypeInv, AttemptInv, ComingInv, NEW w \in Runner, Done(w) PROVE ComingInv'
<1>k. PICK k : k = call[w].run
  OBVIOUS
<1>x. PICK x : x = [call[w] EXCEPT !.pc = "go", !.todo = Tail(call[w].todo)]
  OBVIOUS
<1>0. /\ AtWork(w) /\ OnList(w) /\ call[w].todo # <<>> /\ Head(call[w].todo) = "done"
      /\ UNCHANGED <<list, sent>> /\ run' = [run EXCEPT ![k].claim = "done"]
      /\ Set(w, x)
  BY <1>k, <1>x DEF Done, Does, At, AtWork, OnList, Next1, Did, Goes
<1>1. /\ k \in Run /\ call[w] \in Call /\ run[k] \in WorkflowRun
      /\ run[k].state = "due" /\ RunList(w) /\ run \in [Run -> WorkflowRun]
      /\ \/ call[w].todo = <<"done">> /\ Tail(call[w].todo) = <<>>
         \/ call[w].todo = <<"done", "sent">> /\ Tail(call[w].todo) = <<"sent">>
  <2>1. call[w].todo # <<"failed">>
    BY <1>0
  <2> QED BY <1>k, <1>0, <2>1, AtItsList, Lists
<1>2. /\ x.pc = "go" /\ x.run = k /\ x.of = call[w].of /\ x.made = call[w].made
      /\ x.todo = Tail(call[w].todo)
  BY <1>1, <1>k, <1>x DEF Call
<1>3. /\ run'[k].state = "due" /\ run'[k].of = run[k].of
      /\ \A r \in Run : r # k => run'[r] = run[r]
  BY <1>0, <1>1 DEF WorkflowRun
<1>4. (\A r \in Run : r # k /\ run[r].state # "none" => Same(r)) /\ \A r \in Run : Fresh(r)'
  BY <1>0, <1>1, <1>3, OneRun
<1>5. MadeOK(w)'
  BY <1>0, <1>2, <1>4, MadeStays, <1>k
<1>6. call'[w] = x
  BY <1>0, AtItsRun DEF Set, TypeInv, Typed
<1>7. call[w].todo = <<"done", "sent">> => sent[k] > 0
  <2>1. <<"done", "sent">> \notin Working \cup {<<"done">>}
    BY DEF Working
  <2> QED BY <1>1, <1>k, <2>1 DEF RunList
<1>8. ServerOK(w)'
  <2>1. RunList(w)'
    BY <1>0, <1>1, <1>2, <1>6, <1>7 DEF RunList
  <2> QED BY <1>0, <1>1, <1>2, <1>3, <1>6, <2>1, AtItsRun, <1>k DEF ServerOK, OnList, At
<1>9. Good(k) => Good(k)'
  <2> SUFFICES ASSUME Good(k) PROVE sent[k] > 0
    BY <1>0 DEF Good
  <2>1. CASE call[w].todo = <<"done">>
    <3>1. Spent(k)
      BY <1>0, <1>k, <2>1 DEF Spent, Leaving
    <3> QED BY <1>1, <3>1 DEF Good
  <2>2. CASE call[w].todo = <<"done", "sent">>
    BY <1>7, <2>2
  <2> QED BY <1>1, <2>1, <2>2
<1> QED BY <1>0, <1>2, <1>3, <1>4, <1>5, <1>8, <1>9, ServerFrame, <1>k

\* The ways out: the step has its result, it failed, or the server died.
LEMMA OutComing ==
  ASSUME TypeInv, AttemptInv, ComingInv, NEW w \in Runner, Ends(w) \/ Throws(w) \/ Crash(w)
  PROVE  ComingInv'
<1>k. PICK k : k = call[w].run
  OBVIOUS
<1>0. AtWork(w) /\ UNCHANGED <<list, sent>> /\ Set(w, Idle)
  BY DEF Ends, Throws, Crash, Does, At, AtWork
<1>1. /\ k \in Run /\ run \in [Run -> WorkflowRun] /\ run[k] \in WorkflowRun
      /\ run[k].state \in {"due", "dead"}
  BY <1>0, <1>k, AtItsRun, ServerIs DEF TypeInv, Typed
<1>2. CASE Ends(w)
  <2>1. OnList(w) /\ call[w].todo = <<>> /\ run' = [run EXCEPT ![k].state = "over"]
    BY <1>2, <1>k DEF Ends, At, OnList, Over
  <2>2. /\ run'[k].state = "over" /\ run'[k].of = run[k].of
        /\ \A r \in Run : r # k => run'[r] = run[r]
    BY <1>1, <2>1 DEF WorkflowRun
  <2>3. (\A r \in Run : r # k /\ run[r].state # "none" => Same(r)) /\ \A r \in Run : Fresh(r)'
    BY <1>0, <1>1, <2>2, OneRun
  <2>4. Spent(k)
    BY <1>k, <2>1 DEF Spent, Leaving
  <2>5. Good(k) => Good(k)'
    BY <1>0, <1>1, <2>4 DEF Good
  <2> QED BY <1>0, <2>2, <2>3, <2>5, LeavesRun, <1>k
<1>3. CASE run' = run
  <2>1. (\A r \in Run : r # k /\ run[r].state # "none" => Same(r)) /\ \A r \in Run : Fresh(r)'
    BY <1>0, <1>1, <1>3, OneRun
  <2>2. Idle.pc = "idle"
    BY DEF Idle
  <2>3. ~Spent(k)'
    BY <1>0, <2>2, Unspent, <1>k
  <2>4. Good(k) => Good(k)'
    BY <1>0, <1>3, <2>3 DEF Good
  <2> QED BY <1>0, <1>3, <2>1, <2>4, LeavesRun, <1>k
<1> QED BY <1>2, <1>3 DEF Throws, Crash

LEMMA ReadsComing ==
  ASSUME TypeInv, AttemptInv, ComingInv, NEW w \in Runner, UpdateReads(w) PROVE ComingInv'
<1>k. PICK k : k = call[w].run
  OBVIOUS
<1>x. PICK x : x = [call[w] EXCEPT !.pc = "write", !.read = list]
  OBVIOUS
<1>0. /\ AtWork(w) /\ At(w, "go") /\ OnList(w) /\ call[w].todo # <<>>
      /\ Head(call[w].todo) # "done" /\ UNCHANGED <<list, run, sent>> /\ Set(w, x)
  BY <1>x DEF UpdateReads, Does, At, AtWork, OnList, Next1, Write, Status
<1>1. k \in Run /\ call[w] \in Call /\ run[k].state \in {"due", "dead"}
  BY <1>k, <1>0, AtItsRun, AtItsList
<1>2. /\ x.pc = "write" /\ x.run = k /\ x.of = call[w].of /\ x.made = call[w].made
      /\ x.todo = call[w].todo
  BY <1>1, <1>k, <1>x DEF Call
<1>3. (\A r \in Run : r # k /\ run[r].state # "none" => Same(r)) /\ \A r \in Run : Fresh(r)'
  BY <1>0, <1>1, OneRun
<1>4. MadeOK(w)'
  BY <1>0, <1>2, <1>3, MadeStays, <1>k
<1>5. call'[w] = x
  BY <1>0, AtItsRun DEF Set, TypeInv, Typed
<1>6. ServerOK(w)'
  <2>1. RunList(w)' <=> RunList(w)
    BY <1>0, <1>2, <1>5, <1>k DEF RunList
  <2> QED BY <1>0, <1>2, <1>5, <2>1, AtItsRun, <1>k DEF ServerOK, OnList, At
<1>7. ~Spent(k)'
  <2>1. x.todo \notin Leaving
    BY <1>0, <1>2 DEF Leaving
  <2> QED BY <1>0, <2>1, Unspent, <1>k
<1>8. Good(k) => Good(k)'
  BY <1>0, <1>7 DEF Good
<1> QED BY <1>0, <1>2, <1>3, <1>4, <1>6, <1>8, ServerFrame, <1>k

\* What an update writes.
LEMMA WritesOne ==
  ASSUME TypeInv, Undisturbed, NEW c \in Caller, UpdateWrites(c)
  PROVE  /\ UNCHANGED <<run, sent>> /\ At(c, "write")
         /\ call[c].todo # <<>> /\ Head(call[c].todo) \in Write
         /\ \A m \in Reminders : m # call[c].of => list'[m] = list[m]
         /\ \A m \in Reminders : m = call[c].of /\ Head(call[c].todo) # "keep" =>
              list'[m] = Head(call[c].todo)
<1>1. UNCHANGED <<run, sent>> /\ At(c, "write")
  BY DEF UpdateWrites
<1>2. /\ call[c].todo # <<>> /\ Head(call[c].todo) \in Write
      /\ call[c].read \in [Reminders -> Status]
  BY <1>1, CallIs DEF At
<1>3. \A n \in Reminders : n # call[c].of => call[c].read[n] = list[n]
  BY <1>1 DEF Undisturbed
<1>4. list' = IF Head(call[c].todo) = "keep" THEN call[c].read
              ELSE [call[c].read EXCEPT ![call[c].of] = Head(call[c].todo)]
  BY DEF UpdateWrites, Next1
<1> QED BY <1>1, <1>2, <1>3, <1>4

LEMMA WritesComing ==
  ASSUME TypeInv, AttemptInv, ComingInv, Undisturbed, NEW w \in Runner, UpdateWrites(w)
  PROVE  ComingInv'
<1>k. PICK k : k = call[w].run
  OBVIOUS
<1>t. PICK t : t = call[w].todo
  OBVIOUS
<1>x. PICK x : x = [call[w] EXCEPT !.pc = "go", !.todo = Tail(@), !.read = Idle.read]
  OBVIOUS
<1>0. /\ AtWork(w) /\ At(w, "write") /\ OnList(w) /\ t # <<>> /\ Head(t) \in Write
      /\ UNCHANGED <<run, sent>> /\ Set(w, x)
      /\ \A m \in Reminders : m # call[w].of => list'[m] = list[m]
      /\ \A m \in Reminders : m = call[w].of /\ Head(t) # "keep" => list'[m] = Head(t)
  BY <1>t, <1>x, WritesOne DEF UpdateWrites, At, AtWork, OnList, Caller
<1>1. /\ k \in Run /\ call[w] \in Call /\ run[k].of = call[w].of
      /\ run[k].state \in {"due", "dead"} /\ MadeOK(w) /\ call[w].made # k
      /\ \/ run[k].state = "due" /\ RunList(w)
         \/ run[k].state = "dead" /\ t \in {<<"failed">>, <<>>}
      /\ t \in Working \cup {<<"scheduled", "done">>, <<"done", "sent">>,
                              <<"sent">>, <<"done">>, <<"failed">>}
  BY <1>k, <1>t, <1>0, AtItsRun, AtItsList
<1>2. /\ x.pc = "go" /\ x.run = k /\ x.of = call[w].of /\ x.made = call[w].made
      /\ x.todo = Tail(t)
  BY <1>1, <1>k, <1>t, <1>x DEF Call
<1>3. (\A r \in Run : r # k /\ run[r].state # "none" => Same(r)) /\ \A r \in Run : Fresh(r)'
  BY <1>0, <1>1, OneRun
<1>4. MadeOK(w)'
  BY <1>0, <1>2, <1>3, MadeStays, <1>k
<1>5. call'[w] = x
  BY <1>0, AtItsRun DEF Set, TypeInv, Typed
<1>6. /\ Head(t) # "done" /\ Head(t) # "send" /\ Head(t) # "trigger" /\ Head(t) # "throw"
  BY <1>0 DEF Write, Status
<1>7. Head(t) # "failed" => run[k].state = "due" /\ RunList(w)
  BY <1>0, <1>1
<1>8. Head(t) \notin {"sent", "failed"} => run[k].claim = "held"
  <2>1. Head(t) # "sent" => t # <<"sent">>
    OBVIOUS
  <2> QED BY <1>0, <1>7, <1>t, <1>k, <2>1 DEF RunList
<1>9. CASE Head(t) = "keep"
  <2>1. x.todo \in Working
    BY <1>1, <1>2, <1>9, Lists
  <2>2. run'[k].state = "due" /\ run'[k].claim = "held" /\ run'[k].of = run[k].of
    BY <1>0, <1>7, <1>8, <1>9
  <2> QED BY <1>0, <1>2, <1>3, <1>4, <2>1, <2>2, GoesOn, <1>k
<1>10. CASE Head(t) # "keep"
  <2>1. ServerOK(w)'
    <3>1. \/ run[k].state = "due" /\ RunList(w)'
          \/ run[k].state = "dead" /\ Tail(t) = <<>>
      <4>1. CASE Head(t) = "failed"
        <5>1. CASE t = <<"failed">>
          <6>1. x.todo = <<>>
            BY <1>2, <5>1
          <6> QED BY <1>1, <1>2, <1>5, <6>1 DEF RunList
        <5>2. CASE t # <<"failed">>
          <6>1. /\ x.todo = <<"throw">> /\ <<"throw">> \in Working
                /\ run[k].state = "due" /\ RunList(w)
            BY <1>0, <1>1, <1>2, <4>1, <5>2, Lists DEF Working
          <6>2. run[k].claim = "held"
            <7>1. t # <<"sent">> /\ t # <<>>
              BY <1>0, <4>1
            <7> QED BY <6>1, <7>1, <1>t, <1>k DEF RunList
          <6> QED BY <1>0, <1>2, <1>5, <6>1, <6>2 DEF RunList
        <5> QED BY <5>1, <5>2
      <4>2. CASE Head(t) = "sent"
        <5>1. x.todo = <<>>
          BY <1>1, <1>2, <4>2, Lists
        <5> QED BY <1>5, <1>7, <4>2, <5>1 DEF RunList
      <4>3. CASE Head(t) \in {"scheduled", "waiting"}
        <5>1. x.todo = <<"done">>
          BY <1>1, <1>2, <4>3, Lists
        <5> QED BY <1>0, <1>2, <1>5, <1>7, <1>8, <4>3, <5>1 DEF RunList
      <4> QED BY <1>1, <1>6, <1>10, <4>1, <4>2, <4>3, Lists
    <3> QED BY <1>0, <1>1, <1>2, <1>5, <3>1, <1>k DEF ServerOK, OnList, At
  <2>2. ASSUME NEW m \in Reminders, list'[m] = "scheduled", m = call[w].of
        PROVE  Promised(m)'
    <3>1. t = <<"scheduled", "done">>
      BY <1>0, <1>1, <1>10, <2>2, Lists
    <3>2. call[w].made # 0
      <4>1. t \notin Working \cup {<<"done">>}
        BY <3>1 DEF Working
      <4>2. Head(t) = "scheduled"
        BY <3>1
      <4>3. RunList(w) /\ t # <<"done", "sent">> /\ t # <<"sent">> /\ t # <<>>
        BY <1>7, <3>1, <4>2
      <4> QED BY <1>t, <4>1, <4>3 DEF RunList
    <3>3. PICK q \in Run : q = call[w].made
      BY <1>1, <3>2 DEF MadeOK
    <3>4. run[q].state = "asleep" /\ run[q].of = m
      BY <1>1, <2>2, <3>2, <3>3 DEF MadeOK
    <3>5. Good(q)' /\ run'[q].of = m
      BY <1>0, <3>4 DEF Good
    <3> QED BY <3>5 DEF Promised
  <2>3. ASSUME NEW m \in Reminders, list'[m] = "scheduled"
        PROVE  \/ Promised(m)'
               \/ /\ list[m] = "scheduled" /\ run'[k].of = run[k].of
                  /\ run[k].of = m => (Good(k) => Good(k)')
    BY <1>0, <1>1, <2>2, <2>3
  <2> QED BY <1>0, <1>2, <1>3, <1>4, <2>1, <2>3, ServerFrame, <1>k
<1> QED BY <1>9, <1>10

\* A new run takes the place of none, and is asleep.
LEMMA NewRunSleeps ==
  ASSUME TypeInv, AttemptInv, ComingInv, NewRuns # {}, NEW of, NEW approved,
         run' = Triggered(of, approved), sent' = sent
  PROVE  /\ NewRun \in Run /\ NewRun # 0 /\ run[NewRun].state = "none"
         /\ run'[NewRun].state = "asleep" /\ run'[NewRun].of = of
         /\ \A r \in Run : r # NewRun => run'[r] = run[r]
         /\ \A r \in Run : run[r].state # "none" => Same(r)
         /\ \A r \in Run : Fresh(r)'
<1>1. NewRun \in Run /\ NewRun # 0 /\ run[NewRun].state = "none"
  BY DEF NewRun, NewRuns, Run
<1>2. run'[NewRun] = [NoRun EXCEPT !.of = of, !.state = "asleep", !.approved = approved]
  BY <1>1 DEF Triggered, TypeInv, Typed
<1>3. /\ run'[NewRun].state = "asleep" /\ run'[NewRun].of = of
      /\ run'[NewRun].claim = "free"
  BY <1>2 DEF NoRun
<1>4. \A r \in Run : r # NewRun => run'[r] = run[r]
  BY <1>1 DEF Triggered, TypeInv, Typed
<1>5. \A r \in Run : run[r].state # "none" => Same(r)
  BY <1>1, <1>4 DEF Same
<1>6. \A r \in Run : Fresh(r)'
  BY <1>3, <1>4 DEF Fresh, ComingInv
<1> QED BY <1>1, <1>3, <1>4, <1>5, <1>6

LEMMA NothingNew ==
  ASSUME TypeInv, ComingInv, run' = run, sent' = sent
  PROVE  (\A r \in Run : Same(r)) /\ \A r \in Run : Fresh(r)'
BY DEF Same, Fresh, ComingInv

LEMMA ServerTriggers ==
  ASSUME TypeInv, AttemptInv, ComingInv, NEW w \in Runner, Trigger(w) PROVE ComingInv'
<1>k. PICK k : k = call[w].run
  OBVIOUS
<1>0. /\ AtWork(w) /\ OnList(w) /\ call[w].todo # <<>> /\ Head(call[w].todo) = "trigger"
      /\ UNCHANGED <<list, sent>> /\ NewRuns # {} /\ w \notin Owner
  BY Numbers DEF Trigger, Does, At, AtWork, OnList, Next1
<1>1. /\ k \in Run /\ call[w] \in Call /\ run[k].state = "due" /\ run[k].claim = "held"
      /\ Tail(call[w].todo) = <<"scheduled", "done">> /\ run[k].of = call[w].of
  <2>1. Head(call[w].todo) # "failed" /\ Head(call[w].todo) # "sent"
    BY <1>0
  <2>2. call[w].todo # <<"failed">> /\ call[w].todo # <<"sent">>
    BY <2>1
  <2> QED BY <1>k, <1>0, <2>2, AtItsList, AtItsRun, Lists DEF RunList
<1>2. /\ \A r \in Run : run[r].state # "none" => Same(r)
      /\ \A r \in Run : Fresh(r)'
  BY <1>0, NewRunSleeps, NothingNew DEF Trigger
<1>3. run'[k].state = "due" /\ run'[k].claim = "held" /\ run'[k].of = run[k].of
  BY <1>1, <1>2 DEF Same
<1>4. CASE /\ run' = Triggered(call[w].of, FALSE)
           /\ Set(w, [call[w] EXCEPT !.todo = Tail(@), !.made = NewRun])
  <2>x. PICK x : x = [call[w] EXCEPT !.todo = Tail(@), !.made = NewRun]
    OBVIOUS
  <2>1. /\ Set(w, x) /\ x.pc \in {"go", "write"} /\ x.run = k /\ x.of = call[w].of
        /\ x.made = NewRun /\ x.todo = <<"scheduled", "done">>
    BY <1>k, <1>0, <1>1, <1>4, <2>x DEF OnList, Call
  <2>2. call'[w] = x
    BY <1>0, <2>1, AtItsRun DEF Set, TypeInv, Typed
  <2>3. /\ NewRun \in Run /\ NewRun # 0
        /\ run'[NewRun].state = "asleep" /\ run'[NewRun].of = call[w].of
    BY <1>0, <1>4, NewRunSleeps
  <2>4. MadeOK(w)'
    BY <2>1, <2>2, <2>3 DEF MadeOK
  <2> QED BY <1>0, <1>2, <1>3, <2>1, <2>3, <2>4, GoesOn, <1>k
<1>5. CASE Refused(w)
  <2>x. PICK x : x = [call[w] EXCEPT !.pc = "go", !.todo = Plan["throw"]]
    OBVIOUS
  <2>1. /\ Set(w, x) /\ x.pc = "go" /\ x.run = k /\ x.of = call[w].of
        /\ x.made = call[w].made /\ x.todo \in Working
    BY <1>k, <1>0, <1>1, <1>5, <2>x, PlansWork DEF Refused, Goes, Call
  <2>2. MadeOK(w)'
    BY <1>0, <1>2, <2>1, MadeStays
  <2> QED BY <1>0, <1>2, <1>3, <2>1, <2>2, GoesOn, <1>k
<1> QED BY <1>4, <1>5 DEF Trigger

-----------------------------------------------------------------------------
(* Runs that wake, are taken up, or are given up.                          *)

\* A step that changes one run nobody is at, and no call.
LEMMA RunAlone ==
  ASSUME TypeInv, AttemptInv, ComingInv, NEW k \in Run, run[k].state # "none",
         \A d \in Runner : AtWork(d) => call[d].run # k,
         \A d \in Caller : call[d].made # k,
         UNCHANGED <<list, call, sent>>, \A r \in Run : r # k => run'[r] = run[r],
         run'[k].state \notin {"none", "asleep"}, run'[k].of = run[k].of,
         \A m \in Reminders : list[m] = "scheduled" /\ run[k].of = m => Good(k)'
  PROVE  ComingInv'
<1> DEFINE C == {}
<1>1. (\A r \in Run : r # k /\ run[r].state # "none" => Same(r)) /\ \A r \in Run : Fresh(r)'
  BY OneRun
<1>2. ASSUME NEW m \in Reminders, list'[m] = "scheduled" PROVE Holds(C, k, m)
  BY <1>2 DEF Holds
<1>3. /\ C \in SUBSET Caller /\ \A d \in Caller \ C : call'[d] = call[d]
      /\ \A d \in Runner \ C : AtWork(d) => call[d].run # k
      /\ \A d \in Caller \ C : call[d].made = k => k = 0
      /\ \A d \in C \cap Runner : call'[d].pc \in {"go", "write"} => call'[d].run = k
  OBVIOUS
<1>4. /\ \A d \in C \cap Runner : ServerOK(d)'
      /\ \A d \in C \cap Owner : OwnerOK(d)'
      /\ \A d \in C : MadeOK(d)'
  OBVIOUS
<1> HIDE DEF C
<1> QED BY <1>1, <1>2, <1>3, <1>4, Frame

LEMMA NobodyMade ==
  ASSUME TypeInv, ComingInv, NEW k \in Run, run[k].state # "asleep"
  PROVE  \A d \in Caller : call[d].made # k
<1> SUFFICES ASSUME NEW d \in Caller, call[d].made = k PROVE FALSE
  OBVIOUS
<1>1. MadeOK(d) /\ k # 0
  BY Numbers DEF ComingInv, Run
<1> QED BY <1>1 DEF MadeOK

LEMMA WakesComing ==
  ASSUME TypeInv, AttemptInv, ComingInv, NEW r \in Run, Wakes(r) PROVE ComingInv'
<1>1. /\ run[r].state = "asleep" /\ \A d \in Caller : call[d].made # r
      /\ UNCHANGED <<list, call, sent>> /\ run' = [run EXCEPT ![r].state = "due"]
  BY DEF Wakes
<1>2. \A d \in Runner : AtWork(d) => call[d].run # r
  BY <1>1, AtItsRun
<1>3. /\ run'[r].state = "due" /\ run'[r].of = run[r].of /\ run'[r].claim = run[r].claim
      /\ \A q \in Run : q # r => run'[q] = run[q]
  BY <1>1 DEF TypeInv, Typed, WorkflowRun
<1>4. ~Spent(r)'
  BY <1>1, <1>2 DEF Spent, OnList, AtWork, At, Caller
<1>5. run[r].claim = "free"
  BY <1>1 DEF ComingInv, Fresh
<1>6. Good(r)'
  BY <1>3, <1>4, <1>5 DEF Good
<1> QED BY <1>1, <1>2, <1>3, <1>6, RunAlone

LEMMA ExhaustedComing ==
  ASSUME TypeInv, AttemptInv, ComingInv, NEW r \in Run, Exhausted(r) PROVE ComingInv'
<1>1. /\ run[r].state = "due" /\ ~Held(r)
      /\ UNCHANGED <<list, call, sent>> /\ run' = [run EXCEPT ![r].state = "dead"]
  BY DEF Exhausted
<1>2. \A d \in Runner : AtWork(d) => call[d].run # r
  BY <1>1 DEF Held, AtWork
<1>3. /\ run'[r].state = "dead" /\ run'[r].of = run[r].of
      /\ \A q \in Run : q # r => run'[q] = run[q]
  BY <1>1 DEF TypeInv, Typed, WorkflowRun
<1>4. ~Spent(r)'
  BY <1>1, <1>2 DEF Spent, OnList, AtWork, At, Caller
<1>5. Good(r)'
  BY <1>3, <1>4 DEF Good
<1> QED BY <1>1, <1>2, <1>3, <1>5, RunAlone, NobodyMade

LEMMA TakesUp ==
  ASSUME TypeInv, AttemptInv, ComingInv, "redelivery" \notin Faults,
         NEW w \in Runner, NEW r \in Run, Deliver(w, r) \/ Fails(w, r)
  PROVE  ComingInv'
<1>1. /\ ~Held(r) /\ UNCHANGED <<list, sent>> /\ At(w, "idle")
      /\ run[r].state \in {"due", "dead"} /\ w \in Caller
      /\ run \in [Run -> WorkflowRun]
  BY DEF Deliver, Fails, Fault, Caller, TypeInv, Typed
<1>2. \A d \in Runner : AtWork(d) => call[d].run # r
  BY <1>1 DEF Held, AtWork
<1>3. \A d \in Caller : call[d].made # r
  BY <1>1, NobodyMade
<1>4. CASE Over(r) /\ call' = call
  <2>1. /\ run'[r].state = "over" /\ run'[r].of = run[r].of
        /\ \A q \in Run : q # r => run'[q] = run[q]
    BY <1>1, <1>4 DEF Over, WorkflowRun
  <2>2. list[run[r].of] # "scheduled"
    <3>1. call[w].pc = "idle"
      BY <1>1 DEF At
    <3>2. \A x : x.pc # "idle" /\ Set(w, x) => FALSE
      BY <1>1, <1>4, <3>1 DEF Set, TypeInv, Typed
    <3>3. ~Set(w, [Idle EXCEPT !.pc = "check", !.of = run[r].of, !.run = r])
      <4>1. [Idle EXCEPT !.pc = "check", !.of = run[r].of, !.run = r].pc = "check"
        BY DEF Idle
      <4> QED BY <3>2, <4>1
    <3>4. ~Set(w, [Idle EXCEPT !.pc = "go", !.of = run[r].of, !.run = r,
                               !.todo = <<"failed">>])
      <4>1. [Idle EXCEPT !.pc = "go", !.of = run[r].of, !.run = r,
                         !.todo = <<"failed">>].pc = "go"
        BY DEF Idle
      <4> QED BY <3>2, <4>1
    <3> QED BY <3>3, <3>4 DEF Deliver, Fails, Eligible
  <2> QED BY <1>1, <1>2, <1>3, <1>4, <2>1, <2>2, RunAlone
<1>5. ASSUME NEW x, Set(w, x), run' = run, x.run = r, x.of = run[r].of, x.made = 0,
             \/ x.pc = "check" /\ run[r].state = "due"
             \/ x.pc = "go" /\ run[r].state = "dead" /\ x.todo = <<"failed">>
      PROVE  ComingInv'
  <2> DEFINE C == {w}
  <2>1. call'[w] = x /\ (\A d \in Caller \ C : call'[d] = call[d]) /\ C \in SUBSET Caller
    BY <1>1, <1>5 DEF Set, TypeInv, Typed
  <2>2. (\A q \in Run : Same(q)) /\ \A q \in Run : Fresh(q)'
    BY <1>1, <1>5, NothingNew
  <2>3. ServerOK(w)' /\ MadeOK(w)'
    BY <1>5, <2>1 DEF ServerOK, OnList, At, MadeOK
  <2>4. ~Spent(r)'
    <3>1. ASSUME NEW d \in Runner, OnList(d)', call'[d].run = r PROVE d = w
      BY <1>2, <2>1, <3>1 DEF OnList, AtWork, At, Caller
    <3>2. OnList(w)' => call'[w].todo \notin Leaving
      BY <1>5, <2>1, NotLeaving DEF OnList
    <3> QED BY <3>1, <3>2 DEF Spent
  <2>5. Good(r) => Good(r)'
    BY <1>1, <1>5, <2>4 DEF Good
  <2>6. C \cap Owner = {} /\ C \cap Runner = {w}
    BY Numbers
  <2>7. ASSUME NEW m \in Reminders, list'[m] = "scheduled" PROVE Holds(C, r, m)
    BY <1>1, <1>5, <2>5, <2>6, <2>7 DEF Holds
  <2>8. /\ \A d \in Runner \ C : AtWork(d) => call[d].run # r
        /\ \A d \in Caller \ C : call[d].made = r => r = 0
        /\ \A d \in C \cap Runner : call'[d].pc \in {"go", "write"} => call'[d].run = r
    BY <1>2, <1>3, <1>5, <2>1
  <2>9. /\ \A d \in C \cap Runner : ServerOK(d)'
        /\ \A d \in C \cap Owner : OwnerOK(d)'
        /\ \A d \in C : MadeOK(d)'
    BY <2>3, <2>6
  <2>10. \A q \in Run : q # r /\ run[q].state # "none" => Same(q)
    BY <2>2
  <2> HIDE DEF C
  <2> QED BY <2>1, <2>2, <2>7, <2>8, <2>9, <2>10, Frame
<1>6. CASE /\ Set(w, [Idle EXCEPT !.pc = "check", !.of = run[r].of, !.run = r])
           /\ run' = run /\ run[r].state = "due"
  <2>x. PICK x : x = [Idle EXCEPT !.pc = "check", !.of = run[r].of, !.run = r]
    OBVIOUS
  <2>1. x.pc = "check" /\ x.of = run[r].of /\ x.run = r /\ x.made = 0
    BY <2>x DEF Idle
  <2> QED BY <1>5, <1>6, <2>x, <2>1
<1>7. CASE /\ Set(w, [Idle EXCEPT !.pc = "go", !.of = run[r].of, !.run = r,
                                  !.todo = <<"failed">>])
           /\ run' = run /\ run[r].state = "dead"
  <2>x. PICK x : x = [Idle EXCEPT !.pc = "go", !.of = run[r].of, !.run = r,
                                  !.todo = <<"failed">>]
    OBVIOUS
  <2>1. /\ x.pc = "go" /\ x.of = run[r].of /\ x.run = r /\ x.made = 0
        /\ x.todo = <<"failed">>
    BY <2>x DEF Idle
  <2> QED BY <1>5, <1>7, <2>x, <2>1
<1> QED BY <1>4, <1>6, <1>7 DEF Deliver, Fails

-----------------------------------------------------------------------------
(* The owner's requests.                                                   *)

LEMMA OwnerFrame ==
  ASSUME TypeInv, AttemptInv, ComingInv, NEW o \in Owner,
         \A d \in Caller : d # o => call'[d] = call[d],
         \A r \in Run : run[r].state # "none" => Same(r), \A r \in Run : Fresh(r)',
         OwnerOK(o)', MadeOK(o)',
         \A m \in Reminders : list'[m] = "scheduled" =>
           \/ Promised(m)' \/ Pending(o, m)'
           \/ list[m] = "scheduled" /\ (Pending(o, m) => Pending(o, m)')
  PROVE  ComingInv'
<1> DEFINE C == {o}
           k == 0
<1>1. /\ C \in SUBSET Caller /\ C \cap Owner = {o} /\ C \cap Runner = {}
      /\ \A d \in Caller \ C : call'[d] = call[d]
  BY Numbers DEF Caller
<1>2. k \notin Run
  BY Numbers DEF Run
<1>3. ASSUME NEW m \in Reminders, list'[m] = "scheduled" PROVE Holds(C, k, m)
  BY <1>1, <1>2, <1>3 DEF Holds, AtIt
<1>4. /\ \A d \in Runner \ C : AtWork(d) => call[d].run # k
      /\ \A d \in Caller \ C : call[d].made = k => k = 0
      /\ \A d \in C \cap Runner : call'[d].pc \in {"go", "write"} => call'[d].run = k
  BY <1>1, <1>2, AtItsRun
<1>5. /\ \A d \in C \cap Runner : ServerOK(d)'
      /\ \A d \in C \cap Owner : OwnerOK(d)'
      /\ \A d \in C : MadeOK(d)'
  BY <1>1
<1>6. \A r \in Run : r # k /\ run[r].state # "none" => Same(r)
  OBVIOUS
<1> HIDE DEF C, k
<1> QED BY <1>1, <1>3, <1>4, <1>5, <1>6, Frame

\* A request's list is one of these; idle, it has none.
LEMMA OwnerIs ==
  ASSUME TypeInv, ComingInv, NEW o \in Owner
  PROVE  /\ o \in Caller /\ call[o] \in Call /\ OwnerOK(o) /\ MadeOK(o)
         /\ At(o, "idle") => call[o].todo = <<>>
BY CallIs DEF ComingInv, OwnerOK, At, Caller

LEMMA NothingPending == \A t : t = <<>> \/ t = <<"keep">> => t \notin Asking \cup Undoing
BY DEF Asking, Undoing, Unscheduled, Status

\* A request that begins is at its reminder until it has done something about it.
LEMMA Begins ==
  ASSUME TypeInv, AttemptInv, ComingInv, NEW o \in Owner, At(o, "idle"),
         UNCHANGED <<run, sent>>, NEW of, NEW todo, NEW was, Request(o, of, todo, was),
         (todo \in Asking /\ was \in Unscheduled) \/ todo \in Undoing,
         \A m \in Reminders : m # of => list'[m] = list[m]
  PROVE  ComingInv'
<1>x. PICK x : x = [Idle EXCEPT !.pc = "go", !.of = of, !.todo = todo, !.was = was]
  OBVIOUS
<1>1. x.pc = "go" /\ x.of = of /\ x.todo = todo /\ x.was = was /\ x.made = 0
  BY <1>x DEF Idle
<1>2. call'[o] = x /\ \A d \in Caller : d # o => call'[d] = call[d]
  BY <1>x, OwnerIs DEF Request, Set, TypeInv, Typed
<1>3. OwnerOK(o)' /\ MadeOK(o)'
  BY <1>1, <1>2 DEF OwnerOK, MadeOK
<1>4. Pending(o, of)'
  BY <1>1, <1>2 DEF Pending
<1>5. \A m \in Reminders : ~Pending(o, m)
  BY OwnerIs, NothingPending DEF Pending
<1>6. (\A r \in Run : Same(r)) /\ \A r \in Run : Fresh(r)'
  BY NothingNew
<1> QED BY <1>2, <1>3, <1>4, <1>5, <1>6, OwnerFrame

\* An owner who changes no call and calls nothing scheduled.
LEMMA NoCall ==
  ASSUME TypeInv, AttemptInv, ComingInv, NEW o \in Owner, call' = call,
         \A r \in Run : run[r].state # "none" => Same(r), \A r \in Run : Fresh(r)',
         \A m \in Reminders : list'[m] = "scheduled" => list[m] = "scheduled"
  PROVE  ComingInv'
<1>1. MadeOK(o)'
  <2>1. call[o].made # 0 => Same(call[o].made)
    BY OwnerIs DEF MadeOK
  <2> QED BY <2>1, OwnerIs DEF MadeOK, Same
<1>2. OwnerOK(o)'
  BY OwnerIs DEF OwnerOK
<1>3. \A m \in Reminders : Pending(o, m)' <=> Pending(o, m)
  BY DEF Pending
<1> QED BY <1>1, <1>2, <1>3, OwnerFrame

LEMMA CommandsComing ==
  ASSUME TypeInv, AttemptInv, ComingInv, "hurry" \notin Commands, NEW o \in Owner,
         Commanded(o)
  PROVE  ComingInv'
<1>0. /\ <<"trigger", "keep">> \in Asking /\ <<"scheduled", "trigger", "keep">> \in Asking
      /\ <<"paused">> \in Undoing
      /\ {"failed", "waiting", "paused"} \subseteq Unscheduled
  BY DEF Asking, Undoing, Unscheduled, Status
<1>1. ASSUME NEW m \in Reminders, SetIt(o, m) PROVE ComingInv'
  <2>1. /\ At(o, "idle") /\ UNCHANGED <<run, sent>>
        /\ Request(o, m, <<"trigger", "keep">>, "failed")
        /\ \A n \in Reminders : n # m => list'[n] = list[n]
    BY <1>1 DEF SetIt, Asks, TypeInv, Typed
  <2> QED BY <1>0, <2>1, Begins
<1>2. ASSUME NEW m \in Reminders, Cancel(o, m) PROVE ComingInv'
  <2>1. /\ UNCHANGED <<run, call, sent>>
        /\ \A n \in Reminders : list'[n] = "scheduled" => list[n] = "scheduled"
    BY <1>2 DEF Cancel, TypeInv, Typed
  <2> QED BY <2>1, NothingNew, NoCall
<1>3. ASSUME NEW m \in Reminders, Pause(o, m) PROVE ComingInv'
  <2>1. /\ At(o, "idle") /\ UNCHANGED <<list, run, sent>>
        /\ Request(o, m, <<"paused">>, "none")
    BY <1>3 DEF Pause, Asks
  <2> QED BY <1>0, <2>1, Begins
<1>4. ASSUME NEW m \in Reminders, Resume(o, m) PROVE ComingInv'
  <2>1. /\ At(o, "idle") /\ UNCHANGED <<list, run, sent>>
        /\ Request(o, m, <<"scheduled", "trigger", "keep">>, "paused")
    BY <1>4 DEF Resume, Asks
  <2> QED BY <1>0, <2>1, Begins
<1>5. ASSUME NEW m \in Reminders, RunNow(o, m) PROVE ComingInv'
  <2>1. /\ At(o, "idle") /\ UNCHANGED <<list, run, sent>>
        /\ Request(o, m, <<"scheduled", "trigger", "keep">>, list[m])
        /\ list[m] \in {"waiting", "paused"}
    BY <1>5 DEF RunNow, Asks
  <2>2. PICK was : was = list[m]
    OBVIOUS
  <2> QED BY <1>0, <2>1, <2>2, Begins
<1>6. ASSUME NEW r \in Run, Approve(o, r) PROVE ComingInv'
  <2>0. /\ NewRuns # {} /\ UNCHANGED <<list, call, sent>>
        /\ run' = [Triggered(run[r].of, TRUE) EXCEPT ![r].asks = FALSE]
        /\ run[r].of \in Reminders \cup {"nothing"}
    BY <1>6 DEF Approve, TypeInv, Typed, WorkflowRun
  <2>t. PICK t : t = Triggered(run[r].of, TRUE)
    OBVIOUS
  <2>1. t \in [Run -> WorkflowRun]
    BY <2>0, <2>t, TriggeredType
  <2>2. \A q \in Run : /\ run'[q].state = t[q].state /\ run'[q].of = t[q].of
                       /\ run'[q].claim = t[q].claim
    <3>1. run' = [t EXCEPT ![r].asks = FALSE]
      BY <2>0, <2>t
    <3> QED BY <2>1, <3>1 DEF WorkflowRun
  <2>3. NewRun \in Run /\ run[NewRun].state = "none"
    BY <2>0 DEF NewRun, NewRuns
  <2>4. /\ t[NewRun].state = "asleep" /\ t[NewRun].claim = "free"
        /\ \A q \in Run : q # NewRun => t[q] = run[q]
    BY <2>3, <2>t DEF Triggered, NoRun, TypeInv, Typed
  <2>5. \A q \in Run : run[q].state # "none" => Same(q)
    BY <2>0, <2>2, <2>3, <2>4 DEF Same
  <2>6. \A q \in Run : Fresh(q)'
    BY <2>2, <2>4 DEF Fresh, ComingInv
  <2> QED BY <2>0, <2>5, <2>6, NoCall
<1> QED BY <1>1, <1>2, <1>3, <1>4, <1>5, <1>6 DEF Commanded

LEMMA OwnerGoesOn ==
  ASSUME TypeInv, AttemptInv, ComingInv, Undisturbed, NEW o \in Owner,
         UpdateReads(o) \/ UpdateWrites(o) \/ Trigger(o) \/ Answered(o)
  PROVE  ComingInv'
<1>t. PICK t : t = call[o].todo
  OBVIOUS
<1>0. /\ o \in Caller /\ call[o] \in Call /\ OwnerOK(o) /\ MadeOK(o) /\ o \notin Runner
      /\ call \in [Caller -> Call]
  BY OwnerIs, Numbers DEF TypeInv, Typed
<1>1. ASSUME NEW x, Set(o, x)
      PROVE  call'[o] = x /\ \A d \in Caller : d # o => call'[d] = call[d]
  BY <1>0, <1>1 DEF Set
<1>2. CASE Answered(o)
  <2>1. t = <<>> /\ Set(o, Idle) /\ UNCHANGED <<list, run, sent>>
    BY <1>2, <1>t DEF Answered
  <2>2. Idle.pc = "idle" /\ Idle.todo = <<>> /\ Idle.made = 0
    BY DEF Idle
  <2>3. OwnerOK(o)' /\ MadeOK(o)'
    BY <1>1, <2>1, <2>2 DEF OwnerOK, MadeOK
  <2>4. \A m \in Reminders : ~Pending(o, m)
    BY <1>t, <2>1, NothingPending DEF Pending
  <2> QED BY <1>1, <2>1, <2>3, <2>4, NothingNew, OwnerFrame
<1>3. CASE UpdateReads(o)
  <2>x. PICK x : x = [call[o] EXCEPT !.pc = "write", !.read = list]
    OBVIOUS
  <2>1. /\ Set(o, x) /\ UNCHANGED <<list, run, sent>>
        /\ x.pc = "write" /\ x.todo = t /\ x.of = call[o].of /\ x.was = call[o].was
        /\ x.made = call[o].made
    BY <1>0, <1>3, <1>t, <2>x DEF UpdateReads, Call
  <2>2. OwnerOK(o)' /\ MadeOK(o)'
    BY <1>0, <1>1, <1>t, <2>1 DEF OwnerOK, MadeOK
  <2>3. \A m \in Reminders : Pending(o, m) => Pending(o, m)'
    BY <1>1, <1>t, <2>1 DEF Pending
  <2> QED BY <1>1, <2>1, <2>2, <2>3, NothingNew, OwnerFrame
<1>4. CASE UpdateWrites(o)
  <2>x. PICK x : x = [call[o] EXCEPT !.pc = "go", !.todo = Tail(@), !.read = Idle.read]
    OBVIOUS
  <2>1. /\ Set(o, x) /\ UNCHANGED <<run, sent>> /\ t # <<>> /\ Head(t) \in Write
        /\ x.pc = "go" /\ x.todo = Tail(t) /\ x.of = call[o].of /\ x.was = call[o].was
        /\ x.made = call[o].made
        /\ \A m \in Reminders : m # call[o].of => list'[m] = list[m]
        /\ \A m \in Reminders : m = call[o].of /\ Head(t) # "keep" => list'[m] = Head(t)
    BY <1>0, <1>4, <1>t, <2>x, WritesOne DEF UpdateWrites, Call
  <2>2. ASSUME OwnerOK(o)', \A m \in Reminders : m = call[o].of /\ list'[m] = "scheduled" =>
                              Promised(m)' \/ Pending(o, m)'
        PROVE  ComingInv'
    <3>1. MadeOK(o)'
      BY <1>0, <1>1, <2>1 DEF MadeOK
    <3>2. \A m \in Reminders : m # call[o].of => ~Pending(o, m)
      BY DEF Pending
    <3> QED BY <1>1, <2>1, <2>2, <3>1, <3>2, NothingNew, OwnerFrame
  <2>3. CASE t \in Asking
    <3>1. t = <<"scheduled", "trigger", "keep">>
      BY <2>1, <2>3 DEF Asking, Write, Status
    <3>2. x.todo \in Asking
      BY <2>1, <3>1 DEF Asking
    <3>3. call[o].was \in Unscheduled
      <4>1. t # <<"keep">> /\ t \notin Undoing /\ t # <<>>
        BY <3>1 DEF Undoing
      <4> QED BY <1>0, <1>t, <4>1 DEF OwnerOK
    <3>4. OwnerOK(o)'
      BY <1>1, <2>1, <3>2, <3>3 DEF OwnerOK
    <3>5. \A m \in Reminders : m = call[o].of => Pending(o, m)'
      BY <1>1, <2>1, <3>2 DEF Pending
    <3> QED BY <2>2, <3>4, <3>5
  <2>4. CASE t = <<"keep">>
    <3>1. x.todo = <<>>
      BY <2>1, <2>4
    <3>2. call[o].made # 0
      <4>1. t \notin Undoing /\ t \notin Asking /\ t # <<>>
        BY <2>4 DEF Undoing, Unscheduled, Status, Asking
      <4> QED BY <1>0, <1>t, <4>1 DEF OwnerOK
    <3>3. PICK q \in Run : q = call[o].made
      BY <1>0, <3>2 DEF MadeOK
    <3>4. run'[q].of = call[o].of /\ Good(q)'
      BY <1>0, <2>1, <3>2, <3>3 DEF MadeOK, Good
    <3>5. \A m \in Reminders : m = call[o].of => Promised(m)'
      BY <3>4 DEF Promised
    <3>6. OwnerOK(o)'
      BY <1>1, <2>1, <3>1 DEF OwnerOK
    <3> QED BY <2>2, <3>5, <3>6
  <2>5. CASE t \in Undoing
    <3>1. PICK s \in Unscheduled : t = <<s>>
      BY <2>5 DEF Undoing
    <3>2. x.todo = <<>> /\ Head(t) = s /\ s # "keep" /\ s # "scheduled"
      BY <2>1, <3>1 DEF Unscheduled, Status
    <3>3. OwnerOK(o)'
      BY <1>1, <2>1, <3>2 DEF OwnerOK
    <3> QED BY <2>1, <2>2, <3>2, <3>3
  <2> QED BY <1>0, <1>t, <2>1, <2>3, <2>4, <2>5 DEF OwnerOK
<1>5. CASE Trigger(o)
  <2>0. /\ t # <<>> /\ Head(t) = "trigger" /\ UNCHANGED <<list, sent>> /\ NewRuns # {}
        /\ At(o, "go")
    BY <1>5, <1>t DEF Trigger, Does, Next1
  <2>1. t = <<"trigger", "keep">> /\ call[o].was \in Unscheduled
    <3>1. t # <<"keep">> /\ t \notin Undoing
      BY <2>0 DEF Undoing, Unscheduled, Status
    <3>2. t \in Asking /\ call[o].was \in Unscheduled
      BY <1>0, <1>t, <2>0, <3>1 DEF OwnerOK
    <3> QED BY <2>0, <3>2 DEF Asking
  <2>2. /\ \A r \in Run : run[r].state # "none" => Same(r)
        /\ \A r \in Run : Fresh(r)'
    BY <1>5, <2>0, NewRunSleeps, NothingNew DEF Trigger
  <2>3. CASE /\ run' = Triggered(call[o].of, FALSE)
             /\ Set(o, [call[o] EXCEPT !.todo = Tail(@), !.made = NewRun])
    <3>x. PICK x : x = [call[o] EXCEPT !.todo = Tail(@), !.made = NewRun]
      OBVIOUS
    <3>1. /\ Set(o, x) /\ x.pc = "go" /\ x.of = call[o].of /\ x.made = NewRun
          /\ x.todo = <<"keep">>
      <4>1. Tail(t) = <<"keep">>
        BY <2>1
      <4>2. x = [call[o] EXCEPT !.todo = <<"keep">>, !.made = NewRun]
        BY <1>t, <3>x, <4>1
      <4>3. call[o].pc = "go" /\ Set(o, x)
        BY <2>0, <2>3, <3>x DEF At
      <4> QED BY <1>0, <4>2, <4>3 DEF Call
    <3>2. /\ NewRun \in Run /\ NewRun # 0
          /\ run'[NewRun].state = "asleep" /\ run'[NewRun].of = call[o].of
      BY <2>0, <2>3, NewRunSleeps
    <3>3. OwnerOK(o)' /\ MadeOK(o)'
      BY <1>1, <3>1, <3>2 DEF OwnerOK, MadeOK
    <3>4. \A m \in Reminders : m = call[o].of => Promised(m)'
      BY <3>2 DEF Promised, Good
    <3>5. \A m \in Reminders : m # call[o].of => ~Pending(o, m)
      BY DEF Pending
    <3> QED BY <1>1, <2>0, <2>2, <3>1, <3>3, <3>4, <3>5, OwnerFrame
  <2>4. CASE Refused(o)
    <3>x. PICK x : x = [call[o] EXCEPT !.pc = "go", !.todo = <<call[o].was>>]
      OBVIOUS
    <3>1. /\ Set(o, x) /\ x.pc = "go" /\ x.of = call[o].of /\ x.made = call[o].made
          /\ x.todo = <<call[o].was>>
      BY <1>0, <2>4, <3>x DEF Refused, Goes, Call
    <3>2. x.todo \in Undoing
      BY <2>1, <3>1 DEF Undoing
    <3>3. OwnerOK(o)'
      BY <1>1, <3>1, <3>2 DEF OwnerOK
    <3>4. MadeOK(o)'
      <4>1. call[o].made # 0 => Same(call[o].made)
        BY <1>0, <2>2 DEF MadeOK
      <4> QED BY <1>0, <1>1, <3>1, <4>1 DEF MadeOK, Same
    <3>5. \A m \in Reminders : Pending(o, m) => Pending(o, m)'
      BY <1>1, <3>1, <3>2 DEF Pending
    <3> QED BY <1>1, <2>0, <2>2, <3>1, <3>3, <3>4, <3>5, OwnerFrame
  <2> QED BY <1>5, <2>3, <2>4 DEF Trigger
<1> QED BY <1>2, <1>3, <1>4, <1>5

-----------------------------------------------------------------------------
LEMMA ComingStep ==
  ASSUME "redelivery" \notin Faults, "hurry" \notin Commands,
         TypeInv, AttemptInv, ComingInv, Undisturbed, [Next]_vars
  PROVE  ComingInv'
<1>1. ASSUME NEW w \in Runner, Delivers(w) \/ Crash(w) PROVE ComingInv'
  BY <1>1, CheckComing, ClaimComing, TurnComing, SendComing, DoneComing, OutComing, TakesUp
     DEF Delivers
<1>2. ASSUME NEW o \in Owner, Commanded(o) \/ Answered(o) PROVE ComingInv'
  BY <1>2, CommandsComing, OwnerGoesOn
<1>3. ASSUME NEW c \in Caller, UpdateReads(c) \/ UpdateWrites(c) \/ Trigger(c)
      PROVE  ComingInv'
  BY <1>3, OwnerGoesOn, ReadsComing, WritesComing, ServerTriggers DEF Caller
<1>4. ASSUME NEW r \in Run, Wakes(r) \/ Exhausted(r) PROVE ComingInv'
  BY <1>4, WakesComing, ExhaustedComing
<1>5. CASE UNCHANGED vars
  <2>1. UNCHANGED <<list, run, call, sent>>
    BY <1>5 DEF vars
  <2> QED BY <2>1 DEF ComingInv, ServerOK, AtWork, At, OnList, RunList, OwnerOK, MadeOK,
             Fresh, Kept, Promised, Good, Spent, AtIt, Pending
<1> QED BY <1>1, <1>2, <1>3, <1>4, <1>5 DEF Next

LEMMA GoodComes == TypeInv /\ ComingInv => ScheduledIsComing
<1> SUFFICES ASSUME TypeInv, ComingInv, NEW m \in Reminders, list[m] = "scheduled"
             PROVE  Coming(m) \/ Busy(m) \/ Reached(m) \/ Died(m)
  BY DEF ScheduledIsComing
<1>1. Promised(m) \/ AtIt(m)
  BY DEF ComingInv, Kept
<1>2. ASSUME NEW r \in Run, run[r].of = m, Good(r)
      PROVE  Coming(m) \/ Reached(m) \/ Died(m)
  BY <1>2 DEF Good, Coming, Reached, Died
<1>3. ASSUME NEW o \in Owner, Pending(o, m) PROVE Busy(m)
  <2>1. o \in Caller /\ ~At(o, "idle") /\ call[o].of = m
    BY <1>3, OwnerIs, NothingPending DEF Pending, OwnerOK, At
  <2> QED BY <2>1 DEF Busy
<1> QED BY <1>1, <1>2, <1>3 DEF Promised, AtIt

\* Whatever runs, or is called for, is about a reminder.
RunsNamed ==
  \A r \in Run : /\ run[r].state # "none" => run[r].of \in Reminders
                 /\ run[r].asks => run[r].state # "none"
CallsNamed == \A c \in Caller : ~At(c, "idle") => call[c].of \in Reminders
NamedInv == RunsNamed /\ CallsNamed

LEMMA RunNamed ==
  ASSUME TypeInv, NamedInv, NEW k,
         \/ run' = run
         \/ \E st : st # "none" /\ run' = [run EXCEPT ![k].state = st]
         \/ \E cl : run' = [run EXCEPT ![k].claim = cl]
         \/ \E a : run' = [run EXCEPT ![k].asks = a],
         k \in Run => run[k].state # "none"
  PROVE  RunsNamed'
BY DEF NamedInv, RunsNamed, TypeInv, Typed, WorkflowRun

LEMMA NewRunNamed ==
  ASSUME TypeInv, NamedInv, NewRuns # {}, NEW of \in Reminders, NEW approved
  PROVE  \A r \in Run :
           /\ Triggered(of, approved)[r].state # "none" =>
                Triggered(of, approved)[r].of \in Reminders
           /\ Triggered(of, approved)[r].asks => Triggered(of, approved)[r].state # "none"
<1>1. NewRun \in Run
  BY DEF NewRun, NewRuns
<1>2. Triggered(of, approved)[NewRun].of = of /\ ~Triggered(of, approved)[NewRun].asks
  BY <1>1 DEF Triggered, NoRun, TypeInv, Typed
<1>3. \A r \in Run : r # NewRun => Triggered(of, approved)[r] = run[r]
  BY <1>1 DEF Triggered, TypeInv, Typed
<1> QED BY <1>1, <1>2, <1>3 DEF NamedInv, RunsNamed

LEMMA CallNamed ==
  ASSUME TypeInv, NamedInv, NEW c \in Caller, NEW x, Set(c, x),
         x.pc = "idle" \/ x.of \in Reminders
  PROVE  CallsNamed'
BY DEF NamedInv, CallsNamed, Set, At, TypeInv, Typed

\* A call that goes on is about what it was about.
LEMMA StaysNamed ==
  ASSUME TypeInv, NamedInv, NEW c \in Caller, ~At(c, "idle")
  PROVE  /\ call[c].of \in Reminders
         /\ \A todo : Goes(c, todo) => CallsNamed'
         /\ \A pc : Set(c, [call[c] EXCEPT !.pc = pc]) => CallsNamed'
         /\ Set(c, Idle) => CallsNamed'
         /\ Set(c, [call[c] EXCEPT !.pc = "write", !.read = list]) => CallsNamed'
         /\ Set(c, [call[c] EXCEPT !.pc = "go", !.todo = Tail(@), !.read = Idle.read])
              => CallsNamed'
         /\ Set(c, [call[c] EXCEPT !.todo = Tail(@), !.made = NewRun]) => CallsNamed'
<1>1. call[c].of \in Reminders /\ call[c] \in Call
  BY CallIs DEF NamedInv, CallsNamed
<1>2. ASSUME NEW todo, Goes(c, todo) PROVE CallsNamed'
  <2>1. [call[c] EXCEPT !.pc = "go", !.todo = todo].of \in Reminders
    BY <1>1 DEF Call
  <2> QED BY <1>2, <2>1, CallNamed DEF Goes
<1>3. ASSUME NEW pc, Set(c, [call[c] EXCEPT !.pc = pc]) PROVE CallsNamed'
  <2>1. [call[c] EXCEPT !.pc = pc].of \in Reminders
    BY <1>1 DEF Call
  <2> QED BY <1>3, <2>1, CallNamed
<1>4. Set(c, Idle) => CallsNamed'
  BY CallNamed DEF Idle
<1>5. ASSUME Set(c, [call[c] EXCEPT !.pc = "write", !.read = list]) PROVE CallsNamed'
  <2>1. [call[c] EXCEPT !.pc = "write", !.read = list].of \in Reminders
    BY <1>1 DEF Call
  <2> QED BY <1>5, <2>1, CallNamed
<1>6. ASSUME Set(c, [call[c] EXCEPT !.pc = "go", !.todo = Tail(@), !.read = Idle.read])
      PROVE  CallsNamed'
  <2>1. [call[c] EXCEPT !.pc = "go", !.todo = Tail(@), !.read = Idle.read].of \in Reminders
    BY <1>1 DEF Call
  <2> QED BY <1>6, <2>1, CallNamed
<1>7. ASSUME Set(c, [call[c] EXCEPT !.todo = Tail(@), !.made = NewRun]) PROVE CallsNamed'
  <2>1. [call[c] EXCEPT !.todo = Tail(@), !.made = NewRun].of \in Reminders
    BY <1>1 DEF Call
  <2> QED BY <1>7, <2>1, CallNamed
<1> QED BY <1>1, <1>2, <1>3, <1>4, <1>5, <1>6, <1>7

LEMMA CallerNamed ==
  ASSUME TypeInv, AttemptInv, NamedInv, NEW c \in Caller,
         \/ UpdateReads(c) \/ UpdateWrites(c) \/ Trigger(c) \/ Answered(c)
         \/ c \in Runner /\ \/ Check(c) \/ Claim(c) \/ Turn(c) \/ Send(c) \/ Done(c)
                            \/ Ends(c) \/ Throws(c) \/ Crash(c)
  PROVE  NamedInv'
<1>0. ~At(c, "idle")
  BY DEF UpdateReads, UpdateWrites, Trigger, Answered, Check, Claim, Turn, Send, Done, Ends,
         Throws, Crash, Does, At
<1>k. PICK k : k = call[c].run
  OBVIOUS
<1>1. CallsNamed'
  <2>1. CASE UpdateReads(c) \/ UpdateWrites(c)
    BY <1>0, <2>1, StaysNamed DEF UpdateReads, UpdateWrites
  <2>2. CASE Trigger(c)
    BY <1>0, <2>2, StaysNamed DEF Trigger, Refused
  <2>3. CASE Check(c) \/ Claim(c) \/ Ends(c) \/ Throws(c) \/ Crash(c) \/ Answered(c)
    BY <1>0, <2>3, StaysNamed DEF Check, Claim, Ends, Throws, Crash, Answered
  <2>4. CASE Turn(c) \/ Send(c) \/ Done(c)
    BY <1>0, <2>4, StaysNamed DEF Turn, Send, Done, Did
  <2> QED BY <2>1, <2>2, <2>3, <2>4
<1>2. RunsNamed'
  <2>1. CASE Trigger(c)
    <3>1. call[c].of \in Reminders /\ NewRuns # {}
      BY <1>0, <2>1, StaysNamed DEF Trigger
    <3>2. run' = run \/ run' = Triggered(call[c].of, FALSE)
      BY <2>1 DEF Trigger
    <3> QED BY <3>1, <3>2, NewRunNamed DEF NamedInv, RunsNamed
  <2>2. CASE run' = run
    BY <2>2 DEF NamedInv, RunsNamed
  <2>3. CASE c \in Runner
    <3>1. run[k].state # "none"
      BY <1>0, <1>k, <2>3, ServerIs DEF AtWork
    <3>2. CASE Turn(c)
      <4>1. \E a : run' = [run EXCEPT ![k].asks = a]
        BY <1>k, <3>2 DEF Turn
      <4> QED BY <3>1, <4>1, RunNamed
    <3>3. CASE Check(c) \/ Ends(c)
      <4>1. run' = run \/ \E st : st # "none" /\ run' = [run EXCEPT ![k].state = st]
        BY <1>k, <3>3 DEF Check, Ends, Over
      <4> QED BY <3>1, <4>1, RunNamed
    <3>4. CASE Claim(c) \/ Done(c)
      <4>1. \/ \E cl : run' = [run EXCEPT ![k].claim = cl]
            \/ \E st : st # "none" /\ run' = [run EXCEPT ![k].state = st]
        BY <1>k, <3>4 DEF Claim, Done, Over
      <4> QED BY <3>1, <4>1, RunNamed
    <3>5. Send(c) \/ Throws(c) \/ Crash(c) \/ UpdateReads(c) \/ UpdateWrites(c) \/ Answered(c)
            => run' = run
      BY DEF Send, Throws, Crash, UpdateReads, UpdateWrites, Answered
    <3> QED BY <2>1, <2>2, <3>2, <3>3, <3>4, <3>5
  <2> QED BY <2>1, <2>2, <2>3 DEF UpdateReads, UpdateWrites, Answered
<1> QED BY <1>1, <1>2 DEF NamedInv

LEMMA NamedStep ==
  ASSUME TypeInv, AttemptInv, NamedInv, [Next]_vars PROVE NamedInv'
<1>1. ASSUME NEW w \in Runner, NEW r \in Run, Deliver(w, r) \/ Fails(w, r) PROVE NamedInv'
  <2>1. w \in Caller /\ run[r].of \in Reminders /\ run[r].state # "none"
    BY <1>1 DEF Caller, Deliver, Fails, NamedInv, RunsNamed
  <2>2. CallsNamed'
    <3>1. /\ [Idle EXCEPT !.pc = "check", !.of = run[r].of, !.run = r].of = run[r].of
          /\ [Idle EXCEPT !.pc = "go", !.of = run[r].of, !.run = r,
                          !.todo = <<"failed">>].of = run[r].of
      BY DEF Idle
    <3>2. call' = call => CallsNamed'
      BY DEF NamedInv, CallsNamed, At
    <3> QED BY <1>1, <2>1, <3>1, <3>2, CallNamed DEF Deliver, Fails
  <2>3. run' = run \/ \E st : st # "none" /\ run' = [run EXCEPT ![r].state = st]
    BY <1>1 DEF Deliver, Fails, Over
  <2> QED BY <2>1, <2>2, <2>3, RunNamed DEF NamedInv
<1>2. ASSUME NEW r \in Run, Wakes(r) \/ Exhausted(r) PROVE NamedInv'
  <2>1. /\ run[r].state # "none" /\ call' = call
        /\ \E st : st # "none" /\ run' = [run EXCEPT ![r].state = st]
    BY <1>2 DEF Wakes, Exhausted
  <2>2. CallsNamed'
    BY <2>1 DEF NamedInv, CallsNamed, At
  <2> QED BY <2>1, <2>2, RunNamed DEF NamedInv
<1>3. ASSUME NEW o \in Owner, Commanded(o) PROVE NamedInv'
  <2>1. ASSUME NEW m \in Reminders, NEW todo, NEW was, Request(o, m, todo, was)
        PROVE  CallsNamed'
    <3>1. [Idle EXCEPT !.pc = "go", !.of = m, !.todo = todo, !.was = was].of \in Reminders
      BY DEF Idle
    <3> QED BY <2>1, <3>1, CallNamed DEF Request, Caller
  <2>2. call' = call => CallsNamed'
    BY DEF NamedInv, CallsNamed, At
  <2>3. run' = run => RunsNamed'
    BY DEF NamedInv, RunsNamed
  <2>4. ASSUME NEW m \in Reminders,
               SetIt(o, m) \/ Cancel(o, m) \/ Pause(o, m) \/ Resume(o, m) \/ RunNow(o, m)
        PROVE  NamedInv'
    BY <2>1, <2>2, <2>3, <2>4 DEF SetIt, Cancel, Pause, Resume, RunNow, NamedInv
  <2>5. ASSUME NEW r \in Run, Approve(o, r) PROVE NamedInv'
    <3>t. PICK t : t = Triggered(run[r].of, TRUE)
      OBVIOUS
    <3>1. /\ NewRuns # {} /\ run[r].asks /\ call' = call
          /\ run' = [t EXCEPT ![r].asks = FALSE]
          /\ run[r].of \in Reminders \cup {"nothing"}
      BY <2>5, <3>t DEF Approve, TypeInv, Typed, WorkflowRun
    <3>2. t \in [Run -> WorkflowRun]
      BY <3>1, <3>t, TriggeredType
    <3>3. \A q \in Run : /\ run'[q].state = t[q].state /\ run'[q].of = t[q].of
                         /\ run'[q].asks => t[q].asks
      BY <3>1, <3>2 DEF WorkflowRun
    <3>4. run[r].of \in Reminders
      BY <3>1 DEF NamedInv, RunsNamed
    <3>5. \A q \in Run : /\ t[q].state # "none" => t[q].of \in Reminders
                         /\ t[q].asks => t[q].state # "none"
      BY <3>1, <3>4, <3>t, NewRunNamed
    <3>6. RunsNamed'
      BY <3>3, <3>5 DEF RunsNamed
    <3> QED BY <3>1, <3>6, <2>2 DEF NamedInv
  <2> QED BY <1>3, <2>4, <2>5 DEF Commanded
<1>4. CASE UNCHANGED vars
  BY <1>4 DEF vars, NamedInv, RunsNamed, CallsNamed, At
<1> QED BY <1>1, <1>2, <1>3, <1>4, CallerNamed DEF Next, Delivers, Caller

LEMMA NamedInit == Init => NamedInv
BY DEF Init, NamedInv, RunsNamed, CallsNamed, At, Idle, NoRun, Caller

\* A reminder that is still called scheduled, and has not reached its owner, has a run
\* to come, a request at work on it, or an attempt that died with its claim: for a user
\* with one reminder, and any number of servers, requests and faults, however they
\* interleave, as long as no step is delivered while a server is at it and what is
\* scheduled is not hurried.  With two reminders it does not hold: a write about one
\* restores an old status of the other (MC_ReminderStale.cfg).
THEOREM OneReminderStaysComing ==
  "redelivery" \notin Faults /\ "hurry" \notin Commands /\ (\A m, n \in Reminders : m = n)
    => (Spec => []ScheduledIsComing)
<1> SUFFICES ASSUME "redelivery" \notin Faults, "hurry" \notin Commands,
                    \A m, n \in Reminders : m = n
             PROVE  Spec => []ScheduledIsComing
  OBVIOUS
<1> DEFINE IInv == TypeInv /\ AttemptInv /\ NamedInv /\ ComingInv
<1>1. Init => IInv
  BY TypeInit, AttemptInit, NamedInit, ComingInit
<1>2. TypeInv /\ NamedInv => Undisturbed
  BY DEF NamedInv, CallsNamed, Undisturbed, At
<1>3. IInv /\ [Next]_vars => IInv'
  BY <1>2, TypeStep, AttemptStep, NamedStep, ComingStep
<1>4. IInv => ScheduledIsComing
  BY GoodComes
<1> HIDE DEF IInv
<1> QED BY <1>1, <1>3, <1>4, PTL DEF Spec
=============================================================================
