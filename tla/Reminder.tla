-------------------------------- MODULE Reminder --------------------------------
(***************************************************************************)
(* The one-time reminders of one user: the requests of their owner         *)
(* (src/nativeTools.ts), the workflow runs QStash makes of them, and       *)
(* deliverReminder (src/workflows.ts), which each run executes as its one  *)
(* step.                                                                   *)
(*                                                                         *)
(*   list    the user's reminders, one value: updateReminder reads it and  *)
(*           later writes it whole                                         *)
(*   run     the workflow runs.  Each has an attempt id of its own, and    *)
(*           with it a delivery claim of its own                           *)
(*   call    what each server is doing: a delivery, or an owner's request  *)
(*   sent    history: how often each run reached the owner                 *)
(*                                                                         *)
(* A claim lasts a quarter of an hour and a run's retries are over within  *)
(* seconds, so a claim outlives its run and does not lapse here.  A        *)
(* definition whose name ends in _Bug is another form of the one below it, *)
(* with a plausible mistake.                                               *)
(***************************************************************************)
EXTENDS Integers, Sequences, FiniteSets

CONSTANTS
  Reminders,    \* the user's reminders
  Runner,       \* processes that execute steps
  Owner,        \* requests of the owner
  MaxRuns,      \* bound: how many workflow runs there are
  Commands,     \* what the owner may ask
  Results,      \* how the turn of a reminder may end
  Faults,       \* what may go wrong ...
  MaxFaults     \* bound: ... and how often

Run == 1..MaxRuns

ASSUME ReminderAssumption ==
  /\ Runner \cap Owner = {}
  /\ MaxRuns \in Nat /\ MaxFaults \in Nat
  /\ Commands \subseteq {"set", "cancel", "pause", "resume", "run now", "hurry", "approve"}
  /\ Results \subseteq {"send", "poll", "approval", "throw"}
  /\ Faults \subseteq {"crash", "redelivery", "exhausted", "refused", "rejected",
                       "lost answer"}

VARIABLES list, run, call, sent, faults

vars == <<list, run, call, sent, faults>>
Caller == Runner \cup Owner

-----------------------------------------------------------------------------
Status == {"none", "scheduled", "waiting", "paused", "sent", "failed", "cancelled"}

\* A run sleeps until its time; its step is due until it has a result, and then
\* over, unless QStash gives up on it.  asks: it ended in a request for approval;
\* approved: it is the run of an approval.
WorkflowRun ==
  [of : Reminders \cup {"nothing"}, state : {"none", "asleep", "due", "dead", "over"},
   approved : BOOLEAN, asks : BOOLEAN, claim : {"free", "held", "done"}]
NoRun == [of |-> "nothing", state |-> "none", approved |-> FALSE, asks |-> FALSE,
          claim |-> "free"]

\* What a call still has to do: writes of a status or, where a patch has none, of
\* what was there ("keep"), each an updateReminder, and what lies between them.
Write == Status \cup {"keep"}
Deed == Write \cup {"send", "trigger", "done", "throw"}
Call ==
  [pc : {"idle", "check", "claim", "turn", "go", "write"}, of : Reminders \cup {"nothing"},
   run : Run \cup {0}, made : Run \cup {0}, todo : Seq(Deed), was : Status,
   read : [Reminders -> Status]]
Idle == [pc |-> "idle", of |-> "nothing", run |-> 0, made |-> 0, todo |-> <<>>, was |-> "none",
         read |-> [m \in Reminders |-> "none"]]

Typed ==
  /\ list \in [Reminders -> Status]
  /\ run \in [Run -> WorkflowRun]
  /\ call \in [Caller -> Call]
  /\ sent \in [Run -> Nat]
  /\ faults \in 0..MaxFaults

\* Every variable has its type, and no delivery is claimed before its time: what one
\* attempt claims takes nothing from the attempts that are still to come.
TypeOK ==
  /\ Typed
  /\ \A r \in Run : run[r].state \in {"none", "asleep"} => run[r].claim = "free"

Init ==
  /\ list = [m \in Reminders |-> "none"]
  /\ run = [r \in Run |-> NoRun]
  /\ call = [c \in Caller |-> Idle]
  /\ sent = [r \in Run |-> 0]
  /\ faults = 0

At(c, pc) == call[c].pc = pc
Set(c, x) == call' = [call EXCEPT ![c] = x]
Goes(c, todo) == Set(c, [call[c] EXCEPT !.pc = "go", !.todo = todo])
Fault(kind) == kind \in Faults /\ faults < MaxFaults /\ faults' = faults + 1
Over(r) == run' = [run EXCEPT ![r].state = "over"]
NewRuns == {r \in Run : run[r].state = "none"}
NewRun == CHOOSE r \in NewRuns : TRUE
Triggered(m, approved) ==
  [run EXCEPT ![NewRun] = [NoRun EXCEPT !.of = m, !.state = "asleep",
                                        !.approved = approved]]

-----------------------------------------------------------------------------
(* updateReminder: the list is read, and written with one reminder changed. *)

Next1(c) == Head(call[c].todo)
Does(c, deed) == At(c, "go") /\ call[c].todo # <<>> /\ Next1(c) = deed
Did(c) == Goes(c, Tail(call[c].todo))

UpdateReads(c) ==
  /\ \E w \in Write : Does(c, w)
  /\ Set(c, [call[c] EXCEPT !.pc = "write", !.read = list])
  /\ UNCHANGED <<list, run, sent, faults>>

UpdateWrites(c) ==
  LET x == call[c] IN
  /\ At(c, "write")
  /\ list' = IF Next1(c) = "keep" THEN x.read ELSE [x.read EXCEPT ![x.of] = Next1(c)]
  /\ Set(c, [x EXCEPT !.pc = "go", !.todo = Tail(@), !.read = Idle.read])
  /\ UNCHANGED <<run, sent, faults>>

-----------------------------------------------------------------------------
(* deliverReminder.                                                        *)

Held(r) == \E c \in Runner : ~At(c, "idle") /\ call[c].run = r

\* A run sleeps for a second or more, and what triggered it is over by then.
Wakes(r) ==
  /\ run[r].state = "asleep"
  /\ \A c \in Caller : call[c].made # r
  /\ run' = [run EXCEPT ![r].state = "due"]
  /\ UNCHANGED <<list, call, sent, faults>>

\* The step is delivered, and again while a server is at it, if QStash hears
\* nothing of it.  The reminder is read first.
Eligible(r) ==
  \/ list[run[r].of] = "scheduled"
  \/ run[r].approved /\ list[run[r].of] = "waiting"
Deliver(w, r) ==
  /\ At(w, "idle") /\ run[r].state = "due"
  /\ IF Held(r) THEN Fault("redelivery") ELSE UNCHANGED faults
  /\ IF Eligible(r)
       THEN /\ Set(w, [Idle EXCEPT !.pc = "check", !.of = run[r].of, !.run = r])
            /\ UNCHANGED run
       ELSE Over(r) /\ UNCHANGED call
  /\ UNCHANGED <<list, sent>>

\* claimDelivery: a finished delivery is looked for, then the claim is set if
\* there is none.
Check(w) ==
  /\ At(w, "check")
  /\ IF run[call[w].run].claim = "done"
       THEN Set(w, Idle) /\ Over(call[w].run)
       ELSE Set(w, [call[w] EXCEPT !.pc = "claim"]) /\ UNCHANGED run
  /\ UNCHANGED <<list, sent, faults>>

\* the delivery is known by its reminder alone, without the attempt
ClaimKey_Bug(w) ==
  LET r == call[w].run IN
  /\ At(w, "claim")
  /\ IF run[r].claim # "held"
       THEN /\ run' = [q \in Run |-> IF run[q].of = run[r].of
                                      THEN [run[q] EXCEPT !.claim = "held"] ELSE run[q]]
            /\ Set(w, [call[w] EXCEPT !.pc = "turn"])
       ELSE Set(w, Idle) /\ Over(r)
  /\ UNCHANGED <<list, sent, faults>>

\* the claim is set whoever has it
Claim_Bug(w) ==
  /\ At(w, "claim")
  /\ run' = [run EXCEPT ![call[w].run].claim = "held"]
  /\ Set(w, [call[w] EXCEPT !.pc = "turn"])
  /\ UNCHANGED <<list, sent, faults>>

Claim(w) ==
  LET r == call[w].run IN
  /\ At(w, "claim")
  /\ IF run[r].claim # "held"
       THEN /\ run' = [run EXCEPT ![r].claim = "held"]
            /\ Set(w, [call[w] EXCEPT !.pc = "turn"])
       ELSE Set(w, Idle) /\ Over(r)
  /\ UNCHANGED <<list, sent, faults>>

\* a poll is remembered but not triggered
Plan_Bug ==
  [send |-> <<"keep", "send", "done", "sent">>,
   poll |-> <<"keep", "scheduled", "done">>,
   approval |-> <<"keep", "waiting", "done">>,
   throw |-> <<"keep", "failed", "throw">>]

\* What follows the turn.  Each begins by projecting the result for the web, which
\* notes the projection in the reminder.
Plan ==
  [send |-> <<"keep", "send", "done", "sent">>,
   poll |-> <<"keep", "trigger", "scheduled", "done">>,
   approval |-> <<"keep", "waiting", "done">>,
   throw |-> <<"keep", "failed", "throw">>]

\* A turn that needs an approval asks for it; a wait_until reminder polls, too.
Turn(w) ==
  /\ At(w, "turn")
  /\ \E result \in Results :
       /\ result = "poll" => NewRuns # {}
       /\ Goes(w, Plan[result])
       /\ run' = [run EXCEPT ![call[w].run].asks = result \in {"poll", "approval"}]
  /\ UNCHANGED <<list, sent, faults>>

\* The message is taken, or refused; or it is taken and the answer is lost, which is
\* an error like a refusal.
Send(w) ==
  /\ Does(w, "send")
  /\ \/ /\ sent' = [sent EXCEPT ![call[w].run] = @ + 1]
        /\ Did(w)
        /\ UNCHANGED faults
     \/ /\ Fault("refused")
        /\ Goes(w, Plan["throw"])
        /\ UNCHANGED sent
     \/ /\ Fault("lost answer")
        /\ sent' = [sent EXCEPT ![call[w].run] = @ + 1]
        /\ Goes(w, Plan["throw"])
  /\ UNCHANGED <<list, run>>

\* completeDelivery
Done(w) ==
  /\ Does(w, "done")
  /\ run' = [run EXCEPT ![call[w].run].claim = "done"]
  /\ Did(w)
  /\ UNCHANGED <<list, sent, faults>>

Ends(w) ==
  /\ w \in Runner /\ At(w, "go") /\ call[w].todo = <<>>
  /\ Over(call[w].run)
  /\ Set(w, Idle)
  /\ UNCHANGED <<list, sent, faults>>

\* The step failed; QStash will deliver it again.
Throws(w) ==
  /\ Does(w, "throw")
  /\ Set(w, Idle)
  /\ UNCHANGED <<list, run, sent, faults>>

Crash(w) ==
  /\ ~At(w, "idle") /\ Fault("crash")
  /\ Set(w, Idle)
  /\ UNCHANGED <<list, run, sent>>

\* Deliveries that never reach a server are given up, and the failure workflow
\* (processWorkflowFailureWork) fails the reminder.
Exhausted(r) ==
  /\ run[r].state = "due" /\ ~Held(r)
  /\ Fault("exhausted")
  /\ run' = [run EXCEPT ![r].state = "dead"]
  /\ UNCHANGED <<list, call, sent>>

Fails(w, r) ==
  /\ At(w, "idle") /\ run[r].state = "dead" /\ ~Held(r)
  /\ IF list[run[r].of] \notin {"paused", "cancelled"}
       THEN /\ Set(w, [Idle EXCEPT !.pc = "go", !.of = run[r].of, !.run = r,
                                   !.todo = <<"failed">>])
            /\ UNCHANGED run
       ELSE Over(r) /\ UNCHANGED call
  /\ UNCHANGED <<list, sent, faults>>

Delivers(w) ==
  \/ Check(w) \/ Claim(w) \/ Turn(w) \/ Send(w) \/ Done(w) \/ Ends(w) \/ Throws(w)
  \/ \E r \in Run : Deliver(w, r) \/ Fails(w, r)

-----------------------------------------------------------------------------
(* The trigger of a run, by a request or by a poll.  Refused, a request puts *)
(* the status back that it found, and a poll fails; a request whose answer is *)
(* lost does so although the run exists.                                   *)

Refused(c) ==
  IF c \in Owner THEN Goes(c, <<call[c].was>>) ELSE Goes(c, Plan["throw"])

Trigger(c) ==
  /\ Does(c, "trigger") /\ NewRuns # {}
  /\ \/ /\ run' = Triggered(call[c].of, FALSE)
        /\ Set(c, [call[c] EXCEPT !.todo = Tail(@), !.made = NewRun])
        /\ UNCHANGED faults
     \/ Fault("rejected") /\ Refused(c) /\ UNCHANGED run
     \/ Fault("lost answer") /\ Refused(c) /\ run' = Triggered(call[c].of, FALSE)
  /\ UNCHANGED <<list, sent>>

-----------------------------------------------------------------------------
(* The owner.                                                              *)

Asks(o, command) == At(o, "idle") /\ command \in Commands
Request(o, m, todo, was) ==
  Set(o, [Idle EXCEPT !.pc = "go", !.of = m, !.todo = todo, !.was = was])

\* setReminder; addReminder is a compare-and-set
SetIt(o, m) ==
  /\ Asks(o, "set") /\ list[m] = "none" /\ NewRuns # {}
  /\ list' = [list EXCEPT ![m] = "scheduled"]
  /\ Request(o, m, <<"trigger", "keep">>, "failed")
  /\ UNCHANGED <<run, sent, faults>>

\* transitionReminderStatus, a compare-and-set
Cancel(o, m) ==
  /\ Asks(o, "cancel") /\ list[m] \in {"scheduled", "waiting", "paused"}
  /\ list' = [list EXCEPT ![m] = "cancelled"]
  /\ UNCHANGED <<run, call, sent, faults>>

Pause(o, m) ==
  /\ Asks(o, "pause") /\ list[m] \in {"scheduled", "waiting"}
  /\ Request(o, m, <<"paused">>, "none")
  /\ UNCHANGED <<list, run, sent, faults>>

Resume(o, m) ==
  /\ Asks(o, "resume") /\ list[m] = "paused" /\ NewRuns # {}
  /\ Request(o, m, <<"scheduled", "trigger", "keep">>, "paused")
  /\ UNCHANGED <<list, run, sent, faults>>

\* runReminderNow; "hurry" is to run what is scheduled now
RunNow(o, m) ==
  /\ Asks(o, IF list[m] = "scheduled" THEN "hurry" ELSE "run now")
  /\ list[m] \in {"scheduled", "waiting", "paused"} /\ NewRuns # {}
  /\ Request(o, m, <<"scheduled", "trigger", "keep">>, list[m])
  /\ UNCHANGED <<list, run, sent, faults>>

\* the approval's run, one for each request
Approve(o, r) ==
  /\ Asks(o, "approve") /\ run[r].asks /\ NewRuns # {}
  /\ run' = [Triggered(run[r].of, TRUE) EXCEPT ![r].asks = FALSE]
  /\ UNCHANGED <<list, call, sent, faults>>

Answered(o) ==
  /\ o \in Owner /\ At(o, "go") /\ call[o].todo = <<>>
  /\ Set(o, Idle)
  /\ UNCHANGED <<list, run, sent, faults>>

Commanded(o) ==
  \/ \E m \in Reminders :
       SetIt(o, m) \/ Cancel(o, m) \/ Pause(o, m) \/ Resume(o, m) \/ RunNow(o, m)
  \/ \E r \in Run : Approve(o, r)

-----------------------------------------------------------------------------
Next ==
  \/ \E w \in Runner : Delivers(w) \/ Crash(w)
  \/ \E o \in Owner : Commanded(o) \/ Answered(o)
  \/ \E c \in Caller : UpdateReads(c) \/ UpdateWrites(c) \/ Trigger(c)
  \/ \E r \in Run : Wakes(r) \/ Exhausted(r)

Spec == Init /\ [][Next]_vars

-----------------------------------------------------------------------------
(* Properties.                                                             *)

\* An attempt reaches its owner once, although its step is delivered again whenever
\* a server dies before it has answered: the claim is marked done right after the
\* message was taken, and a claim that was not is never taken over.
SentOncePerAttempt == \A r \in Run : sent[r] <= 1

Busy(m) == \E c \in Caller : ~At(c, "idle") /\ call[c].of = m
Coming(m) == \E r \in Run : run[r].of = m /\ run[r].state \in {"asleep", "due", "dead"}
Reached(m) == \E r \in Run : run[r].of = m /\ sent[r] > 0
Died(m) == \E r \in Run : run[r].of = m /\ run[r].state = "over" /\ run[r].claim = "held"

\* A reminder that is still called scheduled, and has not reached its owner, has a
\* run to come, or an attempt of it died with the claim: no request, poll, refusal,
\* approval or failure leaves one behind that everybody believes is on its way.
ScheduledIsComing ==
  \A m \in Reminders :
    list[m] = "scheduled" => Coming(m) \/ Busy(m) \/ Reached(m) \/ Died(m)

-----------------------------------------------------------------------------
(* What the code does not keep; each has a configuration that shows it.    *)

\* The same without the exception.  An attempt that dies with its claim is lost:
\* the retry, seconds later, finds the delivery claimed and is skipped.
ScheduledHasRun ==
  \A m \in Reminders : list[m] = "scheduled" => Coming(m) \/ Busy(m) \/ Reached(m)

\* A pause is authoritative, also for a delivery in flight (README.md): only the
\* owner's own requests end it.
PauseStands ==
  [][\A m \in Reminders : list[m] = "paused" =>
       \/ list'[m] \in {"paused", "cancelled"}
       \/ \E o \in Owner : At(o, "write") /\ call[o].of = m]_vars

\* A reminder that was sent is not sent again by another of its runs.
SentOnce ==
  [][\A r \in Run : sent'[r] > sent[r] =>
       \A q \in Run : run[q].of = run[r].of => sent[q] = 0]_vars
=============================================================================
