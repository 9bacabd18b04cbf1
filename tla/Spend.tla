--------------------------------- MODULE Spend ---------------------------------
(***************************************************************************)
(* The spend guards of the two paid API gateways, src/treg/spend.ts and    *)
(* src/monid/spend.ts, with the calls of src/treg/gateway.ts and           *)
(* src/monid/gateway.ts around them: one owner, one day, one mission.      *)
(*                                                                         *)
(*   guard    whose guard it is                                            *)
(*   ledger   the day's snapshot, read and written whole                   *)
(*   lock     who holds the ledger's lock, a lease of 15 seconds           *)
(*   proc     the calls in progress; any of them may die at any time       *)
(*   run      each paid call: what was reserved for it, what the provider  *)
(*            charged, and what Monid's receipt says                       *)
(*                                                                         *)
(* Amounts are whole units.  A provider charges what it likes, more than   *)
(* was reserved too.  An answer without a cost means that there was none,  *)
(* or, of a completed call, that the estimate is due.                      *)
(***************************************************************************)
EXTENDS Integers, FiniteSets, FiniteSetsExt

CONSTANTS
  Caller,       \* processes that make paid calls
  MaxCalls,     \* bound: how many calls are made
  Estimates,    \* what a call may be estimated at
  Charges,      \* what a provider may charge, or quote, for a call
  Budget,       \* the daily and the mission budget
  RateLimit,    \* calls per minute
  MaxMinutes,   \* bound: how many minutes pass
  MaxLapses     \* bound: how often a lock's lease ends before its holder is done

Scope == {"day", "mission"}
None == 0
Run == 1..MaxCalls
Minute == 1..MaxMinutes

ASSUME SpendAssumption ==
  /\ None \notin Caller
  /\ MaxCalls \in Nat \ {0} /\ MaxMinutes \in Nat \ {0} /\ MaxLapses \in Nat
  /\ Estimates \subseteq Nat /\ Charges \subseteq Nat /\ 0 \in Charges
  /\ Budget \in [Scope -> Nat] /\ RateLimit \in Nat \ {0}

VARIABLES guard, ledger, lock, proc, run, minute, made, lapses

vars == <<guard, ledger, lock, proc, run, minute, made, lapses>>

-----------------------------------------------------------------------------
Ledger ==
  [spent : [Scope -> Nat], reserved : [Scope -> Nat],
   window : Minute \cup {0}, calls : Nat,   \* rateWindowKey, rateWindowCalls
   open : SUBSET Run]                       \* Monid's reservations by id
EmptyLedger ==
  [spent |-> [s \in Scope |-> 0], reserved |-> [s \in Scope |-> 0],
   window |-> 0, calls |-> 0, open |-> {}]

\* A call: where it is; what it wants of the ledger; the snapshot it read and
\* in which minute; what it books; how Monid's receipt will stand.
Proc ==
  [pc : {"idle", "lock", "check", "read", "write", "release", "send"},
   todo : {"none", "reserve", "settle"}, id : Run \cup {None}, snap : Ledger,
   minute : Minute \cup {0}, cost : Nat, receipt : {"none", "saved", "known", "closed"}]
Idle == [pc |-> "idle", todo |-> "none", id |-> None, snap |-> EmptyLedger,
         minute |-> 0, cost |-> 0, receipt |-> "none"]

\* A receipt is saved before the call is sent; it is known once it has the
\* provider's run id, and closed once its reservation was taken out.  History:
\* the most that a settlement booked for the run.
PaidCall ==
  [est : Nat, scopes : SUBSET Scope,
   state : {"none", "new", "running", "final"}, charge : Nat, settled : Nat,
   receipt : {"none", "saved", "known", "closed"}]
NewCall == [est |-> 0, scopes |-> {}, state |-> "none", charge |-> 0, settled |-> 0,
            receipt |-> "none"]

TypeOK ==
  /\ guard \in {"treg", "monid"}
  /\ ledger \in Ledger
  /\ lock \in Caller \cup {None}
  /\ proc \in [Caller -> Proc]
  /\ run \in [Run -> PaidCall]
  /\ minute \in Minute
  /\ made \in [Minute -> Nat]
  /\ lapses \in 0..MaxLapses

Init ==
  /\ guard \in {"treg", "monid"}
  /\ ledger = EmptyLedger /\ lock = None
  /\ proc = [c \in Caller |-> Idle]
  /\ run = [i \in Run |-> NewCall]
  /\ minute = 1 /\ made = [w \in Minute |-> 0]
  /\ lapses = 0

-----------------------------------------------------------------------------
At(c, pc) == proc[c].pc = pc
Set(c, x) == proc' = [proc EXCEPT ![c] = x]
Go(c, pc) == Set(c, [proc[c] EXCEPT !.pc = pc])
AtLeast(m, n) == IF n > m THEN n ELSE m
Added(f, scopes, n) == [s \in Scope |-> IF s \in scopes THEN f[s] + n ELSE f[s]]
Taken(f, scopes, n) ==
  [s \in Scope |-> IF s \in scopes THEN (IF f[s] > n THEN f[s] - n ELSE 0) ELSE f[s]]

\* one call too many
RateFull_Bug(snap, w) == snap.window = w /\ snap.calls > RateLimit

RateFull(snap, w) == snap.window = w /\ snap.calls >= RateLimit
OverBudget(snap, r) ==
  \E s \in r.scopes : snap.spent[s] + snap.reserved[s] + r.est > Budget[s]
Refused(snap, w, r) == RateFull(snap, w) \/ OverBudget(snap, r)

\* Monid counts a minute from its start; Treg goes on counting.
Reserved(snap, w, i) ==
  [snap EXCEPT !.reserved = Added(@, run[i].scopes, run[i].est),
               !.window = w,
               !.calls = (IF guard = "treg" \/ snap.window = w THEN @ ELSE 0) + 1,
               !.open = IF guard = "monid" THEN @ \cup {i} ELSE @]

\* a reservation settled before is settled again
Settleable_Bug(snap, i) == TRUE

\* Monid leaves a reservation alone that was settled before.
Settleable(snap, i) == guard = "treg" \/ i \in snap.open

\* the estimate is taken out of what is spent, as if it had been booked there
Settled_Bug(snap, i, cost) ==
  [snap EXCEPT !.spent = Added(@, run[i].scopes, cost - run[i].est),
               !.open = @ \ {i}]

Settled(snap, i, cost) ==
  [snap EXCEPT !.reserved = Taken(@, run[i].scopes, run[i].est),
               !.spent = Added(@, run[i].scopes, cost),
               !.open = @ \ {i}]

-----------------------------------------------------------------------------
(* withLock, around reserve and settle.                                    *)

\* A call, with or without a mission; validate has accepted its estimate, which
\* is nothing for a tool of the owner's own at Treg.
Ask(c, est, scopes) ==
  LET new == {i \in Run : run[i].state = "none"}
      i == Min(new)
  IN
  /\ At(c, "idle") /\ new # {}
  /\ guard = "monid" => est > 0
  /\ run' = [run EXCEPT ![i].est = est, ![i].scopes = scopes, ![i].state = "new"]
  /\ Set(c, [Idle EXCEPT !.pc = "lock", !.todo = "reserve", !.id = i])
  /\ UNCHANGED <<guard, ledger, lock, minute, made, lapses>>

\* the lock is taken from whoever holds it
Acquire_Bug(c) ==
  /\ At(c, "lock")
  /\ lock' = c
  /\ Go(c, IF guard = "treg" /\ proc[c].todo = "reserve" THEN "check" ELSE "read")
  /\ UNCHANGED <<guard, ledger, run, minute, made, lapses>>

Acquire(c) ==
  /\ At(c, "lock") /\ lock = None
  /\ lock' = c
  /\ Go(c, IF guard = "treg" /\ proc[c].todo = "reserve" THEN "check" ELSE "read")
  /\ UNCHANGED <<guard, ledger, run, minute, made, lapses>>

\* Eight attempts found the ledger busy: nothing is reserved, or settled.
Busy(c) ==
  /\ At(c, "lock") /\ lock # None
  /\ Set(c, Idle)
  /\ UNCHANGED <<guard, ledger, lock, run, minute, made, lapses>>

\* assertCanSpend, which Treg's reserve calls before it reads the ledger again
TregCheck(c) ==
  LET x == proc[c] IN
  /\ At(c, "check")
  /\ IF Refused(ledger, minute, run[x.id])
       THEN Set(c, [x EXCEPT !.pc = "release", !.todo = "none"])
       ELSE Go(c, "read")
  /\ UNCHANGED <<guard, ledger, lock, run, minute, made, lapses>>

Read(c) ==
  LET x == proc[c] IN
  /\ At(c, "read")
  /\ IF \/ /\ x.todo = "reserve" /\ guard = "monid"
           /\ Refused(ledger, minute, run[x.id])
        \/ x.todo = "settle" /\ ~Settleable(ledger, x.id)
       THEN Set(c, [x EXCEPT !.pc = "release",
                             !.todo = IF x.todo = "reserve" THEN "none" ELSE @])
       ELSE Set(c, [x EXCEPT !.pc = "write", !.snap = ledger, !.minute = minute])
  /\ UNCHANGED <<guard, ledger, lock, run, minute, made, lapses>>

WriteReserve(c) ==
  LET x == proc[c] IN
  /\ At(c, "write") /\ x.todo = "reserve"
  /\ ledger' = Reserved(x.snap, x.minute, x.id)
  /\ made' = [made EXCEPT ![x.minute] = @ + 1]
  /\ Set(c, [x EXCEPT !.pc = "release", !.snap = EmptyLedger, !.minute = 0])
  /\ UNCHANGED <<guard, lock, run, minute, lapses>>

WriteSettle(c) ==
  LET x == proc[c] IN
  /\ At(c, "write") /\ x.todo = "settle"
  /\ ledger' = Settled(x.snap, x.id, x.cost)
  /\ run' = [run EXCEPT ![x.id].settled = AtLeast(@, x.cost)]
  /\ Set(c, [x EXCEPT !.pc = "release", !.snap = EmptyLedger, !.minute = 0])
  /\ UNCHANGED <<guard, lock, minute, made, lapses>>

\* The lock is released if it is still the caller's; the call goes on.  After a
\* settlement the receipt is saved.
Release(c) ==
  LET x == proc[c] IN
  /\ At(c, "release")
  /\ lock' = IF lock = c THEN None ELSE lock
  /\ run' = IF x.todo = "none" \/ guard = "treg" THEN run
            ELSE [run EXCEPT ![x.id].receipt = IF x.todo = "reserve" THEN "saved"
                                               ELSE x.receipt]
  /\ Set(c, IF x.todo = "reserve" THEN [x EXCEPT !.pc = "send"] ELSE Idle)
  /\ UNCHANGED <<guard, ledger, minute, made, lapses>>

-----------------------------------------------------------------------------
(* The provider's answer, and what is settled for it.                      *)

Settle(c, cost, receipt) ==
  Set(c, [proc[c] EXCEPT !.pc = "lock", !.todo = "settle", !.cost = cost,
                         !.receipt = receipt])
Ends(i, charge) == run' = [run EXCEPT ![i].state = "final", ![i].charge = charge]
Runs(i) == run' = [run EXCEPT ![i].state = "running"]

\* What is booked of a run whose cost is not reported.  Treg's estimate may be
\* below what was reserved, the highest cost of a route.
Unreported(i) == IF guard = "monid" THEN {run[i].est} ELSE 0..run[i].est

\* The cost that is reported is booked, or the estimate.
Answered(c) ==
  LET i == proc[c].id IN
  /\ At(c, "send")
  /\ \E charge \in Charges :
       /\ Ends(i, charge)
       /\ \E cost \in {charge} \cup Unreported(i) : Settle(c, cost, "known")
  /\ UNCHANGED <<guard, ledger, lock, minute, made, lapses>>

\* Monid runs it asynchronously: the receipt keeps the reservation.
MonidRuns(c) ==
  LET i == proc[c].id IN
  /\ At(c, "send") /\ guard = "monid"
  /\ run' = [run EXCEPT ![i].state = "running", ![i].receipt = "known"]
  /\ Set(c, Idle)
  /\ UNCHANGED <<guard, ledger, lock, minute, made, lapses>>

\* A definite refusal costs nothing.
MonidRejects(c) ==
  /\ At(c, "send") /\ guard = "monid"
  /\ Ends(proc[c].id, 0)
  /\ Settle(c, 0, "saved")
  /\ UNCHANGED <<guard, ledger, lock, minute, made, lapses>>

\* what Treg's gateway does
MonidIsSilent_Bug(c) ==
  /\ At(c, "send") /\ guard = "monid"
  /\ Runs(proc[c].id)
  /\ Settle(c, 0, "saved")
  /\ UNCHANGED <<guard, ledger, lock, minute, made, lapses>>

\* No answer: the run is uncertain, and keeps its reservation.
MonidIsSilent(c) ==
  /\ At(c, "send") /\ guard = "monid"
  /\ Runs(proc[c].id)
  /\ Set(c, Idle)
  /\ UNCHANGED <<guard, ledger, lock, minute, made, lapses>>

\* A routed job is pending: what was reserved is booked, or what the route has
\* reserved if that is more.
TregRuns(c) ==
  LET i == proc[c].id IN
  /\ At(c, "send") /\ guard = "treg"
  /\ Runs(i)
  /\ \E quote \in Charges : Settle(c, AtLeast(run[i].est, quote), "none")
  /\ UNCHANGED <<guard, ledger, lock, minute, made, lapses>>

\* Refused, failed or no answer: nothing is booked.
TregFails(c) ==
  /\ At(c, "send") /\ guard = "treg"
  /\ Runs(proc[c].id)
  /\ Settle(c, 0, "none")
  /\ UNCHANGED <<guard, ledger, lock, minute, made, lapses>>

\* What runs at the provider ends there, unless it never began (a charge of 0).
ProviderEnds(i) ==
  /\ run[i].state = "running"
  /\ \E charge \in Charges : Ends(i, charge)
  /\ UNCHANGED <<guard, ledger, lock, proc, minute, made, lapses>>

\* getRun: the receipt is read, the provider asked, and a run that ended is
\* settled, by as many as ask.
GetRun(c, i) ==
  /\ At(c, "idle") /\ guard = "monid"
  /\ run[i].receipt = "known" /\ run[i].state = "final"
  /\ \E cost \in {run[i].charge} \cup Unreported(i) :
       Set(c, [Idle EXCEPT !.pc = "lock", !.todo = "settle", !.id = i, !.cost = cost,
                           !.receipt = "closed"])
  /\ UNCHANGED <<guard, ledger, lock, run, minute, made, lapses>>

-----------------------------------------------------------------------------
\* A process dies; what it began stays.
Crash(c) ==
  /\ ~At(c, "idle")
  /\ Set(c, Idle)
  /\ UNCHANGED <<guard, ledger, lock, run, minute, made, lapses>>

Holds(c) == lock = c /\ proc[c].pc \in {"check", "read", "write", "release"}

\* The lock's lease ends: its holder is dead, or slower than the lease.
LockExpires ==
  /\ lock # None
  /\ IF Holds(lock) THEN lapses < MaxLapses /\ lapses' = lapses + 1
                    ELSE UNCHANGED lapses
  /\ lock' = None
  /\ UNCHANGED <<guard, ledger, proc, run, minute, made>>

MinutePasses ==
  /\ minute < MaxMinutes
  /\ minute' = minute + 1
  /\ UNCHANGED <<guard, ledger, lock, proc, run, made, lapses>>

-----------------------------------------------------------------------------
Next ==
  \/ \E c \in Caller :
       \/ \E est \in Estimates, scopes \in {{"day"}, Scope} : Ask(c, est, scopes)
       \/ Acquire(c) \/ Busy(c) \/ TregCheck(c) \/ Read(c)
       \/ WriteReserve(c) \/ WriteSettle(c) \/ Release(c)
       \/ Answered(c) \/ MonidRuns(c) \/ MonidRejects(c) \/ MonidIsSilent(c)
       \/ TregRuns(c) \/ TregFails(c)
       \/ \E i \in Run : GetRun(c, i)
       \/ Crash(c)
  \/ \E i \in Run : ProviderEnds(i)
  \/ LockExpires
  \/ MinutePasses

Spec == Init /\ [][Next]_vars

-----------------------------------------------------------------------------
(* Properties.                                                             *)

\* The sum of an amount over the runs, and a run's part in a scope's sum.
Total(amount) ==
  LET upTo[i \in 0..MaxCalls] == IF i = 0 THEN 0 ELSE upTo[i - 1] + amount[i]
  IN  upTo[MaxCalls]
Part(i, s, amount) == IF s \in run[i].scopes THEN amount ELSE 0

\* What was booked for a run beyond its reservation; the most that may be held or
\* booked for it; what of its charge was reserved.
Excess(i) == AtLeast(run[i].est, run[i].settled) - run[i].est
Most(i) == AtLeast(run[i].est, run[i].settled)
Foreseen(i) == IF run[i].charge < run[i].est THEN run[i].charge ELSE run[i].est

\* What is spent and reserved passes a budget by no more than what providers
\* charged beyond the reservations: no call is let in that does not fit, however
\* many are in flight and whoever dies (assertCanSpend, reserve, settle).
BudgetKept ==
  \A s \in Scope :
    ledger.spent[s] + ledger.reserved[s]
      <= Budget[s] + Total([i \in Run |-> Part(i, s, Excess(i))])

\* No minute sees more calls than the limit.
RateKept == \A w \in Minute : made[w] <= RateLimit

\* A run is booked once, though its caller and everyone who looks it up settle it
\* (the settlement returns false when the reservation was already settled): the
\* ledger holds no more than each run's reservation or its one cost.
NothingBookedTwice ==
  \A s \in Scope :
    ledger.spent[s] + ledger.reserved[s] <= Total([i \in Run |-> Part(i, s, Most(i))])

\* Monid's ledger covers what the provider charges up to the reservations, also for
\* runs whose answer was lost, whose caller died or whose settlement found the
\* ledger busy.
Covered(s) ==
  Total([i \in Run |-> Part(i, s, Foreseen(i))]) <= ledger.spent[s] + ledger.reserved[s]
ChargesAreCovered == guard = "monid" => \A s \in Scope : Covered(s)

\* A call is refused for its rate when the minute has seen as many calls as the
\* limit says (README.md: call-attempt limit per minute).
RateRefusalIsJustified ==
  \A c \in Caller :
    At(c, "check") /\ RateFull(ledger, minute) => made[minute] >= RateLimit

\* ... and so is Treg's (the retry of a failed call cannot bypass the budgets).
TregChargesAreCovered == \A s \in Scope : Covered(s)
=============================================================================
