----------------------------- MODULE SpendProofs -----------------------------
(***************************************************************************)
(* The spend guards for any number of callers, calls and minutes: their    *)
(* types and, as long as no lock's lease ends under its holder, the rate,  *)
(* the budgets and the books.                                              *)
(***************************************************************************)
EXTENDS Spend, TLAPS, WellFoundedInduction

-----------------------------------------------------------------------------
(* Types.                                                                  *)

LEMMA LeastRun ==
  ASSUME NEW S \in SUBSET Run, S # {}
  PROVE  Min(S) \in S
<1>1. S \subseteq Nat
  BY SpendAssumption DEF Run
<1>2. PICK i \in S : \A j \in S : ~ (<<j, i>> \in OpToRel(<, Nat))
  BY <1>1, WFMin, NatLessThanWellFounded, Zenon
<1>3. \A j \in S : ~ (j < i)
  BY <1>1, <1>2, Zenon DEF OpToRel
<1>4. \A j \in S : i <= j
  BY <1>1, <1>3
<1> QED BY <1>4 DEF Min

\* A call in progress is about a run, and writes for the minute it read in.
Placed(x) == (x.pc # "idle" => x.id \in Run) /\ (x.pc = "write" => x.minute \in Minute)
Types == TypeOK /\ \A c \in Caller : Placed(proc[c])

LEMMA AmountsStayNatural ==
  ASSUME NEW f \in [Scope -> Nat], NEW scopes \in SUBSET Scope, NEW n \in Nat
  PROVE  /\ Added(f, scopes, n) \in [Scope -> Nat]
         /\ Taken(f, scopes, n) \in [Scope -> Nat]
BY DEF Added, Taken

LEMMA LedgersStayLedgers ==
  ASSUME TypeOK, NEW snap \in Ledger, NEW w \in Minute, NEW i \in Run,
         NEW cost \in Nat
  PROVE  /\ Reserved(snap, w, i) \in Ledger
         /\ Settled(snap, i, cost) \in Ledger
<1>1. run[i].scopes \in SUBSET Scope /\ run[i].est \in Nat
  BY DEF TypeOK, PaidCall
<1>2. /\ Added(snap.reserved, run[i].scopes, run[i].est) \in [Scope -> Nat]
      /\ Taken(snap.reserved, run[i].scopes, run[i].est) \in [Scope -> Nat]
      /\ Added(snap.spent, run[i].scopes, cost) \in [Scope -> Nat]
  BY <1>1, AmountsStayNatural DEF Ledger
<1>3. Reserved(snap, w, i) \in Ledger
  <2> DEFINE calls == (IF guard = "treg" \/ snap.window = w THEN snap.calls ELSE 0) + 1
             open == IF guard = "monid" THEN snap.open \cup {i} ELSE snap.open
             reserved == Added(snap.reserved, run[i].scopes, run[i].est)
  <2>1. calls \in Nat /\ open \in SUBSET Run
    BY DEF Ledger
  <2>2. Reserved(snap, w, i) =
          [snap EXCEPT !.reserved = reserved, !.window = w, !.calls = calls,
                       !.open = open]
    BY DEF Reserved
  <2>3. reserved \in [Scope -> Nat]
    BY <1>2
  <2> HIDE DEF calls, open, reserved
  <2> QED BY <2>1, <2>2, <2>3 DEF Ledger
<1>4. Settled(snap, i, cost) \in Ledger
  BY <1>2 DEF Settled, Ledger
<1> QED BY <1>3, <1>4

LEMMA EmptyLedgerIsLedger == EmptyLedger \in Ledger
BY DEF EmptyLedger, Ledger

LEMMA IdleIsProc == Idle \in Proc
BY EmptyLedgerIsLedger DEF Idle, Proc

LEMMA NewCallIsPaidCall == NewCall \in PaidCall
BY DEF NewCall, PaidCall

LEMMA TypeInit == Init => Types
BY SpendAssumption, EmptyLedgerIsLedger, IdleIsProc, NewCallIsPaidCall
   DEF Init, TypeOK, Minute, Types, Placed, Idle

LEMMA AskTyped ==
  ASSUME Types, NEW c \in Caller, NEW est \in Estimates,
         NEW scopes \in SUBSET Scope, Ask(c, est, scopes)
  PROVE  Types'
<1> USE DEF Types
<1> DEFINE new == {i \in Run : run[i].state = "none"}
           i == Min(new)
<1>1. i \in Run
  BY LeastRun DEF Ask
<1>2. run' \in [Run -> PaidCall]
  <2>1. run' = [run EXCEPT ![i] = [run[i] EXCEPT !.est = est, !.scopes = scopes,
                                                 !.state = "new"]]
    BY DEF Ask
  <2>2. [run[i] EXCEPT !.est = est, !.scopes = scopes, !.state = "new"] \in PaidCall
    BY <1>1, SpendAssumption DEF TypeOK, PaidCall
  <2> QED BY <1>1, <2>1, <2>2 DEF TypeOK
<1>3. proc' \in [Caller -> Proc]
  <2>1. proc' = [proc EXCEPT ![c] = [Idle EXCEPT !.pc = "lock", !.todo = "reserve", !.id = i]]
    BY DEF Ask, Set
  <2> HIDE DEF i
  <2>2. [Idle EXCEPT !.pc = "lock", !.todo = "reserve", !.id = i] \in Proc
    BY <1>1, IdleIsProc DEF Proc
  <2> QED BY <2>1, <2>2 DEF TypeOK
<1>4. \A d \in Caller : Placed(proc'[d])
  <2> HIDE DEF i
  <2>1. proc' = [proc EXCEPT ![c] = [Idle EXCEPT !.pc = "lock", !.todo = "reserve", !.id = i]]
    BY DEF Ask, Set, i
  <2> QED BY <1>1, <2>1 DEF TypeOK, Placed, Idle
<1> QED BY <1>2, <1>3, <1>4 DEF Ask, TypeOK

\* What a caller does besides asking and writing changes only its own call and
\* the lock.
LEMMA MoveTyped ==
  ASSUME Types, NEW c \in Caller,
         Acquire(c) \/ Busy(c) \/ TregCheck(c) \/ Read(c) \/ Crash(c)
  PROVE  Types'
<1> DEFINE x == proc[c]
<1>1. x \in Proc /\ ledger \in Ledger /\ minute \in Minute
  BY DEF TypeOK, Types
<1>2. \E y \in Proc : Placed(y) /\ proc' = [proc EXCEPT ![c] = y]
  <2>1. \A pc \in {"check", "read"} :
          x.id \in Run => [x EXCEPT !.pc = pc] \in Proc /\ Placed([x EXCEPT !.pc = pc])
    BY <1>1 DEF Proc, Placed
  <2>2. \A todo \in {"none", x.todo} :
          LET y == [x EXCEPT !.pc = "release", !.todo = todo]
          IN x.id \in Run => y \in Proc /\ Placed(y)
    BY <1>1 DEF Proc, Placed
  <2>3. LET y == [x EXCEPT !.pc = "write", !.snap = ledger, !.minute = minute]
        IN x.id \in Run => y \in Proc /\ Placed(y)
    BY <1>1 DEF Proc, Placed
  <2>4. Idle \in Proc /\ Placed(Idle)
    BY IdleIsProc DEF Idle, Placed
  <2>5. x.pc # "idle" => x.id \in Run
    BY DEF Types, Placed
  <2>6. CASE Acquire(c)
    BY <2>1, <2>5, <2>6 DEF Acquire, Go, Set, At
  <2>7. CASE Busy(c) \/ Crash(c)
    BY <2>4, <2>7 DEF Busy, Crash, Set
  <2>8. CASE TregCheck(c)
    BY <2>1, <2>2, <2>5, <2>8 DEF TregCheck, Go, Set, At
  <2>9. CASE Read(c)
    BY <2>2, <2>3, <2>5, <2>9 DEF Read, Set, At
  <2> QED BY <2>6, <2>7, <2>8, <2>9
<1>3. lock' \in Caller \cup {None} /\ UNCHANGED <<guard, ledger, run, minute, made, lapses>>
  BY DEF Types, TypeOK, Acquire, Busy, TregCheck, Read, Crash
<1> QED BY <1>2, <1>3 DEF Types, TypeOK

\* A write puts back a ledger.
LEMMA WriteTyped ==
  ASSUME Types, NEW c \in Caller, WriteReserve(c) \/ WriteSettle(c)
  PROVE  Types'
<1> DEFINE x == proc[c]
           y == [x EXCEPT !.pc = "release", !.snap = EmptyLedger, !.minute = 0]
<1>1. /\ x \in Proc /\ x.snap \in Ledger /\ x.cost \in Nat
      /\ x.id \in Run /\ x.minute \in Minute
  BY DEF Types, TypeOK, Placed, Proc, WriteReserve, WriteSettle, At
<1>2. y \in Proc /\ Placed(y)
  BY <1>1, EmptyLedgerIsLedger DEF Proc, Placed
<1>3. proc' = [proc EXCEPT ![c] = y]
  BY DEF WriteReserve, WriteSettle, Set
<1>4. ledger' \in Ledger
  BY <1>1, LedgersStayLedgers DEF WriteReserve, WriteSettle, Types
<1>5. made' \in [Minute -> Nat]
  BY <1>1 DEF WriteReserve, WriteSettle, Types, TypeOK
<1>6. run' \in [Run -> PaidCall]
  <2>1. run[x.id] \in PaidCall /\ run[x.id].settled \in Nat
    BY <1>1 DEF Types, TypeOK, PaidCall
  <2>2. AtLeast(run[x.id].settled, x.cost) \in Nat
    BY <1>1, <2>1 DEF AtLeast
  <2>3. [run[x.id] EXCEPT !.settled = AtLeast(run[x.id].settled, x.cost)] \in PaidCall
    BY <2>1, <2>2 DEF PaidCall
  <2>4. \/ run' = run
        \/ run' = [run EXCEPT ![x.id] =
                     [run[x.id] EXCEPT !.settled = AtLeast(run[x.id].settled, x.cost)]]
    BY DEF WriteReserve, WriteSettle
  <2> QED BY <1>1, <2>3, <2>4 DEF Types, TypeOK
<1> HIDE DEF y
<1> QED BY <1>2, <1>3, <1>4, <1>5, <1>6 DEF WriteReserve, WriteSettle, Types, TypeOK

\* Answers, and the receipts they leave.
LEMMA CallTyped ==
  ASSUME Types, NEW c \in Caller,
         \/ Release(c) \/ Answered(c) \/ MonidRuns(c) \/ MonidRejects(c)
         \/ MonidIsSilent(c) \/ TregRuns(c) \/ TregFails(c)
  PROVE  Types'
<1> DEFINE x == proc[c]
           i == x.id
<1>1. x \in Proc /\ i \in Run
  BY DEF Types, TypeOK, Placed, Release, Answered, MonidRuns, MonidRejects,
         MonidIsSilent, TregRuns, TregFails, At
<1>2. run[i] \in PaidCall /\ run[i].est \in Nat
  BY <1>1 DEF Types, TypeOK, PaidCall
<1>3. \E q \in PaidCall : run' = run \/ run' = [run EXCEPT ![i] = q]
  <2>1. \A state \in {"running", "final"}, charge \in Nat :
          [run[i] EXCEPT !.state = state, !.charge = charge] \in PaidCall
    BY <1>2 DEF PaidCall
  <2>2. \A receipt \in {"none", "saved", "known", "closed"} :
          [run[i] EXCEPT !.receipt = receipt] \in PaidCall
    BY <1>2 DEF PaidCall
  <2>3. /\ [run[i] EXCEPT !.state = "running"] \in PaidCall
        /\ [run[i] EXCEPT !.state = "running", !.receipt = "known"] \in PaidCall
    BY <1>2 DEF PaidCall
  <2>4. x.receipt \in {"none", "saved", "known", "closed"}
    BY <1>1 DEF Proc
  <2>5. CASE Release(c)
    BY <1>2, <2>2, <2>4, <2>5 DEF Release
  <2>6. CASE Answered(c) \/ MonidRejects(c)
    <3>1. PICK charge \in Nat : Ends(i, charge)
      BY <1>2, <2>6, SpendAssumption DEF Answered, MonidRejects
    <3>2. run' = [run EXCEPT ![i] = [run[i] EXCEPT !.state = "final", !.charge = charge]]
      BY <3>1 DEF Ends
    <3> QED BY <2>1, <3>2
  <2>7. CASE MonidRuns(c) \/ MonidIsSilent(c) \/ TregRuns(c) \/ TregFails(c)
    BY <2>3, <2>7 DEF MonidRuns, MonidIsSilent, TregRuns, TregFails, Runs
  <2> QED BY <2>5, <2>6, <2>7
<1>4. \E y \in Proc : Placed(y) /\ proc' = [proc EXCEPT ![c] = y]
  <2>1. \A cost \in Nat, receipt \in {"none", "saved", "known", "closed"} :
          LET y == [x EXCEPT !.pc = "lock", !.todo = "settle", !.cost = cost,
                             !.receipt = receipt]
          IN y \in Proc /\ Placed(y)
    BY <1>1 DEF Proc, Placed
  <2>2. [x EXCEPT !.pc = "send"] \in Proc /\ Placed([x EXCEPT !.pc = "send"])
    BY <1>1 DEF Proc, Placed
  <2>3. Idle \in Proc /\ Placed(Idle)
    BY IdleIsProc DEF Idle, Placed
  <2>4. CASE Release(c)
    BY <2>2, <2>3, <2>4 DEF Release, Set
  <2>5. CASE Answered(c)
    <3>1. \A charge \in Charges : {charge} \cup Unreported(i) \subseteq Nat
      <4>1. run[i].est \in Nat
        BY <1>2 DEF PaidCall
      <4>2. {run[i].est} \subseteq Nat /\ 0..run[i].est \subseteq Nat
        BY <4>1
      <4>3. Unreported(i) \subseteq Nat
        BY <4>2 DEF Unreported
      <4> QED BY <4>3, SpendAssumption
    <3>2. PICK cost \in Nat : Settle(c, cost, "known")
      BY <2>5, <3>1 DEF Answered
    <3> QED BY <2>1, <3>2 DEF Settle, Set
  <2>6. CASE MonidRejects(c) \/ TregRuns(c) \/ TregFails(c)
    <3>1. \A quote \in Charges : AtLeast(run[i].est, quote) \in Nat
      BY <1>2, SpendAssumption DEF AtLeast
    <3>2. PICK cost \in Nat, receipt \in {"none", "saved"} : Settle(c, cost, receipt)
      BY <2>6, <3>1 DEF MonidRejects, TregRuns, TregFails
    <3> QED BY <2>1, <3>2 DEF Settle, Set
  <2>7. CASE MonidRuns(c) \/ MonidIsSilent(c)
    BY <2>3, <2>7 DEF MonidRuns, MonidIsSilent, Set
  <2> QED BY <2>4, <2>5, <2>6, <2>7
<1>5. /\ lock' \in Caller \cup {None}
      /\ UNCHANGED <<guard, ledger, minute, made, lapses>>
  BY DEF Types, TypeOK, Release, Answered, MonidRuns, MonidRejects,
         MonidIsSilent, TregRuns, TregFails
<1> QED BY <1>1, <1>3, <1>4, <1>5 DEF Types, TypeOK

LEMMA GetRunTyped ==
  ASSUME Types, NEW c \in Caller, NEW i \in Run, GetRun(c, i)
  PROVE  Types'
<1>1. {run[i].charge} \cup Unreported(i) \subseteq Nat
  <2>1. run[i].charge \in Nat /\ run[i].est \in Nat
    BY DEF Types, TypeOK, PaidCall
  <2>2. {run[i].est} \subseteq Nat /\ 0..run[i].est \subseteq Nat
    BY <2>1
  <2> QED BY <2>1, <2>2 DEF Unreported
<1>2. PICK cost \in Nat :
        proc' = [proc EXCEPT ![c] = [Idle EXCEPT !.pc = "lock", !.todo = "settle",
                                       !.id = i, !.cost = cost, !.receipt = "closed"]]
  BY <1>1 DEF GetRun, Set
<1>3. LET y == [Idle EXCEPT !.pc = "lock", !.todo = "settle", !.id = i, !.cost = cost,
                            !.receipt = "closed"]
      IN y \in Proc /\ Placed(y)
  BY IdleIsProc DEF Proc, Placed
<1> QED BY <1>2, <1>3 DEF GetRun, Types, TypeOK

LEMMA ElsewhereTyped ==
  ASSUME Types,
         \/ \E i \in Run : ProviderEnds(i)
         \/ LockExpires \/ MinutePasses \/ UNCHANGED vars
  PROVE  Types'
<1>1. CASE \E i \in Run : ProviderEnds(i)
  <2>1. PICK i \in Run : ProviderEnds(i)
    BY <1>1
  <2>3. run[i] \in PaidCall
    BY DEF Types, TypeOK
  <2>5. PICK charge \in Nat : Ends(i, charge)
    BY <2>1, SpendAssumption DEF ProviderEnds
  <2>6. [run[i] EXCEPT !.state = "final", !.charge = charge] \in PaidCall
    BY <2>3 DEF PaidCall
  <2>7. run' = [run EXCEPT ![i] = [run[i] EXCEPT !.state = "final", !.charge = charge]]
    BY <2>5 DEF Ends
  <2> QED BY <2>1, <2>6, <2>7 DEF ProviderEnds, Types, TypeOK
<1>2. CASE LockExpires
  <2>1. lapses' \in 0..MaxLapses
    BY <1>2, SpendAssumption DEF LockExpires, Types, TypeOK
  <2> QED BY <1>2, <2>1 DEF LockExpires, Types, TypeOK
<1>3. CASE MinutePasses
  <2>1. minute' \in Minute
    BY <1>3, SpendAssumption DEF MinutePasses, Types, TypeOK, Minute
  <2> QED BY <1>3, <2>1 DEF MinutePasses, Types, TypeOK
<1>4. CASE UNCHANGED vars
  BY <1>4 DEF vars, Types, TypeOK
<1> QED BY <1>1, <1>2, <1>3, <1>4

LEMMA TypeStep == Types /\ [Next]_vars => Types'
<1> SUFFICES ASSUME Types, [Next]_vars PROVE Types'
  OBVIOUS
<1>1. ASSUME NEW c \in Caller, NEW est \in Estimates,
             NEW scopes \in {{"day"}, Scope}, Ask(c, est, scopes)
      PROVE  Types'
  <2>1. scopes \in SUBSET Scope
    BY DEF Scope
  <2> QED BY <1>1, <2>1, AskTyped
<1>2. ASSUME NEW c \in Caller,
             \/ Acquire(c) \/ Busy(c) \/ TregCheck(c) \/ Read(c) \/ Crash(c)
      PROVE  Types'
  BY <1>2, MoveTyped
<1>3. ASSUME NEW c \in Caller, WriteReserve(c) \/ WriteSettle(c)
      PROVE  Types'
  BY <1>3, WriteTyped
<1>4. ASSUME NEW c \in Caller,
             \/ Release(c) \/ Answered(c) \/ MonidRuns(c) \/ MonidRejects(c)
             \/ MonidIsSilent(c) \/ TregRuns(c) \/ TregFails(c)
      PROVE  Types'
  BY <1>4, CallTyped
<1>5. ASSUME NEW c \in Caller, NEW i \in Run, GetRun(c, i)
      PROVE  Types'
  BY <1>5, GetRunTyped
<1>6. ASSUME \/ \E i \in Run : ProviderEnds(i)
             \/ LockExpires \/ MinutePasses \/ UNCHANGED vars
      PROVE  Types'
  BY <1>6, ElsewhereTyped
<1> QED BY <1>1, <1>2, <1>3, <1>4, <1>5, <1>6, Zenon DEF Next

LEMMA TypesInvariant == Spec => []Types
<1> QED BY TypeInit, TypeStep, PTL DEF Spec

\* Every reachable state has the declared types, for any number of callers, calls
\* and minutes and any budgets: amounts and counts never fall below zero.
THEOREM TypeCorrect == Spec => []TypeOK
<1>1. Types => TypeOK
  BY DEF Types
<1> QED BY <1>1, TypesInvariant, PTL

-----------------------------------------------------------------------------
(* The rate.  What makes it hold is that the check, the read and the write *)
(* of a reservation happen under one holding of the lock, so that the      *)
(* snapshot written is the ledger as it stands, and that the minute may    *)
(* pass between them but only forwards.                                    *)

InLock == {"check", "read", "write", "release"}
Locked == \A c \in Caller : proc[c].pc \in InLock => lock = c

\* What a caller inside the lock knows of the ledger.
Knows(x) ==
  /\ x.pc = "write" =>
       /\ x.snap = ledger
       /\ ledger.window <= x.minute /\ x.minute <= minute
       /\ x.todo = "reserve" => ~RateFull(ledger, x.minute)
  /\ x.pc = "read" /\ x.todo = "reserve" /\ guard = "treg" =>
       ~RateFull(ledger, minute)

\* The ledger counts the calls of its window, and no later minute has any.
CountsMade ==
  /\ ledger.window <= minute
  /\ \A w \in Minute :
       /\ w > ledger.window => made[w] = 0
       /\ w = ledger.window => made[w] <= ledger.calls

RateInv ==
  Types /\ Locked /\ (\A c \in Caller : Knows(proc[c])) /\ CountsMade /\ RateKept

\* A caller outside the lock moves, or enters it, or leaves it.
LEMMA OutsideKeepsRate ==
  ASSUME RateInv, Types', NEW c \in Caller, NEW x,
         proc' = [proc EXCEPT ![c] = x], x.pc \notin {"check", "read", "write", "release"},
         lock' \in {lock, None}, lock' # lock => lock = c,
         UNCHANGED <<guard, ledger, minute, made>>
  PROVE  RateInv'
<1>1. \A d \in Caller : d # c => proc'[d] = proc[d]
  BY DEF RateInv, Types, TypeOK
<1>2. proc'[c] = x
  BY DEF RateInv, Types, TypeOK
<1>3. Locked'
  BY <1>1, <1>2 DEF RateInv, Locked, InLock
<1>4. \A d \in Caller : Knows(proc[d])'
  BY <1>1, <1>2 DEF RateInv, Knows, RateFull
<1>5. CountsMade' /\ RateKept'
  BY DEF RateInv, CountsMade, RateKept
<1> QED BY <1>3, <1>4, <1>5 DEF RateInv

\* A caller moves inside the lock without writing.
LEMMA InsideKeepsRate ==
  ASSUME RateInv, Types', NEW c \in Caller, NEW x,
         proc' = [proc EXCEPT ![c] = x], x.pc \in InLock, Knows(x),
         lock' = c, lock \in {c, None},
         UNCHANGED <<guard, ledger, minute, made>>
  PROVE  RateInv'
<1>1. \A d \in Caller : d # c => proc'[d] = proc[d]
  BY DEF RateInv, Types, TypeOK
<1>2. proc'[c] = x
  BY DEF RateInv, Types, TypeOK
<1>3. Locked'
  BY <1>1, <1>2, SpendAssumption DEF RateInv, Locked
<1>4. \A d \in Caller : Knows(proc[d])'
  BY <1>1, <1>2 DEF RateInv, Knows, RateFull
<1>5. CountsMade' /\ RateKept'
  BY DEF RateInv, CountsMade, RateKept
<1> QED BY <1>3, <1>4, <1>5 DEF RateInv

\* A reservation is written: its call is the first of its minute, or not one
\* too many.
LEMMA ReservingKeepsRate ==
  ASSUME RateInv, Types', NEW c \in Caller, WriteReserve(c)
  PROVE  RateInv'
<1> DEFINE x == proc[c]
           y == [x EXCEPT !.pc = "release", !.snap = EmptyLedger, !.minute = 0]
<1>1. /\ x.pc = "write" /\ x.todo = "reserve" /\ x.minute \in Minute
      /\ x.snap = ledger /\ lock = c
  BY DEF WriteReserve, At, RateInv, Types, Placed, Locked, InLock, Knows
<1>2. /\ ledger.window <= x.minute /\ x.minute <= minute
      /\ ~RateFull(ledger, x.minute)
  BY <1>1 DEF RateInv, Knows
<1>3. /\ ledger \in Ledger /\ ledger.calls \in Nat /\ ledger.window \in Nat
      /\ minute \in Nat /\ \A w \in Minute : w \in Nat /\ w # 0 /\ made[w] \in Nat
  BY SpendAssumption DEF RateInv, Types, TypeOK, Ledger, Minute
<1>4. /\ ledger'.window = x.minute
      /\ ledger'.calls = (IF guard = "treg" \/ ledger.window = x.minute
                            THEN ledger.calls ELSE 0) + 1
  BY <1>1, <1>3 DEF WriteReserve, Reserved, Ledger
<1>5. made' = [made EXCEPT ![x.minute] = made[x.minute] + 1]
  BY DEF WriteReserve
<1>6. \A w \in Minute : w # x.minute => made'[w] = made[w]
  BY <1>5 DEF RateInv, Types, TypeOK
<1>7. made'[x.minute] = made[x.minute] + 1
  BY <1>1, <1>5 DEF RateInv, Types, TypeOK
<1>8. /\ made'[x.minute] <= RateLimit
      /\ made'[x.minute] <= ledger'.calls
  <2>1. CASE ledger.window = x.minute
    <3>1. made[x.minute] <= ledger.calls /\ ~(ledger.calls >= RateLimit)
      BY <1>1, <1>2, <2>1 DEF RateInv, CountsMade, RateFull
    <3> QED BY <1>1, <1>3, <1>4, <1>7, <2>1, <3>1, SpendAssumption
  <2>2. CASE ledger.window # x.minute
    <3>1. made[x.minute] = 0
      BY <1>1, <1>2, <1>3, <2>2 DEF RateInv, CountsMade
    <3> QED BY <1>1, <1>3, <1>4, <1>7, <3>1, SpendAssumption
  <2> QED BY <2>1, <2>2
<1>9. RateKept'
  BY <1>6, <1>8 DEF RateKept, RateInv
<1>10. CountsMade'
  <2>1. minute' = minute
    BY DEF WriteReserve
  <2>2. \A w \in Minute : w > x.minute => made'[w] = 0
    BY <1>1, <1>2, <1>3, <1>6 DEF RateInv, CountsMade
  <2> QED BY <1>2, <1>4, <1>8, <2>1, <2>2 DEF CountsMade
<1>11. /\ \A d \in Caller : d # c => proc'[d] = proc[d]
       /\ proc'[c].pc = "release"
  BY <1>1 DEF WriteReserve, Set, RateInv, Types, TypeOK, Proc
<1>12. \A d \in Caller : d # c => proc[d].pc \notin InLock
  BY <1>1 DEF RateInv, Locked
<1>13. Locked'
  BY <1>1, <1>11, <1>12 DEF Locked, WriteReserve
<1>14. \A d \in Caller : Knows(proc[d])'
  BY <1>11, <1>12 DEF Knows, InLock
<1> QED BY <1>9, <1>10, <1>13, <1>14 DEF RateInv

\* A settlement leaves the window and its count as they are.
LEMMA SettlingKeepsRate ==
  ASSUME RateInv, Types', NEW c \in Caller, WriteSettle(c)
  PROVE  RateInv'
<1> DEFINE x == proc[c]
<1>1. x.pc = "write" /\ x.snap = ledger /\ lock = c /\ ledger \in Ledger
  BY DEF WriteSettle, At, RateInv, Types, TypeOK, Locked, InLock, Knows
<1>2. ledger'.window = ledger.window /\ ledger'.calls = ledger.calls
  BY <1>1 DEF WriteSettle, Settled, Ledger
<1>3. /\ \A d \in Caller : d # c => proc'[d] = proc[d]
      /\ proc'[c].pc = "release"
  BY <1>1 DEF WriteSettle, Set, RateInv, Types, TypeOK, Proc
<1>4. \A d \in Caller : d # c => proc[d].pc \notin InLock
  BY <1>1 DEF RateInv, Locked
<1>5. Locked'
  BY <1>1, <1>3, <1>4 DEF Locked, WriteSettle
<1>6. \A d \in Caller : Knows(proc[d])'
  BY <1>3, <1>4 DEF Knows, InLock
<1>7. CountsMade' /\ RateKept'
  BY <1>2 DEF RateInv, CountsMade, RateKept, WriteSettle
<1> QED BY <1>5, <1>6, <1>7 DEF RateInv

LEMMA EnteringKeepsRate ==
  ASSUME RateInv, Types', NEW c \in Caller, Acquire(c) \/ TregCheck(c) \/ Read(c)
  PROVE  RateInv'
<1> DEFINE x == proc[c]
<1>0. x \in Proc /\ ledger \in Ledger /\ ledger.window <= minute /\ minute \in Nat
  BY SpendAssumption DEF RateInv, Types, TypeOK, CountsMade, Minute
<1>1. CASE Acquire(c)
  <2>1. PICK pc \in {"check", "read"} :
          /\ proc' = [proc EXCEPT ![c] = [x EXCEPT !.pc = pc]]
          /\ pc = "read" => ~(guard = "treg" /\ x.todo = "reserve")
    BY <1>1 DEF Acquire, Go, Set
  <2>2. Knows([x EXCEPT !.pc = pc]) /\ [x EXCEPT !.pc = pc].pc \in InLock
    BY <1>0, <2>1 DEF Knows, InLock, Proc
  <2> QED BY <1>1, <2>1, <2>2, InsideKeepsRate DEF Acquire
<1>2. CASE TregCheck(c)
  <2>1. lock = c
    BY <1>2 DEF TregCheck, At, RateInv, Locked, InLock
  <2>2. PICK y :
          /\ proc' = [proc EXCEPT ![c] = y]
          /\ \/ y = [x EXCEPT !.pc = "release", !.todo = "none"]
             \/ y = [x EXCEPT !.pc = "read"] /\ ~RateFull(ledger, minute)
    BY <1>2 DEF TregCheck, Go, Set, Refused
  <2>3. Knows(y) /\ y.pc \in InLock
    BY <1>0, <2>2 DEF Knows, InLock, Proc
  <2> QED BY <1>2, <2>1, <2>2, <2>3, InsideKeepsRate DEF TregCheck
<1>3. CASE Read(c)
  <2>1. lock = c /\ Knows(x) /\ x.pc = "read"
    BY <1>3 DEF Read, At, RateInv, Locked, InLock
  <2>2. PICK y :
          /\ proc' = [proc EXCEPT ![c] = y]
          /\ \/ \E todo : y = [x EXCEPT !.pc = "release", !.todo = todo]
             \/ /\ y = [x EXCEPT !.pc = "write", !.snap = ledger, !.minute = minute]
                /\ x.todo = "reserve" /\ guard = "monid" => ~RateFull(ledger, minute)
    BY <1>3 DEF Read, Set, Refused
  <2>3. guard \in {"treg", "monid"}
    BY DEF RateInv, Types, TypeOK
  <2>4. Knows(y) /\ y.pc \in InLock
    <3>1. CASE \E todo : y = [x EXCEPT !.pc = "release", !.todo = todo]
      BY <1>0, <3>1 DEF Knows, InLock, Proc
    <3>2. CASE /\ y = [x EXCEPT !.pc = "write", !.snap = ledger, !.minute = minute]
               /\ x.todo = "reserve" /\ guard = "monid" => ~RateFull(ledger, minute)
      <4>1. x.todo = "reserve" => ~RateFull(ledger, minute)
        BY <2>1, <2>3, <3>2 DEF Knows
      <4>2. /\ y.pc = "write" /\ y.snap = ledger /\ y.minute = minute
            /\ y.todo = x.todo
        BY <1>0, <3>2 DEF Proc
      <4> QED BY <1>0, <4>1, <4>2 DEF Knows, InLock
    <3> QED BY <2>2, <3>1, <3>2
  <2> QED BY <1>3, <2>1, <2>2, <2>4, InsideKeepsRate DEF Read
<1> QED BY <1>1, <1>2, <1>3

LEMMA LeavingKeepsRate ==
  ASSUME RateInv, Types', NEW c \in Caller,
         \/ Busy(c) \/ Crash(c) \/ Release(c) \/ Answered(c) \/ MonidRuns(c)
         \/ MonidRejects(c) \/ MonidIsSilent(c) \/ TregRuns(c) \/ TregFails(c)
         \/ \E est \in Estimates, scopes \in {{"day"}, Scope} : Ask(c, est, scopes)
         \/ \E i \in Run : GetRun(c, i)
  PROVE  RateInv'
<1> DEFINE x == proc[c]
<1>1. x \in Proc /\ Idle \in Proc
  BY IdleIsProc DEF RateInv, Types, TypeOK
<1>2. \E y : proc' = [proc EXCEPT ![c] = y] /\ y.pc \in {"idle", "lock", "send"}
  <2>1. Idle.pc = "idle" /\ [x EXCEPT !.pc = "send"].pc = "send"
    BY <1>1 DEF Idle, Proc
  <2>2. \A cost, receipt :
          [x EXCEPT !.pc = "lock", !.todo = "settle", !.cost = cost,
                    !.receipt = receipt].pc = "lock"
    BY <1>1 DEF Proc
  <2>3. \A i : [Idle EXCEPT !.pc = "lock", !.todo = "reserve", !.id = i].pc = "lock"
    BY DEF Idle
  <2>4. \A i, cost :
          [Idle EXCEPT !.pc = "lock", !.todo = "settle", !.id = i, !.cost = cost,
                       !.receipt = "closed"].pc = "lock"
    BY DEF Idle
  <2>5. CASE Busy(c) \/ Crash(c) \/ MonidRuns(c) \/ MonidIsSilent(c)
    BY <2>1, <2>5 DEF Busy, Crash, MonidRuns, MonidIsSilent, Set
  <2>6. CASE Release(c)
    BY <2>1, <2>6 DEF Release, Set
  <2>7. CASE Answered(c) \/ MonidRejects(c) \/ TregRuns(c) \/ TregFails(c)
    <3>1. PICK cost, receipt : Settle(c, cost, receipt)
      BY <2>7 DEF Answered, MonidRejects, TregRuns, TregFails
    <3> QED BY <2>2, <3>1 DEF Settle, Set
  <2>8. CASE \E est \in Estimates, scopes \in {{"day"}, Scope} : Ask(c, est, scopes)
    <3>1. PICK i : proc' = [proc EXCEPT ![c] =
                             [Idle EXCEPT !.pc = "lock", !.todo = "reserve", !.id = i]]
      BY <2>8, Zenon DEF Ask, Set
    <3> QED BY <2>3, <3>1
  <2>9. CASE \E i \in Run : GetRun(c, i)
    <3>1. PICK i, cost :
            proc' = [proc EXCEPT ![c] = [Idle EXCEPT !.pc = "lock", !.todo = "settle",
                                           !.id = i, !.cost = cost, !.receipt = "closed"]]
      BY <2>9, Zenon DEF GetRun, Set
    <3> QED BY <2>4, <3>1
  <2> QED BY <2>5, <2>6, <2>7, <2>8, <2>9
<1>3. /\ lock' \in {lock, None} /\ (lock' # lock => lock = c)
      /\ UNCHANGED <<guard, ledger, minute, made>>
  BY DEF Busy, Crash, Release, Answered, MonidRuns, MonidRejects, MonidIsSilent,
         TregRuns, TregFails, Ask, GetRun
<1> QED BY <1>2, <1>3, OutsideKeepsRate

\* Time passes: a lease ends with its holder, and the minute with its count.
LEMMA TimeKeepsRate ==
  ASSUME MaxLapses = 0, RateInv, Types',
         \/ LockExpires \/ MinutePasses \/ UNCHANGED vars
         \/ \E i \in Run : ProviderEnds(i)
  PROVE  RateInv'
<1>1. CASE LockExpires
  <2>1. ~Holds(lock)
    BY <1>1 DEF LockExpires, RateInv, Types, TypeOK
  <2>2. \A c \in Caller : proc[c].pc \notin InLock
    BY <2>1 DEF Holds, RateInv, Locked, InLock
  <2>3. UNCHANGED <<guard, ledger, proc, minute, made>>
    BY <1>1 DEF LockExpires
  <2> QED BY <2>2, <2>3 DEF RateInv, Locked, Knows, CountsMade, RateKept, InLock
<1>2. CASE MinutePasses
  <2>1. minute' = minute + 1 /\ minute \in Nat /\ ledger.window \in Nat
        /\ UNCHANGED <<guard, ledger, lock, proc, made>>
    BY <1>2, SpendAssumption DEF MinutePasses, RateInv, Types, TypeOK, Minute, Ledger
  <2>2. ledger.window <= minute
    BY DEF RateInv, CountsMade
  <2>3. ASSUME NEW c \in Caller
        PROVE  Knows(proc[c])'
    <3>1. proc[c].pc = "write" => proc[c].minute \in Nat
      BY SpendAssumption DEF RateInv, Types, Placed, Minute
    <3>2. Knows(proc[c])
      BY DEF RateInv
    <3>3. ~RateFull(ledger, minute + 1)
      BY <2>1, <2>2 DEF RateFull
    <3>4. proc[c].pc = "write" /\ proc[c].minute <= minute => proc[c].minute <= minute + 1
      BY <2>1, <3>1
    <3> QED BY <2>1, <3>2, <3>3, <3>4 DEF Knows, RateFull
  <2>4. CountsMade'
    BY <2>1, <2>2 DEF RateInv, CountsMade
  <2>5. Locked' /\ RateKept'
    BY <2>1 DEF RateInv, Locked, RateKept
  <2> QED BY <2>3, <2>4, <2>5 DEF RateInv
<1>3. CASE UNCHANGED vars \/ \E i \in Run : ProviderEnds(i)
  <2>1. UNCHANGED <<guard, ledger, lock, proc, minute, made>>
    BY <1>3 DEF vars, ProviderEnds
  <2> QED BY <2>1 DEF RateInv, Locked, Knows, CountsMade, RateKept, RateFull
<1> QED BY <1>1, <1>2, <1>3

LEMMA RateInit == Init => RateInv
<1> SUFFICES ASSUME Init PROVE RateInv
  OBVIOUS
<1>1. Types
  BY TypeInit
<1>2. \A c \in Caller : proc[c].pc = "idle"
  BY DEF Init, Idle
<1>3. ledger.window = 0 /\ ledger.calls = 0 /\ minute = 1
  BY DEF Init, EmptyLedger
<1>4. \A w \in Minute : made[w] = 0
  BY DEF Init
<1> QED BY <1>1, <1>2, <1>3, <1>4, SpendAssumption
    DEF RateInv, Locked, InLock, Knows, CountsMade, RateKept

LEMMA RateStep ==
  ASSUME MaxLapses = 0
  PROVE  RateInv /\ [Next]_vars => RateInv'
<1> SUFFICES ASSUME RateInv, [Next]_vars PROVE RateInv'
  OBVIOUS
<1>1. Types'
  BY TypeStep DEF RateInv
<1>2. ASSUME NEW c \in Caller,
             \/ Busy(c) \/ Crash(c) \/ Release(c) \/ Answered(c) \/ MonidRuns(c)
             \/ MonidRejects(c) \/ MonidIsSilent(c) \/ TregRuns(c) \/ TregFails(c)
             \/ \E est \in Estimates, scopes \in {{"day"}, Scope} : Ask(c, est, scopes)
             \/ \E i \in Run : GetRun(c, i)
      PROVE  RateInv'
  BY <1>1, <1>2, LeavingKeepsRate
<1>3. ASSUME NEW c \in Caller, Acquire(c) \/ TregCheck(c) \/ Read(c)
      PROVE  RateInv'
  BY <1>1, <1>3, EnteringKeepsRate
<1>4. ASSUME NEW c \in Caller, WriteReserve(c)
      PROVE  RateInv'
  BY <1>1, <1>4, ReservingKeepsRate
<1>5. ASSUME NEW c \in Caller, WriteSettle(c)
      PROVE  RateInv'
  BY <1>1, <1>5, SettlingKeepsRate
<1>6. ASSUME \/ LockExpires \/ MinutePasses \/ UNCHANGED vars
             \/ \E i \in Run : ProviderEnds(i)
      PROVE  RateInv'
  BY <1>1, <1>6, TimeKeepsRate
<1> QED BY <1>2, <1>3, <1>4, <1>5, <1>6, Zenon DEF Next

\* While no lease ends under its holder, no minute sees more calls than the limit,
\* however many callers check, read and write across the minute's end.
THEOREM RateIsKept ==
  ASSUME MaxLapses = 0
  PROVE  Spec => []RateKept
<1>1. Init => RateInv
  BY RateInit
<1>2. RateInv /\ [Next]_vars => RateInv'
  BY RateStep
<1>3. RateInv => RateKept
  BY DEF RateInv
<1> QED BY <1>1, <1>2, <1>3, PTL DEF Spec

-----------------------------------------------------------------------------
(* Sums over the runs.  Induction over them is stated with a set, the      *)
(* indices up to which something holds.                                    *)

LEMMA UpToTheLast ==
  ASSUME NEW S, 0 \in S, \A i \in Run : i - 1 \in S => i \in S
  PROVE  MaxCalls \in S
<1> DEFINE Missing == {i \in 0..MaxCalls : i \notin S}
<1> SUFFICES ASSUME Missing # {} PROVE FALSE
  BY SpendAssumption
<1>1. Missing \subseteq Nat
  BY SpendAssumption
<1>2. PICK i \in Missing : \A j \in Missing : ~ (<<j, i>> \in OpToRel(<, Nat))
  BY <1>1, WFMin, NatLessThanWellFounded, Zenon
<1>3. \A j \in Missing : ~ (j < i)
  BY <1>1, <1>2, Zenon DEF OpToRel
<1>4. i \in Run /\ i - 1 \in 0..MaxCalls /\ i - 1 < i
  BY SpendAssumption DEF Run
<1>5. i - 1 \in S
  BY <1>3, <1>4
<1> QED BY <1>4, <1>5

Sums(upTo, amount) ==
  upTo = [i \in 0..MaxCalls |-> IF i = 0 THEN 0 ELSE upTo[i - 1] + amount[i]]

SumsTo(upTo, amount, k) ==
  \A i \in 0..k : upTo[i] = IF i = 0 THEN 0 ELSE upTo[i - 1] + amount[i]

LEMMA SumsExist ==
  ASSUME NEW amount \in [Run -> Int]
  PROVE  \E upTo \in [0..MaxCalls -> Int] : Sums(upTo, amount)
<1> DEFINE S == {k \in 0..MaxCalls : \E upTo \in [0..MaxCalls -> Int] : SumsTo(upTo, amount, k)}
<1>1. 0 \in S
  <2>1. [i \in 0..MaxCalls |-> 0] \in [0..MaxCalls -> Int]
    OBVIOUS
  <2>2. SumsTo([i \in 0..MaxCalls |-> 0], amount, 0)
    BY SpendAssumption DEF SumsTo
  <2> QED BY <2>1, <2>2, SpendAssumption
<1>2. ASSUME NEW k \in Run, k - 1 \in S
      PROVE  k \in S
  <2>1. PICK upTo \in [0..MaxCalls -> Int] : SumsTo(upTo, amount, k - 1)
    BY <1>2
  <2> DEFINE next == [upTo EXCEPT ![k] = upTo[k - 1] + amount[k]]
  <2>2. k \in 1..MaxCalls /\ k - 1 \in 0..MaxCalls
    BY SpendAssumption DEF Run
  <2>3. next \in [0..MaxCalls -> Int]
    BY <2>2
  <2>4. ASSUME NEW i \in 0..k
        PROVE  next[i] = IF i = 0 THEN 0 ELSE next[i - 1] + amount[i]
    <3>1. CASE i = k
      BY <2>2, <3>1
    <3>2. CASE i # k
      <4>1. i \in 0..(k - 1) /\ i \in 0..MaxCalls /\ i # 0 => i - 1 \in 0..MaxCalls /\ i - 1 # k
        BY <2>2, <3>2, SpendAssumption
      <4>2. upTo[i] = IF i = 0 THEN 0 ELSE upTo[i - 1] + amount[i]
        BY <2>1, <4>1, <3>2, <2>2 DEF SumsTo
      <4> QED BY <2>2, <3>2, <4>1, <4>2
    <3> QED BY <3>1, <3>2
  <2>5. SumsTo(next, amount, k)
    BY <2>4 DEF SumsTo
  <2> HIDE DEF next
  <2> QED BY <2>2, <2>3, <2>5
<1>3. MaxCalls \in S
  <2> HIDE DEF S
  <2> QED BY <1>1, <1>2, UpToTheLast
<1>4. PICK upTo \in [0..MaxCalls -> Int] : SumsTo(upTo, amount, MaxCalls)
  BY <1>3
<1>5. upTo = [i \in 0..MaxCalls |-> upTo[i]]
  OBVIOUS
<1> QED BY <1>4, <1>5, Zenon DEF Sums, SumsTo

LEMMA TotalSums ==
  ASSUME NEW amount \in [Run -> Int]
  PROVE  \E upTo : /\ Total(amount) = upTo[MaxCalls]
                   /\ upTo[0] = 0
                   /\ \A i \in Run : upTo[i] = upTo[i - 1] + amount[i]
                   /\ \A i \in 0..MaxCalls : upTo[i] \in Int
<1> DEFINE upTo == CHOOSE g : Sums(g, amount)
<1>1. PICK g0 \in [0..MaxCalls -> Int] : Sums(g0, amount)
  BY SumsExist
<1>2. Sums(upTo, amount)
  BY <1>1, Zenon
<1>3. Total(amount) = upTo[MaxCalls]
  BY DEF Total, Sums
<1> HIDE DEF upTo
<1>4. /\ upTo[0] = 0
      /\ \A i \in Run : upTo[i] = upTo[i - 1] + amount[i]
  BY <1>2, SpendAssumption DEF Sums, Run
<1>5. \A i \in 0..MaxCalls : upTo[i] \in Int
  <2> DEFINE S == {k \in 0..MaxCalls : \A i \in 0..k : upTo[i] \in Int}
  <2>1. 0 \in S
    BY <1>4, SpendAssumption
  <2>2. ASSUME NEW k \in Run, k - 1 \in S
        PROVE  k \in S
    <3>1. k \in 1..MaxCalls /\ k - 1 \in 0..(k - 1) /\ \A i \in 0..k : i = k \/ i \in 0..(k - 1)
      BY SpendAssumption DEF Run
    <3>2. upTo[k] \in Int
      BY <1>4, <2>2, <3>1
    <3> QED BY <2>2, <3>1, <3>2, SpendAssumption
  <2>3. MaxCalls \in S
    <3> HIDE DEF S
    <3> QED BY <2>1, <2>2, UpToTheLast
  <2> QED BY <2>3
<1> QED BY <1>3, <1>4, <1>5

LEMMA TotalOfNothing ==
  ASSUME NEW amount \in [Run -> Int], \A i \in Run : amount[i] = 0
  PROVE  Total(amount) = 0
<1>1. PICK upTo : /\ Total(amount) = upTo[MaxCalls]
                  /\ upTo[0] = 0
                  /\ \A i \in Run : upTo[i] = upTo[i - 1] + amount[i]
  BY TotalSums
<1> DEFINE S == {i \in 0..MaxCalls : upTo[i] = 0}
<1>2. 0 \in S
  BY <1>1, SpendAssumption
<1>3. \A i \in Run : i - 1 \in S => i \in S
  BY <1>1, SpendAssumption DEF Run
<1>4. MaxCalls \in S
  <2> HIDE DEF S
  <2> QED BY <1>2, <1>3, UpToTheLast
<1> QED BY <1>1, <1>4

LEMMA TotalChanges ==
  ASSUME NEW a \in [Run -> Int], NEW b \in [Run -> Int], NEW k \in Run,
         \A i \in Run : i # k => a[i] = b[i]
  PROVE  Total(b) = Total(a) - a[k] + b[k] /\ Total(a) \in Int
<1>1. PICK f : /\ Total(a) = f[MaxCalls]
               /\ f[0] = 0
               /\ \A i \in Run : f[i] = f[i - 1] + a[i]
               /\ \A i \in 0..MaxCalls : f[i] \in Int
  BY TotalSums
<1>2. PICK g : /\ Total(b) = g[MaxCalls]
               /\ g[0] = 0
               /\ \A i \in Run : g[i] = g[i - 1] + b[i]
               /\ \A i \in 0..MaxCalls : g[i] \in Int
  BY TotalSums
<1> DEFINE S == {i \in 0..MaxCalls : g[i] = f[i] + (IF i < k THEN 0 ELSE b[k] - a[k])}
<1>3. 0 \in S
  BY <1>1, <1>2, SpendAssumption DEF Run
<1>4. ASSUME NEW i \in Run, i - 1 \in S
      PROVE  i \in S
  <2>1. /\ i \in 0..MaxCalls /\ i - 1 \in 0..MaxCalls
        /\ f[i - 1] \in Int /\ g[i - 1] \in Int /\ a[i] \in Int /\ b[i] \in Int
        /\ f[i] = f[i - 1] + a[i] /\ g[i] = g[i - 1] + b[i]
    BY <1>1, <1>2, SpendAssumption DEF Run
  <2>2. a[k] \in Int /\ b[k] \in Int /\ i \in Int /\ k \in Int
    BY SpendAssumption DEF Run
  <2>3. g[i - 1] = f[i - 1] + (IF i - 1 < k THEN 0 ELSE b[k] - a[k])
    BY <1>4
  <2>4. CASE i = k
    BY <2>1, <2>2, <2>3, <2>4
  <2>5. CASE i # k
    <3>1. a[i] = b[i] /\ (i - 1 < k <=> i < k)
      BY <2>2, <2>5
    <3> QED BY <2>1, <2>2, <2>3, <3>1
  <2> QED BY <2>4, <2>5
<1>5. MaxCalls \in S
  <2> HIDE DEF S
  <2> QED BY <1>3, <1>4, UpToTheLast
<1>6. MaxCalls \in Int /\ k <= MaxCalls /\ k \in Int /\ a[k] \in Int /\ b[k] \in Int
      /\ MaxCalls \in 0..MaxCalls
  BY SpendAssumption DEF Run
<1>7. f[MaxCalls] \in Int
  BY <1>1, <1>6
<1> QED BY <1>1, <1>2, <1>5, <1>6, <1>7

LEMMA TotalGrows ==
  ASSUME NEW a \in [Run -> Int], NEW b \in [Run -> Int],
         \A i \in Run : a[i] <= b[i]
  PROVE  Total(a) <= Total(b)
<1>1. PICK f : /\ Total(a) = f[MaxCalls]
               /\ f[0] = 0
               /\ \A i \in Run : f[i] = f[i - 1] + a[i]
               /\ \A i \in 0..MaxCalls : f[i] \in Int
  BY TotalSums
<1>2. PICK g : /\ Total(b) = g[MaxCalls]
               /\ g[0] = 0
               /\ \A i \in Run : g[i] = g[i - 1] + b[i]
               /\ \A i \in 0..MaxCalls : g[i] \in Int
  BY TotalSums
<1> DEFINE S == {i \in 0..MaxCalls : f[i] <= g[i]}
<1>3. 0 \in S
  BY <1>1, <1>2, SpendAssumption
<1>4. ASSUME NEW i \in Run, i - 1 \in S
      PROVE  i \in S
  <2>1. /\ i \in 0..MaxCalls /\ i - 1 \in 0..MaxCalls
        /\ f[i - 1] \in Int /\ g[i - 1] \in Int /\ a[i] \in Int /\ b[i] \in Int
        /\ f[i] = f[i - 1] + a[i] /\ g[i] = g[i - 1] + b[i]
    BY <1>1, <1>2, SpendAssumption DEF Run
  <2> QED BY <1>4, <2>1
<1>5. MaxCalls \in S
  <2> HIDE DEF S
  <2> QED BY <1>3, <1>4, UpToTheLast
<1> QED BY <1>1, <1>2, <1>5

\* A sum of naturals is one, and no less than any of its parts.
LEMMA TotalBounds ==
  ASSUME NEW a \in [Run -> Nat], NEW k \in Run
  PROVE  Total(a) \in Nat /\ a[k] <= Total(a)
<1> DEFINE nothing == [i \in Run |-> 0]
           rest == [a EXCEPT ![k] = 0]
<1>1. a \in [Run -> Int] /\ nothing \in [Run -> Int] /\ rest \in [Run -> Int]
  OBVIOUS
<1>2. Total(nothing) = 0
  BY <1>1, TotalOfNothing
<1>3. rest[k] = 0 /\ \A i \in Run : nothing[i] <= rest[i] /\ (i # k => a[i] = rest[i])
  OBVIOUS
<1> HIDE DEF nothing, rest
<1>4. Total(rest) = Total(a) - a[k] + rest[k] /\ Total(a) \in Int
  BY <1>1, <1>3, TotalChanges
<1>5. Total(nothing) <= Total(rest)
  BY <1>1, <1>3, TotalGrows
<1>6. a[k] \in Nat
  OBVIOUS
<1> QED BY <1>2, <1>3, <1>4, <1>5, <1>6

-----------------------------------------------------------------------------
(* The books.  A reservation fits the budget because it is checked and     *)
(* written under one holding of the lock; a settlement never takes out     *)
(* more than was put in, because what is reserved is the sum of what is    *)
(* held for the runs, and a run that is still to be settled is held for.   *)

Wants(x) == x.todo = "reserve" /\ x.pc \in {"lock", "check", "read", "write"}
Owes(x) ==
  \/ x.todo = "reserve" /\ x.pc \in {"release", "send"}
  \/ x.todo = "settle" /\ x.pc \in {"lock", "read", "write"}

\* One call has a run in hand; at Monid others may look it up and settle it.
OneCall ==
  \A c, d \in Caller :
    /\ c # d /\ proc[c].todo # "none" /\ proc[d].todo # "none"
    /\ proc[c].id = proc[d].id
    => guard = "monid" /\ "settle" \in {proc[c].todo, proc[d].todo}

\* What a call knows of its run.
Informed(x) ==
  LET i == x.id IN
  /\ x.todo # "none" => i \in Run /\ run[i].state # "none"
  /\ x.pc = "send" => x.todo = "reserve"
  /\ x.pc = "check" => x.todo = "reserve" /\ guard = "treg"
  /\ x.todo = "reserve" => run[i].state = "new"
  /\ x.todo = "settle" /\ guard = "monid" =>
       run[i].state = "final" /\ Foreseen(i) <= x.cost
  /\ Wants(x) \/ (guard = "treg" /\ Owes(x)) => run[i].settled = 0
  /\ guard = "monid" /\ Wants(x) => i \notin ledger.open
  /\ guard = "monid" /\ Owes(x) /\ (x.todo = "reserve" \/ x.pc = "write") =>
       i \in ledger.open
  /\ x.todo = "reserve" /\ (x.pc = "write" \/ (x.pc = "read" /\ guard = "treg")) =>
       ~OverBudget(ledger, run[i])

RunsFit ==
  \A i \in Run :
    /\ run[i].state = "none" =>
         run[i].est = 0 /\ run[i].charge = 0 /\ run[i].settled = 0 /\ i \notin ledger.open
    /\ i \in ledger.open => run[i].settled = 0
    /\ guard = "monid" /\ run[i].state = "running" => i \in ledger.open

\* What is reserved is the sum of what is held for each run, what is reserved
\* and spent that of what is booked for it, which covers Monid's charge for it as
\* far as that was reserved.
Accounts(s, held, booked) ==
  /\ Total(held) = ledger.reserved[s]
  /\ Total(booked) = ledger.spent[s] + ledger.reserved[s]
  /\ \A i \in Run :
       /\ held[i] <= booked[i] /\ booked[i] <= Part(i, s, Most(i))
       /\ guard = "monid" =>
            /\ i \in ledger.open => held[i] = Part(i, s, run[i].est)
            /\ Part(i, s, Foreseen(i)) <= booked[i]
  /\ \A c \in Caller :
       /\ Wants(proc[c]) => booked[proc[c].id] = 0
       /\ guard = "treg" /\ Owes(proc[c]) =>
            held[proc[c].id] = Part(proc[c].id, s, run[proc[c].id].est)

Balanced(s) == \E held, booked \in [Run -> Nat] : Accounts(s, held, booked)

BooksInv ==
  /\ RateInv /\ OneCall /\ (\A c \in Caller : Informed(proc[c])) /\ RunsFit
  /\ \A s \in Scope : Balanced(s)
  /\ BudgetKept

LEMMA RunTypes ==
  ASSUME Types, NEW i \in Run
  PROVE  /\ run[i] \in PaidCall
         /\ run[i].est \in Nat /\ run[i].charge \in Nat /\ run[i].settled \in Nat
         /\ run[i].scopes \in SUBSET Scope
         /\ Foreseen(i) \in Nat /\ Foreseen(i) <= run[i].est
         /\ Most(i) \in Nat /\ Excess(i) \in Nat /\ run[i].est <= Most(i)
         /\ run[i].settled = 0 => Most(i) = run[i].est /\ Excess(i) = 0
<1>1. /\ run[i] \in PaidCall
      /\ run[i].est \in Nat /\ run[i].charge \in Nat /\ run[i].settled \in Nat
      /\ run[i].scopes \in SUBSET Scope
  BY DEF Types, TypeOK, PaidCall
<1> QED BY <1>1 DEF Foreseen, Most, Excess, AtLeast

\* The books of a state whose runs' amounts are naturals, stated of the next state.
LEMMA RunTypesNext ==
  ASSUME RateInv', NEW i \in Run
  PROVE  /\ run'[i].est \in Nat /\ run'[i].charge \in Nat
         /\ Foreseen(i)' \in Nat /\ Foreseen(i)' <= run'[i].est
<1>1. /\ run'[i].est \in Nat /\ run'[i].charge \in Nat
  BY DEF RateInv, Types, TypeOK, PaidCall
<1> QED BY <1>1 DEF Foreseen

Overrun(s) == Total([i \in Run |-> Part(i, s, Excess(i))])

\* While estimates and settlements stand, so does what went beyond the estimates.
LEMMA OverrunStands ==
  ASSUME BooksInv, RateInv', NEW s \in Scope,
         \A i \in Run :
           \/ run[i].settled = 0 /\ run'[i].settled = 0
           \/ /\ run'[i].est = run[i].est /\ run'[i].scopes = run[i].scopes
              /\ run'[i].settled = run[i].settled
  PROVE  Overrun(s)' = Overrun(s)
<1> DEFINE old == [i \in Run |-> Part(i, s, Excess(i))]
           new == [i \in Run |-> Part(i, s, Excess(i))']
<1>1. ASSUME NEW i \in Run
      PROVE  Part(i, s, Excess(i))' = Part(i, s, Excess(i))
  <2>1. CASE run[i].settled = 0 /\ run'[i].settled = 0
    <3>1. run[i].est \in Nat /\ run'[i].est \in Nat
      BY RunTypes, RunTypesNext DEF BooksInv, RateInv
    <3>2. Excess(i) = 0 /\ Excess(i)' = 0
      BY <2>1, <3>1 DEF Excess, AtLeast
    <3> QED BY <3>2 DEF Part
  <2>2. CASE /\ run'[i].est = run[i].est /\ run'[i].scopes = run[i].scopes
             /\ run'[i].settled = run[i].settled
    BY <2>2 DEF Part, Excess, AtLeast
  <2> QED BY <2>1, <2>2
<1>2. old = new
  BY <1>1
<1>3. Overrun(s) = Total(old) /\ Overrun(s)' = Total(new)
  BY DEF Overrun
<1> QED BY <1>2, <1>3

LEMMA BudgetStands ==
  ASSUME BooksInv, UNCHANGED ledger, \A s \in Scope : Overrun(s)' = Overrun(s)
  PROVE  BudgetKept'
BY DEF BooksInv, BudgetKept, Overrun

\* Steps that do not write the ledger leave the accounts, if they only charge
\* runs that are held for.
LEMMA AccountsStand ==
  ASSUME BooksInv, RateInv', UNCHANGED <<guard, ledger>>,
         OneCall', \A c \in Caller : Informed(proc[c])', RunsFit',
         \A i \in Run : /\ run'[i].est = run[i].est /\ run'[i].scopes = run[i].scopes
                        /\ run'[i].settled = run[i].settled
                        /\ guard = "monid" =>
                             run'[i].charge = run[i].charge \/ i \in ledger.open,
         \A c \in Caller :
           /\ Wants(proc'[c]) => Wants(proc[c]) /\ proc'[c].id = proc[c].id
           /\ guard = "treg" /\ Owes(proc'[c]) =>
                Owes(proc[c]) /\ proc'[c].id = proc[c].id
  PROVE  BooksInv'
<1>1. ASSUME NEW s \in Scope
      PROVE  Balanced(s)'
  <2>1. PICK held \in [Run -> Nat], booked \in [Run -> Nat] : Accounts(s, held, booked)
    BY DEF BooksInv, Balanced
  <2>2. ASSUME NEW i \in Run, NEW n
        PROVE  Part(i, s, n)' = Part(i, s, n)
    BY DEF Part
  <2>3. ASSUME NEW i \in Run
        PROVE  /\ held[i] <= booked[i] /\ booked[i] <= Part(i, s, Most(i))'
               /\ guard' = "monid" =>
                    /\ i \in ledger'.open => held[i] = Part(i, s, run[i].est)'
                    /\ Part(i, s, Foreseen(i))' <= booked[i]
    <3>1. /\ Part(i, s, run[i].est)' = Part(i, s, run[i].est)
          /\ Part(i, s, Most(i))' = Part(i, s, Most(i))
      BY DEF Part, Most, AtLeast
    <3>2. CASE run'[i].charge = run[i].charge
      <4>1. Part(i, s, Foreseen(i))' = Part(i, s, Foreseen(i))
        BY <3>2 DEF Part, Foreseen
      <4> QED BY <2>1, <3>1, <4>1 DEF Accounts
    <3>3. CASE guard = "monid" /\ i \in ledger.open
      <4>1. /\ Foreseen(i)' \in Nat /\ run'[i].est \in Nat
            /\ Foreseen(i)' <= run'[i].est
        BY RunTypesNext
      <4>2. /\ Part(i, s, Foreseen(i))' <= Part(i, s, run[i].est)'
            /\ Part(i, s, Foreseen(i))' \in Nat /\ Part(i, s, run[i].est)' \in Nat
        BY <4>1 DEF Part
      <4>3. held[i] = Part(i, s, run[i].est) /\ held[i] <= booked[i]
        BY <2>1, <3>3 DEF Accounts
      <4>4. held[i] \in Nat /\ booked[i] \in Nat
        OBVIOUS
      <4> QED BY <2>1, <3>1, <3>3, <4>2, <4>3, <4>4 DEF Accounts
    <3> QED BY <2>1, <3>1, <3>2, <3>3 DEF Accounts
  <2>4. ASSUME NEW c \in Caller
        PROVE  /\ Wants(proc'[c]) => booked[proc'[c].id] = 0
               /\ guard' = "treg" /\ Owes(proc'[c]) =>
                    held[proc'[c].id] = Part(proc[c].id, s, run[proc[c].id].est)'
    <3>1. Wants(proc'[c]) \/ Owes(proc'[c]) => proc'[c].id \in Run
      BY DEF Informed, Wants, Owes
    <3>2. proc'[c].id \in Run =>
            Part(proc[c].id, s, run[proc[c].id].est)'
              = Part(proc'[c].id, s, run[proc'[c].id].est)
      BY DEF Part
    <3> QED BY <2>1, <3>1, <3>2 DEF Accounts
  <2>5. Accounts(s, held, booked)'
    BY <2>1, <2>3, <2>4, Zenon DEF Accounts
  <2> QED BY <2>5 DEF Balanced
<1>2. BudgetKept'
  BY OverrunStands, BudgetStands
<1> QED BY <1>1, <1>2 DEF BooksInv

\* A caller goes on with its run, or drops it, or looks one up.
LEMMA MovingKeepsBooks ==
  ASSUME BooksInv, RateInv', NEW c \in Caller, NEW x,
         proc' = [proc EXCEPT ![c] = x], UNCHANGED <<guard, ledger>>,
         \A i \in Run : /\ run'[i].est = run[i].est /\ run'[i].scopes = run[i].scopes
                        /\ run'[i].charge = run[i].charge /\ run'[i].state = run[i].state
                        /\ run'[i].settled = run[i].settled,
         Informed(x),
         \/ x.todo = "none"
         \/ x.id = proc[c].id /\ x.todo = proc[c].todo
         \/ x.todo = "settle" /\ guard = "monid",
         Wants(x) => Wants(proc[c]) /\ x.id = proc[c].id,
         guard = "treg" /\ Owes(x) => Owes(proc[c]) /\ x.id = proc[c].id
  PROVE  BooksInv'
<1>1. proc'[c] = x /\ \A d \in Caller : d # c => proc'[d] = proc[d]
  BY DEF BooksInv, RateInv, Types, TypeOK
<1>2. OneCall'
  BY <1>1 DEF BooksInv, OneCall
<1>3. ASSUME NEW d \in Caller
      PROVE  Informed(proc[d])'
  <2>1. Informed(proc'[d])
    BY <1>1 DEF BooksInv
  <2>2. proc'[d].todo # "none" => proc'[d].id \in Run
    BY <2>1 DEF Informed
  <2>3. proc'[d].id \in Run =>
          (OverBudget(ledger, run[proc[d].id])' <=> OverBudget(ledger, run[proc'[d].id]))
    BY DEF OverBudget
  <2>4. proc'[d].id \in Run => Foreseen(proc[d].id)' = Foreseen(proc'[d].id)
    BY DEF Foreseen
  <2> QED BY <2>1, <2>2, <2>3, <2>4 DEF Informed, Wants, Owes
<1>4. RunsFit'
  BY DEF BooksInv, RunsFit
<1>5. \A d \in Caller :
        /\ Wants(proc'[d]) => Wants(proc[d]) /\ proc'[d].id = proc[d].id
        /\ guard = "treg" /\ Owes(proc'[d]) =>
             Owes(proc[d]) /\ proc'[d].id = proc[d].id
  BY <1>1
<1> QED BY <1>2, <1>3, <1>4, <1>5, AccountsStand
LEMMA EnteringKeepsBooks ==
  ASSUME BooksInv, RateInv', NEW c \in Caller, Acquire(c) \/ TregCheck(c) \/ Read(c)
  PROVE  BooksInv'
<1> DEFINE y == proc[c]
<1>1. y \in Proc /\ Informed(y) /\ guard \in {"treg", "monid"} /\ (y.pc # "idle" => y.id \in Run)
  BY DEF BooksInv, RateInv, Types, TypeOK, Placed
<1>2. UNCHANGED <<guard, ledger, run>>
  BY DEF Acquire, TregCheck, Read
<1>3. CASE Acquire(c)
  <2>1. PICK pc \in {"check", "read"} :
          /\ proc' = [proc EXCEPT ![c] = [y EXCEPT !.pc = pc]]
          /\ pc = "check" <=> guard = "treg" /\ y.todo = "reserve"
    BY <1>3 DEF Acquire, Go, Set
  <2> DEFINE x == [y EXCEPT !.pc = pc]
  <2>2. x.pc = pc /\ x.id = y.id /\ x.todo = y.todo /\ x.cost = y.cost /\ y.pc = "lock"
    BY <1>1, <1>3, <2>1 DEF Proc, Acquire, At
  <2> HIDE DEF x
  <2>3. Informed(x)
    BY <1>1, <2>1, <2>2 DEF Informed, Wants, Owes
  <2>4. (Wants(x) => Wants(y)) /\ (Owes(x) => Owes(y))
    BY <2>1, <2>2 DEF Wants, Owes
  <2> QED BY <1>2, <2>1, <2>2, <2>3, <2>4, MovingKeepsBooks DEF x
<1>4. CASE TregCheck(c)
  <2>1. y.pc = "check" /\ y.todo = "reserve" /\ guard = "treg"
    BY <1>1, <1>4 DEF TregCheck, At, Informed
  <2>2. CASE Refused(ledger, minute, run[y.id])
    <3> DEFINE x == [y EXCEPT !.pc = "release", !.todo = "none"]
    <3>1. proc' = [proc EXCEPT ![c] = x] /\ x.pc = "release" /\ x.todo = "none"
      BY <1>1, <1>4, <2>2 DEF TregCheck, Set, Proc
    <3> HIDE DEF x
    <3>2. Informed(x) /\ ~Wants(x) /\ ~Owes(x)
      BY <3>1 DEF Informed, Wants, Owes
    <3> QED BY <1>2, <3>1, <3>2, MovingKeepsBooks
  <2>3. CASE ~Refused(ledger, minute, run[y.id])
    <3> DEFINE x == [y EXCEPT !.pc = "read"]
    <3>1. /\ proc' = [proc EXCEPT ![c] = x] /\ x.pc = "read" /\ x.todo = "reserve"
          /\ x.id = y.id /\ ~OverBudget(ledger, run[x.id])
      BY <1>1, <1>4, <2>1, <2>3 DEF TregCheck, Go, Set, Proc, Refused
    <3> HIDE DEF x
    <3>2. Informed(x) /\ Wants(x) /\ ~Owes(x) /\ Wants(y)
      BY <1>1, <2>1, <3>1 DEF Informed, Wants, Owes
    <3> QED BY <1>2, <2>1, <3>1, <3>2, MovingKeepsBooks
  <2> QED BY <2>2, <2>3
<1>5. CASE Read(c)
  <2>1. y.pc = "read"
    BY <1>5 DEF Read, At
  <2>2. ASSUME NEW todo \in {"none", "settle"}, todo = "none" \/ todo = y.todo,
               proc' = [proc EXCEPT ![c] = [y EXCEPT !.pc = "release", !.todo = todo]]
        PROVE  BooksInv'
    <3> DEFINE x == [y EXCEPT !.pc = "release", !.todo = todo]
    <3>1. x.pc = "release" /\ x.todo = todo /\ x.id = y.id /\ x.cost = y.cost
      BY <1>1 DEF Proc
    <3> HIDE DEF x
    <3>2. Informed(x) /\ ~Wants(x) /\ ~Owes(x)
      BY <1>1, <2>2, <3>1 DEF Informed, Wants, Owes
    <3> QED BY <1>2, <2>2, <3>1, <3>2, MovingKeepsBooks DEF x
  <2>3. ASSUME y.todo = "reserve" /\ guard = "monid" => ~OverBudget(ledger, run[y.id]),
               y.todo = "settle" => Settleable(ledger, y.id),
               proc' = [proc EXCEPT ![c] = [y EXCEPT !.pc = "write", !.snap = ledger,
                                                     !.minute = minute]]
        PROVE  BooksInv'
    <3> DEFINE x == [y EXCEPT !.pc = "write", !.snap = ledger, !.minute = minute]
    <3>1. x.pc = "write" /\ x.todo = y.todo /\ x.id = y.id /\ x.cost = y.cost
      BY <1>1 DEF Proc
    <3> HIDE DEF x
    <3>2. Informed(x)
      BY <1>1, <2>1, <2>3, <3>1 DEF Informed, Wants, Owes, Settleable
    <3>3. (Wants(x) => Wants(y)) /\ (Owes(x) => Owes(y))
      BY <2>1, <3>1 DEF Wants, Owes
    <3> QED BY <1>2, <2>3, <3>1, <3>2, <3>3, MovingKeepsBooks DEF x
  <2>4. y.todo \in {"none", "reserve", "settle"}
    BY <1>1 DEF Proc
  <2> QED BY <1>5, <2>2, <2>3, <2>4 DEF Read, Set, Refused
<1> QED BY <1>3, <1>4, <1>5

LEMMA LeavingKeepsBooks ==
  ASSUME BooksInv, RateInv', NEW c \in Caller,
         Busy(c) \/ Crash(c) \/ Release(c) \/ (\E i \in Run : GetRun(c, i))
  PROVE  BooksInv'
<1> DEFINE y == proc[c]
<1>1. y \in Proc /\ Informed(y)
  BY DEF BooksInv, RateInv, Types, TypeOK
<1>2. Informed(Idle) /\ Idle.todo = "none" /\ ~Wants(Idle) /\ ~Owes(Idle)
  BY DEF Informed, Idle, Wants, Owes
<1>3. /\ UNCHANGED <<guard, ledger>>
      /\ \A i \in Run :
           /\ run'[i].est = run[i].est /\ run'[i].scopes = run[i].scopes
           /\ run'[i].charge = run[i].charge /\ run'[i].state = run[i].state
           /\ run'[i].settled = run[i].settled
  <2>1. CASE Busy(c) \/ Crash(c) \/ \E i \in Run : GetRun(c, i)
    BY <2>1 DEF Busy, Crash, GetRun
  <2>2. CASE Release(c)
    <3>1. PICK k, receipt : \/ run' = run
                            \/ run' = [run EXCEPT ![k].receipt = receipt]
      BY <2>2, Zenon DEF Release
    <3>2. \A i \in Run : run[i] \in PaidCall
      BY RunTypes DEF BooksInv, RateInv
    <3>3. \A i \in Run : run'[i] = run[i] \/ run'[i] = [run[i] EXCEPT !.receipt = receipt]
      BY <3>1 DEF BooksInv, RateInv, Types, TypeOK
    <3> QED BY <2>2, <3>2, <3>3 DEF Release, PaidCall
  <2> QED BY <2>1, <2>2
<1>4. CASE proc' = [proc EXCEPT ![c] = Idle]
  BY <1>2, <1>3, <1>4, MovingKeepsBooks
<1>5. CASE Release(c) /\ y.todo = "reserve"
  <2> DEFINE x == [y EXCEPT !.pc = "send"]
  <2>1. /\ proc' = [proc EXCEPT ![c] = x] /\ x.pc = "send" /\ x.todo = "reserve"
        /\ x.id = y.id /\ y.pc = "release"
    BY <1>1, <1>5 DEF Release, Set, At, Proc
  <2> HIDE DEF x
  <2>2. Informed(x) /\ ~Wants(x) /\ Owes(y)
    BY <1>1, <1>5, <2>1 DEF Informed, Wants, Owes
  <2> QED BY <1>3, <1>5, <2>1, <2>2, MovingKeepsBooks
<1>6. CASE \E i \in Run : GetRun(c, i)
  <2>0. PICK i \in Run : GetRun(c, i)
    BY <1>6
  <2>3. run[i].est \in Nat /\ run[i].charge \in Nat
    BY RunTypes DEF BooksInv, RateInv
  <2>1. /\ guard = "monid" /\ run[i].state = "final"
        /\ \E cost \in {run[i].charge, run[i].est} :
             proc' = [proc EXCEPT ![c] = [Idle EXCEPT !.pc = "lock", !.todo = "settle",
                                            !.id = i, !.cost = cost, !.receipt = "closed"]]
    BY <2>0 DEF GetRun, Set, Unreported
  <2> PICK cost \in {run[i].charge, run[i].est} :
        proc' = [proc EXCEPT ![c] = [Idle EXCEPT !.pc = "lock", !.todo = "settle",
                                       !.id = i, !.cost = cost, !.receipt = "closed"]]
    BY <2>1
  <2> DEFINE x == [Idle EXCEPT !.pc = "lock", !.todo = "settle", !.id = i, !.cost = cost,
                               !.receipt = "closed"]
  <2>2. x.pc = "lock" /\ x.todo = "settle" /\ x.id = i /\ x.cost = cost
    BY DEF Idle
  <2> HIDE DEF x
  <2>4. Foreseen(i) <= cost
    BY <2>3 DEF Foreseen
  <2>5. Informed(x) /\ ~Wants(x)
    BY <2>1, <2>2, <2>3, <2>4 DEF Informed, Wants, Owes
  <2> QED BY <1>3, <2>1, <2>2, <2>5, MovingKeepsBooks DEF x
<1> QED BY <1>4, <1>5, <1>6 DEF Busy, Crash, Release, Set

\* A new call: nothing is held or booked for a run that was not asked for.
LEMMA AskKeepsBooks ==
  ASSUME BooksInv, RateInv', NEW c \in Caller, NEW est \in Estimates,
         NEW scopes \in SUBSET Scope, Ask(c, est, scopes)
  PROVE  BooksInv'
<1> DEFINE new == {i \in Run : run[i].state = "none"}
<1>1. PICK i \in new : /\ run' = [run EXCEPT ![i].est = est, ![i].scopes = scopes,
                                              ![i].state = "new"]
                       /\ proc' = [proc EXCEPT ![c] = [Idle EXCEPT !.pc = "lock",
                                                        !.todo = "reserve", !.id = i]]
  <2>1. Min(new) \in new
    BY LeastRun DEF Ask
  <2> QED BY <2>1 DEF Ask, Set
<1> DEFINE x == [Idle EXCEPT !.pc = "lock", !.todo = "reserve", !.id = i]
<1>2. x.pc = "lock" /\ x.todo = "reserve" /\ x.id = i
  BY DEF Idle
<1> HIDE DEF x
<1>3. /\ UNCHANGED <<guard, ledger>> /\ est \in Nat
      /\ proc'[c] = x /\ \A d \in Caller : d # c => proc'[d] = proc[d]
      /\ i \in Run /\ run[i] \in PaidCall /\ run[i].state = "none"
  BY <1>1, RunTypes, SpendAssumption DEF Ask, BooksInv, RateInv, Types, TypeOK, x
<1>4. /\ run'[i].est = est /\ run'[i].scopes = scopes
      /\ run'[i].state = "new" /\ run'[i].charge = run[i].charge
      /\ run'[i].settled = run[i].settled
      /\ \A j \in Run : j # i => run'[j] = run[j]
  BY <1>1, <1>3 DEF BooksInv, RateInv, Types, TypeOK, PaidCall
<1>5. run[i].est = 0 /\ run[i].charge = 0 /\ run[i].settled = 0 /\ i \notin ledger.open
  BY <1>3 DEF BooksInv, RunsFit
<1>6. \A d \in Caller : proc[d].todo # "none" => proc[d].id \in Run /\ proc[d].id # i
  BY <1>3 DEF BooksInv, Informed
<1>7. OneCall'
  BY <1>2, <1>3, <1>6 DEF BooksInv, OneCall
<1>8. ASSUME NEW d \in Caller
      PROVE  Informed(proc[d])'
  <2>1. CASE d = c
    <3>1. proc'[d].pc = "lock" /\ proc'[d].todo = "reserve" /\ proc'[d].id = i
      BY <1>2, <1>3, <2>1
    <3> QED BY <1>3, <1>4, <1>5, <3>1 DEF Informed, Wants, Owes
  <2>2. CASE d # c
    <3>1. proc'[d] = proc[d] /\ Informed(proc[d])
      BY <1>3, <2>2 DEF BooksInv
    <3>2. CASE proc[d].todo = "none"
      BY <3>1, <3>2 DEF Informed, Wants, Owes
    <3>3. CASE proc[d].todo # "none"
      <4>1. run'[proc[d].id] = run[proc[d].id]
        BY <1>4, <1>6, <3>3
      <4> QED BY <1>3, <3>1, <4>1 DEF Informed, Wants, Owes, OverBudget, Foreseen
    <3> QED BY <3>2, <3>3
  <2> QED BY <2>1, <2>2
<1>9. RunsFit'
  <2>1. ASSUME NEW j \in Run
        PROVE  /\ run'[j].state = "none" =>
                    /\ run'[j].est = 0 /\ run'[j].charge = 0 /\ run'[j].settled = 0
                    /\ j \notin ledger'.open
               /\ j \in ledger'.open => run'[j].settled = 0
               /\ guard' = "monid" /\ run'[j].state = "running" => j \in ledger'.open
    <3>1. CASE j = i
      BY <1>3, <1>4, <1>5, <3>1
    <3>2. CASE j # i
      BY <1>3, <1>4, <3>2 DEF BooksInv, RunsFit
    <3> QED BY <3>1, <3>2
  <2> QED BY <2>1 DEF RunsFit
<1>10. ASSUME NEW s \in Scope
       PROVE  Balanced(s)'
  <2>1. PICK held \in [Run -> Nat], booked \in [Run -> Nat] : Accounts(s, held, booked)
    BY DEF BooksInv, Balanced
  <2>2. held[i] = 0 /\ booked[i] = 0
    <3>1. Part(i, s, Most(i)) = 0
      BY <1>5 DEF Part, Most, AtLeast
    <3>2. held[i] <= booked[i] /\ booked[i] <= 0 /\ held[i] \in Nat /\ booked[i] \in Nat
      BY <1>3, <2>1, <3>1 DEF Accounts
    <3> QED BY <3>2
  <2>3. ASSUME NEW j \in Run
        PROVE  /\ held[j] <= booked[j] /\ booked[j] <= Part(j, s, Most(j))'
               /\ guard' = "monid" =>
                    /\ j \in ledger'.open => held[j] = Part(j, s, run[j].est)'
                    /\ Part(j, s, Foreseen(j))' <= booked[j]
    <3>1. CASE j = i
      <4>1. Foreseen(i)' = 0 /\ Most(i)' = est
        BY <1>3, <1>4, <1>5 DEF Foreseen, Most, AtLeast
      <4>2. Part(i, s, Foreseen(i))' = 0 /\ 0 <= Part(i, s, Most(i))'
        BY <1>3, <4>1 DEF Part
      <4> QED BY <1>3, <1>5, <2>2, <3>1, <4>2
    <3>2. CASE j # i
      <4>1. /\ Part(j, s, run[j].est)' = Part(j, s, run[j].est)
            /\ Part(j, s, Most(j))' = Part(j, s, Most(j))
            /\ Part(j, s, Foreseen(j))' = Part(j, s, Foreseen(j))
        BY <1>4, <3>2 DEF Part, Foreseen, Most, AtLeast
      <4> QED BY <1>3, <2>1, <4>1 DEF Accounts
    <3> QED BY <3>1, <3>2
  <2>4. ASSUME NEW d \in Caller
        PROVE  /\ Wants(proc'[d]) => booked[proc'[d].id] = 0
               /\ guard' = "treg" /\ Owes(proc'[d]) =>
                    held[proc'[d].id] = Part(proc[d].id, s, run[proc[d].id].est)'
    <3>1. CASE d = c
      BY <1>2, <1>3, <2>2, <3>1 DEF Owes
    <3>2. CASE d # c
      <4>1. CASE proc[d].todo = "none"
        BY <1>3, <3>2, <4>1 DEF Wants, Owes
      <4>2. CASE proc[d].todo # "none"
        <5>1. Part(proc[d].id, s, run[proc[d].id].est)' = Part(proc[d].id, s, run[proc[d].id].est)
          BY <1>3, <1>4, <1>6, <3>2, <4>2 DEF Part
        <5> QED BY <1>3, <2>1, <3>2, <5>1 DEF Accounts
      <4> QED BY <4>1, <4>2
    <3> QED BY <3>1, <3>2
  <2>5. Accounts(s, held, booked)'
    BY <1>3, <2>1, <2>3, <2>4, Zenon DEF Accounts
  <2> QED BY <2>5 DEF Balanced
<1>11. BudgetKept'
  <2>1. \A j \in Run : (run[j].settled = 0 /\ run'[j].settled = 0) \/ run'[j] = run[j]
    BY <1>4, <1>5
  <2>2. \A s \in Scope : Overrun(s)' = Overrun(s)
    BY <2>1, OverrunStands
  <2> QED BY <1>3, <2>2, BudgetStands
<1> QED BY <1>7, <1>8, <1>9, <1>10, <1>11 DEF BooksInv

\* The provider's answer, or its absence: the run is held for until it is settled.
LEMMA AnswersKeepBooks ==
  ASSUME BooksInv, RateInv', NEW c \in Caller,
         \/ Answered(c) \/ MonidRuns(c) \/ MonidRejects(c)
         \/ MonidIsSilent(c) \/ TregRuns(c) \/ TregFails(c)
  PROVE  BooksInv'
<1> DEFINE y == proc[c]
           i == y.id
<1>1. /\ y.pc = "send" /\ y \in Proc /\ Informed(y)
      /\ UNCHANGED <<guard, ledger>> /\ guard \in {"treg", "monid"}
  BY DEF Answered, MonidRuns, MonidRejects, MonidIsSilent, TregRuns, TregFails, At,
         BooksInv, RateInv, Types, TypeOK
<1>2. /\ y.todo = "reserve" /\ i \in Run /\ run[i].state = "new"
      /\ guard = "monid" => i \in ledger.open
      /\ guard = "treg" => run[i].settled = 0
  BY <1>1 DEF Informed, Owes
<1>3. run[i] \in PaidCall /\ run[i].est \in Nat /\ run[i].charge \in Nat
  BY <1>2, RunTypes DEF BooksInv, RateInv
<1>4. \E state \in {"running", "final"}, charge \in Nat : \E x, q :
        /\ run' = [run EXCEPT ![i] = q]
        /\ q.est = run[i].est /\ q.scopes = run[i].scopes
        /\ q.state = state /\ q.charge = charge /\ q.settled = run[i].settled
        /\ proc' = [proc EXCEPT ![c] = x]
        /\ \/ x.todo = "none" /\ x.pc = "idle"
           \/ /\ x.todo = "settle" /\ x.pc = "lock" /\ x.id = i
              /\ guard = "monid" =>
                   state = "final" /\ (charge <= x.cost \/ run[i].est <= x.cost)
  <2>2. ASSUME NEW cost, NEW receipt
        PROVE  LET x == [y EXCEPT !.pc = "lock", !.todo = "settle", !.cost = cost,
                                  !.receipt = receipt]
               IN x.todo = "settle" /\ x.pc = "lock" /\ x.id = i /\ x.cost = cost
    BY <1>1 DEF Proc
  <2>3. CASE Answered(c) \/ MonidRejects(c)
    <3>1. PICK charge \in Nat :
            /\ Ends(i, charge)
            /\ \E cost \in {charge} \cup Unreported(i), receipt \in {"known", "saved"} :
                 Settle(c, cost, receipt)
      BY <2>3, SpendAssumption DEF Answered, MonidRejects
    <3>2. PICK cost \in {charge} \cup Unreported(i), receipt \in {"known", "saved"} :
                 Settle(c, cost, receipt)
      BY <3>1
    <3> DEFINE x == [y EXCEPT !.pc = "lock", !.todo = "settle", !.cost = cost,
                              !.receipt = receipt]
               q == [run[i] EXCEPT !.state = "final", !.charge = charge]
    <3>3. guard = "monid" => charge <= cost \/ run[i].est <= cost
      BY <1>3, <3>1, <3>2 DEF Unreported
    <3>4. x.todo = "settle" /\ x.pc = "lock" /\ x.id = i /\ x.cost = cost
      BY <2>2
    <3>5. /\ q.est = run[i].est /\ q.scopes = run[i].scopes
          /\ q.state = "final" /\ q.charge = charge /\ q.settled = run[i].settled
      BY <1>3 DEF PaidCall
    <3>6. run' = [run EXCEPT ![i] = q] /\ proc' = [proc EXCEPT ![c] = x]
      BY <3>1, <3>2 DEF Ends, Settle, Set
    <3> HIDE DEF x, q, y, i
    <3> QED BY <3>1, <3>3, <3>4, <3>5, <3>6
  <2>5. CASE MonidIsSilent(c) \/ MonidRuns(c)
    <3>1. PICK q : /\ run' = [run EXCEPT ![i] = q]
                   /\ \/ q = [run[i] EXCEPT !.state = "running"]
                      \/ q = [run[i] EXCEPT !.state = "running", !.receipt = "known"]
      BY <2>5 DEF MonidIsSilent, MonidRuns, Runs
    <3>2. /\ q.est = run[i].est /\ q.scopes = run[i].scopes
          /\ q.state = "running" /\ q.charge = run[i].charge
          /\ q.settled = run[i].settled
      BY <1>3, <3>1 DEF PaidCall
    <3>3. proc' = [proc EXCEPT ![c] = Idle] /\ Idle.todo = "none" /\ Idle.pc = "idle"
      BY <2>5 DEF MonidIsSilent, MonidRuns, Set, Idle
    <3> HIDE DEF y, i
    <3> QED BY <1>3, <3>1, <3>2, <3>3
  <2>6. CASE TregRuns(c) \/ TregFails(c)
    <3>1. PICK cost : Settle(c, cost, "none")
      BY <2>6 DEF TregRuns, TregFails
    <3> DEFINE x == [y EXCEPT !.pc = "lock", !.todo = "settle", !.cost = cost,
                              !.receipt = "none"]
               q == [run[i] EXCEPT !.state = "running"]
    <3>4. x.todo = "settle" /\ x.pc = "lock" /\ x.id = i /\ x.cost = cost
      BY <2>2
    <3>5. /\ q.est = run[i].est /\ q.scopes = run[i].scopes
          /\ q.state = "running" /\ q.charge = run[i].charge
          /\ q.settled = run[i].settled
      BY <1>3 DEF PaidCall
    <3>6. run' = [run EXCEPT ![i] = q] /\ proc' = [proc EXCEPT ![c] = x]
          /\ guard = "treg"
      BY <2>6, <3>1 DEF TregRuns, TregFails, Runs, Settle, Set
    <3> HIDE DEF x, q, y, i
    <3> QED BY <1>3, <3>4, <3>5, <3>6
  <2> QED BY <2>3, <2>5, <2>6
<1>p. PICK state \in {"running", "final"}, charge \in Nat : \E x, q :
        /\ run' = [run EXCEPT ![i] = q]
        /\ q.est = run[i].est /\ q.scopes = run[i].scopes
        /\ q.state = state /\ q.charge = charge /\ q.settled = run[i].settled
        /\ proc' = [proc EXCEPT ![c] = x]
        /\ \/ x.todo = "none" /\ x.pc = "idle"
           \/ /\ x.todo = "settle" /\ x.pc = "lock" /\ x.id = i
              /\ guard = "monid" =>
                   state = "final" /\ (charge <= x.cost \/ run[i].est <= x.cost)
  BY <1>4, Zenon
<1>5. PICK x, q :
        /\ run' = [run EXCEPT ![i] = q]
        /\ q.est = run[i].est /\ q.scopes = run[i].scopes
        /\ q.state = state /\ q.charge = charge /\ q.settled = run[i].settled
        /\ proc' = [proc EXCEPT ![c] = x]
        /\ \/ x.todo = "none" /\ x.pc = "idle"
           \/ /\ x.todo = "settle" /\ x.pc = "lock" /\ x.id = i
              /\ guard = "monid" =>
                   state = "final" /\ (charge <= x.cost \/ run[i].est <= x.cost)
  BY <1>p, Zenon
<1>6. /\ proc'[c] = x /\ \A d \in Caller : d # c => proc'[d] = proc[d]
      /\ run'[i] = q /\ \A j \in Run : j # i => run'[j] = run[j]
  BY <1>2, <1>5 DEF BooksInv, RateInv, Types, TypeOK
<1> HIDE DEF i
<1>7. \A d \in Caller : d # c /\ proc[d].todo # "none" => proc[d].id # i
  <2> SUFFICES ASSUME NEW d \in Caller, d # c, proc[d].todo # "none", proc[d].id = i
               PROVE  FALSE
    OBVIOUS
  <2>1. guard = "monid" /\ proc[d].todo = "settle"
    BY <1>2 DEF BooksInv, OneCall, i
  <2> QED BY <1>2, <2>1 DEF BooksInv, Informed
<1>8. OneCall'
  BY <1>1, <1>2, <1>5, <1>6, <1>7 DEF BooksInv, OneCall, i
<1>9. ASSUME NEW d \in Caller
      PROVE  Informed(proc[d])'
  <2>1. CASE d = c
    <3>1. ASSUME NEW j \in Run, j = i, guard = "monid", x.todo = "settle"
          PROVE  Foreseen(j)' <= x.cost
      <4>1. run'[j].charge = charge /\ run'[j].est = run[i].est
        BY <1>5, <1>6, <3>1
      <4>2. x.cost \in Nat
        BY <1>6 DEF RateInv, Types, TypeOK, Proc
      <4>3. charge <= x.cost \/ run[i].est <= x.cost
        BY <1>5, <3>1
      <4> QED BY <1>3, <4>1, <4>2, <4>3 DEF Foreseen
    <3>2. x.todo = "settle" => x.id = i
      BY <1>5
    <3> QED BY <1>1, <1>2, <1>5, <1>6, <2>1, <3>1, <3>2 DEF Informed, Wants, Owes
  <2>2. CASE d # c
    <3>1. proc'[d] = proc[d] /\ Informed(proc[d])
      BY <1>6, <2>2 DEF BooksInv
    <3>2. CASE proc[d].todo = "none"
      BY <3>1, <3>2 DEF Informed, Wants, Owes
    <3>3. CASE proc[d].todo # "none"
      <4>1. run'[proc[d].id] = run[proc[d].id]
        BY <1>6, <1>7, <2>2, <3>1, <3>3 DEF Informed
      <4> QED BY <1>1, <3>1, <4>1 DEF Informed, Wants, Owes, OverBudget, Foreseen
    <3> QED BY <3>2, <3>3
  <2> QED BY <2>1, <2>2
<1>10. RunsFit'
  <2>1. ASSUME NEW j \in Run
        PROVE  /\ run'[j].state = "none" =>
                    /\ run'[j].est = 0 /\ run'[j].charge = 0 /\ run'[j].settled = 0
                    /\ j \notin ledger'.open
               /\ j \in ledger'.open => run'[j].settled = 0
               /\ guard' = "monid" /\ run'[j].state = "running" => j \in ledger'.open
    <3>1. CASE j = i
      BY <1>1, <1>2, <1>5, <1>6, <3>1 DEF BooksInv, RunsFit
    <3>2. CASE j # i
      BY <1>1, <1>6, <3>2 DEF BooksInv, RunsFit
    <3> QED BY <3>1, <3>2
  <2> QED BY <2>1 DEF RunsFit
<1>11. \A j \in Run : /\ run'[j].est = run[j].est /\ run'[j].scopes = run[j].scopes
                      /\ run'[j].settled = run[j].settled
                      /\ guard = "monid" =>
                           run'[j].charge = run[j].charge \/ j \in ledger.open
  BY <1>2, <1>5, <1>6
<1>12. \A d \in Caller :
        /\ Wants(proc'[d]) => Wants(proc[d]) /\ proc'[d].id = proc[d].id
        /\ guard = "treg" /\ Owes(proc'[d]) =>
             Owes(proc[d]) /\ proc'[d].id = proc[d].id
  <2>1. ~Wants(x) /\ Owes(y) /\ (Owes(x) => x.id = y.id)
    BY <1>1, <1>2, <1>5 DEF Wants, Owes, i
  <2> QED BY <1>6, <2>1
<1> QED BY <1>1, <1>8, <1>9, <1>10, <1>11, <1>12, AccountsStand

\* What runs at the provider is held for, and nobody is settling it.
LEMMA ElsewhereKeepsBooks ==
  ASSUME BooksInv, RateInv',
         \/ \E i \in Run : ProviderEnds(i)
         \/ LockExpires \/ MinutePasses \/ UNCHANGED vars
  PROVE  BooksInv'
<1>1. CASE \E i \in Run : ProviderEnds(i)
  <2>1. PICK i \in Run : ProviderEnds(i)
    BY <1>1
  <2>2. UNCHANGED <<guard, ledger, proc>> /\ run[i].state = "running"
    BY <2>1 DEF ProviderEnds
  <2>3. /\ \A j \in Run : j # i => run'[j] = run[j]
        /\ run'[i].est = run[i].est /\ run'[i].scopes = run[i].scopes
        /\ run'[i].state = "final" /\ run'[i].settled = run[i].settled
    <3>1. PICK charge \in Charges :
            run' = [run EXCEPT ![i] = [run[i] EXCEPT !.state = "final", !.charge = charge]]
      BY <2>1 DEF ProviderEnds, Ends
    <3>2. run[i] \in PaidCall /\ run[i].est \in Nat
      BY RunTypes DEF BooksInv, RateInv
    <3> QED BY <3>1, <3>2 DEF PaidCall, BooksInv, RateInv, Types, TypeOK
  <2>4. RunsFit'
    BY <2>2, <2>3 DEF BooksInv, RunsFit
  <2>5. ASSUME NEW d \in Caller
        PROVE  Informed(proc[d])'
    <3>1. proc'[d] = proc[d] /\ Informed(proc[d])
      BY <2>2 DEF BooksInv
    <3>2. CASE proc[d].todo = "none"
      BY <2>2, <3>1, <3>2 DEF Informed, Wants, Owes
    <3>3. CASE proc[d].todo # "none" /\ proc[d].id # i
      <4>1. run'[proc[d].id] = run[proc[d].id]
        BY <2>3, <3>1, <3>3 DEF Informed
      <4> QED BY <2>2, <3>1, <4>1 DEF Informed, Wants, Owes, OverBudget, Foreseen
    <3>4. CASE proc[d].todo # "none" /\ proc[d].id = i
      <4>1. proc[d].todo # "reserve" /\ ~(proc[d].todo = "settle" /\ guard = "monid")
        BY <2>2, <3>1, <3>4 DEF Informed
      <4> QED BY <2>2, <2>3, <3>1, <3>4, <4>1 DEF Informed, Wants, Owes
    <3> QED BY <3>2, <3>3, <3>4
  <2>6. OneCall'
    BY <2>2 DEF BooksInv, OneCall
  <2>7. \A j \in Run : /\ run'[j].est = run[j].est /\ run'[j].scopes = run[j].scopes
                       /\ run'[j].settled = run[j].settled
                       /\ guard = "monid" =>
                            run'[j].charge = run[j].charge \/ j \in ledger.open
    BY <2>2, <2>3 DEF BooksInv, RunsFit
  <2> QED BY <2>2, <2>4, <2>5, <2>6, <2>7, AccountsStand
<1>2. CASE LockExpires \/ MinutePasses \/ UNCHANGED vars
  <2>1. UNCHANGED <<guard, ledger, proc, run>>
    BY <1>2 DEF LockExpires, MinutePasses, vars
  <2>2. OneCall' /\ RunsFit' /\ \A d \in Caller : Informed(proc[d])'
    BY <2>1 DEF BooksInv, OneCall, RunsFit, Informed, Wants, Owes, OverBudget, Foreseen
  <2> QED BY <2>1, <2>2, AccountsStand
<1> QED BY <1>1, <1>2

\* Who writes the ledger writes what is stored, with a change, and is alone in the
\* lock.
LEMMA WriterFacts ==
  ASSUME BooksInv, NEW c \in Caller, At(c, "write")
  PROVE  /\ proc[c] \in Proc /\ Informed(proc[c]) /\ proc[c].id \in Run
         /\ proc[c].snap = ledger /\ ledger \in Ledger /\ guard \in {"treg", "monid"}
         /\ \A d \in Caller : d # c => proc[d].pc \notin InLock
         /\ proc[c].minute \in Minute
BY DEF BooksInv, RateInv, Types, TypeOK, Placed, Locked, InLock, Knows, At

\* A reservation is written: it fits the budget, and is held for its run.
LEMMA ReservingKeepsBooks ==
  ASSUME BooksInv, RateInv', NEW c \in Caller, WriteReserve(c)
  PROVE  BooksInv'
<1> DEFINE y == proc[c]
           i == y.id
           x == [y EXCEPT !.pc = "release", !.snap = EmptyLedger, !.minute = 0]
<1>1. /\ y \in Proc /\ Informed(y) /\ i \in Run /\ y.pc = "write" /\ y.todo = "reserve"
      /\ ledger \in Ledger /\ guard \in {"treg", "monid"}
      /\ ledger' = Reserved(ledger, y.minute, i) /\ UNCHANGED <<guard, run>>
  BY WriterFacts DEF WriteReserve, At
<1>2. /\ run[i].state = "new" /\ ~OverBudget(ledger, run[i])
      /\ guard = "monid" => i \notin ledger.open
      /\ Wants(y) /\ run[i].settled = 0
  BY <1>1 DEF Informed, Wants
<1>3. /\ proc'[c] = x /\ x.pc = "release" /\ x.todo = "reserve" /\ x.id = i
      /\ \A d \in Caller : d # c => proc'[d] = proc[d]
  BY <1>1 DEF WriteReserve, Set, Proc, BooksInv, RateInv, Types, TypeOK
<1>4. run[i].est \in Nat /\ run[i].scopes \in SUBSET Scope
  BY <1>1, RunTypes DEF BooksInv, RateInv
<1>5. /\ ledger'.spent = ledger.spent
      /\ \A s \in Scope : ledger'.reserved[s] = ledger.reserved[s] + Part(i, s, run[i].est)
      /\ ledger'.open = IF guard = "monid" THEN ledger.open \cup {i} ELSE ledger.open
  <2>1. /\ ledger'.spent = ledger.spent
        /\ ledger'.reserved = Added(ledger.reserved, run[i].scopes, run[i].est)
        /\ ledger'.open = IF guard = "monid" THEN ledger.open \cup {i} ELSE ledger.open
    BY <1>1 DEF Reserved, Ledger
  <2>2. \A s \in Scope : ledger.reserved[s] \in Nat
    BY <1>1 DEF Ledger
  <2> QED BY <1>4, <2>1, <2>2 DEF Added, Part
<1>6. \A d \in Caller : d # c /\ proc[d].todo # "none" /\ proc[d].id = i =>
        guard = "monid" /\ proc[d].todo = "settle"
  BY <1>1, <1>2 DEF BooksInv, OneCall
<1>7. \A d \in Caller : d # c => proc[d].pc \notin InLock /\ Informed(proc[d])
  BY WriterFacts DEF WriteReserve, BooksInv
<1> HIDE DEF i, x
<1>8. OneCall'
  BY <1>1, <1>3 DEF BooksInv, OneCall, i
<1>9. ASSUME NEW d \in Caller
      PROVE  Informed(proc[d])'
  <2>1. CASE d = c
    BY <1>1, <1>2, <1>3, <1>5, <2>1 DEF Informed, Wants, Owes
  <2>2. CASE d # c
    <3>1. proc'[d] = proc[d] /\ Informed(proc[d]) /\ proc[d].pc \notin InLock
      BY <1>3, <1>7, <2>2
    <3> QED BY <1>1, <1>5, <1>6, <2>2, <3>1 DEF Informed, Wants, Owes, InLock, Foreseen
  <2> QED BY <2>1, <2>2
<1>10. RunsFit'
  BY <1>1, <1>2, <1>5 DEF BooksInv, RunsFit
<1>11. ASSUME NEW s \in Scope
       PROVE  Balanced(s)'
  <2>1. PICK held \in [Run -> Nat], booked \in [Run -> Nat] : Accounts(s, held, booked)
    BY DEF BooksInv, Balanced
  <2> DEFINE part == Part(i, s, run[i].est)
  <2>2. part \in Nat /\ i \in Run
    BY <1>1, <1>4 DEF Part, i
  <2>3. booked[i] = 0 /\ held[i] = 0
    BY <1>1, <1>2, <2>1, <2>2 DEF Accounts, i
  <2>4. PICK held2 \in [Run -> Nat], booked2 \in [Run -> Nat] :
          /\ held2[i] = part /\ booked2[i] = part
          /\ \A j \in Run : j # i => held2[j] = held[j] /\ booked2[j] = booked[j]
    <3> DEFINE h == [held EXCEPT ![i] = part]
               b == [booked EXCEPT ![i] = part]
    <3>1. /\ h \in [Run -> Nat] /\ b \in [Run -> Nat] /\ h[i] = part /\ b[i] = part
          /\ \A j \in Run : j # i => h[j] = held[j] /\ b[j] = booked[j]
      BY <2>2
    <3> HIDE DEF h, b
    <3> QED BY <3>1
  <2>5. /\ Total(held2) = Total(held) - held[i] + held2[i]
        /\ Total(booked2) = Total(booked) - booked[i] + booked2[i]
    BY <2>2, <2>4, TotalChanges
  <2>6. /\ Total(held) = ledger.reserved[s] /\ Total(held) \in Nat
        /\ Total(booked) = ledger.spent[s] + ledger.reserved[s] /\ Total(booked) \in Nat
        /\ ledger.spent[s] \in Nat
    BY <1>1, <2>1, <2>2, TotalBounds DEF Accounts, Ledger
  <2>7. /\ Total(held2) = ledger'.reserved[s]
        /\ Total(booked2) = ledger'.spent[s] + ledger'.reserved[s]
    BY <1>5, <2>2, <2>3, <2>4, <2>5, <2>6
  <2>8. ASSUME NEW j \in Run
        PROVE  /\ held2[j] <= booked2[j] /\ booked2[j] <= Part(j, s, Most(j))'
               /\ guard' = "monid" =>
                    /\ j \in ledger'.open => held2[j] = Part(j, s, run[j].est)'
                    /\ Part(j, s, Foreseen(j))' <= booked2[j]
    <3>1. /\ Part(j, s, run[j].est)' = Part(j, s, run[j].est)
          /\ Part(j, s, Most(j))' = Part(j, s, Most(j))
          /\ Part(j, s, Foreseen(j))' = Part(j, s, Foreseen(j))
      BY <1>1 DEF Part, Most, Foreseen, AtLeast
    <3>2. CASE j = i
      <4>1. /\ Foreseen(j) \in Nat /\ run[j].est \in Nat /\ Foreseen(j) <= run[j].est
            /\ Most(j) \in Nat /\ run[j].est <= Most(j)
        BY RunTypes DEF BooksInv, RateInv
      <4>2. /\ Part(j, s, Foreseen(j)) <= Part(j, s, run[j].est)
            /\ Part(j, s, run[j].est) <= Part(j, s, Most(j))
        BY <4>1 DEF Part
      <4> QED BY <2>2, <2>4, <3>1, <3>2, <4>2
    <3>3. CASE j # i
      BY <1>1, <1>5, <2>1, <2>4, <3>1, <3>3 DEF Accounts
    <3> QED BY <3>2, <3>3
  <2>9. ASSUME NEW d \in Caller
        PROVE  /\ Wants(proc'[d]) => booked2[proc'[d].id] = 0
               /\ guard' = "treg" /\ Owes(proc'[d]) =>
                    held2[proc'[d].id] = Part(proc[d].id, s, run[proc[d].id].est)'
    <3>1. CASE d = c
      BY <1>1, <1>3, <2>4, <3>1 DEF Wants, Part
    <3>2. CASE d # c
      <4>1. proc'[d] = proc[d] /\ Informed(proc[d])
        BY <1>3, <1>7, <3>2
      <4>2. Wants(proc[d]) \/ (guard = "treg" /\ Owes(proc[d]))
              => proc[d].id \in Run /\ proc[d].id # i
        BY <1>6, <3>2, <4>1 DEF Informed, Wants, Owes
      <4>3. Part(proc[d].id, s, run[proc[d].id].est)' = Part(proc[d].id, s, run[proc[d].id].est)
        BY <1>1, <4>1 DEF Part
      <4> QED BY <1>1, <2>1, <2>4, <4>1, <4>2, <4>3 DEF Accounts
    <3> QED BY <3>1, <3>2
  <2>10. Accounts(s, held2, booked2)'
    BY <2>7, <2>8, <2>9, Zenon DEF Accounts
  <2> QED BY <2>4, <2>10 DEF Balanced
<1>12. BudgetKept'
  <2>1. ASSUME NEW s \in Scope
        PROVE  ledger'.spent[s] + ledger'.reserved[s] <= Budget[s] + Overrun(s)'
    <3>0. Overrun(s)' = Overrun(s) /\ Overrun(s) \in Nat
      <4>1. Overrun(s)' = Overrun(s)
        BY <1>1, OverrunStands
      <4>2. [k \in Run |-> Part(k, s, Excess(k))] \in [Run -> Nat]
        BY RunTypes DEF BooksInv, RateInv, Part
      <4>3. i \in Run
        BY <1>1 DEF i
      <4> QED BY <4>1, <4>2, <4>3, TotalBounds, Zenon DEF Overrun
    <3>1. /\ ledger.spent[s] \in Nat /\ ledger.reserved[s] \in Nat /\ Budget[s] \in Nat
          /\ ledger.spent[s] + ledger.reserved[s] <= Budget[s] + Overrun(s)
      BY <1>1, SpendAssumption DEF Ledger, BooksInv, BudgetKept, Overrun
    <3>2. CASE s \in run[i].scopes
      <4>1. ~(ledger.spent[s] + ledger.reserved[s] + run[i].est > Budget[s])
        BY <1>2, <3>2 DEF OverBudget
      <4> QED BY <1>4, <1>5, <3>0, <3>1, <3>2, <4>1 DEF Part
    <3>3. CASE s \notin run[i].scopes
      BY <1>5, <3>0, <3>1, <3>3 DEF Part
    <3> QED BY <3>2, <3>3
  <2> QED BY <2>1 DEF BudgetKept, Overrun
<1> QED BY <1>8, <1>9, <1>10, <1>11, <1>12 DEF BooksInv

\* A settlement: what was held for the run is taken out, and its cost is booked.
LEMMA SettlingKeepsBooks ==
  ASSUME BooksInv, RateInv', NEW c \in Caller, WriteSettle(c)
  PROVE  BooksInv'
<1> DEFINE y == proc[c]
           i == y.id
           x == [y EXCEPT !.pc = "release", !.snap = EmptyLedger, !.minute = 0]
<1>1. /\ y \in Proc /\ Informed(y) /\ i \in Run /\ y.pc = "write" /\ y.todo = "settle"
      /\ ledger \in Ledger /\ guard \in {"treg", "monid"} /\ y.cost \in Nat
      /\ ledger' = Settled(ledger, i, y.cost) /\ UNCHANGED guard
  BY WriterFacts DEF WriteSettle, At, Proc
<1>2. /\ Owes(y) /\ run[i].settled = 0
      /\ guard = "monid" => /\ i \in ledger.open /\ run[i].state = "final"
                            /\ Foreseen(i) <= y.cost
  BY <1>1 DEF Informed, Owes, BooksInv, RunsFit
<1>r. /\ run'[i].est = run[i].est /\ run'[i].scopes = run[i].scopes
      /\ run'[i].state = run[i].state /\ run'[i].charge = run[i].charge
      /\ run'[i].settled = y.cost
      /\ \A j \in Run : j # i => run'[j] = run[j]
  <2>1. run' = [run EXCEPT ![i] = [run[i] EXCEPT !.settled = AtLeast(run[i].settled, y.cost)]]
    BY DEF WriteSettle
  <2>2. run \in [Run -> PaidCall] /\ run[i] \in PaidCall
    BY <1>1 DEF BooksInv, RateInv, Types, TypeOK
  <2>3. AtLeast(run[i].settled, y.cost) = y.cost
    BY <1>1, <1>2 DEF AtLeast
  <2> QED BY <1>1, <2>1, <2>2, <2>3 DEF PaidCall
<1>3. /\ proc'[c] = x /\ x.pc = "release" /\ x.todo = "settle" /\ x.id = i
      /\ x.cost = y.cost
      /\ \A d \in Caller : d # c => proc'[d] = proc[d]
  BY <1>1 DEF WriteSettle, Set, Proc, BooksInv, RateInv, Types, TypeOK
<1>4. run[i].est \in Nat /\ run[i].charge \in Nat /\ run[i].scopes \in SUBSET Scope
  BY <1>1, RunTypes DEF BooksInv, RateInv
<1>5. \A d \in Caller : d # c => proc[d].pc \notin InLock /\ Informed(proc[d])
  BY WriterFacts DEF WriteSettle, BooksInv
<1>e. \A j \in Run :
        /\ run'[j].est = run[j].est /\ run'[j].scopes = run[j].scopes
        /\ run'[j].state = run[j].state /\ run'[j].charge = run[j].charge
  BY <1>r
<1>6. \A d \in Caller : d # c /\ proc[d].id = i =>
        ~Wants(proc[d]) /\ (Owes(proc[d]) => guard = "monid" /\ proc[d].todo = "settle")
  <2> SUFFICES ASSUME NEW d \in Caller, d # c, proc[d].id = i,
                      Wants(proc[d]) \/ Owes(proc[d])
               PROVE  guard = "monid" /\ proc[d].todo = "settle"
    BY DEF Wants
  <2>1. proc[d].todo # "none"
    BY DEF Wants, Owes
  <2>2. guard = "monid"
    BY <1>1, <2>1 DEF BooksInv, OneCall
  <2>3. proc[d].todo # "reserve"
    BY <1>2, <1>5, <2>2 DEF Informed
  <2> QED BY <2>2, <2>3 DEF Wants, Owes
<1> HIDE DEF i, x
<1>7. OneCall'
  BY <1>1, <1>3 DEF BooksInv, OneCall, i
<1>8. /\ ledger'.spent = Added(ledger.spent, run[i].scopes, y.cost)
      /\ ledger'.reserved = Taken(ledger.reserved, run[i].scopes, run[i].est)
      /\ ledger'.open = ledger.open \ {i}
  BY <1>1 DEF Settled, Ledger
<1>9. ASSUME NEW d \in Caller
      PROVE  Informed(proc[d])'
  <2>1. CASE d = c
    <3>1. Informed(y) /\ y.todo = "settle" /\ y.id = i
      BY <1>1 DEF i
    <3> QED BY <1>1, <1>3, <1>e, <2>1, <3>1 DEF Informed, Wants, Owes, Foreseen
  <2>2. CASE d # c
    <3>1. proc'[d] = proc[d] /\ Informed(proc[d]) /\ proc[d].pc \notin InLock
      BY <1>3, <1>5, <2>2
    <3>2. CASE proc[d].todo = "none"
      BY <1>1, <3>1, <3>2 DEF Informed, Wants, Owes
    <3>3. CASE proc[d].todo # "none"
      <4>1. proc[d].id \in Run /\ (proc[d].id # i => run'[proc[d].id] = run[proc[d].id])
        BY <1>r, <3>1, <3>3 DEF Informed
      <4>2. Foreseen(proc[d].id)' = Foreseen(proc[d].id)
        BY <1>e, <3>1, <4>1 DEF Foreseen
      <4> QED BY <1>1, <1>6, <1>8, <1>e, <2>2, <3>1, <4>1, <4>2
          DEF Informed, Wants, Owes, InLock
    <3> QED BY <3>2, <3>3
  <2> QED BY <2>1, <2>2
<1>10. RunsFit'
  <2>1. ASSUME NEW j \in Run
        PROVE  /\ run'[j].state = "none" =>
                    /\ run'[j].est = 0 /\ run'[j].charge = 0 /\ run'[j].settled = 0
                    /\ j \notin ledger'.open
               /\ j \in ledger'.open => run'[j].settled = 0
               /\ guard' = "monid" /\ run'[j].state = "running" => j \in ledger'.open
    <3>1. CASE j = i
      <4>1. run[i].state # "none" /\ (guard = "monid" => run[i].state = "final")
        BY <1>1, <1>2 DEF Informed, i
      <4> QED BY <1>1, <1>8, <1>r, <3>1, <4>1
    <3>2. CASE j # i
      BY <1>1, <1>8, <1>r, <3>2 DEF BooksInv, RunsFit
    <3> QED BY <3>1, <3>2
  <2> QED BY <2>1 DEF RunsFit
<1>11. ASSUME NEW s \in Scope
       PROVE  /\ Balanced(s)'
              /\ ledger'.spent[s] + ledger'.reserved[s] <= Budget[s] + Overrun(s)'
  <2>1. PICK held \in [Run -> Nat], booked \in [Run -> Nat] : Accounts(s, held, booked)
    BY DEF BooksInv, Balanced
  <2> DEFINE part == Part(i, s, run[i].est)
             cost == Part(i, s, y.cost)
  <2>2. part \in Nat /\ cost \in Nat /\ i \in Run
    BY <1>1, <1>4 DEF Part, i
  <2>3. held[i] = part /\ booked[i] = part
    <3>1. held[i] = part
      BY <1>1, <1>2, <2>1 DEF Accounts, i
    <3>2. held[i] <= booked[i] /\ booked[i] <= part /\ booked[i] \in Nat
      <4>1. Most(i) = run[i].est
        BY <1>2, <2>2, RunTypes DEF BooksInv, RateInv
      <4> QED BY <2>1, <2>2, <4>1 DEF Accounts
    <3> QED BY <2>2, <3>1, <3>2
  <2>4. PICK held2 \in [Run -> Nat], booked2 \in [Run -> Nat] :
          /\ held2[i] = 0 /\ booked2[i] = cost
          /\ \A j \in Run : j # i => held2[j] = held[j] /\ booked2[j] = booked[j]
    <3> DEFINE h == [held EXCEPT ![i] = 0]
               b == [booked EXCEPT ![i] = cost]
    <3>1. /\ h \in [Run -> Nat] /\ b \in [Run -> Nat] /\ h[i] = 0 /\ b[i] = cost
          /\ \A j \in Run : j # i => h[j] = held[j] /\ b[j] = booked[j]
      BY <2>2
    <3> HIDE DEF h, b
    <3> QED BY <3>1
  <2>5. /\ Total(held2) = Total(held) - held[i] + held2[i]
        /\ Total(booked2) = Total(booked) - booked[i] + booked2[i]
    BY <2>2, <2>4, TotalChanges
  <2>6. /\ Total(held) = ledger.reserved[s] /\ Total(held) \in Nat
        /\ Total(booked) = ledger.spent[s] + ledger.reserved[s] /\ Total(booked) \in Nat
        /\ ledger.spent[s] \in Nat /\ held[i] <= Total(held)
    BY <1>1, <2>1, <2>2, TotalBounds DEF Accounts, Ledger
  <2>7. /\ ledger'.reserved[s] = ledger.reserved[s] - part
        /\ ledger'.spent[s] = ledger.spent[s] + cost
    BY <1>4, <1>8, <2>2, <2>3, <2>6 DEF Taken, Added, Part
  <2>8. /\ Total(held2) = ledger'.reserved[s]
        /\ Total(booked2) = ledger'.spent[s] + ledger'.reserved[s]
    BY <2>2, <2>3, <2>4, <2>5, <2>6, <2>7
  <2>9. ledger'.spent[s] + ledger'.reserved[s] <= Budget[s] + Overrun(s)'
    <3> DEFINE old == [j \in Run |-> Part(j, s, Excess(j))]
               new == [j \in Run |-> Part(j, s, Excess(j))']
    <3>1. Budget[s] \in Nat /\ ledger.spent[s] + ledger.reserved[s] <= Budget[s] + Overrun(s)
      BY SpendAssumption DEF BooksInv, BudgetKept, Overrun
    <3>2. Overrun(s) = Total(old) /\ Overrun(s)' = Total(new)
      BY DEF Overrun
    <3>3. /\ \A j \in Run : j # i => Part(j, s, Excess(j))' = Part(j, s, Excess(j))
          /\ Part(i, s, Excess(i)) = 0
          /\ \A j \in Run : j = i => /\ Part(j, s, Excess(j))' \in Nat
                                    /\ cost <= part + Part(j, s, Excess(j))'
      <4>1. \A j \in Run : j # i => Part(j, s, Excess(j))' = Part(j, s, Excess(j))
        BY <1>r DEF Part, Excess, AtLeast
      <4>2. Excess(i) = 0
        BY <1>2, <2>2, RunTypes DEF BooksInv, RateInv
      <4>3. \A j \in Run : j = i =>
              Excess(j)' \in Nat /\ y.cost <= run[i].est + Excess(j)'
        BY <1>1, <1>4, <1>r DEF Excess, AtLeast
      <4> QED BY <1>1, <1>4, <1>r, <4>1, <4>2, <4>3 DEF Part
    <3>4. old \in [Run -> Int] /\ new \in [Run -> Int]
      <4>1. \A j \in Run : Part(j, s, Excess(j)) \in Nat
        BY RunTypes DEF BooksInv, RateInv, Part
      <4>2. \A j \in Run : Part(j, s, Excess(j))' \in Nat
        BY <3>3, <4>1
      <4> QED BY <4>1, <4>2
    <3>5. /\ old[i] = 0 /\ cost <= part + new[i] /\ new[i] \in Nat
          /\ \A j \in Run : j # i => old[j] = new[j]
      BY <2>2, <3>3
    <3> HIDE DEF old, new
    <3>6. Total(new) = Total(old) - old[i] + new[i] /\ Total(old) \in Int
      BY <2>2, <3>4, <3>5, TotalChanges
    <3> HIDE DEF part, cost
    <3> QED BY <2>2, <2>6, <2>7, <3>1, <3>2, <3>5, <3>6
  <2>10. ASSUME NEW j \in Run
         PROVE  /\ held2[j] <= booked2[j] /\ booked2[j] <= Part(j, s, Most(j))'
                /\ guard' = "monid" =>
                     /\ j \in ledger'.open => held2[j] = Part(j, s, run[j].est)'
                     /\ Part(j, s, Foreseen(j))' <= booked2[j]
    <3>1. /\ Part(j, s, run[j].est)' = Part(j, s, run[j].est)
          /\ Part(j, s, Foreseen(j))' = Part(j, s, Foreseen(j))
          /\ j # i => Part(j, s, Most(j))' = Part(j, s, Most(j))
      BY <1>e, <1>r DEF Part, Foreseen, Most, AtLeast
    <3>2. CASE j = i
      <4>1. guard = "monid" => Part(i, s, Foreseen(i)) <= cost
        BY <1>1, <1>2, <2>2 DEF Part
      <4>2. y.cost <= Most(j)' /\ Most(j)' \in Nat
        BY <1>1, <1>4, <1>r, <3>2 DEF Most, AtLeast
      <4>3. cost <= Part(j, s, Most(j))'
        BY <1>1, <1>4, <1>r, <3>2, <4>2 DEF Part
      <4> QED BY <1>1, <1>8, <2>2, <2>4, <3>1, <3>2, <4>1, <4>3
    <3>3. CASE j # i
      BY <1>1, <1>8, <2>1, <2>4, <3>1, <3>3 DEF Accounts
    <3> QED BY <3>2, <3>3
  <2>11. ASSUME NEW d \in Caller
         PROVE  /\ Wants(proc'[d]) => booked2[proc'[d].id] = 0
                /\ guard' = "treg" /\ Owes(proc'[d]) =>
                     held2[proc'[d].id] = Part(proc[d].id, s, run[proc[d].id].est)'
    <3>1. CASE d = c
      BY <1>1, <1>3, <3>1 DEF Wants, Owes
    <3>2. CASE d # c
      <4>1. proc'[d] = proc[d] /\ Informed(proc[d])
        BY <1>3, <1>5, <3>2
      <4>2. Wants(proc[d]) \/ (guard = "treg" /\ Owes(proc[d]))
              => proc[d].id \in Run /\ proc[d].id # i
        BY <1>6, <3>2, <4>1 DEF Informed, Wants, Owes
      <4>3. proc[d].id \in Run =>
              Part(proc[d].id, s, run[proc[d].id].est)' = Part(proc[d].id, s, run[proc[d].id].est)
        BY <1>e, <4>1 DEF Part
      <4> QED BY <1>1, <2>1, <2>4, <4>1, <4>2, <4>3 DEF Accounts
    <3> QED BY <3>1, <3>2
  <2>12. Accounts(s, held2, booked2)'
    BY <2>8, <2>10, <2>11, Zenon DEF Accounts
  <2> QED BY <2>4, <2>9, <2>12 DEF Balanced
<1> QED BY <1>7, <1>9, <1>10, <1>11 DEF BooksInv, BudgetKept, Overrun

LEMMA BooksInit == Init => BooksInv
<1> SUFFICES ASSUME Init PROVE BooksInv
  OBVIOUS
<1>1. RateInv
  BY RateInit
<1>2. \A c \in Caller : proc[c] = Idle
  BY DEF Init
<1>3. /\ \A s \in Scope : ledger.spent[s] = 0 /\ ledger.reserved[s] = 0
      /\ ledger.open = {}
  BY DEF Init, EmptyLedger
<1>4. \A i \in Run : /\ run[i].est = 0 /\ run[i].charge = 0 /\ run[i].settled = 0
                     /\ run[i].state = "none" /\ run[i].scopes = {}
  BY DEF Init, NewCall
<1>5. \A c \in Caller : proc[c].todo = "none" /\ proc[c].pc = "idle"
  BY <1>2 DEF Idle
<1>6. OneCall /\ RunsFit /\ \A c \in Caller : Informed(proc[c])
  BY <1>3, <1>4, <1>5 DEF OneCall, RunsFit, Informed, Wants, Owes
<1>7. BudgetKept
  <2> SUFFICES ASSUME NEW s \in Scope
               PROVE  ledger.spent[s] + ledger.reserved[s] <= Budget[s] + Overrun(s)
    BY DEF BudgetKept, Overrun
  <2> DEFINE over == [i \in Run |-> Part(i, s, Excess(i))]
  <2>1. over \in [Run -> Int] /\ \A i \in Run : over[i] = 0
    BY <1>4 DEF Part
  <2> HIDE DEF over
  <2>2. Total(over) = 0
    BY <2>1, TotalOfNothing
  <2> QED BY <1>3, <2>2, SpendAssumption DEF Overrun, over
<1>8. ASSUME NEW s \in Scope
      PROVE  Balanced(s)
  <2> DEFINE nothing == [i \in Run |-> 0]
  <2>1. nothing \in [Run -> Nat] /\ nothing \in [Run -> Int] /\ \A i \in Run : nothing[i] = 0
    OBVIOUS
  <2> HIDE DEF nothing
  <2>2. Total(nothing) = 0
    BY <2>1, TotalOfNothing
  <2>3. Accounts(s, nothing, nothing)
    BY <1>3, <1>4, <1>5, <2>1, <2>2 DEF Accounts, Wants, Owes, Part, Most, Foreseen, AtLeast
  <2> QED BY <2>1, <2>3 DEF Balanced
<1> QED BY <1>1, <1>6, <1>7, <1>8 DEF BooksInv

LEMMA BooksStep ==
  ASSUME MaxLapses = 0
  PROVE  BooksInv /\ [Next]_vars => BooksInv'
<1> SUFFICES ASSUME BooksInv, [Next]_vars PROVE BooksInv'
  OBVIOUS
<1>1. RateInv'
  BY RateStep DEF BooksInv
<1>2. ASSUME NEW c \in Caller, NEW est \in Estimates,
             NEW scopes \in {{"day"}, Scope}, Ask(c, est, scopes)
      PROVE  BooksInv'
  <2>1. scopes \in SUBSET Scope
    BY DEF Scope
  <2> QED BY <1>1, <1>2, <2>1, AskKeepsBooks
<1>3. ASSUME NEW c \in Caller, Acquire(c) \/ TregCheck(c) \/ Read(c)
      PROVE  BooksInv'
  BY <1>1, <1>3, EnteringKeepsBooks
<1>4. ASSUME NEW c \in Caller,
             Busy(c) \/ Crash(c) \/ Release(c) \/ (\E i \in Run : GetRun(c, i))
      PROVE  BooksInv'
  BY <1>1, <1>4, LeavingKeepsBooks
<1>5. ASSUME NEW c \in Caller, WriteReserve(c)
      PROVE  BooksInv'
  BY <1>1, <1>5, ReservingKeepsBooks
<1>6. ASSUME NEW c \in Caller, WriteSettle(c)
      PROVE  BooksInv'
  BY <1>1, <1>6, SettlingKeepsBooks
<1>7. ASSUME NEW c \in Caller,
             \/ Answered(c) \/ MonidRuns(c) \/ MonidRejects(c)
             \/ MonidIsSilent(c) \/ TregRuns(c) \/ TregFails(c)
      PROVE  BooksInv'
  BY <1>1, <1>7, AnswersKeepBooks
<1>8. ASSUME \/ \E i \in Run : ProviderEnds(i)
             \/ LockExpires \/ MinutePasses \/ UNCHANGED vars
      PROVE  BooksInv'
  BY <1>1, <1>8, ElsewhereKeepsBooks
<1> QED BY <1>2, <1>3, <1>4, <1>5, <1>6, <1>7, <1>8, Zenon DEF Next

\* While no lease ends under its holder, what is spent and reserved passes the
\* daily and the mission budget by no more than what was charged beyond the
\* reservations, however many calls are made by however many processes, whoever
\* dies and whatever providers charge: reserve and settle.
THEOREM BudgetIsKept ==
  ASSUME MaxLapses = 0
  PROVE  Spec => []BudgetKept
<1>1. Init => BooksInv
  BY BooksInit
<1>2. BooksInv /\ [Next]_vars => BooksInv'
  BY BooksStep
<1>3. BooksInv => BudgetKept
  BY DEF BooksInv
<1> QED BY <1>1, <1>2, <1>3, PTL DEF Spec

\* A run is booked once: the ledger never holds more than each run's reservation
\* or its one cost, though callers and look-ups settle it again.
THEOREM RunsAreBookedOnce ==
  ASSUME MaxLapses = 0
  PROVE  Spec => []NothingBookedTwice
<1>1. Init => BooksInv
  BY BooksInit
<1>2. BooksInv /\ [Next]_vars => BooksInv'
  BY BooksStep
<1>3. BooksInv => NothingBookedTwice
  <2> SUFFICES ASSUME BooksInv, NEW s \in Scope
               PROVE  ledger.spent[s] + ledger.reserved[s]
                        <= Total([i \in Run |-> Part(i, s, Most(i))])
    BY DEF NothingBookedTwice
  <2>1. PICK held \in [Run -> Nat], booked \in [Run -> Nat] : Accounts(s, held, booked)
    BY DEF BooksInv, Balanced
  <2> DEFINE parts == [i \in Run |-> Part(i, s, Most(i))]
  <2>2. parts \in [Run -> Int] /\ booked \in [Run -> Int]
    BY RunTypes DEF BooksInv, RateInv, Part
  <2>3. \A i \in Run : booked[i] <= parts[i]
    BY <2>1 DEF Accounts
  <2>4. Total([i \in Run |-> Part(i, s, Most(i))]) = Total(parts)
    OBVIOUS
  <2> HIDE DEF parts
  <2> QED BY <2>1, <2>2, <2>3, <2>4, TotalGrows DEF Accounts
<1> QED BY <1>1, <1>2, <1>3, PTL DEF Spec

\* Monid's ledger covers what the provider charges up to the reservations, also for
\* runs whose answer was lost or whose caller died: a run keeps its reservation until
\* its cost is known.
THEOREM MonidChargesAreCovered ==
  ASSUME MaxLapses = 0
  PROVE  Spec => []ChargesAreCovered
<1>1. Init => BooksInv
  BY BooksInit
<1>2. BooksInv /\ [Next]_vars => BooksInv'
  BY BooksStep
<1>3. BooksInv => ChargesAreCovered
  <2> SUFFICES ASSUME BooksInv, guard = "monid", NEW s \in Scope
               PROVE  Total([i \in Run |-> Part(i, s, Foreseen(i))])
                        <= ledger.spent[s] + ledger.reserved[s]
    BY DEF ChargesAreCovered, Covered
  <2>1. PICK held \in [Run -> Nat], booked \in [Run -> Nat] : Accounts(s, held, booked)
    BY DEF BooksInv, Balanced
  <2> DEFINE parts == [i \in Run |-> Part(i, s, Foreseen(i))]
  <2>2. parts \in [Run -> Int] /\ booked \in [Run -> Int]
    BY RunTypes DEF BooksInv, RateInv, Part
  <2>3. \A i \in Run : parts[i] <= booked[i]
    BY <2>1 DEF Accounts
  <2>4. Total([i \in Run |-> Part(i, s, Foreseen(i))]) = Total(parts)
    OBVIOUS
  <2> HIDE DEF parts
  <2> QED BY <2>1, <2>2, <2>3, <2>4, TotalGrows DEF Accounts
<1> QED BY <1>1, <1>2, <1>3, PTL DEF Spec
=============================================================================
