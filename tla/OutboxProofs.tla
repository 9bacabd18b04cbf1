------------------------------ MODULE OutboxProofs ------------------------------
(***************************************************************************)
(* Theorems about Outbox, for any number of messages, senders and editors: *)
(* the types, what a live lease gives the senders of a channel, and how    *)
(* many attempts overlapping listings can come to.                         *)
(***************************************************************************)
EXTENDS Outbox, FiniteSetTheorems, TLAPS

LEMMA Bounds ==
  /\ MaxMessage \in Nat \ {0} /\ MaxAttempts \in Nat \ {0}
  /\ LeaseTicks \in Nat \ {0} /\ MaxCrashes \in Nat
  BY OutboxAssumption

-----------------------------------------------------------------------------
(* Types.                                                                  *)

\* An update has its patch.
PatchKnown ==
  \A c \in Caller : call[c].pc \in {"answered", "writing"} => call[c].patch # "none"

TypeInv == TypeOK /\ PatchKnown

LEMMA LessType == ASSUME NEW k \in Nat, NEW n \in 0..k PROVE Less(n) \in 0..k
  BY DEF Less

LEMMA NothingType == Nothing \in Record /\ Queued \in Record
<1>1. 0 \in 0..LeaseTicks /\ 0 \in Nat
  BY Bounds
<1>2. Nothing \in Record
  BY <1>1 DEF Nothing, Record
<1>3. \A r \in Record : [r EXCEPT !.status = "queued"] \in Record
  BY DEF Record
<1> QED BY <1>2, <1>3 DEF Queued

LEMMA PatchedType ==
  ASSUME NEW r \in Record, NEW patch \in Patch \ {"none"}
  PROVE  Patched(r, patch) \in Record
<1>1. 0 \in 0..LeaseTicks /\ 0 \in Nat
  BY Bounds
<1>2. CASE patch = "status"
  BY <1>2 DEF Patched
<1>3. CASE patch = "exhausted"
  BY <1>3 DEF Patched, Record
<1>4. CASE patch = "retry"
  BY <1>1, <1>4 DEF Patched, Record
<1>5. CASE patch \in {"delivered", "ambiguous", "failed", "confirm"}
  <2> DEFINE status == IF patch \in {"ambiguous", "failed"} THEN patch ELSE "delivered"
             receipt == r.receipt \/ patch = "delivered"
  <2>1. Patched(r, patch)
          = [r EXCEPT !.status = status, !.left = 0, !.receipt = receipt]
    BY <1>5 DEF Patched
  <2>2. status \in {"ambiguous", "failed", "delivered"}
    OBVIOUS
  <2>3. receipt \in BOOLEAN
    OBVIOUS
  <2> HIDE DEF status, receipt
  <2> QED BY <1>1, <2>1, <2>2, <2>3 DEF Record
<1> QED BY <1>2, <1>3, <1>4, <1>5 DEF Patch

LEMMA NoCallType == NoCall \in Call
  BY Bounds, NothingType DEF NoCall, Call, Message, Patch

LEMMA TypeInit == Init => TypeInv
<1> SUFFICES ASSUME Init PROVE TypeInv
  OBVIOUS
<1>1. TypeOK
  BY NothingType, NoCallType, Bounds DEF Init, TypeOK
<1>2. PatchKnown
  BY DEF Init, PatchKnown, NoCall
<1> QED BY <1>1, <1>2 DEF TypeInv

\* What the pieces of an action do to the types.
LEMMA CallStep ==
  ASSUME TypeInv, NEW c \in Caller, NEW next \in Call,
         next.pc \in {"answered", "writing"} => next.patch # "none",
         call' = [call EXCEPT ![c] = next]
  PROVE  call' \in [Caller -> Call] /\ PatchKnown'
<1>1. call \in [Caller -> Call]
  BY DEF TypeInv, TypeOK
<1>2. \A d \in Caller : call'[d] = IF d = c THEN next ELSE call[d]
  BY <1>1
<1> QED BY <1>1, <1>2 DEF TypeInv, PatchKnown

LEMMA DoneType ==
  ASSUME TypeInv, NEW c \in Caller, Done(c)
  PROVE  call' \in [Caller -> Call] /\ PatchKnown'
  BY CallStep, NoCallType DEF Done, NoCall

LEMMA OutStep ==
  ASSUME TypeInv, NEW m \in Message, NEW next \in Record,
         out' = [out EXCEPT ![m] = next]
  PROVE  out' \in [Message -> Record]
  BY DEF TypeInv, TypeOK

LEMMA IndexStep ==
  ASSUME TypeInv, NEW m \in Message, NEW next \in SUBSET Recoverable,
         index' = [index EXCEPT ![m] = next]
  PROVE  index' \in [Message -> SUBSET Recoverable]
  BY DEF TypeInv, TypeOK

LEMMA CreatedType ==
  ASSUME TypeInv, NEW m \in Message, Created(m)
  PROVE  /\ out' \in [Message -> Record]
         /\ index' \in [Message -> SUBSET Recoverable]
<1>1. {"queued"} \subseteq Recoverable
  BY DEF Recoverable
<1> QED BY <1>1, OutStep, IndexStep, NothingType DEF Created, TypeInv, TypeOK

LEMMA TypeNext == TypeInv /\ [Next]_vars => TypeInv'
<1> SUFFICES ASSUME TypeInv, [Next]_vars PROVE TypeInv'
  OBVIOUS
<1>0. /\ out \in [Message -> Record] /\ call \in [Caller -> Call]
      /\ index \in [Message -> SUBSET Recoverable]
      /\ arrived \subseteq Message /\ crashes \in 0..MaxCrashes
      /\ \A c \in Sender : c \in Caller
      /\ \A e \in Editor : e \in Caller
      /\ \A c \in Caller : call[c].msg \in Message /\ call[c].seen \in Record
  BY DEF TypeInv, TypeOK, Caller, Call
<1>1. CASE Tick
  <2>1. \A r \in Record : [r EXCEPT !.left = Less(@)] \in Record
    BY LessType, Bounds DEF Record
  <2>2. \A c \in Caller : [call[c] EXCEPT !.seen.left = Less(@)] \in Call
    BY <1>0, <2>1 DEF Call
  <2>3. out' \in [Message -> Record] /\ call' \in [Caller -> Call]
    BY <1>0, <1>1, <2>1, <2>2 DEF Tick
  <2>4. \A c \in Caller : call'[c].pc = call[c].pc /\ call'[c].patch = call[c].patch
    BY <1>0, <1>1 DEF Tick, Call
  <2> QED BY <1>0, <1>1, <2>3, <2>4 DEF Tick, TypeInv, TypeOK, PatchKnown
<1>2. ASSUME NEW m \in Message, Notify(m) PROVE TypeInv'
  BY <1>0, <1>2, CreatedType DEF Notify, TypeInv, TypeOK, PatchKnown
<1>3. ASSUME NEW c \in Sender, NEW m \in Message, Send(c, m) PROVE TypeInv'
  <2>1. /\ out' \in [Message -> Record]
        /\ index' \in [Message -> SUBSET Recoverable]
    BY <1>3, CreatedType DEF Send
  <2>2. out'[m] \in Record
    BY <2>1
  <2> DEFINE next == [pc |-> "called", msg |-> m, seen |-> out'[m], patch |-> "none"]
  <2>3. next \in Call /\ next.pc = "called"
    BY <2>2 DEF Call, Patch
  <2>4. call' = [call EXCEPT ![c] = next]
    BY <1>3 DEF Send, Begin
  <2> HIDE DEF next
  <2>5. call' \in [Caller -> Call] /\ PatchKnown'
    BY <1>0, <2>3, <2>4, CallStep
  <2> QED BY <1>0, <1>3, <2>1, <2>5 DEF Send, TypeInv, TypeOK
<1>4. ASSUME NEW c \in Caller, NEW m \in Message, NEW timer \in Timer,
             Recover(c, m, timer)
      PROVE  TypeInv'
  <2> DEFINE next == [pc |-> timer, msg |-> m, seen |-> Nothing, patch |-> "none"]
  <2>1. next \in Call /\ next.pc \in Timer
    BY NothingType DEF Call, Patch
  <2>2. call' = [call EXCEPT ![c] = next]
    BY <1>4 DEF Recover, Begin
  <2> HIDE DEF next
  <2>3. call' \in [Caller -> Call] /\ PatchKnown'
    BY <2>1, <2>2, CallStep DEF Timer
  <2> QED BY <1>0, <1>4, <2>3 DEF Recover, TypeInv, TypeOK
<1>15. ASSUME NEW c \in Caller, NEW timer \in Timer, ListRead(c, timer) PROVE TypeInv'
  <2> DEFINE stale == [call[c] EXCEPT !.pc = "stale"]
             called == [call[c] EXCEPT !.pc = "called", !.seen = out[call[c].msg]]
  <2>1. /\ stale \in Call /\ stale.pc = "stale"
        /\ called \in Call /\ called.pc = "called"
    BY <1>0 DEF Call
  <2>2. \/ call' = [call EXCEPT ![c] = stale]
        \/ call' = [call EXCEPT ![c] = called]
        \/ Done(c)
    BY <1>0, <1>15 DEF ListRead, Goto
  <2> HIDE DEF stale, called
  <2>3. call' \in [Caller -> Call] /\ PatchKnown'
    BY <2>1, <2>2, CallStep, DoneType
  <2> QED BY <1>0, <1>15, <2>3 DEF ListRead, TypeInv, TypeOK
<1>16. ASSUME NEW c \in Caller, Cleanup(c) PROVE TypeInv'
  <2>1. index' \in [Message -> SUBSET Recoverable]
    BY <1>0, <1>16, IndexStep DEF Cleanup
  <2>2. call' \in [Caller -> Call] /\ PatchKnown'
    BY <1>16, DoneType DEF Cleanup
  <2> QED BY <1>0, <1>16, <2>1, <2>2 DEF Cleanup, TypeInv, TypeOK
<1>5. ASSUME NEW c \in Sender, GiveUp(c) \/ Refused(c) PROVE TypeInv'
  <2>1. Done(c) /\ UNCHANGED <<out, index, arrived, crashes>>
    BY <1>5 DEF GiveUp, Refused
  <2> QED BY <1>0, <2>1, DoneType DEF TypeInv, TypeOK
<1>6. ASSUME NEW c \in Sender, Exhaust(c) PROVE TypeInv'
  <2> DEFINE next == [call[c] EXCEPT !.pc = "answered", !.patch = "exhausted"]
  <2>1. next \in Call /\ next.patch = "exhausted"
    BY <1>0 DEF Call, Patch
  <2>2. call' = [call EXCEPT ![c] = next]
    BY <1>0, <1>6 DEF Exhaust
  <2> HIDE DEF next
  <2>3. call' \in [Caller -> Call] /\ PatchKnown'
    BY <1>0, <2>1, <2>2, CallStep
  <2> QED BY <1>0, <1>6, <2>3 DEF Exhaust, TypeInv, TypeOK
<1>7. ASSUME NEW c \in Sender, Claim(c) PROVE TypeInv'
  <2> DEFINE m == call[c].msg
             tries == out[m].attempts + 1
             record == [out[m] EXCEPT !.status = "delivering", !.left = LeaseTicks,
                                      !.attempts = tries]
             next == [call[c] EXCEPT !.pc = "sending"]
  <2>1. out[m] \in Record /\ out[m].attempts \in Nat
    BY <1>0 DEF Record
  <2>2. tries \in Nat /\ LeaseTicks \in 0..LeaseTicks
    BY <2>1, Bounds
  <2>3. out' = [out EXCEPT ![m] = record]
    BY <1>0, <1>7 DEF Claim
  <2> HIDE DEF tries
  <2>4. record \in Record
    BY <2>1, <2>2 DEF Record
  <2> HIDE DEF record
  <2>5. out' \in [Message -> Record]
    BY <1>0, <2>3, <2>4, OutStep
  <2>6. next \in Call /\ next.pc = "sending"
    BY <1>0 DEF Call
  <2>7. call' = [call EXCEPT ![c] = next]
    BY <1>0, <1>7 DEF Claim, Goto
  <2> HIDE DEF next
  <2>8. call' \in [Caller -> Call] /\ PatchKnown'
    BY <1>0, <2>6, <2>7, CallStep
  <2>9. index' \in [Message -> SUBSET Recoverable]
    <3>1. (index[m] \ {out[m].status}) \cup {"delivering"} \subseteq Recoverable
      BY <1>0 DEF Recoverable
    <3> QED BY <1>0, <1>7, <3>1, IndexStep DEF Claim
  <2> QED BY <1>0, <1>7, <2>5, <2>8, <2>9 DEF Claim, TypeInv, TypeOK
<1>8. ASSUME NEW c \in Sender, Quarantine(c) PROVE TypeInv'
  <2> DEFINE m == call[c].msg
             record == [out[m] EXCEPT !.status = "ambiguous", !.left = 0]
  <2>1. record \in Record
    <3>1. out[m] \in Record /\ 0 \in 0..LeaseTicks
      BY <1>0, Bounds
    <3> QED BY <3>1 DEF Record
  <2>2. out' = [out EXCEPT ![m] = record]
    BY <1>0, <1>8 DEF Quarantine
  <2>3. call' \in [Caller -> Call] /\ PatchKnown'
    BY <1>0, <1>8, DoneType DEF Quarantine
  <2> HIDE DEF record
  <2>4. out' \in [Message -> Record]
    BY <1>0, <2>1, <2>2, OutStep
  <2>5. index' \in [Message -> SUBSET Recoverable]
    BY <1>0, <1>8, IndexStep DEF Quarantine
  <2> QED BY <1>0, <1>8, <2>3, <2>4, <2>5 DEF Quarantine, TypeInv, TypeOK
<1>9. ASSUME NEW c \in Sender, Answering(c) PROVE TypeInv'
  <2>1. PICK answer \in Answers : Answer(c, answer)
    BY <1>9 DEF Answering
  <2>2. arrived' \subseteq Message
    BY <1>0, <2>1 DEF Answer
  <2>3. CASE answer = "thrown"
    BY <1>0, <2>1, <2>2, <2>3, DoneType DEF Answer, TypeInv, TypeOK
  <2>4. CASE answer # "thrown"
    <3> DEFINE next == [call[c] EXCEPT !.pc = "answered", !.patch = answer]
    <3>1. answer \in Patch \ {"none"}
      BY <2>4, OutboxAssumption DEF Patch
    <3>2. next \in Call /\ next.patch = answer
      BY <1>0, <3>1 DEF Call
    <3>3. call' = [call EXCEPT ![c] = next]
      BY <1>0, <2>1, <2>4 DEF Answer
    <3> HIDE DEF next
    <3>4. call' \in [Caller -> Call] /\ PatchKnown'
      BY <1>0, <3>1, <3>2, <3>3, CallStep
    <3> QED BY <1>0, <2>1, <2>2, <3>4 DEF Answer, TypeInv, TypeOK
  <2> QED BY <2>3, <2>4
<1>10. ASSUME NEW c \in Caller, UpdateRead(c) PROVE TypeInv'
  <2> DEFINE next == [call[c] EXCEPT !.pc = "writing", !.seen = out[call[c].msg]]
  <2>1. next \in Call /\ next.patch = call[c].patch
    BY <1>0 DEF Call
  <2>2. call[c].patch # "none"
    BY <1>10 DEF UpdateRead, At, TypeInv, PatchKnown
  <2>3. call' = [call EXCEPT ![c] = next]
    BY <1>0, <1>10 DEF UpdateRead
  <2> HIDE DEF next
  <2>4. call' \in [Caller -> Call] /\ PatchKnown'
    BY <1>0, <2>1, <2>2, <2>3, CallStep
  <2> QED BY <1>0, <1>10, <2>4 DEF UpdateRead, TypeInv, TypeOK
<1>11. ASSUME NEW c \in Caller, UpdateWrite(c) PROVE TypeInv'
  <2>1. call[c].patch \in Patch \ {"none"}
    BY <1>0, <1>11 DEF UpdateWrite, At, TypeInv, PatchKnown, Call
  <2>2. Patched(call[c].seen, call[c].patch) \in Record
    BY <1>0, <2>1, PatchedType
  <2>3. out' \in [Message -> Record]
    BY <1>0, <1>11, <2>2, OutStep DEF UpdateWrite
  <2>4. call' \in [Caller -> Call] /\ PatchKnown'
    BY <1>11, DoneType DEF UpdateWrite
  <2>5. index' \in [Message -> SUBSET Recoverable]
    BY <1>0, <1>11, IndexStep DEF UpdateWrite, Indexed
  <2> QED BY <1>0, <1>11, <2>3, <2>4, <2>5 DEF UpdateWrite, TypeInv, TypeOK
<1>12. ASSUME NEW e \in Editor, NEW m \in Message, NEW request \in Requests,
              Edit(e, m, request)
       PROVE  TypeInv'
  <2> DEFINE next == [pc |-> "answered", msg |-> m, seen |-> Nothing,
                      patch |-> request]
  <2>1. request \in Patch \ {"none"}
    BY OutboxAssumption DEF Patch
  <2>2. next \in Call /\ next.patch = request
    BY <2>1, NothingType DEF Call
  <2>3. call' = [call EXCEPT ![e] = next]
    BY <1>12 DEF Edit, Begin
  <2> HIDE DEF next
  <2>4. call' \in [Caller -> Call] /\ PatchKnown'
    BY <1>0, <2>1, <2>2, <2>3, CallStep
  <2> QED BY <1>0, <1>12, <2>4 DEF Edit, TypeInv, TypeOK
<1>13. ASSUME NEW c \in Sender, Crash(c) PROVE TypeInv'
  <2>1. call' \in [Caller -> Call] /\ PatchKnown'
    BY <1>0, <1>13, DoneType DEF Crash
  <2>2. crashes' \in 0..MaxCrashes /\ arrived' \subseteq Message
    BY <1>0, <1>13, Bounds DEF Crash
  <2> QED BY <1>0, <1>13, <2>1, <2>2 DEF Crash, TypeInv, TypeOK
<1>14. CASE UNCHANGED vars
  BY <1>14 DEF vars, TypeInv, TypeOK, PatchKnown
<1> QED
  BY <1>0, <1>1, <1>2, <1>3, <1>4, <1>5, <1>6, <1>7, <1>8, <1>9, <1>10, <1>11,
     <1>12, <1>13, <1>14, <1>15, <1>16 DEF Next, Delivering, Updating, Listing, Caller

\* The records, the index and the calls keep their types: claimOutbox, updateOutbox
\* and every caller of them.
THEOREM OutboxTypes == Spec => []TypeOK
<1>1. TypeInv => TypeOK
  BY DEF TypeInv
<1> QED BY <1>1, TypeInit, TypeNext, PTL DEF Spec

-----------------------------------------------------------------------------
(***************************************************************************)
(* What a lease gives the senders of a channel's message, when they are in *)
(* time.  From the claim to the end of its update a call has the record to *)
(* itself: no claim succeeds on it, nobody finds it interrupted, and a     *)
(* delivery status, which is for messages delivered before, is written     *)
(* over another record.  So what the update read is what it overwrites.    *)
(***************************************************************************)
NoConfirmations == "confirm" \notin Requests

OnChannel(c) == call[c].msg \notin Webhook
Updates(c) == call[c].pc \in {"answered", "writing"}
Owns(c) == OnChannel(c) /\ call[c].pc \in {"sending", "answered", "writing"}

LeaseOK ==
  \A c \in Sender : Owns(c) =>
    out[call[c].msg].status = "delivering" /\ out[call[c].msg].left > 0
UniqueOK ==
  \A c, d \in Sender : Owns(c) /\ Owns(d) /\ call[c].msg = call[d].msg => c = d
PatchOK ==
  \A c \in Sender :
    /\ call[c].pc \in Timer \cup {"called", "sending"} => call[c].patch = "none"
    /\ OnChannel(c) /\ Updates(c) => call[c].patch \in {"delivered", "ambiguous"}
ReceiptOK ==
  /\ \A m \in Message \ Webhook : out[m].receipt => out[m].status = "delivered"
  /\ \A c \in Sender : OnChannel(c) /\ call[c].pc = "writing" => ~call[c].seen.receipt
EditorOK ==
  \A e \in Editor :
    /\ call[e].pc = "idle" \/ Updates(e)
    /\ OnChannel(e) /\ Updates(e) =>
         call[e].patch = "status" /\ out[call[e].msg].status = "delivered"
    /\ OnChannel(e) /\ call[e].pc = "writing" => call[e].seen.status = "delivered"

LeaseFacts == LeaseOK /\ UniqueOK /\ PatchOK /\ ReceiptOK /\ EditorOK
LeaseInv == TypeInv /\ LeaseFacts

LEMMA LeaseInit == Init => LeaseInv
<1> SUFFICES ASSUME Init PROVE LeaseInv
  OBVIOUS
<1>1. \A c \in Caller : call[c] = NoCall
  BY DEF Init
<1>2. \A c \in Caller : call[c].pc = "idle"
  BY <1>1 DEF NoCall
<1>3. \A c \in Sender : c \in Caller
  BY DEF Caller
<1>4. \A e \in Editor : e \in Caller
  BY DEF Caller
<1>5. LeaseOK /\ UniqueOK
  BY <1>2, <1>3 DEF LeaseOK, UniqueOK, Owns
<1>6. PatchOK /\ EditorOK
  BY <1>2, <1>3, <1>4 DEF PatchOK, EditorOK, Updates, Timer
<1>7. ReceiptOK
  BY <1>2, <1>3 DEF ReceiptOK, Init, Nothing
<1> QED BY <1>5, <1>6, <1>7, TypeInit DEF LeaseInv, LeaseFacts

\* A step of one call that writes no channel's record and begins to own none.
Quiet(c, next) ==
  \/ next.pc = "idle"
  \/ c \in Sender /\ next.pc = "stale"
  \/ c \in Sender /\ next.pc \in Timer \cup {"called"} /\ next.patch = "none"
  \/ /\ c \in Sender /\ Owns(c) /\ next.pc = "answered"
     /\ next.msg = call[c].msg /\ next.patch \in {"delivered", "ambiguous"}
  \/ next.msg \in Webhook /\ next.pc \in {"answered", "writing"}
  \/ c \in Sender /\ next.msg \in Webhook /\ next.pc = "sending" /\ next.patch = "none"

LEMMA QuietStep ==
  ASSUME LeaseInv, NEW c \in Caller, NEW next \in Call, Quiet(c, next),
         call' = [call EXCEPT ![c] = next],
         \A m \in Message \ Webhook : out'[m] = out[m]
  PROVE  LeaseFacts'
<1>1. /\ call'[c] = next
      /\ \A d \in Caller : d # c => call'[d] = call[d]
      /\ \A d \in Sender : d \in Caller
      /\ \A e \in Editor : e \in Caller /\ e \notin Sender
      /\ \A d \in Caller : call[d].msg \in Message
      /\ Timer = {"channels", "webhooks"}
  BY OutboxAssumption DEF LeaseInv, TypeInv, TypeOK, Caller, Call, Timer
<1>2. \A d \in Sender : Owns(d)' => /\ Owns(d) /\ call'[d].msg = call[d].msg
                                     /\ out'[call[d].msg] = out[call[d].msg]
  BY <1>1 DEF Owns, OnChannel, Quiet
<1>3. LeaseOK' /\ UniqueOK'
  BY <1>2 DEF LeaseInv, LeaseFacts, LeaseOK, UniqueOK
<1>4. PatchOK'
  BY <1>1 DEF LeaseInv, LeaseFacts, PatchOK, Quiet, Updates, OnChannel
<1>5. ReceiptOK'
  BY <1>1 DEF LeaseInv, LeaseFacts, ReceiptOK, Quiet, OnChannel
<1>6. EditorOK'
  <2>1. ASSUME NEW e \in Editor, e # c PROVE EditorOK!(e)'
    BY <1>1, <2>1 DEF LeaseInv, LeaseFacts, EditorOK, Updates, OnChannel
  <2>2. ASSUME NEW e \in Editor, e = c PROVE EditorOK!(e)'
    BY <1>1, <2>2 DEF Quiet, Updates, OnChannel
  <2> QED BY <2>1, <2>2 DEF EditorOK
<1> QED BY <1>3, <1>4, <1>5, <1>6 DEF LeaseFacts

LEMMA DoneStep ==
  ASSUME LeaseInv, NEW c \in Caller, Done(c),
         \A m \in Message \ Webhook : out'[m] = out[m]
  PROVE  LeaseFacts'
  BY QuietStep, NoCallType DEF Done, NoCall, Quiet

\* What is done for a webhook is of no account for a channel's messages.
LEMMA WebhookStep ==
  ASSUME LeaseInv, NEW c \in Caller, ~OnChannel(c),
         \/ c \in Sender /\ (Claim(c) \/ Quarantine(c) \/ Exhaust(c) \/ Answering(c))
         \/ UpdateRead(c) \/ UpdateWrite(c)
  PROVE  LeaseFacts'
<1> DEFINE m == call[c].msg
<1>1. /\ out \in [Message -> Record] /\ call \in [Caller -> Call]
      /\ m \in Webhook /\ m \in Message /\ call[c] \in Call
  BY DEF LeaseInv, TypeInv, TypeOK, OnChannel, Call
<1>2. \A n \in Message \ Webhook : out'[n] = out[n]
  BY <1>1 DEF Claim, Quarantine, Exhaust, Answering, Answer, UpdateRead, UpdateWrite
<1>3. ASSUME NEW pc \in {"sending", "answered", "writing"}, NEW patch \in Patch,
             NEW seen \in Record,
             call' = [call EXCEPT ![c] = [call[c] EXCEPT !.pc = pc, !.patch = patch,
                                                         !.seen = seen]],
             pc = "sending" => c \in Sender /\ patch = "none"
      PROVE  LeaseFacts'
  <2> DEFINE next == [call[c] EXCEPT !.pc = pc, !.patch = patch, !.seen = seen]
  <2>1. /\ next \in Call
        /\ next.pc = pc /\ next.msg = m /\ next.patch = patch
    BY <1>1 DEF Call
  <2>2. call' = [call EXCEPT ![c] = next]
    BY <1>3
  <2> HIDE DEF next
  <2>3. Quiet(c, next)
    BY <1>1, <1>3, <2>1 DEF Quiet
  <2> QED BY <1>2, <2>1, <2>2, <2>3, QuietStep
<1>4. call[c].patch \in Patch /\ call[c].seen \in Record /\ out[m] \in Record
  BY <1>1 DEF Call
<1>5. CASE c \in Sender /\ Claim(c)
  <2>1. call[c].patch = "none"
    BY <1>5 DEF Claim, MayClaim, At, LeaseInv, LeaseFacts, PatchOK
  <2>2. call' = [call EXCEPT ![c] = [call[c] EXCEPT !.pc = "sending", !.patch = "none",
                                                    !.seen = call[c].seen]]
    BY <1>1, <1>5, <2>1 DEF Claim, Goto, Call
  <2>3. "none" \in Patch
    BY DEF Patch
  <2> QED BY <1>3, <1>4, <1>5, <2>2, <2>3
<1>6. CASE Quarantine(c) \/ UpdateWrite(c)
  BY <1>2, <1>6, DoneStep DEF Quarantine, UpdateWrite
<1>7. CASE Exhaust(c)
  <2>1. call' = [call EXCEPT ![c] = [call[c] EXCEPT !.pc = "answered", !.patch = "exhausted",
                                                    !.seen = call[c].seen]]
    BY <1>1, <1>7 DEF Exhaust, Call
  <2>2. "exhausted" \in Patch
    BY DEF Patch
  <2> QED BY <1>3, <1>4, <2>1, <2>2
<1>8. CASE Answering(c)
  <2>1. PICK answer \in Answers : Answer(c, answer)
    BY <1>8 DEF Answering
  <2>2. CASE answer = "thrown"
    BY <1>2, <2>1, <2>2, DoneStep DEF Answer
  <2>3. CASE answer # "thrown"
    <3>1. call' = [call EXCEPT ![c] = [call[c] EXCEPT !.pc = "answered", !.patch = answer,
                                                    !.seen = call[c].seen]]
      BY <1>1, <2>1, <2>3 DEF Answer, Call
    <3>2. answer \in Patch
      BY <2>3, OutboxAssumption DEF Patch
    <3> QED BY <1>3, <1>4, <3>1, <3>2
  <2> QED BY <2>2, <2>3
<1>9. CASE UpdateRead(c)
  <2>1. call' = [call EXCEPT ![c] = [call[c] EXCEPT !.pc = "writing", !.patch = call[c].patch,
                                                    !.seen = out[m]]]
    BY <1>1, <1>9 DEF UpdateRead, Call
  <2> QED BY <1>3, <1>4, <2>1
<1> QED BY <1>5, <1>6, <1>7, <1>8, <1>9

LEMMA LeaseNext ==
  ASSUME NoConfirmations, LeaseInv, [TimelyNext]_vars
  PROVE  LeaseInv'
<1>a. TypeInv'
  BY TypeNext DEF LeaseInv, TimelyNext
<1>b. /\ out \in [Message -> Record] /\ call \in [Caller -> Call]
      /\ \A c \in Sender : c \in Caller /\ c \notin Editor
      /\ \A e \in Editor : e \in Caller /\ e \notin Sender
      /\ \A c \in Caller : call[c].msg \in Message /\ call[c] \in Call
      /\ \A m \in Message : out[m].left \in 0..LeaseTicks
      /\ LeaseTicks \in Nat \ {0} /\ Timer = {"channels", "webhooks"}
  BY OutboxAssumption, Bounds
  DEF LeaseInv, TypeInv, TypeOK, Caller, Call, Record, Timer
<1> USE DEF LeaseInv, LeaseFacts, OnChannel, Updates
<1>c. NoCall \in Call /\ NoCall.pc = "idle" /\ NoCall.patch = "none"
  BY NoCallType DEF NoCall
<1>1. ASSUME Tick, InTime PROVE LeaseFacts'
  <2>1. \A m \in Message :
          /\ out'[m].status = out[m].status
          /\ out'[m].receipt = out[m].receipt
    BY <1>b, <1>1 DEF Tick, Record
  <2>2. \A c \in Caller :
          /\ call'[c].pc = call[c].pc /\ call'[c].msg = call[c].msg
          /\ call'[c].patch = call[c].patch
          /\ call'[c].seen.status = call[c].seen.status
          /\ call'[c].seen.receipt = call[c].seen.receipt
    BY <1>b, <1>1 DEF Tick, Call, Record
  <2>3. \A c \in Sender : Owns(c) => Sends(c)
    BY DEF PatchOK, Owns, Sends
  <2>4. LeaseOK'
    BY <1>b, <1>1, <2>1, <2>2, <2>3 DEF InTime, LeaseOK, Owns
  <2>5. UniqueOK' /\ PatchOK'
    BY <1>b, <2>2 DEF UniqueOK, PatchOK, Owns
  <2>6. ReceiptOK' /\ EditorOK'
    BY <1>b, <2>1, <2>2 DEF ReceiptOK, EditorOK
  <2> QED BY <2>4, <2>5, <2>6
<1>2. ASSUME NEW c \in Sender, NEW m \in Message, Send(c, m) PROVE LeaseFacts'
  <2> DEFINE next == [pc |-> "called", msg |-> m, seen |-> out'[m], patch |-> "none"]
  <2>1. call' = [call EXCEPT ![c] = next] /\ call[c].pc = "idle"
    BY <1>2 DEF Send, Begin, At
  <2>2. call'[c] = next /\ \A d \in Caller : d # c => call'[d] = call[d]
    BY <1>b, <2>1
  <2>3. call'[c].pc = "called" /\ call'[c].patch = "none"
    BY <2>2
  <2>4. \A n \in Message :
          /\ n # m => out'[n] = out[n]
          /\ out[n].status # "none" => out'[n] = out[n]
          /\ out'[n] = out[n] \/ out'[n] = Queued
    BY <1>b, <1>2 DEF Send, Created
  <2>5. Queued.receipt = FALSE
    BY DEF Queued, Nothing
  <2> HIDE DEF next
  <2>6. LeaseOK' /\ UniqueOK'
    BY <1>b, <2>2, <2>3, <2>4 DEF LeaseOK, UniqueOK, Owns
  <2>7. PatchOK'
    BY <1>b, <2>2, <2>3 DEF PatchOK
  <2>8. ReceiptOK'
    BY <1>b, <2>2, <2>3, <2>4, <2>5 DEF ReceiptOK
  <2>9. EditorOK'
    BY <1>b, <2>2, <2>4 DEF EditorOK
  <2> QED BY <2>6, <2>7, <2>8, <2>9
<1>3. ASSUME NEW c \in Sender, NEW m \in Message, NEW timer \in Timer,
             Recover(c, m, timer)
      PROVE  LeaseFacts'
  <2> DEFINE next == [pc |-> timer, msg |-> m, seen |-> Nothing, patch |-> "none"]
  <2>1. next \in Call /\ next.pc = timer /\ next.patch = "none"
    BY NothingType DEF Call, Patch
  <2>2. call' = [call EXCEPT ![c] = next] /\ UNCHANGED out
    BY <1>3 DEF Recover, Begin
  <2> HIDE DEF next
  <2> QED BY <1>b, <2>1, <2>2, QuietStep DEF Quiet
<1>4. ASSUME NEW c \in Sender, NEW timer \in Timer, ListRead(c, timer)
      PROVE  LeaseFacts'
  <2> DEFINE stale == [call[c] EXCEPT !.pc = "stale"]
             called == [call[c] EXCEPT !.pc = "called", !.seen = out[call[c].msg]]
  <2>1. /\ stale \in Call /\ stale.pc = "stale"
        /\ called \in Call /\ called.pc = "called" /\ called.patch = call[c].patch
    BY <1>b DEF Call
  <2>2. /\ UNCHANGED out
        /\ \/ call' = [call EXCEPT ![c] = stale]
           \/ call' = [call EXCEPT ![c] = called]
           \/ Done(c)
    BY <1>b, <1>4 DEF ListRead, Goto
  <2>3. call[c].patch = "none"
    BY <1>4 DEF ListRead, At, PatchOK
  <2> HIDE DEF stale, called
  <2> QED BY <1>b, <2>1, <2>2, <2>3, QuietStep, DoneStep DEF Quiet
<1>5. ASSUME NEW c \in Sender, OnChannel(c), Claim(c) PROVE LeaseFacts'
  <2> DEFINE m == call[c].msg
  <2>1. /\ m \in Message /\ call[c].pc = "called"
        /\ out[m].status \notin {"delivered", "delivering"}
    BY <1>b, <1>5 DEF Claim, MayClaim, At, Claimable
  <2>2. /\ call'[c].pc = "sending" /\ call'[c].msg = m
        /\ call'[c].patch = call[c].patch
        /\ \A d \in Caller : d # c => call'[d] = call[d]
    BY <1>b, <1>5 DEF Claim, Goto, Call
  <2>3. \A n \in Message : n # m => out'[n] = out[n]
    BY <1>b, <1>5 DEF Claim
  <2>4. /\ out'[m].status = "delivering" /\ out'[m].left = LeaseTicks
        /\ out'[m].receipt = out[m].receipt
    BY <1>b, <1>5, <2>1 DEF Claim, Record
  <2>5. \A d \in Sender : Owns(d) => call[d].msg # m
    BY <2>1 DEF LeaseOK
  <2> HIDE DEF m
  <2>6. LeaseOK'
    BY <1>b, <2>1, <2>2, <2>3, <2>4 DEF LeaseOK, Owns
  <2>7. UniqueOK'
    BY <1>b, <2>2, <2>5 DEF UniqueOK, Owns
  <2>8. PatchOK'
    BY <1>b, <2>1, <2>2 DEF PatchOK
  <2>9. ReceiptOK'
    BY <1>b, <2>1, <2>2, <2>3, <2>4 DEF ReceiptOK
  <2>10. EditorOK'
    BY <1>b, <2>1, <2>2, <2>3 DEF EditorOK
  <2> QED BY <2>6, <2>7, <2>8, <2>9, <2>10
<1>6. ASSUME NEW c \in Sender, OnChannel(c), Quarantine(c) PROVE LeaseFacts'
  <2> DEFINE m == call[c].msg
  <2>1. /\ m \in Message /\ out[m].status = "delivering" /\ out[m].left = 0
    BY <1>b, <1>6 DEF Quarantine, Interrupted
  <2>2. call'[c] = NoCall /\ \A d \in Caller : d # c => call'[d] = call[d]
    BY <1>b, <1>6 DEF Quarantine, Done
  <2>3. /\ \A n \in Message : n # m => out'[n] = out[n]
        /\ out'[m].receipt = out[m].receipt
    BY <1>b, <1>6, <2>1 DEF Quarantine, Record
  <2>4. \A d \in Sender : Owns(d) => call[d].msg # m
    BY <2>1 DEF LeaseOK
  <2> HIDE DEF m
  <2>5. LeaseOK' /\ UniqueOK'
    BY <1>b, <1>c, <2>2, <2>3, <2>4 DEF LeaseOK, UniqueOK, Owns
  <2>6. PatchOK'
    BY <1>b, <1>c, <2>2 DEF PatchOK
  <2>7. ReceiptOK'
    BY <1>b, <1>c, <2>1, <2>2, <2>3 DEF ReceiptOK
  <2>8. EditorOK'
    BY <1>b, <2>1, <2>2, <2>3 DEF EditorOK
  <2> QED BY <2>5, <2>6, <2>7, <2>8
<1>7. ASSUME NEW c \in Sender, OnChannel(c), Answering(c) PROVE LeaseFacts'
  <2>1. PICK answer \in Answers : Answer(c, answer)
    BY <1>7 DEF Answering
  <2>2. answer \in {"delivered", "ambiguous"}
    BY <1>7, <2>1, OutboxAssumption DEF Answer
  <2> DEFINE next == [call[c] EXCEPT !.pc = "answered", !.patch = answer]
  <2>3. /\ next \in Call /\ next.pc = "answered"
        /\ next.msg = call[c].msg /\ next.patch = answer
    BY <1>b, <2>2 DEF Call, Patch
  <2>4. call' = [call EXCEPT ![c] = next] /\ UNCHANGED out /\ Owns(c)
    BY <1>b, <1>7, <2>1, <2>2 DEF Answer, At, Owns
  <2> HIDE DEF next
  <2> QED BY <1>b, <2>2, <2>3, <2>4, QuietStep DEF Quiet
<1>8. ASSUME NEW c \in Sender, OnChannel(c), UpdateRead(c) PROVE LeaseFacts'
  <2>1. /\ call[c].pc = "answered"
        /\ call'[c].pc = "writing" /\ call'[c].msg = call[c].msg
        /\ call'[c].patch = call[c].patch /\ call'[c].seen = out[call[c].msg]
        /\ \A d \in Caller : d # c => call'[d] = call[d]
    BY <1>b, <1>8 DEF UpdateRead, At, Call
  <2>2. out' = out
    BY <1>8 DEF UpdateRead
  <2>3. out[call[c].msg].status = "delivering"
    BY <1>8, <2>1 DEF LeaseOK, Owns
  <2>4. LeaseOK' /\ UniqueOK'
    BY <1>b, <2>1, <2>2 DEF LeaseOK, UniqueOK, Owns
  <2>5. PatchOK'
    BY <1>b, <2>1 DEF PatchOK
  <2>6. ReceiptOK'
    BY <1>b, <2>1, <2>2, <2>3 DEF ReceiptOK
  <2>7. EditorOK'
    BY <1>b, <2>1, <2>2 DEF EditorOK
  <2> QED BY <2>4, <2>5, <2>6, <2>7
<1>9. ASSUME NEW c \in Sender, OnChannel(c), UpdateWrite(c) PROVE LeaseFacts'
  <2> DEFINE m == call[c].msg
             new == Patched(call[c].seen, call[c].patch)
  <2>1. /\ m \in Message /\ Owns(c) /\ call[c].patch \in {"delivered", "ambiguous"}
        /\ ~call[c].seen.receipt /\ call[c].seen \in Record
    BY <1>b, <1>9 DEF UpdateWrite, At, Owns, PatchOK, ReceiptOK, Call
  <2>2. call'[c] = NoCall /\ \A d \in Caller : d # c => call'[d] = call[d]
    BY <1>b, <1>9 DEF UpdateWrite, Done
  <2>3. out'[m] = new /\ \A n \in Message : n # m => out'[n] = out[n]
    BY <1>b, <1>9 DEF UpdateWrite
  <2>4. new.receipt => new.status = "delivered"
    BY <2>1 DEF Patched, Record
  <2>5. out[m].status = "delivering" /\ \A d \in Sender : Owns(d) /\ d # c => call[d].msg # m
    BY <2>1 DEF LeaseOK, UniqueOK
  <2> HIDE DEF m, new
  <2>6. LeaseOK' /\ UniqueOK'
    BY <1>b, <1>c, <2>2, <2>3, <2>5 DEF LeaseOK, UniqueOK, Owns
  <2>7. PatchOK'
    BY <1>b, <1>c, <2>2 DEF PatchOK
  <2>8. ReceiptOK'
    BY <1>b, <1>c, <2>2, <2>3, <2>4 DEF ReceiptOK
  <2>9. EditorOK'
    BY <1>b, <2>2, <2>3, <2>5 DEF EditorOK
  <2> QED BY <2>6, <2>7, <2>8, <2>9
<1>10. ASSUME NEW e \in Editor, NEW m \in Message, NEW request \in Requests,
              Edit(e, m, request)
       PROVE  LeaseFacts'
  <2> DEFINE next == [pc |-> "answered", msg |-> m, seen |-> Nothing, patch |-> request]
  <2>0. call' = [call EXCEPT ![e] = next] /\ out' = out
    BY <1>10 DEF Edit, Begin
  <2>1. CASE m \in Webhook
    <3>1. request \in Patch
      BY OutboxAssumption DEF Patch
    <3>2. next \in Call /\ next.msg = m /\ next.pc = "answered"
      BY <3>1, NothingType DEF Call
    <3> HIDE DEF next
    <3>3. Quiet(e, next)
      BY <2>1, <3>2 DEF Quiet
    <3> QED BY <1>b, <2>0, <3>2, <3>3, QuietStep
  <2>2. CASE m \notin Webhook
    <3>1. request = "status" /\ out[m].status = "delivered"
      BY <1>10, <2>2 DEF Edit, Admits, NoConfirmations, ReceiptOK
    <3>2. /\ call'[e].pc = "answered" /\ call'[e].msg = m /\ call'[e].patch = request
          /\ \A d \in Caller : d # e => call'[d] = call[d]
      BY <1>b, <2>0
    <3> HIDE DEF next
    <3>3. LeaseOK' /\ UniqueOK' /\ PatchOK'
      BY <1>b, <2>0, <3>2 DEF LeaseOK, UniqueOK, PatchOK, Owns
    <3>4. ReceiptOK'
      BY <1>b, <2>0, <3>2 DEF ReceiptOK
    <3>5. EditorOK'
      BY <1>b, <2>0, <3>1, <3>2 DEF EditorOK
    <3> QED BY <3>3, <3>4, <3>5
  <2> QED BY <2>1, <2>2
<1>11. ASSUME NEW e \in Editor, OnChannel(e), UpdateRead(e) PROVE LeaseFacts'
  <2>1. /\ call[e].pc = "answered"
        /\ call'[e].pc = "writing" /\ call'[e].msg = call[e].msg
        /\ call'[e].patch = call[e].patch /\ call'[e].seen = out[call[e].msg]
        /\ \A d \in Caller : d # e => call'[d] = call[d]
    BY <1>b, <1>11 DEF UpdateRead, At, Call
  <2>2. out' = out
    BY <1>11 DEF UpdateRead
  <2>3. LeaseOK' /\ UniqueOK' /\ PatchOK'
    BY <1>b, <2>1, <2>2 DEF LeaseOK, UniqueOK, PatchOK, Owns
  <2>4. ReceiptOK'
    BY <1>b, <2>1, <2>2 DEF ReceiptOK
  <2>5. EditorOK'
    BY <1>b, <2>1, <2>2 DEF EditorOK
  <2> QED BY <2>3, <2>4, <2>5
<1>12. ASSUME NEW e \in Editor, OnChannel(e), UpdateWrite(e) PROVE LeaseFacts'
  <2> DEFINE m == call[e].msg
  <2>1. /\ m \in Message /\ call[e].patch = "status"
        /\ out[m].status = "delivered" /\ call[e].seen.status = "delivered"
    BY <1>b, <1>12 DEF UpdateWrite, At, EditorOK
  <2>2. call'[e] = NoCall /\ \A d \in Caller : d # e => call'[d] = call[d]
    BY <1>b, <1>12 DEF UpdateWrite, Done
  <2>3. out'[m].status = "delivered" /\ \A n \in Message : n # m => out'[n] = out[n]
    BY <1>b, <1>12, <2>1 DEF UpdateWrite, Patched
  <2> HIDE DEF m
  <2>4. LeaseOK' /\ UniqueOK' /\ PatchOK'
    BY <1>b, <2>1, <2>2, <2>3 DEF LeaseOK, UniqueOK, PatchOK, Owns
  <2>5. ReceiptOK'
    BY <1>b, <2>2, <2>3 DEF ReceiptOK
  <2>6. EditorOK'
    BY <1>b, <1>c, <2>2, <2>3 DEF EditorOK
  <2> QED BY <2>4, <2>5, <2>6
<1>13. ASSUME UNCHANGED vars PROVE LeaseFacts'
  BY <1>13 DEF vars, LeaseOK, UniqueOK, PatchOK, ReceiptOK, EditorOK, Owns
<1>14. ASSUME NEW c \in Sender, GiveUp(c) \/ Refused(c) \/ Crash(c) \/ Cleanup(c)
       PROVE  LeaseFacts'
  BY <1>b, <1>14, DoneStep DEF GiveUp, Refused, Crash, Cleanup
<1>15. ASSUME NEW m \in Message, Notify(m) PROVE LeaseFacts'
  <2>1. call' = call /\ m \in Webhook /\ \A n \in Message : n # m => out'[n] = out[n]
    BY <1>b, <1>15 DEF Notify, Created
  <2>2. LeaseOK' /\ UniqueOK' /\ PatchOK'
    BY <1>b, <2>1 DEF LeaseOK, UniqueOK, PatchOK, Owns
  <2>3. ReceiptOK' /\ EditorOK'
    BY <1>b, <2>1 DEF ReceiptOK, EditorOK
  <2> QED BY <2>2, <2>3
<1>16. ASSUME NEW c \in Sender, Exhaust(c) PROVE LeaseFacts'
  BY <1>b, <1>16, WebhookStep DEF Exhaust, Exhausted
<1>17. ASSUME NEW c \in Sender, Listing(c) \/ Delivering(c) \/ Answering(c) \/ Crash(c)
       PROVE  LeaseFacts'
  BY <1>b, <1>4, <1>5, <1>6, <1>7, <1>8, <1>9, <1>14, <1>16, <1>17, WebhookStep
  DEF Listing, Delivering, Updating
<1>18. ASSUME NEW e \in Editor, Updating(e) PROVE LeaseFacts'
  BY <1>b, <1>11, <1>12, <1>18, WebhookStep DEF Updating
<1>19. CASE UNCHANGED vars
  BY <1>a, <1>13, <1>19
<1>20. CASE TimelyNext
  <2>1. Next /\ InTime
    BY <1>20 DEF TimelyNext
  <2> QED BY <1>a, <1>1, <1>2, <1>3, <1>10, <1>15, <1>17, <1>18, <2>1 DEF Next
<1> QED BY <1>19, <1>20

\* Of the calls that deliver a channel's message, one at a time has a request
\* under way, however many servers send, list and recover it: claimOutbox.
THEOREM LeaseExcludes == NoConfirmations => (TimelySpec => []OneSender)
<1> SUFFICES ASSUME NoConfirmations PROVE TimelySpec => []OneSender
  OBVIOUS
<1>1. LeaseInv /\ [TimelyNext]_vars => LeaseInv'
  BY LeaseNext
<1>2. LeaseInv => OneSender
  BY DEF LeaseInv, LeaseFacts, UniqueOK, OneSender, At, Owns, OnChannel
<1> QED BY <1>1, <1>2, LeaseInit, PTL DEF TimelySpec

\* No step takes a channel message back from its delivery.
LEMMA DeliveredStep ==
  ASSUME NoConfirmations, LeaseInv, [TimelyNext]_vars,
         NEW m \in Message \ Webhook, out[m].status = "delivered"
  PROVE  out'[m].status = "delivered"
<1>1. /\ out \in [Message -> Record]
      /\ \A c \in Caller : call[c].msg \in Message
      /\ \A c \in Sender : c \in Caller
      /\ \A e \in Editor : e \in Caller
  BY DEF LeaseInv, TypeInv, TypeOK, Call, Caller
<1>2. CASE out' = out
  BY <1>2
<1>3. CASE Tick
  BY <1>1, <1>3 DEF Tick, Record
<1>4. ASSUME NEW n \in Message, Created(n) PROVE out'[m].status = "delivered"
  BY <1>1, <1>4 DEF Created
<1>5. ASSUME NEW c \in Sender, Claim(c) \/ Quarantine(c)
      PROVE  out'[m].status = "delivered"
  <2>1. call[c].msg # m
    BY <1>5 DEF Claim, Quarantine, Claimable, Interrupted
  <2> QED BY <1>1, <1>5, <2>1 DEF Claim, Quarantine
<1>6. ASSUME NEW c \in Sender, UpdateWrite(c) PROVE out'[m].status = "delivered"
  <2>1. call[c].msg # m
    BY <1>6 DEF UpdateWrite, At, LeaseInv, LeaseFacts, LeaseOK, Owns, OnChannel
  <2> QED BY <1>1, <1>6, <2>1 DEF UpdateWrite
<1>7. ASSUME NEW e \in Editor, UpdateWrite(e) PROVE out'[m].status = "delivered"
  <2>1. CASE call[e].msg # m
    BY <1>1, <1>7, <2>1 DEF UpdateWrite
  <2>2. CASE call[e].msg = m
    <3>1. call[e].patch = "status" /\ call[e].seen.status = "delivered"
      BY <1>7, <2>2
      DEF UpdateWrite, At, LeaseInv, LeaseFacts, EditorOK, OnChannel, Updates
    <3>2. Patched(call[e].seen, call[e].patch) = call[e].seen
      BY <3>1 DEF Patched
    <3> QED BY <1>1, <1>7, <2>2, <3>1, <3>2 DEF UpdateWrite
  <2> QED BY <2>1, <2>2
<1>8. CASE UNCHANGED vars
  BY <1>8, <1>2 DEF vars
<1>9. CASE Next
  <2>1. \A c : GiveUp(c) \/ Exhaust(c) \/ Refused(c) \/ UpdateRead(c)
                \/ Answering(c) \/ Crash(c) \/ Cleanup(c) => out' = out
    BY DEF GiveUp, Exhaust, Refused, UpdateRead, Answering, Answer, Crash, Cleanup
  <2>2. \A c, n, x : Recover(c, n, x) \/ ListRead(c, x) \/ Edit(c, n, x) => out' = out
    BY DEF Recover, ListRead, Edit
  <2>3. \A c, n : Notify(n) \/ Send(c, n) => Created(n)
    BY DEF Notify, Send
  <2> QED BY <1>2, <1>3, <1>4, <1>5, <1>6, <1>7, <1>9, <2>1, <2>2, <2>3
          DEF Next, Delivering, Updating, Listing
<1> QED BY <1>8, <1>9 DEF TimelyNext

\* A delivered channel message stays delivered, though updateOutbox writes back
\* what it read before: nobody else's update was under way.
THEOREM DeliveryIsFinal == NoConfirmations => (TimelySpec => DeliveredStands)
<1> SUFFICES ASSUME NoConfirmations PROVE TimelySpec => DeliveredStands
  OBVIOUS
<1>1. LeaseInv /\ [TimelyNext]_vars => LeaseInv'
  BY LeaseNext
<1>2. LeaseInv /\ [TimelyNext]_vars
        => [\A m \in Message \ Webhook :
              out[m].status = "delivered" => out'[m].status = "delivered"]_vars
  BY DeliveredStep
<1> QED BY <1>1, <1>2, LeaseInit, PTL DEF TimelySpec, DeliveredStands

-----------------------------------------------------------------------------
(***************************************************************************)
(* How many attempts a message may get.  As long as its record is not      *)
(* spent, a lease keeps every other call from it: a webhook's exhaustion   *)
(* and an owner's requests come later.  So no update puts the attempts of  *)
(* a spent record back below the limit, and what is called with a record   *)
(* that was not is from before: each such call is a chance of one further  *)
(* attempt, which its claim uses up.                                       *)
(***************************************************************************)
NoRetries == "retry" \notin Requests

Limit == MaxAttempts - 1 + Cardinality(Sender)
Unspent(m) == out[m].attempts < MaxAttempts
Chances(m) ==
  {c \in Sender : /\ call[c].pc = "called" /\ call[c].msg = m
                  /\ call[c].seen.attempts < MaxAttempts}
Serves(c) == call[c].pc \in {"sending", "answered", "writing"}

NewOK == \A m \in Message : out[m].status = "none" => out[m].attempts = 0
SpentOK ==
  \A c \in Sender :
    \/ call[c].pc = "called" /\ call[c].seen.attempts >= MaxAttempts
    \/ Updates(c) /\ call[c].patch = "exhausted"
    => ~Unspent(call[c].msg)
HoldOK ==
  \A c \in Sender : Serves(c) /\ Unspent(call[c].msg) =>
    out[call[c].msg].status = "delivering" /\ out[call[c].msg].left > 0
AloneOK ==
  \A c, d \in Sender :
    Serves(c) /\ Serves(d) /\ call[c].msg = call[d].msg /\ Unspent(call[c].msg) => c = d
EditsOK ==
  /\ \A e \in Editor : Updates(e) => OnChannel(e) /\ call[e].patch = "status"
  /\ \A c \in Sender : Updates(c) =>
       call[c].patch \in {"delivered", "ambiguous", "failed", "exhausted"}
SeenOK ==
  \A c \in Caller : call[c].pc = "writing" =>
    (call[c].seen.attempts < MaxAttempts <=> Unspent(call[c].msg))
LimitOK ==
  \A m \in Message : ~Unspent(m) => out[m].attempts + Cardinality(Chances(m)) <= Limit
WriteOK ==
  \A c \in Caller : call[c].pc = "writing" /\ ~Unspent(call[c].msg) =>
    call[c].seen.attempts + Cardinality(Chances(call[c].msg)) <= Limit

CountFacts ==
  /\ NewOK /\ SpentOK /\ HoldOK /\ AloneOK /\ EditsOK /\ SeenOK /\ LimitOK /\ WriteOK
CountInv == LeaseInv /\ CountFacts

LEMMA CountInit == Init => CountInv
<1> SUFFICES ASSUME Init PROVE CountFacts
  BY LeaseInit DEF CountInv
<1>1. /\ \A c \in Caller : call[c].pc = "idle"
      /\ \A c \in Sender : c \in Caller
      /\ \A e \in Editor : e \in Caller
      /\ \A m \in Message : out[m].attempts = 0
  BY DEF Init, NoCall, Nothing, Caller
<1>2. \A m \in Message : Unspent(m)
  BY <1>1, Bounds DEF Unspent
<1>3. NewOK /\ LimitOK
  BY <1>1, <1>2 DEF NewOK, LimitOK
<1>4. SpentOK /\ HoldOK /\ AloneOK /\ EditsOK /\ SeenOK /\ WriteOK
  BY <1>1 DEF SpentOK, HoldOK, AloneOK, EditsOK, SeenOK, WriteOK, Updates, Serves
<1> QED BY <1>3, <1>4 DEF CountFacts

LEMMA FewerChances ==
  ASSUME IsFiniteSet(Sender), NEW S \in SUBSET Sender, NEW T \in SUBSET S
  PROVE  /\ Cardinality(S) \in Nat /\ Cardinality(T) \in Nat
         /\ Cardinality(Sender) \in Nat
         /\ Cardinality(T) <= Cardinality(S) /\ Cardinality(S) <= Cardinality(Sender)
<1>1. IsFiniteSet(S) /\ Cardinality(S) <= Cardinality(Sender)
  BY FS_Subset
<1>2. IsFiniteSet(T) /\ Cardinality(T) <= Cardinality(S)
  BY <1>1, FS_Subset
<1> QED BY <1>1, <1>2, FS_CardinalityType

LEMMA OneChanceLess ==
  ASSUME IsFiniteSet(Sender), NEW S \in SUBSET Sender, NEW c \in S,
         NEW T \in SUBSET (S \ {c})
  PROVE  /\ Cardinality(S) \in Nat /\ Cardinality(T) \in Nat
         /\ Cardinality(T) + 1 <= Cardinality(S)
<1>1. IsFiniteSet(S) /\ Cardinality(S) \in Nat
  BY FewerChances, FS_Subset
<1>2. IsFiniteSet(S \ {c}) /\ Cardinality(S \ {c}) = Cardinality(S) - 1
  BY <1>1, FS_RemoveElement
<1>3. IsFiniteSet(T) /\ Cardinality(T) <= Cardinality(S \ {c})
  BY <1>2, FS_Subset
<1> QED BY <1>1, <1>2, <1>3, FS_CardinalityType

\* Once a record is spent, a call that gives up a chance or begins with the record
\* as it is leaves the limits as they are.
LEMMA LimitStep ==
  ASSUME CountInv, IsFiniteSet(Sender), TypeInv',
         NEW c \in Caller, \A d \in Caller \ {c} : call'[d] = call[d],
         \A m \in Message : out'[m].attempts = out[m].attempts,
         /\ c \in Sender /\ call'[c].pc = "called" =>
              call'[c].seen.attempts = out[call'[c].msg].attempts
         /\ call'[c].pc = "writing" => call'[c].seen = out[call'[c].msg]
  PROVE  SeenOK' /\ LimitOK' /\ WriteOK'
<1>1. /\ \A m \in Message : Unspent(m)' = Unspent(m)
      /\ \A m \in Message : out[m].attempts \in Nat
      /\ \A d \in Caller : /\ call[d].msg \in Message /\ call'[d].msg \in Message
                           /\ call[d].seen.attempts \in Nat
                           /\ call'[d].seen.attempts \in Nat
      /\ MaxAttempts \in Nat /\ Cardinality(Sender) \in Nat
      /\ \A d \in Sender : d \in Caller
  BY Bounds, FS_CardinalityType
  DEF CountInv, LeaseInv, TypeInv, TypeOK, Record, Call, Unspent, Caller
<1>2. ASSUME NEW m \in Message, ~Unspent(m)
      PROVE  /\ Chances(m)' \in SUBSET Chances(m)
             /\ Cardinality(Chances(m)) \in Nat /\ Cardinality(Chances(m)') \in Nat
             /\ Cardinality(Chances(m)') <= Cardinality(Chances(m))
  <2>1. Chances(m)' \in SUBSET Chances(m)
    <3>1. SUFFICES ASSUME NEW d \in Chances(m)' PROVE d \in Chances(m)
      OBVIOUS
    <3>2. /\ d \in Sender /\ call'[d].pc = "called" /\ call'[d].msg = m
          /\ call'[d].seen.attempts < MaxAttempts
      BY DEF Chances
    <3>3. d # c
      BY <1>1, <1>2, <3>2 DEF Unspent
    <3> QED BY <1>1, <3>2, <3>3 DEF Chances
  <2>2. Chances(m) \in SUBSET Sender
    BY DEF Chances
  <2> QED BY <2>1, <2>2, FewerChances
<1>3. SeenOK'
  BY <1>1 DEF CountInv, CountFacts, SeenOK, Unspent
<1>4. LimitOK'
  <2> SUFFICES ASSUME NEW m \in Message, ~Unspent(m)'
               PROVE  out'[m].attempts + Cardinality(Chances(m)') <= Limit
    BY DEF LimitOK, Limit
  <2>1. out[m].attempts + Cardinality(Chances(m)) <= Limit
    BY <1>1 DEF CountInv, CountFacts, LimitOK
  <2> QED BY <1>1, <1>2, <2>1 DEF Limit
<1>5. WriteOK'
  <2> SUFFICES ASSUME NEW d \in Caller, NEW m \in Message, m = call'[d].msg,
                      call'[d].pc = "writing", ~Unspent(m)'
               PROVE  call'[d].seen.attempts + Cardinality(Chances(m)') <= Limit
    BY <1>1 DEF WriteOK, Limit, Unspent, Chances
  <2>1. CASE d = c
    BY <1>1, <1>2, <2>1 DEF Limit, CountInv, CountFacts, LimitOK
  <2>2. CASE d # c
    <3>1. call[d].seen.attempts + Cardinality(Chances(m)) <= Limit
      BY <1>1, <2>2 DEF CountInv, CountFacts, WriteOK
    <3> QED BY <1>1, <1>2, <2>2, <3>1 DEF Limit
  <2> QED BY <2>1, <2>2
<1> QED BY <1>3, <1>4, <1>5

\* A step of one call that counts no attempt and takes no lease.
Calm(c, next) ==
  \/ next.pc \in {"idle", "stale"} \cup Timer
  \/ c \in Sender /\ next.pc = "called" /\ next.seen.attempts = out[next.msg].attempts
  \/ /\ c \in Sender /\ Serves(c) /\ next.pc = "answered"
     /\ next.msg = call[c].msg /\ next.patch \in {"delivered", "ambiguous", "failed"}
  \/ /\ c \in Sender /\ next.pc = "answered" /\ next.patch = "exhausted"
     /\ ~Unspent(next.msg)
  \/ /\ c \in Editor /\ next.pc = "answered" /\ next.msg \notin Webhook
     /\ next.patch = "status"
  \/ /\ call[c].pc = "answered" /\ next.pc = "writing" /\ next.msg = call[c].msg
     /\ next.patch = call[c].patch /\ next.seen = out[next.msg]

LEMMA CalmStep ==
  ASSUME CountInv, TypeInv', IsFiniteSet(Sender), NEW c \in Caller, NEW next \in Call,
         Calm(c, next), call' = [call EXCEPT ![c] = next],
         \A m \in Message :
           /\ out'[m].attempts = out[m].attempts
           /\ out'[m].status = "none" => out[m].status = "none"
           /\ out[m].status = "delivering" /\ out[m].left > 0 => out'[m] = out[m]
  PROVE  CountFacts'
<1>1. /\ call'[c] = next
      /\ \A d \in Caller : d # c => call'[d] = call[d]
      /\ \A d \in Sender : d \in Caller /\ d \notin Editor
      /\ \A e \in Editor : e \in Caller
      /\ \A d \in Caller : call[d].msg \in Message /\ call'[d].msg \in Message
      /\ \A m \in Message : Unspent(m)' = Unspent(m)
      /\ \A m \in Message : out[m].attempts \in Nat
      /\ MaxAttempts \in Nat
      /\ Timer = {"channels", "webhooks"}
  BY OutboxAssumption, Bounds
  DEF CountInv, LeaseInv, TypeInv, TypeOK, Caller, Call, Timer, Unspent, Record
<1>2. SeenOK' /\ LimitOK' /\ WriteOK'
  BY <1>1, LimitStep DEF Calm
<1>3. NewOK'
  BY <1>1 DEF CountInv, CountFacts, NewOK
<1>4. SpentOK'
  BY <1>1 DEF CountInv, CountFacts, SpentOK, Calm, Updates, Unspent, Serves
<1>5. ASSUME NEW d \in Sender, Serves(d)', Unspent(call[d].msg)'
      PROVE  Serves(d) /\ call'[d].msg = call[d].msg /\ Unspent(call[d].msg)
  BY <1>1, <1>5 DEF Calm, Serves
<1>6. HoldOK'
  BY <1>1, <1>5 DEF CountInv, CountFacts, HoldOK
<1>7. AloneOK'
  BY <1>1, <1>5 DEF CountInv, CountFacts, AloneOK
<1>8. EditsOK'
  BY <1>1 DEF CountInv, CountFacts, EditsOK, Calm, Updates, OnChannel
<1> QED BY <1>2, <1>3, <1>4, <1>6, <1>7, <1>8 DEF CountFacts

LEMMA CalmDone ==
  ASSUME CountInv, TypeInv', IsFiniteSet(Sender), NEW c \in Caller, Done(c),
         \A m \in Message :
           /\ out'[m].attempts = out[m].attempts
           /\ out'[m].status = "none" => out[m].status = "none"
           /\ out[m].status = "delivering" /\ out[m].left > 0 => out'[m] = out[m]
  PROVE  CountFacts'
  BY CalmStep, NoCallType DEF Done, NoCall, Calm

LEMMA CountTick ==
  ASSUME CountInv, TypeInv', Tick, InTime
  PROVE  CountFacts'
<1>1. /\ \A m \in Message : /\ out'[m].attempts = out[m].attempts
                            /\ out'[m].status = out[m].status
      /\ \A c \in Caller : /\ call'[c].pc = call[c].pc /\ call'[c].msg = call[c].msg
                           /\ call'[c].patch = call[c].patch
                           /\ call'[c].seen.attempts = call[c].seen.attempts
      /\ \A c \in Sender : c \in Caller
      /\ \A e \in Editor : e \in Caller
      /\ \A c \in Caller : call[c].msg \in Message
  BY DEF Tick, CountInv, LeaseInv, TypeInv, TypeOK, Record, Call, Caller
<1>2. \A m \in Message : Unspent(m)' = Unspent(m) /\ Chances(m)' = Chances(m)
  BY <1>1 DEF Unspent, Chances
<1>3. NewOK' /\ SpentOK' /\ AloneOK' /\ EditsOK' /\ SeenOK'
  BY <1>1, <1>2 DEF CountInv, CountFacts, NewOK, SpentOK, AloneOK, EditsOK, SeenOK,
     Updates, Serves, OnChannel
<1>4. HoldOK'
  <2> SUFFICES ASSUME NEW c \in Sender, Serves(c), Unspent(call[c].msg)
               PROVE  out'[call[c].msg].status = "delivering" /\ out'[call[c].msg].left > 0
    BY <1>1, <1>2 DEF HoldOK, Serves
  <2>1. out[call[c].msg].status = "delivering" /\ out[call[c].msg].left > 0
    BY DEF CountInv, CountFacts, HoldOK
  <2>2. Updates(c) => call[c].patch # "exhausted"
    BY DEF CountInv, CountFacts, SpentOK
  <2>3. call[c].pc = "sending" => call[c].patch = "none"
    BY DEF CountInv, LeaseInv, LeaseFacts, PatchOK
  <2>4. Sends(c)
    BY <2>2, <2>3 DEF Sends, Serves, Updates
  <2> QED BY <1>1, <2>1, <2>4 DEF InTime
<1>5. LimitOK' /\ WriteOK'
  BY <1>1, <1>2 DEF CountInv, CountFacts, LimitOK, WriteOK, Limit
<1> QED BY <1>3, <1>4, <1>5 DEF CountFacts

\* A claim on a record that is not spent finds no update of it begun; one on a
\* record that is spent uses up a chance.
LEMMA CountClaim ==
  ASSUME CountInv, TypeInv', IsFiniteSet(Sender), NEW c \in Sender, Claim(c)
  PROVE  CountFacts'
<1> SUFFICES ASSUME NEW m \in Message, m = call[c].msg PROVE CountFacts'
  BY DEF CountInv, LeaseInv, TypeInv, TypeOK, Caller, Call
<1>1. /\ out \in [Message -> Record] /\ call \in [Caller -> Call]
      /\ \A d \in Sender : d \in Caller /\ d \notin Editor
      /\ \A e \in Editor : e \in Caller /\ e \notin Sender
      /\ \A d \in Caller : call[d].msg \in Message /\ call[d].seen.attempts \in Nat
      /\ \A n \in Message : out[n].attempts \in Nat
      /\ LeaseTicks \in Nat \ {0} /\ MaxAttempts \in Nat
  BY OutboxAssumption, Bounds
  DEF CountInv, LeaseInv, TypeInv, TypeOK, Caller, Call, Record
<1>2. /\ m \in Message /\ c \in Caller /\ call[c].pc = "called"
      /\ out[m].status \notin {"delivered", "delivering"}
      /\ ~GivenUp(c) /\ ~Exhausted(c)
  BY <1>1 DEF Claim, MayClaim, At, Claimable
<1>3. call[c].seen.attempts < MaxAttempts
  BY <1>1, <1>2 DEF GivenUp, Exhausted, UsedUp
<1>4. /\ call'[c].pc = "sending" /\ call'[c].msg = m
      /\ call'[c].patch = call[c].patch /\ call'[c].seen = call[c].seen
      /\ \A d \in Caller : d # c => call'[d] = call[d]
  BY <1>1, <1>2 DEF Claim, Goto, Call
<1>5. /\ \A n \in Message : n # m => out'[n] = out[n]
      /\ out'[m].status = "delivering" /\ out'[m].left = LeaseTicks
      /\ out'[m].attempts = out[m].attempts + 1
  BY <1>1, <1>2 DEF Claim, Record
<1>6. /\ \A n \in Message : ~Unspent(n) => ~Unspent(n)'
      /\ \A n \in Message : n # m => Unspent(n)' = Unspent(n)
  BY <1>1, <1>5 DEF Unspent
<1>7. \A d \in Sender : Serves(d) /\ call[d].msg = m => ~Unspent(m)
  BY <1>2 DEF CountInv, CountFacts, HoldOK
<1>8. \A d \in Caller : call[d].pc = "writing" /\ call[d].msg = m => ~Unspent(m)
  <2>1. ASSUME NEW e \in Editor, call[e].pc = "writing", call[e].msg = m PROVE FALSE
    BY <1>2, <2>1 DEF CountInv, CountFacts, EditsOK, LeaseInv, LeaseFacts, EditorOK,
       Updates, OnChannel
  <2> QED BY <1>7, <2>1 DEF Caller, Serves
<1>9. c \in Chances(m)
  BY <1>2, <1>3 DEF Chances
<1>10. \A n \in Message : Chances(n)' \in SUBSET (Chances(n) \ {c})
  BY <1>1, <1>4 DEF Chances
<1>11. \A n \in Message : Chances(n) \in SUBSET Sender
  BY DEF Chances
<1>12. /\ \A n \in Message : /\ Cardinality(Chances(n)) \in Nat
                             /\ Cardinality(Chances(n)') \in Nat
                             /\ Cardinality(Chances(n)') <= Cardinality(Chances(n))
       /\ Cardinality(Chances(m)') + 1 <= Cardinality(Chances(m))
       /\ Cardinality(Sender) \in Nat
       /\ Cardinality(Chances(m)) <= Cardinality(Sender)
  <2>1. \A n \in Message : Chances(n)' \in SUBSET Chances(n)
    BY <1>10
  <2>2. \A n \in Message : /\ Cardinality(Chances(n)) \in Nat
                           /\ Cardinality(Chances(n)') \in Nat
                           /\ Cardinality(Chances(n)') <= Cardinality(Chances(n))
    BY <1>11, <2>1, FewerChances
  <2>3. Cardinality(Chances(m)') + 1 <= Cardinality(Chances(m))
    BY <1>2, <1>9, <1>10, <1>11, OneChanceLess
  <2> QED BY <1>2, <1>11, <2>2, <2>3, FewerChances
<1>13. NewOK'
  BY <1>5 DEF CountInv, CountFacts, NewOK
<1>14. SpentOK'
  BY <1>1, <1>4, <1>6 DEF CountInv, CountFacts, SpentOK, Updates
<1>15. HoldOK'
  BY <1>1, <1>4, <1>5, <1>6 DEF CountInv, CountFacts, HoldOK, Serves
<1>16. AloneOK'
  BY <1>1, <1>2, <1>4, <1>6, <1>7 DEF CountInv, CountFacts, AloneOK, Serves
<1>17. EditsOK'
  BY <1>1, <1>4 DEF CountInv, CountFacts, EditsOK, Updates, OnChannel
<1>18. SeenOK'
  BY <1>1, <1>2, <1>4, <1>6, <1>8 DEF CountInv, CountFacts, SeenOK
<1>19. LimitOK'
  <2> SUFFICES ASSUME NEW n \in Message, ~Unspent(n)'
               PROVE  out'[n].attempts + Cardinality(Chances(n)') <= Limit
    BY DEF LimitOK, Limit
  <2>1. CASE n # m
    <3>1. out[n].attempts + Cardinality(Chances(n)) <= Limit
      BY <1>6, <2>1 DEF CountInv, CountFacts, LimitOK
    <3> QED BY <1>1, <1>5, <1>12, <2>1, <3>1 DEF Limit
  <2>2. CASE n = m /\ ~Unspent(m)
    <3>1. out[m].attempts + Cardinality(Chances(m)) <= Limit
      BY <2>2 DEF CountInv, CountFacts, LimitOK
    <3> QED BY <1>1, <1>5, <1>12, <2>2, <3>1 DEF Limit
  <2>3. CASE n = m /\ Unspent(m)
    BY <1>1, <1>5, <1>12, <2>3 DEF Limit, Unspent
  <2> QED BY <2>1, <2>2, <2>3
<1>20. WriteOK'
  <2> SUFFICES ASSUME NEW d \in Caller, NEW n \in Message, n = call'[d].msg,
                      call'[d].pc = "writing", ~Unspent(n)'
               PROVE  call'[d].seen.attempts + Cardinality(Chances(n)') <= Limit
    BY <1>1, <1>4, <1>2 DEF WriteOK, Limit, Unspent, Chances
  <2>1. d # c /\ call'[d] = call[d]
    BY <1>4
  <2>2. ~Unspent(n)
    BY <1>6, <1>8, <2>1
  <2>3. call[d].seen.attempts + Cardinality(Chances(n)) <= Limit
    BY <2>1, <2>2 DEF CountInv, CountFacts, WriteOK
  <2> QED BY <1>1, <1>12, <2>1, <2>3 DEF Limit
<1> QED BY <1>13, <1>14, <1>15, <1>16, <1>17, <1>18, <1>19, <1>20 DEF CountFacts

\* An update leaves a record spent or not as it was, and within the limit.
LEMMA CountWrite ==
  ASSUME CountInv, TypeInv', IsFiniteSet(Sender), NEW c \in Caller, UpdateWrite(c),
         call[c].patch # "retry"
  PROVE  CountFacts'
<1> SUFFICES ASSUME NEW m \in Message, m = call[c].msg PROVE CountFacts'
  BY DEF CountInv, LeaseInv, TypeInv, TypeOK, Caller, Call
<1> DEFINE new == Patched(call[c].seen, call[c].patch)
<1>1. /\ out \in [Message -> Record] /\ call \in [Caller -> Call]
      /\ \A d \in Sender : d \in Caller /\ d \notin Editor
      /\ \A e \in Editor : e \in Caller /\ e \notin Sender
      /\ \A d \in Caller : call[d].msg \in Message /\ call[d].seen.attempts \in Nat
      /\ \A n \in Message : out[n].attempts \in Nat
      /\ MaxAttempts \in Nat
  BY OutboxAssumption, Bounds
  DEF CountInv, LeaseInv, TypeInv, TypeOK, Caller, Call, Record
<1>2. /\ m \in Message /\ call[c].pc = "writing"
      /\ call[c].patch \in Patch \ {"none", "retry"} /\ call[c].seen \in Record
  BY <1>1 DEF UpdateWrite, At, CountInv, LeaseInv, TypeInv, PatchKnown, Call
<1>3. /\ call'[c] = NoCall /\ NoCall.pc = "idle"
      /\ \A d \in Caller : d # c => call'[d] = call[d]
  BY <1>1 DEF UpdateWrite, Done, NoCall
<1>4. out'[m] = new /\ \A n \in Message : n # m => out'[n] = out[n]
  BY <1>1, <1>2 DEF UpdateWrite
<1>5. new.attempts = call[c].seen.attempts
  BY <1>2 DEF Patched, Record, Patch
<1>6. new.status # "none"
  <2>1. CASE call[c].patch = "status"
    <3>1. c \in Editor
      BY <1>2, <2>1 DEF CountInv, CountFacts, EditsOK, Updates, Caller
    <3> QED BY <1>2, <2>1, <3>1 DEF CountInv, CountFacts, EditsOK, LeaseInv, LeaseFacts,
            EditorOK, Patched, Updates
  <2>2. CASE call[c].patch # "status"
    BY <1>2, <2>2 DEF Patched, Record
  <2> QED BY <2>1, <2>2
<1>7. \A n \in Message : Unspent(n)' = Unspent(n)
  BY <1>1, <1>2, <1>4, <1>5 DEF CountInv, CountFacts, SeenOK, Unspent
<1>8. ASSUME NEW d \in Sender, d # c, Serves(d), call[d].msg = m, Unspent(m) PROVE FALSE
  <2>1. CASE c \in Sender
    BY <1>2, <1>8, <2>1 DEF CountInv, CountFacts, AloneOK, Serves
  <2>2. CASE c \in Editor
    BY <1>2, <1>8, <2>2 DEF CountInv, CountFacts, HoldOK, EditsOK, LeaseInv, LeaseFacts,
       EditorOK, Updates, OnChannel
  <2> QED BY <2>1, <2>2 DEF Caller
<1>9. \A n \in Message : Chances(n)' = Chances(n)
  BY <1>1, <1>2, <1>3 DEF Chances
<1> HIDE DEF new
<1>10. NewOK'
  BY <1>4, <1>6 DEF CountInv, CountFacts, NewOK
<1>11. SpentOK'
  BY <1>1, <1>3, <1>7 DEF CountInv, CountFacts, SpentOK, Updates
<1>12. HoldOK'
  BY <1>1, <1>3, <1>4, <1>7, <1>8 DEF CountInv, CountFacts, HoldOK, Serves
<1>13. AloneOK'
  BY <1>1, <1>3, <1>7 DEF CountInv, CountFacts, AloneOK, Serves
<1>14. EditsOK'
  BY <1>1, <1>3 DEF CountInv, CountFacts, EditsOK, Updates, OnChannel
<1>15. SeenOK'
  BY <1>1, <1>3, <1>7 DEF CountInv, CountFacts, SeenOK
<1>16. LimitOK'
  <2> SUFFICES ASSUME NEW n \in Message, ~Unspent(n)
               PROVE  out'[n].attempts + Cardinality(Chances(n)) <= Limit
    BY <1>7, <1>9 DEF LimitOK, Limit
  <2>1. CASE n # m
    BY <1>4, <2>1 DEF CountInv, CountFacts, LimitOK
  <2>2. CASE n = m
    BY <1>2, <1>4, <1>5, <2>2 DEF CountInv, CountFacts, WriteOK
  <2> QED BY <2>1, <2>2
<1>17. WriteOK'
  <2> SUFFICES ASSUME NEW d \in Caller, NEW n \in Message, n = call'[d].msg,
                      call'[d].pc = "writing", ~Unspent(n)
               PROVE  call'[d].seen.attempts + Cardinality(Chances(n)) <= Limit
    BY <1>1, <1>2, <1>3, <1>7, <1>9 DEF WriteOK, Limit
  <2> QED BY <1>3 DEF CountInv, CountFacts, WriteOK
<1> QED BY <1>10, <1>11, <1>12, <1>13, <1>14, <1>15, <1>16, <1>17 DEF CountFacts

LEMMA CountNext ==
  ASSUME NoConfirmations, NoRetries, IsFiniteSet(Sender), CountInv, [TimelyNext]_vars
  PROVE  CountInv'
<1>a. LeaseInv' /\ TypeInv'
  BY LeaseNext DEF CountInv, LeaseInv
<1>b. /\ out \in [Message -> Record] /\ call \in [Caller -> Call]
      /\ \A c \in Sender : c \in Caller /\ c \notin Editor
      /\ \A e \in Editor : e \in Caller /\ e \notin Sender
      /\ \A c \in Caller : call[c].msg \in Message /\ call[c] \in Call
      /\ Timer = {"channels", "webhooks"}
  BY OutboxAssumption DEF CountInv, LeaseInv, TypeInv, TypeOK, Caller, Call, Timer
<1>1. ASSUME NEW c \in Sender, NEW m \in Message, Send(c, m) PROVE CountFacts'
  <2> DEFINE next == [pc |-> "called", msg |-> m, seen |-> out'[m], patch |-> "none"]
  <2>1. call' = [call EXCEPT ![c] = next]
    BY <1>1 DEF Send, Begin
  <2>2. next \in Call
    BY <1>a, <1>1 DEF TypeInv, TypeOK, Call, Patch
  <2>3. \A n \in Message :
          \/ out'[n] = out[n]
          \/ out[n].status = "none" /\ out'[n].status = "queued" /\ out'[n].attempts = 0
    BY <1>b, <1>1 DEF Send, Created, Queued, Nothing
  <2>4. \A n \in Message :
          /\ out'[n].attempts = out[n].attempts
          /\ out'[n].status = "none" => out[n].status = "none"
          /\ out[n].status = "delivering" /\ out[n].left > 0 => out'[n] = out[n]
    BY <2>3 DEF CountInv, CountFacts, NewOK
  <2>5. Calm(c, next)
    BY <2>4 DEF Calm
  <2> HIDE DEF next
  <2> QED BY <1>a, <1>b, <2>1, <2>2, <2>4, <2>5, CalmStep
<1>2. ASSUME NEW m \in Message, Notify(m) PROVE CountFacts'
  <2>1. /\ call' = call
        /\ \A n \in Message :
             \/ out'[n] = out[n]
             \/ out[n].status = "none" /\ out'[n].status = "queued" /\ out'[n].attempts = 0
    BY <1>b, <1>2 DEF Notify, Created, Queued, Nothing
  <2>2. \A n \in Message :
          /\ out'[n].attempts = out[n].attempts
          /\ out'[n].status = "none" => out[n].status = "none"
          /\ out[n].status = "delivering" => out'[n] = out[n]
    BY <2>1 DEF CountInv, CountFacts, NewOK
  <2>3. \A n \in Message : Unspent(n)' = Unspent(n) /\ Chances(n)' = Chances(n)
    BY <2>1, <2>2 DEF Unspent, Chances
  <2>4. NewOK' /\ SpentOK' /\ HoldOK' /\ AloneOK'
    BY <1>b, <2>1, <2>2, <2>3
    DEF CountInv, CountFacts, NewOK, SpentOK, HoldOK, AloneOK, Updates, Serves
  <2>5. EditsOK' /\ SeenOK' /\ LimitOK' /\ WriteOK'
    BY <1>b, <2>1, <2>2, <2>3
    DEF CountInv, CountFacts, EditsOK, SeenOK, LimitOK, WriteOK, Updates, OnChannel, Limit
  <2> QED BY <2>4, <2>5 DEF CountFacts
<1>3. ASSUME NEW c \in Sender, NEW m \in Message, NEW timer \in Timer,
             Recover(c, m, timer)
      PROVE  CountFacts'
  <2> DEFINE next == [pc |-> timer, msg |-> m, seen |-> Nothing, patch |-> "none"]
  <2>1. next \in Call /\ next.pc = timer
    BY NothingType DEF Call, Patch
  <2>2. call' = [call EXCEPT ![c] = next] /\ UNCHANGED out
    BY <1>3 DEF Recover, Begin
  <2>3. Calm(c, next)
    BY <2>1 DEF Calm
  <2> HIDE DEF next
  <2> QED BY <1>a, <1>b, <2>1, <2>2, <2>3, CalmStep
<1>4. ASSUME NEW c \in Sender, NEW timer \in Timer, ListRead(c, timer)
      PROVE  CountFacts'
  <2> DEFINE stale == [call[c] EXCEPT !.pc = "stale"]
             called == [call[c] EXCEPT !.pc = "called", !.seen = out[call[c].msg]]
  <2>1. /\ stale \in Call /\ stale.pc = "stale"
        /\ called \in Call /\ called.pc = "called" /\ called.msg = call[c].msg
        /\ called.seen = out[call[c].msg]
    BY <1>b DEF Call
  <2>2. /\ UNCHANGED out
        /\ \/ call' = [call EXCEPT ![c] = stale]
           \/ call' = [call EXCEPT ![c] = called]
           \/ Done(c)
    BY <1>b, <1>4 DEF ListRead, Goto
  <2> HIDE DEF stale, called
  <2>3. Calm(c, stale) /\ Calm(c, called)
    BY <2>1 DEF Calm
  <2> QED BY <1>a, <1>b, <2>1, <2>2, <2>3, CalmStep, CalmDone
<1>5. ASSUME NEW c \in Sender, GiveUp(c) \/ Refused(c) \/ Crash(c) \/ Cleanup(c)
      PROVE  CountFacts'
  BY <1>a, <1>b, <1>5, CalmDone DEF GiveUp, Refused, Crash, Cleanup
<1>6. ASSUME NEW c \in Sender, Exhaust(c) PROVE CountFacts'
  <2> DEFINE next == [call[c] EXCEPT !.pc = "answered", !.patch = "exhausted"]
  <2>1. /\ next \in Call /\ next.pc = "answered" /\ next.msg = call[c].msg
        /\ next.patch = "exhausted"
    BY <1>b DEF Call, Patch
  <2>2. call' = [call EXCEPT ![c] = next] /\ UNCHANGED out
    BY <1>b, <1>6 DEF Exhaust
  <2> HIDE DEF next
  <2>3. ~Unspent(call[c].msg)
    BY <1>6 DEF Exhaust, Exhausted, UsedUp, At, CountInv, CountFacts, SpentOK
  <2>4. Calm(c, next)
    BY <2>1, <2>3 DEF Calm
  <2> QED BY <1>a, <1>b, <2>1, <2>2, <2>4, CalmStep
<1>7. ASSUME NEW c \in Sender, Quarantine(c) PROVE CountFacts'
  <2>1. /\ out[call[c].msg].status = "delivering" /\ out[call[c].msg].left = 0
        /\ \A n \in Message : n # call[c].msg => out'[n] = out[n]
        /\ out'[call[c].msg].attempts = out[call[c].msg].attempts
        /\ out'[call[c].msg].status = "ambiguous"
    BY <1>b, <1>7 DEF Quarantine, Interrupted, Record
  <2> QED BY <1>a, <1>b, <1>7, <2>1, CalmDone DEF Quarantine
<1>8. ASSUME NEW c \in Sender, Answering(c) PROVE CountFacts'
  <2>1. PICK answer \in Answers : Answer(c, answer)
    BY <1>8 DEF Answering
  <2>2. CASE answer = "thrown"
    BY <1>a, <1>b, <2>1, <2>2, CalmDone DEF Answer
  <2>3. CASE answer # "thrown"
    <3> DEFINE next == [call[c] EXCEPT !.pc = "answered", !.patch = answer]
    <3>1. answer \in {"delivered", "ambiguous", "failed"}
      BY <2>3, OutboxAssumption
    <3>2. /\ next \in Call /\ next.pc = "answered" /\ next.msg = call[c].msg
          /\ next.patch = answer
      BY <1>b, <3>1 DEF Call, Patch
    <3>3. call' = [call EXCEPT ![c] = next] /\ UNCHANGED out /\ Serves(c)
      BY <1>b, <2>1, <2>3 DEF Answer, At, Serves
    <3> HIDE DEF next
    <3>4. Calm(c, next)
      BY <3>1, <3>2, <3>3 DEF Calm
    <3> QED BY <1>a, <1>b, <3>2, <3>3, <3>4, CalmStep
  <2> QED BY <2>2, <2>3
<1>9. ASSUME NEW c \in Caller, UpdateRead(c) PROVE CountFacts'
  <2> DEFINE next == [call[c] EXCEPT !.pc = "writing", !.seen = out[call[c].msg]]
  <2>1. /\ next \in Call /\ next.pc = "writing" /\ next.msg = call[c].msg
        /\ next.patch = call[c].patch /\ next.seen = out[call[c].msg]
    BY <1>b DEF Call
  <2>2. call' = [call EXCEPT ![c] = next] /\ UNCHANGED out /\ call[c].pc = "answered"
    BY <1>b, <1>9 DEF UpdateRead, At
  <2> HIDE DEF next
  <2>3. Calm(c, next)
    BY <2>1, <2>2 DEF Calm
  <2> QED BY <1>a, <2>1, <2>2, <2>3, CalmStep
<1>10. ASSUME NEW c \in Caller, UpdateWrite(c) PROVE CountFacts'
  <2>1. call[c].patch # "retry"
    BY <1>10 DEF UpdateWrite, At, CountInv, CountFacts, EditsOK, Updates, Caller
  <2> QED BY <1>a, <1>10, <2>1, CountWrite
<1>11. ASSUME NEW e \in Editor, NEW m \in Message, NEW request \in Requests,
              Edit(e, m, request)
       PROVE  CountFacts'
  <2> DEFINE next == [pc |-> "answered", msg |-> m, seen |-> Nothing, patch |-> request]
  <2>1. request = "status" /\ m \notin Webhook
    BY <1>11, OutboxAssumption DEF Edit, Admits, NoConfirmations, NoRetries
  <2>2. call' = [call EXCEPT ![e] = next] /\ UNCHANGED out
    BY <1>11 DEF Edit, Begin
  <2>3. next \in Call
    BY <2>1, NothingType DEF Call, Patch
  <2>4. Calm(e, next)
    BY <2>1 DEF Calm
  <2> HIDE DEF next
  <2> QED BY <1>a, <1>b, <2>2, <2>3, <2>4, CalmStep
<1>12. ASSUME UNCHANGED vars PROVE CountFacts'
  BY <1>12 DEF vars, CountInv, CountFacts, NewOK, SpentOK, HoldOK, AloneOK, EditsOK,
     SeenOK, LimitOK, WriteOK, Unspent, Chances, Serves, Updates, OnChannel, Limit
<1>13. ASSUME NEW c \in Sender, Listing(c) \/ Delivering(c) \/ Answering(c) \/ Crash(c)
       PROVE  CountFacts'
  <2>1. c \in Caller
    BY <1>b
  <2> QED
    BY <1>a, <1>4, <1>5, <1>6, <1>7, <1>8, <1>9, <1>10, <1>13, <2>1, CountClaim
    DEF Listing, Delivering, Updating
<1>14. ASSUME NEW e \in Editor, Updating(e) PROVE CountFacts'
  BY <1>b, <1>9, <1>10, <1>14 DEF Updating
<1>15. ASSUME TimelyNext PROVE CountFacts'
  <2>1. Next /\ InTime
    BY <1>15 DEF TimelyNext
  <2>2. Tick => CountFacts'
    BY <1>a, <2>1, CountTick
  <2> QED BY <1>1, <1>2, <1>3, <1>11, <1>13, <1>14, <2>1, <2>2 DEF Next
<1> QED BY <1>a, <1>12, <1>15 DEF CountInv

\* However many servers list, send and crash, a message is claimed at most once
\* beyond its limit for each further server: deliver's check of the attempts is on
\* the record it was listed with, claimOutbox has none.
THEOREM AttemptsStayLimited ==
  NoConfirmations /\ NoRetries /\ IsFiniteSet(Sender)
    => (TimelySpec => []AttemptsAreLimited)
<1> SUFFICES ASSUME NoConfirmations, NoRetries, IsFiniteSet(Sender)
             PROVE  TimelySpec => []AttemptsAreLimited
  OBVIOUS
<1>1. CountInv /\ [TimelyNext]_vars => CountInv'
  BY CountNext
<1>2. CountInv => AttemptsAreLimited
  <2> SUFFICES ASSUME CountInv, NEW m \in Message
               PROVE  out[m].attempts <= MaxAttempts - 1 + Cardinality(Sender)
    BY DEF AttemptsAreLimited
  <2>1. /\ out[m].attempts \in Nat /\ MaxAttempts \in Nat
        /\ Chances(m) \in SUBSET Sender
    BY Bounds DEF CountInv, LeaseInv, TypeInv, TypeOK, Record, Chances
  <2>2. Cardinality(Chances(m)) \in Nat /\ Cardinality(Sender) \in Nat
    BY <2>1, FewerChances
  <2>3. CASE ~Unspent(m)
    <3>1. out[m].attempts + Cardinality(Chances(m)) <= Limit
      BY <2>3 DEF CountInv, CountFacts, LimitOK
    <3> QED BY <2>1, <2>2, <3>1 DEF Limit
  <2>4. CASE Unspent(m)
    BY <2>1, <2>2, <2>4 DEF Unspent
  <2> QED BY <2>3, <2>4
<1> QED BY <1>1, <1>2, CountInit, PTL DEF TimelySpec

=============================================================================
