--------------------------------- MODULE Outbox ---------------------------------
(***************************************************************************)
(* The durable outbox: channel messages (channels/outbox.ts) and webhooks  *)
(* (lib/webhookOutbox.ts), their records in the store, the calls that      *)
(* deliver them and the owner's requests about them.                       *)
(*                                                                         *)
(* createOutbox and claimOutbox are compare-and-set, so one step each.     *)
(* updateOutbox is not: it reads the record, and later writes the whole of *)
(* what it read with its patch.  A delivery decides on the record that was *)
(* listed for it, which may have changed by the time it acts.              *)
(***************************************************************************)
EXTENDS Integers, FiniteSets

CONSTANTS
  Webhook,        \* the messages that are webhooks; the others are a channel's
  Sender,         \* recoveries and sends in progress, with their deliveries
  Editor,         \* other requests in progress that update a record
  Requests,       \* which of these there are
  Answers,        \* what a provider's answer may come to
  MaxMessage,     \* bound: how many messages are enqueued
  ListLimit,      \* messages a recovery lists (100)
  MaxAttempts,    \* MAX_DELIVERY_ATTEMPTS, MAX_ATTEMPTS (5)
  LeaseTicks,     \* DELIVERY_LEASE_MS, LEASE_MS (one minute)
  MaxClaims,      \* bound: the attempts claimed for a webhook
  MaxCrashes      \* bound: how many calls die

Message == 1..MaxMessage  \* in the order of their creation
Caller == Sender \cup Editor

ASSUME OutboxAssumption ==
  /\ {MaxMessage, ListLimit, MaxAttempts, LeaseTicks} \subseteq Nat \ {0}
  /\ {MaxClaims, MaxCrashes} \subseteq Nat
  /\ Webhook \subseteq Message
  /\ Sender \cap Editor = {}
  /\ Requests \subseteq {"confirm", "retry", "status"}
  /\ Answers \subseteq {"delivered", "ambiguous", "failed", "thrown"}

VARIABLES
  out,      \* the records
  index,    \* the statuses under which a record is indexed for recovery
  call,     \* the calls
  arrived,  \* messages whose receiver took a request, for all we know
  crashes

vars == <<out, index, call, arrived, crashes>>

-----------------------------------------------------------------------------
Recoverable == {"queued", "failed", "delivering"}

Record ==
  [status : {"none", "queued", "delivering", "delivered", "failed", "ambiguous"},
   attempts : Nat,
   left : 0..LeaseTicks,   \* ticks until leaseExpiresAt
   receipt : BOOLEAN]      \* the provider answered, for a channel with its id

Nothing == [status |-> "none", attempts |-> 0, left |-> 0, receipt |-> FALSE]
Queued == [Nothing EXCEPT !.status = "queued"]

\* The two recoveries have a timer each, and list over the one index.
Timer == {"channels", "webhooks"}

\* seen is the record a delivery was called with, and then the one its update read.
Patch == {"none", "delivered", "ambiguous", "failed", "exhausted", "confirm",
          "retry", "status"}
Call == [pc : {"idle", "stale", "called", "sending", "answered", "writing"} \cup Timer,
         msg : Message, seen : Record, patch : Patch]
NoCall == [pc |-> "idle", msg |-> 1, seen |-> Nothing, patch |-> "none"]

TypeOK ==
  /\ out \in [Message -> Record]
  /\ index \in [Message -> SUBSET Recoverable]
  /\ call \in [Caller -> Call]
  /\ arrived \subseteq Message
  /\ crashes \in 0..MaxCrashes

Init ==
  /\ out = [m \in Message |-> Nothing]
  /\ index = [m \in Message |-> {}]
  /\ call = [c \in Caller |-> NoCall]
  /\ arrived = {}
  /\ crashes = 0

At(c, pc) == call[c].pc = pc
Goto(c, pc) == call' = [call EXCEPT ![c].pc = pc]
Done(c) == call' = [call EXCEPT ![c] = NoCall]
Begin(c, m, pc, record, patch) ==
  /\ At(c, "idle")
  /\ call' = [call EXCEPT ![c] = [pc |-> pc, msg |-> m, seen |-> record,
                                  patch |-> patch]]

Less(n) == IF n > 0 THEN n - 1 ELSE 0
Tick ==
  /\ out' = [m \in Message |-> [out[m] EXCEPT !.left = Less(@)]]
  /\ call' = [c \in Caller |-> [call[c] EXCEPT !.seen.left = Less(@)]]
  /\ <<out, call>>' # <<out, call>>
  /\ UNCHANGED <<index, arrived, crashes>>

-----------------------------------------------------------------------------
(* Enqueueing and listing.                                                 *)

\* createOutbox, once per idempotency key
Created(m) ==
  /\ \A n \in 1..(m - 1) : out[n].status # "none"
  /\ IF out[m].status = "none"
       THEN out' = [out EXCEPT ![m] = Queued] /\ index' = [index EXCEPT ![m] = {"queued"}]
       ELSE UNCHANGED <<out, index>>

\* ChannelOutbox.send: the message may have been sent, or be being sent, before.
Send(c, m) ==
  /\ m \notin Webhook /\ Created(m)
  /\ Begin(c, m, "called", out'[m], "none")
  /\ UNCHANGED <<arrived, crashes>>

\* notifyWebhooks, enqueueA2AMissionUpdate: nothing sends it.
Notify(m) ==
  /\ m \in Webhook /\ Created(m) /\ out[m].status = "none"
  /\ UNCHANGED <<call, arrived, crashes>>

\* deliveries in progress are not looked at
Statuses_Bug(timer) ==
  IF timer = "channels" THEN {"queued"} ELSE {"queued", "failed"}

\* what recover (channels) and recoverSdkWebhooks list
Statuses(timer) ==
  IF timer = "channels" THEN {"queued", "delivering"} ELSE Recoverable

Oldest(messages) ==
  {m \in messages : Cardinality({n \in messages : n < m}) < ListLimit}

\* listRecoverableOutbox: the ids, from the indexes
Recover(c, m, timer) ==
  /\ \E s \in Statuses(timer) : m \in Oldest({n \in Message : s \in index[n]})
  /\ Begin(c, m, timer, Nothing, "none")
  /\ UNCHANGED <<out, index, arrived, crashes>>

\* ... the records, of which the oldest are delivered, if they are its own
Own(m) == IF m \in Webhook THEN "webhooks" ELSE "channels"

ListRead(c, timer) ==
  LET m == call[c].msg
      found == {n \in Message : /\ out[n].status \in Statuses(timer)
                                /\ index[n] \cap Statuses(timer) # {}}
  IN
  /\ At(c, timer)
  /\ IF out[m].status \notin Statuses(timer) THEN Goto(c, "stale")
     ELSE IF timer = Own(m) /\ m \in Oldest(found)
       THEN call' = [call EXCEPT ![c].pc = "called", ![c].seen = out[m]]
     ELSE Done(c)
  /\ UNCHANGED <<out, index, arrived, crashes>>

\* ... and what was not as indexed is taken off every index.
Cleanup(c) ==
  /\ At(c, "stale")
  /\ index' = [index EXCEPT ![call[c].msg] = {}]
  /\ Done(c)
  /\ UNCHANGED <<out, arrived, crashes>>

-----------------------------------------------------------------------------
(* deliver and deliverSdkWebhook.                                          *)

\* > for >=
UsedUp_Bug(r) == r.attempts > MaxAttempts

UsedUp(r) == r.attempts >= MaxAttempts

GivenUp(c) ==
  LET r == call[c].seen IN
  \/ r.status = "delivered"
  \/ call[c].msg \notin Webhook /\ (r.status = "ambiguous" \/ UsedUp(r))

Exhausted(c) == call[c].msg \in Webhook /\ UsedUp(call[c].seen) /\ ~GivenUp(c)

GiveUp(c) ==
  /\ At(c, "called") /\ GivenUp(c)
  /\ Done(c)
  /\ UNCHANGED <<out, index, arrived, crashes>>

Exhaust(c) ==
  /\ At(c, "called") /\ Exhausted(c)
  /\ call' = [call EXCEPT ![c].pc = "answered", ![c].patch = "exhausted"]
  /\ UNCHANGED <<out, index, arrived, crashes>>

MayClaim(c) ==
  At(c, "called") /\ ~GivenUp(c) /\ ~Exhausted(c)

\* a live lease does not stop a second claim
ClaimableLeased_Bug(r) == r.status # "delivered"
\* nor does a delivery
ClaimableDelivered_Bug(r) == r.status # "delivering"
\* an interrupted send is taken up again
ClaimableExpired_Bug(r) ==
  r.status \notin {"delivered", "delivering"} \/ (r.status = "delivering" /\ r.left = 0)

\* claimOutbox
Claimable(r) == r.status \notin {"delivered", "delivering"}
Interrupted(r) == r.status = "delivering" /\ r.left = 0

Claim(c) ==
  LET m == call[c].msg IN
  /\ MayClaim(c) /\ Claimable(out[m])
  /\ m \in Webhook => out[m].attempts < MaxClaims
  /\ out' = [out EXCEPT ![m].status = "delivering", ![m].left = LeaseTicks,
                        ![m].attempts = @ + 1]
  /\ index' = [index EXCEPT ![m] = (@ \ {out[m].status}) \cup {"delivering"}]
  /\ Goto(c, "sending")
  /\ UNCHANGED <<arrived, crashes>>

Quarantine(c) ==
  LET m == call[c].msg IN
  /\ MayClaim(c) /\ Interrupted(out[m])
  /\ out' = [out EXCEPT ![m].status = "ambiguous", ![m].left = 0]
  /\ index' = [index EXCEPT ![m] = @ \ {"delivering"}]
  /\ Done(c)
  /\ UNCHANGED <<arrived, crashes>>

Refused(c) ==
  LET m == call[c].msg IN
  /\ MayClaim(c) /\ ~Claimable(out[m]) /\ ~Interrupted(out[m])
  /\ Done(c)
  /\ UNCHANGED <<out, index, arrived, crashes>>

\* adapter.send, deliverWebhook.  A channel's error is ambiguous, whatever it
\* is; a webhook's is if fetch threw, and "failed" for a status that is not OK.
\* A webhook whose secret cannot be opened throws before the request, and
\* leaves the record as it is.
Answer(c, answer) ==
  /\ At(c, "sending")
  /\ answer \in {"failed", "thrown"} => call[c].msg \in Webhook
  /\ IF answer = "thrown"
       THEN Done(c)
       ELSE call' = [call EXCEPT ![c].pc = "answered", ![c].patch = answer]
  /\ arrived' = IF answer \in {"delivered", "ambiguous"}
                  THEN arrived \cup {call[c].msg} ELSE arrived
  /\ UNCHANGED <<out, index, crashes>>

-----------------------------------------------------------------------------
(* updateOutbox, and the requests that call it.                            *)

\* An owner who confirms has no receipt to give.
Patched(r, patch) ==
  IF patch = "status" THEN r
  ELSE IF patch = "exhausted" THEN [r EXCEPT !.status = "failed"]
  ELSE IF patch = "retry"
    THEN [r EXCEPT !.status = "queued", !.attempts = 0, !.left = 0]
  ELSE [r EXCEPT !.status = IF patch \in {"ambiguous", "failed"}
                              THEN patch ELSE "delivered",
                 !.left = 0,
                 !.receipt = @ \/ patch = "delivered"]

\* whatever its status
Indexed_Bug(r) == {r.status}

Indexed(r) == {r.status} \cap Recoverable

UpdateRead(c) ==
  /\ At(c, "answered")
  /\ call' = [call EXCEPT ![c].pc = "writing", ![c].seen = out[call[c].msg]]
  /\ UNCHANGED <<out, index, arrived, crashes>>

UpdateWrite(c) ==
  /\ At(c, "writing")
  /\ LET next == Patched(call[c].seen, call[c].patch) IN
       /\ out' = [out EXCEPT ![call[c].msg] = next]
       /\ index' = [index EXCEPT ![call[c].msg] = Indexed(next)]
  /\ Done(c)
  /\ UNCHANGED <<arrived, crashes>>

\* What each request checks before it calls updateOutbox: confirm-delivered, a
\* webhook's retry, and a channel provider's callback about a message it took.
Admits(request, m) ==
  \/ request = "confirm" /\ m \notin Webhook /\ out[m].status = "ambiguous"
  \/ request = "retry" /\ m \in Webhook /\ out[m].status = "failed"
  \/ request = "status" /\ m \notin Webhook /\ out[m].receipt

Edit(e, m, request) ==
  /\ request \in Requests /\ Admits(request, m)
  /\ Begin(e, m, "answered", Nothing, request)
  /\ UNCHANGED <<out, index, arrived, crashes>>

\* A server stops; of the calls it was making, this is one.
Crash(c) ==
  /\ ~At(c, "idle") /\ crashes < MaxCrashes
  /\ crashes' = crashes + 1
  /\ arrived' = IF At(c, "sending") THEN arrived \cup {call[c].msg} ELSE arrived
  /\ Done(c)
  /\ UNCHANGED <<out, index>>

-----------------------------------------------------------------------------
Updating(c) == UpdateRead(c) \/ UpdateWrite(c)
Listing(c) == (\E timer \in Timer : ListRead(c, timer)) \/ Cleanup(c)
Delivering(c) ==
  GiveUp(c) \/ Exhaust(c) \/ Claim(c) \/ Quarantine(c) \/ Refused(c) \/ Updating(c)
Answering(c) == \E answer \in Answers : Answer(c, answer)

Next ==
  \/ Tick
  \/ \E m \in Message : Notify(m)
  \/ \E c \in Sender, m \in Message : Send(c, m)
  \/ \E c \in Sender, m \in Message, timer \in Timer : Recover(c, m, timer)
  \/ \E c \in Sender : Listing(c) \/ Delivering(c) \/ Answering(c) \/ Crash(c)
  \/ \E e \in Editor, m \in Message, request \in Requests : Edit(e, m, request)
  \/ \E e \in Editor : Updating(e)

Spec == Init /\ [][Next]_vars

(***************************************************************************)
(* A sender in time ends its request and its update within its lease.  A   *)
(* webhook's request is aborted after ten seconds of its minute.  Of the   *)
(* channels some put no limit on theirs, so for them this is an assumption *)
(* about the provider.                                                     *)
(***************************************************************************)
Sends(c) ==
  call[c].pc \in {"sending", "answered", "writing"} /\ call[c].patch # "exhausted"

InTime ==
  \A c \in Sender :
    LET m == call[c].msg IN
    Sends(c) /\ out[m].left > 0 => out'[m].left > 0 \/ out'[m].status # "delivering"

TimelyNext == Next /\ InTime
TimelySpec == Init /\ [][TimelyNext]_vars

(***************************************************************************)
(* A recovery goes through every message it lists: a message that is       *)
(* listed again and again gets its call.  A call runs to its end unless    *)
(* its server stops.  Nothing else has to happen: nobody has to send,      *)
(* confirm or retry.                                                       *)
(***************************************************************************)
Fairness ==
  /\ WF_vars(Tick /\ InTime)
  /\ \A m \in Message : SF_vars(\E c \in Sender : Recover(c, m, Own(m)))
  /\ \A c \in Sender : WF_vars(Listing(c) \/ Delivering(c)) /\ WF_vars(Answering(c))

FairSpec == TimelySpec /\ Fairness

-----------------------------------------------------------------------------
(* Safety.                                                                 *)

\* Two calls never have a request for the same channel message under way,
\* however many servers list, send or find it interrupted at the same time.
OneSender ==
  \A c, d \in Sender :
    /\ At(c, "sending") /\ At(d, "sending")
    /\ call[c].msg = call[d].msg /\ call[c].msg \notin Webhook
    => c = d

\* A delivered channel message stays delivered: no update that was begun before,
\* and no call that still has it for queued, takes it back.
DeliveredStands ==
  [][\A m \in Message \ Webhook :
       out[m].status = "delivered" => out'[m].status = "delivered"]_vars

\* A call counts its attempt against the record it was listed with, so overlapping
\* listings send a message more often than its limit says; but only once more for
\* each further server.  An owner's retry starts the count again.
AttemptsAreLimited ==
  \A m \in Message : out[m].attempts <= MaxAttempts - 1 + Cardinality(Sender)

\* No request is made for a message whose receiver may have taken an earlier
\* one: neither after an error, nor after a crash at any point of a delivery.
NotReplayed ==
  [][\A c \in Sender :
       At(c, "called") /\ call'[c].pc = "sending" => call[c].msg \notin arrived]_vars

-----------------------------------------------------------------------------
(* Liveness.                                                               *)

\* Every message comes to rest: delivered, known to be uncertain, or refused
\* until its attempts are used up; whoever was sending it crashes or not.
AtRest(r) ==
  \/ r.status \in {"delivered", "ambiguous"}
  \/ r.status = "failed" /\ UsedUp(r)

Rests == \A m \in Message : out[m].status # "none" ~> AtRest(out[m])

-----------------------------------------------------------------------------
(* What the comments and messages say, and the code does not do.           *)

\* The retry route: "Only definitively failed webhook deliveries can be
\* retried."  A failed delivery is one that its receiver has not taken.
FailedIsDefinite ==
  \A m \in Message : out[m].status = "failed" => m \notin arrived

\* "Every new or updated record maintains its index atomically", so a message that
\* recovery should find is in the index it looks through; but a listing cleans up
\* by what it read before.
IndexComplete ==
  \A m \in Message : out[m].status \in Recoverable => out[m].status \in index[m]

\* The confirm-delivered route: "Only an ambiguous delivery can be confirmed"; but
\* the record may be on its way again when the confirmation is written.
ConfirmsAmbiguous ==
  [][\A e \in Editor :
       At(e, "writing") /\ call[e].patch = "confirm" /\ call'[e].pc = "idle"
         => out[call[e].msg].status \in {"ambiguous", "delivered"}]_vars
=============================================================================
