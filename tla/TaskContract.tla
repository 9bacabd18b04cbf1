----------------------------- MODULE TaskContract -----------------------------
(***************************************************************************)
(* What src/store.ts promises of one durable task to those who only watch  *)
(* its status: missions, subagents, the task API.  Leases, publications,   *)
(* runs, callbacks and clocks are below this level, and so is everything   *)
(* that may be lost or repeated there.                                     *)
(*                                                                         *)
(* The task is queued until somebody takes it, it is then in the hands of  *)
(* workers, and whoever has it puts it back or gives its result.  Nobody   *)
(* else changes it but its owner, by a cancellation or a retry, and the    *)
(* deliveries that never reach a worker.  A completed task stays so.       *)
(***************************************************************************)
EXTENDS Integers

CONSTANTS
  MaxAttempts,    \* attempts a task has before its failure is final
  MaxDeliveries   \* lost deliveries in a row that fail it

VARIABLES status, attempt, failures

vars == <<status, attempt, failures>>

InHand == {"running", "cancel_requested"}

Init == status = "queued" /\ attempt = 0 /\ failures = 0

\* A worker takes the task, or takes it over from one that was lost.
Take ==
  /\ status \in {"queued", "running"}
  /\ status' = "running"
  /\ attempt' \in {attempt, attempt + 1} /\ attempt' <= MaxAttempts
  /\ failures' = 0

\* It is put back, to continue, to wait or to be tried again; a worker that
\* made progress gives it its attempts back.
PutBack ==
  /\ status \in InHand
  /\ status' = "queued"
  /\ attempt' \in {0, attempt}
  /\ UNCHANGED failures

\* Its result.  A failure is final only after the last attempt.
Finish(result) ==
  /\ status \in InHand
  /\ result = "failed" => attempt = MaxAttempts
  /\ status' = result
  /\ UNCHANGED <<attempt, failures>>

\* A delivery never reached a worker.
Miss ==
  /\ status = "queued" /\ failures < MaxDeliveries
  /\ failures' = failures + 1
  /\ status' = IF failures' = MaxDeliveries THEN "failed" ELSE "queued"
  /\ UNCHANGED attempt

\* The owner's commands.
Cancel ==
  /\ status \notin {"completed", "cancelled"}
  /\ status' = IF status \in InHand THEN "cancel_requested" ELSE "cancelled"
  /\ UNCHANGED <<attempt, failures>>

Retry ==
  /\ status \in {"blocked", "failed", "cancelled"}
  /\ status' = "queued" /\ attempt' = 0 /\ failures' = 0

Next ==
  \/ Take \/ PutBack \/ Miss \/ Cancel \/ Retry
  \/ \E result \in {"completed", "blocked", "failed", "cancelled"} : Finish(result)

Spec == Init /\ [][Next]_vars
=============================================================================
