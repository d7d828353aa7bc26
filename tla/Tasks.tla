------------------------------- MODULE Tasks -------------------------------
(***************************************************************************)
(* The data of the queue and the pure functions over it: the lifecycle     *)
(* table of internal/task (what a status change does to a row) and the     *)
(* attempt bookkeeping of internal/store (what a lifecycle event does to   *)
(* the attempts of a task).                                                *)
(*                                                                         *)
(* A timestamp is a natural number, 0 standing for the empty string.       *)
(***************************************************************************)
EXTENDS Naturals, Sequences

CONSTANTS
    Worker,      \* worker ids a claim or a fenced update may name
    NoWorker     \* the empty worker id, of attempts nobody claimed

ASSUME NoWorkerAssumption == NoWorker \notin Worker

Status == {"todo", "doing", "done", "failed", "deleted", "budget-limited"}

\* The statuses `afk set` guards: they finalize an attempt.
Terminal == {"done", "failed"}

\* A task id that is not in the table: not added yet, or physically deleted.
Absent == {"unborn", "removed"}

Row == [status : Status \cup Absent, started : Nat, lease : Nat,
        avail : Nat, ordinal : Nat]

Attempt == [worker : Worker \cup {NoWorker}, outcome : Terminal \cup {"open", "todo", "budget-limited"}]

-----------------------------------------------------------------------------
(* Lifecycle: the Mark* and Reset methods, reached through the table.       *)

Reset(r) == [r EXCEPT !.status = "todo", !.started = 0, !.lease = 0]

MarkWorking(r, at) == [r EXCEPT !.status = "doing", !.started = at, !.lease = 0]

\* A bug the lease invariant would catch: a lease outlives the claim.
MarkEndedKeepingLease(r, s) == [r EXCEPT !.status = s]

\* MarkDone, MarkFailed, MarkDeleted and MarkBudgetLimited keep `started`.
MarkEnded(r, s) == [r EXCEPT !.status = s, !.lease = 0]

\* A status change to the current status changes nothing.
SetStatus(r, s, at) ==
    CASE s = r.status              -> r
      [] s = "todo"  /\ s # r.status -> Reset(r)
      [] s = "doing" /\ s # r.status -> MarkWorking(r, at)
      [] OTHER                       -> MarkEnded(r, s)

EventForStatus(s) ==
    CASE s = "todo"  -> "requeued"
      [] s = "doing" -> "claimed"
      [] OTHER       -> s

-----------------------------------------------------------------------------
(* Attempts: the open attempt that counts is the latest one.                *)

OpenAttempts(log) == {i \in DOMAIN log : log[i].outcome = "open"}

IsLatestOpen(log, i) ==
    /\ i \in OpenAttempts(log)
    /\ \A j \in OpenAttempts(log) : j <= i

LatestOpen(log) == CHOOSE i \in OpenAttempts(log) : IsLatestOpen(log, i)

\* A task without an open attempt has the empty owner.
ActiveAttemptOwner(log) ==
    IF OpenAttempts(log) = {} THEN NoWorker ELSE log[LatestOpen(log)].worker

OpenAttempt(log, w) == Append(log, [worker |-> w, outcome |-> "open"])

\* A bug the history property would catch: the last attempt, open or not.
CloseLast(log, outcome) ==
    IF OpenAttempts(log) = {} THEN log ELSE [log EXCEPT ![Len(log)].outcome = outcome]

CloseLatest(log, outcome) ==
    IF OpenAttempts(log) = {} THEN log
    ELSE [log EXCEPT ![LatestOpen(log)].outcome = outcome]

\* What a budget limit does: whichever attempt is open, not the latest only.
CloseAllOpen(log, outcome) ==
    [i \in DOMAIN log |-> IF log[i].outcome = "open"
                          THEN [log[i] EXCEPT !.outcome = outcome] ELSE log[i]]

\* What a lifecycle event does to the attempts, the task now having status s.
\* Deleting or limiting a task leaves its attempts alone.
AttemptsAfter(event, log, s) ==
    CASE event = "claimed"  -> OpenAttempt(log, NoWorker)
      [] event = "requeued" -> CloseLatest(log, s)
      [] event \in Terminal /\ OpenAttempts(log) # {} -> CloseLatest(log, s)
      [] event \in Terminal /\ OpenAttempts(log) = {} ->
            Append(log, [worker |-> NoWorker, outcome |-> s])
      [] OTHER -> log

=============================================================================
