-------------------------- MODULE QueueRefinement --------------------------
(***************************************************************************)
(* The queue implements the ledger of claims as long as workers change     *)
(* statuses to done and failed only, and nobody else changes any.          *)
(***************************************************************************)
EXTENDS Queue

Fate(outcome) ==
    CASE outcome = "open" -> "held"
      [] outcome = "todo" -> "reclaimed"
      [] OTHER            -> "finished"

Ledger == INSTANCE ClaimLedger WITH
    ledger   <- [t \in Task |-> [i \in DOMAIN attempts[t] |->
                    [worker |-> attempts[t][i].worker,
                     fate   |-> Fate(attempts[t][i].outcome)]]],
    deadline <- [t \in Task |-> row[t].lease],
    clock    <- now

\* The promise to workers: exclusive claims, each settled once, by its worker
\* before the lease runs out or by the reaper after it.
LedgerSpec == Ledger!Spec

=============================================================================
