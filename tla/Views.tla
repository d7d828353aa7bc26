-------------------------------- MODULE Views --------------------------------
(***************************************************************************)
(* What `afk status` tells of the queue: which tasks it reports as held    *)
(* back, and which claims as stale.  Both are derived in Go from the rows  *)
(* it reads, apart from the SQL by which claims and the reaper decide.     *)
(***************************************************************************)
EXTENDS Queue

\* Service.Blocked asks for the relations of a task to do and compares what it
\* is related to with done; a row that is not there is reported as missing.
\* Dependencies returns the relations of every type.
Dependencies(t) == {u \in Task : relation[t][u] # "none"}

Blockers(t) ==
    {u \in Dependencies(t) : row[t].status = "todo" /\ row[u].status # "done"}

\* A bug that would call claims stale which the reaper leaves alone.
StaleByAgeAlone(t, after) ==
    row[t].status = "doing" /\ after > 0 /\ now - row[t].started > after

\* ClaimDiagnosticsFor: by the lease if there is one, else by age.
DiagnosedStale(t, after) ==
    /\ row[t].status = "doing" /\ row[t].started # 0
    /\ \/ row[t].lease # 0 /\ row[t].lease <= now
       \/ row[t].lease = 0 /\ after > 0 /\ now - row[t].started > after

-----------------------------------------------------------------------------
(* Properties                                                               *)

\* docs/command-reference.md:306, "`--blocked` explains `todo` tasks held back
\* by unfinished dependencies"; task/diagnostics.go:23, the blockers "keep it
\* out of the ready set".  So no task in that report can be claimed.
BlockedAreHeldBack == \A t \in Task : Blockers(t) # {} => ~Ready(t)

\* A claim shown as stale is one that the reaper ends when it is run with the
\* age that the display uses: nobody is told to wait for a requeue in vain.
StaleIsReaped ==
    \A t \in Task, age \in StaleAges :
        DiagnosedStale(t, age) => StillStale(row[t], now, now - age)

=============================================================================
