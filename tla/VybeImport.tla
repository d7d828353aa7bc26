----------------------------- MODULE VybeImport -----------------------------
(***************************************************************************)
(* `afk import vybe`: the tasks of a frozen archive of the predecessor,    *)
(* with their history, enter the queue in one transaction, under the ids   *)
(* they had.  The queue remembers the archive by its hash, and each task   *)
(* by a checkpoint that outlives its row.                                  *)
(*                                                                         *)
(* An archive is a record of its four files and of the counts its manifest *)
(* announces.  Rows keep what the import decides by; a reference is a task *)
(* or NoTask.                                                              *)
(***************************************************************************)
EXTENDS Queue

CONSTANTS
    Archive,        \* hashes of the archives there are
    Content,        \* [Archive -> the files of each]
    LegacyGate,     \* the gate "legacy-vybe-blocked"
    NoTask, NoReport

VybeStatus ==
    {"pending", "todo", "in_progress", "doing", "completed", "done",
     "failed", "blocked", "blocked_by_failure"}

\* What became of the rows of a file, and the report that is stored.
TallyType == [imported : Nat, archived : Nat, orphans : Nat]
ReportType ==
    [tasks : Nat, events : TallyType, memories : TallyType, artifacts : TallyType]

ASSUME ImportAssumption ==
    /\ LegacyGate \in Gate
    /\ NoTask \notin Task /\ NoReport \notin ReportType
    /\ \A a \in Archive :
          /\ Content[a].tasks \in Seq([id : Task, status : VybeStatus])
          /\ Content[a].events \in Seq(Task \cup {NoTask})
          /\ Content[a].memories \in Seq([scope : {"task", "other"}, of : Task \cup {NoTask}])
          /\ Content[a].artifacts \in Seq(Task \cup {NoTask})
          /\ Content[a].counts \in [tasks : Nat, events : Nat, memories : Nat, artifacts : Nat]

VARIABLES
    reports,    \* vybe_imports: the report of each applied archive
    provenance  \* the tasks that have an import_metadata checkpoint

importVars == <<reports, provenance>>

ImportInit ==
    /\ Init
    /\ reports = [a \in Archive |-> NoReport]
    /\ provenance = {}

-----------------------------------------------------------------------------
(* Reading an archive                                                       *)

Places(a) == DOMAIN Content[a].tasks
Ids(a) == {Content[a].tasks[i].id : i \in Places(a)}

\* mapVybeStatus: nobody works on what was in progress; what was blocked is to
\* do behind a gate, or failed if it says so.
ImportedStatus(s) ==
    CASE s \in {"completed", "done"}              -> "done"
      [] s \in {"failed", "blocked_by_failure"}   -> "failed"
      [] OTHER                                    -> "todo"

Gated(a) == {Content[a].tasks[i].id : i \in {j \in Places(a) : Content[a].tasks[j].status = "blocked"}}

ActiveIds(a) ==
    {Content[a].tasks[i].id :
        i \in {j \in Places(a) : ImportedStatus(Content[a].tasks[j].status) = "todo"}}

\* The manifest announces the rows that the files have.
CountsMatch(files) ==
    files.counts = [tasks |-> Len(files.tasks), events |-> Len(files.events),
                    memories |-> Len(files.memories), artifacts |-> Len(files.artifacts)]

\* What is refused before the database is opened for writing.
WellFormed(a) ==
    LET files == Content[a]
    IN  /\ CountsMatch(files)
        /\ Cardinality(Ids(a)) = Len(files.tasks)
        /\ \A i \in DOMAIN files.memories :
              files.memories[i].scope = "task" => files.memories[i].of # NoTask
        /\ \A i \in DOMAIN files.artifacts : files.artifacts[i] \in Ids(a)

CountIn(refs, S) == Cardinality({i \in DOMAIN refs : refs[i] \in S})

\* A bug the reconciliation would not survive: rows that belong to tasks of no
\* archive are counted as orphans, and nowhere else.
TallyOrphansApart(refs, a) ==
    [imported |-> CountIn(refs, ActiveIds(a)),
     archived |-> CountIn(refs, Ids(a) \ ActiveIds(a)),
     orphans  |-> CountIn(refs, Task \ Ids(a))]

\* Rows of active tasks are imported, all others stay in the archive only; those
\* that name a task the archive has not are orphans besides.
Tally(refs, a) ==
    [imported |-> CountIn(refs, ActiveIds(a)),
     archived |-> CountIn(refs, (Task \cup {NoTask}) \ ActiveIds(a)),
     orphans  |-> CountIn(refs, Task \ Ids(a))]

\* Memories of other scopes belong to no task.
Report(a) ==
    LET files == Content[a]
        owners == [i \in DOMAIN files.memories |->
                     IF files.memories[i].scope = "task" THEN files.memories[i].of ELSE NoTask]
    IN  [tasks     |-> Len(files.tasks),
         events    |-> Tally(files.events, a),
         memories  |-> Tally(owners, a),
         artifacts |-> Tally(files.artifacts, a)]

-----------------------------------------------------------------------------
(* Importing it                                                             *)

\* Bugs the properties below would catch: what is there already is replaced;
\* what was deleted is imported again.
ImportableAnyway(a) == WellFormed(a) /\ reports[a] = NoReport

ImportableIfAbsent(a) ==
    /\ WellFormed(a) /\ reports[a] = NoReport
    /\ Ids(a) \cap Present = {}

\* One row that is there, or was once imported, refuses the whole archive.
Importable(a) ==
    /\ WellFormed(a) /\ reports[a] = NoReport
    /\ Ids(a) \cap (Present \cup provenance) = {}

\* A bug that would let blocked tasks run: they are imported without a gate.
NoGatesFor(a) == [t \in Task |-> gates[t]]

GatesFor(a) ==
    [t \in Task |-> IF t \in Gated(a) THEN [gates[t] EXCEPT ![LegacyGate] = "unmet"]
                    ELSE gates[t]]

\* `afk import vybe --apply`.  A dry run does the same and rolls it back; one
\* that finds a report returns that and does nothing.
ImportArchive(a) ==
    LET place(t) == CHOOSE i \in Places(a) : Content[a].tasks[i].id = t
        imported(t) == [NewRow(0, NextOrdinal + place(t) - 1) EXCEPT
                            !.status = ImportedStatus(Content[a].tasks[place(t)].status)]
    IN  /\ Importable(a)
        /\ row' = [t \in Task |-> IF t \in Ids(a) THEN imported(t) ELSE row[t]]
        /\ gates' = GatesFor(a)
        /\ reports' = [reports EXCEPT ![a] = Report(a)]
        /\ provenance' = provenance \cup Ids(a)
        /\ UNCHANGED <<attempts, relation, goalStatus, now, reaper>>

-----------------------------------------------------------------------------
\* The ids of archives are not among those that `afk add` makes up.
Queueing ==
    /\ Next
    /\ \A a \in Archive : \A t \in Ids(a) : row[t].status = "unborn" => row'[t].status = "unborn"
    /\ UNCHANGED importVars

Importing == \E a \in Archive : ImportArchive(a)

ImportNext == Queueing \/ Importing

ImportSpec == ImportInit /\ [][ImportNext]_<<vars, importVars>>

-----------------------------------------------------------------------------
(* Properties                                                               *)

Applied == {a \in Archive : reports[a] # NoReport}

\* An archive is imported as a whole, or nothing of it, and no task comes from
\* two archives, whatever the order of imports that overlap.
ImportedWhole ==
    /\ provenance = UNION {Ids(a) : a \in Applied}
    /\ \A a, b \in Applied : a # b => Ids(a) \cap Ids(b) = {}

\* A task that was physically deleted does not come back: not by another
\* archive that has it, either.
DeletedForGood == [][\A t \in Task : row[t].status = "removed" => row'[t].status = "removed"]_vars

\* The stored report accounts for each row of the archive once: as imported, or
\* as archived only; and orphans are among the latter.
Reconciled ==
    \A a \in Applied :
        LET adds(tally, n) == tally.imported + tally.archived = n /\ tally.orphans <= tally.archived
            counts == Content[a].counts
        IN  /\ reports[a].tasks = counts.tasks
            /\ adds(reports[a].events, counts.events)
            /\ adds(reports[a].memories, counts.memories)
            /\ adds(reports[a].artifacts, counts.artifacts)

\* What was blocked in the archive runs only after someone has approved its
\* gate, by a claim or by satisfying it, whatever came between.
BlockedStaysBlocked ==
    \A a \in Applied : \A t \in Gated(a) :
        attempts[t] # <<>> => gates[t][LegacyGate] = "satisfied"

=============================================================================
