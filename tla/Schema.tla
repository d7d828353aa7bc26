------------------------------- MODULE Schema -------------------------------
(***************************************************************************)
(* Opening the queue's database: every `afk` process checks the version of *)
(* the schema, then creates and migrates what is missing in one IMMEDIATE  *)
(* transaction, while others open, write or end, and a newer afk may       *)
(* upgrade the same file.                                                  *)
(*                                                                         *)
(* A database is a record of what the migrations tell apart: the tables    *)
(* that got columns later, those columns, the indexes and triggers that    *)
(* base DDL does not make, the status of each task, and how many rows of   *)
(* the full-text index name the task with a status.                        *)
(***************************************************************************)
EXTENDS Naturals, Sequences

CONSTANTS
    Process,        \* invocations of afk; each opens the database once
    NoProcess,
    Task,
    Databases       \* what the first of them may find

CurrentVersion == 13

Table == {"tasks", "task_dependencies", "goal_groups"}

\* "budget" stands for the nine columns of version 11, the first two for all
\* those that migrateTaskMetadata adds.
Columns ==
    [tasks |-> {"group_id", "revision", "available_at"},
     task_dependencies |-> {"relation_type"},
     goal_groups |-> {"outcome", "budget"}]

Column == UNION {Columns[table] : table \in Table}

\* What base DDL builds an index on.
BaseIndexed == {"group_id"}

Object == {"type_index", "scoped_trigger", "revision_trigger", "available_index"}

Status == {"todo", "doing", "done"}
LegacyStatus == {"pending", "working"}

Canonical(s) ==
    CASE s = "pending" -> "todo"
      [] s = "working" -> "doing"
      [] OTHER         -> s

NoRows == [s \in Status \cup LegacyStatus |-> 0]
OnlyRow(s) == [NoRows EXCEPT ![s] = 1]

Database ==
    [version : Nat, tables : SUBSET Table, columns : SUBSET Column,
     objects : SUBSET Object,
     status : [Task -> Status \cup LegacyStatus \cup {"none"}],
     index : [Task -> [Status \cup LegacyStatus -> Nat]]]

ASSUME SchemaAssumption ==
    /\ NoProcess \notin Process
    /\ Databases \subseteq Database

VARIABLES
    db,         \* the database, as committed
    work,       \* what the transaction of the writer has made of it
    writer,     \* the process that holds the write lock, or NoProcess
    at,         \* where each process is
    step,       \* per process: the migration it runs next
    migrated    \* how many transactions that migrated have committed

vars == <<db, work, writer, at, step, migrated>>

Place == {"closed", "checked", "base", "migrating", "migrated",
          "open", "refused", "failed", "ended"}

SchemaInit ==
    /\ db \in Databases
    /\ work = db
    /\ writer = NoProcess
    /\ at = [p \in Process |-> "closed"]
    /\ step = [p \in Process |-> 1]
    /\ migrated = 0

-----------------------------------------------------------------------------
(* Base schema and migrations, as functions of the database                 *)

\* A table that is missing is created with all of its columns; one that is
\* there keeps the columns it has.
CreateBaseSchema(d) ==
    [d EXCEPT !.tables = Table,
              !.columns = @ \cup UNION {Columns[table] : table \in Table \ d.tables}]

MigrateTaskMetadata(d) == [d EXCEPT !.columns = @ \cup {"group_id", "relation_type"}]

MigrateTaskDependencyTypeIndex(d) == [d EXCEPT !.objects = @ \cup {"type_index"}]

\* A bug the rows would not survive: what was worked on is to do again.
MigrateStatusNamesToTodo(d) ==
    [d EXCEPT !.status = [t \in Task |-> IF @[t] \in LegacyStatus THEN "todo" ELSE @[t]],
              !.index = [t \in Task |-> IF d.status[t] \in LegacyStatus
                                        THEN OnlyRow("todo") ELSE @[t]]]

\* The triggers are there by now, and index the tasks it renames.
MigrateStatusNames(d) ==
    [d EXCEPT !.status = [t \in Task |-> Canonical(@[t])],
              !.index = [t \in Task |-> IF d.status[t] \in LegacyStatus
                                        THEN OnlyRow(Canonical(d.status[t])) ELSE @[t]]]

RowsIndexed(d) ==
    [t \in Task |-> IF d.status[t] = "none" THEN NoRows ELSE OnlyRow(d.status[t])]

\* A bug: the index is not cleared first.
BackfillTasksFTSUncleared(d) ==
    [d EXCEPT !.index = [t \in Task |-> [s \in DOMAIN NoRows |-> @[t][s] + RowsIndexed(d)[t][s]]]]

BackfillTasksFTS(d) == [d EXCEPT !.index = RowsIndexed(d)]

\* Versions 6 and 7; base DDL has made the table.
MigrateGoalOutcome(d) == [d EXCEPT !.columns = @ \cup {"outcome"}]

MigrateFTSUpdateScope(d) == [d EXCEPT !.objects = @ \cup {"scoped_trigger"}]

\* Version 10; the ledger of version 9 and its own tables are in base DDL too.
MigrateRetirementState(d) == [d EXCEPT !.columns = @ \cup {"revision"}]

MigrateDurableGoals(d) ==
    [d EXCEPT !.columns = @ \cup {"budget"}, !.objects = @ \cup {"revision_trigger"}]

\* Version 12; the indexes of version 13 are in base DDL too.
MigrateAvailableAt(d) ==
    [d EXCEPT !.columns = @ \cup {"available_at"}, !.objects = @ \cup {"available_index"}]

WriteSchemaVersion(d) == [d EXCEPT !.version = CurrentVersion]

LastStep == 9

\* runMigrationsIfNeeded, statement by statement.
Migration(i, d) ==
    CASE i = 1 -> MigrateTaskDependencyTypeIndex(MigrateTaskMetadata(d))
      [] i = 2 -> MigrateStatusNames(d)
      [] i = 3 -> BackfillTasksFTS(d)
      [] i = 4 -> MigrateGoalOutcome(d)
      [] i = 5 -> MigrateFTSUpdateScope(d)
      [] i = 6 -> MigrateRetirementState(d)
      [] i = 7 -> MigrateDurableGoals(d)
      [] i = 8 -> MigrateAvailableAt(d)
      [] i = 9 -> WriteSchemaVersion(d)

-----------------------------------------------------------------------------
(* Opening                                                                  *)

Goes(p, place) == at' = [at EXCEPT ![p] = place]

\* rejectNewerSchema reads what is committed, outside of the transaction.
RejectNewerSchema(p) ==
    /\ at[p] = "closed"
    /\ Goes(p, IF db.version > CurrentVersion THEN "refused" ELSE "checked")
    /\ UNCHANGED <<db, work, writer, step, migrated>>

\* Busy waits, 5 s in SQLite and then in retrySQLiteBusy, are the time in
\* which this is not enabled.
BeginSetup(p) ==
    /\ at[p] = "checked"
    /\ writer = NoProcess
    /\ writer' = p
    /\ work' = db
    /\ Goes(p, "base")
    /\ UNCHANGED <<db, step, migrated>>

\* A bug: an error leaves the transaction open.
RollbackForgotten(p) == writer = p /\ UNCHANGED <<db, work, writer>>

Rollback(p) ==
    /\ writer = p
    /\ writer' = NoProcess
    /\ UNCHANGED <<db, work>>

\* Bugs: a newer schema is looked for in the preflight only, a current one is
\* migrated all the same.
NewerIfEmpty(d) == d.version > CurrentVersion /\ d.tables = {}
StaleOrCurrent(d) == d.version <= CurrentVersion

Newer(d) == d.version > CurrentVersion
Stale(d) == d.version < CurrentVersion

BaseFits(d) == BaseIndexed \subseteq CreateBaseSchema(d).columns

\* createBaseSchema, and the version that runMigrationsIfNeeded reads after it.
CreateBase(p) ==
    /\ at[p] = "base"
    /\ BaseFits(work) /\ ~Newer(work)
    /\ work' = CreateBaseSchema(work)
    /\ Goes(p, IF Stale(work) THEN "migrating" ELSE "migrated")
    /\ UNCHANGED <<db, writer, step, migrated>>

\* What has been created is rolled back.
RefuseNewer(p) ==
    /\ at[p] = "base"
    /\ BaseFits(work) /\ Newer(work)
    /\ Rollback(p)
    /\ Goes(p, "refused")
    /\ UNCHANGED <<step, migrated>>

\* "no such column"
FailBase(p) ==
    /\ at[p] = "base"
    /\ ~BaseFits(work)
    /\ Rollback(p)
    /\ Goes(p, "failed")
    /\ UNCHANGED <<step, migrated>>

Migrate(p) ==
    /\ at[p] = "migrating"
    /\ work' = Migration(step[p], work)
    /\ step' = [step EXCEPT ![p] = @ + 1]
    /\ Goes(p, IF step[p] = LastStep THEN "migrated" ELSE "migrating")
    /\ UNCHANGED <<db, writer, migrated>>

CommitSetup(p) ==
    /\ at[p] = "migrated"
    /\ db' = work
    /\ writer' = NoProcess
    /\ migrated' = IF step[p] > LastStep THEN migrated + 1 ELSE migrated
    /\ Goes(p, "open")
    /\ UNCHANGED <<work, step>>

\* The process is killed, its context is cancelled, or it is done.
End(p) ==
    /\ at[p] \notin {"closed", "ended"}
    /\ Goes(p, "ended")
    /\ writer' = IF writer = p THEN NoProcess ELSE writer
    /\ UNCHANGED <<db, work, step, migrated>>

-----------------------------------------------------------------------------
(* What others do meanwhile, each in one transaction                        *)

\* An open process adds a task or changes a status; the triggers follow.
WriteTask(p, t, s) ==
    /\ at[p] = "open" /\ writer = NoProcess
    /\ s # db.status[t]
    /\ db.status[t] = "none" => s = "todo"
    /\ db' = [db EXCEPT !.status[t] = s, !.index[t] = OnlyRow(s)]
    /\ UNCHANGED <<work, writer, at, step, migrated>>

\* A newer afk, which has all the migrations of this one and some more; one of
\* them may drop a table that this version would create.
UpgradeByNewer(dropped) ==
    /\ writer = NoProcess
    /\ db.version <= CurrentVersion /\ BaseFits(db)
    /\ db' = [version |-> CurrentVersion + 1,
              tables |-> Table \ dropped,
              columns |-> UNION {Columns[table] : table \in Table \ dropped},
              objects |-> Object, status |-> MigrateStatusNames(db).status,
              index |-> RowsIndexed(MigrateStatusNames(db))]
    /\ UNCHANGED <<work, writer, at, step, migrated>>

-----------------------------------------------------------------------------
Setup(p) ==
    \/ RejectNewerSchema(p)
    \/ BeginSetup(p)
    \/ CreateBase(p)
    \/ RefuseNewer(p)
    \/ FailBase(p)
    \/ Migrate(p)
    \/ CommitSetup(p)

SchemaNext ==
    \/ \E p \in Process : Setup(p)
    \/ \E p \in Process : End(p)
    \/ \E p \in Process, t \in Task, s \in Status : WriteTask(p, t, s)
    \/ \E dropped \in {{}, {"goal_groups"}} : UpgradeByNewer(dropped)

SchemaSpec == SchemaInit /\ [][SchemaNext]_vars

\* A process that has begun to open the database goes on until it is killed,
\* and does not give up on a busy one (sqlite_helpers.go:39).
FairSchemaSpec == SchemaSpec /\ \A p \in Process : WF_vars(Setup(p))

-----------------------------------------------------------------------------
(* Properties                                                               *)

\* The types; and the write lock is held by the process in its set-up, if there
\* is one, and by no process that has failed or ended.
SchemaTypeOK ==
    /\ db \in Database /\ work \in Database
    /\ writer \in Process \cup {NoProcess}
    /\ \A p \in Process : writer = p <=> at[p] \in {"base", "migrating", "migrated"}
    /\ at \in [Process -> Place]
    /\ step \in [Process -> 1..LastStep + 1]
    /\ migrated \in Nat

Complete(d) ==
    /\ d.tables = Table /\ d.columns = Column /\ d.objects = Object
    /\ \A t \in Task : d.status[t] \in Status \cup {"none"}
    /\ d.index = RowsIndexed(d)

\* What an afk of this version has left, whose own commits OpenIsComplete is about.
ASSUME CurrentAssumption == \A d \in Databases : d.version = CurrentVersion => Complete(d)

\* Whoever has opened the database, whatever it was and however many opened it
\* at once, finds the whole schema, no legacy status, and each task in the
\* search index exactly once, with the status it has; until a newer afk changes
\* all that.
OpenIsComplete ==
    \A p \in Process : at[p] = "open" /\ db.version <= CurrentVersion => Complete(db)

\* "fail-closed and side-effect free" (sqlite_migrations.go:88): opening leaves
\* a newer database as it is, also if it became newer after the preflight.
NewerUntouched ==
    [][\A p \in Process :
          at[p] # "open" /\ at'[p] # at[p] /\ db.version > CurrentVersion => db' = db]_vars

\* Opening loses no task and no write of another process: it renames legacy
\* statuses and changes no other.
RowsKept ==
    [][\A p \in Process :
          at[p] # "open" /\ at'[p] = "open"
          => \A t \in Task : db'.status[t] = Canonical(db.status[t])]_vars

\* "runs every historical migration exactly once" (sqlite_migrations.go:13),
\* "concurrent first-open cannot [...] backfill the FTS index twice"
\* (sqlite_schema.go:30).
MigratesOnce == migrated <= 1

Opening(p) == at[p] \in {"checked", "base", "migrating", "migrated"}

\* No process waits for ever for one that failed, was refused or was killed.
OpeningEnds == \A p \in Process : Opening(p) ~> ~Opening(p)

\* "migrations layer on top" of base DDL (sqlite_schema.go:54): they bring
\* every older database up to date, so that no process fails to open one.
LegacyOpens == \A p \in Process : at[p] # "failed"

=============================================================================
