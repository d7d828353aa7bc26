---------------------------- MODULE SchemaProofs ----------------------------
(***************************************************************************)
(* Proofs about opening the database, for any number of processes and any  *)
(* databases they may find: whoever has opened it finds the whole schema,  *)
(* it is migrated once, opening loses no row, and a newer one stays as it  *)
(* is.                                                                     *)
(***************************************************************************)
EXTENDS Schema, TLAPS

\* What the writer's transaction has made of the database by the time it runs
\* migration i: the fields that the migrations before i have seen to.
Reached(i, d, from) ==
    /\ d.tables = Table
    /\ i > 1 => {"group_id", "relation_type"} \subseteq d.columns /\ "type_index" \in d.objects
    /\ \A t \in Task :
          d.status[t] = IF i > 2 THEN Canonical(from.status[t]) ELSE from.status[t]
    /\ i > 3 => d.index = RowsIndexed(d)
    /\ i > 4 => "outcome" \in d.columns
    /\ i > 5 => "scoped_trigger" \in d.objects
    /\ i > 6 => "revision" \in d.columns
    /\ i > 7 => "budget" \in d.columns /\ "revision_trigger" \in d.objects
    /\ i > 8 => "available_at" \in d.columns /\ "available_index" \in d.objects
    /\ i > 9 => d.version = CurrentVersion

\* What a finished transaction would commit.
Finished(d, from) ==
    /\ d.version = CurrentVersion
    /\ Complete(d)
    /\ \A t \in Task : d.status[t] = Canonical(from.status[t])

\* Where the process p is; while it is in its set-up nobody else has the lock,
\* so that the committed database is the one it began with.
PlaceInv(p) ==
    /\ at[p] \in {"closed", "checked", "base"} => step[p] = 1
    /\ at[p] = "base" => work = db
    /\ at[p] = "migrating" =>
          /\ db.version < CurrentVersion
          /\ step[p] <= LastStep
          /\ Reached(step[p], work, db)
    /\ at[p] = "migrated" =>
          /\ Finished(work, db)
          /\ db.version <= CurrentVersion
          /\ step[p] > LastStep => db.version < CurrentVersion
    /\ at[p] = "open" => db.version >= CurrentVersion

\* A migration is committed only over an older database, and leaves none.
DbInv ==
    /\ db.version = CurrentVersion => Complete(db)
    /\ migrated <= 1
    /\ migrated = 1 => db.version >= CurrentVersion

\* The inductive invariant.
SetupInv == SchemaTypeOK /\ (\A p \in Process : PlaceInv(p)) /\ DbInv

-----------------------------------------------------------------------------
(* The functions on databases                                               *)

\* migrateStatusNames: the new names are canonical, and canonical names stay.
LEMMA CanonicalNames ==
    ASSUME NEW s \in Status \cup LegacyStatus \cup {"none"}
    PROVE  /\ Canonical(s) \in Status \cup {"none"}
           /\ s \in Status \cup {"none"} => Canonical(s) = s
BY DEF Canonical, Status, LegacyStatus

\* backfillTasksFTS makes an index of the right type.
LEMMA Rows ==
    ASSUME NEW d \in Database
    PROVE  RowsIndexed(d) \in [Task -> [Status \cup LegacyStatus -> Nat]]
BY DEF Database, RowsIndexed, NoRows, OnlyRow

\* Base DDL keeps the rows, makes all tables, and does nothing to a complete
\* database.
LEMMA BaseSchema ==
    ASSUME NEW d \in Database
    PROVE  LET b == CreateBaseSchema(d)
           IN  /\ b \in Database
               /\ b.tables = Table /\ b.status = d.status /\ b.version = d.version
               /\ Complete(d) => Complete(b)
<1>1. UNION {Columns[table] : table \in Table \ d.tables} \subseteq Column
  BY DEF Column
<1>2. CreateBaseSchema(d) \in Database
  BY <1>1 DEF CreateBaseSchema, Database
<1>3. d.tables = Table => UNION {Columns[table] : table \in Table \ d.tables} = {}
  OBVIOUS
<1> QED
  BY <1>2, <1>3 DEF CreateBaseSchema, Database, Complete, RowsIndexed

\* Each migration maps databases to databases.
LEMMA MigrationType ==
    ASSUME NEW d \in Database, NEW i \in 1..LastStep
    PROVE  Migration(i, d) \in Database
<1>0. Column = {"group_id", "revision", "available_at", "relation_type", "outcome", "budget"}
  BY DEF Column, Columns, Table
<1>1. \A s \in Status : OnlyRow(s) \in [Status \cup LegacyStatus -> Nat]
  BY DEF OnlyRow, NoRows
<1>2. MigrateStatusNames(d) \in Database
  <2>1. \A t \in Task : Canonical(d.status[t]) \in Status \cup LegacyStatus \cup {"none"}
    BY CanonicalNames DEF Database
  <2>2. \A t \in Task : d.status[t] \in LegacyStatus => Canonical(d.status[t]) \in Status
    BY DEF LegacyStatus, Canonical, Status
  <2> QED BY <2>1, <2>2, <1>1 DEF MigrateStatusNames, Database
<1>3. BackfillTasksFTS(d) \in Database
  BY Rows DEF BackfillTasksFTS, Database
<1>4. MigrateTaskDependencyTypeIndex(MigrateTaskMetadata(d)) \in Database
  BY <1>0 DEF MigrateTaskDependencyTypeIndex, MigrateTaskMetadata, Database, Object
<1>5. /\ MigrateGoalOutcome(d) \in Database
      /\ MigrateFTSUpdateScope(d) \in Database
      /\ MigrateRetirementState(d) \in Database
      /\ MigrateDurableGoals(d) \in Database
      /\ MigrateAvailableAt(d) \in Database
      /\ WriteSchemaVersion(d) \in Database
  BY <1>0 DEF MigrateGoalOutcome, MigrateFTSUpdateScope, MigrateRetirementState,
              MigrateDurableGoals, MigrateAvailableAt, WriteSchemaVersion, Database, Object,
              CurrentVersion
<1> QED
  BY <1>2, <1>3, <1>4, <1>5 DEF Migration, LastStep

\* Each migration sees to its fields and undoes nothing of those before it.
LEMMA MigrationStep ==
    ASSUME NEW d \in Database, NEW from \in Database, NEW i \in 1..LastStep,
           Reached(i, d, from)
    PROVE  Reached(i + 1, Migration(i, d), from)
<1>0. i \in Nat /\ 1 <= i /\ i <= 9
  BY DEF LastStep
<1>1. CASE i = 1
  <2> DEFINE m == MigrateTaskDependencyTypeIndex(MigrateTaskMetadata(d))
  <2>1. Migration(i, d) = m
    BY <1>1 DEF Migration
  <2>2. /\ m.tables = d.tables /\ m.status = d.status
        /\ {"group_id", "relation_type"} \subseteq m.columns /\ "type_index" \in m.objects
    BY DEF MigrateTaskDependencyTypeIndex, MigrateTaskMetadata, Database
  <2> HIDE DEF m
  <2> QED BY <1>1, <2>1, <2>2 DEF Reached
<1>2. CASE i = 2
  <2>1. Migration(i, d) = MigrateStatusNames(d)
    BY <1>2 DEF Migration
  <2>2. \A t \in Task : MigrateStatusNames(d).status[t] = Canonical(from.status[t])
    BY <1>0, <1>2 DEF Reached, MigrateStatusNames, Database
  <2>3. /\ MigrateStatusNames(d).tables = d.tables
        /\ MigrateStatusNames(d).columns = d.columns
        /\ MigrateStatusNames(d).objects = d.objects
    BY DEF MigrateStatusNames, Database
  <2> QED BY <1>0, <1>2, <2>1, <2>2, <2>3 DEF Reached
<1>3. CASE i = 3
  <2>1. Migration(i, d) = BackfillTasksFTS(d)
    BY <1>3 DEF Migration
  <2>2. /\ BackfillTasksFTS(d).tables = d.tables
        /\ BackfillTasksFTS(d).columns = d.columns
        /\ BackfillTasksFTS(d).objects = d.objects
        /\ BackfillTasksFTS(d).status = d.status
        /\ BackfillTasksFTS(d).index = RowsIndexed(d)
    BY DEF BackfillTasksFTS, Database
  <2>3. RowsIndexed(BackfillTasksFTS(d)) = RowsIndexed(d)
    BY <2>2 DEF RowsIndexed
  <2> QED BY <1>0, <1>3, <2>1, <2>2, <2>3 DEF Reached
<1> DEFINE Kept(m) ==
             /\ m.tables = d.tables /\ m.status = d.status
             /\ m.index = d.index /\ RowsIndexed(m) = RowsIndexed(d)
             /\ d.columns \subseteq m.columns /\ d.objects \subseteq m.objects
<1> HIDE DEF Kept
<1>4. CASE i = 4
  <2>1. Migration(i, d) = MigrateGoalOutcome(d)
    BY <1>4 DEF Migration
  <2>2. /\ Kept(MigrateGoalOutcome(d))
        /\ "outcome" \in MigrateGoalOutcome(d).columns
    BY DEF Kept, MigrateGoalOutcome, Database, RowsIndexed
  <2> QED BY <1>4, <2>1, <2>2 DEF Reached, Kept
<1>5. CASE i = 5
  <2>1. Migration(i, d) = MigrateFTSUpdateScope(d)
    BY <1>5 DEF Migration
  <2>2. /\ Kept(MigrateFTSUpdateScope(d))
        /\ "scoped_trigger" \in MigrateFTSUpdateScope(d).objects
    BY DEF Kept, MigrateFTSUpdateScope, Database, RowsIndexed
  <2> QED BY <1>5, <2>1, <2>2 DEF Reached, Kept
<1>6. CASE i = 6
  <2>1. Migration(i, d) = MigrateRetirementState(d)
    BY <1>6 DEF Migration
  <2>2. /\ Kept(MigrateRetirementState(d))
        /\ "revision" \in MigrateRetirementState(d).columns
    BY DEF Kept, MigrateRetirementState, Database, RowsIndexed
  <2> QED BY <1>6, <2>1, <2>2 DEF Reached, Kept
<1>7. CASE i = 7
  <2>1. Migration(i, d) = MigrateDurableGoals(d)
    BY <1>7 DEF Migration
  <2>2. /\ Kept(MigrateDurableGoals(d))
        /\ "budget" \in MigrateDurableGoals(d).columns /\ "revision_trigger" \in MigrateDurableGoals(d).objects
    BY DEF Kept, MigrateDurableGoals, Database, RowsIndexed
  <2> QED BY <1>7, <2>1, <2>2 DEF Reached, Kept
<1>8. CASE i = 8
  <2>1. Migration(i, d) = MigrateAvailableAt(d)
    BY <1>8 DEF Migration
  <2>2. /\ Kept(MigrateAvailableAt(d))
        /\ "available_at" \in MigrateAvailableAt(d).columns /\ "available_index" \in MigrateAvailableAt(d).objects
    BY DEF Kept, MigrateAvailableAt, Database, RowsIndexed
  <2> QED BY <1>8, <2>1, <2>2 DEF Reached, Kept
<1>9. CASE i = 9
  <2>1. Migration(i, d) = WriteSchemaVersion(d)
    BY <1>9 DEF Migration
  <2>2. /\ Kept(WriteSchemaVersion(d))
        /\ WriteSchemaVersion(d).version = CurrentVersion
    BY DEF Kept, WriteSchemaVersion, Database, RowsIndexed
  <2> QED BY <1>9, <2>1, <2>2 DEF Reached, Kept
<1> QED
  BY <1>0, <1>1, <1>2, <1>3, <1>4, <1>5, <1>6, <1>7, <1>8, <1>9

\* After the last migration the whole schema is there.
LEMMA ReachedTheEnd ==
    ASSUME NEW d \in Database, NEW from \in Database, Reached(LastStep + 1, d, from)
    PROVE  Finished(d, from)
<1>0. /\ d.tables = Table /\ d.version = CurrentVersion
      /\ {"group_id", "relation_type", "outcome", "revision", "budget", "available_at"}
            \subseteq d.columns
      /\ {"type_index", "scoped_trigger", "revision_trigger", "available_index"}
            \subseteq d.objects
      /\ \A t \in Task : d.status[t] = Canonical(from.status[t])
      /\ d.index = RowsIndexed(d)
  BY DEF Reached, LastStep
<1>1. Column = {"group_id", "revision", "available_at", "relation_type", "outcome", "budget"}
  BY DEF Column, Columns, Table
<1>2. d.columns = Column /\ d.objects = Object
  BY <1>0, <1>1 DEF Database, Object
<1>3. \A t \in Task : d.status[t] \in Status \cup {"none"}
  BY <1>0, CanonicalNames DEF Database
<1> QED
  BY <1>0, <1>2, <1>3 DEF Finished, Complete

-----------------------------------------------------------------------------
(* The invariant                                                            *)

\* No process has begun, whatever the database is.
LEMMA SetupInit == SchemaInit => SetupInv
<1> SUFFICES ASSUME SchemaInit PROVE SetupInv
  OBVIOUS
<1>1. db \in Database /\ (db.version = CurrentVersion => Complete(db))
  BY SchemaAssumption, CurrentAssumption DEF SchemaInit
<1>2. SchemaTypeOK
  BY <1>1, SchemaAssumption DEF SchemaInit, SchemaTypeOK, Place, LastStep
<1> QED
  BY <1>1, <1>2 DEF SchemaInit, SetupInv, PlaceInv, DbInv, CurrentVersion

\* Each step keeps the types, and the lock with the process in its set-up.
LEMMA SetupTypes ==
    ASSUME SetupInv, [SchemaNext]_vars
    PROVE  SchemaTypeOK'
<1> USE SchemaAssumption
<1>1. ASSUME NEW p \in Process, RejectNewerSchema(p) PROVE SchemaTypeOK'
  BY <1>1 DEF SetupInv, SchemaTypeOK, RejectNewerSchema, Goes, Place
<1>2. ASSUME NEW p \in Process, BeginSetup(p) PROVE SchemaTypeOK'
  BY <1>2 DEF SetupInv, SchemaTypeOK, BeginSetup, Goes, Place
<1>3. ASSUME NEW p \in Process, CreateBase(p) PROVE SchemaTypeOK'
  BY <1>3, BaseSchema DEF SetupInv, SchemaTypeOK, CreateBase, Goes, Place
<1>4. ASSUME NEW p \in Process, RefuseNewer(p) PROVE SchemaTypeOK'
  BY <1>4 DEF SetupInv, SchemaTypeOK, RefuseNewer, Rollback, Goes, Place
<1>5. ASSUME NEW p \in Process, FailBase(p) PROVE SchemaTypeOK'
  BY <1>5 DEF SetupInv, SchemaTypeOK, FailBase, Rollback, Goes, Place
<1>6. ASSUME NEW p \in Process, Migrate(p) PROVE SchemaTypeOK'
  <2>1. step[p] \in 1..LastStep /\ work' \in Database
    BY <1>6, MigrationType DEF SetupInv, PlaceInv, SchemaTypeOK, Migrate, LastStep
  <2> QED BY <1>6, <2>1 DEF SetupInv, SchemaTypeOK, Migrate, Goes, Place, LastStep
<1>7. ASSUME NEW p \in Process, CommitSetup(p) PROVE SchemaTypeOK'
  BY <1>7 DEF SetupInv, SchemaTypeOK, CommitSetup, Goes, Place
<1>8. ASSUME NEW p \in Process, End(p) PROVE SchemaTypeOK'
  BY <1>8 DEF SetupInv, SchemaTypeOK, End, Goes, Place
<1>9. ASSUME NEW p \in Process, NEW t \in Task, NEW s \in Status, WriteTask(p, t, s)
      PROVE SchemaTypeOK'
  <2>1. OnlyRow(s) \in [Status \cup LegacyStatus -> Nat]
    BY DEF OnlyRow, NoRows
  <2>2. db' \in Database
    BY <1>9, <2>1 DEF SetupInv, SchemaTypeOK, WriteTask, Database
  <2> QED BY <1>9, <2>2 DEF SetupInv, SchemaTypeOK, WriteTask
<1>10. ASSUME NEW dropped \in {{}, {"goal_groups"}}, UpgradeByNewer(dropped)
       PROVE SchemaTypeOK'
  <2>1. MigrateStatusNames(db) \in Database
    BY MigrationType DEF SetupInv, SchemaTypeOK, Migration, LastStep
  <2>2. db' \in Database
    <3>1. UNION {Columns[table] : table \in Table \ dropped} \subseteq Column
      BY DEF Column
    <3>2. CurrentVersion + 1 \in Nat
      BY DEF CurrentVersion
    <3>3. RowsIndexed(MigrateStatusNames(db)) \in [Task -> [Status \cup LegacyStatus -> Nat]]
      BY <2>1, Rows
    <3>4. MigrateStatusNames(db).status \in [Task -> Status \cup LegacyStatus \cup {"none"}]
      BY <2>1 DEF Database
    <3> QED BY <1>10, <3>1, <3>2, <3>3, <3>4 DEF UpgradeByNewer, Database
  <2> QED BY <1>10, <2>2 DEF SetupInv, SchemaTypeOK, UpgradeByNewer
<1>11. ASSUME UNCHANGED vars PROVE SchemaTypeOK'
  BY <1>11 DEF SetupInv, SchemaTypeOK, vars
<1> QED
  BY <1>1, <1>2, <1>3, <1>4, <1>5, <1>6, <1>7, <1>8, <1>9, <1>10, <1>11
     DEF SchemaNext, Setup

\* Each step keeps the rest: what a process in its set-up relies on is not
\* changed by others, which neither have the lock nor get it.
LEMMA SetupStep ==
    ASSUME SetupInv, [SchemaNext]_vars
    PROVE  SetupInv'
<1> USE SchemaAssumption
<1>0. SchemaTypeOK'
  BY SetupTypes
<1>t. /\ SchemaTypeOK
      /\ DbInv
      /\ \A p \in Process : PlaceInv(p)
  BY DEF SetupInv
<1> SUFFICES (\A q \in Process : PlaceInv(q)') /\ DbInv'
  BY <1>0 DEF SetupInv
<1>v. db.version \in Nat /\ work.version \in Nat /\ db \in Database /\ work \in Database
  BY <1>t DEF SchemaTypeOK, Database
<1>1. ASSUME NEW p \in Process, RejectNewerSchema(p)
      PROVE  (\A q \in Process : PlaceInv(q)') /\ DbInv'
  <2>1. PlaceInv(p)'
    BY <1>1, <1>t DEF RejectNewerSchema, Goes, PlaceInv, SchemaTypeOK
  <2>2. ASSUME NEW q \in Process, q # p PROVE PlaceInv(q)'
    BY <1>1, <1>t, <2>2 DEF RejectNewerSchema, Goes, PlaceInv, SchemaTypeOK
  <2> QED BY <1>1, <1>t, <2>1, <2>2 DEF RejectNewerSchema, DbInv
<1>2. ASSUME NEW p \in Process, BeginSetup(p)
      PROVE  (\A q \in Process : PlaceInv(q)') /\ DbInv'
  <2>1. PlaceInv(p)'
    BY <1>2, <1>t DEF BeginSetup, Goes, PlaceInv, SchemaTypeOK
  <2>2. ASSUME NEW q \in Process, q # p PROVE PlaceInv(q)'
    <3>1. at[q] \notin {"base", "migrating", "migrated"}
      BY <1>2, <1>t DEF BeginSetup, SchemaTypeOK
    <3> QED BY <1>2, <1>t, <2>2, <3>1 DEF BeginSetup, Goes, PlaceInv, SchemaTypeOK
  <2> QED BY <1>2, <1>t, <2>1, <2>2 DEF BeginSetup, DbInv
<1>3. ASSUME NEW p \in Process, CreateBase(p)
      PROVE  (\A q \in Process : PlaceInv(q)') /\ DbInv'
  <2> DEFINE b == CreateBaseSchema(db)
  <2>1. work = db /\ step[p] = 1 /\ work' = b /\ step' = step /\ db' = db
    BY <1>3, <1>t DEF CreateBase, PlaceInv
  <2>2. /\ b \in Database
        /\ b.tables = Table /\ b.status = db.status /\ b.version = db.version
        /\ Complete(db) => Complete(b)
    BY <1>v, BaseSchema
  <2>3. ASSUME Stale(db) PROVE PlaceInv(p)'
    <3>1. at'[p] = "migrating" /\ db.version < CurrentVersion
      BY <1>3, <1>t, <2>1, <2>3 DEF CreateBase, Goes, Stale, SchemaTypeOK
    <3>2. Reached(1, b, db)
      BY <2>2 DEF Reached
    <3> HIDE DEF b
    <3> QED BY <2>1, <3>1, <3>2 DEF PlaceInv, LastStep
  <2>4. ASSUME ~Stale(db) PROVE PlaceInv(p)'
    <3>1. at'[p] = "migrated" /\ db.version = CurrentVersion
      BY <1>3, <1>t, <1>v, <2>1, <2>4
         DEF CreateBase, Goes, Stale, Newer, SchemaTypeOK, CurrentVersion
    <3>2. Complete(db)
      BY <3>1, <1>t DEF DbInv
    <3>3. Finished(b, db)
      BY <2>2, <3>1, <3>2, CanonicalNames DEF Finished, Complete
    <3> HIDE DEF b
    <3> QED BY <2>1, <3>1, <3>3 DEF PlaceInv, LastStep, CurrentVersion
  <2>5. ASSUME NEW q \in Process, q # p PROVE PlaceInv(q)'
    <3>1. at[q] \notin {"base", "migrating", "migrated"}
      BY <1>3, <1>t, <2>5 DEF CreateBase, SchemaTypeOK
    <3> QED BY <1>3, <1>t, <2>1, <2>5, <3>1 DEF CreateBase, Goes, PlaceInv, SchemaTypeOK
  <2>6. DbInv'
    BY <1>3, <1>t DEF CreateBase, DbInv
  <2> HIDE DEF b
  <2> QED BY <2>3, <2>4, <2>5, <2>6
<1>4. ASSUME NEW p \in Process, RefuseNewer(p) \/ FailBase(p) \/ End(p)
      PROVE  (\A q \in Process : PlaceInv(q)') /\ DbInv'
  <2>1. /\ at'[p] \in {"refused", "failed", "ended"}
        /\ db' = db /\ step' = step /\ migrated' = migrated /\ work' = work
        /\ \A q \in Process : q # p => at'[q] = at[q]
    BY <1>4, <1>t DEF RefuseNewer, FailBase, End, Rollback, Goes, SchemaTypeOK
  <2> QED BY <1>t, <2>1 DEF PlaceInv, DbInv
<1>5. ASSUME NEW p \in Process, Migrate(p)
      PROVE  (\A q \in Process : PlaceInv(q)') /\ DbInv'
  <2>1. /\ db' = db /\ migrated' = migrated
        /\ step[p] \in 1..LastStep /\ step'[p] = step[p] + 1
        /\ work' = Migration(step[p], work)
        /\ at'[p] = IF step[p] = LastStep THEN "migrated" ELSE "migrating"
        /\ db.version < CurrentVersion
        /\ Reached(step[p], work, db)
    BY <1>5, <1>t DEF Migrate, Goes, PlaceInv, SchemaTypeOK, LastStep
  <2>2. Reached(step'[p], work', db)
    BY <1>v, <2>1, MigrationStep
  <2>3. ASSUME step[p] = LastStep PROVE PlaceInv(p)'
    <3>1. work' \in Database
      BY <1>0 DEF SchemaTypeOK
    <3>2. Finished(work', db)
      BY <1>v, <2>1, <2>2, <2>3, <3>1, ReachedTheEnd
    <3> QED BY <1>v, <2>1, <2>3, <3>2 DEF PlaceInv, LastStep, CurrentVersion
  <2>4. ASSUME step[p] # LastStep PROVE PlaceInv(p)'
    BY <2>1, <2>2, <2>4 DEF PlaceInv, LastStep
  <2>5. ASSUME NEW q \in Process, q # p PROVE PlaceInv(q)'
    <3>1. at[q] \notin {"base", "migrating", "migrated"}
      BY <1>5, <1>t, <2>5 DEF Migrate, SchemaTypeOK
    <3> QED BY <1>5, <1>t, <2>1, <2>5, <3>1 DEF Migrate, Goes, PlaceInv, SchemaTypeOK
  <2> QED BY <1>t, <2>1, <2>3, <2>4, <2>5 DEF DbInv
<1>6. ASSUME NEW p \in Process, CommitSetup(p)
      PROVE  (\A q \in Process : PlaceInv(q)') /\ DbInv'
  <2>1. /\ db' = work /\ at'[p] = "open" /\ step' = step
        /\ Finished(work, db) /\ db.version <= CurrentVersion
        /\ step[p] > LastStep => db.version < CurrentVersion
        /\ migrated' = IF step[p] > LastStep THEN migrated + 1 ELSE migrated
    BY <1>6, <1>t DEF CommitSetup, Goes, PlaceInv, SchemaTypeOK
  <2>2. db'.version = CurrentVersion /\ Complete(db')
    BY <2>1 DEF Finished
  <2>3. PlaceInv(p)'
    BY <2>1, <2>2 DEF PlaceInv, CurrentVersion
  <2>4. ASSUME NEW q \in Process, q # p PROVE PlaceInv(q)'
    <3>1. at[q] \notin {"base", "migrating", "migrated"}
      BY <1>6, <1>t, <2>4 DEF CommitSetup, SchemaTypeOK
    <3> QED BY <1>6, <1>t, <2>1, <2>2, <2>4, <3>1
               DEF CommitSetup, Goes, PlaceInv, SchemaTypeOK, CurrentVersion
  <2>5. step[p] > LastStep => migrated = 0
    BY <1>t, <1>v, <2>1 DEF DbInv, SchemaTypeOK, CurrentVersion
  <2>6. DbInv'
    BY <1>t, <2>1, <2>2, <2>5 DEF DbInv, CurrentVersion
  <2> QED BY <2>3, <2>4, <2>6
<1>7. ASSUME NEW p \in Process, NEW t \in Task, NEW s \in Status, WriteTask(p, t, s)
      PROVE  (\A q \in Process : PlaceInv(q)') /\ DbInv'
  <2>1. /\ db.version >= CurrentVersion
        /\ db'.version = db.version /\ at' = at /\ step' = step /\ migrated' = migrated
    BY <1>7, <1>t, <1>v DEF WriteTask, PlaceInv, Database
  <2>2. ASSUME NEW q \in Process PROVE PlaceInv(q)'
    <3>1. at[q] \notin {"base", "migrating", "migrated"}
      BY <1>7, <1>t DEF WriteTask, SchemaTypeOK
    <3> QED BY <1>t, <2>1, <3>1 DEF PlaceInv
  <2>3. Complete(db) => Complete(db')
    <3> SUFFICES ASSUME Complete(db) PROVE Complete(db')
      OBVIOUS
    <3>1. /\ db'.tables = db.tables /\ db'.columns = db.columns /\ db'.objects = db.objects
          /\ db'.status = [db.status EXCEPT ![t] = s]
          /\ db'.index = [db.index EXCEPT ![t] = OnlyRow(s)]
      BY <1>7, <1>v DEF WriteTask, Database
    <3>2. db.status \in [Task -> Status \cup LegacyStatus \cup {"none"}]
      BY <1>v DEF Database
    <3>3. s # "none"
      BY DEF Status
    <3>4. \A u \in Task : db'.status[u] \in Status \cup {"none"}
      BY <3>1, <3>2 DEF Complete
    <3>5. db'.index = RowsIndexed(db')
      BY <3>1, <3>2, <3>3 DEF Complete, RowsIndexed
    <3> QED BY <3>1, <3>4, <3>5 DEF Complete
  <2> QED BY <1>t, <2>1, <2>2, <2>3 DEF DbInv
<1>8. ASSUME NEW dropped \in {{}, {"goal_groups"}}, UpgradeByNewer(dropped)
      PROVE  (\A q \in Process : PlaceInv(q)') /\ DbInv'
  <2>1. db'.version = CurrentVersion + 1 /\ at' = at /\ step' = step /\ migrated' = migrated
    BY <1>8 DEF UpgradeByNewer
  <2>2. ASSUME NEW q \in Process PROVE PlaceInv(q)'
    <3>1. at[q] \notin {"base", "migrating", "migrated"}
      BY <1>8, <1>t DEF UpgradeByNewer, SchemaTypeOK
    <3> QED BY <1>t, <2>1, <3>1 DEF PlaceInv, CurrentVersion
  <2> QED BY <1>t, <2>1, <2>2 DEF DbInv, CurrentVersion
<1>9. ASSUME UNCHANGED vars
      PROVE  (\A q \in Process : PlaceInv(q)') /\ DbInv'
  BY <1>9, <1>t DEF vars, PlaceInv, DbInv
<1> QED
  BY <1>1, <1>2, <1>3, <1>4, <1>5, <1>6, <1>7, <1>8, <1>9 DEF SchemaNext, Setup

\* setupSchema: the inductive invariant holds of every behaviour.
THEOREM SetupInvariant == SchemaSpec => []SetupInv
BY SetupInit, SetupStep, PTL DEF SchemaSpec

-----------------------------------------------------------------------------
(* The theorems                                                             *)

\* The types, and that the write lock is held by the process in its set-up and
\* by no process that has failed or ended.
THEOREM SchemaTypes == SchemaSpec => []SchemaTypeOK
<1>1. SetupInv => SchemaTypeOK
  BY DEF SetupInv
<1> QED BY <1>1, SetupInvariant, PTL

\* setupSchema: whoever has opened the database finds the whole schema, and
\* each task in the search index exactly once, with its status.
THEOREM OpensComplete == SchemaSpec => []OpenIsComplete
<1>1. SetupInv => OpenIsComplete
  BY DEF SetupInv, PlaceInv, DbInv, OpenIsComplete, SchemaTypeOK, Database, CurrentVersion
<1> QED BY <1>1, SetupInvariant, PTL

\* runMigrationsIfNeeded: at most one of all the processes migrates.
THEOREM MigratedOnce == SchemaSpec => []MigratesOnce
<1>1. SetupInv => MigratesOnce
  BY DEF SetupInv, PlaceInv, DbInv, MigratesOnce
<1> QED BY <1>1, SetupInvariant, PTL

\* rejectNewerSchema, in the preflight and in the transaction: opening leaves a
\* newer database as it is.
THEOREM NewerStays == SchemaSpec => NewerUntouched
<1> DEFINE Untouched == \A p \in Process :
             at[p] # "open" /\ at'[p] # at[p] /\ db.version > CurrentVersion => db' = db
<1>1. ASSUME SetupInv, [SchemaNext]_vars PROVE [Untouched]_vars
  <2>1. ASSUME NEW p \in Process, CommitSetup(p) PROVE Untouched
    BY <1>1, <2>1 DEF SetupInv, PlaceInv, DbInv, SchemaTypeOK, Database, CommitSetup, CurrentVersion
  <2>2. ASSUME NEW p \in Process, Setup(p), ~CommitSetup(p) PROVE db' = db
    BY <2>2 DEF Setup, RejectNewerSchema, BeginSetup, CreateBase, RefuseNewer, FailBase,
                Rollback, Migrate
  <2>3. ASSUME NEW p \in Process, End(p) PROVE db' = db
    BY <2>3 DEF End
  <2>4. ASSUME NEW p \in Process, NEW t \in Task, NEW s \in Status, WriteTask(p, t, s)
        PROVE at' = at
    BY <2>4 DEF WriteTask
  <2>5. ASSUME NEW dropped \in {{}, {"goal_groups"}}, UpgradeByNewer(dropped)
        PROVE at' = at
    BY <2>5 DEF UpgradeByNewer
  <2> QED BY <1>1, <2>1, <2>2, <2>3, <2>4, <2>5 DEF SchemaNext
<1> QED BY <1>1, SetupInvariant, PTL DEF SchemaSpec, NewerUntouched

\* setupSchema: opening renames legacy statuses and changes no other, whatever
\* other processes wrote before it.
THEOREM RowsStay == SchemaSpec => RowsKept
<1> DEFINE Kept == \A p \in Process : at[p] # "open" /\ at'[p] = "open"
             => \A t \in Task : db'.status[t] = Canonical(db.status[t])
<1>1. ASSUME SetupInv, [SchemaNext]_vars PROVE [Kept]_vars
  <2>1. ASSUME NEW p \in Process, CommitSetup(p) PROVE Kept
    BY <1>1, <2>1 DEF SetupInv, PlaceInv, DbInv, Finished, CommitSetup
  <2>2. ASSUME NEW p \in Process, Setup(p) \/ End(p), ~CommitSetup(p)
        PROVE \A q \in Process : at[q] # "open" => at'[q] # "open"
    BY <1>1, <2>2 DEF Setup, RejectNewerSchema, BeginSetup, CreateBase, RefuseNewer, FailBase,
                Rollback, Migrate, End, Goes, SetupInv, SchemaTypeOK
  <2>3. ASSUME NEW p \in Process, NEW t \in Task, NEW s \in Status, WriteTask(p, t, s)
        PROVE at' = at
    BY <2>3 DEF WriteTask
  <2>4. ASSUME NEW dropped \in {{}, {"goal_groups"}}, UpgradeByNewer(dropped)
        PROVE at' = at
    BY <2>4 DEF UpgradeByNewer
  <2> QED BY <1>1, <2>1, <2>2, <2>3, <2>4 DEF SchemaNext
<1> QED BY <1>1, SetupInvariant, PTL DEF SchemaSpec, RowsKept

=============================================================================
