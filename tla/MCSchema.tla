------------------------------ MODULE MCSchema ------------------------------
(***************************************************************************)
(* The databases that the first process may find, for TLC.                 *)
(***************************************************************************)
EXTENDS Schema, TLC

CONSTANTS p1, p2, p3, t1, t2

NoTasks == [t \in Task |-> "none"]
Unindexed == [t \in Task |-> NoRows]

Fresh ==
    [version |-> 0, tables |-> {}, columns |-> {}, objects |-> {},
     status |-> NoTasks, index |-> Unindexed]

\* The database of TestSQLiteStoreMigratesLegacyStatusNames, with its two tasks.
Unversioned ==
    [Fresh EXCEPT !.tables = {"tasks"}, !.columns = {"group_id"},
                  !.status = t1 :> "pending" @@ t2 :> "working"]

\* Version 7, with what the migrations up to it have left; its index is whole.
Versioned ==
    [version |-> 7, tables |-> Table, columns |-> {"group_id", "relation_type", "outcome"},
     objects |-> {"type_index"}, status |-> t1 :> "done" @@ t2 :> "none",
     index |-> t1 :> OnlyRow("done") @@ t2 :> NoRows]

Current ==
    [Versioned EXCEPT !.version = CurrentVersion, !.columns = Column, !.objects = Object]

\* One that needs the columns migrateTaskMetadata lists.
Ungrouped == [Unversioned EXCEPT !.columns = {}]

KnownDatabases == {Fresh, Unversioned, Versioned, Current, Ungrouped}

OldestDatabases == {Ungrouped}

ProcessSymmetry == Permutations(Process)
=============================================================================
