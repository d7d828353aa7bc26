---------------------------- MODULE MCVybeImport ----------------------------
(***************************************************************************)
(* Values for the constants of the import, for TLC.                        *)
(***************************************************************************)
EXTENDS VybeImport, TLC

CONSTANTS t1, t2, t3, w1, r1, goal1, g1, first, second, torn

TrioTasks == {t1, t2, t3}
TrioPriorities == [t \in TrioTasks |-> "normal"]
TrioResources == [t \in TrioTasks |-> NoResource]
TrioGroups == [t \in TrioTasks |-> NoGroup]

Row1(s) == [id |-> t1, status |-> s]
Row2(s) == [id |-> t2, status |-> s]

\* Two archives that overlap in t1, which one of them has blocked, and one whose
\* artifact is of a task it has not.
Contents ==
    first :> [tasks |-> <<Row1("blocked")>>, events |-> <<t1, t2, NoTask>>,
              memories |-> <<>>, artifacts |-> <<t1>>,
              counts |-> [tasks |-> 1, events |-> 3, memories |-> 0, artifacts |-> 1]] @@
    second :> [tasks |-> <<Row2("in_progress"), Row1("pending")>>, events |-> <<t1>>,
               memories |-> <<[scope |-> "task", of |-> t1], [scope |-> "other", of |-> NoTask]>>,
               artifacts |-> <<>>,
               counts |-> [tasks |-> 2, events |-> 1, memories |-> 2, artifacts |-> 0]] @@
    torn :> [tasks |-> <<Row2("completed")>>, events |-> <<>>, memories |-> <<>>,
             artifacts |-> <<t1>>,
             counts |-> [tasks |-> 1, events |-> 0, memories |-> 0, artifacts |-> 1]]
=============================================================================
