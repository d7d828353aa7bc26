------------------------------- MODULE MCLoop -------------------------------
(***************************************************************************)
(* Values for the constants of the loops, for TLC.                         *)
(***************************************************************************)
EXTENDS Loop, TLC

CONSTANTS t1, t2, w1, w2, r1, goal1

\* A task of its own and a member of a goal.
PairTasks == {t1, t2}
PairPriorities == [t \in PairTasks |-> "normal"]
PairResources == [t \in PairTasks |-> NoResource]
PairGroups == [t \in PairTasks |-> IF t = t1 THEN NoGroup ELSE goal1]
PairMembers == [t \in PairTasks |-> goal1]

CapChoices == {[tokens |-> 0, iterations |-> 2, duration |-> 1]}
OneIteration == {[tokens |-> 0, iterations |-> 1, duration |-> 0]}
=============================================================================
