---------------------------- MODULE MCGoalBudget ----------------------------
(***************************************************************************)
(* Values for the constants of the goal budgets, for TLC.                  *)
(***************************************************************************)
EXTENDS GoalBudget, TLC

CONSTANTS t1, t2, w1, w2, r1, goal1

\* The members of one goal, which may share no resource.
PairTasks == {t1, t2}
PairPriorities == [t \in PairTasks |-> "normal"]
PairResources == [t \in PairTasks |-> NoResource]
PairMembers == [t \in PairTasks |-> goal1]

\* One cap at a time, and both counters at once.
CapChoices ==
    {[tokens |-> 0, iterations |-> 1, duration |-> 0],
     [tokens |-> 2, iterations |-> 3, duration |-> 0],
     [tokens |-> 0, iterations |-> 2, duration |-> 1]}

WorkerSymmetry == Permutations(Worker)
=============================================================================
