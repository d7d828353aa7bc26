------------------------------ MODULE MCQueue ------------------------------
(***************************************************************************)
(* Values for the constants of the queue, for TLC.                         *)
(***************************************************************************)
EXTENDS QueueRefinement, Views, TLC

CONSTANTS t1, t2, t3, w1, w2, r1, r2, repo, goal1, g1

\* Two tasks for one resource, the later of them possibly the urgent one.
PairTasks == {t1, t2}
PairPriorities == t1 :> "normal" @@ t2 :> "urgent"
PairAlike == [t \in PairTasks |-> "normal"]
PairResources == [t \in PairTasks |-> repo]
PairGroups == [t \in PairTasks |-> NoGroup]
PairMembers == [t \in PairTasks |-> goal1]
PairFree == [t \in PairTasks |-> NoResource]

\* Three tasks of one priority that only relations tell apart.
TrioTasks == {t1, t2, t3}
TrioPriorities == [t \in TrioTasks |-> "normal"]
TrioResources == [t \in TrioTasks |-> NoResource]
TrioGroups == [t \in TrioTasks |-> NoGroup]
\* The first two of them may be members of a goal.
TrioMembers == [t \in TrioTasks |-> IF t = t3 THEN NoGroup ELSE goal1]

WorkerSymmetry == Permutations(Worker)
ActorSymmetry == Permutations(Worker) \cup Permutations(Reaper)
PairSymmetry == Permutations(PairTasks)
TrioSymmetry == Permutations(TrioTasks)
=============================================================================
