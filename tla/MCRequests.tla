----------------------------- MODULE MCRequests -----------------------------
(***************************************************************************)
(* Values for the constants of the request ledger, for TLC.                *)
(***************************************************************************)
EXTENDS Requests, TLC

CONSTANTS t1, t2, w1, w2, c1, c2, k1, text

\* Two submissions of one body, which the rules may reject.
PairTasks == {t1, t2}
PairPriorities == [t \in PairTasks |-> "normal"]
PairResources == [t \in PairTasks |-> NoResource]
PairGroups == [t \in PairTasks |-> NoGroup]
PairBodies == [t \in PairTasks |-> text]

AddTo(b, u, forced) == [kind |-> "add", body |-> b, behind |-> u, force |-> forced]
SetTo(t, s, forced) == [kind |-> "set", task |-> t, status |-> s, force |-> forced]

\* An add forced past the rules, one that may have to wait for the first task,
\* and changes that release and fail that one.
MixedOrders ==
    {AddTo(text, NoTask, TRUE), AddTo(text, t1, FALSE), SetTo(t1, "todo", FALSE),
     SetTo(t1, "failed", FALSE)}

ActorSymmetry == Permutations(Client) \cup Permutations(Worker)
=============================================================================
