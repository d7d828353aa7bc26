----------------------------- MODULE GoalBudget -----------------------------
(***************************************************************************)
(* The durable budget of a goal: caps on tokens, iterations and duration,  *)
(* the usage counted against them, and the three transactions around the   *)
(* run of an agent on a member of the goal.  The queue keeps all its       *)
(* operations; this module adds the columns of goal_groups that it leaves  *)
(* out, and the table goal_iterations.                                     *)
(*                                                                         *)
(* An attempt is identified by its task and its place among the attempts   *)
(* of the task.  A cap of 0 is no cap.  What a run reports is the tokens   *)
(* found in its output, or Unavailable.                                  *)
(***************************************************************************)
EXTENDS Queue

CONSTANTS
    CapSets,    \* the caps a goal may be given, by `afk goal` or by resuming it
    Unavailable,
    Reports     \* what the runs of agents report

Caps == [tokens : Nat, iterations : Nat, duration : Nat]

ASSUME BudgetAssumption ==
    /\ CapSets \subseteq Caps
    /\ Unavailable \notin Nat /\ Reports \subseteq Nat \cup {Unavailable}

VARIABLES
    caps,        \* max_tokens, max_iterations and max_duration_ns of a goal
    used,        \* its tokens_used and iterations_used
    epoch,       \* its budget_epoch_started
    reason,      \* its limit_reason
    iterations   \* goal_iterations, per task: the attempts accounted for

budgetVars == <<caps, used, epoch, reason, iterations>>

Reason ==
    {"none", "max-tokens", "max-iterations", "max-duration", "token-usage-unavailable"}

BudgetTypeOK ==
    /\ TypeOK
    /\ caps \in [Group -> Caps]
    /\ used \in [Group -> [tokens : Nat, iterations : Nat]]
    /\ epoch \in [Group -> Nat]
    /\ reason \in [Group -> Reason]
    /\ iterations \in [Task -> SUBSET (1..MaxAttempts)]

\* The caps a goal is going to be created with are chosen here.
BudgetInit ==
    /\ Init
    /\ caps \in [Group -> CapSets]
    /\ used = [g \in Group |-> [tokens |-> 0, iterations |-> 0]]
    /\ epoch = [g \in Group |-> 0]
    /\ reason = [g \in Group |-> "none"]
    /\ iterations = [t \in Task |-> {}]

IsGoal(g) == g \in Group /\ goalStatus[g] # "none"

Tokens(report) == IF report = Unavailable THEN 0 ELSE report

DurationExceeded(itsCaps, since) ==
    /\ itsCaps.duration > 0 /\ since # 0
    /\ now - since >= itsCaps.duration

\* The first cap that a usage has reached, in the order of goalLimitReason.
LimitReason(itsCaps, usage, since, report) ==
    IF itsCaps.tokens > 0 /\ report = Unavailable THEN "token-usage-unavailable"
    ELSE IF itsCaps.tokens > 0 /\ usage.tokens >= itsCaps.tokens THEN "max-tokens"
    ELSE IF itsCaps.iterations > 0 /\ usage.iterations >= itsCaps.iterations
         THEN "max-iterations"
    ELSE IF DurationExceeded(itsCaps, since) THEN "max-duration" ELSE "none"

-----------------------------------------------------------------------------
(* Limits                                                                   *)

\* A bug the caps would not survive: what is being worked on goes on.
SuspendedTodo(rows, g) == {t \in Task : GroupOf[t] = g /\ rows[t].status = "todo"}

Suspended(rows, g) == {t \in Task : GroupOf[t] = g /\ rows[t].status \in {"todo", "doing"}}

\* A bug the goal's status would suffer from: it is not refreshed.
LimitGoalTasksOnly(g, rows, logs, why) ==
    /\ row' = [t \in Task |-> IF t \in Suspended(rows, g)
                              THEN MarkEnded(rows[t], "budget-limited") ELSE rows[t]]
    /\ attempts' = [t \in Task |-> IF t \in Suspended(rows, g)
                                   THEN CloseAllOpen(logs[t], "budget-limited") ELSE logs[t]]
    /\ reason' = [reason EXCEPT ![g] = why]
    /\ UNCHANGED goalStatus

\* limitGoalTasks, on the rows and attempts as the transaction has them by now.
LimitGoalTasks(g, rows, logs, why) ==
    /\ row' = [t \in Task |-> IF t \in Suspended(rows, g)
                              THEN MarkEnded(rows[t], "budget-limited") ELSE rows[t]]
    /\ attempts' = [t \in Task |-> IF t \in Suspended(rows, g)
                                   THEN CloseAllOpen(logs[t], "budget-limited") ELSE logs[t]]
    /\ reason' = [reason EXCEPT ![g] = why]
    /\ goalStatus' = [goalStatus EXCEPT ![g] = GoalStatusOf(row', g, "complete")]

\* The start of the epoch a run of t belongs to; the first run starts it.
EpochOf(t) == IF epoch[GroupOf[t]] = 0 THEN now ELSE epoch[GroupOf[t]]

Overdue(t) == DurationExceeded(caps[GroupOf[t]], EpochOf(t))

\* After the claim and before the agent: starts the epoch, and limits a goal
\* whose time has run out.  It takes the latest open attempt of the task, and
\* does not ask whose it is.
PrepareGoalInvocation(t) ==
    LET g == GroupOf[t]
    IN  /\ t \in Present /\ IsGoal(g)
        /\ OpenAttempts(attempts[t]) # {}
        /\ epoch' = [epoch EXCEPT ![g] = EpochOf(t)]
        /\ IF Overdue(t) THEN LimitGoalTasks(g, row, attempts, "max-duration")
           ELSE UNCHANGED <<row, attempts, reason, goalStatus>>
        /\ UNCHANGED <<relation, gates, now, reaper, caps, used, iterations>>

-----------------------------------------------------------------------------
(* Finalization                                                             *)

\* Bugs the accounting would not survive: an attempt that was closed by
\* somebody else, or is not the latest open one, is finalized all the same.
SettledIfAccounted(t, i) == i \in iterations[t] \/ row[t].status = "budget-limited"

\* A finalization of a settled attempt is a replay, which changes nothing.
Settled(t, i) ==
    \/ i \in iterations[t]
    \/ ~IsLatestOpen(attempts[t], i)
    \/ row[t].status = "budget-limited"

\* What else a finalization asks for; without it the loop gets an error.
MayFinalize(t, i, w) ==
    /\ row[t].status = "doing"
    /\ attempts[t][i].worker = w
    /\ row[t].lease = 0 \/ row[t].lease > now

UsageAfter(g, report) ==
    [tokens |-> used[g].tokens + Tokens(report), iterations |-> used[g].iterations + 1]

LimitAfter(g, report) == LimitReason(caps[g], UsageAfter(g, report), epoch[g], report)

\* The attempt is closed, accounted for, and the goal limited if that reached
\* a cap, in one transaction.
FinalizeGoalInvocation(t, i, w, s, report) ==
    LET g == GroupOf[t]
        ended == [row EXCEPT ![t] = MarkEnded(@, s)]
        logs == [attempts EXCEPT ![t] = AttemptsAfter(s, @, s)]
    IN  /\ t \in Present /\ IsGoal(g) /\ i \in DOMAIN attempts[t]
        /\ ~Settled(t, i) /\ MayFinalize(t, i, w)
        /\ iterations' = [iterations EXCEPT ![t] = @ \cup {i}]
        /\ used' = [used EXCEPT ![g] = UsageAfter(g, report)]
        /\ IF LimitAfter(g, report) # "none"
           THEN LimitGoalTasks(g, ended, logs, LimitAfter(g, report))
           ELSE /\ row' = ended /\ attempts' = logs
                /\ goalStatus' = RefreshGoalStatus(row', t, "complete")
                /\ UNCHANGED reason
        /\ UNCHANGED <<relation, gates, now, reaper, caps, epoch>>

\* A bug the caps would not survive: they are resumed below the usage.
ResumeGoalUnchecked(g, newCaps) ==
    /\ IsGoal(g)
    /\ row' = [t \in Task |-> IF GroupOf[t] = g /\ row[t].status = "budget-limited"
                              THEN Reset(row[t]) ELSE row[t]]
    /\ caps' = [caps EXCEPT ![g] = newCaps]
    /\ epoch' = [epoch EXCEPT ![g] = 0]
    /\ reason' = [reason EXCEPT ![g] = "none"]
    /\ goalStatus' = [goalStatus EXCEPT ![g] = GoalStatusOf(row', g, "complete")]
    /\ UNCHANGED <<attempts, relation, gates, now, reaper, used, iterations>>

\* `afk goal resume`: the caps must exceed what is used, which stays.
ResumeGoal(g, newCaps) ==
    /\ IsGoal(g)
    /\ newCaps.tokens > 0 => newCaps.tokens > used[g].tokens
    /\ newCaps.iterations > 0 => newCaps.iterations > used[g].iterations
    /\ row' = [t \in Task |-> IF GroupOf[t] = g /\ row[t].status = "budget-limited"
                              THEN Reset(row[t]) ELSE row[t]]
    /\ caps' = [caps EXCEPT ![g] = newCaps]
    /\ epoch' = [epoch EXCEPT ![g] = 0]
    /\ reason' = [reason EXCEPT ![g] = "none"]
    /\ goalStatus' = [goalStatus EXCEPT ![g] = GoalStatusOf(row', g, "complete")]
    /\ UNCHANGED <<attempts, relation, gates, now, reaper, used, iterations>>

-----------------------------------------------------------------------------
Budgeting ==
    \/ \E t \in Task : PrepareGoalInvocation(t)
    \/ \E t \in Task, i \in 1..MaxAttempts, w \in Worker, s \in Terminal, report \in Reports :
          FinalizeGoalInvocation(t, i, w, s, report)
    \/ \E g \in Group, newCaps \in CapSets : ResumeGoal(g, newCaps)

BudgetNext == (Next /\ UNCHANGED budgetVars) \/ Budgeting

BudgetSpec == BudgetInit /\ [][BudgetNext]_<<vars, budgetVars>>

-----------------------------------------------------------------------------
(* Properties                                                               *)

Members(g) == {t \in Task : GroupOf[t] = g}

\* The rows of goal_iterations that belong to a goal.
IterationsOf(g) == {e \in Members(g) \X (1..MaxAttempts) : e[2] \in iterations[e[1]]}

\* The usage of a goal is the number of its iterations, and each of them is an
\* attempt that its own finalization closed: not one that was reclaimed or
\* suspended before, and none twice.
AccountedOnce ==
    /\ \A g \in Group : used[g].iterations = Cardinality(IterationsOf(g))
    /\ \A t \in Task : \A i \in iterations[t] :
          attempts[t][i].outcome \in Terminal /\ attempts[t][i].worker # NoWorker

\* docs/using-goal.md, "stop after N agent iterations": however many workers
\* are under way, no iteration is accounted beyond the cap, and once a cap is
\* reached no member is to do or being worked on until the goal is resumed.
\* It is about goals whose members nobody else adds, audits or moves back to todo.
CapsHold ==
    \A g \in Group :
        /\ caps[g].iterations > 0 => used[g].iterations <= caps[g].iterations
        /\ \/ caps[g].iterations > 0 /\ used[g].iterations >= caps[g].iterations
           \/ caps[g].tokens > 0 /\ used[g].tokens >= caps[g].tokens
           => \A t \in Members(g) : row[t].status \notin {"todo", "doing"}

\* A suspended member can be resumed: its goal has a limit reason for `afk goal
\* status` to show.  And a goal with a reason rests until it is resumed.
SuspensionIsWhole ==
    \A g \in Group : \A t \in Members(g) :
        /\ row[t].status = "budget-limited" => reason[g] # "none"
        /\ reason[g] # "none" => row[t].status \notin {"todo", "doing"}

=============================================================================
