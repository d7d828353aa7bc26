---------------------------- MODULE BudgetProofs ----------------------------
(***************************************************************************)
(* Theorems about the budgets of goals: what is counted against a budget   *)
(* is counted once, a suspension leaves nobody at work on a goal, and the  *)
(* caps of a goal hold however many workers are under way.                 *)
(***************************************************************************)
EXTENDS GoalBudget, SchedulingProofs, FiniteSetTheorems

-----------------------------------------------------------------------------
(* The tables in the middle of a transaction                                *)
(*                                                                          *)
(* The transactions of a budget end an attempt first and suspend the goal   *)
(* then, so that what is true of the outcome has to be true in between.     *)

\* Rows and attempts that the tables may have by now, no row having come or gone.
Midway(rows, logs) ==
    /\ rows \in [Task -> Row] /\ logs \in [Task -> Seq(Attempt)]
    /\ \A x \in Task :
          /\ rows[x].ordinal = row[x].ordinal
          /\ \/ rows[x].status = row[x].status
             \/ row[x].status \in Status /\ rows[x].status \in Status
          /\ \/ logs[x] = attempts[x]
             \/ row[x].status \in Status /\ Continues(attempts[x], logs[x])

\* Continuations can be continued.
LEMMA ContinuesTwice ==
    ASSUME NEW a, NEW b, NEW c, Continues(a, b), Continues(b, c)
    PROVE  Continues(a, c)
BY DEF Continues

\* Ending a row and resetting it leave its ordinal alone.
LEMMA EndedFields ==
    ASSUME NEW r \in Row
    PROVE  /\ \A s \in Status : /\ MarkEnded(r, s) \in Row /\ MarkEnded(r, s).status = s
                                /\ MarkEnded(r, s).ordinal = r.ordinal
           /\ Reset(r) \in Row /\ Reset(r).status = "todo" /\ Reset(r).ordinal = r.ordinal
BY DEF MarkEnded, Reset, Row, Status

\* Closing every open attempt of a list leaves it a list of attempts.
LEMMA AllClosedType ==
    ASSUME NEW log \in Seq(Attempt)
    PROVE  CloseAllOpen(log, "budget-limited") \in Seq(Attempt)
<1>1. log \in [1..Len(log) -> Attempt] /\ Len(log) \in Nat /\ DOMAIN log = 1..Len(log)
  OBVIOUS
<1>2. \A a \in Attempt : [a EXCEPT !.outcome = "budget-limited"] \in Attempt
  BY DEF Attempt
<1>3. CloseAllOpen(log, "budget-limited") \in [1..Len(log) -> Attempt]
  BY <1>1, <1>2 DEF CloseAllOpen
<1> QED
  BY <1>1, <1>3

\* The tables as they are.
LEMMA MidwayNow == TypeInv => Midway(row, attempts)
BY DEF TypeInv, TypeOK, Midway

\* The tables after the finalization of an attempt.
LEMMA MidwayEnded ==
    ASSUME TypeInv, NEW t \in Present, NEW s \in Terminal
    PROVE  Midway([row EXCEPT ![t] = MarkEnded(@, s)],
                  [attempts EXCEPT ![t] = AttemptsAfter(s, @, s)])
<1>1. /\ row \in [Task -> Row] /\ attempts \in [Task -> Seq(Attempt)]
      /\ t \in Task /\ row[t].status \in Status /\ s \in Status
  BY DEF TypeInv, TypeOK, Present, Terminal, Status
<1>2. /\ MarkEnded(row[t], s) \in Row /\ MarkEnded(row[t], s).status = s
      /\ MarkEnded(row[t], s).ordinal = row[t].ordinal
  BY <1>1, EndedFields
<1>3. AttemptsAfter(s, attempts[t], s) \in Seq(Attempt)
  BY <1>1, AttemptsAfterType DEF Terminal
<1>4. Continues(attempts[t], AttemptsAfter(s, attempts[t], s))
  BY <1>1, HistoryContinues
<1> DEFINE r == MarkEnded(row[t], s)
           log == AttemptsAfter(s, attempts[t], s)
<1> SUFFICES Midway([row EXCEPT ![t] = r], [attempts EXCEPT ![t] = log])
  OBVIOUS
<1>5. /\ r \in Row /\ r.status \in Status /\ r.ordinal = row[t].ordinal
      /\ log \in Seq(Attempt) /\ Continues(attempts[t], log)
  BY <1>1, <1>2, <1>3, <1>4
<1> HIDE DEF r, log
<1> QED
  BY <1>1, <1>5 DEF Midway

\* The limit of a goal, set on tables that are midway.
LEMMA LimitMidway ==
    ASSUME NEW g, NEW rows, NEW logs, NEW why, Midway(rows, logs),
           LimitGoalTasks(g, rows, logs, why)
    PROVE  Midway(row', attempts')
<1>1. \A x \in Task : rows[x] \in Row /\ logs[x] \in Seq(Attempt)
  BY DEF Midway
<1>2. \A x \in Suspended(rows, g) : x \in Task /\ rows[x].status \in Status
  BY DEF Suspended, Status
<1>3. \A x \in Suspended(rows, g) :
         /\ row'[x] = MarkEnded(rows[x], "budget-limited")
         /\ attempts'[x] = CloseAllOpen(logs[x], "budget-limited")
  BY <1>2 DEF LimitGoalTasks
<1>4. \A x \in Task \ Suspended(rows, g) : row'[x] = rows[x] /\ attempts'[x] = logs[x]
  BY DEF LimitGoalTasks
<1>5. row' = [x \in Task |-> row'[x]] /\ attempts' = [x \in Task |-> attempts'[x]]
  BY DEF LimitGoalTasks
<1>6. ASSUME NEW x \in Suspended(rows, g)
      PROVE  /\ row'[x] \in Row /\ attempts'[x] \in Seq(Attempt)
             /\ row'[x].ordinal = row[x].ordinal
             /\ row[x].status \in Status /\ row'[x].status \in Status
             /\ Continues(attempts[x], attempts'[x])
  <2>1. row'[x] \in Row /\ row'[x].status = "budget-limited" /\ row'[x].ordinal = row[x].ordinal
    BY <1>1, <1>2, <1>3, EndedFields DEF Midway, Status
  <2>2. row[x].status \in Status
    BY <1>2 DEF Midway
  <2>3. attempts'[x] \in Seq(Attempt) /\ Continues(logs[x], attempts'[x])
    BY <1>1, <1>2, <1>3, AllClosedType, HistoryContinues
  <2>4. Continues(attempts[x], attempts'[x])
    BY <1>2, <2>3, ContinuesTwice DEF Midway
  <2> QED
    BY <2>1, <2>2, <2>3, <2>4 DEF Status
<1>7. \A x \in Task : row'[x] \in Row /\ attempts'[x] \in Seq(Attempt)
  BY <1>1, <1>4, <1>6
<1>8. row' \in [Task -> Row] /\ attempts' \in [Task -> Seq(Attempt)]
  BY <1>5, <1>7
<1> QED
  BY <1>4, <1>6, <1>8 DEF Midway

\* A transaction that leaves the tables like that is a step in the life of
\* every task, and keeps the types.
LEMMA MidwayStep ==
    ASSUME TypeInv, Midway(row', attempts'), goalStatus' \in [Group -> GoalStatus],
           UNCHANGED <<relation, gates, now, reaper>>
    PROVE  TypeInv' /\ \A x \in Task : LifeStep(x)
<1>1. TypeOK'
  BY DEF TypeInv, TypeOK, Midway
<1>2. OrdinalsBounded'
  <2>1. \A x \in Task : row'[x].ordinal = row[x].ordinal
    BY DEF Midway
  <2> QED
    BY <2>1 DEF TypeInv, OrdinalsBounded
<1>3. ASSUME NEW x \in Task PROVE LifeStep(x)
  BY DEF Midway, LifeStep, Status
<1> QED
  BY <1>1, <1>2, <1>3 DEF TypeInv

\* A refreshed goal stays one.
LEMMA NeverNone ==
    ASSUME NEW rows, NEW g, NEW fallback \in {"complete", "failed"}
    PROVE  GoalStatusOf(rows, g, fallback) \in GoalStatus \ {"none"}
BY DEF GoalStatusOf, GoalStatus

\* A goal is refreshed after changes to its own members.
LEMMA GoalRefreshed ==
    ASSUME goalStatus \in [Group -> GoalStatus], NEW g \in Group,
           \A x \in Task : GroupOf[x] # g => row'[x].status = row[x].status,
           goalStatus' = [goalStatus EXCEPT ![g] = GoalStatusOf(row', g, "complete")]
    PROVE  /\ goalStatus' \in [Group -> GoalStatus]
           /\ \A h \in Group : GoalStep(h) /\ (goalStatus[h] # "none" => goalStatus'[h] # "none")
<1>1. /\ GoalStatusOf(row', g, "complete") \in GoalStatus
      /\ GoalStatusOf(row', g, "complete") # "none"
  BY NeverNone
<1>2. goalStatus' \in [Group -> GoalStatus]
  BY <1>1
<1>3. ASSUME NEW h \in Group
      PROVE  GoalStep(h) /\ (goalStatus[h] # "none" => goalStatus'[h] # "none")
  <2>1. CASE h = g
    <3>1. goalStatus'[h] = GoalStatusOf(row', h, "complete")
      BY <2>1
    <3> QED
      BY <1>1, <2>1, <3>1 DEF GoalStep
  <2>2. CASE h # g
    <3>1. goalStatus'[h] = goalStatus[h] /\ \A x \in Task : GroupOf[x] = h => row'[x].status = row[x].status
      BY <2>2
    <3> QED
      BY <3>1 DEF GoalStep
  <2> QED
    BY <2>1, <2>2
<1> QED
  BY <1>2, <1>3

-----------------------------------------------------------------------------
(* Types                                                                    *)

\* What every transaction does, seen from the queue.
Transaction ==
    /\ TypeInv'
    /\ \A x \in Task : LifeStep(x)
    /\ \A h \in Group : GoalStep(h) /\ (goalStatus[h] # "none" => goalStatus'[h] # "none")

BudgetTypes ==
    /\ caps \in [Group -> Caps]
    /\ used \in [Group -> [tokens : Nat, iterations : Nat]]
    /\ epoch \in [Group -> Nat]
    /\ reason \in [Group -> Reason]
    /\ iterations \in [Task -> SUBSET (1..MaxAttempts)]

\* What a finalization ends is midway, and a matter of the goal of the task only.
LEMMA LimitStep ==
    ASSUME TypeInv, NEW g \in Group, NEW rows, NEW logs, NEW why, Midway(rows, logs),
           \A x \in Task : GroupOf[x] # g => rows[x].status = row[x].status,
           LimitGoalTasks(g, rows, logs, why), UNCHANGED <<relation, gates, now, reaper>>
    PROVE  Transaction
<1>1. Midway(row', attempts')
  BY LimitMidway
<1>2. \A x \in Task : GroupOf[x] # g => row'[x].status = row[x].status
  BY DEF LimitGoalTasks, Suspended
<1>3. goalStatus' = [goalStatus EXCEPT ![g] = GoalStatusOf(row', g, "complete")]
  BY DEF LimitGoalTasks
<1>4. goalStatus \in [Group -> GoalStatus]
  BY DEF TypeInv, TypeOK
<1> QED
  BY <1>1, <1>2, <1>3, <1>4, GoalRefreshed, MidwayStep DEF Transaction

\* A transaction that changes no table of the queue.
LEMMA QuietStep ==
    ASSUME TypeInv, UNCHANGED vars
    PROVE  Transaction
<1>1. TypeInv' /\ \A x \in Task : LifeStep(x)
  BY TypeStep, NextLife
<1>2. \A h \in Group : GoalStep(h) /\ (goalStatus[h] # "none" => goalStatus'[h] # "none")
  BY DEF GoalStep, vars
<1> QED
  BY <1>1, <1>2 DEF Transaction

\* The check before the agent is started.
LEMMA PrepareStep ==
    ASSUME TypeInv, BudgetTypes, NEW t \in Task, PrepareGoalInvocation(t)
    PROVE  Transaction /\ BudgetTypes'
<1> DEFINE g == GroupOf[t]
<1>1. g \in Group
  BY DEF PrepareGoalInvocation, IsGoal
<1>2. CASE Overdue(t)
  <2>1. LimitGoalTasks(g, row, attempts, "max-duration")
    BY <1>2 DEF PrepareGoalInvocation
  <2>2. Transaction
    BY <1>1, <2>1, MidwayNow, LimitStep DEF PrepareGoalInvocation
  <2>3. reason' \in [Group -> Reason]
    BY <1>1, <2>1 DEF LimitGoalTasks, BudgetTypes, Reason
  <2> QED
    BY <1>1, <2>2, <2>3 DEF PrepareGoalInvocation, BudgetTypes, EpochOf, TypeInv, TypeOK
<1>3. CASE ~Overdue(t)
  <2>1. UNCHANGED vars
    BY <1>3 DEF PrepareGoalInvocation, vars
  <2>2. Transaction
    BY <2>1, QuietStep
  <2> QED
    BY <1>1, <1>3, <2>2 DEF PrepareGoalInvocation, BudgetTypes, EpochOf, TypeInv, TypeOK
<1> QED
  BY <1>2, <1>3

\* The reason a finalization finds, and the usage it leaves, are of their types.
LEMMA UsageType ==
    ASSUME BudgetTypes, NEW g \in Group, NEW report \in Nat \cup {Unavailable}
    PROVE  /\ LimitAfter(g, report) \in Reason
           /\ UsageAfter(g, report) \in [tokens : Nat, iterations : Nat]
           /\ UsageAfter(g, report).tokens = used[g].tokens + Tokens(report)
           /\ UsageAfter(g, report).iterations = used[g].iterations + 1
           /\ Tokens(report) \in Nat
<1>1. Tokens(report) \in Nat
  BY DEF Tokens
<1>2. LimitAfter(g, report) \in Reason
  BY DEF LimitAfter, LimitReason, Reason
<1> QED
  BY <1>1, <1>2 DEF UsageAfter, BudgetTypes

\* The finalization of an attempt, with the limit it may set.
LEMMA FinalizeStep ==
    ASSUME TypeInv, BudgetTypes, NEW t \in Task, NEW i \in 1..MaxAttempts, NEW w,
           NEW s \in Terminal, NEW report \in Nat \cup {Unavailable}, FinalizeGoalInvocation(t, i, w, s, report)
    PROVE  Transaction /\ BudgetTypes'
<1> DEFINE g == GroupOf[t]
           ended == [row EXCEPT ![t] = MarkEnded(@, s)]
           logs == [attempts EXCEPT ![t] = AttemptsAfter(s, @, s)]
<1>1. g \in Group /\ t \in Present
  BY DEF FinalizeGoalInvocation, IsGoal
<1>2. Midway(ended, logs)
  BY <1>1, MidwayEnded
<1>3. \A x \in Task : x # t => ended[x].status = row[x].status
  BY DEF TypeInv, TypeOK
<1>4. /\ goalStatus \in [Group -> GoalStatus]
      /\ UNCHANGED <<relation, gates, now, reaper>>
  BY DEF FinalizeGoalInvocation, TypeInv, TypeOK
<1>5. Transaction /\ reason' \in [Group -> Reason]
  <2>1. CASE LimitAfter(g, report) # "none"
    <3>1. LimitGoalTasks(g, ended, logs, LimitAfter(g, report))
      BY <2>1 DEF FinalizeGoalInvocation
    <3>2. Transaction
      <4> HIDE DEF ended, logs
      <4> QED
        BY <1>1, <1>2, <1>3, <1>4, <3>1, LimitStep
    <3>3. reason' \in [Group -> Reason]
      BY <1>1, <3>1, UsageType DEF LimitGoalTasks, BudgetTypes
    <3> QED
      BY <3>2, <3>3
  <2>2. CASE LimitAfter(g, report) = "none"
    <3>1. /\ row' = ended /\ attempts' = logs /\ reason' = reason
          /\ goalStatus' = RefreshGoalStatus(row', t, "complete")
      BY <2>2 DEF FinalizeGoalInvocation
    <3>2. Midway(row', attempts')
      BY <1>2, <3>1
    <3>3. goalStatus' \in [Group -> GoalStatus]
      BY <1>4, <3>1, RefreshType
    <3>4. \A h \in Group : GoalStep(h)
      BY <1>3, <1>4, <3>1, RefreshGoals
    <3>5. \A h \in Group : goalStatus[h] # "none" => goalStatus'[h] # "none"
      BY <3>1, NeverNone DEF RefreshGoalStatus
    <3>6. Transaction
      BY <1>4, <3>2, <3>3, <3>4, <3>5, MidwayStep DEF Transaction
    <3> QED
      BY <3>1, <3>6 DEF BudgetTypes
  <2> QED
    BY <2>1, <2>2
<1>6. used' \in [Group -> [tokens : Nat, iterations : Nat]]
  BY <1>1, UsageType DEF FinalizeGoalInvocation, BudgetTypes
<1>7. iterations' \in [Task -> SUBSET (1..MaxAttempts)]
  BY DEF FinalizeGoalInvocation, BudgetTypes
<1> QED
  BY <1>5, <1>6, <1>7 DEF FinalizeGoalInvocation, BudgetTypes

\* Resuming a goal resets its suspended members.
LEMMA ResumeStep ==
    ASSUME TypeInv, BudgetTypes, NEW g \in Group, NEW newCaps \in CapSets, ResumeGoal(g, newCaps)
    PROVE  Transaction /\ BudgetTypes'
<1>1. \A x \in Task : row[x] \in Row /\ attempts' = attempts
  BY DEF ResumeGoal, TypeInv, TypeOK
<1>2. \A x \in Task : row'[x] = IF GroupOf[x] = g /\ row[x].status = "budget-limited"
                                THEN Reset(row[x]) ELSE row[x]
  BY DEF ResumeGoal
<1>3. /\ row' = [x \in Task |-> row'[x]]
      /\ \A x \in Task : /\ row'[x] \in Row /\ row'[x].ordinal = row[x].ordinal
                         /\ \/ row'[x].status = row[x].status
                            \/ row[x].status \in Status /\ row'[x].status \in Status
                         /\ GroupOf[x] # g => row'[x].status = row[x].status
  BY <1>1, <1>2, EndedFields DEF ResumeGoal, Status
<1>4. Midway(row', attempts')
  <2>1. row' \in [Task -> Row]
    BY <1>3
  <2>2. attempts' = attempts /\ attempts \in [Task -> Seq(Attempt)]
    BY DEF ResumeGoal, TypeInv, TypeOK
  <2> QED
    BY <1>3, <2>1, <2>2 DEF Midway
<1>5. Transaction
  <2>1. /\ goalStatus \in [Group -> GoalStatus]
        /\ goalStatus' = [goalStatus EXCEPT ![g] = GoalStatusOf(row', g, "complete")]
        /\ UNCHANGED <<relation, gates, now, reaper>>
    BY DEF ResumeGoal, TypeInv, TypeOK
  <2> QED
    BY <1>3, <1>4, <2>1, GoalRefreshed, MidwayStep DEF Transaction
<1>6. newCaps \in Caps
  BY BudgetAssumption
<1> QED
  BY <1>5, <1>6 DEF ResumeGoal, BudgetTypes, Reason

\* The three transactions of a budget.
LEMMA BudgetingStep ==
    ASSUME TypeInv, BudgetTypes, Budgeting
    PROVE  Transaction /\ BudgetTypes'
BY PrepareStep, FinalizeStep, ResumeStep, BudgetAssumption DEF Budgeting

\* The columns of the budgets begin with values of their types.
LEMMA BudgetTypesInit == BudgetInit => TypeInv /\ BudgetTypes
<1> SUFFICES ASSUME BudgetInit PROVE TypeInv /\ BudgetTypes
  OBVIOUS
<1>1. TypeInv
  BY TypeInit DEF BudgetInit
<1> QED
  BY <1>1, BudgetAssumption DEF BudgetInit, BudgetTypes, Reason

\* Every step of the budgeted queue keeps the types.
LEMMA BudgetTypeStep ==
    ASSUME TypeInv, BudgetTypes, [BudgetNext]_<<vars, budgetVars>>
    PROVE  TypeInv' /\ BudgetTypes' /\ \A x \in Task : LifeStep(x)
<1>1. CASE [Next]_vars /\ UNCHANGED budgetVars
  BY <1>1, TypeStep, NextLife DEF BudgetTypes, budgetVars
<1>2. CASE Budgeting
  BY <1>2, BudgetingStep DEF Transaction
<1> QED
  BY <1>1, <1>2 DEF BudgetNext

\* Type correctness of the queue with budgets.
THEOREM BudgetTypeCorrect == BudgetSpec => []BudgetTypeOK
<1>1. TypeInv /\ BudgetTypes /\ [BudgetNext]_<<vars, budgetVars>> => TypeInv' /\ BudgetTypes'
  BY BudgetTypeStep
<1>2. TypeInv /\ BudgetTypes => BudgetTypeOK
  BY DEF TypeInv, BudgetTypes, BudgetTypeOK
<1> QED
  BY <1>1, <1>2, BudgetTypesInit, PTL DEF BudgetSpec

\* Limits, finalizations and resumptions keep the status of a goal in agreement
\* with the rows of its members.
THEOREM BudgetGoalsAgree ==
    ASSUME GoalsKept
    PROVE  BudgetSpec => []GoalStatusAgrees
<1> DEFINE Inv == TypeInv /\ BudgetTypes /\ GoalStatusAgrees
<1>1. BudgetInit => Inv
  BY BudgetTypesInit DEF BudgetInit, Init, GoalStatusAgrees
<1>2. Inv /\ [BudgetNext]_<<vars, budgetVars>> => Inv'
  <2> SUFFICES ASSUME Inv, [BudgetNext]_<<vars, budgetVars>> PROVE Inv'
    OBVIOUS
  <2>1. TypeInv' /\ BudgetTypes' /\ row' \in [Task -> Row]
    BY BudgetTypeStep DEF TypeInv, TypeOK
  <2>2. \A h \in Group : GoalStep(h)
    <3>1. CASE [Next]_vars
      BY <3>1, NextGoals
    <3>2. CASE Budgeting
      BY <3>2, BudgetingStep DEF Transaction
    <3> QED
      BY <3>1, <3>2 DEF BudgetNext
  <2> QED
    BY <2>1, <2>2, GoalsAgreeStep
<1>3. Inv => GoalStatusAgrees
  OBVIOUS
<1> QED
  BY <1>1, <1>2, <1>3, PTL DEF BudgetSpec

-----------------------------------------------------------------------------
(* Accounting                                                               *)

\* The iterations of a goal can be counted, and they are attempts.
AccountedInv ==
    /\ AccountedOnce
    /\ \A g \in Group : IsFiniteSet(IterationsOf(g))
    /\ \A t \in Task : iterations[t] \subseteq DOMAIN attempts[t]

\* An attempt that was accounted for is closed, and history keeps it so.
LEMMA AccountedKept ==
    ASSUME BudgetTypes, AccountedInv, \A x \in Task : LifeStep(x), UNCHANGED <<used, iterations>>
    PROVE  AccountedInv'
<1>1. ASSUME NEW t \in Task, NEW i \in iterations[t]
      PROVE  /\ i \in DOMAIN attempts'[t]
             /\ attempts'[t][i].outcome \in Terminal /\ attempts'[t][i].worker # NoWorker
  <2>1. /\ i \in DOMAIN attempts[t]
        /\ attempts[t][i].outcome \in Terminal /\ attempts[t][i].worker # NoWorker
    BY DEF AccountedInv, AccountedOnce
  <2>2. attempts'[t] = attempts[t] \/ Continues(attempts[t], attempts'[t])
    BY DEF LifeStep
  <2> QED
    BY <2>1, <2>2 DEF Continues, Terminal
<1>2. \A g \in Group : IterationsOf(g)' = IterationsOf(g)
  BY DEF IterationsOf, Members
<1>3. iterations' = iterations /\ used' = used
  OBVIOUS
<1> QED
  BY <1>1, <1>2, <1>3 DEF AccountedInv, AccountedOnce

\* What a finalization does to the attempt it accounts for, which nobody has
\* closed before.
LEMMA FinalizedAttempt ==
    ASSUME TypeInv, NEW t \in Task, NEW i \in 1..MaxAttempts, NEW w \in Worker,
           NEW s \in Terminal, NEW report, FinalizeGoalInvocation(t, i, w, s, report)
    PROVE  /\ i \in DOMAIN attempts'[t]
           /\ attempts'[t][i].outcome = s /\ attempts'[t][i].worker = w
<1> DEFINE ended == [row EXCEPT ![t] = MarkEnded(@, s)]
           logs == [attempts EXCEPT ![t] = AttemptsAfter(s, @, s)]
           log == attempts[t]
<1>1. log \in Seq(Attempt) /\ attempts \in [Task -> Seq(Attempt)]
  BY DEF TypeInv, TypeOK
<1>2. i \in DOMAIN log /\ IsLatestOpen(log, i) /\ log[i].worker = w
  BY DEF FinalizeGoalInvocation, Settled, MayFinalize
<1>3. logs[t] = [log EXCEPT ![i].outcome = s]
  <2>1. OpenAttempts(log) # {} /\ IsLatestOpen(log, LatestOpen(log))
    BY <1>1, <1>2, LatestOpenIsOpen DEF IsLatestOpen
  <2>2. LatestOpen(log) = i
    <3>1. LatestOpen(log) \in Nat /\ i \in Nat
      BY <1>1, <1>2, <2>1 DEF IsLatestOpen, OpenAttempts
    <3>2. LatestOpen(log) <= i /\ i <= LatestOpen(log)
      BY <1>2, <2>1 DEF IsLatestOpen
    <3> QED
      BY <3>1, <3>2
  <2>3. AttemptsAfter(s, log, s) = CloseLatest(log, s)
    BY <2>1 DEF AttemptsAfter, Terminal
  <2>4. logs[t] = CloseLatest(log, s)
    BY <1>1, <2>3
  <2> QED
    BY <2>1, <2>2, <2>4 DEF CloseLatest
<1>4. /\ i \in DOMAIN logs[t] /\ logs[t][i].outcome = s /\ logs[t][i].worker = w
  <2>1. log[i] \in Attempt
    BY <1>1, <1>2
  <2> HIDE DEF log, logs
  <2> QED
    BY <1>2, <1>3, <2>1 DEF Attempt
<1>5. attempts'[t] \in {logs[t], CloseAllOpen(logs[t], "budget-limited")}
  <2>1. attempts' = logs \/ \E g, why : LimitGoalTasks(g, ended, logs, why)
    BY DEF FinalizeGoalInvocation
  <2> HIDE DEF ended, logs
  <2> QED
    BY <2>1 DEF LimitGoalTasks
<1>6. s # "open"
  BY DEF Terminal
<1> HIDE DEF logs
<1>7. CASE attempts'[t] = logs[t]
  BY <1>4, <1>7
<1>8. CASE attempts'[t] = CloseAllOpen(logs[t], "budget-limited")
  BY <1>4, <1>6, <1>8 DEF CloseAllOpen
<1> QED
  BY <1>5, <1>7, <1>8

\* A finalization accounts for one attempt more.
LEMMA FinalizeAccounted ==
    ASSUME TypeInv, BudgetTypes, AccountedInv, NEW t \in Task, NEW i \in 1..MaxAttempts,
           NEW w \in Worker, NEW s \in Terminal, NEW report \in Nat \cup {Unavailable},
           FinalizeGoalInvocation(t, i, w, s, report)
    PROVE  AccountedInv'
<1> DEFINE g == GroupOf[t]
<1>1. /\ g \in Group /\ i \notin iterations[t]
      /\ iterations' = [iterations EXCEPT ![t] = @ \cup {i}]
      /\ used' = [used EXCEPT ![g] = UsageAfter(g, report)]
  BY DEF FinalizeGoalInvocation, IsGoal, Settled
<1>2. \A x \in Task : LifeStep(x)
  BY FinalizeStep DEF Transaction
<1>3. ASSUME NEW x \in Task, NEW j \in iterations'[x]
      PROVE  /\ j \in DOMAIN attempts'[x]
             /\ attempts'[x][j].outcome \in Terminal /\ attempts'[x][j].worker # NoWorker
  <2>1. CASE j \in iterations[x]
    <3>1. /\ j \in DOMAIN attempts[x]
          /\ attempts[x][j].outcome \in Terminal /\ attempts[x][j].worker # NoWorker
      BY <2>1 DEF AccountedInv, AccountedOnce
    <3>2. attempts'[x] = attempts[x] \/ Continues(attempts[x], attempts'[x])
      BY <1>2 DEF LifeStep
    <3> QED
      BY <3>1, <3>2 DEF Continues, Terminal
  <2>2. CASE x = t /\ j = i
    BY <2>2, FinalizedAttempt, NoWorkerAssumption
  <2> QED
    BY <1>1, <1>3, <2>1, <2>2 DEF BudgetTypes
<1>4. IterationsOf(g)' = IterationsOf(g) \cup {<<t, i>>} /\ <<t, i>> \notin IterationsOf(g)
  BY <1>1 DEF IterationsOf, Members, BudgetTypes
<1>5. ASSUME NEW h \in Group, h # g PROVE IterationsOf(h)' = IterationsOf(h)
  BY <1>1, <1>5 DEF IterationsOf, Members, BudgetTypes
<1>6. ASSUME NEW h \in Group
      PROVE  /\ used'[h].iterations = Cardinality(IterationsOf(h)')
             /\ IsFiniteSet(IterationsOf(h)')
  <2>0. IsFiniteSet(IterationsOf(h)) /\ used[h].iterations = Cardinality(IterationsOf(h))
    BY DEF AccountedInv, AccountedOnce
  <2>1. CASE h = g
    <3>1. /\ IsFiniteSet(IterationsOf(g) \cup {<<t, i>>})
          /\ Cardinality(IterationsOf(g) \cup {<<t, i>>}) = Cardinality(IterationsOf(g)) + 1
      BY <1>4, <2>0, <2>1, FS_AddElement
    <3>2. used'[g].iterations = used[g].iterations + 1
      BY <1>1, UsageType DEF BudgetTypes
    <3> QED
      BY <1>4, <2>0, <2>1, <3>1, <3>2
  <2>2. CASE h # g
    BY <1>1, <1>5, <2>0, <2>2 DEF BudgetTypes
  <2> QED
    BY <2>1, <2>2
<1> QED
  BY <1>3, <1>6 DEF AccountedInv, AccountedOnce

\* Nothing is accounted for in the beginning.
LEMMA AccountedInit == BudgetInit => AccountedInv
<1> SUFFICES ASSUME BudgetInit PROVE AccountedInv
  OBVIOUS
<1>1. \A t \in Task : iterations[t] = {}
  BY DEF BudgetInit
<1>2. ASSUME NEW g \in Group PROVE IterationsOf(g) = {} /\ used[g].iterations = 0
  BY <1>1 DEF BudgetInit, IterationsOf, Members
<1>3. IsFiniteSet({}) /\ Cardinality({}) = 0
  BY FS_EmptySet
<1> QED
  BY <1>1, <1>2, <1>3 DEF AccountedInv, AccountedOnce

\* The usage of a goal is the number of its iterations, each an attempt that
\* its own finalization closed: for any number of goals, tasks and workers, and
\* whatever is reclaimed, suspended or done by hand in between.
THEOREM CountedOnce == BudgetSpec => []AccountedOnce
<1> DEFINE Inv == TypeInv /\ BudgetTypes /\ AccountedInv
<1>1. BudgetInit => Inv
  BY BudgetTypesInit, AccountedInit
<1>2. Inv /\ [BudgetNext]_<<vars, budgetVars>> => Inv'
  <2> SUFFICES ASSUME Inv, [BudgetNext]_<<vars, budgetVars>> PROVE AccountedInv'
    BY BudgetTypeStep
  <2>1. \A x \in Task : LifeStep(x)
    BY BudgetTypeStep
  <2>2. CASE UNCHANGED budgetVars
    BY <2>1, <2>2, AccountedKept DEF budgetVars
  <2>3. ASSUME NEW t \in Task, PrepareGoalInvocation(t) PROVE AccountedInv'
    BY <2>1, <2>3, AccountedKept DEF PrepareGoalInvocation
  <2>4. ASSUME NEW g \in Group, NEW newCaps \in CapSets, ResumeGoal(g, newCaps) PROVE AccountedInv'
    BY <2>1, <2>4, AccountedKept DEF ResumeGoal
  <2> QED
    BY <2>2, <2>3, <2>4, FinalizeAccounted, BudgetAssumption DEF BudgetNext, Budgeting
<1>3. Inv => AccountedOnce
  BY DEF AccountedInv
<1> QED
  BY <1>1, <1>2, <1>3, PTL DEF BudgetSpec

-----------------------------------------------------------------------------
(* Suspension and caps                                                      *)
(*                                                                          *)
(* An operator can move a suspended task back to todo, add a task to a      *)
(* goal, or limit a task by hand; the code lets him, and the goal is then   *)
(* worked on beyond its caps.  What follows is about goals that are left to *)
(* their budgets: workers, the reaper, forced ends, deletions, relations    *)
(* and gates are all there.                                                 *)

BudgetsKept ==
    /\ "budget-limited" \notin WorkerSets
    /\ Commands \cap {"join", "set", "retry", "defer", "audit"} = {}

\* The queue suspends no task by itself, and gives no goal a member to work on.
RestStep(x) ==
    /\ row'[x].status = "budget-limited" => row[x].status = "budget-limited"
    /\ row'[x].status \in {"todo", "doing"} =>
          \/ row[x].status \in {"todo", "doing"}
          \/ GroupOf[x] \in Group => goalStatus[GroupOf[x]] = "none"

\* A status update to something else than a suspension.
LEMMA UpdateRest ==
    ASSUME TypeInv, NEW t \in Task, NEW s \in Status \ {"budget-limited"}, NEW staged,
           ApplyStatusAndStage(t, s, staged), NEW x \in Task,
           s \in Terminal \/ row[t].status = "doing"
    PROVE  RestStep(x)
<1>1. now \in Nat /\ row[t] \in Row
  BY DEF TypeInv, TypeOK
<1>2. row'[x] = IF x = t THEN SetStatus(row[t], s, now) ELSE row[x]
  BY DEF ApplyStatusAndStage, UpdateTask, TypeInv, TypeOK
<1>3. SetStatus(row[t], s, now).status = s
  BY <1>1, SetStatusType
<1> QED
  BY <1>2, <1>3 DEF RestStep, Terminal

\* A claim takes up a task that was to do.
LEMMA ClaimRest ==
    ASSUME TypeInv, NEW t \in Task, NEW w, NEW ttl, row[t].status = "todo", Claim(t, w, ttl),
           NEW x \in Task
    PROVE  RestStep(x)
<1>0. row \in [Task -> Row]
  BY DEF TypeInv, TypeOK
<1>1. x # t => row'[x] = row[x]
  BY <1>0 DEF Claim
<1>2. row'[t].status = "doing"
  BY <1>0 DEF Claim, Row
<1> QED
  BY <1>1, <1>2 DEF RestStep

\* The status of a task outlives the renewal of its lease.
LEMMA HeartbeatRest ==
    ASSUME TypeInv, NEW t \in Task, NEW w, NEW ttl, Heartbeat(t, w, ttl), NEW x \in Task
    PROVE  RestStep(x)
<1>1. row \in [Task -> Row]
  BY DEF TypeInv, TypeOK
<1>2. row'[x].status = row[x].status
  BY <1>1 DEF Heartbeat, Row
<1> QED
  BY <1>2 DEF RestStep

\* Every step of the queue is of that kind where budgets are kept.
LEMMA NextRest ==
    ASSUME BudgetsKept, TypeInv, [Next]_vars, NEW x \in Task
    PROVE  RestStep(x)
<1>0. /\ row = [t \in Task |-> row[t]] /\ \A t \in Task : row[t] \in Row
      /\ attempts = [t \in Task |-> attempts[t]]
  BY DEF TypeInv, TypeOK
<1>1. ASSUME UNCHANGED row PROVE RestStep(x)
  BY <1>1 DEF RestStep
<1>2. CASE Adding
  <2>1. ASSUME NEW t \in Task, NEW a, MayJoin(t), InsertTask(t, a) PROVE RestStep(x)
    <3>1. GroupOf[t] \notin Group
      BY <2>1, QueueAssumption DEF MayJoin, BudgetsKept
    <3>2. row'[x].status = IF x = t THEN "todo" ELSE row[x].status
      BY <1>0, <2>1 DEF InsertTask, NewRow
    <3> QED
      BY <3>1, <3>2 DEF RestStep
  <2>2. ASSUME NEW g \in Group, NEW chain \in GoalChains(g), CreateGoal(g, chain)
        PROVE  RestStep(x)
    <3> DEFINE Member(t) == \E i \in DOMAIN chain : chain[i] = t
    <3>1. ~Member(x) => row'[x] = row[x]
      BY <2>2 DEF CreateGoal
    <3>2. Member(x) => GroupOf[x] = g /\ row'[x].status = "todo"
      BY <2>2, ChainPlaces, ChainRelation
    <3>3. goalStatus[g] = "none"
      BY <2>2 DEF CreateGoal
    <3> HIDE DEF Member
    <3> QED
      BY <3>1, <3>2, <3>3 DEF RestStep
  <2> QED
    BY <1>2, <2>1, <2>2 DEF Adding, Add, AddBlockedBy
<1>3. CASE Working
  <2>1. ASSUME NEW t \in Task, NEW w, NEW ttl, row[t].status = "todo", Claim(t, w, ttl)
        PROVE  RestStep(x)
    BY <2>1, ClaimRest
  <2>2. ASSUME NEW t \in Task, NEW w, NEW ttl, Heartbeat(t, w, ttl) PROVE RestStep(x)
    BY <2>2, HeartbeatRest
  <2>3. ASSUME NEW t \in Task, NEW s \in Status, NEW staged, NEW w \in Worker,
               SetByWorker(t, s, staged, w)
        PROVE  RestStep(x)
    BY <2>3, UpdateRest DEF SetByWorker, WorkerFence, BudgetsKept
  <2> QED
    BY <1>1, <1>3, <2>1, <2>2, <2>3 DEF Working, ClaimNext, ClaimTask, Ready, ReadyWith
<1>4. CASE Operating
  <2>1. ASSUME NEW t \in Task, Delete(t) PROVE RestStep(x)
    <3>1. row'[x].status = IF x = t THEN "removed" ELSE row[x].status
      BY <1>0, <2>1 DEF Delete, AbsentRow
    <3> QED
      BY <3>1 DEF RestStep
  <2>2. ASSUME NEW s \in Status, PruneStatus(s) PROVE RestStep(x)
    BY <2>2 DEF PruneStatus, AbsentRow, RestStep
  <2>3. ASSUME NEW t \in Task, NEW s \in Status, NEW staged, SetForced(t, s, staged)
        PROVE  RestStep(x)
    BY <2>3, UpdateRest DEF SetForced, Terminal
  <2> QED
    BY <1>1, <1>4, <2>1, <2>2, <2>3
       DEF Operating, Arranging, SetUnfenced, AuditDisapproves, RetryManual, RetryDeferred,
           AddRelation, AddGate, SatisfyGate, BudgetsKept
<1>5. CASE Reaping
  <2>1. ASSUME NEW r \in Reaper, NEW t \in Task, ReaperRequeue(r, t) PROVE RestStep(x)
    <3>1. row[t].status = "doing"
      BY <2>1 DEF ReaperRequeue, StillStale
    <3>2. row'[x].status = IF x = t THEN "todo" ELSE row[x].status
      BY <1>0, <2>1, EndedFields DEF ReaperRequeue
    <3> QED
      BY <3>1, <3>2 DEF RestStep
  <2> QED
    BY <1>1, <1>5, <2>1
       DEF Reaping, ReaperStep, ReaperScan, ReaperSkip, ReaperFail, ReaperKill
<1>6. CASE Tick \/ UNCHANGED vars
  BY <1>1, <1>6 DEF Tick, vars
<1> QED
  BY <1>2, <1>3, <1>4, <1>5, <1>6 DEF Next

\* A goal, once created, keeps its row.
LEMMA GoalsStay ==
    ASSUME goalStatus \in [Group -> GoalStatus], [Next]_vars,
           NEW g \in Group, goalStatus[g] # "none"
    PROVE  goalStatus'[g] # "none"
<1>1. ASSUME NEW t, NEW fallback \in {"complete", "failed"},
             goalStatus' = RefreshGoalStatus(row', t, fallback)
      PROVE  goalStatus'[g] # "none"
  BY <1>1, NeverNone DEF RefreshGoalStatus
<1>2. CASE UNCHANGED goalStatus
  BY <1>2
<1>3. CASE Adding
  BY <1>2, <1>3 DEF Adding, Add, AddBlockedBy, CreateGoal
<1>4. CASE Working
  BY <1>1, <1>2, <1>4
     DEF Working, ClaimNext, ClaimTask, Claim, Heartbeat, SetByWorker, ApplyStatusAndStage, UpdateTask
<1>5. CASE Operating
  BY <1>1, <1>2, <1>5
     DEF Operating, Arranging, SetUnfenced, SetForced, AuditDisapproves, RetryManual,
         RetryDeferred, ApplyStatusAndStage, UpdateTask, Delete, PruneStatus, AddRelation,
         AddGate, SatisfyGate
<1>6. CASE Reaping
  BY <1>1, <1>2, <1>6
     DEF Reaping, ReaperStep, ReaperScan, ReaperRequeue, ReaperSkip, ReaperFail, ReaperKill
<1>7. CASE Tick \/ UNCHANGED vars
  BY <1>2, <1>7 DEF Tick, vars
<1> QED
  BY <1>3, <1>4, <1>5, <1>6, <1>7 DEF Next

\* A cap on iterations or tokens that the usage of a goal has reached.
CapReached(g) ==
    \/ caps[g].iterations > 0 /\ used[g].iterations >= caps[g].iterations
    \/ caps[g].tokens > 0 /\ used[g].tokens >= caps[g].tokens

\* A goal with a cap reached has been limited, and a limited goal rests.
RestInv ==
    /\ SuspensionIsWhole
    /\ \A g \in Group :
          /\ goalStatus[g] = "none" => reason[g] = "none"
          /\ caps[g].iterations > 0 => used[g].iterations <= caps[g].iterations
          /\ CapReached(g) => reason[g] # "none"

\* Steps of that kind leave it so.
LEMMA RestKept ==
    ASSUME RestInv, \A x \in Task : RestStep(x), UNCHANGED budgetVars,
           \A g \in Group : goalStatus'[g] = "none" => goalStatus[g] = "none"
    PROVE  RestInv'
<1>1. UNCHANGED <<caps, used, reason>>
  BY DEF budgetVars
<1>2. SuspensionIsWhole'
  BY <1>1 DEF RestInv, RestStep, SuspensionIsWhole, Members
<1>3. \A g \in Group : CapReached(g)' = CapReached(g)
  BY <1>1 DEF CapReached
<1> QED
  BY <1>1, <1>2, <1>3 DEF RestInv

\* Hence the steps of the queue do.
LEMMA RestNext ==
    ASSUME BudgetsKept, TypeInv, RestInv, [Next]_vars, UNCHANGED budgetVars
    PROVE  RestInv'
<1>1. goalStatus \in [Group -> GoalStatus]
  BY DEF TypeInv, TypeOK
<1>2. \A x \in Task : RestStep(x)
  BY NextRest
<1>3. \A g \in Group : goalStatus'[g] = "none" => goalStatus[g] = "none"
  BY <1>1, GoalsStay
<1> QED
  BY <1>2, <1>3, RestKept

\* A limit suspends every member that was to do or being worked on, and says why.
LEMMA LimitedRests ==
    ASSUME TypeInv, NEW g \in Group, NEW rows, NEW logs, NEW why \in Reason \ {"none"},
           reason \in [Group -> Reason], Midway(rows, logs), SuspensionIsWhole,
           \A x \in Task : rows[x].status = row[x].status \/ rows[x].status \in Terminal,
           LimitGoalTasks(g, rows, logs, why)
    PROVE  SuspensionIsWhole' /\ reason' = [reason EXCEPT ![g] = why]
<1>1. \A x \in Task : rows[x] \in Row
  BY DEF Midway
<1>2. \A x \in Task :
         row'[x].status = IF x \in Suspended(rows, g) THEN "budget-limited" ELSE rows[x].status
  BY <1>1, EndedFields DEF LimitGoalTasks, Status
<1>3. reason' = [reason EXCEPT ![g] = why]
  BY DEF LimitGoalTasks
<1> SUFFICES ASSUME NEW h \in Group, NEW x \in Task, GroupOf[x] = h
             PROVE  /\ row'[x].status = "budget-limited" => reason'[h] # "none"
                    /\ reason'[h] # "none" => row'[x].status \notin {"todo", "doing"}
  BY <1>3 DEF SuspensionIsWhole, Members
<1>4. /\ row[x].status = "budget-limited" => reason[h] # "none"
      /\ reason[h] # "none" => row[x].status \notin {"todo", "doing"}
  BY DEF SuspensionIsWhole, Members
<1>5. CASE h = g
  BY <1>2, <1>3, <1>5 DEF Suspended
<1>6. CASE h # g
  <2>1. x \notin Suspended(rows, g) /\ reason'[h] = reason[h]
    BY <1>3, <1>6 DEF Suspended
  <2> QED
    BY <1>2, <1>4, <2>1 DEF Terminal
<1> QED
  BY <1>5, <1>6

\* The check before the agent is started leaves it so.
LEMMA RestPrepare ==
    ASSUME TypeInv, BudgetTypes, RestInv, NEW t \in Task, PrepareGoalInvocation(t)
    PROVE  RestInv'
<1> DEFINE g == GroupOf[t]
<1>1. /\ g \in Group /\ caps' = caps /\ used' = used
      /\ reason \in [Group -> Reason] /\ SuspensionIsWhole
  BY DEF PrepareGoalInvocation, IsGoal, BudgetTypes, RestInv
<1>2. \A h \in Group : goalStatus'[h] = "none" => goalStatus[h] = "none"
  BY PrepareStep DEF Transaction
<1>3. \A h \in Group : CapReached(h)' = CapReached(h)
  BY <1>1 DEF CapReached
<1>4. CASE Overdue(t)
  <2>1. LimitGoalTasks(g, row, attempts, "max-duration")
    BY <1>4 DEF PrepareGoalInvocation
  <2>2. SuspensionIsWhole' /\ reason' = [reason EXCEPT ![g] = "max-duration"]
    BY <1>1, <2>1, MidwayNow, LimitedRests DEF Reason
  <2>3. goalStatus[g] # "none" /\ \A h \in Group \ {g} : reason'[h] = reason[h]
    BY <1>1, <2>2 DEF PrepareGoalInvocation, IsGoal
  <2>4. reason'[g] = "max-duration"
    BY <1>1, <2>2
  <2> QED
    BY <1>1, <1>2, <1>3, <2>2, <2>3, <2>4 DEF RestInv
<1>5. CASE ~Overdue(t)
  <2>1. UNCHANGED <<row, reason, goalStatus>>
    BY <1>5 DEF PrepareGoalInvocation
  <2>2. SuspensionIsWhole'
    BY <1>1, <2>1 DEF SuspensionIsWhole, Members
  <2> QED
    BY <1>1, <1>3, <2>1, <2>2 DEF RestInv
<1> QED
  BY <1>4, <1>5

\* A usage that leaves no reason to limit a goal has reached none of its caps.
LEMMA BelowCaps ==
    ASSUME BudgetTypes, NEW g \in Group, NEW report \in Nat \cup {Unavailable}, LimitAfter(g, report) = "none"
    PROVE  /\ caps[g].iterations > 0 => used[g].iterations + 1 < caps[g].iterations
           /\ caps[g].tokens > 0 => used[g].tokens + Tokens(report) < caps[g].tokens
<1> DEFINE usage == UsageAfter(g, report)
<1>1. /\ usage.tokens = used[g].tokens + Tokens(report) /\ usage.tokens \in Nat
      /\ usage.iterations = used[g].iterations + 1 /\ usage.iterations \in Nat
  BY UsageType
<1>2. caps[g].iterations \in Nat /\ caps[g].tokens \in Nat
  BY DEF BudgetTypes, Caps
<1>3. LimitReason(caps[g], usage, epoch[g], report) = "none"
  BY DEF LimitAfter
<1> HIDE DEF usage
<1>4. /\ caps[g].tokens > 0 => ~(usage.tokens >= caps[g].tokens)
      /\ caps[g].iterations > 0 => ~(usage.iterations >= caps[g].iterations)
  BY <1>3 DEF LimitReason
<1> QED
  BY <1>1, <1>2, <1>4

\* A finalization leaves it so: a member that is still being worked on means
\* that the goal has no reason to rest, and so is below its caps.
LEMMA RestFinalize ==
    ASSUME TypeInv, BudgetTypes, RestInv, NEW t \in Task, NEW i \in 1..MaxAttempts, NEW w,
           NEW s \in Terminal, NEW report \in Nat \cup {Unavailable}, FinalizeGoalInvocation(t, i, w, s, report)
    PROVE  RestInv'
<1> DEFINE g == GroupOf[t]
           ended == [row EXCEPT ![t] = MarkEnded(@, s)]
           logs == [attempts EXCEPT ![t] = AttemptsAfter(s, @, s)]
           why == LimitAfter(g, report)
<1>1. /\ g \in Group /\ caps' = caps /\ used' = [used EXCEPT ![g] = UsageAfter(g, report)]
      /\ reason \in [Group -> Reason] /\ SuspensionIsWhole
      /\ t \in Present /\ goalStatus[g] # "none" /\ row[t].status = "doing"
  BY DEF FinalizeGoalInvocation, IsGoal, MayFinalize, BudgetTypes, RestInv
<1>2. \A h \in Group : goalStatus'[h] = "none" => goalStatus[h] = "none"
  BY FinalizeStep DEF Transaction
<1>3. /\ Midway(ended, logs)
      /\ \A x \in Task : ended[x].status = IF x = t THEN s ELSE row[x].status
  <2>1. row[t] \in Row /\ row = [y \in Task |-> row[y]] /\ s \in Status
    BY DEF TypeInv, TypeOK, Terminal, Status
  <2>2. MarkEnded(row[t], s).status = s
    BY <2>1, EndedFields
  <2>3. \A x \in Task : ended[x] = IF x = t THEN MarkEnded(row[t], s) ELSE row[x]
    BY <2>1
  <2>4. Midway(ended, logs)
    BY <1>1, MidwayEnded
  <2> HIDE DEF ended
  <2> QED
    BY <2>2, <2>3, <2>4
<1>4. reason[g] = "none"
  BY <1>1 DEF SuspensionIsWhole, Members
<1>5. /\ used'[g].tokens = used[g].tokens + Tokens(report)
      /\ used'[g].iterations = used[g].iterations + 1
      /\ \A h \in Group \ {g} : used'[h] = used[h]
      /\ used[g].iterations \in Nat /\ used[g].tokens \in Nat /\ Tokens(report) \in Nat
      /\ caps[g].iterations \in Nat /\ caps[g].tokens \in Nat
  BY <1>1, UsageType DEF BudgetTypes, Caps
<1>6. caps[g].iterations > 0 => used'[g].iterations <= caps[g].iterations
  <2>1. ~CapReached(g)
    BY <1>1, <1>4 DEF RestInv
  <2> QED
    BY <1>5, <2>1 DEF CapReached
<1>7. /\ SuspensionIsWhole' /\ reason'[g] = why
      /\ \A h \in Group \ {g} : reason'[h] = reason[h]
  <2>1. CASE why # "none"
    <3>1. LimitGoalTasks(g, ended, logs, why)
      BY <2>1 DEF FinalizeGoalInvocation
    <3>2. why \in Reason \ {"none"}
      BY <1>1, <2>1, UsageType
    <3> HIDE DEF ended, logs, why
    <3>3. SuspensionIsWhole' /\ reason' = [reason EXCEPT ![g] = why]
      BY <1>1, <1>3, <3>1, <3>2, LimitedRests
    <3> QED
      BY <1>1, <3>3
  <2>2. CASE why = "none"
    <3>1. row' = ended /\ reason' = reason
      BY <2>2 DEF FinalizeGoalInvocation
    <3>2. \A x \in Task : row'[x].status = IF x = t THEN s ELSE row[x].status
      BY <1>3, <3>1
    <3>3. SuspensionIsWhole'
      BY <1>1, <3>1, <3>2 DEF SuspensionIsWhole, Members, Terminal
    <3> QED
      BY <1>4, <2>2, <3>1, <3>3
  <2> QED
    BY <2>1, <2>2
<1>8. CapReached(g)' => why # "none"
  <2>1. CASE why = "none"
    <3>1. /\ caps[g].iterations > 0 => used[g].iterations + 1 < caps[g].iterations
          /\ caps[g].tokens > 0 => used[g].tokens + Tokens(report) < caps[g].tokens
      BY <1>1, <2>1, BelowCaps
    <3> QED
      BY <1>1, <1>5, <3>1 DEF CapReached
  <2> QED
    BY <2>1
<1>9. ASSUME NEW h \in Group
      PROVE  /\ goalStatus'[h] = "none" => reason'[h] = "none"
             /\ caps'[h].iterations > 0 => used'[h].iterations <= caps'[h].iterations
             /\ CapReached(h)' => reason'[h] # "none"
  <2> HIDE DEF why
  <2>1. CASE h = g
    BY <1>1, <1>2, <1>6, <1>7, <1>8, <2>1
  <2>2. CASE h # g
    <3>1. caps'[h] = caps[h] /\ used'[h] = used[h] /\ reason'[h] = reason[h]
      BY <1>1, <1>5, <1>7, <2>2
    <3> QED
      BY <1>2, <3>1 DEF RestInv, CapReached
  <2> QED
    BY <2>1, <2>2
<1> QED
  BY <1>7, <1>9 DEF RestInv

\* So does a resumption, which asks for caps beyond the usage.
LEMMA RestResume ==
    ASSUME TypeInv, BudgetTypes, RestInv, NEW g \in Group, NEW newCaps \in CapSets,
           ResumeGoal(g, newCaps)
    PROVE  RestInv'
<1>1. /\ SuspensionIsWhole /\ used' = used
      /\ caps' = [caps EXCEPT ![g] = newCaps] /\ reason' = [reason EXCEPT ![g] = "none"]
      /\ caps \in [Group -> Caps] /\ reason \in [Group -> Reason]
  BY DEF RestInv, BudgetTypes, ResumeGoal
<1>2. \A h \in Group : goalStatus'[h] = "none" => goalStatus[h] = "none"
  BY ResumeStep DEF Transaction
<1>3. \A x \in Task :
         row'[x].status = IF GroupOf[x] = g /\ row[x].status = "budget-limited"
                          THEN "todo" ELSE row[x].status
  <2>1. \A x \in Task : row[x] \in Row
    BY DEF TypeInv, TypeOK
  <2> QED
    BY <2>1, EndedFields DEF ResumeGoal
<1>4. SuspensionIsWhole'
  <2> SUFFICES ASSUME NEW h \in Group, NEW x \in Task, GroupOf[x] = h
               PROVE  /\ row'[x].status = "budget-limited" => reason'[h] # "none"
                      /\ reason'[h] # "none" => row'[x].status \notin {"todo", "doing"}
    BY DEF SuspensionIsWhole, Members
  <2>1. /\ row[x].status = "budget-limited" => reason[h] # "none"
        /\ reason[h] # "none" => row[x].status \notin {"todo", "doing"}
    BY <1>1 DEF SuspensionIsWhole, Members
  <2>2. reason'[h] = IF h = g THEN "none" ELSE reason[h]
    BY <1>1
  <2> QED
    BY <1>3, <2>1, <2>2
<1>5. ASSUME NEW h \in Group
      PROVE  /\ goalStatus'[h] = "none" => reason'[h] = "none"
             /\ caps'[h].iterations > 0 => used'[h].iterations <= caps'[h].iterations
             /\ CapReached(h)' => reason'[h] # "none"
  <2>1. CASE h = g
    <3>1. caps'[h] = newCaps /\ reason'[h] = "none"
      BY <1>1, <2>1
    <3>2. /\ newCaps.tokens \in Nat /\ newCaps.iterations \in Nat
          /\ used[h].tokens \in Nat /\ used[h].iterations \in Nat
      BY BudgetAssumption DEF Caps, BudgetTypes
    <3>3. /\ newCaps.tokens > 0 => newCaps.tokens > used[h].tokens
          /\ newCaps.iterations > 0 => newCaps.iterations > used[h].iterations
      BY <2>1 DEF ResumeGoal
    <3> QED
      BY <1>1, <3>1, <3>2, <3>3 DEF CapReached
  <2>2. CASE h # g
    <3>1. caps'[h] = caps[h] /\ used'[h] = used[h] /\ reason'[h] = reason[h]
      BY <1>1, <2>2
    <3> QED
      BY <1>2, <3>1 DEF RestInv, CapReached
  <2> QED
    BY <2>1, <2>2
<1> QED
  BY <1>4, <1>5 DEF RestInv

\* No goal is suspended in the beginning, and no cap is reached.
LEMMA RestInit == BudgetInit => RestInv
<1> SUFFICES ASSUME BudgetInit PROVE RestInv
  OBVIOUS
<1>1. SuspensionIsWhole
  BY DEF BudgetInit, Init, AbsentRow, SuspensionIsWhole, Members
<1>2. \A g \in Group : /\ caps[g].iterations \in Nat /\ caps[g].tokens \in Nat
                       /\ used[g].iterations = 0 /\ used[g].tokens = 0 /\ reason[g] = "none"
  BY BudgetAssumption DEF BudgetInit, Caps
<1> QED
  BY <1>1, <1>2 DEF RestInv, CapReached

\* Every reachable state of a queue whose goals are left to their budgets.
LEMMA RestInvariant ==
    ASSUME BudgetsKept
    PROVE  BudgetSpec => [](TypeInv /\ BudgetTypes /\ RestInv)
<1> DEFINE Inv == TypeInv /\ BudgetTypes /\ RestInv
<1>1. BudgetInit => Inv
  BY BudgetTypesInit, RestInit
<1>2. Inv /\ [BudgetNext]_<<vars, budgetVars>> => Inv'
  <2> SUFFICES ASSUME Inv, [BudgetNext]_<<vars, budgetVars>> PROVE RestInv'
    BY BudgetTypeStep
  <2>1. CASE [Next]_vars /\ UNCHANGED budgetVars
    BY <2>1, RestNext
  <2>2. CASE Budgeting
    BY <2>2, RestPrepare, RestFinalize, RestResume, BudgetAssumption DEF Budgeting
  <2> QED
    BY <2>1, <2>2 DEF BudgetNext
<1> QED
  BY <1>1, <1>2, PTL DEF BudgetSpec

\* A suspended member can be resumed, and a goal with a reason to rest rests:
\* no claim, requeue, finalization or late preparation gets a member back to work.
THEOREM SuspensionWhole ==
    ASSUME BudgetsKept
    PROVE  BudgetSpec => []SuspensionIsWhole
<1>1. TypeInv /\ BudgetTypes /\ RestInv => SuspensionIsWhole
  BY DEF RestInv
<1> QED
  BY <1>1, RestInvariant, PTL

\* However many workers are under way when a cap is reached, no iteration is
\* accounted beyond it, and no member is worked on until the goal is resumed.
THEOREM CapsAreHeld ==
    ASSUME BudgetsKept
    PROVE  BudgetSpec => []CapsHold
<1>1. TypeInv /\ BudgetTypes /\ RestInv => CapsHold
  BY DEF RestInv, CapReached, SuspensionIsWhole, CapsHold
<1> QED
  BY <1>1, RestInvariant, PTL

=============================================================================
