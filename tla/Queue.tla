------------------------------- MODULE Queue -------------------------------
(***************************************************************************)
(* The task queue of afk: the SQLite tables that every `afk` process       *)
(* shares, and the operations of internal/store and of the service above   *)
(* it that change them.  Each of them is one IMMEDIATE transaction, so     *)
(* each is one action here; the reaper alone works in several (it lists    *)
(* the stale rows, then requeues them one transaction at a time), so a     *)
(* reaper has a state of its own.                                          *)
(*                                                                         *)
(* Task ids are fresh UUIDs and are never reused: a task of the model goes *)
(* from "unborn" to a row, and a deleted row stays "removed".  Its         *)
(* priority, resource key and group are fixed when it is added, and so are *)
(* constants.  The event log, the wording of errors and notes and the      *)
(* stage labels themselves are left out.                                   *)
(***************************************************************************)
EXTENDS Tasks, FiniteSets, FiniteSetsExt

CONSTANTS
    Task, Gate, Group, NoGroup, Resource, NoResource,
    Reaper,         \* processes that run `afk reap`
    PriorityOf,     \* [Task -> priorities], as given to `afk add`
    ResourceOf,     \* [Task -> Resource \cup {NoResource}]
    GroupOf,        \* [Task -> Group \cup {NoGroup}]
    LeaseTimes,     \* durations a claim or heartbeat asks for; 0 is no lease
    StaleAges,      \* --older-than of the reaper
    AvailTimes,     \* --available-at of `afk add` and of a deferred retry
    WorkerSets,     \* statuses the workers pass to `afk set --worker`
    Commands,       \* what the operators of an instance do beside the workers
    MaxTime, MaxAttempts

PriorityRank == [urgent |-> 0, high |-> 1, normal |-> 2, low |-> 3]

\* "relates" stands for all the informational types, duplicates and parent too.
RelationType == {"blocks", "relates"}

AllCommands ==
    {"add", "join", "blocked-by", "goal", "relate", "gate", "satisfy", "set",
     "stage", "force", "retry", "defer", "delete", "prune", "kill", "interrupt", "audit"}

ASSUME QueueAssumption ==
    /\ PriorityOf \in [Task -> DOMAIN PriorityRank]
    /\ NoResource \notin Resource /\ ResourceOf \in [Task -> Resource \cup {NoResource}]
    /\ NoGroup \notin Group /\ GroupOf \in [Task -> Group \cup {NoGroup}]
    /\ LeaseTimes \subseteq Nat /\ StaleAges \subseteq Nat /\ AvailTimes \subseteq Nat
    /\ WorkerSets \subseteq Status /\ Commands \subseteq AllCommands
    /\ MaxTime \in Nat /\ MaxAttempts \in Nat

VARIABLES
    row,         \* the tasks table, one row per id
    attempts,    \* the task_attempts of each task, in insertion order
    relation,    \* task_dependencies: the type of each edge, or "none"
    gates,       \* task_gates of each task
    goalStatus,  \* the status column of goal_groups
    now,         \* the clock every process reads
    reaper       \* per reaper: the stale ids it still has to look at

vars == <<row, attempts, relation, gates, goalStatus, now, reaper>>

GoalStatus == {"none", "active", "complete", "budget-limited", "failed"}

Idle == [pending |-> {}, at |-> 0, cutoff |-> 0]

TypeOK ==
    /\ row \in [Task -> Row]
    /\ attempts \in [Task -> Seq(Attempt)]
    /\ relation \in [Task -> [Task -> RelationType \cup {"none"}]]
    /\ gates \in [Task -> [Gate -> {"none", "unmet", "satisfied"}]]
    /\ goalStatus \in [Group -> GoalStatus]
    /\ now \in Nat \ {0}
    /\ reaper \in [Reaper -> [pending : SUBSET Task, at : Nat, cutoff : Nat]]

AbsentRow(s, ordinal) ==
    [status |-> s, started |-> 0, lease |-> 0, avail |-> 0, ordinal |-> ordinal]

Init ==
    /\ row = [t \in Task |-> AbsentRow("unborn", 0)]
    /\ attempts = [t \in Task |-> <<>>]
    /\ relation = [t \in Task |-> [u \in Task |-> "none"]]
    /\ gates = [t \in Task |-> [g \in Gate |-> "none"]]
    /\ goalStatus = [g \in Group |-> "none"]
    /\ now = 1
    /\ reaper = [r \in Reaper |-> Idle]

-----------------------------------------------------------------------------
(* Reading the tables                                                       *)

Present == {t \in Task : row[t].status \in Status}
HasStatus(s) == {t \in Task : row[t].status = s}
Owner(t) == ActiveAttemptOwner(attempts[t])

Prerequisites(t) == {u \in Task : relation[t][u] = "blocks"}

SharesResource(t, u) ==
    /\ t # u
    /\ ResourceOf[t] = ResourceOf[u]
    /\ ResourceOf[t] # NoResource

\* Bugs the invariants below would catch: the resource is not looked at, every
\* relation blocks, a task that ended in any way lets its dependents run.
ReadyIgnoringResource(t, itsGates) ==
    /\ row[t].status = "todo"
    /\ row[t].avail <= now
    /\ \A u \in Prerequisites(t) : row[u].status = "done"
    /\ \A g \in Gate : itsGates[g] # "unmet"

ReadyIfAllRelatedDone(t, itsGates) ==
    /\ ReadyIgnoringResource(t, itsGates)
    /\ \A u \in Task : relation[t][u] # "none" => row[u].status = "done"

ReadyIfPrerequisitesEnded(t, itsGates) ==
    /\ row[t].status = "todo"
    /\ \A u \in Prerequisites(t) : row[u].status \notin {"todo", "doing"}
    /\ \A g \in Gate : itsGates[g] # "unmet"

\* readyWhereSQL, with the gates a claim may have satisfied before it asks.
ReadyWith(t, itsGates) ==
    /\ row[t].status = "todo"
    /\ row[t].avail <= now
    /\ \A u \in Prerequisites(t) : row[u].status = "done"
    /\ ~\E u \in HasStatus("doing") : SharesResource(t, u)
    /\ \A g \in Gate : itsGates[g] # "unmet"

Ready(t) == ReadyWith(t, gates[t])

SchedulesBefore(t, u) ==
    LET p == PriorityRank[PriorityOf[t]]
        q == PriorityRank[PriorityOf[u]]
    IN  p < q \/ (p = q /\ row[t].ordinal < row[u].ordinal)

\* A bug the scheduling order would suffer from: deletions make it repeat one.
NextOrdinalByCount == 1 + Cardinality(Present)

NextOrdinal == 1 + Max({0} \cup {row[t].ordinal : t \in Present})

\* Every relation counts here, not only "blocks": `to` is in every set that
\* holds what `from` relates to and is closed under relations.
DependencyPathExists(from, to) ==
    LET Related(t) == {u \in Task : relation[t][u] # "none"}
    IN  \A C \in SUBSET Task :
            Related(from) \subseteq C /\ (\A t \in C : Related(t) \subseteq C) => to \in C

\* A bug the goal invariant would catch: a suspended member hides active ones.
GoalStatusLimitedFirst(rows, g, fallback) ==
    LET Some(S) == \E t \in Task : GroupOf[t] = g /\ rows[t].status \in S
    IN  CASE Some({"budget-limited"}) -> "budget-limited"
          [] ~Some({"budget-limited"}) /\ Some({"todo", "doing"}) -> "active"
          [] ~Some({"todo", "doing", "budget-limited"}) /\ Some({"failed", "deleted"}) -> "failed"
          [] OTHER -> fallback

\* The status of a group's row, from its members; the fallback is for a group
\* with nothing active, suspended or failed.
GoalStatusOf(rows, g, fallback) ==
    LET Some(S) == \E t \in Task : GroupOf[t] = g /\ rows[t].status \in S
    IN  CASE Some({"todo", "doing"}) -> "active"
          [] ~Some({"todo", "doing"}) /\ Some({"budget-limited"}) -> "budget-limited"
          [] ~Some({"todo", "doing", "budget-limited"}) /\ Some({"failed", "deleted"}) -> "failed"
          [] OTHER -> fallback

\* Only a group that has a row is refreshed.
RefreshGoalStatus(rows, t, fallback) ==
    [g \in Group |-> IF g = GroupOf[t] /\ goalStatus[g] # "none"
                     THEN GoalStatusOf(rows, g, fallback) ELSE goalStatus[g]]

LeaseFrom(ttl) == IF ttl = 0 THEN 0 ELSE now + ttl

-----------------------------------------------------------------------------
(* Adding tasks                                                             *)

NewRow(avail, ordinal) ==
    [status |-> "todo", started |-> 0, lease |-> 0, avail |-> avail, ordinal |-> ordinal]

InsertTask(t, avail) == row' = [row EXCEPT ![t] = NewRow(avail, NextOrdinal)]

\* With --group for a task that has a group; its goal's status is not refreshed.
MayJoin(t) == GroupOf[t] = NoGroup \/ "join" \in Commands

\* `afk add`
Add(t, avail) ==
    /\ "add" \in Commands /\ MayJoin(t)
    /\ row[t].status = "unborn"
    /\ InsertTask(t, avail)
    /\ UNCHANGED <<attempts, relation, gates, goalStatus, now, reaper>>

\* `afk add --blocked-by`: the prerequisite must exist; nothing depends on a
\* fresh id, so the cycle check of addDependencyInTx never finds one.
AddBlockedBy(t, u, avail) ==
    /\ "blocked-by" \in Commands /\ MayJoin(t)
    /\ row[t].status = "unborn"
    /\ u \in Present
    /\ InsertTask(t, avail)
    /\ relation' = [relation EXCEPT ![t][u] = "blocks"]
    /\ UNCHANGED <<attempts, gates, goalStatus, now, reaper>>

\* The member lists a contract for goal g may have.
GoalChains(g) ==
    LET fresh == {t \in HasStatus("unborn") : GroupOf[t] = g}
    IN  {c \in UNION {[1..n -> fresh] : n \in 1..Cardinality(fresh)} :
            \A i, j \in DOMAIN c : c[i] = c[j] => i = j}

\* `afk goal`: the group and its members, each blocked by the one before.
CreateGoal(g, chain) ==
    LET At(t) == CHOOSE i \in DOMAIN chain : chain[i] = t
        Member(t) == \E i \in DOMAIN chain : chain[i] = t
    IN  /\ "goal" \in Commands
        /\ goalStatus[g] = "none"
        /\ \A t \in Present : GroupOf[t] # g    \* a goal's id is fresh, too
        /\ row' = [t \in Task |->
                     IF Member(t) THEN NewRow(0, NextOrdinal + At(t) - 1) ELSE row[t]]
        /\ relation' = [t \in Task |-> [u \in Task |->
                     IF Member(t) /\ Member(u) /\ At(t) = At(u) + 1
                     THEN "blocks" ELSE relation[t][u]]]
        /\ goalStatus' = [goalStatus EXCEPT ![g] = "active"]
        /\ UNCHANGED <<attempts, gates, now, reaper>>

-----------------------------------------------------------------------------
(* Claims                                                                   *)

\* TLC's bound on the length of a task's attempt list.
WithinAttempts(t) == Len(attempts'[t]) <= MaxAttempts

\* What ClaimNextForWorker and ClaimTaskForWorker do to a ready task.
Claim(t, w, ttl) ==
    /\ row' = [row EXCEPT ![t].status = "doing", ![t].started = now,
                          ![t].lease = LeaseFrom(ttl)]
    /\ attempts' = [attempts EXCEPT ![t] = OpenAttempt(@, w)]
    /\ WithinAttempts(t)
    /\ goalStatus' = RefreshGoalStatus(row', t, "complete")

\* `afk take` and the loop: the first ready task in scheduler order.
ClaimNext(t, w, ttl) ==
    /\ Ready(t)
    /\ \A u \in Task \ {t} : Ready(u) => SchedulesBefore(t, u)
    /\ Claim(t, w, ttl)
    /\ UNCHANGED <<relation, gates, now, reaper>>

SatisfiedBy(itsGates, approved) ==
    [g \in Gate |-> IF g \in approved /\ itsGates[g] = "unmet"
                    THEN "satisfied" ELSE itsGates[g]]

\* A bug the gate invariant would catch: a refused claim commits its gates.
ClaimTaskCommittingRefusal(t, w, ttl, approved) ==
    LET itsGates == SatisfiedBy(gates[t], approved)
    IN  /\ gates' = [gates EXCEPT ![t] = itsGates]
        /\ IF ReadyWith(t, itsGates) THEN Claim(t, w, ttl)
           ELSE UNCHANGED <<row, attempts, goalStatus>>
        /\ UNCHANGED <<relation, now, reaper>>

\* `afk take --task`: a claim that leaves the task blocked is rolled back with
\* the gates it satisfied; one its owner repeats commits the gates only.
ClaimTask(t, w, ttl, approved) ==
    LET itsGates == SatisfiedBy(gates[t], approved)
    IN  /\ gates' = [gates EXCEPT ![t] = itsGates]
        /\ \/ /\ ReadyWith(t, itsGates)
              /\ Claim(t, w, ttl)
           \/ /\ row[t].status = "doing"
              /\ OpenAttempts(attempts[t]) # {} /\ Owner(t) = w
              /\ UNCHANGED <<row, attempts, goalStatus>>
        /\ UNCHANGED <<relation, now, reaper>>

\* An expired lease is no obstacle: only the reaper ends a claim for it.
Heartbeat(t, w, ttl) ==
    /\ row[t].status = "doing"
    /\ OpenAttempts(attempts[t]) # {} /\ Owner(t) = w
    /\ row' = [row EXCEPT ![t].lease = LeaseFrom(ttl)]
    /\ UNCHANGED <<attempts, relation, gates, goalStatus, now, reaper>>

-----------------------------------------------------------------------------
(* Status changes                                                           *)

\* updateImpl, once the mutation has changed the row.
UpdateTask(t, newRow, event) ==
    /\ row' = [row EXCEPT ![t] = newRow]
    /\ attempts' = [attempts EXCEPT ![t] = AttemptsAfter(event, @, newRow.status)]
    /\ WithinAttempts(t)
    /\ goalStatus' = RefreshGoalStatus(row', t, "complete")
    /\ UNCHANGED <<relation, gates, now, reaper>>

\* Giving a stage counts as a change even if the status is the same.
ApplyStatusAndStage(t, s, staged) ==
    /\ s # row[t].status \/ staged
    /\ UpdateTask(t, SetStatus(row[t], s, now), EventForStatus(s))

Staged == IF "stage" \in Commands THEN BOOLEAN ELSE {FALSE}

\* A bug that would let a worker finish another's attempt: only the lease counts.
WorkerFenceByLease(t, w) ==
    /\ row[t].status \in Status
    /\ row[t].lease = 0 \/ row[t].lease > now

\* checkExplicitWorkerFence: a live lease, and the worker owns the attempt.
WorkerFence(t, w) ==
    /\ row[t].status = "doing"
    /\ row[t].lease = 0 \/ row[t].lease > now
    /\ Owner(t) = w

\* `afk set --worker`, with --force or not.
SetByWorker(t, s, staged, w) ==
    /\ s \in WorkerSets
    /\ WorkerFence(t, w)
    /\ ApplyStatusAndStage(t, s, staged)

\* `afk set` without a worker: finalizing needs an attempt nobody owns, other
\* statuses are not guarded at all.
SetUnfenced(t, s, staged) ==
    /\ "set" \in Commands
    /\ t \in Present
    /\ s \in Terminal /\ row[t].status = "doing" => Owner(t) = NoWorker
    /\ ApplyStatusAndStage(t, s, staged)

\* `afk set --force done` or `failed`
SetForced(t, s, staged) ==
    /\ "force" \in Commands
    /\ t \in Present /\ s \in Terminal
    /\ ApplyStatusAndStage(t, s, staged)

\* `afk retry`: nothing guards it, and a stale availability counts as a change.
RetryManual(t) ==
    /\ "retry" \in Commands
    /\ t \in Present
    /\ row[t].status # "doing" \/ row[t].avail # 0
    /\ UpdateTask(t, [SetStatus(row[t], "doing", now) EXCEPT !.avail = 0], "claimed")

\* `afk retry --disposition deferred --available-at`
RetryDeferred(t, avail) ==
    /\ "defer" \in Commands
    /\ t \in Present
    /\ avail > now
    /\ row[t].status # "todo" \/ row[t].avail # avail
    /\ UpdateTask(t, [SetStatus(row[t], "todo", now) EXCEPT !.avail = avail], "requeued")

\* `afk goal audit`: an auditor that disapproves, fails or times out sends the
\* task back to todo, whatever became of it while the auditor was at work.  The
\* objective it judges by is that of the task's goal, which must exist.
AuditDisapproves(t) ==
    /\ "audit" \in Commands
    /\ t \in Present
    /\ GroupOf[t] # NoGroup => goalStatus[GroupOf[t]] # "none"
    /\ ApplyStatusAndStage(t, "todo", FALSE)

-----------------------------------------------------------------------------
(* Physical deletion, relations and gates                                   *)

\* Attempts, relations and gates of a deleted row stay.
Delete(t) ==
    /\ "delete" \in Commands
    /\ t \in Present
    /\ row' = [row EXCEPT ![t] = AbsentRow("removed", @.ordinal)]
    /\ goalStatus' = RefreshGoalStatus(row', t, "failed")
    /\ UNCHANGED <<attempts, relation, gates, now, reaper>>

\* No goal is refreshed.
PruneStatus(s) ==
    /\ "prune" \in Commands
    /\ HasStatus(s) # {}
    /\ row' = [t \in Task |-> IF row[t].status = s
                              THEN AbsentRow("removed", row[t].ordinal) ELSE row[t]]
    /\ UNCHANGED <<attempts, relation, gates, goalStatus, now, reaper>>

\* A bug the acyclicity invariant would catch: only the reverse edge is looked for.
AddRelationCheckingOneEdge(t, u, type) ==
    /\ "relate" \in Commands
    /\ t # u /\ t \in Present /\ u \in Present
    /\ type = "blocks" => relation[u][t] = "none"
    /\ relation' = [relation EXCEPT ![t][u] = type]
    /\ UNCHANGED <<row, attempts, gates, goalStatus, now, reaper>>

\* `afk relate`: an existing edge is overwritten; only blocks are checked.
AddRelation(t, u, type) ==
    /\ "relate" \in Commands
    /\ t # u /\ t \in Present /\ u \in Present
    /\ type = "blocks" => ~DependencyPathExists(u, t)
    /\ relation' = [relation EXCEPT ![t][u] = type]
    /\ UNCHANGED <<row, attempts, gates, goalStatus, now, reaper>>

\* The task may have been deleted: AddGate does not look.
AddGate(t, g) ==
    /\ "gate" \in Commands
    /\ row[t].status # "unborn"
    /\ gates[t][g] = "none"
    /\ gates' = [gates EXCEPT ![t][g] = "unmet"]
    /\ UNCHANGED <<row, attempts, relation, goalStatus, now, reaper>>

SatisfyGate(t, g) ==
    /\ "satisfy" \in Commands
    /\ gates[t][g] # "none"
    /\ gates' = [gates EXCEPT ![t][g] = "satisfied"]
    /\ UNCHANGED <<row, attempts, relation, goalStatus, now, reaper>>

-----------------------------------------------------------------------------
(* The reaper                                                               *)

\* Bugs the ledger and the recovery property would catch: the listing is
\* trusted, leases are ignored.
StillDoing(r, at, cutoff) == r.status = "doing" /\ cutoff <= at

StaleByAge(r, at, cutoff) ==
    r.status = "doing" /\ r.started # 0 /\ r.started <= cutoff /\ cutoff <= at

\* taskStillStale: the lease decides if there is one, else the start time.
StillStale(r, at, cutoff) ==
    /\ r.status = "doing"
    /\ IF r.lease # 0 THEN r.lease <= at
       ELSE r.started # 0 /\ r.started <= cutoff

\* RequeueStale lists the stale rows; a listing without rows does nothing.
ReaperScan(r, age) ==
    LET cutoff == IF age < now THEN now - age ELSE 0
        stale == {t \in Task : StillStale(row[t], now, cutoff)}
    IN  /\ reaper[r] = Idle
        /\ stale # {}
        /\ reaper' = [reaper EXCEPT ![r] = [pending |-> stale, at |-> now, cutoff |-> cutoff]]
        /\ UNCHANGED <<row, attempts, relation, gates, goalStatus, now>>

\* The listed ids are taken in ordinal order, which a deletion does not change.
NextPending(r, t) ==
    /\ t \in reaper[r].pending
    /\ \A u \in reaper[r].pending : row[t].ordinal <= row[u].ordinal

Without(job, t) == IF job.pending = {t} THEN Idle ELSE [job EXCEPT !.pending = @ \ {t}]

\* A bug the type invariant would catch: the attempt gets the prior status.
ReaperRequeuePrior(r, t) ==
    /\ NextPending(r, t)
    /\ StillStale(row[t], reaper[r].at, reaper[r].cutoff)
    /\ row' = [row EXCEPT ![t] = Reset(@)]
    /\ attempts' = [attempts EXCEPT ![t] = AttemptsAfter("requeued", @, row[t].status)]
    /\ goalStatus' = RefreshGoalStatus(row', t, "complete")
    /\ reaper' = [reaper EXCEPT ![r] = Without(@, t)]
    /\ UNCHANGED <<relation, gates, now>>

\* requeueIfStillStale, by the clock and the cutoff of the listing.
ReaperRequeue(r, t) ==
    /\ NextPending(r, t)
    /\ StillStale(row[t], reaper[r].at, reaper[r].cutoff)
    /\ row' = [row EXCEPT ![t] = Reset(@)]
    /\ attempts' = [attempts EXCEPT ![t] = AttemptsAfter("requeued", @, "todo")]
    /\ goalStatus' = RefreshGoalStatus(row', t, "complete")
    /\ reaper' = [reaper EXCEPT ![r] = Without(@, t)]
    /\ UNCHANGED <<relation, gates, now>>

ReaperSkip(r, t) ==
    /\ NextPending(r, t)
    /\ t \in Present
    /\ ~StillStale(row[t], reaper[r].at, reaper[r].cutoff)
    /\ reaper' = [reaper EXCEPT ![r] = Without(@, t)]
    /\ UNCHANGED <<row, attempts, relation, gates, goalStatus, now>>

\* A row deleted since the listing is an error, and ends the whole run.
ReaperFail(r, t) ==
    /\ NextPending(r, t)
    /\ t \notin Present
    /\ reaper' = [reaper EXCEPT ![r] = Idle]
    /\ UNCHANGED <<row, attempts, relation, gates, goalStatus, now>>

\* The process is killed, or its context cancelled, between two transactions.
ReaperKill(r) ==
    /\ "kill" \in Commands
    /\ reaper[r] # Idle
    /\ reaper' = [reaper EXCEPT ![r] = Idle]
    /\ UNCHANGED <<row, attempts, relation, gates, goalStatus, now>>

ReaperStep(r) ==
    \E t \in Task : ReaperRequeue(r, t) \/ ReaperSkip(r, t) \/ ReaperFail(r, t)

-----------------------------------------------------------------------------
Tick ==
    /\ now < MaxTime
    /\ now' = now + 1
    /\ UNCHANGED <<row, attempts, relation, gates, goalStatus, reaper>>

Adding ==
    \/ \E t \in Task, a \in AvailTimes : Add(t, a)
    \/ \E t, u \in Task, a \in AvailTimes : AddBlockedBy(t, u, a)
    \/ \E g \in Group : \E chain \in GoalChains(g) : CreateGoal(g, chain)

Working ==
    \/ \E t \in Task, w \in Worker, ttl \in LeaseTimes : ClaimNext(t, w, ttl)
    \/ \E t \in Task, w \in Worker, ttl \in LeaseTimes, approved \in SUBSET Gate :
          ClaimTask(t, w, ttl, approved)
    \/ \E t \in Task, w \in Worker, ttl \in LeaseTimes : Heartbeat(t, w, ttl)
    \/ \E t \in Task, s \in Status, staged \in Staged, w \in Worker :
          SetByWorker(t, s, staged, w)

\* What is done to the tables around the work, and opens or closes no attempt.
Arranging ==
    /\ UNCHANGED <<attempts, now, reaper>>
    /\ \/ \E t \in Task : Delete(t)
       \/ \E s \in Status : PruneStatus(s)
       \/ \E t, u \in Task, type \in RelationType : AddRelation(t, u, type)
       \/ \E t \in Task, g \in Gate : AddGate(t, g)
       \/ \E t \in Task, g \in Gate : SatisfyGate(t, g)

Operating ==
    \/ \E t \in Task, s \in Status, staged \in Staged : SetUnfenced(t, s, staged)
    \/ \E t \in Task, s \in Status, staged \in Staged : SetForced(t, s, staged)
    \/ \E t \in Task : AuditDisapproves(t)
    \/ \E t \in Task : RetryManual(t)
    \/ \E t \in Task, a \in AvailTimes : RetryDeferred(t, a)
    \/ Arranging

Reaping ==
    \/ \E r \in Reaper, age \in StaleAges : ReaperScan(r, age)
    \/ \E r \in Reaper : ReaperStep(r)
    \/ \E r \in Reaper : ReaperKill(r)

Next == Adding \/ Working \/ Operating \/ Reaping \/ Tick

Spec == Init /\ [][Next]_vars

\* `afk reap` is driven by cron (commands/root.go:52), and a run that is not
\* killed goes on to its end.
FairReaping ==
    \A r \in Reaper :
        /\ WF_vars(\E age \in StaleAges : ReaperScan(r, age))
        /\ WF_vars(ReaperStep(r))

-----------------------------------------------------------------------------
(* Exclusion                                                                *)

\* The resource lock of readyWhereSQL, as its readers understand it: of the
\* tasks that share a resource key, at most one is being worked on.
ResourceExclusive ==
    \A t, u \in HasStatus("doing") : ~SharesResource(t, u)

\* What remains of it when operators move tasks to doing by hand, by set or
\* by retry: two workers never hold the same resource by claims of theirs.
ClaimsExclusive ==
    \A t, u \in HasStatus("doing") :
        SharesResource(t, u) => Owner(t) = NoWorker \/ Owner(u) = NoWorker

\* A doing task has an open attempt, its last one, so that heartbeat and fence
\* find an owner to compare with; and it has a start time or a lease, so that
\* the reaper can find it stale one day.  No other task has a lease.
DoingIsOwnedAndReclaimable ==
    \A t \in Task :
        /\ row[t].status = "doing" =>
              /\ Len(attempts[t]) \in OpenAttempts(attempts[t])
              /\ row[t].started # 0
        /\ row[t].lease # 0 => row[t].status = "doing"

-----------------------------------------------------------------------------
(* Scheduling                                                               *)

\* No set of tasks blocks itself: each has a member that waits for none of the
\* others.  This is what the cycle check of relate and --blocked-by is for.
BlocksAcyclic ==
    \A S \in (SUBSET Task) \ {{}} : \E t \in S : Prerequisites(t) \cap S = {}

\* When nothing is being worked on and nothing is ready, a queue with tasks to
\* do is stuck for a reason its operator can see and change: one of them waits
\* for its time, for a gate, or for a task that is neither to do nor done.
StuckIsExplained ==
    /\ HasStatus("todo") # {} /\ HasStatus("doing") = {}
    /\ \A t \in Task : ~Ready(t)
    => \E t \in HasStatus("todo") :
          \/ row[t].avail > now
          \/ \E g \in Gate : gates[t][g] = "unmet"
          \/ \E u \in Prerequisites(t) : row[u].status \notin {"todo", "done"}

\* Ordinals order the rows of a priority totally, whatever was deleted.
OrdinalsDistinct ==
    \A t, u \in Present : row[t].ordinal = row[u].ordinal => t = u

\* Where only workers change statuses, a task that was ever claimed has all its
\* prerequisites done, and they stay done, unless their rows were deleted since:
\* a chain runs in its order.
DependentsWait ==
    \A t \in Task : attempts[t] # <<>> =>
        Prerequisites(t) \subseteq HasStatus("done") \cup HasStatus("removed")

\* Where gates are satisfied by explicit claims only, a refused claim opens no
\* gate: a task with a satisfied gate has been claimed.
GatesOpenWithClaims ==
    \A t \in Task : (\E g \in Gate : gates[t][g] = "satisfied") => attempts[t] # <<>>

\* Where groups get their members from the goal and rows are not pruned, the
\* status of a goal is what its members' rows say at every moment.
GoalStatusAgrees ==
    LET Members(g, S) == {t \in Task : GroupOf[t] = g /\ row[t].status \in S}
    IN  \A g \in Group : goalStatus[g] # "none" =>
          /\ goalStatus[g] = "active" <=> Members(g, {"todo", "doing"}) # {}
          /\ goalStatus[g] = "complete" => Members(g, Status) \subseteq HasStatus("done")
          /\ goalStatus[g] = "budget-limited" => Members(g, {"budget-limited"}) # {}

-----------------------------------------------------------------------------
(* Attempt history                                                          *)

\* History is never rewritten: attempts are only appended, a closed one never
\* changes, and an open one keeps the worker who claimed it.
AttemptHistory ==
    [][\A t \in Task : \A i \in DOMAIN attempts[t] :
          /\ i \in DOMAIN attempts'[t]
          /\ attempts'[t][i].worker = attempts[t][i].worker
          /\ attempts[t][i].outcome # "open" => attempts'[t][i] = attempts[t][i]]_vars

\* docs/workers.md:44 and docs/command-reference.md:381: a terminal transition
\* closes the open attempt, so a task that is done or failed has none.
TerminalClosesAttempts ==
    \A t \in Task : row[t].status \in Terminal => OpenAttempts(attempts[t]) = {}

\* docs/command-reference.md:131: a stage is a label independent of execution
\* state; so giving one never takes a running task from its worker.
StageKeepsOwner ==
    [][\A t \in Task : row[t].status = "doing" /\ row'[t].status = "doing"
                       => Owner(t)' = Owner(t)]_vars

-----------------------------------------------------------------------------
(* Recovery                                                                 *)

Expired(t) == row[t].status = "doing" /\ row[t].lease # 0 /\ row[t].lease <= now

\* A claim whose lease has run out is renewed, finished or requeued in the end.
ExpiredClaimsRecover == \A t \in Task : Expired(t) ~> ~Expired(t)

=============================================================================
