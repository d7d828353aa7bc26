# A TLA+ development of afk

`afk` is a command-line task queue that autonomous workers share through one
SQLite file. There is no daemon: every `afk` command, every worker's `afk loop`
and every `afk reap` started by cron is a process of its own that opens the
database, runs a few transactions and leaves. What makes the program correct is
therefore what survives any interleaving of those transactions, with workers
that die, come back late or are overruled by an operator.

## The system

| Component | Its state | Its operations | Where |
|---|---|---|---|
| Tasks and attempts | `tasks`, `task_attempts` | status changes, and the attempt each opens or closes | `internal/task`, `store/sqlite_scan.go` |
| Claims | status, lease and open attempt of a task | claim the next ready task, claim a given one, heartbeat | `store/sqlite_claim.go` |
| Reaper | the stale ids it listed, its clock and cutoff | list stale rows; requeue them one by one | `store/sqlite_claim.go` |
| Status changes | the same rows | `set`, `--worker`, `--force`, `--stage`, `retry` | `app/service_lifecycle.go`, `store/sqlite_tasks.go` |
| Relations, gates | `task_dependencies`, `task_gates` | `relate`, `--blocked-by`, add and satisfy a gate | `store/sqlite_relations.go`, `store/sqlite_gates.go` |
| Goals | `goal_groups` | create with a chain of members, refresh of the derived status | `store/sqlite_goal.go` |
| Goal budgets | caps, usage, epoch and limit of a goal, `goal_iterations` | prepare, finalize, limit, resume | `store/sqlite_goal_budget.go`, `sqlite_goal_resume.go` |
| Loop runner | one agent process, its heartbeat goroutine and lease watch | claim, run, renew, finalize, stop | `app/loop.go`, `app/loop_exec.go` |
| Request ledger | `request_ledger` | add and set with a request id, replay by actor and id | `store/sqlite_requests.go` |
| Validation | the rules of `validation.yaml` | ask before an add and after a claim | `task/validation.go`, `commands/queue_ops.go` |
| Vybe import | `vybe_imports`, provenance checkpoints | import an archive of the predecessor, once | `store/vybe_*.go` |
| Schema | the schema version, tables, columns, indexes, triggers | check, create, migrate, refuse a newer one | `store/sqlite_schema.go`, `sqlite_migrations*.go` |
| Views | none | report blocked tasks and stale claims | `app/service_blocked.go`, `task/diagnostics.go` |
| Goal audit | an auditor process | send a disapproved task back | `app/goal_audit.go` |
| Rejection sidecar | a JSONL file beside the database | append | `app/rejection.go` |

The rest of the repository reads and formats: listings, health, search, the
pages of the dashboard, prompts, flag parsing (`PROJECT.json` lists each part with its
status).

**How they interact.** Only through the database. Every write of `internal/store`
is one transaction begun with `_txlock=immediate`, so writes are serialized
and one transaction is one action here. What spans transactions is where the
interesting behaviours are: a reaper lists rows and then requeues them one
transaction at a time; a loop claims, prepares, runs, renews and finalizes, and
a goroutine of it renews beside the agent; the tasks of a goal are suspended by
the transaction of whichever worker reaches the cap. Nothing tells a worker that
its claim has ended. It finds out at its next heartbeat, by its own deadline,
or from the fence that its finalization has to pass. Likewise a client that lost
the answer to an `afk add` knows only its request id, `afk take` validates the
task after its claim is committed, and a process that opens the database reads
the version of the schema before the transaction that relies on it.

**What is hard.** Workers and reapers killed between any two transactions;
leases that run out while the worker is still there; a worker that reports late,
after its task was requeued, claimed by another or suspended; operators who set,
stage, retry and delete rows under a worker; a goal whose cap is reached while
several members are under way; a cached goal status; cycle checks over edges
whose type may be overwritten; ordinals given again after deletions; requests
repeated by several clients at once while the task of the first is changed or
deleted; archives that overlap with each other and with what was deleted; several
processes that create and migrate one file while a newer release upgrades it.

**What makes each component correct.**

- *Claims*: one worker holds a task at a time, one task of a resource is held at
  a time, a claim is settled once, by its worker before the lease runs out or by
  the reaper after it (`LedgerSpec`, `ResourceExclusive`, `ClaimsExclusive`).
- *Lifecycle*: a doing task has an owner to compare with and a time to become
  stale at (`DoingIsOwnedAndReclaimable`); history is not rewritten
  (`AttemptHistory`).
- *Reaper*: a lapsed claim does not stay for ever (`ExpiredClaimsRecover`), a
  renewed one is left alone (`LedgerSpec`).
- *Scheduling*: no blocking cycle, no stuck queue without a visible reason, a
  total order, prerequisites first, gates opened by successful claims
  (`BlocksAcyclic`, `StuckIsExplained`, `OrdinalsDistinct`, `DependentsWait`,
  `GatesOpenWithClaims`).
- *Goals*: the cached status agrees with the members (`GoalStatusAgrees`).
- *Budgets*: an iteration is accounted once and is one attempt, no cap is passed,
  a limit suspends everything and can be undone (`AccountedOnce`, `CapsHold`,
  `SuspensionIsWhole`).
- *Loops*: an attempt is finished by the invocation that claimed it; an agent
  without a claim is stopped (`FinishedByClaimant`, `OrphansStop`).
- *Requests*: a request acts once and all its answers agree (`RequestedOnce`),
  what it added is there as a whole (`ReceiptsHold`), and neither it nor a late
  validation fails a task a worker holds (`HeldIsNotFailed`).
- *Import*: an archive comes in whole, once, and never revives what was deleted
  (`ImportedWhole`, `DeletedForGood`); its report adds up (`Reconciled`); what
  was blocked waits for its gate (`BlockedStaysBlocked`).
- *Schema*: whoever opens the database finds all of the schema
  (`OpenIsComplete`), migrated once (`MigratesOnce`), with all its rows
  (`RowsKept`); a newer database is left alone (`NewerUntouched`); nobody waits
  for ever for one that was killed (`OpeningEnds`).
- *Views*: what is shown as stale is what the reaper requeues (`StaleIsReaped`).

## The modules

```
Tasks  <-  Queue  <-  GoalBudget  <-  Loop  <-  MCLoop
             ^            ^
             |            MCGoalBudget
             |-- QueueRefinement (INSTANCE ClaimLedger), Views  <-  MCQueue
             |-- Requests (INSTANCE ExactlyOnce)  <-  MCRequests
             |-- VybeImport  <-  MCVybeImport
Schema  <-  MCSchema

QueueProofs (Queue)  <-  SchedulingProofs (and Views)  <-  BudgetProofs (and GoalBudget)
     ^                                ^                            ^
     |                                |-- RequestProofs            LoopProofs (and Loop)
     LedgerProofs                     |      (and Requests)
        (and QueueRefinement)         ImportProofs (and VybeImport)
SchemaProofs (Schema)
```

- **Tasks**: the data (statuses, rows, attempts) and the pure functions over it:
  `Reset`, `MarkWorking`, `MarkEnded`, the lifecycle table `SetStatus`, and
  `AttemptsAfter`, what an event does to the attempts of a task.
- **Queue**: the shared tables and every operation on them. `row` is the tasks
  table (status, start, lease, availability, ordinal), `attempts` the attempts
  per task in insertion order, `relation` the typed edges, `gates`, `goalStatus`
  the cached column, `now` the clock, `reaper` the listing each reaper works on.
  Actions are named after the code's functions: `Add`, `AddBlockedBy`,
  `CreateGoal`, `ClaimNext`, `ClaimTask`, `Heartbeat`, `SetByWorker`,
  `SetUnfenced`, `SetForced`, `RetryManual`, `RetryDeferred`, `Delete`,
  `PruneStatus`, `AuditDisapproves`, `AddRelation`, `AddGate`, `SatisfyGate`, `ReaperScan`,
  `ReaperRequeue`, `ReaperSkip`, `ReaperFail`, `ReaperKill`.
- **ClaimLedger**: the abstract specification, what a worker may rely on.
  **QueueRefinement** maps the queue to it: each attempt is an entry of the
  ledger, its outcome the entry's fate, the lease the deadline.
- **GoalBudget**: the budget columns of a goal and `goal_iterations`, with
  `PrepareGoalInvocation`, `FinalizeGoalInvocation` (and what is a replay to
  it), `LimitGoalTasks` and `ResumeGoal`.
- **Loop**: one program counter per worker and the state of its goroutine. The
  database transactions of a loop are the actions of the modules below it.
- **Views**: `Blockers` and `DiagnosedStale`, what Go derives for `afk status`
  from the rows it reads, beside the SQL of claims and reaper.
- **Requests**: clients that repeat orders under a key (an actor with a request
  id). `Submit` is what happens before the transaction, `AddOnce` and `SetOnce`
  the transactions with their `Receipt`, `Replay` a repetition. `answers` is what
  clients were told; an answer may be lost, and a client killed
  (`EndsWithoutEffect`). Beside them `afk take`: `Take`, then `HandOut` or
  `AutoFail`, while `EditRules` changes what is valid. It composes with `Next` of
  the queue. **ExactlyOnce** is the abstract specification of a request id.
- **VybeImport**: the archives as records of their rows and announced counts,
  `WellFormed`, and `ImportArchive`, one transaction that adds all of an
  archive's tasks to the tables of the queue, its report and their provenance.
- **Schema**: independent of the queue, as it is about the file before there is
  one. `db` is what is committed, `work` what the writer's transaction has made
  of it; `CreateBaseSchema` and each migration are functions on such records, in
  the order of `Migration`, one statement to a step.
- **QueueProofs** (types and exclusion), **SchedulingProofs** (history, order,
  relations, gates, goals), **LedgerProofs** (the refinement of the ledger),
  **BudgetProofs**, **ImportProofs**, **RequestProofs** (with the refinement of
  `ExactlyOnce`), **LoopProofs**, **SchemaProofs**: the theorems.
- **MC modules**: values for TLC.

Data is abstracted to what a property can tell apart. A task id is a model value
that goes from `unborn` to a row and stays `removed` after a physical deletion
(ids are fresh UUIDs); priority, resource key and group are fixed when a task is
added; the three informational relation types are one; a timestamp is a number,
with 0 for the empty string; the token count of an agent's output is a number or
`Unavailable`. The set `Commands` says what the operators of an instance do, so
that a run can ask what holds as long as nobody, say, sets statuses by hand.

Definitions introduced as "a bug ..." are plausible wrong versions of the
definition after them. No action uses them: they show that each property would
notice.

## What the runs check

Each bound is named in the cfg: `MaxTime` caps the clock, `MaxAttempts` the
attempts of a task; both only disable actions. No run checks for deadlock, as
the system may really stop: a queue in which all is done stays as it is.

| Run | Question | Bounds, and why they are enough |
|---|---|---|
| `claims` | Do claims of workers exclude each other, wait for prerequisites and gates, end when stale, and does the queue implement the ledger? | 2 workers and 2 reapers on 2 tasks of one resource, the second possibly behind the first, 1 gate, clock to 4, leases of 0 and 1, 2 attempts each: a claim can lapse, be listed by both reapers, be renewed or finished in between and be claimed by the other worker. |
| `operators` | What is left of that when operators do as they like? | 1 worker, 1 reaper, the 2 tasks of a goal, all of set, stage, force, retry, defer, delete; 2 attempts. |
| `imports` | Is an archive imported once and whole, and does the queue schedule soundly whatever is in it? | 3 tasks, so that a cycle needs a path, with edges overwritten, deletion and pruning, ordinals given again (it is this run in which `AddRelation`, `SatisfyGate` and `PruneStatus` happen); 3 archives: two that overlap in a task one of them has blocked, one with an artifact of no task of its own; 1 worker, 1 gate. |
| `budgets` | Is the budget of a goal kept by several workers? | 2 workers on the 2 members of a goal; iterations, tokens and duration each with a cap that is reached while another member is under way; resumption with any of the caps; lapsed claims. |
| `loops` | Do loops finish their own claims only, stop agents without one, and does every lapsed claim end? (the last two are liveness) | 2 loops that may be interrupted or killed and restarted at any point, 1 reaper, a plain task that cannot be rendered and the member of a goal, lease 1, clock to 2, a breaker of 2. |
| `requests` | Does a request id make a repeated command act once, and is a held task safe from it and from late validation? | 2 clients, 1 id, so that every use of it collides or repeats; an add forced, an add behind a task that may be deleted, two status changes; 2 tasks of one text that the rules may reject; 2 workers, so that a claim can be lost before it is validated. |
| `schema` | Can several processes open any known database at once? (one property is liveness) | 3 processes, so that one is killed, one sets up and one waits; a new file, the unversioned one of the migration test, one from before groups, version 7 and the current one; 2 tasks; one upgrade by a newer release, which may drop a table. |
| `terminal_close`, `stage_owner`, `emitted`, `legacy_open`, `blocked_report` | see Findings | |

The runs with symmetry use it over workers, reapers or tasks that no constant
tells apart, and none of them checks liveness.

Some properties are conditional on what operators do, and say so: the queue
really does let `set doing` and `retry` pass the resource lock, lets an operator
move a suspended member back to `todo`, and leaves a goal's status alone when
rows are pruned or added to its group. `ClaimsExclusive` is what remains of the
lock then; the other two are listed as hazards without a property.

**Fairness.** `FairReaping`, a part of `FairLoopSpec`: `afk reap` is meant to be
driven by cron (`src/internal/commands/root.go:52`), so a reaper starts again and
again, and one that is not killed goes on to the end of its list; hence weak
fairness of listing and of its steps. Nothing is assumed of workers, operators or
the clock. `FairLoopSpec` besides: the goroutine's `select` reacts
to its timers, a call that has been committed returns, and an agent whose
context was cancelled exits, as `runAgent` follows SIGTERM by SIGKILL; hence weak
fairness of `LoopHasRenewed`, `LoopLosesLease` and of the exit of a cancelled
agent. Nothing is assumed of agents that were not cancelled, nor of loops. That a
heartbeat may find SQLite busy for ever is covered: such heartbeats change
nothing, and only that *some* heartbeat gets through, or that the deadline
passes, is assumed by the fairness of `LoopLosesLease`. `FairSchemaSpec`: a
process that has begun to open the database goes on with its set-up, as a
busy database is retried without limit (`retrySQLiteBusy`); writers, kills and
the newer release are not assumed to do anything. Weak fairness is enough, as
each process opens once: those before it in the queue for the lock are finitely
many.

## Findings

- `stage_owner`: `afk set <id> doing --stage X` on a running task opens a second
  attempt with no worker, although a stage is documented as independent of the
  execution state. The worker's heartbeats and its finalization are refused from
  then on.
- `terminal_close`: setting a task to `deleted` and back keeps its attempt open,
  and a later `done` closes only the latest one, although the docs say that
  terminal transitions close the open attempt.
- `emitted`: if a goal is limited while an agent runs on one of its members, the
  finalization is a replay that records nothing; the loop reports `done` (and
  resets its breaker) for a task that is `budget-limited`.
- `legacy_open`: base DDL creates an index on `tasks.group_id` before the
  migrations add that column to an older `tasks` table, so a database from before
  it cannot be opened at all, although the migrations are meant to bring it up to
  date.
- `blocked_report`: `afk status --blocked` takes informational relations for
  blockers and lists tasks that the next `afk take` may claim.

None of the first three breaks exclusion: the fence and the attempt bookkeeping hold, as
`claims`, `loops` and `budgets` show.

## What is proved

Every safety property that a passing run checks is also a theorem, for every
value of the constants: any sets of tasks, workers, reapers, clients, archives
and processes, infinite ones included, and any clock and any number of attempts,
as the bounds only disable actions. The theorems rest on the assumptions the
modules name (`QueueAssumption`, `NoWorkerAssumption` and the like), which are
about types and about model values being no members of those sets, and on the
hypotheses below.

### Hypotheses

Some theorems hold only where operators leave something alone, because the code
has no guard there. Each such hypothesis is a definition about the constants
`Commands` and `WorkerSets`, and the run that checks the property satisfies it.

| Hypothesis | What nobody does | Why it is needed |
|---|---|---|
| `~ByHand` (`ResourceLock`) | set or retry | `set doing` and `retry` do not look at the resource lock |
| `ClaimsOnly` (`ImplementsLedger`) | change a status, delete, except for workers ending their claim | an operator overrules a claim, the ledger has no such step |
| `WorkersOnly` (`ChainsRunInOrder`) | change a status without the fence, rewrite relations | a prerequisite can be reopened, or added, after the claim |
| `"satisfy" \notin Commands` (`RefusalsKeepGates`) | satisfy a gate by hand | that opens a gate without a claim |
| `GoalsKept` (`GoalsAgree`, `BudgetGoalsAgree`) | add into a group, prune | neither refreshes the cached status |
| `BudgetsKept` (`CapsAreHeld`, `SuspensionWhole`, `LoopCapsAreHeld`) | move a suspended member or limit one by hand, add into a group | a limited goal is then worked on beyond its caps |
| `StartedByClaims` (`BlockedAwaitApproval`) | set, force or retry | these open an attempt and ask for no gate |
| `EdgesStay` (`ReceiptsAreTrue`) | relate | the type of an edge can be overwritten |
| `NoneFails` (`HeldTasksNotFailed`) | report a failure, force one | then the failure is meant |
| `HandsOff` (`FinishedByItsClaimant`) | set or force | an operator then finishes the attempt |

All other theorems hold whatever operators do.

### The queue

`QueueProofs`:

- `TypeCorrect`. `TypeOK` alone is not inductive: the next ordinal is a maximum
  over the rows, which is a natural number only if there is one. `TypeInv` adds
  `OrdinalsBounded`, so that the theorem holds for infinite sets of ids too;
  `MaxOfBounded` is the lemma behind it.
- `DoingOwned`, `ClaimsExclude`: the invariant `ExclusionInv` is
  `TypeInv /\ DoingIsOwnedAndReclaimable /\ ClaimsExclusive`. The two need each
  other: who owns a doing task is known only because its *last* attempt is open.
  The lemma `NextStepOn` says what any step can do to one task, action by action:
  it goes on as it was, is put to `doing` by hand with an ownerless attempt, is
  claimed while no task of its resource is doing, or ends up not doing. Both
  invariants follow from that case distinction. `ResourceLock` follows the same
  way where nobody sets or retries by hand.

`SchedulingProofs` abstracts each action to what it can do to one task, one edge
or one goal, and derives the properties from these kinds of steps, which the
modules above reuse:

- `LifeStep`: a row is born once, keeps its ordinal, does not come back, and its
  attempts only continue (`Continues`). From it `HistoryKept`, and with a lemma
  on the ordinals that are given, `OrdinalsUnique`.
- `RelationStep`: the relations stay, or an edge is added that closes no cycle, or
  a new task with its edges. `RelationInv` is `TypeInv`, `BlocksAcyclic` and
  `UnbornUntouched` (a task that was not added yet is in no relation), without
  which a new task could close a cycle. `EdgeKeepsAcyclic` is the cycle check: an
  edge to a task from which no path leads back closes no cycle, whatever the
  types of the edges on the paths it looks at; `ChainKeepsAcyclic` is about the
  chain of a new goal. `NoCycles` follows, and with the lemma `AcyclicExplains`
  `StuckExplained`: of the tasks to do, one waits for none of the others.
- `WaitStep` (what is done stays so, and a first attempt is a claim that found
  its prerequisites done) gives `ChainsRunInOrder`; `GoalStep` gives `GoalsAgree`;
  `RefusalsKeepGates` and `StaleClaimsAreReaped` need the types only.

`LedgerProofs`: `ImplementsLedger`, that the queue implements `ClaimLedger`.
`LedgerInv` says that of a doing task the last attempt is the one that is open,
that of other tasks none is, that only doing tasks have leases, and that the
listing of a reaper is of a time that has come. Each action is shown to be one of
a few kinds (`NextKinds`), and each kind to be a step of the ledger or to leave
the ledger as it is (`KindsMap`).

### What is built on the queue

- `BudgetProofs`. A transaction of a goal changes several tables in a row, so the
  lemmas are about tables in the middle of one (`Midway`): the members one by
  one, then the goal. `CountedOnce` has the invariant `AccountedInv`: iterations
  are attempts that exist, and only finitely many, so that their number can be
  compared with the usage. `CapsAreHeld` and `SuspensionWhole` have `RestInv`: a
  goal with a cap reached is limited, a limited one has no member under way or to
  do. `BudgetTypeCorrect` and `BudgetGoalsAgree` carry over those of the queue.
- `LoopProofs`. `TableStep` says what a step of any loop is to the tables: a
  claim, a renewal, a recorded end, an accounted one, a preparation, a resumption
  or somebody else's step. `Follows` says what it is to the loop. `LoopInv` adds
  to the invariants of the tables `ClaimsFollowed`: the attempt that a busy loop
  remembers is the latest one its worker has had of that task, hence the one the
  fence lets it finish. `FinishedByItsClaimant` follows; `LoopTypeCorrect`,
  `LoopCountedOnce`, `LoopHistoryKept`, `LoopsExclude` and `LoopCapsAreHeld` say
  that the properties of queue and budgets hold of the system of loops.
- `RequestProofs`. `RequestsActOnce` is the refinement of `ExactlyOnce`: the
  outcome of a request id is the task its receipt names (`Decided`), and
  `AnswersMatch` that all answers tell that one. `ReceiptsAreTrue` has `ReceiptsInv`,
  in which the receipts of two adds name different tasks; `HeldTasksNotFailed` is
  shown step by step (`StaysUnfailed`).
- `ImportProofs`. `ImportInv` adds to `RelationInv` that an archived id without
  provenance has no row yet: that is why an import does not collide with the
  queue. `ImportNoCycles`, `ImportStuckExplained`, `ImportOrdinals` and `NoneComesBack` follow;
  `WholeImports` and `ReportsReconcile` have `ReportsInv` (a report is
  that of its archive, well formed), `BlockedAwaitApproval` has `GatedInv`.

### Opening a database

`SchemaProofs` is about any number of processes that open any set of databases,
from `SchemaAssumption` (their type) and `CurrentAssumption` (one that says it
has the current version was left by an afk of this version, hence complete; a
database of an older version may be in any state).

- The invariant is `SetupInv`. `PlaceInv` says of each process how far it has
  come; while it is in its set-up it has the write lock, so that the committed
  database is the one it began with. `Reached(i, work, db)` is what the
  migrations before i have seen to: the migrations are not tested one by one for
  what they have to do, every older database goes through all of them, and the
  lemma `MigrationStep` shows that none undoes another. `DbInv` adds that a
  commit of a migration leaves no older database, so that there is one.
- `SchemaTypes`, `OpensComplete`, `MigratedOnce`, `NewerStays` and `RowsStay` follow
  from it. That databases older than groups cannot be opened at all
  (`legacy_open`) does not contradict them: they are about those who have opened
  one.

TLC has checked the inductive invariants on the constants of the runs
(`OrdinalsBounded`, which is a quantification over the naturals, excepted), before
or beside their proofs.

### Only model-checked

- The liveness properties `ExpiredClaimsRecover`, `OrphansStop` and `OpeningEnds`:
  they need fairness, and with it ENABLED, which is out of the prover's reach.
- The findings: a violation is a counterexample, not a theorem.

Nothing here needs induction over data. The one recursion of the code that a
property is about, the path query of the cycle check, is modelled by what it
computes (`DependencyPathExists`: the target is in every set that is closed under
relations), not by its recursive query; loops over the members of a goal or the
rows of an archive, inside one transaction, are modelled by their effect.

## Not modelled

- The rejection sidecar: its rewrites by remove and retry are service methods
  that no command calls; what is left is the append of a line.
- `insertGoalTasks`, `InsertGoalTasks`, `UpdateCAS` and the in-memory
  `BudgetState`: called by tests only.
- Records (artifacts and checkpoints appended to a task): nothing depends on them
  but the import's provenance, which `VybeImport` has.
- Aggregation, search, health, output, prompts, flag parsing: they read and
  format. The handlers of the dashboard are one service call each, which is an
  action of `Queue`; its HTTP is I/O.
- Goal set-up and auditor processes: what they print is a free choice of the
  contract and of the verdict; what is done with it is `CreateGoal` and
  `AuditDisapproves`.
- Which texts a validation rule matches: the rules are the set of bodies they
  reject.
- SQLite itself: transactions are atomic and serialized. A busy database is a
  call that changes nothing.
- Times have one resolution. The code writes leases in seconds and budget times
  in nanoseconds; the difference is listed as a hazard.

## Plan

Done, in this order: `Tasks` and `Queue` with the abstract `ClaimLedger` and the
exclusion theorems; `GoalBudget`; `Loop`, which composes the two with the
goroutine of the loop; `Requests` with the abstract `ExactlyOnce`; `VybeImport`;
`Schema`, with the theorems about opening a database; `Views`.

The proofs, in this order: types and exclusion; opening a database; history,
order and relations; the ledger; budgets; imports; requests; loops.

What is left:

1. The theorems of the queue that are stated of `Spec`, `BudgetSpec` or
   `ImportSpec` only, carried further: exclusion to `BudgetSpec`, `RequestsSpec`
   and `ImportSpec`, scheduling (`NoCycles`, `StuckExplained`) to `BudgetSpec`,
   `LoopSpec` and `RequestsSpec`, by the kinds of steps that are there already.
2. The ledger for `LoopSpec`: that a system of loops, with budgets, implements the
   ledger of claims, with suspension by a limit as one more way to settle one.
3. Weaker hypotheses: `ClaimsOnly` restricts deletion and forced ends, which the
   ledger could have as steps of its own.
