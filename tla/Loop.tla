-------------------------------- MODULE Loop --------------------------------
(***************************************************************************)
(* `afk loop`: a process that claims a task, runs an agent on it and       *)
(* records how the agent ended, again and again.  While the agent runs, a  *)
(* goroutine beside it renews the lease at intervals and watches a local   *)
(* deadline; when it finds the lease lost it cancels the agent, and the    *)
(* loop ends without finalizing the task.                                  *)
(*                                                                         *)
(* Each Worker is the id of one loop at a time, which may be interrupted   *)
(* at any point and started again under the same id.  A transaction is one *)
(* step; so is what the loop does between two of them.  The agent's result *)
(* is chosen when it exits, a timeout being one more way to fail.          *)
(***************************************************************************)
EXTENDS GoalBudget

CONSTANTS
    Lease,          \* cfg.Lease; 0 is none
    Heartbeats,     \* whether cfg.HeartbeatInterval is positive
    MaxTasks,       \* 0 is unlimited
    MaxFailures,    \* cfg.MaxConsecutiveFailures; 0 is no breaker
    Unrenderable,   \* the tasks on whose data the prompt template may fail
    NoTask

ASSUME LoopAssumption ==
    /\ Lease \in Nat /\ Heartbeats \in BOOLEAN
    /\ MaxTasks \in Nat /\ MaxFailures \in Nat
    /\ Unrenderable \subseteq Task /\ NoTask \notin Task

VARIABLE loop   \* the state of the loop of each worker

Point == {"exited", "top", "claimed", "prepared", "running", "finalizing"}

\* The heartbeat goroutine: not started or stopped, waiting for its timers,
\* between the commit of a renewal and its return, having reported a loss.
Monitor == {"off", "waiting", "renewed", "lost"}

\* What was emitted last, for the attempt the loop's own claim opened.
Results == [task : Task, claim : Nat, status : Terminal] \cup {NoTask}

Exited ==
    [at |-> "exited", task |-> NoTask, claim |-> 0, attempt |-> 0, metered |-> FALSE,
     watch |-> 0, monitor |-> "off", result |-> "done", failures |-> 0, processed |-> 0,
     emitted |-> NoTask]

LoopTypeOK ==
    /\ BudgetTypeOK
    /\ loop \in [Worker ->
          [at : Point, task : Task \cup {NoTask}, claim : Nat, attempt : Nat,
           metered : BOOLEAN, watch : Nat, monitor : Monitor, result : Terminal,
           failures : Nat, processed : Nat, emitted : Results]]

LoopInit == BudgetInit /\ loop = [w \in Worker |-> Exited]

allVars == <<vars, budgetVars, loop>>

\* The loop of w goes on with some of its fields changed, or ends.
Becomes(w, to) == loop' = [loop EXCEPT ![w] = to]
Ends(w) == Becomes(w, [Exited EXCEPT !.emitted = loop[w].emitted])

-----------------------------------------------------------------------------
(* From the top of the loop to the start of the agent                       *)

LoopStarts(w) ==
    /\ loop[w].at = "exited"
    /\ Becomes(w, [Exited EXCEPT !.at = "top"])
    /\ UNCHANGED <<vars, budgetVars>>

TasksLeft(w) == MaxTasks = 0 \/ loop[w].processed < MaxTasks

LoopTakes(w, t) ==
    /\ loop[w].at = "top" /\ TasksLeft(w)
    /\ ClaimNext(t, w, Lease)
    /\ Becomes(w, [loop[w] EXCEPT !.at = "claimed", !.task = t, !.emitted = NoTask,
                      !.claim = Len(attempts'[t]), !.watch = row'[t].lease])
    /\ UNCHANGED budgetVars

LoopDrained(w) ==
    /\ loop[w].at = "top"
    /\ ~TasksLeft(w) \/ \A t \in Task : ~Ready(t)
    /\ Ends(w)
    /\ UNCHANGED <<vars, budgetVars>>

\* prepareGoalInvocation: a task that is gone, or whose group is no goal, runs
\* without a budget; one without an open attempt ends the loop with an error.
LoopPrepares(w) ==
    LET t == loop[w].task
        grouped == t \in Present /\ GroupOf[t] # NoGroup
        open == OpenAttempts(attempts[t]) # {}
        Goes(attempt) == Becomes(w, [loop[w] EXCEPT !.at = "prepared", !.attempt = attempt,
                            !.metered = attempt # 0 /\ caps[GroupOf[t]].tokens > 0])
    IN  /\ loop[w].at = "claimed"
        /\ \/ /\ ~grouped \/ (open /\ ~IsGoal(GroupOf[t]))
              /\ Goes(0)
              /\ UNCHANGED <<vars, budgetVars>>
           \/ /\ grouped /\ ~open
              /\ Ends(w)
              /\ UNCHANGED <<vars, budgetVars>>
           \/ /\ grouped /\ PrepareGoalInvocation(t)
              /\ IF Overdue(t) THEN Ends(w) ELSE Goes(LatestOpen(attempts[t]))

\* What every end of an invocation does to the counters, and to the loop.
Emits(w, status, counted, stop) ==
    LET failures == IF status = "done" THEN 0 ELSE loop[w].failures + 1
        said == [Exited EXCEPT !.emitted =
                   [task |-> loop[w].task, claim |-> loop[w].claim, status |-> status]]
    IN  IF stop \/ (MaxFailures > 0 /\ failures >= MaxFailures) THEN Becomes(w, said)
        ELSE Becomes(w, [said EXCEPT !.at = "top", !.failures = failures,
                            !.processed = loop[w].processed + (IF counted THEN 1 ELSE 0)])

\* A prompt that cannot be rendered fails the task, if the fence lets it; it
\* does not count as a task processed.
LoopCannotRender(w) ==
    LET t == loop[w].task
    IN  /\ loop[w].at = "prepared" /\ t \in Unrenderable
        /\ IF WorkerFence(t, w) THEN ApplyStatusAndStage(t, "failed", FALSE)
           ELSE UNCHANGED vars
        /\ Emits(w, "failed", FALSE, FALSE)
        /\ UNCHANGED budgetVars

LoopRuns(w) ==
    /\ loop[w].at = "prepared"
    /\ Becomes(w, [loop[w] EXCEPT !.at = "running",
                      !.monitor = IF Heartbeats \/ Lease > 0 THEN "waiting" ELSE "off"])
    /\ UNCHANGED <<vars, budgetVars>>

-----------------------------------------------------------------------------
(* The heartbeat goroutine                                                  *)

Waiting(w) == loop[w].at = "running" /\ loop[w].monitor = "waiting"

WatchExpired(w) == Lease > 0 /\ loop[w].watch <= now

\* A renewal is committed; the goroutine has not heard of it yet.  The call has
\* the local deadline for its own, and commits nothing after it.
LoopRenews(w) ==
    /\ Heartbeats /\ Waiting(w) /\ ~WatchExpired(w)
    /\ Heartbeat(loop[w].task, w, Lease)
    /\ Becomes(w, [loop[w] EXCEPT !.monitor = "renewed"])
    /\ UNCHANGED budgetVars

\* The local deadline is counted from here, unless it passed in between, which
\* may have cancelled the call.
LoopHasRenewed(w) ==
    /\ loop[w].at = "running" /\ loop[w].monitor = "renewed"
    /\ \/ Becomes(w, [loop[w] EXCEPT !.monitor = "waiting", !.watch = LeaseFrom(Lease)])
       \/ WatchExpired(w) /\ Becomes(w, [loop[w] EXCEPT !.monitor = "lost"])
    /\ UNCHANGED <<vars, budgetVars>>

\* A bug that leaves agents running without a claim: only the deadline counts.
LoopWatchesDeadline(w) ==
    /\ Waiting(w) /\ WatchExpired(w)
    /\ Becomes(w, [loop[w] EXCEPT !.monitor = "lost"])
    /\ UNCHANGED <<vars, budgetVars>>

\* The task is gone, not being worked on, or another's; or the deadline passed,
\* possibly while SQLite was busy.  A busy SQLite before it changes nothing.
LoopLosesLease(w) ==
    LET t == loop[w].task
        held == row[t].status = "doing" /\ OpenAttempts(attempts[t]) # {} /\ Owner(t) = w
    IN  /\ Waiting(w)
        /\ (Heartbeats /\ ~held) \/ WatchExpired(w)
        /\ Becomes(w, [loop[w] EXCEPT !.monitor = "lost"])
        /\ UNCHANGED <<vars, budgetVars>>

-----------------------------------------------------------------------------
(* From the end of the agent to the next task                               *)

\* heartbeat.stop: a loss that was recorded wins over the agent's own exit; a
\* deadline nobody has looked at yet does not.
LoopStopsAgent(w, result) ==
    /\ loop[w].at = "running"
    /\ IF loop[w].monitor = "lost" THEN Ends(w)
       ELSE Becomes(w, [loop[w] EXCEPT !.at = "finalizing", !.monitor = "off",
                           !.watch = 0, !.result = result])
    /\ UNCHANGED <<vars, budgetVars>>

\* Without a budget the end is recorded by a fenced set; if the fence refuses
\* it, the loop ends with an error.
LoopFinalizesPlain(w) ==
    LET t == loop[w].task
    IN  /\ loop[w].at = "finalizing" /\ loop[w].attempt = 0
        /\ IF WorkerFence(t, w)
           THEN /\ ApplyStatusAndStage(t, loop[w].result, FALSE)
                /\ Emits(w, loop[w].result, TRUE, FALSE)
           ELSE Ends(w) /\ UNCHANGED vars
        /\ UNCHANGED budgetVars

\* A replay counts as what the agent's exit was; it ends the loop if the goal
\* is limited.  Tokens are looked for if the goal had a cap on them when the
\* agent was started, and are 0 otherwise.
LoopFinalizesGoal(w, output) ==
    LET report == IF loop[w].metered THEN output ELSE 0
        t == loop[w].task
        i == loop[w].attempt
        g == GroupOf[t]
        known == t \in Present /\ IsGoal(g)
    IN  /\ loop[w].at = "finalizing" /\ i # 0
        /\ \/ /\ FinalizeGoalInvocation(t, i, w, loop[w].result, report)
              /\ Emits(w, loop[w].result, TRUE, LimitAfter(g, report) # "none")
           \/ /\ known /\ Settled(t, i)
              /\ Emits(w, loop[w].result, TRUE, goalStatus[g] = "budget-limited")
              /\ UNCHANGED <<vars, budgetVars>>
           \/ /\ ~known \/ (~Settled(t, i) /\ ~MayFinalize(t, i, w))
              /\ Ends(w)
              /\ UNCHANGED <<vars, budgetVars>>

-----------------------------------------------------------------------------
\* Interrupted, or killed: the claim stays until its lease runs out.
LoopDies(w) ==
    /\ "interrupt" \in Commands
    /\ loop[w].at # "exited"
    /\ Ends(w)
    /\ UNCHANGED <<vars, budgetVars>>

LoopStep(w) ==
    \/ LoopStarts(w) \/ LoopDrained(w) \/ LoopDies(w)
    \/ \E t \in Task : LoopTakes(w, t)
    \/ LoopPrepares(w) \/ LoopCannotRender(w) \/ LoopRuns(w)
    \/ LoopRenews(w) \/ LoopHasRenewed(w) \/ LoopLosesLease(w)
    \/ \E result \in Terminal : LoopStopsAgent(w, result)
    \/ LoopFinalizesPlain(w)
    \/ \E output \in Reports : LoopFinalizesGoal(w, output)

LoopNext ==
    \/ (Adding \/ Operating \/ Reaping \/ Tick) /\ UNCHANGED <<budgetVars, loop>>
    \/ (\E g \in Group, newCaps \in CapSets : ResumeGoal(g, newCaps)) /\ UNCHANGED loop
    \/ \E w \in Worker : LoopStep(w)

LoopSpec == LoopInit /\ [][LoopNext]_allVars

\* The goroutine reacts to its timers and to what a renewal returns, and an
\* agent that was cancelled exits: SIGTERM is followed by SIGKILL.  `afk reap`
\* is driven by cron (commands/root.go:52), as in Queue.
FairLoopSpec ==
    /\ LoopSpec
    /\ FairReaping
    /\ \A w \in Worker :
          /\ WF_allVars(LoopHasRenewed(w))
          /\ WF_allVars(LoopLosesLease(w))
          /\ WF_allVars(loop[w].monitor = "lost" /\ LoopStopsAgent(w, "failed"))

-----------------------------------------------------------------------------
(* Properties                                                               *)

\* docs/command-reference.md:243, finalization is fenced by the worker that
\* claimed.  Where nobody finalizes by hand, the attempt that becomes done or
\* failed is the one that this very invocation of a loop claimed, whatever was
\* reclaimed, suspended or claimed again in the meantime.
FinishedByClaimant ==
    [][\A t \in Task : \A i \in OpenAttempts(attempts[t]) :
          attempts'[t][i].outcome \in Terminal =>
             \E w \in Worker :
                /\ loop[w].at \in {"prepared", "finalizing"}
                /\ loop[w].task = t /\ loop[w].claim = i]_allVars

\* docs/command-reference.md:244, an agent whose claim has ended, because it
\* was reclaimed, suspended or taken over, does not run on for ever.
Orphaned(w) ==
    /\ loop[w].at = "running"
    /\ loop[w].claim \notin OpenAttempts(attempts[loop[w].task])

OrphansStop == \A w \in Worker : Orphaned(w) ~> ~Orphaned(w)

\* loop.go:45: the loop marks each task done or failed based on the agent's exit
\* status; so a result "done" is emitted for an attempt that was closed as done.
EmittedWasRecorded ==
    \A w \in Worker : loop[w].emitted # NoTask =>
        LET said == loop[w].emitted
        IN  said.status = "done" => attempts[said.task][said.claim].outcome = "done"

=============================================================================
