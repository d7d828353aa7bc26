----------------------------- MODULE LoopProofs -----------------------------
(***************************************************************************)
(* Theorems about the loops of workers: an attempt is finished by the very *)
(* invocation that claimed it, and is counted once, whatever was reclaimed *)
(* or suspended in the meantime and however often a loop died; and what    *)
(* the queue and the budgets promise holds with the loops at work.         *)
(***************************************************************************)
EXTENDS Loop, BudgetProofs

-----------------------------------------------------------------------------
(* What a step of a loop does to the tables                                 *)

\* The loop of w has a task in its hands.
Busy(w) == loop[w].at \notin {"exited", "top"}

\* The transactions of the loops, of their budgets and of everybody else, as
\* the tables see them.
Elsewhere == (Adding \/ Operating \/ Reaping \/ Tick) /\ UNCHANGED budgetVars

Nothing == UNCHANGED <<vars, budgetVars>>

Takes(w, t) == loop[w].at = "top" /\ ClaimNext(t, w, Lease) /\ UNCHANGED budgetVars

Renews(w, t) == Heartbeat(t, w, Lease) /\ UNCHANGED budgetVars

Records(w, t, s) ==
    /\ loop[w].at \in {"prepared", "finalizing"} /\ loop[w].task = t
    /\ WorkerFence(t, w) /\ ApplyStatusAndStage(t, s, FALSE)
    /\ UNCHANGED budgetVars

Accounts(w, t, i, s, report) ==
    /\ loop[w].at = "finalizing" /\ loop[w].task = t
    /\ FinalizeGoalInvocation(t, i, w, s, report)

TableStep ==
    \/ Elsewhere \/ Nothing
    \/ \E w \in Worker, t \in Task : Takes(w, t)
    \/ \E w \in Worker, t \in Task : Renews(w, t)
    \/ \E w \in Worker, t \in Task, s \in Terminal : Records(w, t, s)
    \/ \E w \in Worker, t \in Task, i \in Nat, s \in Terminal, report \in Nat \cup {Unavailable} :
          Accounts(w, t, i, s, report)
    \/ \E t \in Task : PrepareGoalInvocation(t)
    \/ \E g \in Group, newCaps \in CapSets : ResumeGoal(g, newCaps)

\* And to the loop of v: it has no task in its hands afterwards, or the one it
\* had, or the one it has just claimed.
Follows(v) ==
    \/ ~Busy(v)'
    \/ Busy(v) /\ loop'[v].task = loop[v].task /\ loop'[v].claim = loop[v].claim
    \/ \E t \in Task :
          /\ Takes(v, t)
          /\ loop'[v].task = t /\ loop'[v].claim = Len(attempts'[t])

LoopState ==
    [at : Point, task : Task \cup {NoTask}, claim : Nat, attempt : Nat,
     metered : BOOLEAN, watch : Nat, monitor : Monitor, result : Terminal,
     failures : Nat, processed : Nat, emitted : Results]

\* The loops are of their types, and the ones that are busy are so with a task.
LoopTypes ==
    /\ loop \in [Worker -> LoopState]
    /\ \A w \in Worker : Busy(w) => loop[w].task \in Task

\* A loop that becomes something else.
LEMMA BecomesType ==
    ASSUME LoopTypes, NEW w \in Worker, NEW to \in LoopState, Becomes(w, to),
           to.at \in {"exited", "top"} \/ to.task \in Task
    PROVE  LoopTypes'
<1>1. loop' \in [Worker -> LoopState]
  BY DEF LoopTypes, Becomes
<1>2. \A v \in Worker : loop'[v] = IF v = w THEN to ELSE loop[v]
  BY DEF LoopTypes, Becomes
<1> QED
  BY <1>1, <1>2 DEF LoopTypes, Busy

\* Whatever becomes of one loop, the others follow theirs.
LEMMA OthersFollow ==
    ASSUME LoopTypes, NEW w \in Worker, NEW to, Becomes(w, to), NEW v \in Worker, v # w
    PROVE  Follows(v)
<1>1. loop'[v] = loop[v]
  BY DEF LoopTypes, Becomes
<1> QED
  BY <1>1 DEF Follows, Busy

\* A loop that stays with its task, or lets it go, follows it.
LEMMA StaysOrLetsGo ==
    ASSUME LoopTypes, NEW w \in Worker, NEW to \in LoopState, Becomes(w, to),
           \/ to.at \in {"exited", "top"}
           \/ Busy(w) /\ to.task = loop[w].task /\ to.claim = loop[w].claim
    PROVE  LoopTypes' /\ \A v \in Worker : Follows(v)
<1>1. loop'[w] = to
  BY DEF LoopTypes, Becomes
<1>2. Follows(w)
  BY <1>1 DEF Follows, Busy
<1>3. LoopTypes'
  BY BecomesType DEF LoopTypes
<1> QED
  BY <1>2, <1>3, OthersFollow

\* A loop that ends.
LEMMA EndsFollowed ==
    ASSUME LoopTypes, NEW w \in Worker, Ends(w)
    PROVE  LoopTypes' /\ \A v \in Worker : Follows(v)
<1> DEFINE to == [Exited EXCEPT !.emitted = loop[w].emitted]
<1>1. loop[w].emitted \in Results
  BY DEF LoopTypes, LoopState
<1>2. to \in LoopState /\ to.at = "exited"
  BY <1>1 DEF Exited, LoopState, Point, Monitor, Terminal, Results
<1>3. Becomes(w, to)
  BY DEF Ends
<1> HIDE DEF to
<1> QED
  BY <1>2, <1>3, StaysOrLetsGo

\* A loop that records how an invocation ended.
LEMMA EmitsFollowed ==
    ASSUME LoopTypes, NEW w \in Worker, Busy(w), NEW s \in Terminal, NEW counted, NEW stop,
           Emits(w, s, counted, stop)
    PROVE  LoopTypes' /\ \A v \in Worker : Follows(v)
<1> DEFINE failures == IF s = "done" THEN 0 ELSE loop[w].failures + 1
           said == [Exited EXCEPT !.emitted =
                      [task |-> loop[w].task, claim |-> loop[w].claim, status |-> s]]
           on == [said EXCEPT !.at = "top", !.failures = failures,
                     !.processed = loop[w].processed + (IF counted THEN 1 ELSE 0)]
<1>1. /\ loop[w].task \in Task /\ loop[w].claim \in Nat /\ loop[w].failures \in Nat
      /\ loop[w].processed \in Nat
  BY DEF LoopTypes, LoopState
<1>2. [task |-> loop[w].task, claim |-> loop[w].claim, status |-> s] \in Results
  BY <1>1 DEF Results
<1>3. said \in LoopState /\ said.at = "exited"
  BY <1>2 DEF Exited, LoopState, Point, Monitor, Terminal
<1>4. failures \in Nat /\ loop[w].processed + (IF counted THEN 1 ELSE 0) \in Nat
  BY <1>1
<1>5. on \in LoopState /\ on.at = "top"
  <2> HIDE DEF said, failures
  <2> QED
    BY <1>3, <1>4 DEF LoopState, Point
<1>6. Becomes(w, said) \/ Becomes(w, on)
  BY DEF Emits
<1> HIDE DEF said, on
<1> QED
  BY <1>3, <1>5, <1>6, StaysOrLetsGo

\* The loop of a task that is prepared.
LEMMA PreparedType ==
    ASSUME NEW L \in LoopState, NEW n \in Nat, NEW metered \in BOOLEAN
    PROVE  LET to == [L EXCEPT !.at = "prepared", !.attempt = n, !.metered = metered]
           IN  to \in LoopState /\ to.task = L.task /\ to.claim = L.claim
BY DEF LoopState, Point

\* From the top of the loop to the start of the agent.
LEMMA EarlySteps ==
    ASSUME TypeInv, LoopTypes, NEW w \in Worker,
           \/ LoopStarts(w) \/ LoopDrained(w) \/ LoopDies(w) \/ LoopPrepares(w)
           \/ LoopCannotRender(w) \/ LoopRuns(w)
    PROVE  TableStep /\ LoopTypes' /\ \A v \in Worker : Follows(v)
<1> DEFINE L == loop[w]
<1>0. L \in LoopState /\ (Busy(w) => L.task \in Task)
  BY DEF LoopTypes, Busy
<1>1. CASE LoopStarts(w)
  <2> DEFINE to == [Exited EXCEPT !.at = "top"]
  <2>1. to \in LoopState /\ to.at = "top"
    BY DEF Exited, LoopState, Point, Monitor, Terminal, Results
  <2>2. Becomes(w, to) /\ Nothing
    BY <1>1 DEF LoopStarts, Nothing
  <2> HIDE DEF to
  <2> QED
    BY <2>1, <2>2, StaysOrLetsGo DEF TableStep
<1>2. CASE LoopDrained(w) \/ LoopDies(w)
  BY <1>2, EndsFollowed DEF LoopDrained, LoopDies, TableStep, Nothing
<1>3. CASE LoopPrepares(w)
  <2> DEFINE t == L.task
             Goes(attempt) == [L EXCEPT !.at = "prepared", !.attempt = attempt,
                                 !.metered = attempt # 0 /\ caps[GroupOf[t]].tokens > 0]
  <2>1. Busy(w) /\ t \in Task
    BY <1>0, <1>3 DEF LoopPrepares, Busy
  <2>2. \/ Ends(w) /\ (Nothing \/ PrepareGoalInvocation(t))
        \/ Becomes(w, Goes(0)) /\ Nothing
        \/ PrepareGoalInvocation(t) /\ Becomes(w, Goes(LatestOpen(attempts[t])))
    BY <1>3 DEF LoopPrepares, Nothing
  <2>3. ASSUME NEW n \in Nat, Becomes(w, Goes(n))
        PROVE  LoopTypes' /\ \A v \in Worker : Follows(v)
    <3> DEFINE metered == n # 0 /\ caps[GroupOf[t]].tokens > 0
               to == [L EXCEPT !.at = "prepared", !.attempt = n, !.metered = metered]
    <3>1. metered \in BOOLEAN /\ Becomes(w, to)
      BY <2>3
    <3>2. to \in LoopState /\ to.task = L.task /\ to.claim = L.claim
      <4>1. L \in LoopState
        BY <1>0
      <4> HIDE DEF metered, L
      <4> QED
        BY <3>1, <4>1, PreparedType
    <3> HIDE DEF to
    <3> QED
      BY <2>1, <3>1, <3>2, StaysOrLetsGo
  <2>4. PrepareGoalInvocation(t) => LatestOpen(attempts[t]) \in Nat
    <3>1. attempts[t] \in Seq(Attempt)
      BY <2>1 DEF TypeInv, TypeOK
    <3> QED
      BY <3>1, LatestOpenIsOpen DEF PrepareGoalInvocation, IsLatestOpen, OpenAttempts
  <2>5. Nothing => TableStep
    BY DEF TableStep
  <2>6. PrepareGoalInvocation(t) => TableStep
    BY <2>1 DEF TableStep
  <2> HIDE DEF Goes, t
  <2> QED
    BY <2>2, <2>3, <2>4, <2>5, <2>6, EndsFollowed
<1>4. CASE LoopCannotRender(w)
  <2> DEFINE t == L.task
  <2>1. Busy(w) /\ t \in Task /\ Emits(w, "failed", FALSE, FALSE)
    BY <1>0, <1>4 DEF LoopCannotRender, Busy
  <2>2. Nothing \/ Records(w, t, "failed")
    BY <1>4 DEF LoopCannotRender, Nothing, Records
  <2> QED
    BY <2>1, <2>2, EmitsFollowed DEF TableStep, Terminal
<1>5. CASE LoopRuns(w)
  <2> DEFINE monitor == IF Heartbeats \/ Lease > 0 THEN "waiting" ELSE "off"
             to == [L EXCEPT !.at = "running",
                       !.monitor = monitor]
  <2>1. Busy(w) /\ Becomes(w, to) /\ Nothing
    BY <1>5 DEF LoopRuns, Nothing, Busy
  <2>2. to \in LoopState /\ to.task = L.task /\ to.claim = L.claim
    <3>1. monitor \in Monitor
      BY DEF Monitor
    <3>2. L \in LoopState
      BY <1>0
    <3> HIDE DEF L, monitor
    <3> QED
      BY <3>1, <3>2 DEF LoopState, Point
  <2> HIDE DEF to
  <2> QED
    BY <2>1, <2>2, StaysOrLetsGo DEF TableStep
<1> QED
  BY <1>1, <1>2, <1>3, <1>4, <1>5

\* The claim of a task.
LEMMA TakeSteps ==
    ASSUME TypeInv, LoopTypes, NEW w \in Worker, NEW t \in Task, LoopTakes(w, t)
    PROVE  TableStep /\ LoopTypes' /\ \A v \in Worker : Follows(v)
<1> DEFINE L == loop[w]
           claim == Len(attempts'[t])
           lease == row'[t].lease
           to == [L EXCEPT !.at = "claimed", !.task = t, !.emitted = NoTask,
                     !.claim = claim, !.watch = lease]
<1>1. L \in LoopState /\ Becomes(w, to) /\ Takes(w, t)
  BY DEF LoopTakes, Takes, LoopTypes
<1>2. claim \in Nat /\ lease \in Nat
  <2>1. row' \in [Task -> Row] /\ attempts' \in [Task -> Seq(Attempt)]
    BY ClaimType, LoopAssumption DEF LoopTakes, ClaimNext
  <2> QED
    BY <2>1 DEF Row
<1>3. /\ to \in LoopState /\ to.at = "claimed" /\ to.task = t /\ to.claim = claim
  <2> HIDE DEF L, claim, lease
  <2> QED
    BY <1>1, <1>2 DEF LoopState, Point, Results
<1>4. LoopTypes'
  <2> HIDE DEF to
  <2> QED
    BY <1>1, <1>3, BecomesType
<1>5. loop'[w] = to
  BY <1>1 DEF Becomes, LoopTypes
<1>6. Follows(w)
  <2> HIDE DEF to
  <2> QED
    BY <1>1, <1>3, <1>5 DEF Follows
<1>7. \A v \in Worker : Follows(v)
  <2> HIDE DEF to
  <2> QED
    BY <1>1, <1>6, OthersFollow
<1> QED
  BY <1>1, <1>4, <1>7 DEF TableStep

\* The heartbeat goroutine, and the end of the agent.
LEMMA MonitorSteps ==
    ASSUME TypeInv, LoopTypes, NEW w \in Worker,
           \/ LoopRenews(w) \/ LoopHasRenewed(w) \/ LoopLosesLease(w)
           \/ \E result \in Terminal : LoopStopsAgent(w, result)
    PROVE  TableStep /\ LoopTypes' /\ \A v \in Worker : Follows(v)
<1> DEFINE L == loop[w]
<1>0. L \in LoopState /\ (Busy(w) => L.task \in Task)
  BY DEF LoopTypes
<1>1. Busy(w) /\ L.at = "running"
  BY DEF LoopRenews, LoopHasRenewed, LoopLosesLease, LoopStopsAgent, Waiting, Busy
<1>2. Nothing \/ Renews(w, L.task)
  BY DEF LoopRenews, LoopHasRenewed, LoopLosesLease, LoopStopsAgent, Nothing, Renews
<1>3. TableStep
  BY <1>0, <1>1, <1>2 DEF TableStep
<1>4. LeaseFrom(Lease) \in Nat
  BY LoopAssumption DEF LeaseFrom, TypeInv, TypeOK
<1> DEFINE Changed == {[L EXCEPT !.monitor = "renewed"], [L EXCEPT !.monitor = "lost"],
                       [L EXCEPT !.monitor = "waiting", !.watch = LeaseFrom(Lease)]}
           Stopped(result) == [L EXCEPT !.at = "finalizing", !.monitor = "off",
                                  !.watch = 0, !.result = result]
<1>5. \/ Ends(w)
      \/ \E to \in Changed : Becomes(w, to)
      \/ \E result \in Terminal : Becomes(w, Stopped(result))
  BY DEF LoopRenews, LoopHasRenewed, LoopLosesLease, LoopStopsAgent
<1>6. \A to \in Changed : to \in LoopState /\ to.task = L.task /\ to.claim = L.claim
  <2> HIDE DEF L
  <2> QED
    BY <1>0, <1>4 DEF LoopState, Monitor
<1>7. ASSUME NEW result \in Terminal
      PROVE  /\ Stopped(result) \in LoopState
             /\ Stopped(result).task = L.task /\ Stopped(result).claim = L.claim
  <2> HIDE DEF L
  <2> QED
    BY <1>0 DEF LoopState, Point, Monitor
<1> HIDE DEF Changed, Stopped
<1>8. LoopTypes' /\ \A v \in Worker : Follows(v)
  BY <1>1, <1>5, <1>6, <1>7, EndsFollowed, StaysOrLetsGo
<1> QED
  BY <1>3, <1>8

\* The recording of the result.
LEMMA FinalSteps ==
    ASSUME LoopTypes, NEW w \in Worker,
           LoopFinalizesPlain(w) \/ \E output \in Reports : LoopFinalizesGoal(w, output)
    PROVE  TableStep /\ LoopTypes' /\ \A v \in Worker : Follows(v)
<1> DEFINE t == loop[w].task
           s == loop[w].result
<1>0. /\ Busy(w) /\ t \in Task /\ s \in Terminal /\ loop[w].attempt \in Nat
      /\ loop[w].at = "finalizing"
  BY DEF LoopFinalizesPlain, LoopFinalizesGoal, LoopTypes, LoopState, Busy
<1>1. CASE LoopFinalizesPlain(w)
  <2>1. (Ends(w) /\ Nothing) \/ (Emits(w, s, TRUE, FALSE) /\ Records(w, t, s))
    BY <1>1 DEF LoopFinalizesPlain, Nothing, Records
  <2> HIDE DEF t, s
  <2> QED
    BY <1>0, <2>1, EndsFollowed, EmitsFollowed DEF TableStep
<1>2. ASSUME NEW output \in Reports, LoopFinalizesGoal(w, output)
      PROVE  TableStep /\ LoopTypes' /\ \A v \in Worker : Follows(v)
  <2> DEFINE report == IF loop[w].metered THEN output ELSE 0
             i == loop[w].attempt
  <2>1. report \in Nat \cup {Unavailable}
    BY BudgetAssumption
  <2>2. \/ /\ Nothing
           /\ Ends(w) \/ Emits(w, s, TRUE, goalStatus[GroupOf[t]] = "budget-limited")
        \/ /\ Accounts(w, t, i, s, report)
           /\ Emits(w, s, TRUE, LimitAfter(GroupOf[t], report) # "none")
    BY <1>2 DEF LoopFinalizesGoal, Nothing, Accounts
  <2>3. TableStep
    <3> HIDE DEF report, t, s, i
    <3> QED
      BY <1>0, <2>1, <2>2 DEF TableStep, i
  <2>4. \A stop : Emits(w, s, TRUE, stop) => LoopTypes' /\ \A v \in Worker : Follows(v)
    BY <1>0, EmitsFollowed
  <2> QED
    BY <2>2, <2>3, <2>4, EndsFollowed
<1> QED
  BY <1>1, <1>2

\* Every step is one of these to the tables, and each loop follows its task.
LEMMA LoopSteps ==
    ASSUME TypeInv, LoopTypes, [LoopNext]_allVars
    PROVE  TableStep /\ LoopTypes' /\ \A v \in Worker : Follows(v)
<1>1. ASSUME NEW w \in Worker, LoopStep(w)
      PROVE  TableStep /\ LoopTypes' /\ \A v \in Worker : Follows(v)
  BY <1>1, EarlySteps, TakeSteps, MonitorSteps, FinalSteps DEF LoopStep
<1>2. CASE UNCHANGED loop
  <2>1. LoopTypes' /\ \A v \in Worker : Follows(v)
    BY <1>2 DEF LoopTypes, Follows, Busy
  <2>2. CASE LoopNext
    <3>1. (\E w \in Worker : LoopStep(w)) \/ TableStep
      BY <2>2 DEF LoopNext, TableStep, Elsewhere
    <3> QED
      BY <1>1, <2>1, <3>1
  <2>3. CASE UNCHANGED allVars
    BY <2>1, <2>3 DEF allVars, TableStep, Nothing
  <2> QED
    BY <2>2, <2>3
<1> QED
  BY <1>1, <1>2 DEF LoopNext, allVars

-----------------------------------------------------------------------------
(* What the tables rely on                                                  *)

\* No task has more attempts than the bound allows for.
LenBounded == \A t \in Task : Len(attempts[t]) <= MaxAttempts

\* A list of attempts has grown by attempts of who, if it has grown.
Grown(log, new, who) ==
    /\ DOMAIN log \subseteq DOMAIN new
    /\ \A j \in DOMAIN new :
          new[j].worker = IF j \in DOMAIN log THEN log[j].worker ELSE who

\* Closing attempts leaves their number and their workers.
LEMMA ClosedGrown ==
    ASSUME NEW log \in Seq(Attempt), NEW o, NEW who
    PROVE  /\ Grown(log, log, who)
           /\ Grown(log, CloseLatest(log, o), who) /\ Len(CloseLatest(log, o)) = Len(log)
           /\ Grown(log, CloseAllOpen(log, o), who) /\ Len(CloseAllOpen(log, o)) = Len(log)
<1>1. \A new : Continues(log, new) /\ DOMAIN new = DOMAIN log => Grown(log, new, who)
  BY DEF Grown, Continues
<1>2. DOMAIN CloseLatest(log, o) = DOMAIN log /\ DOMAIN CloseAllOpen(log, o) = DOMAIN log
  BY DEF CloseLatest, CloseAllOpen
<1>3. Len(CloseLatest(log, o)) = Len(log)
  BY DEF CloseLatest
<1>4. Len(CloseAllOpen(log, o)) = Len(log)
  <2>1. Len(log) \in Nat /\ DOMAIN log = 1..Len(log)
    OBVIOUS
  <2> QED
    BY <1>2, <2>1 DEF CloseAllOpen
<1> QED
  BY <1>1, <1>2, <1>3, <1>4, HistoryContinues

\* An attempt that is opened, or added as ended, is one of who.
LEMMA AppendedGrown ==
    ASSUME NEW log \in Seq(Attempt), NEW a
    PROVE  /\ Grown(log, Append(log, a), a.worker) /\ Len(Append(log, a)) = Len(log) + 1
           /\ DOMAIN Append(log, a) = 1..(Len(log) + 1)
           /\ \A i \in DOMAIN log : Append(log, a)[i] = log[i]
<1>1. log \in Seq(Attempt \cup {a})
  OBVIOUS
<1>2. /\ DOMAIN log = 1..Len(log) /\ DOMAIN Append(log, a) = 1..(Len(log) + 1)
      /\ Len(Append(log, a)) = Len(log) + 1
      /\ Len(log) \in Nat /\ Append(log, a)[Len(log) + 1] = a
      /\ \A i \in 1..Len(log) : Append(log, a)[i] = log[i]
  BY <1>1
<1> QED
  BY <1>2 DEF Grown

\* What a status change does to the attempts of a task: it opens or adds none
\* but of nobody, and only to be finished makes it finish the latest open one.
LEMMA AfterGrown ==
    ASSUME NEW log \in Seq(Attempt), NEW s \in Status
    PROVE  LET new == AttemptsAfter(EventForStatus(s), log, s)
           IN  /\ Grown(log, new, NoWorker)
               /\ s = "todo" => Len(new) = Len(log)
               /\ \A i \in OpenAttempts(log) :
                     new[i].outcome \in Terminal => s \in Terminal /\ i = LatestOpen(log)
<1> DEFINE new == AttemptsAfter(EventForStatus(s), log, s)
           opened == [worker |-> NoWorker, outcome |-> "open"]
           ended == [worker |-> NoWorker, outcome |-> s]
<1>1. \A i \in OpenAttempts(log) : i \in DOMAIN log /\ log[i].outcome \notin Terminal /\ log[i] \in Attempt
  BY DEF OpenAttempts, Terminal
<1>2. \A i \in OpenAttempts(log) : i # LatestOpen(log) => CloseLatest(log, s)[i] = log[i]
  BY DEF CloseLatest, OpenAttempts
<1>3. s = "todo" => \A i \in OpenAttempts(log) : CloseLatest(log, s)[i].outcome \notin Terminal
  BY <1>1 DEF CloseLatest, Attempt, Terminal
<1>4. CASE s = "todo"
  <2>1. new = CloseLatest(log, s)
    BY <1>4 DEF EventForStatus, AttemptsAfter, Terminal
  <2> HIDE DEF new
  <2>2. Grown(log, new, NoWorker) /\ Len(new) = Len(log)
    BY <2>1, ClosedGrown
  <2> QED
    BY <1>3, <1>4, <2>1, <2>2 DEF new
<1>5. CASE s = "doing"
  <2>1. new = Append(log, opened)
    BY <1>5 DEF EventForStatus, AttemptsAfter, OpenAttempt, Terminal
  <2>2. Grown(log, new, opened.worker) /\ \A i \in DOMAIN log : new[i] = log[i]
    BY <2>1, AppendedGrown
  <2> HIDE DEF new
  <2> QED
    BY <1>1, <1>5, <2>2 DEF new
<1>6. CASE s \in Terminal
  <2>1. new = IF OpenAttempts(log) # {} THEN CloseLatest(log, s) ELSE Append(log, ended)
    BY <1>6 DEF EventForStatus, AttemptsAfter, Terminal
  <2>2. Grown(log, CloseLatest(log, s), NoWorker) /\ Grown(log, Append(log, ended), NoWorker)
    <3>1. ended.worker = NoWorker
      OBVIOUS
    <3> HIDE DEF ended
    <3> QED
      BY <3>1, ClosedGrown, AppendedGrown
  <2> HIDE DEF new, ended
  <2>3. Grown(log, new, NoWorker)
    BY <2>1, <2>2
  <2>4. \A i \in OpenAttempts(log) : new[i].outcome \in Terminal => i = LatestOpen(log)
    BY <1>1, <1>2, <2>1
  <2> QED
    BY <1>6, <2>3, <2>4 DEF new, Terminal
<1>7. CASE s \notin {"todo", "doing"} /\ s \notin Terminal
  <2>1. new = log
    BY <1>7 DEF EventForStatus, AttemptsAfter, Terminal, Status
  <2>2. Grown(log, new, NoWorker)
    BY <2>1, ClosedGrown
  <2> HIDE DEF new
  <2> QED
    BY <1>1, <1>7, <2>1, <2>2 DEF new
<1> QED
  BY <1>4, <1>5, <1>6, <1>7

\* Nobody finishes a task by hand.
HandsOff == Commands \cap {"set", "force"} = {}

\* What others do to the attempts of x is what a status change does.
HandStep(x) ==
    \/ attempts'[x] = attempts[x]
    \/ \E s \in Status :
          /\ attempts'[x] = AttemptsAfter(EventForStatus(s), attempts[x], s)
          /\ s = "todo" \/ Len(attempts'[x]) <= MaxAttempts
          /\ HandsOff => s \notin Terminal

\* An update of a row is such a step.
LEMMA UpdateHand ==
    ASSUME TypeInv, NEW t \in Task, NEW s \in Status, NEW r,
           UpdateTask(t, r, EventForStatus(s)), r.status = s,
           HandsOff => s \notin Terminal, NEW x \in Task
    PROVE  HandStep(x)
<1>1. /\ attempts' = [attempts EXCEPT ![t] = AttemptsAfter(EventForStatus(s), attempts[t], s)]
      /\ Len(attempts'[t]) <= MaxAttempts
  BY DEF UpdateTask, WithinAttempts
<1> QED
  BY <1>1 DEF HandStep, TypeInv, TypeOK

\* So is a set.
LEMMA ApplyHand ==
    ASSUME TypeInv, NEW t \in Task, NEW s \in Status, NEW staged, ApplyStatusAndStage(t, s, staged),
           HandsOff => s \notin Terminal, NEW x \in Task
    PROVE  HandStep(x)
<1> DEFINE r == SetStatus(row[t], s, now)
<1>1. row[t] \in Row /\ now \in Nat
  BY DEF TypeInv, TypeOK
<1>2. r.status = s
  BY <1>1, SetStatusType
<1>3. UpdateTask(t, r, EventForStatus(s))
  BY DEF ApplyStatusAndStage
<1> HIDE DEF r
<1> QED
  BY <1>2, <1>3, UpdateHand

\* And whatever else happens that is no worker's doing.
LEMMA ElsewhereHand ==
    ASSUME TypeInv, Elsewhere, NEW x \in Task
    PROVE  HandStep(x)
<1>0. \A t \in Task : row[t] \in Row /\ now \in Nat
  BY DEF TypeInv, TypeOK
<1>1. ASSUME UNCHANGED attempts PROVE HandStep(x)
  BY <1>1 DEF HandStep
<1>2. CASE Operating
  <2>1. ASSUME NEW t \in Task, NEW s \in Status, NEW staged,
               SetUnfenced(t, s, staged) \/ SetForced(t, s, staged)
        PROVE  HandStep(x)
    <3>1. ApplyStatusAndStage(t, s, staged) /\ ~HandsOff
      BY <2>1 DEF SetUnfenced, SetForced, HandsOff
    <3> QED
      BY <3>1, ApplyHand
  <2>2. ASSUME NEW t \in Task, AuditDisapproves(t) PROVE HandStep(x)
    BY <2>2, ApplyHand DEF AuditDisapproves, Status, Terminal
  <2>3. ASSUME NEW t \in Task, NEW s \in {"todo", "doing"}, NEW a,
               UpdateTask(t, [SetStatus(row[t], s, now) EXCEPT !.avail = a], EventForStatus(s))
        PROVE  HandStep(x)
    <3> DEFINE set == SetStatus(row[t], s, now)
               r == [set EXCEPT !.avail = a]
    <3>1. s \in Status /\ s \notin Terminal
      BY DEF Status, Terminal
    <3>2. set \in Row /\ set.status = s
      BY <1>0, <3>1, SetStatusType
    <3> HIDE DEF set
    <3>3. r.status = s
      BY <3>2 DEF Row
    <3>4. UpdateTask(t, r, EventForStatus(s))
      BY <2>3 DEF set
    <3> HIDE DEF r
    <3> QED
      BY <3>1, <3>3, <3>4, UpdateHand
  <2>4. ASSUME NEW t \in Task, RetryManual(t) PROVE HandStep(x)
    <3>1. EventForStatus("doing") = "claimed"
      BY DEF EventForStatus
    <3> QED
      BY <2>3, <2>4, <3>1 DEF RetryManual
  <2>5. ASSUME NEW t \in Task, NEW a, RetryDeferred(t, a) PROVE HandStep(x)
    <3>1. EventForStatus("todo") = "requeued"
      BY DEF EventForStatus
    <3> QED
      BY <2>3, <2>5, <3>1 DEF RetryDeferred
  <2> QED
    BY <1>1, <1>2, <2>1, <2>2, <2>4, <2>5 DEF Operating, Arranging
<1>3. CASE Reaping
  <2>1. ASSUME NEW r \in Reaper, NEW t \in Task, ReaperRequeue(r, t) PROVE HandStep(x)
    <3>1. attempts' = [attempts EXCEPT ![t] = AttemptsAfter(EventForStatus("todo"), attempts[t], "todo")]
      BY <2>1 DEF ReaperRequeue, EventForStatus
    <3> QED
      BY <3>1 DEF HandStep, Status, Terminal, TypeInv, TypeOK
  <2> QED
    BY <1>1, <1>3, <2>1 DEF Reaping, ReaperStep, ReaperScan, ReaperSkip, ReaperFail, ReaperKill
<1> QED
  BY <1>1, <1>2, <1>3 DEF Elsewhere, Adding, Add, AddBlockedBy, CreateGoal, Tick

-----------------------------------------------------------------------------
(* The invariants of the loops                                              *)

\* A renewed lease.
LEMMA RenewStep ==
    ASSUME TypeInv, NEW w \in Worker, NEW t \in Task, Heartbeat(t, w, Lease)
    PROVE  TypeInv' /\ \A x \in Task : LifeStep(x) /\ StepOn(x)
<1> DEFINE r == [row[t] EXCEPT !.lease = LeaseFrom(Lease)]
<1>1. row[t] \in Row /\ LeaseFrom(Lease) \in Nat /\ row[t].status = "doing"
  BY LoopAssumption DEF LeaseFrom, TypeInv, TypeOK, Heartbeat
<1>2. /\ r \in Row /\ r.status = "doing" /\ r.ordinal = row[t].ordinal
      /\ r.started = row[t].started /\ row' = [row EXCEPT ![t] = r]
  BY <1>1 DEF Heartbeat, Row
<1> HIDE DEF r
<1>3. TypeInv'
  <2>1. row' \in [Task -> Row] /\ OrdinalsBounded'
    BY <1>2, RowReplaced
  <2> QED
    BY <2>1 DEF Heartbeat, TypeInv, TypeOK
<1>4. ASSUME NEW x \in Task PROVE LifeStep(x) /\ StepOn(x)
  <2>1. attempts'[x] = attempts[x] /\ row'[x] = IF x = t THEN r ELSE row[x]
    BY <1>2 DEF Heartbeat, TypeInv, TypeOK
  <2>2. row[x].status \in Status \cup Absent
    BY DEF TypeInv, TypeOK, Row
  <2>3. CASE x = t
    BY <1>1, <1>2, <2>1, <2>3 DEF LifeStep, StepOn, DoingAfter, GoesOn, LeaseAfter, Status
  <2>4. CASE x # t
    BY <2>1, <2>2, <2>4, UnchangedLife, UnchangedStepOn
  <2> QED
    BY <2>3, <2>4
<1> QED
  BY <1>3, <1>4

\* A claim by a loop.
LEMMA TakenStep ==
    ASSUME TypeInv, NEW w \in Worker, NEW t \in Task, ClaimNext(t, w, Lease)
    PROVE  TypeInv' /\ \A x \in Task : LifeStep(x) /\ StepOn(x)
<1>1. Lease \in Nat /\ Claim(t, w, Lease) /\ ReadyWith(t, gates[t]) /\ row[t].status = "todo"
  BY LoopAssumption DEF ClaimNext, Ready, ReadyWith
<1>2. /\ row' \in [Task -> Row] /\ OrdinalsBounded'
      /\ attempts' \in [Task -> Seq(Attempt)] /\ goalStatus' \in [Group -> GoalStatus]
  BY <1>1, ClaimType
<1>3. TypeInv'
  BY <1>2 DEF ClaimNext, TypeInv, TypeOK
<1>4. \A x \in Task : LifeStep(x)
  BY <1>1, ClaimLife
<1>5. \A x \in Task : StepOn(x)
  BY <1>1, ClaimStepOn
<1> QED
  BY <1>3, <1>4, <1>5

\* A limit ends whatever is doing in its goal, and leaves the rest as it is.
LEMMA LimitStepOn ==
    ASSUME NEW g, NEW rows, NEW logs, NEW why, Midway(rows, logs),
           LimitGoalTasks(g, rows, logs, why), NEW x \in Task,
           \/ rows[x] = row[x] /\ logs[x] = attempts[x]
           \/ rows[x].status # "doing" /\ rows[x].lease = 0
    PROVE  StepOn(x)
<1>1. CASE x \in Suspended(rows, g)
  <2>1. row'[x] = MarkEnded(rows[x], "budget-limited") /\ rows[x] \in Row
    BY <1>1 DEF LimitGoalTasks, Midway
  <2>2. row'[x].status = "budget-limited" /\ row'[x].lease = 0
    BY <2>1 DEF MarkEnded, Row
  <2> QED
    BY <2>2, EndedStepOn
<1>2. CASE x \notin Suspended(rows, g)
  <2>1. row'[x] = rows[x] /\ attempts'[x] = logs[x]
    BY <1>2 DEF LimitGoalTasks
  <2> QED
    BY <2>1, UnchangedStepOn, EndedStepOn
<1> QED
  BY <1>1, <1>2

\* So the transactions of a budget start no work.
LEMMA BudgetingStepOn ==
    ASSUME TypeInv, NEW x \in Task,
           \/ \E t \in Task : PrepareGoalInvocation(t)
           \/ \E t \in Task, i \in Nat, w \in Worker, s \in Terminal, report \in Nat \cup {Unavailable} :
                 FinalizeGoalInvocation(t, i, w, s, report)
           \/ \E g \in Group, newCaps \in CapSets : ResumeGoal(g, newCaps)
    PROVE  StepOn(x)
<1>0. /\ row = [t \in Task |-> row[t]] /\ \A t \in Task : row[t] \in Row
      /\ attempts = [t \in Task |-> attempts[t]]
  BY DEF TypeInv, TypeOK
<1>1. ASSUME NEW t \in Task, PrepareGoalInvocation(t) PROVE StepOn(x)
  <2>1. \/ LimitGoalTasks(GroupOf[t], row, attempts, "max-duration")
        \/ UNCHANGED <<row, attempts>>
    BY <1>1 DEF PrepareGoalInvocation
  <2> QED
    BY <2>1, MidwayNow, LimitStepOn, UnchangedStepOn
<1>2. ASSUME NEW t \in Task, NEW i \in Nat, NEW w \in Worker, NEW s \in Terminal,
             NEW report \in Nat \cup {Unavailable}, FinalizeGoalInvocation(t, i, w, s, report)
      PROVE  StepOn(x)
  <2> DEFINE r == MarkEnded(row[t], s)
             log == AttemptsAfter(s, attempts[t], s)
             ended == [row EXCEPT ![t] = r]
             logs == [attempts EXCEPT ![t] = log]
  <2>1. t \in Present /\ r.status = s /\ r.lease = 0 /\ s # "doing"
    BY <1>0, <1>2 DEF FinalizeGoalInvocation, MarkEnded, Row, Terminal
  <2>2. Midway(ended, logs)
    BY <2>1, MidwayEnded
  <2>3. \/ LimitGoalTasks(GroupOf[t], ended, logs, LimitAfter(GroupOf[t], report))
        \/ row' = ended /\ attempts' = logs
    BY <1>2 DEF FinalizeGoalInvocation
  <2>4. \/ ended[x] = row[x] /\ logs[x] = attempts[x]
        \/ ended[x].status # "doing" /\ ended[x].lease = 0
    <3> HIDE DEF r, log
    <3> QED
      BY <1>0, <2>1
  <2> HIDE DEF ended, logs
  <2> QED
    BY <2>2, <2>3, <2>4, LimitStepOn, UnchangedStepOn, EndedStepOn
<1>3. ASSUME NEW g \in Group, NEW newCaps \in CapSets, ResumeGoal(g, newCaps) PROVE StepOn(x)
  <2>1. attempts' = attempts /\ (row'[x] = row[x] \/ row'[x] = Reset(row[x]))
    BY <1>3 DEF ResumeGoal
  <2>2. Reset(row[x]).status = "todo" /\ Reset(row[x]).lease = 0
    BY <1>0 DEF Reset, Row
  <2> QED
    BY <2>1, <2>2, UnchangedStepOn, EndedStepOn
<1> QED
  BY <1>1, <1>2, <1>3

\* The types of the tables, what is counted, who owns what is being worked on.
TablesInv ==
    /\ TypeInv /\ BudgetTypes /\ AccountedInv
    /\ DoingIsOwnedAndReclaimable /\ LenBounded

\* The attempt that is accounted for is one of a bounded list.
LEMMA AccountsWithin ==
    ASSUME TablesInv, NEW w \in Worker, NEW t \in Task, NEW i \in Nat, NEW s, NEW report,
           Accounts(w, t, i, s, report)
    PROVE  i \in 1..MaxAttempts
<1>1. /\ attempts[t] \in Seq(Attempt) /\ Len(attempts[t]) <= MaxAttempts
      /\ i \in DOMAIN attempts[t]
  BY DEF TablesInv, TypeInv, TypeOK, LenBounded, Accounts, FinalizeGoalInvocation
<1>2. Len(attempts[t]) \in Nat /\ MaxAttempts \in Nat /\ i \in 1..Len(attempts[t])
  BY <1>1, QueueAssumption
<1> QED
  BY <1>1, <1>2

\* What every step on the tables keeps, and is.
LEMMA TableFacts ==
    ASSUME TablesInv, TableStep
    PROVE  /\ TypeInv' /\ BudgetTypes' /\ AccountedInv'
           /\ \A x \in Task : LifeStep(x) /\ StepOn(x)
<1>0. TypeInv /\ BudgetTypes /\ AccountedInv
  BY DEF TablesInv
<1>1. ASSUME UNCHANGED budgetVars, TypeInv', \A x \in Task : LifeStep(x) /\ StepOn(x)
      PROVE  BudgetTypes' /\ AccountedInv'
  BY <1>0, <1>1, AccountedKept DEF budgetVars, BudgetTypes
<1>2. CASE Elsewhere \/ Nothing
  <2>1. [Next]_vars /\ UNCHANGED budgetVars
    BY <1>2 DEF Elsewhere, Nothing, Next
  <2>2. TypeInv' /\ \A x \in Task : LifeStep(x) /\ StepOn(x)
    BY <1>0, <2>1, TypeStep, NextLife, NextStepOn
  <2> QED
    BY <1>1, <2>1, <2>2
<1>3. ASSUME NEW w \in Worker, NEW t \in Task, Takes(w, t) \/ Renews(w, t)
      PROVE  /\ TypeInv' /\ BudgetTypes' /\ AccountedInv'
             /\ \A x \in Task : LifeStep(x) /\ StepOn(x)
  BY <1>0, <1>1, <1>3, TakenStep, RenewStep DEF Takes, Renews
<1>4. ASSUME NEW w \in Worker, NEW t \in Task, NEW s \in Terminal, Records(w, t, s)
      PROVE  /\ TypeInv' /\ BudgetTypes' /\ AccountedInv'
             /\ \A x \in Task : LifeStep(x) /\ StepOn(x)
  <2>1. /\ s \in Status /\ s # "doing" /\ t \in Present
        /\ ApplyStatusAndStage(t, s, FALSE) /\ UNCHANGED budgetVars
    BY <1>4 DEF Records, WorkerFence, Present, Terminal, Status
  <2>2. TypeInv'
    BY <1>0, <2>1, ApplyStatusType
  <2>3. \A x \in Task : LifeStep(x)
    BY <1>0, <2>1, ApplyStatusLife
  <2>4. \A x \in Task : StepOn(x)
    BY <1>0, <2>1, ApplyStatusStepOn
  <2> QED
    BY <1>1, <2>1, <2>2, <2>3, <2>4
<1>5. ASSUME NEW w \in Worker, NEW t \in Task, NEW i \in Nat, NEW s \in Terminal,
             NEW report \in Nat \cup {Unavailable}, Accounts(w, t, i, s, report)
      PROVE  /\ TypeInv' /\ BudgetTypes' /\ AccountedInv'
             /\ \A x \in Task : LifeStep(x) /\ StepOn(x)
  <2>1. i \in 1..MaxAttempts /\ FinalizeGoalInvocation(t, i, w, s, report)
    BY <1>5, AccountsWithin DEF Accounts
  <2> QED
    BY <1>0, <2>1, FinalizeStep, FinalizeAccounted, BudgetingStepOn DEF Transaction
<1>6. ASSUME NEW t \in Task, PrepareGoalInvocation(t)
      PROVE  /\ TypeInv' /\ BudgetTypes' /\ AccountedInv'
             /\ \A x \in Task : LifeStep(x) /\ StepOn(x)
  <2>1. TypeInv' /\ BudgetTypes' /\ \A x \in Task : LifeStep(x) /\ StepOn(x)
    BY <1>0, <1>6, PrepareStep, BudgetingStepOn DEF Transaction
  <2> QED
    BY <1>0, <1>6, <2>1, AccountedKept DEF PrepareGoalInvocation
<1>7. ASSUME NEW g \in Group, NEW newCaps \in CapSets, ResumeGoal(g, newCaps)
      PROVE  /\ TypeInv' /\ BudgetTypes' /\ AccountedInv'
             /\ \A x \in Task : LifeStep(x) /\ StepOn(x)
  <2>1. TypeInv' /\ BudgetTypes' /\ \A x \in Task : LifeStep(x) /\ StepOn(x)
    BY <1>0, <1>7, ResumeStep, BudgetingStepOn DEF Transaction
  <2> QED
    BY <1>0, <1>7, <2>1, AccountedKept DEF ResumeGoal
<1> QED
  BY <1>2, <1>3, <1>4, <1>5, <1>6, <1>7 DEF TableStep

-----------------------------------------------------------------------------
(* What becomes of the attempts of a task                                   *)

\* The loop of w, which has x in its hands and owns it, ends its attempt; a
\* limit of the goal in the same transaction finds none open any more.
EndedBy(w, x) ==
    /\ loop[w].at \in {"prepared", "finalizing"} /\ loop[w].task = x
    /\ row[x].status = "doing" /\ Owner(x) = w
    /\ \E s \in Terminal :
          \/ attempts'[x] = CloseLatest(attempts[x], s)
          \/ attempts'[x] = CloseAllOpen(CloseLatest(attempts[x], s), "budget-limited")

OpenedBy(w, x) ==
    /\ Takes(w, x)
    /\ attempts'[x] = OpenAttempt(attempts[x], w) /\ Len(attempts'[x]) <= MaxAttempts

\* The four things that may become of them.
LogStep(x) ==
    \/ HandStep(x)
    \/ attempts'[x] = CloseAllOpen(attempts[x], "budget-limited")
    \/ \E w \in Worker : OpenedBy(w, x)
    \/ \E w \in Worker : EndedBy(w, x)

\* The latest open attempt of a task that is being worked on is its last one.
LEMMA LatestIsLast ==
    ASSUME TypeInv, DoingIsOwnedAndReclaimable, NEW t \in Task, row[t].status = "doing"
    PROVE  /\ attempts[t] \in Seq(Attempt) /\ Len(attempts[t]) \in OpenAttempts(attempts[t])
           /\ Owner(t) = attempts[t][Len(attempts[t])].worker
           /\ \A i : IsLatestOpen(attempts[t], i) => i = Len(attempts[t])
           /\ LatestOpen(attempts[t]) = Len(attempts[t])
           /\ \A s \in Terminal :
                 /\ AttemptsAfter(s, attempts[t], s) = CloseLatest(attempts[t], s)
                 /\ EventForStatus(s) = s
<1>1. attempts[t] \in Seq(Attempt) /\ Len(attempts[t]) \in OpenAttempts(attempts[t])
  BY DEF TypeInv, TypeOK, DoingIsOwnedAndReclaimable
<1>2. Owner(t) = attempts[t][Len(attempts[t])].worker
  BY <1>1, LastOpenOwns DEF Owner
<1>3. ASSUME NEW i, IsLatestOpen(attempts[t], i) PROVE i = Len(attempts[t])
  BY <1>1, <1>3 DEF IsLatestOpen, OpenAttempts
<1>4. LatestOpen(attempts[t]) = Len(attempts[t])
  BY <1>1, <1>3, LatestOpenIsOpen
<1>5. ASSUME NEW s \in Terminal
      PROVE  /\ AttemptsAfter(s, attempts[t], s) = CloseLatest(attempts[t], s)
             /\ EventForStatus(s) = s
  BY <1>1 DEF AttemptsAfter, EventForStatus, Terminal
<1> QED
  BY <1>1, <1>2, <1>3, <1>4, <1>5

\* The end of an attempt, recorded by a fenced set.
LEMMA RecordsEnd ==
    ASSUME TablesInv, NEW w \in Worker, NEW t \in Task, NEW s \in Terminal, Records(w, t, s),
           NEW x \in Task
    PROVE  LogStep(x)
<1>1. /\ row[t].status = "doing" /\ Owner(t) = w
      /\ attempts' = [attempts EXCEPT ![t] = AttemptsAfter(EventForStatus(s), attempts[t],
                                                SetStatus(row[t], s, now).status)]
  BY DEF Records, WorkerFence, ApplyStatusAndStage, UpdateTask
<1>2. SetStatus(row[t], s, now).status = s
  BY SetStatusFields DEF TablesInv, TypeInv, TypeOK, Terminal, Status
<1>3. attempts' = [attempts EXCEPT ![t] = CloseLatest(attempts[t], s)]
  BY <1>1, <1>2, LatestIsLast DEF TablesInv
<1>4. attempts'[x] = IF x = t THEN CloseLatest(attempts[t], s) ELSE attempts[x]
  BY <1>3 DEF TablesInv, TypeInv, TypeOK
<1> QED
  BY <1>1, <1>4 DEF Records, LogStep, EndedBy, HandStep

\* The end of an attempt, accounted for by the transaction of its goal.
LEMMA AccountsEnd ==
    ASSUME TablesInv, NEW w \in Worker, NEW t \in Task, NEW i \in Nat, NEW s \in Terminal,
           NEW report, Accounts(w, t, i, s, report), NEW x \in Task
    PROVE  LogStep(x)
<1> DEFINE ended == [row EXCEPT ![t] = MarkEnded(@, s)]
           log == AttemptsAfter(s, attempts[t], s)
           logs == [attempts EXCEPT ![t] = log]
<1>1. /\ row[t].status = "doing" /\ attempts[t][i].worker = w /\ IsLatestOpen(attempts[t], i)
      /\ loop[w].at = "finalizing" /\ loop[w].task = t
  BY DEF Accounts, FinalizeGoalInvocation, Settled, MayFinalize
<1>2. log = CloseLatest(attempts[t], s) /\ Owner(t) = w
  BY <1>1, LatestIsLast DEF TablesInv
<1>3. attempts' = logs \/ \E g, why : LimitGoalTasks(g, ended, logs, why)
  BY DEF Accounts, FinalizeGoalInvocation
<1>4. logs[x] = IF x = t THEN log ELSE attempts[x]
  BY DEF TablesInv, TypeInv, TypeOK
<1> HIDE DEF logs, ended
<1>5. attempts'[x] = logs[x] \/ attempts'[x] = CloseAllOpen(logs[x], "budget-limited")
  BY <1>3 DEF LimitGoalTasks
<1> HIDE DEF log
<1> QED
  BY <1>1, <1>2, <1>4, <1>5 DEF LogStep, EndedBy, HandStep

\* What becomes of them in any step on the tables.
LEMMA LogSteps ==
    ASSUME TablesInv, TableStep, NEW x \in Task
    PROVE  LogStep(x)
<1>0. TypeInv /\ attempts \in [Task -> Seq(Attempt)]
  BY DEF TablesInv, TypeInv, TypeOK
<1>1. CASE Elsewhere
  BY <1>0, <1>1, ElsewhereHand DEF LogStep
<1>2. CASE UNCHANGED attempts
  BY <1>2 DEF LogStep, HandStep
<1>3. ASSUME NEW w \in Worker, NEW t \in Task, Takes(w, t) PROVE LogStep(x)
  <2>1. /\ attempts' = [attempts EXCEPT ![t] = OpenAttempt(attempts[t], w)]
        /\ Len(attempts'[t]) <= MaxAttempts
    BY <1>3 DEF Takes, ClaimNext, Claim, WithinAttempts
  <2> QED
    BY <1>0, <1>3, <2>1 DEF LogStep, OpenedBy, HandStep
<1>4. ASSUME NEW t \in Task, PrepareGoalInvocation(t) PROVE LogStep(x)
  BY <1>0, <1>4 DEF PrepareGoalInvocation, LimitGoalTasks, LogStep, HandStep
<1>5. ASSUME Nothing \/ \E w \in Worker, t \in Task : Renews(w, t) PROVE LogStep(x)
  BY <1>2, <1>5 DEF Nothing, vars, Renews, Heartbeat
<1>6. ASSUME NEW g \in Group, NEW newCaps \in CapSets, ResumeGoal(g, newCaps) PROVE LogStep(x)
  BY <1>2, <1>6 DEF ResumeGoal
<1> QED
  BY <1>1, <1>2, <1>3, <1>4, <1>5, <1>6, RecordsEnd, AccountsEnd DEF TableStep

\* So the attempts of a task stay within the bound, and are those it had and
\* those that nobody, or a loop that is not busy, opened.
LEMMA LogsGrow ==
    ASSUME TablesInv, NEW x \in Task, LogStep(x)
    PROVE  /\ Len(attempts'[x]) <= MaxAttempts
           /\ \/ Grown(attempts[x], attempts'[x], NoWorker)
              \/ \E w \in Worker : Takes(w, x) /\ Grown(attempts[x], attempts'[x], w)
<1> DEFINE log == attempts[x]
           new == attempts'[x]
<1>0. log \in Seq(Attempt) /\ Len(log) <= MaxAttempts
  BY DEF TablesInv, TypeInv, TypeOK, LenBounded
<1>1. CASE HandStep(x)
  <2>1. CASE new = log
    BY <1>0, <2>1, ClosedGrown
  <2>2. ASSUME NEW s \in Status, new = AttemptsAfter(EventForStatus(s), log, s),
               s = "todo" \/ Len(new) <= MaxAttempts
        PROVE  Grown(log, new, NoWorker) /\ Len(new) <= MaxAttempts
    BY <1>0, <2>2, AfterGrown
  <2> QED
    BY <1>1, <2>1, <2>2, <1>0 DEF HandStep
<1>2. CASE new = CloseAllOpen(log, "budget-limited")
  BY <1>0, <1>2, ClosedGrown
<1>3. ASSUME NEW w \in Worker, OpenedBy(w, x)
      PROVE  Takes(w, x) /\ Grown(log, new, w) /\ Len(new) <= MaxAttempts
  <2>1. new = Append(log, [worker |-> w, outcome |-> "open"])
    BY <1>3 DEF OpenedBy, OpenAttempt
  <2> QED
    BY <1>0, <1>3, <2>1, AppendedGrown DEF OpenedBy
<1>4. ASSUME NEW w \in Worker, EndedBy(w, x)
      PROVE  Grown(log, new, NoWorker) /\ Len(new) <= MaxAttempts
  <2>1. PICK s \in Terminal : \/ new = CloseLatest(log, s)
                              \/ new = CloseAllOpen(CloseLatest(log, s), "budget-limited")
    BY <1>4 DEF EndedBy
  <2> DEFINE closed == CloseLatest(log, s)
  <2>2. closed \in Seq(Attempt)
    <3>1. closed = AttemptsAfter(s, log, s)
      BY <1>4, LatestIsLast DEF EndedBy, TablesInv
    <3> QED
      BY <1>0, <3>1, AttemptsAfterType DEF Terminal
  <2>3. Grown(log, closed, NoWorker) /\ Len(closed) = Len(log)
    BY <1>0, ClosedGrown
  <2> HIDE DEF closed
  <2>4. LET all == CloseAllOpen(closed, "budget-limited")
        IN  Grown(closed, all, NoWorker) /\ Len(all) = Len(closed)
    BY <2>2, ClosedGrown
  <2>5. \A a, b, c : Grown(a, b, NoWorker) /\ Grown(b, c, NoWorker) => Grown(a, c, NoWorker)
    BY DEF Grown
  <2>6. new = closed \/ new = CloseAllOpen(closed, "budget-limited")
    BY <2>1 DEF closed
  <2>7. Grown(log, new, NoWorker)
    BY <2>3, <2>4, <2>5, <2>6
  <2> QED
    BY <1>0, <2>3, <2>4, <2>6, <2>7
<1> QED
  BY <1>1, <1>2, <1>3, <1>4 DEF LogStep

\* The invariant: besides, a loop that is busy claimed the latest attempt of
\* its own that its task has.
ClaimsFollowed ==
    \A w \in Worker : Busy(w) =>
        LET log == attempts[loop[w].task]
        IN  /\ loop[w].claim \in DOMAIN log
            /\ \A j \in DOMAIN log : log[j].worker = w => j <= loop[w].claim

LoopInv == TablesInv /\ LoopTypes /\ ClaimsFollowed

\* No step takes a claim from a loop that follows it.
LEMMA ClaimsStay ==
    ASSUME LoopInv, TypeInv', LoopTypes', \A x \in Task : LogStep(x), NEW v \in Worker,
           Follows(v), Busy(v)'
    PROVE  LET log == attempts'[loop'[v].task]
           IN  /\ loop'[v].claim \in DOMAIN log
               /\ \A j \in DOMAIN log : log[j].worker = v => j <= loop'[v].claim
<1> DEFINE x == loop'[v].task
           claim == loop'[v].claim
<1>0. /\ x \in Task /\ attempts'[x] \in Seq(Attempt) /\ attempts[x] \in Seq(Attempt)
      /\ v # NoWorker
  BY NoWorkerAssumption DEF LoopTypes, LoopInv, TablesInv, TypeInv, TypeOK
<1>1. CASE Busy(v) /\ x = loop[v].task /\ claim = loop[v].claim
  <2>1. /\ claim \in DOMAIN attempts[x]
        /\ \A j \in DOMAIN attempts[x] : attempts[x][j].worker = v => j <= claim
    BY <1>1 DEF LoopInv, ClaimsFollowed
  <2>2. \E who : who # v /\ Grown(attempts[x], attempts'[x], who)
    <3>1. \A w : Takes(w, x) => w # v
      BY <1>1 DEF Takes, Busy
    <3>2. LogStep(x)
      BY <1>0
    <3> QED
      BY <1>0, <3>1, <3>2, LogsGrow DEF LoopInv
  <2> QED
    BY <2>1, <2>2 DEF Grown
<1>2. ASSUME NEW t \in Task, Takes(v, t), x = t, claim = Len(attempts'[t])
      PROVE  /\ claim \in DOMAIN attempts'[x]
             /\ \A j \in DOMAIN attempts'[x] : j <= claim
  <2>1. attempts'[t] = OpenAttempt(attempts[t], v)
    BY <1>2 DEF Takes, ClaimNext, Claim, LoopInv, TablesInv, TypeInv, TypeOK
  <2>2. Len(attempts'[t]) \in DOMAIN attempts'[t]
    BY <1>0, <1>2, <2>1, OpenAttemptOwns DEF OpenAttempts
  <2> QED
    BY <1>0, <1>2, <2>2
<1> QED
  BY <1>1, <1>2 DEF Follows

\* The invariant is one.
LEMMA LoopInvStep == LoopInv /\ [LoopNext]_allVars => LoopInv' /\ TableStep
<1> SUFFICES ASSUME LoopInv, [LoopNext]_allVars
             PROVE  LoopInv' /\ TableStep
  OBVIOUS
<1>1. TablesInv /\ TypeInv /\ DoingIsOwnedAndReclaimable
  BY DEF LoopInv, TablesInv
<1>2. TableStep /\ LoopTypes' /\ \A v \in Worker : Follows(v)
  BY <1>1, LoopSteps DEF LoopInv
<1>3. TypeInv' /\ BudgetTypes' /\ AccountedInv' /\ \A x \in Task : StepOn(x)
  BY <1>1, <1>2, TableFacts
<1>4. DoingIsOwnedAndReclaimable'
  BY <1>1, <1>3, OwnedAfter
<1>5. \A x \in Task : LogStep(x)
  BY <1>1, <1>2, LogSteps
<1>6. LenBounded'
  BY <1>1, <1>5, LogsGrow DEF LenBounded
<1>7. ClaimsFollowed'
  BY <1>2, <1>3, <1>5, ClaimsStay DEF ClaimsFollowed
<1> QED
  BY <1>2, <1>3, <1>4, <1>6, <1>7 DEF LoopInv, TablesInv

\* And it holds before any loop has started.
LEMMA LoopInvInit == LoopInit => LoopInv
<1> SUFFICES ASSUME LoopInit PROVE LoopInv
  OBVIOUS
<1>1. TypeInv /\ BudgetTypes /\ AccountedInv
  BY BudgetTypesInit, AccountedInit DEF LoopInit
<1>2. DoingIsOwnedAndReclaimable /\ LenBounded
  <2>1. Init /\ MaxAttempts \in Nat
    BY QueueAssumption DEF LoopInit, BudgetInit
  <2> QED
    BY <2>1 DEF Init, AbsentRow, DoingIsOwnedAndReclaimable, LenBounded
<1>3. Exited \in LoopState
  BY DEF Exited, LoopState, Point, Monitor, Terminal, Results
<1>4. \A w \in Worker : ~Busy(w)
  BY DEF LoopInit, Exited, Busy
<1> QED
  BY <1>1, <1>2, <1>3, <1>4 DEF LoopInit, LoopInv, TablesInv, LoopTypes, ClaimsFollowed

\* It holds of every state.
LEMMA LoopInvariant == LoopSpec => []LoopInv
BY LoopInvInit, LoopInvStep, PTL DEF LoopSpec

\* Whatever the loops, the operators and the reapers do, the state of every
\* loop and the tables they work on are of their types.
THEOREM LoopTypeCorrect == LoopSpec => []LoopTypeOK
<1>1. LoopInv => LoopTypeOK
  BY DEF LoopInv, TablesInv, TypeInv, BudgetTypes, LoopTypes, LoopState, BudgetTypeOK, LoopTypeOK
<1> QED
  BY <1>1, LoopInvariant, PTL

\* The usage of a goal is the number of attempts that were finalized, each
\* once, with any number of loops that die, lose their leases, replay what they
\* have finalized and start again.
THEOREM LoopCountedOnce == LoopSpec => []AccountedOnce
<1>1. LoopInv => AccountedOnce
  BY DEF LoopInv, TablesInv, AccountedInv
<1> QED
  BY <1>1, LoopInvariant, PTL

\* Where nobody finishes tasks by hand, an attempt becomes done or failed only
\* by the invocation of a loop that claimed this very attempt.
THEOREM FinishedByItsClaimant ==
    ASSUME HandsOff
    PROVE  LoopSpec => FinishedByClaimant
<1> DEFINE Finished ==
      \A t \in Task : \A i \in OpenAttempts(attempts[t]) :
          attempts'[t][i].outcome \in Terminal =>
             \E w \in Worker :
                /\ loop[w].at \in {"prepared", "finalizing"}
                /\ loop[w].task = t /\ loop[w].claim = i
<1>1. LoopInv /\ [LoopNext]_allVars => Finished
  <2> SUFFICES ASSUME LoopInv, [LoopNext]_allVars, NEW t \in Task,
                      NEW i \in OpenAttempts(attempts[t]), attempts'[t][i].outcome \in Terminal
               PROVE  \E w \in Worker :
                         /\ loop[w].at \in {"prepared", "finalizing"}
                         /\ loop[w].task = t /\ loop[w].claim = i
    OBVIOUS
  <2> DEFINE log == attempts[t]
  <2>1. TablesInv /\ TypeInv /\ DoingIsOwnedAndReclaimable /\ log \in Seq(Attempt)
    BY DEF LoopInv, TablesInv, TypeInv, TypeOK
  <2>2. LogStep(t)
    BY <2>1, LoopInvStep, LogSteps
  <2>3. i \in DOMAIN log /\ log[i].outcome = "open"
    BY DEF OpenAttempts
  <2>4. ~HandStep(t)
    <3>1. attempts'[t] # log
      BY <2>3 DEF Terminal
    <3>2. ASSUME NEW s \in Status, attempts'[t] = AttemptsAfter(EventForStatus(s), log, s)
          PROVE  s \in Terminal
      BY <2>1, <3>2, AfterGrown
    <3> QED
      BY <3>1, <3>2 DEF HandStep
  <2>5. attempts'[t] # CloseAllOpen(log, "budget-limited")
    <3>1. log[i] \in Attempt
      BY <2>1, <2>3
    <3> QED
      BY <2>3, <3>1 DEF CloseAllOpen, Attempt, Terminal
  <2>6. \A w \in Worker : ~OpenedBy(w, t)
    <3> SUFFICES ASSUME NEW w \in Worker, OpenedBy(w, t) PROVE FALSE
      OBVIOUS
    <3>1. attempts'[t] = Append(log, [worker |-> w, outcome |-> "open"])
      BY DEF OpenedBy, OpenAttempt
    <3>2. attempts'[t][i] = log[i]
      BY <2>1, <2>3, <3>1, AppendedGrown
    <3> QED
      BY <2>3, <3>2 DEF Terminal
  <2>7. PICK w \in Worker : EndedBy(w, t)
    BY <2>2, <2>4, <2>5, <2>6 DEF LogStep
  <2>8. i = Len(log) /\ log[i].worker = w
    <3>1. /\ Owner(t) = w /\ Owner(t) = log[Len(log)].worker /\ LatestOpen(log) = Len(log)
      BY <2>1, <2>7, LatestIsLast DEF EndedBy
    <3>2. PICK s \in Terminal : \/ attempts'[t] = CloseLatest(log, s)
                                \/ attempts'[t] = CloseAllOpen(CloseLatest(log, s), "budget-limited")
      BY <2>7 DEF EndedBy
    <3>3. i # Len(log) => CloseLatest(log, s)[i] = log[i] /\ i \in DOMAIN CloseLatest(log, s)
      BY <2>3, <3>1 DEF CloseLatest
    <3>4. log[i] \in Attempt
      BY <2>1, <2>3
    <3>5. i = Len(log)
      <4> DEFINE closed == CloseLatest(log, s)
      <4> HIDE DEF closed
      <4> SUFFICES ASSUME closed[i] = log[i], i \in DOMAIN closed PROVE FALSE
        BY <3>3 DEF closed
      <4>1. attempts'[t] = closed \/ attempts'[t] = CloseAllOpen(closed, "budget-limited")
        BY <3>2 DEF closed
      <4>2. attempts'[t][i].outcome \in {"open", "budget-limited"}
        BY <2>3, <3>4, <4>1 DEF CloseAllOpen, Attempt
      <4> QED
        BY <4>2 DEF Terminal
    <3> QED
      BY <3>1, <3>5
  <2>9. loop[w].at \in {"prepared", "finalizing"} /\ loop[w].task = t /\ Busy(w)
    BY <2>7 DEF EndedBy, Busy
  <2>10. loop[w].claim \in DOMAIN log /\ i <= loop[w].claim
    BY <2>3, <2>8, <2>9 DEF LoopInv, ClaimsFollowed
  <2>11. loop[w].claim = i
    <3>1. Len(log) \in Nat /\ DOMAIN log = 1..Len(log)
      BY <2>1
    <3> QED
      BY <2>8, <2>10, <3>1
  <2> QED
    BY <2>9, <2>11
<1>2. LoopInv /\ [LoopNext]_allVars => [Finished]_allVars
  BY <1>1
<1>3. LoopSpec => [][Finished]_allVars
  BY <1>2, LoopInvariant, PTL DEF LoopSpec
<1> QED
  BY <1>3 DEF FinishedByClaimant

-----------------------------------------------------------------------------
(* What the queue and the budgets promise, with the loops at work           *)

\* The history of every task is only continued.
THEOREM LoopHistoryKept == LoopSpec => AttemptHistory
<1> DEFINE Kept ==
      \A t \in Task : \A i \in DOMAIN attempts[t] :
          /\ i \in DOMAIN attempts'[t]
          /\ attempts'[t][i].worker = attempts[t][i].worker
          /\ attempts[t][i].outcome # "open" => attempts'[t][i] = attempts[t][i]
<1>1. LoopInv /\ [LoopNext]_allVars => Kept
  <2> SUFFICES ASSUME LoopInv, [LoopNext]_allVars, NEW t \in Task
               PROVE  Continues(attempts[t], attempts'[t])
    BY DEF Continues
  <2>1. LifeStep(t) /\ attempts[t] \in Seq(Attempt)
    BY LoopInvStep, TableFacts DEF LoopInv, TablesInv, TypeInv, TypeOK
  <2> QED
    BY <2>1, HistoryContinues DEF LifeStep
<1>2. LoopInv /\ [LoopNext]_allVars => [Kept]_vars
  BY <1>1
<1>3. LoopSpec => [][Kept]_vars
  BY <1>2, LoopInvariant, PTL DEF LoopSpec
<1> QED
  BY <1>3 DEF AttemptHistory

\* Claims of loops exclude each other: two loops never hold tasks that share a
\* resource, whatever the budgets, the operators and the reapers do.
THEOREM LoopsExclude == LoopSpec => []ClaimsExclusive
<1>1. LoopInit => LoopInv /\ ClaimsExclusive
  BY LoopInvInit, ExclusionInit DEF LoopInit, BudgetInit, ExclusionInv
<1>2. LoopInv /\ ClaimsExclusive /\ [LoopNext]_allVars => (LoopInv /\ ClaimsExclusive)'
  BY LoopInvStep, TableFacts, ClaimsExclusiveAfter DEF LoopInv, TablesInv
<1> QED
  BY <1>1, <1>2, PTL DEF LoopSpec

\* Where goals are left to their budgets, the steps of loops keep what rests at rest.
LEMMA RestTables ==
    ASSUME BudgetsKept, TablesInv, RestInv, TableStep
    PROVE  RestInv'
<1>0. TypeInv /\ BudgetTypes /\ goalStatus \in [Group -> GoalStatus]
  BY DEF TablesInv, TypeInv, TypeOK
<1>1. CASE Elsewhere \/ Nothing
  <2>1. [Next]_vars /\ UNCHANGED budgetVars
    BY <1>1 DEF Elsewhere, Nothing, Next
  <2> QED
    BY <1>0, <2>1, RestNext
<1>2. ASSUME NEW t, goalStatus' = RefreshGoalStatus(row', t, "complete"), NEW g \in Group,
             goalStatus'[g] = "none"
      PROVE  goalStatus[g] = "none"
  BY <1>0, <1>2, NeverNone DEF RefreshGoalStatus
<1>3. ASSUME NEW w \in Worker, NEW t \in Task, Takes(w, t) PROVE RestInv'
  <2>1. /\ Claim(t, w, Lease) /\ row[t].status = "todo" /\ UNCHANGED budgetVars
        /\ goalStatus' = RefreshGoalStatus(row', t, "complete")
    BY <1>3 DEF Takes, ClaimNext, Ready, ReadyWith, Claim
  <2> QED
    BY <1>0, <1>2, <2>1, ClaimRest, RestKept
<1>4. ASSUME NEW w \in Worker, NEW t \in Task, Renews(w, t) PROVE RestInv'
  <2>1. Heartbeat(t, w, Lease) /\ UNCHANGED budgetVars /\ goalStatus' = goalStatus
    BY <1>4 DEF Renews, Heartbeat
  <2> QED
    BY <1>0, <2>1, HeartbeatRest, RestKept
<1>5. ASSUME NEW w \in Worker, NEW t \in Task, NEW s \in Terminal, Records(w, t, s) PROVE RestInv'
  <2>1. /\ ApplyStatusAndStage(t, s, FALSE) /\ UNCHANGED budgetVars
        /\ goalStatus' = RefreshGoalStatus(row', t, "complete")
        /\ s \in Status \ {"budget-limited"}
    BY <1>5 DEF Records, ApplyStatusAndStage, UpdateTask, Terminal, Status
  <2> QED
    BY <1>0, <1>2, <2>1, UpdateRest, RestKept
<1>6. ASSUME NEW w \in Worker, NEW t \in Task, NEW i \in Nat, NEW s \in Terminal,
             NEW report \in Nat \cup {Unavailable}, Accounts(w, t, i, s, report)
      PROVE  RestInv'
  <2>1. i \in 1..MaxAttempts /\ FinalizeGoalInvocation(t, i, w, s, report)
    BY <1>6, AccountsWithin DEF Accounts
  <2> QED
    BY <1>0, <2>1, RestFinalize
<1> QED
  BY <1>0, <1>1, <1>3, <1>4, <1>5, <1>6, RestPrepare, RestResume DEF TableStep

\* However many loops are under way when a cap of their goal is reached, die or
\* start anew, no iteration is accounted beyond it, and no member is worked on
\* until the goal is resumed.
THEOREM LoopCapsAreHeld ==
    ASSUME BudgetsKept
    PROVE  LoopSpec => [](CapsHold /\ SuspensionIsWhole)
<1>1. LoopInit => LoopInv /\ RestInv
  BY LoopInvInit, RestInit DEF LoopInit
<1>2. LoopInv /\ RestInv /\ [LoopNext]_allVars => (LoopInv /\ RestInv)'
  BY LoopInvStep, RestTables DEF LoopInv
<1>3. RestInv => CapsHold /\ SuspensionIsWhole
  BY DEF RestInv, CapReached, SuspensionIsWhole, CapsHold
<1> QED
  BY <1>1, <1>2, <1>3, PTL DEF LoopSpec

=============================================================================
