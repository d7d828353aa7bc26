-------------------------- MODULE SchedulingProofs --------------------------
(***************************************************************************)
(* Theorems about the order in which the queue runs its tasks: the life of *)
(* a row, its attempts and its ordinal, the relations between tasks, what  *)
(* a claim may rely on, and the status of goals.                           *)
(***************************************************************************)
EXTENDS QueueProofs, Views

-----------------------------------------------------------------------------
(* The life of a task                                                       *)
(*                                                                          *)
(* Ids are not reused and rows do not return; ordinals are given once; and  *)
(* the attempts of a task change only while it has a row, by additions and  *)
(* by the outcome of open ones.                                             *)

\* The list new continues the history of log.
Continues(log, new) ==
    \A i \in DOMAIN log :
        /\ i \in DOMAIN new
        /\ new[i].worker = log[i].worker
        /\ log[i].outcome # "open" => new[i] = log[i]

LifeStep(x) ==
    /\ row[x].status = "removed" => row'[x].status = "removed"
    /\ row[x].status \in Status => row'[x].status \in Status \cup {"removed"}
    /\ row[x].status = "unborn" => row'[x].status \in Status \cup {"unborn"}
    /\ row[x].status # "unborn" => row'[x].ordinal = row[x].ordinal
    /\ \/ attempts'[x] = attempts[x]
       \/ row[x].status \in Status /\ Continues(attempts[x], attempts'[x])

\* The latest open attempt is an open one, if there is any.
LEMMA LatestOpenIsOpen ==
    ASSUME NEW log \in Seq(Attempt), OpenAttempts(log) # {}
    PROVE  IsLatestOpen(log, LatestOpen(log))
<1> DEFINE S == OpenAttempts(log)
<1>1. S \in SUBSET Nat /\ S # {} /\ Len(log) \in Nat /\ \A i \in S : i <= Len(log)
  BY DEF OpenAttempts
<1>2. Max(S) \in S /\ \A i \in S : i <= Max(S)
  <2> HIDE DEF S
  <2> QED
    BY <1>1, MaxOfBounded
<1>3. IsLatestOpen(log, Max(S))
  BY <1>2 DEF IsLatestOpen
<1> QED
  BY <1>2, <1>3 DEF LatestOpen

\* Closing attempts, whichever are open, and opening one continue the history.
LEMMA HistoryContinues ==
    ASSUME NEW log \in Seq(Attempt)
    PROVE  /\ Continues(log, log)
           /\ \A o : Continues(log, CloseLatest(log, o))
           /\ \A o : Continues(log, CloseAllOpen(log, o))
           /\ \A a : Continues(log, Append(log, a))
           /\ \A w : Continues(log, OpenAttempt(log, w))
           /\ \A event, s : Continues(log, AttemptsAfter(event, log, s))
<1>1. Continues(log, log)
  BY DEF Continues
<1>2. ASSUME NEW o PROVE Continues(log, CloseLatest(log, o))
  <2>1. CASE OpenAttempts(log) = {}
    BY <1>1, <2>1 DEF CloseLatest
  <2>2. CASE OpenAttempts(log) # {}
    <3> DEFINE k == LatestOpen(log)
    <3>1. k \in DOMAIN log /\ log[k].outcome = "open"
      BY <2>2, LatestOpenIsOpen DEF IsLatestOpen, OpenAttempts
    <3>2. CloseLatest(log, o) = [log EXCEPT ![k].outcome = o]
      BY <2>2 DEF CloseLatest
    <3> HIDE DEF k
    <3>3. \A i \in DOMAIN log : log[i] \in Attempt
      OBVIOUS
    <3> QED
      BY <3>1, <3>2, <3>3 DEF Continues, Attempt
  <2> QED
    BY <2>1, <2>2
<1>3. ASSUME NEW o PROVE Continues(log, CloseAllOpen(log, o))
  <2>1. \A i \in DOMAIN log : log[i] \in Attempt
    OBVIOUS
  <2> QED
    BY <2>1 DEF Continues, CloseAllOpen, Attempt
<1>4. ASSUME NEW a PROVE Continues(log, Append(log, a))
  <2>1. log \in Seq(Attempt \cup {a})
    OBVIOUS
  <2>2. /\ DOMAIN log = 1..Len(log) /\ DOMAIN Append(log, a) = 1..(Len(log) + 1)
        /\ Len(log) \in Nat /\ \A i \in 1..Len(log) : Append(log, a)[i] = log[i]
    BY <2>1
  <2> QED
    BY <2>2 DEF Continues
<1>5. ASSUME NEW w PROVE Continues(log, OpenAttempt(log, w))
  BY <1>4 DEF OpenAttempt
<1>6. ASSUME NEW event, NEW s PROVE Continues(log, AttemptsAfter(event, log, s))
  BY <1>1, <1>2, <1>4, <1>5 DEF AttemptsAfter
<1> QED
  BY <1>1, <1>2, <1>3, <1>4, <1>5, <1>6

\* A step that changes neither the row nor the attempts of a task.
LEMMA UnchangedLife ==
    ASSUME NEW x \in Task, row'[x] = row[x], attempts'[x] = attempts[x],
           row[x].status \in Status \cup Absent
    PROVE  LifeStep(x)
BY DEF LifeStep, Absent

\* The insertion of a row under a fresh id.
LEMMA InsertLife ==
    ASSUME TypeInv, NEW t \in Task, row[t].status = "unborn", NEW a, InsertTask(t, a),
           attempts' = attempts, NEW x \in Task
    PROVE  LifeStep(x)
<1>1. row[x].status \in Status \cup Absent
  BY DEF TypeInv, TypeOK, Row
<1>2. CASE x = t
  <2>1. row'[t] = NewRow(a, NextOrdinal)
    BY DEF InsertTask, TypeInv, TypeOK
  <2> QED
    BY <1>2, <2>1 DEF LifeStep, NewRow, Status
<1>3. CASE x # t
  BY <1>1, <1>3, UnchangedLife DEF InsertTask, TypeInv, TypeOK
<1> QED
  BY <1>2, <1>3

\* A status update of a present row.
LEMMA UpdateLife ==
    ASSUME TypeInv, NEW t \in Present, NEW r \in Row, NEW event, UpdateTask(t, r, event),
           r.status \in Status, r.ordinal = row[t].ordinal, NEW x \in Task
    PROVE  LifeStep(x)
<1>1. row[x].status \in Status \cup Absent /\ attempts[x] \in Seq(Attempt) /\ t \in Task
  BY DEF TypeInv, TypeOK, Row, Present
<1>2. CASE x = t
  <2>1. row'[t] = r /\ attempts'[t] = AttemptsAfter(event, attempts[t], r.status)
    BY <1>1 DEF UpdateTask, TypeInv, TypeOK
  <2>2. Continues(attempts[t], attempts'[t])
    BY <1>1, <1>2, <2>1, HistoryContinues
  <2> QED
    BY <1>2, <2>1, <2>2 DEF LifeStep, Present, Status
<1>3. CASE x # t
  BY <1>1, <1>3, UnchangedLife DEF UpdateTask, TypeInv, TypeOK
<1> QED
  BY <1>2, <1>3

\* `set` of a present row, in all its forms.
LEMMA ApplyStatusLife ==
    ASSUME TypeInv, NEW t \in Present, NEW s \in Status, NEW staged,
           ApplyStatusAndStage(t, s, staged), NEW x \in Task
    PROVE  LifeStep(x)
<1> DEFINE r == SetStatus(row[t], s, now)
<1>1. row[t] \in Row /\ now \in Nat
  BY DEF TypeInv, TypeOK, Present
<1>2. r \in Row /\ r.status = s /\ r.ordinal = row[t].ordinal
  BY <1>1, SetStatusType
<1>3. UpdateTask(t, r, EventForStatus(s))
  BY DEF ApplyStatusAndStage
<1> HIDE DEF r
<1> QED
  BY <1>2, <1>3, UpdateLife

\* A claim of a ready task.
LEMMA ClaimLife ==
    ASSUME TypeInv, NEW t \in Task, NEW w, NEW ttl, row[t].status = "todo",
           Claim(t, w, ttl), NEW x \in Task
    PROVE  LifeStep(x)
<1>1. /\ row[x].status \in Status \cup Absent /\ attempts[x] \in Seq(Attempt)
      /\ row[t] \in Row
  BY DEF TypeInv, TypeOK, Row
<1>2. CASE x = t
  <2>1. /\ row'[t].status = "doing" /\ row'[t].ordinal = row[t].ordinal
        /\ attempts'[t] = OpenAttempt(attempts[t], w)
    BY <1>1 DEF Claim, TypeInv, TypeOK, Row
  <2>2. Continues(attempts[t], attempts'[t])
    BY <1>1, <1>2, <2>1, HistoryContinues
  <2> QED
    BY <1>2, <2>1, <2>2 DEF LifeStep, Status
<1>3. CASE x # t
  BY <1>1, <1>3, UnchangedLife DEF Claim, TypeInv, TypeOK
<1> QED
  BY <1>2, <1>3

\* Every step of the queue is a step in the life of each task.
LEMMA NextLife ==
    ASSUME TypeInv, [Next]_vars, NEW x \in Task
    PROVE  LifeStep(x)
<1>0. /\ now \in Nat
      /\ \A t \in Task : row[t] \in Row /\ row[t].status \in Status \cup Absent
      /\ row = [t \in Task |-> row[t]]
      /\ attempts[x] \in Seq(Attempt)
  BY DEF TypeInv, TypeOK, Row
<1>1. ASSUME UNCHANGED <<row, attempts>> PROVE LifeStep(x)
  BY <1>0, <1>1, UnchangedLife
<1>2. CASE Adding
  <2>1. ASSUME NEW g \in Group, NEW chain \in GoalChains(g), CreateGoal(g, chain)
        PROVE  LifeStep(x)
    <3>1. \A i \in DOMAIN chain : row[chain[i]].status = "unborn"
      <4>1. PICK n : chain \in [1..n -> {t \in HasStatus("unborn") : GroupOf[t] = g}]
        BY DEF GoalChains
      <4> QED
        BY <4>1 DEF HasStatus
    <3>2. attempts' = attempts
      BY <2>1 DEF CreateGoal
    <3>3. CASE \E i \in DOMAIN chain : chain[i] = x
      <4>1. \E k : row'[x] = NewRow(0, k)
        BY <2>1, <3>3 DEF CreateGoal
      <4> QED
        BY <3>1, <3>2, <3>3, <4>1 DEF LifeStep, NewRow, Status
    <3>4. CASE ~\E i \in DOMAIN chain : chain[i] = x
      <4>1. row'[x] = row[x]
        BY <2>1, <3>4 DEF CreateGoal
      <4> QED
        BY <1>0, <3>2, <4>1, UnchangedLife
    <3> QED
      BY <3>3, <3>4
  <2>2. ASSUME NEW t \in Task, NEW a, Add(t, a) PROVE LifeStep(x)
    BY <2>2, InsertLife DEF Add
  <2>3. ASSUME NEW t \in Task, NEW u, NEW a, AddBlockedBy(t, u, a) PROVE LifeStep(x)
    BY <2>3, InsertLife DEF AddBlockedBy
  <2> QED
    BY <1>2, <2>1, <2>2, <2>3 DEF Adding
<1>3. CASE Working
  <2>1. ASSUME NEW t \in Task, NEW w \in Worker, NEW ttl \in LeaseTimes,
               ClaimNext(t, w, ttl) \/ \E approved \in SUBSET Gate : ClaimTask(t, w, ttl, approved)
        PROVE  LifeStep(x)
    BY <1>1, <2>1, ClaimLife DEF ClaimNext, ClaimTask, Ready, ReadyWith
  <2>2. ASSUME NEW t \in Task, NEW w \in Worker, NEW ttl \in LeaseTimes, Heartbeat(t, w, ttl)
        PROVE  LifeStep(x)
    <3>1. /\ row'[x].status = row[x].status /\ row'[x].ordinal = row[x].ordinal
          /\ attempts' = attempts
      BY <1>0, <2>2 DEF Heartbeat, Row
    <3> QED
      BY <1>0, <3>1 DEF LifeStep, Absent
  <2>3. ASSUME NEW t \in Task, NEW s \in Status, NEW staged, NEW w \in Worker,
               SetByWorker(t, s, staged, w)
        PROVE  LifeStep(x)
    BY <2>3, ApplyStatusLife DEF SetByWorker, WorkerFence, Present, Status
  <2> QED
    BY <1>3, <2>1, <2>2, <2>3 DEF Working
<1>4. CASE Operating
  <2>1. ASSUME NEW t \in Task, NEW s \in Status, NEW staged,
               SetUnfenced(t, s, staged) \/ SetForced(t, s, staged)
        PROVE  LifeStep(x)
    BY <2>1, ApplyStatusLife DEF SetUnfenced, SetForced
  <2>2. ASSUME NEW t \in Task, AuditDisapproves(t) PROVE LifeStep(x)
    BY <2>2, ApplyStatusLife DEF AuditDisapproves, Status
  <2>3. ASSUME NEW t \in Present, NEW s \in {"todo", "doing"}, NEW a \in Nat, NEW event,
               UpdateTask(t, [SetStatus(row[t], s, now) EXCEPT !.avail = a], event)
        PROVE  LifeStep(x)
    <3> DEFINE q == SetStatus(row[t], s, now)
               r == [q EXCEPT !.avail = a]
    <3>1. q \in Row /\ q.status = s /\ q.ordinal = row[t].ordinal /\ s \in Status
      <4>1. row[t] \in Row /\ s \in Status
        BY <1>0 DEF Status, Present
      <4> QED
        BY <1>0, <4>1, SetStatusType
    <3>2. r \in Row /\ r.status = s /\ r.ordinal = row[t].ordinal
      <4> HIDE DEF q
      <4> QED
        BY <3>1 DEF Row
    <3> HIDE DEF r
    <3>3. UpdateTask(t, r, event)
      BY <2>3 DEF r
    <3> QED
      BY <3>1, <3>2, <3>3, UpdateLife
  <2>4. ASSUME NEW t \in Task, RetryManual(t) PROVE LifeStep(x)
    BY <2>3, <2>4 DEF RetryManual
  <2>5. ASSUME NEW t \in Task, NEW a \in AvailTimes, RetryDeferred(t, a) PROVE LifeStep(x)
    <3>1. a \in Nat
      BY QueueAssumption
    <3> QED
      BY <2>3, <2>5, <3>1 DEF RetryDeferred
  <2>6. ASSUME row'[x] = AbsentRow("removed", row[x].ordinal), row[x].status \in Status,
               attempts' = attempts
        PROVE  LifeStep(x)
    BY <2>6 DEF LifeStep, AbsentRow, Status
  <2>7. ASSUME NEW t \in Task, Delete(t) PROVE LifeStep(x)
    <3>1. /\ row'[x] = IF x = t THEN AbsentRow("removed", row[x].ordinal) ELSE row[x]
          /\ attempts' = attempts /\ row[t].status \in Status
      BY <1>0, <2>7 DEF Delete, Present
    <3> QED
      BY <1>0, <2>6, <3>1, UnchangedLife
  <2>8. ASSUME NEW s \in Status, PruneStatus(s) PROVE LifeStep(x)
    <3>1. /\ row'[x] = IF row[x].status = s THEN AbsentRow("removed", row[x].ordinal) ELSE row[x]
          /\ attempts' = attempts
      BY <2>8 DEF PruneStatus
    <3> QED
      BY <1>0, <2>6, <3>1, UnchangedLife
  <2> QED
    BY <1>1, <1>4, <2>1, <2>2, <2>4, <2>5, <2>7, <2>8
       DEF Operating, Arranging, Staged, AddRelation, AddGate, SatisfyGate
<1>5. CASE Reaping
  <2>1. ASSUME NEW r \in Reaper, NEW t \in Task, ReaperRequeue(r, t) PROVE LifeStep(x)
    <3>1. row[t].status = "doing"
      BY <2>1 DEF ReaperRequeue, StillStale
    <3>2. /\ row'[x] = IF x = t THEN Reset(row[x]) ELSE row[x]
          /\ attempts'[x] = IF x = t THEN AttemptsAfter("requeued", attempts[x], "todo")
                                     ELSE attempts[x]
      BY <1>0, <2>1 DEF ReaperRequeue, TypeInv, TypeOK
    <3>3. Reset(row[x]).status = "todo" /\ Reset(row[x]).ordinal = row[x].ordinal
      BY <1>0 DEF Reset, Row
    <3>4. Continues(attempts[x], AttemptsAfter("requeued", attempts[x], "todo"))
      BY <1>0, HistoryContinues
    <3>5. CASE x = t
      BY <3>1, <3>2, <3>3, <3>4, <3>5 DEF LifeStep, Status
    <3>6. CASE x # t
      BY <1>0, <3>2, <3>6, UnchangedLife
    <3> QED
      BY <3>5, <3>6
  <2> QED
    BY <1>1, <1>5, <2>1
       DEF Reaping, ReaperStep, ReaperScan, ReaperSkip, ReaperFail, ReaperKill
<1>6. CASE Tick \/ UNCHANGED vars
  BY <1>1, <1>6 DEF Tick, vars
<1> QED
  BY <1>2, <1>3, <1>4, <1>5, <1>6 DEF Next

\* The attempt history of every task is only ever continued.
THEOREM HistoryKept == Spec => AttemptHistory
<1> DEFINE Kept ==
      \A t \in Task : \A i \in DOMAIN attempts[t] :
          /\ i \in DOMAIN attempts'[t]
          /\ attempts'[t][i].worker = attempts[t][i].worker
          /\ attempts[t][i].outcome # "open" => attempts'[t][i] = attempts[t][i]
<1>1. TypeInv /\ [Next]_vars => Kept
  <2> SUFFICES ASSUME TypeInv, [Next]_vars, NEW t \in Task
               PROVE  Continues(attempts[t], attempts'[t])
    BY DEF Continues
  <2>1. attempts[t] \in Seq(Attempt)
    BY DEF TypeInv, TypeOK
  <2> QED
    BY <2>1, NextLife, HistoryContinues DEF LifeStep
<1>2. TypeInv /\ [Next]_vars => [Kept]_vars
  BY <1>1
<1>3. Init => TypeInv
  BY TypeInit
<1>4. TypeInv /\ [Next]_vars => TypeInv'
  BY TypeStep
<1> QED
  BY <1>2, <1>3, <1>4, PTL DEF Spec, AttemptHistory

-----------------------------------------------------------------------------
(* Ordinals                                                                 *)

\* The rows a step adds get ordinals of their own, beyond those in use.
NewOrdinals ==
    LET New == {t \in Task : row[t].status = "unborn" /\ row'[t].status \in Status}
    IN  \A t \in New : /\ row'[t].ordinal >= NextOrdinal
                       /\ \A u \in New : row'[t].ordinal = row'[u].ordinal => t = u

\* A step of that kind leaves the ordinals distinct.
LEMMA OrdinalsStep ==
    ASSUME TypeInv, OrdinalsDistinct, \A x \in Task : LifeStep(x), NewOrdinals
    PROVE  OrdinalsDistinct'
<1> SUFFICES ASSUME NEW t \in Task, NEW u \in Task,
                    row'[t].status \in Status, row'[u].status \in Status,
                    row'[t].ordinal = row'[u].ordinal
             PROVE  t = u
  BY DEF OrdinalsDistinct, Present
<1>1. ASSUME NEW x \in Task, row'[x].status \in Status
      PROVE  \/ row[x].status \in Status /\ row'[x].ordinal = row[x].ordinal
             \/ row[x].status = "unborn"
  <2>1. row[x].status \in Status \cup Absent
    BY DEF TypeInv, TypeOK, Row
  <2>2. LifeStep(x)
    OBVIOUS
  <2> QED
    BY <1>1, <2>1, <2>2 DEF LifeStep, Status, Absent
<1>2. ASSUME NEW x \in Task, NEW y \in Task, row[x].status \in Status,
             row'[x].ordinal = row[x].ordinal, row[y].status = "unborn",
             row'[y].status \in Status
      PROVE  row'[x].ordinal # row'[y].ordinal
  <2>1. NextOrdinal \in Nat /\ row[x].ordinal < NextOrdinal /\ row[x].ordinal \in Nat
    BY <1>2, NextOrdinalType DEF Present, TypeInv, TypeOK, Row
  <2>2. row'[y].ordinal >= NextOrdinal
    BY <1>2 DEF NewOrdinals
  <2> QED
    BY <1>2, <2>1, <2>2
<1>3. ASSUME row[t].status = "unborn", row[u].status = "unborn" PROVE t = u
  BY <1>3 DEF NewOrdinals
<1>4. ASSUME row[t].status \in Status, row[u].status \in Status,
             row'[t].ordinal = row[t].ordinal, row'[u].ordinal = row[u].ordinal
      PROVE  t = u
  BY <1>4 DEF OrdinalsDistinct, Present
<1> QED
  BY <1>1, <1>2, <1>3, <1>4

\* One inserted row has the next ordinal.
LEMMA InsertOrdinals ==
    ASSUME TypeInv, NEW t \in Task, NEW a, InsertTask(t, a)
    PROVE  NewOrdinals
<1>1. \A x \in Task : x # t => row'[x] = row[x]
  BY DEF InsertTask, TypeInv, TypeOK
<1>2. row'[t].ordinal = NextOrdinal
  BY DEF InsertTask, NewRow, TypeInv, TypeOK
<1> QED
  BY <1>1, <1>2, NextOrdinalType DEF NewOrdinals, Status

\* The members of a chain are fresh tasks of the goal, at places of their own.
LEMMA ChainPlaces ==
    ASSUME NEW g \in Group, NEW chain \in GoalChains(g)
    PROVE  LET At(t) == CHOOSE i \in DOMAIN chain : chain[i] = t
               Member(t) == \E i \in DOMAIN chain : chain[i] = t
           IN  /\ \E n \in Nat \ {0} : DOMAIN chain = 1..n
               /\ \A i \in DOMAIN chain :
                     chain[i] \in Task /\ GroupOf[chain[i]] = g /\ row[chain[i]].status = "unborn"
               /\ \A t : Member(t) => At(t) \in Nat \ {0} /\ chain[At(t)] = t
<1>1. PICK n \in 1..Cardinality({t \in HasStatus("unborn") : GroupOf[t] = g}) :
             chain \in [1..n -> {t \in HasStatus("unborn") : GroupOf[t] = g}]
  BY DEF GoalChains
<1>2. n \in Nat \ {0} /\ DOMAIN chain = 1..n
  BY <1>1
<1>3. \A i \in DOMAIN chain :
          chain[i] \in Task /\ GroupOf[chain[i]] = g /\ row[chain[i]].status = "unborn"
  BY <1>1 DEF HasStatus
<1> QED
  BY <1>2, <1>3

\* So the rows of a new goal have ordinals of their own.
LEMMA ChainOrdinals ==
    ASSUME TypeInv, NEW g \in Group, NEW chain \in GoalChains(g), CreateGoal(g, chain)
    PROVE  NewOrdinals
<1> DEFINE At(t) == CHOOSE i \in DOMAIN chain : chain[i] = t
           Member(t) == \E i \in DOMAIN chain : chain[i] = t
<1>1. \A t \in Task : row'[t] = IF Member(t) THEN NewRow(0, NextOrdinal + At(t) - 1) ELSE row[t]
  BY DEF CreateGoal
<1>2. \A t : Member(t) => At(t) \in Nat \ {0} /\ chain[At(t)] = t
  BY ChainPlaces
<1> HIDE DEF At, Member
<1>3. ASSUME NEW t \in Task, row[t].status = "unborn", row'[t].status \in Status
      PROVE  Member(t) /\ row'[t].ordinal = NextOrdinal + At(t) - 1
  <2>1. \A k : NewRow(0, k).ordinal = k
    BY DEF NewRow
  <2>2. Member(t)
    BY <1>1, <1>3 DEF Status
  <2> QED
    BY <1>1, <2>1, <2>2
<1>4. ASSUME NEW t \in Task, row[t].status = "unborn", row'[t].status \in Status
      PROVE  /\ row'[t].ordinal >= NextOrdinal
             /\ \A u \in Task : row[u].status = "unborn" /\ row'[u].status \in Status
                                /\ row'[t].ordinal = row'[u].ordinal => t = u
  <2>1. NextOrdinal \in Nat /\ At(t) \in Nat \ {0} /\ row'[t].ordinal = NextOrdinal + At(t) - 1
    BY <1>2, <1>3, <1>4, NextOrdinalType
  <2>2. ASSUME NEW u \in Task, row[u].status = "unborn", row'[u].status \in Status,
               row'[t].ordinal = row'[u].ordinal
        PROVE  t = u
    <3>1. At(u) \in Nat \ {0} /\ row'[u].ordinal = NextOrdinal + At(u) - 1
      BY <1>2, <1>3, <2>2
    <3>2. At(t) = At(u)
      BY <2>1, <2>2, <3>1
    <3> QED
      BY <1>2, <1>3, <1>4, <2>2, <3>2
  <2> QED
    BY <2>1, <2>2
<1> QED
  BY <1>4 DEF NewOrdinals

\* No step adds rows otherwise.
LEMMA NextOrdinals ==
    ASSUME TypeInv, [Next]_vars
    PROVE  NewOrdinals
<1>1. CASE Adding
  <2>1. ASSUME NEW t \in Task, NEW a, Add(t, a) PROVE NewOrdinals
    BY <2>1, InsertOrdinals DEF Add
  <2>2. ASSUME NEW t \in Task, NEW u, NEW a, AddBlockedBy(t, u, a) PROVE NewOrdinals
    BY <2>2, InsertOrdinals DEF AddBlockedBy
  <2> QED
    BY <1>1, <2>1, <2>2, ChainOrdinals DEF Adding
<1>2. CASE ~Adding
  <2> SUFFICES ASSUME NEW x \in Task, row[x].status = "unborn" PROVE row'[x] = row[x]
    BY DEF NewOrdinals, Status
  <2>0. row = [t \in Task |-> row[t]]
    BY DEF TypeInv, TypeOK
  <2>1. ASSUME NEW t \in Task, row[t].status \in Status, NEW r, row' = [row EXCEPT ![t] = r]
        PROVE  row'[x] = row[x]
    BY <2>0, <2>1 DEF Status
  <2>2. CASE Working
    <3>1. ASSUME NEW t \in Task, NEW w, NEW ttl, NEW itsGates, ReadyWith(t, itsGates),
                 Claim(t, w, ttl)
          PROVE  row'[x] = row[x]
      <4>1. row[t].status = "todo"
        BY <3>1 DEF ReadyWith
      <4> QED
        BY <2>0, <3>1, <4>1 DEF Claim
    <3>2. ASSUME NEW t \in Task, NEW w, NEW ttl, Heartbeat(t, w, ttl) PROVE row'[x] = row[x]
      BY <2>0, <3>2 DEF Heartbeat
    <3>3. ASSUME NEW t \in Task, NEW s, NEW staged, NEW w, SetByWorker(t, s, staged, w)
          PROVE  row'[x] = row[x]
      BY <2>1, <3>3 DEF SetByWorker, WorkerFence, ApplyStatusAndStage, UpdateTask, Status
    <3> QED
      BY <2>2, <3>1, <3>2, <3>3 DEF Working, ClaimNext, ClaimTask, Ready
  <2>3. CASE Operating
    <3>1. ASSUME NEW t \in Task, NEW s, NEW staged,
                 SetUnfenced(t, s, staged) \/ SetForced(t, s, staged) \/ AuditDisapproves(t)
          PROVE  row'[x] = row[x]
      BY <2>1, <3>1
         DEF SetUnfenced, SetForced, AuditDisapproves, ApplyStatusAndStage, UpdateTask, Present
    <3>2. ASSUME NEW t \in Task, NEW a, RetryManual(t) \/ RetryDeferred(t, a)
          PROVE  row'[x] = row[x]
      BY <2>1, <3>2 DEF RetryManual, RetryDeferred, UpdateTask, Present
    <3>3. ASSUME NEW t \in Task, Delete(t) PROVE row'[x] = row[x]
      BY <2>0, <3>3 DEF Delete, Present, Status
    <3>4. ASSUME NEW s \in Status, PruneStatus(s) PROVE row'[x] = row[x]
      BY <3>4 DEF PruneStatus, Status
    <3> QED
      BY <2>3, <3>1, <3>2, <3>3, <3>4
         DEF Operating, Arranging, Staged, AddRelation, AddGate, SatisfyGate
  <2>4. CASE Reaping
    BY <2>0, <2>4 DEF Reaping, ReaperStep, ReaperScan, ReaperRequeue, ReaperSkip, ReaperFail,
                      ReaperKill, StillStale
  <2>5. CASE Tick \/ UNCHANGED vars
    BY <2>5 DEF Tick, vars
  <2> QED
    BY <1>2, <2>2, <2>3, <2>4, <2>5 DEF Next
<1> QED
  BY <1>1, <1>2

\* Ordinals are never given twice, whatever was deleted or pruned between: the
\* scheduler's order of the tasks of a priority is total.
THEOREM OrdinalsUnique == Spec => []OrdinalsDistinct
<1>1. Init => TypeInv /\ OrdinalsDistinct
  BY TypeInit DEF Init, OrdinalsDistinct, Present, AbsentRow, Status
<1>2. TypeInv /\ OrdinalsDistinct /\ [Next]_vars => (TypeInv /\ OrdinalsDistinct)'
  BY TypeStep, NextLife, NextOrdinals, OrdinalsStep
<1> QED
  BY <1>1, <1>2, PTL DEF Spec

-----------------------------------------------------------------------------
(* Relations                                                                *)

\* An id that is not in the table yet has no attempts and no relations, so that
\* whoever adds it finds nothing there.
UnbornUntouched ==
    \A t \in Task : row[t].status = "unborn" =>
        /\ attempts[t] = <<>>
        /\ \A u \in Task : relation[t][u] = "none" /\ relation[u][t] = "none"

\* An edge is added between different tasks, and if it blocks, to one that the
\* other does not depend on.
EdgeAdded ==
    \E t, u \in Task, type \in RelationType :
        /\ t # u /\ row'[t].status # "unborn" /\ row'[u].status # "unborn"
        /\ type = "blocks" => ~DependencyPathExists(u, t)
        /\ relation' = [relation EXCEPT ![t][u] = type]

\* What a step does to the relations.
RelationStep ==
    \/ relation' = relation
    \/ EdgeAdded
    \/ \E g \in Group : \E chain \in GoalChains(g) : CreateGoal(g, chain)

\* Nothing leads to a fresh id: no path is found from whatever it is to wait for.
LEMMA FreshHasNoPath ==
    ASSUME UnbornUntouched, NEW t \in Task, NEW u \in Task, row[t].status = "unborn"
    PROVE  ~DependencyPathExists(u, t)
<1> DEFINE C == Task \ {t}
<1>1. \A x \in Task : {y \in Task : relation[x][y] # "none"} \subseteq C
  BY DEF UnbornUntouched
<1> QED
  BY <1>1 DEF DependencyPathExists

\* So `add --blocked-by` may add its edge unchecked.
LEMMA FreshEdge ==
    ASSUME UnbornUntouched, NEW t \in Task, NEW u \in Task, row[t].status = "unborn",
           row[u].status # "unborn", row'[t].status # "unborn", row'[u].status # "unborn",
           relation' = [relation EXCEPT ![t][u] = "blocks"]
    PROVE  EdgeAdded
BY FreshHasNoPath DEF EdgeAdded, RelationType

\* Every step adds an edge, a chain or no relation at all.
LEMMA NextRelation ==
    ASSUME TypeInv, UnbornUntouched, [Next]_vars
    PROVE  RelationStep
<1>0. row = [t \in Task |-> row[t]]
  BY DEF TypeInv, TypeOK
<1>1. ASSUME NEW t \in Task, NEW u \in Task, NEW a, AddBlockedBy(t, u, a) PROVE EdgeAdded
  <2>1. t # u /\ row[u].status # "unborn"
    BY <1>1 DEF AddBlockedBy, Present, Status
  <2>2. row'[t].status = "todo" /\ row'[u] = row[u]
    BY <1>0, <1>1, <2>1 DEF AddBlockedBy, InsertTask, NewRow
  <2> QED
    BY <1>1, <2>1, <2>2, FreshEdge DEF AddBlockedBy
<1>2. ASSUME NEW t \in Task, NEW u \in Task, NEW type \in RelationType, AddRelation(t, u, type)
      PROVE  EdgeAdded
  BY <1>2 DEF AddRelation, EdgeAdded, Present, Status
<1>3. CASE Adding
  BY <1>1, <1>3 DEF Adding, Add, RelationStep
<1>4. CASE Working
  BY <1>4 DEF Working, ClaimNext, ClaimTask, Heartbeat, SetByWorker, ApplyStatusAndStage,
              UpdateTask, RelationStep
<1>5. CASE Operating
  BY <1>2, <1>5 DEF Operating, Arranging, SetUnfenced, SetForced, AuditDisapproves, RetryManual,
              RetryDeferred, ApplyStatusAndStage, UpdateTask, Delete, PruneStatus, AddGate,
              SatisfyGate, RelationStep
<1>6. CASE Reaping
  BY <1>6 DEF Reaping, ReaperStep, ReaperScan, ReaperRequeue, ReaperSkip, ReaperFail,
              ReaperKill, RelationStep
<1>7. CASE Tick \/ UNCHANGED vars
  BY <1>7 DEF Tick, vars, RelationStep
<1> QED
  BY <1>3, <1>4, <1>5, <1>6, <1>7 DEF Next

\* What a new goal does to the relations: every member waits for the one before.
LEMMA ChainRelation ==
    ASSUME TypeInv, NEW g \in Group, NEW chain \in GoalChains(g), CreateGoal(g, chain)
    PROVE  LET At(t) == CHOOSE i \in DOMAIN chain : chain[i] = t
               Member(t) == \E i \in DOMAIN chain : chain[i] = t
           IN  /\ \A t, u \in Task :
                     relation'[t][u] = IF Member(t) /\ Member(u) /\ At(t) = At(u) + 1
                                       THEN "blocks" ELSE relation[t][u]
               /\ \A t \in Task : Member(t) => row[t].status = "unborn" /\ row'[t].status = "todo"
<1> DEFINE At(t) == CHOOSE i \in DOMAIN chain : chain[i] = t
           Member(t) == \E i \in DOMAIN chain : chain[i] = t
<1>1. \A t \in Task : Member(t) => row[t].status = "unborn"
  BY ChainPlaces
<1>2. \A t \in Task : row'[t] = IF Member(t) THEN NewRow(0, NextOrdinal + At(t) - 1) ELSE row[t]
  BY DEF CreateGoal
<1>3. \A t, u \in Task :
          relation'[t][u] = IF Member(t) /\ Member(u) /\ At(t) = At(u) + 1
                            THEN "blocks" ELSE relation[t][u]
  BY DEF CreateGoal
<1>4. \A k : NewRow(0, k).status = "todo"
  BY DEF NewRow
<1> HIDE DEF At, Member
<1>5. \A t \in Task : Member(t) => row[t].status = "unborn" /\ row'[t].status = "todo"
  BY <1>1, <1>2, <1>4
<1> QED
  BY <1>3, <1>5 DEF At, Member

\* Ids that are still unborn after a step of these kinds are untouched.
LEMMA UnbornStep ==
    ASSUME TypeInv, UnbornUntouched, \A x \in Task : LifeStep(x), RelationStep
    PROVE  UnbornUntouched'
<1> SUFFICES ASSUME NEW t \in Task, row'[t].status = "unborn", NEW u \in Task
             PROVE  /\ attempts'[t] = <<>>
                    /\ relation'[t][u] = "none" /\ relation'[u][t] = "none"
  BY DEF UnbornUntouched
<1>1. row[t].status = "unborn" /\ attempts'[t] = attempts[t]
  <2>1. LifeStep(t) /\ row[t].status \in Status \cup Absent
    BY DEF TypeInv, TypeOK, Row
  <2> QED
    BY <2>1 DEF LifeStep, Status, Absent
<1>2. attempts[t] = <<>> /\ relation[t][u] = "none" /\ relation[u][t] = "none"
  BY <1>1 DEF UnbornUntouched
<1>3. ASSUME EdgeAdded PROVE relation'[t][u] = "none" /\ relation'[u][t] = "none"
  BY <1>2, <1>3 DEF EdgeAdded, TypeInv, TypeOK
<1>4. ASSUME NEW g \in Group, NEW chain \in GoalChains(g), CreateGoal(g, chain)
      PROVE  relation'[t][u] = "none" /\ relation'[u][t] = "none"
  <2> DEFINE Member(x) == \E i \in DOMAIN chain : chain[i] = x
  <2>1. ~Member(t)
    BY <1>4, ChainRelation
  <2> QED
    BY <1>2, <1>4, <2>1, ChainRelation
<1> QED
  BY <1>1, <1>2, <1>3, <1>4 DEF RelationStep

\* An edge to a task that does not depend on its source closes no cycle.  Take
\* what the target depends on, D, which the cycle check has found not to hold
\* the source.  A set of tasks that meets D has a member there that waits for no
\* other in D, and hence for none at all; from any other set the target is
\* missing, and it has the member it had.
LEMMA EdgeKeepsAcyclic ==
    ASSUME TypeInv, BlocksAcyclic, EdgeAdded
    PROVE  BlocksAcyclic'
<1>1. PICK t \in Task, u \in Task, type \in RelationType :
         /\ t # u
         /\ type = "blocks" => ~DependencyPathExists(u, t)
         /\ relation' = [relation EXCEPT ![t][u] = type]
  BY DEF EdgeAdded
<1> DEFINE Waits(x) == {y \in Task : relation'[x][y] = "blocks"}
           Related(x) == {y \in Task : relation[x][y] # "none"}
<1> SUFFICES ASSUME NEW S \in (SUBSET Task) \ {{}} PROVE \E x \in S : Waits(x) \cap S = {}
  BY DEF BlocksAcyclic, Prerequisites
<1>2. \A x, y \in Task : relation'[x][y] = IF x = t /\ y = u THEN type ELSE relation[x][y]
  BY <1>1 DEF TypeInv, TypeOK
<1>3. \A x \in Task : /\ x # t \/ type # "blocks" => Waits(x) \subseteq Prerequisites(x)
                      /\ Waits(x) \subseteq Prerequisites(x) \cup {u}
                      /\ Prerequisites(x) \subseteq Related(x)
  BY <1>2 DEF Prerequisites
<1> HIDE DEF Waits, Related
<1>4. ASSUME type # "blocks" \/ u \notin S PROVE \E x \in S : Waits(x) \cap S = {}
  BY <1>3, <1>4 DEF BlocksAcyclic
<1>5. ASSUME type = "blocks", u \in S PROVE \E x \in S : Waits(x) \cap S = {}
  <2>1. PICK C \in SUBSET Task :
           Related(u) \subseteq C /\ (\A x \in C : Related(x) \subseteq C) /\ t \notin C
    BY <1>1, <1>5 DEF DependencyPathExists, Related
  <2> DEFINE D == S \cap (C \cup {u})
  <2>2. PICK x \in D : Prerequisites(x) \cap D = {}
    BY <1>5 DEF BlocksAcyclic
  <2>3. x \in S /\ x # t /\ Prerequisites(x) \subseteq C
    BY <1>1, <1>3, <2>1, <2>2
  <2> QED
    BY <1>3, <2>1, <2>2, <2>3
<1> QED
  BY <1>4, <1>5

\* A chain of fresh tasks closes none: a set with other tasks in it has the
\* member it had without the chain, and the first of a set of members of the
\* chain waits for none that comes later.
LEMMA ChainKeepsAcyclic ==
    ASSUME TypeInv, UnbornUntouched, BlocksAcyclic,
           NEW g \in Group, NEW chain \in GoalChains(g), CreateGoal(g, chain)
    PROVE  BlocksAcyclic'
<1> DEFINE At(t) == CHOOSE i \in DOMAIN chain : chain[i] = t
           Member(t) == \E i \in DOMAIN chain : chain[i] = t
           Waits(x) == {y \in Task : relation'[x][y] = "blocks"}
<1> SUFFICES ASSUME NEW S \in (SUBSET Task) \ {{}} PROVE \E x \in S : Waits(x) \cap S = {}
  BY DEF BlocksAcyclic, Prerequisites
<1>1. /\ \A t, u \in Task : relation'[t][u] = IF Member(t) /\ Member(u) /\ At(t) = At(u) + 1
                                              THEN "blocks" ELSE relation[t][u]
      /\ \A t \in Task : Member(t) => row[t].status = "unborn"
  BY ChainRelation
<1>2. \A t : Member(t) => At(t) \in Nat \ {0}
  BY ChainPlaces
<1> HIDE DEF At, Member
<1>3. ASSUME NEW x \in S, ~Member(x) PROVE \E y \in S : Waits(y) \cap S = {}
  <2> DEFINE T == {y \in S : ~Member(y)}
  <2>1. PICK y \in T : Prerequisites(y) \cap T = {}
    BY <1>3 DEF BlocksAcyclic
  <2>2. \A z \in Task : Member(z) => relation[y][z] = "none"
    BY <1>1 DEF UnbornUntouched
  <2>3. \A z \in Waits(y) : z \in Prerequisites(y) /\ ~Member(z)
    BY <1>1, <2>2 DEF Prerequisites
  <2>4. y \in S /\ Waits(y) \cap S = {}
    BY <2>1, <2>3
  <2> QED
    BY <2>4
<1>4. ASSUME \A x \in S : Member(x) PROVE \E y \in S : Waits(y) \cap S = {}
  <2> DEFINE P == {At(x) : x \in S}
  <2>1. P \subseteq Nat /\ P # {}
    BY <1>2, <1>4
  <2>2. PICK k \in P : \A i \in P : <<i, k>> \notin OpToRel(<, Nat)
    BY <2>1, WFMin, NatLessThanWellFounded
  <2>3. \A i \in P : ~(i < k)
    BY <2>1, <2>2, Zenon DEF OpToRel
  <2>4. PICK y \in S : At(y) = k
    OBVIOUS
  <2>5. \A z \in Task : relation[y][z] = "none"
    BY <1>1, <1>4 DEF UnbornUntouched
  <2>6. ASSUME NEW z \in S, z \in Waits(y) PROVE FALSE
    <3>1. At(y) = At(z) + 1
      BY <1>1, <2>5, <2>6
    <3>2. At(z) \in P /\ At(z) \in Nat
      BY <1>2, <1>4
    <3> QED
      BY <2>3, <2>4, <3>1, <3>2
  <2> QED
    BY <2>6
<1> QED
  BY <1>3, <1>4

\* What the relations rest on, together.
RelationInv == TypeInv /\ UnbornUntouched /\ BlocksAcyclic

\* Steps of these kinds keep it.
LEMMA RelationInvStep ==
    ASSUME RelationInv, TypeInv', \A x \in Task : LifeStep(x), RelationStep
    PROVE  RelationInv'
<1>1. UnbornUntouched'
  BY UnbornStep DEF RelationInv
<1>2. ASSUME relation' = relation PROVE BlocksAcyclic'
  BY <1>2 DEF BlocksAcyclic, Prerequisites, RelationInv
<1>3. BlocksAcyclic'
  BY <1>2, EdgeKeepsAcyclic, ChainKeepsAcyclic DEF RelationInv, RelationStep
<1> QED
  BY <1>1, <1>3 DEF RelationInv

\* And so do all steps of the queue.
LEMMA RelationNext == RelationInv /\ [Next]_vars => RelationInv'
<1> SUFFICES ASSUME RelationInv, [Next]_vars PROVE RelationInv'
  OBVIOUS
<1>1. TypeInv /\ UnbornUntouched
  BY DEF RelationInv
<1> QED
  BY <1>1, TypeStep, NextLife, NextRelation, RelationInvStep

\* The empty tables have it.
LEMMA RelationInit == Init => RelationInv
<1> SUFFICES ASSUME Init PROVE RelationInv
  OBVIOUS
<1>1. UnbornUntouched /\ BlocksAcyclic
  BY DEF Init, UnbornUntouched, BlocksAcyclic, Prerequisites
<1> QED
  BY <1>1, TypeInit DEF RelationInv

\* However `relate`, `add --blocked-by` and `goal` are mixed, no tasks ever wait
\* for each other in a cycle, of whatever length.
THEOREM NoCycles == Spec => []BlocksAcyclic
<1>1. RelationInv => BlocksAcyclic
  BY DEF RelationInv
<1> QED
  BY <1>1, RelationInit, RelationNext, PTL DEF Spec

\* Acyclic relations explain a queue that is stuck: of the tasks to do, take one
\* that waits for none of them.
LEMMA AcyclicExplains == TypeInv /\ BlocksAcyclic => StuckIsExplained
<1> SUFFICES ASSUME TypeInv, BlocksAcyclic, HasStatus("todo") # {}, HasStatus("doing") = {},
                    \A t \in Task : ~Ready(t)
             PROVE  \E t \in HasStatus("todo") :
                       \/ row[t].avail > now
                       \/ \E g \in Gate : gates[t][g] = "unmet"
                       \/ \E u \in Prerequisites(t) : row[u].status \notin {"todo", "done"}
  BY DEF StuckIsExplained
<1>1. PICK t \in HasStatus("todo") : Prerequisites(t) \cap HasStatus("todo") = {}
  BY DEF BlocksAcyclic, HasStatus
<1>2. row[t].avail \in Nat /\ now \in Nat
  BY DEF TypeInv, TypeOK, HasStatus, Row
<1>3. \A u \in Prerequisites(t) : row[u].status # "todo"
  BY <1>1 DEF Prerequisites, HasStatus
<1>4. ~Ready(t)
  BY DEF HasStatus
<1> QED
  BY <1>2, <1>3, <1>4 DEF Ready, ReadyWith, HasStatus

\* A queue with tasks to do that hands out none is stuck for a reason its
\* operator can see: a time to come, a gate, or a prerequisite that ended badly.
THEOREM StuckExplained == Spec => []StuckIsExplained
<1>1. RelationInv => StuckIsExplained
  BY AcyclicExplains DEF RelationInv
<1> QED
  BY <1>1, RelationInit, RelationNext, PTL DEF Spec

-----------------------------------------------------------------------------
(* What a claim may rely on                                                 *)

\* Only workers change statuses, and relations are those tasks are added with.
WorkersOnly ==
    Commands \cap {"set", "force", "retry", "defer", "audit", "relate"} = {}

\* What is done stays done until its row is deleted, what a task waits for is
\* fixed with its row, and its first attempt is a claim that found that done.
WaitStep(x) ==
    /\ row[x].status \in {"done", "removed"} => row'[x].status \in {"done", "removed"}
    /\ row[x].status # "unborn" => \A u \in Task : relation'[x][u] = relation[x][u]
    /\ attempts'[x] # <<>> =>
          attempts[x] # <<>> \/ (row[x].status = "todo" /\ Prerequisites(x) \subseteq HasStatus("done"))

\* A task that has an owner has an attempt.
LEMMA OwnedHasAttempts ==
    ASSUME NEW log, OpenAttempts(log) # {}
    PROVE  log # <<>>
BY DEF OpenAttempts

\* Every step is one of that kind for each task.
LEMMA NextWait ==
    ASSUME WorkersOnly, TypeInv, [Next]_vars, NEW x \in Task
    PROVE  WaitStep(x)
<1>0. /\ row = [t \in Task |-> row[t]] /\ attempts = [t \in Task |-> attempts[t]]
      /\ now \in Nat /\ \A t \in Task : row[t] \in Row
      /\ attempts[x] \in Seq(Attempt)
  BY DEF TypeInv, TypeOK
<1>1. ASSUME UNCHANGED <<row, relation, attempts>> PROVE WaitStep(x)
  BY <1>1 DEF WaitStep
<1>2. CASE Adding
  <2>1. ASSUME NEW t \in Task, NEW a, Add(t, a) PROVE WaitStep(x)
    BY <1>0, <2>1 DEF Add, InsertTask, WaitStep
  <2>2. ASSUME NEW t \in Task, NEW u \in Task, NEW a, AddBlockedBy(t, u, a) PROVE WaitStep(x)
    <3>1. attempts' = attempts /\ row[t].status = "unborn"
      BY <2>2 DEF AddBlockedBy
    <3>2. \A y \in Task : y # t => row'[y] = row[y] /\ relation'[y] = relation[y]
      BY <1>0, <2>2 DEF AddBlockedBy, InsertTask, TypeInv, TypeOK
    <3> QED
      BY <3>1, <3>2 DEF WaitStep
  <2>3. ASSUME NEW g \in Group, NEW chain \in GoalChains(g), CreateGoal(g, chain)
        PROVE  WaitStep(x)
    <3> DEFINE Member(t) == \E i \in DOMAIN chain : chain[i] = t
    <3>1. attempts' = attempts
      BY <2>3 DEF CreateGoal
    <3>2. Member(x) => row[x].status = "unborn"
      BY <2>3, ChainRelation
    <3>3. ~Member(x) => row'[x] = row[x] /\ \A u \in Task : relation'[x][u] = relation[x][u]
      BY <2>3 DEF CreateGoal
    <3> QED
      BY <3>1, <3>2, <3>3 DEF WaitStep
  <2> QED
    BY <1>2, <2>1, <2>2, <2>3 DEF Adding
<1>3. CASE Working
  <2>1. ASSUME NEW t \in Task, NEW w, NEW ttl, NEW itsGates, ReadyWith(t, itsGates),
               Claim(t, w, ttl), relation' = relation
        PROVE  WaitStep(x)
    <3>1. row[t].status = "todo" /\ Prerequisites(t) \subseteq HasStatus("done")
      BY <2>1 DEF ReadyWith, HasStatus, Prerequisites
    <3>2. x # t => row'[x] = row[x] /\ attempts'[x] = attempts[x]
      BY <1>0, <2>1 DEF Claim
    <3> QED
      BY <2>1, <3>1, <3>2 DEF WaitStep
  <2>2. ASSUME NEW t \in Task, NEW w, NEW ttl, Heartbeat(t, w, ttl) PROVE WaitStep(x)
    BY <1>0, <2>2 DEF Heartbeat, WaitStep, Row
  <2>3. ASSUME NEW t \in Task, NEW s, NEW staged, NEW w \in Worker, SetByWorker(t, s, staged, w)
        PROVE  WaitStep(x)
    <3>1. row[t].status = "doing" /\ OpenAttempts(attempts[t]) # {}
      BY <2>3, NoWorkerAssumption DEF SetByWorker, WorkerFence, Owner, ActiveAttemptOwner
    <3>2. relation' = relation /\ (x # t => row'[x] = row[x] /\ attempts'[x] = attempts[x])
      BY <1>0, <2>3 DEF SetByWorker, ApplyStatusAndStage, UpdateTask
    <3> QED
      BY <3>1, <3>2, OwnedHasAttempts DEF WaitStep
  <2> QED
    BY <1>1, <1>3, <2>1, <2>2, <2>3 DEF Working, ClaimNext, ClaimTask, Ready
<1>4. CASE Operating
  <2>1. ASSUME NEW t \in Task, Delete(t) PROVE WaitStep(x)
    <3>1. x # t => row'[x] = row[x]
      BY <1>0, <2>1 DEF Delete
    <3>2. row'[t].status = "removed" /\ attempts' = attempts /\ relation' = relation
      BY <1>0, <2>1 DEF Delete, AbsentRow
    <3> QED
      BY <3>1, <3>2 DEF WaitStep
  <2>2. ASSUME NEW s \in Status, PruneStatus(s) PROVE WaitStep(x)
    BY <2>2 DEF PruneStatus, AbsentRow, WaitStep
  <2> QED
    BY <1>1, <1>4, <2>1, <2>2
       DEF Operating, Arranging, SetUnfenced, SetForced, AuditDisapproves, RetryManual,
           RetryDeferred, AddRelation, AddGate, SatisfyGate, WorkersOnly
<1>5. CASE Reaping
  <2>1. ASSUME NEW r \in Reaper, NEW t \in Task, ReaperRequeue(r, t) PROVE WaitStep(x)
    <3>1. row[t].status = "doing" /\ relation' = relation
      BY <2>1 DEF ReaperRequeue, StillStale
    <3>2. x # t => row'[x] = row[x] /\ attempts'[x] = attempts[x]
      BY <1>0, <2>1 DEF ReaperRequeue
    <3>3. attempts'[t] = CloseLatest(attempts[t], "todo")
      BY <1>0, <2>1 DEF ReaperRequeue, AttemptsAfter, Terminal
    <3>4. attempts[t] = <<>> => attempts'[t] = <<>>
      BY <3>3, OwnedHasAttempts DEF CloseLatest
    <3> QED
      BY <3>1, <3>2, <3>4 DEF WaitStep
  <2> QED
    BY <1>1, <1>5, <2>1
       DEF Reaping, ReaperStep, ReaperScan, ReaperSkip, ReaperFail, ReaperKill
<1>6. CASE Tick \/ UNCHANGED vars
  BY <1>1, <1>6 DEF Tick, vars
<1> QED
  BY <1>2, <1>3, <1>4, <1>5, <1>6 DEF Next

\* A chain runs in its order where only workers change statuses: a task that was
\* ever claimed has the prerequisites done that were not deleted since.
THEOREM ChainsRunInOrder ==
    ASSUME WorkersOnly
    PROVE  Spec => []DependentsWait
<1> DEFINE Inv == RelationInv /\ DependentsWait
<1>1. Init => Inv
  BY RelationInit DEF Init, DependentsWait
<1>2. Inv /\ [Next]_vars => Inv'
  <2> SUFFICES ASSUME Inv, [Next]_vars, NEW t \in Task, attempts'[t] # <<>>,
                      NEW u \in Task, relation'[t][u] = "blocks"
               PROVE  row'[u].status \in {"done", "removed"}
    BY RelationNext DEF DependentsWait, Prerequisites, HasStatus
  <2>1. WaitStep(t) /\ WaitStep(u)
    BY NextWait DEF RelationInv
  <2>2. row[t].status # "unborn"
    BY <2>1 DEF WaitStep, RelationInv, UnbornUntouched
  <2>3. u \in Prerequisites(t)
    BY <2>1, <2>2 DEF WaitStep, Prerequisites
  <2>4. row[u].status \in {"done", "removed"}
    BY <2>1, <2>3 DEF WaitStep, DependentsWait, HasStatus
  <2> QED
    BY <2>1, <2>4 DEF WaitStep
<1>3. Inv => DependentsWait
  OBVIOUS
<1> QED
  BY <1>1, <1>2, <1>3, PTL DEF Spec

\* A step that gives a task a satisfied gate finds it claimed, or claims it.
LEMMA NextGates ==
    ASSUME "satisfy" \notin Commands, TypeInv, [Next]_vars, NEW t \in Task, NEW g \in Gate,
           gates'[t][g] = "satisfied"
    PROVE  gates[t][g] = "satisfied" \/ attempts'[t] # <<>>
<1>0. /\ gates \in [Task -> [Gate -> {"none", "unmet", "satisfied"}]]
      /\ \A x \in Task : attempts[x] \in Seq(Attempt)
      /\ attempts = [x \in Task |-> attempts[x]]
  BY DEF TypeInv, TypeOK
<1>1. CASE gates' = gates
  BY <1>1
<1>2. ASSUME NEW x \in Task, NEW h \in Gate, AddGate(x, h)
      PROVE  gates[t][g] = "satisfied" \/ attempts'[t] # <<>>
  BY <1>0, <1>2 DEF AddGate
<1>3. ASSUME NEW x \in Task, NEW w \in Worker, NEW ttl \in LeaseTimes,
             NEW approved \in SUBSET Gate, ClaimTask(x, w, ttl, approved)
      PROVE  gates[t][g] = "satisfied" \/ attempts'[t] # <<>>
  <2>1. CASE t = x
    <3>1. CASE Claim(t, w, ttl)
      <4>1. attempts'[t] = OpenAttempt(attempts[t], w)
        BY <1>0, <3>1 DEF Claim
      <4>2. Len(attempts'[t]) \in OpenAttempts(attempts'[t])
        BY <1>0, <4>1, OpenAttemptOwns
      <4> QED
        BY <4>2, OwnedHasAttempts
    <3>2. CASE OpenAttempts(attempts[t]) # {} /\ attempts' = attempts
      BY <3>2, OwnedHasAttempts
    <3> QED
      BY <1>3, <2>1, <3>1, <3>2 DEF ClaimTask
  <2>2. CASE t # x
    BY <1>0, <1>3, <2>2 DEF ClaimTask
  <2> QED
    BY <2>1, <2>2
<1>4. CASE Adding
  BY <1>1, <1>4 DEF Adding, Add, AddBlockedBy, CreateGoal
<1>5. CASE Working
  BY <1>1, <1>3, <1>5 DEF Working, ClaimNext, Heartbeat, SetByWorker, ApplyStatusAndStage, UpdateTask
<1>6. CASE Operating
  BY <1>1, <1>2, <1>6
     DEF Operating, Arranging, SetUnfenced, SetForced, AuditDisapproves, RetryManual,
         RetryDeferred, ApplyStatusAndStage, UpdateTask, Delete, PruneStatus, AddRelation, SatisfyGate
<1>7. CASE Reaping
  BY <1>1, <1>7 DEF Reaping, ReaperStep, ReaperScan, ReaperRequeue, ReaperSkip, ReaperFail, ReaperKill
<1>8. CASE Tick \/ UNCHANGED vars
  BY <1>1, <1>8 DEF Tick, vars
<1> QED
  BY <1>4, <1>5, <1>6, <1>7, <1>8 DEF Next

\* A claim that is refused takes back the approvals it came with: as long as
\* gates are satisfied by claims alone, an open gate means a claimed task.
THEOREM RefusalsKeepGates ==
    ASSUME "satisfy" \notin Commands
    PROVE  Spec => []GatesOpenWithClaims
<1> DEFINE Inv == TypeInv /\ GatesOpenWithClaims
<1>1. Init => Inv
  BY TypeInit DEF Init, GatesOpenWithClaims
<1>2. Inv /\ [Next]_vars => Inv'
  <2> SUFFICES ASSUME Inv, [Next]_vars, NEW t \in Task, NEW g \in Gate,
                      gates'[t][g] = "satisfied"
               PROVE  attempts'[t] # <<>>
    BY TypeStep DEF GatesOpenWithClaims
  <2>1. CASE gates[t][g] = "satisfied"
    <3>1. attempts[t] # <<>> /\ attempts[t] \in Seq(Attempt)
      BY <2>1 DEF GatesOpenWithClaims, TypeInv, TypeOK
    <3>2. 1 \in DOMAIN attempts[t]
      BY <3>1
    <3>3. 1 \in DOMAIN attempts'[t]
      BY <3>2, NextLife DEF LifeStep, Continues
    <3> QED
      BY <3>3
  <2>2. CASE gates[t][g] # "satisfied"
    BY <2>2, NextGates
  <2> QED
    BY <2>1, <2>2
<1>3. Inv => GatesOpenWithClaims
  OBVIOUS
<1> QED
  BY <1>1, <1>2, <1>3, PTL DEF Spec

\* A claim that `afk status` shows as stale is one the reaper takes.
LEMMA DiagnosisIsStale == TypeInv => StaleIsReaped
<1> SUFFICES ASSUME TypeInv, NEW t \in Task, NEW age \in StaleAges, DiagnosedStale(t, age)
             PROVE  StillStale(row[t], now, now - age)
  BY DEF StaleIsReaped
<1>1. age \in Nat /\ now \in Nat /\ row[t].started \in Nat
  BY QueueAssumption DEF TypeInv, TypeOK, Row
<1> QED
  BY <1>1 DEF DiagnosedStale, StillStale

\* The two readings of staleness, in Go and in SQL, agree on every queue.
THEOREM StaleClaimsAreReaped == Spec => []StaleIsReaped
<1>1. Init => TypeInv
  BY TypeInit
<1>2. TypeInv /\ [Next]_vars => TypeInv'
  BY TypeStep
<1> QED
  BY <1>1, <1>2, DiagnosisIsStale, PTL DEF Spec

-----------------------------------------------------------------------------
(* The status of goals                                                      *)

\* A step leaves a goal and the statuses of its members alone, or refreshes it.
GoalStep(g) ==
    \/ goalStatus'[g] = "none"
    \/ /\ goalStatus'[g] = goalStatus[g]
       /\ \A t \in Task : GroupOf[t] = g => row'[t].status = row[t].status
    \/ \E fallback \in {"complete", "failed"} :
          goalStatus'[g] = GoalStatusOf(row', g, fallback)

\* A step of that kind for every goal keeps their statuses in agreement.
LEMMA GoalsAgreeStep ==
    ASSUME row' \in [Task -> Row], GoalStatusAgrees, \A g \in Group : GoalStep(g)
    PROVE  GoalStatusAgrees'
<1> DEFINE Some(g, S) == \E t \in Task : GroupOf[t] = g /\ row'[t].status \in S
           Agrees(g) ==
               /\ goalStatus'[g] = "active" <=> Some(g, {"todo", "doing"})
               /\ goalStatus'[g] = "complete" =>
                     \A t \in Task : GroupOf[t] = g /\ row'[t].status \in Status
                                     => row'[t].status = "done"
               /\ goalStatus'[g] = "budget-limited" => Some(g, {"budget-limited"})
<1> SUFFICES ASSUME NEW g \in Group, goalStatus'[g] # "none" PROVE Agrees(g)
  BY DEF GoalStatusAgrees, HasStatus
<1>1. ASSUME NEW fallback \in {"complete", "failed"},
             goalStatus'[g] = GoalStatusOf(row', g, fallback)
      PROVE  Agrees(g)
  <2>1. goalStatus'[g] =
          CASE Some(g, {"todo", "doing"}) -> "active"
            [] ~Some(g, {"todo", "doing"}) /\ Some(g, {"budget-limited"}) -> "budget-limited"
            [] ~Some(g, {"todo", "doing", "budget-limited"}) /\ Some(g, {"failed", "deleted"}) -> "failed"
            [] OTHER -> fallback
    BY <1>1 DEF GoalStatusOf
  <2>2. CASE Some(g, {"todo", "doing"})
    BY <2>1, <2>2
  <2>3. CASE ~Some(g, {"todo", "doing"}) /\ Some(g, {"budget-limited"})
    BY <2>1, <2>3
  <2>4. CASE /\ ~Some(g, {"todo", "doing"}) /\ ~Some(g, {"budget-limited"})
             /\ Some(g, {"failed", "deleted"})
    BY <2>1, <2>4
  <2>5. CASE /\ ~Some(g, {"todo", "doing"}) /\ ~Some(g, {"budget-limited"})
             /\ ~Some(g, {"failed", "deleted"})
    <3>1. goalStatus'[g] = fallback
      BY <2>1, <2>5
    <3>2. \A t \in Task : GroupOf[t] = g /\ row'[t].status \in Status => row'[t].status = "done"
      BY <2>5 DEF Status
    <3> QED
      BY <2>5, <3>1, <3>2
  <2> QED
    BY <2>2, <2>3, <2>4, <2>5
<1>2. ASSUME goalStatus'[g] = goalStatus[g],
             \A t \in Task : GroupOf[t] = g => row'[t].status = row[t].status
      PROVE  Agrees(g)
  BY <1>2 DEF GoalStatusAgrees, HasStatus
<1> QED
  BY <1>1, <1>2 DEF GoalStep

\* Changing the status of one task and refreshing its goal is such a step.
LEMMA RefreshGoals ==
    ASSUME goalStatus \in [Group -> GoalStatus], NEW t \in Task,
           \A x \in Task : x # t => row'[x].status = row[x].status,
           NEW fallback \in {"complete", "failed"},
           goalStatus' = RefreshGoalStatus(row', t, fallback), NEW g \in Group
    PROVE  GoalStep(g)
<1>1. goalStatus'[g] = IF g = GroupOf[t] /\ goalStatus[g] # "none"
                       THEN GoalStatusOf(row', g, fallback) ELSE goalStatus[g]
  BY DEF RefreshGoalStatus
<1>2. CASE g = GroupOf[t]
  BY <1>1, <1>2 DEF GoalStep
<1>3. CASE g # GroupOf[t]
  BY <1>1, <1>3 DEF GoalStep
<1> QED
  BY <1>2, <1>3

\* All that is left is adding members behind the goal's back, and pruning them.
GoalsKept == Commands \cap {"join", "prune"} = {}

\* Every step is such a step for every goal.
LEMMA NextGoals ==
    ASSUME GoalsKept, TypeInv, [Next]_vars, NEW g \in Group
    PROVE  GoalStep(g)
<1>0. /\ row = [t \in Task |-> row[t]] /\ \A t \in Task : row[t] \in Row
      /\ goalStatus \in [Group -> GoalStatus]
  BY DEF TypeInv, TypeOK
<1>1. ASSUME UNCHANGED <<row, goalStatus>> PROVE GoalStep(g)
  BY <1>1 DEF GoalStep
<1>2. ASSUME NEW t \in Task, NEW r, NEW event, UpdateTask(t, r, event) PROVE GoalStep(g)
  <2>1. \A x \in Task : x # t => row'[x].status = row[x].status
    BY <1>0, <1>2 DEF UpdateTask
  <2> QED
    BY <1>0, <1>2, <2>1, RefreshGoals DEF UpdateTask
<1>3. CASE Adding
  <2>1. ASSUME NEW t \in Task, NEW a, MayJoin(t), InsertTask(t, a), goalStatus' = goalStatus
        PROVE  GoalStep(g)
    <3>1. GroupOf[t] # g
      BY <2>1, QueueAssumption DEF MayJoin, GoalsKept
    <3>2. \A x \in Task : x # t => row'[x] = row[x]
      BY <1>0, <2>1 DEF InsertTask
    <3> QED
      BY <2>1, <3>1, <3>2 DEF GoalStep
  <2>2. ASSUME NEW h \in Group, NEW chain \in GoalChains(h), CreateGoal(h, chain)
        PROVE  GoalStep(g)
    <3> DEFINE Member(t) == \E i \in DOMAIN chain : chain[i] = t
    <3>1. \A t \in Task : ~Member(t) => row'[t] = row[t]
      BY <2>2 DEF CreateGoal
    <3>2. \A t \in Task : Member(t) => GroupOf[t] = h /\ row'[t].status = "todo"
      BY <2>2, ChainPlaces, ChainRelation
    <3>3. \E t \in Task : Member(t)
      <4>1. PICK n \in Nat \ {0} : DOMAIN chain = 1..n
        BY <2>2, ChainPlaces
      <4>2. 1 \in DOMAIN chain /\ chain[1] \in Task
        BY <4>1, <2>2, ChainPlaces
      <4> QED
        BY <4>2
    <3>4. goalStatus'[g] = IF g = h THEN "active" ELSE goalStatus[g]
      BY <1>0, <2>2 DEF CreateGoal
    <3> HIDE DEF Member
    <3>5. CASE g = h
      <4>1. \E t \in Task : GroupOf[t] = g /\ row'[t].status \in {"todo", "doing"}
        BY <3>2, <3>3, <3>5
      <4>2. GoalStatusOf(row', g, "complete") = "active"
        BY <4>1 DEF GoalStatusOf
      <4> QED
        BY <3>4, <3>5, <4>2 DEF GoalStep
    <3>6. CASE g # h
      BY <3>1, <3>2, <3>4, <3>6 DEF GoalStep
    <3> QED
      BY <3>5, <3>6
  <2>3. ASSUME NEW t \in Task, NEW a, Add(t, a) PROVE GoalStep(g)
    BY <2>1, <2>3 DEF Add
  <2>4. ASSUME NEW t \in Task, NEW u, NEW a, AddBlockedBy(t, u, a) PROVE GoalStep(g)
    BY <2>1, <2>4 DEF AddBlockedBy
  <2> QED
    BY <1>3, <2>2, <2>3, <2>4 DEF Adding
<1>4. CASE Working
  <2>1. ASSUME NEW t \in Task, NEW w, NEW ttl, Claim(t, w, ttl) PROVE GoalStep(g)
    <3>1. \A x \in Task : x # t => row'[x].status = row[x].status
      BY <1>0, <2>1 DEF Claim
    <3> QED
      BY <1>0, <2>1, <3>1, RefreshGoals DEF Claim
  <2>2. ASSUME NEW t \in Task, NEW w, NEW ttl, Heartbeat(t, w, ttl) PROVE GoalStep(g)
    <3>1. goalStatus' = goalStatus /\ \A x \in Task : row'[x].status = row[x].status
      BY <1>0, <2>2 DEF Heartbeat, Row
    <3> QED
      BY <3>1 DEF GoalStep
  <2> QED
    BY <1>1, <1>2, <1>4, <2>1, <2>2
       DEF Working, ClaimNext, ClaimTask, SetByWorker, ApplyStatusAndStage
<1>5. CASE Operating
  <2>1. ASSUME NEW t \in Task, Delete(t) PROVE GoalStep(g)
    <3>1. \A x \in Task : x # t => row'[x].status = row[x].status
      BY <1>0, <2>1 DEF Delete
    <3> QED
      BY <1>0, <2>1, <3>1, RefreshGoals DEF Delete
  <2>2. ASSUME NEW t \in Task,
               \/ \E s, staged : \/ SetUnfenced(t, s, staged) \/ SetForced(t, s, staged)
               \/ AuditDisapproves(t) \/ RetryManual(t) \/ \E a : RetryDeferred(t, a)
        PROVE  GoalStep(g)
    BY <1>2, <2>2
       DEF SetUnfenced, SetForced, AuditDisapproves, RetryManual, RetryDeferred, ApplyStatusAndStage
  <2> QED
    BY <1>1, <1>5, <2>1, <2>2
       DEF Operating, Arranging, PruneStatus, AddRelation, AddGate, SatisfyGate, GoalsKept
<1>6. CASE Reaping
  <2>1. ASSUME NEW r \in Reaper, NEW t \in Task, ReaperRequeue(r, t) PROVE GoalStep(g)
    <3>1. \A x \in Task : x # t => row'[x].status = row[x].status
      BY <1>0, <2>1 DEF ReaperRequeue
    <3> QED
      BY <1>0, <2>1, <3>1, RefreshGoals DEF ReaperRequeue
  <2> QED
    BY <1>1, <1>6, <2>1
       DEF Reaping, ReaperStep, ReaperScan, ReaperSkip, ReaperFail, ReaperKill
<1>7. CASE Tick \/ UNCHANGED vars
  BY <1>1, <1>7 DEF Tick, vars
<1> QED
  BY <1>3, <1>4, <1>5, <1>6, <1>7 DEF Next

\* Whatever is done to its members one by one, the status of a goal is what
\* their rows say.
THEOREM GoalsAgree ==
    ASSUME GoalsKept
    PROVE  Spec => []GoalStatusAgrees
<1> DEFINE Inv == TypeInv /\ GoalStatusAgrees
<1>1. Init => Inv
  BY TypeInit DEF Init, GoalStatusAgrees
<1>2. Inv /\ [Next]_vars => Inv'
  <2> SUFFICES ASSUME Inv, [Next]_vars PROVE Inv'
    OBVIOUS
  <2>1. TypeInv' /\ row' \in [Task -> Row]
    BY TypeStep DEF TypeInv, TypeOK
  <2> QED
    BY <2>1, NextGoals, GoalsAgreeStep
<1>3. Inv => GoalStatusAgrees
  OBVIOUS
<1> QED
  BY <1>1, <1>2, <1>3, PTL DEF Spec

=============================================================================
