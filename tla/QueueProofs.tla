---------------------------- MODULE QueueProofs ----------------------------
(***************************************************************************)
(* Theorems about the queue, for every value of its constants and every    *)
(* command of its operators.                                               *)
(***************************************************************************)
EXTENDS Queue, TLAPS, WellFoundedInduction

-----------------------------------------------------------------------------
(* Maxima                                                                   *)

\* Max returns the greatest member of a non-empty bounded set of naturals.
LEMMA MaxOfBounded ==
    ASSUME NEW S \in SUBSET Nat, S # {}, NEW n \in Nat, \A x \in S : x <= n
    PROVE  Max(S) \in S /\ \A x \in S : x <= Max(S)
<1> DEFINE Bounds == {m \in Nat : \A x \in S : x <= m}
<1>1. PICK m \in Bounds : \A k \in Bounds : m <= k
  <2>1. n \in Bounds /\ Bounds \subseteq Nat
    OBVIOUS
  <2>2. PICK m \in Bounds : \A k \in Bounds : <<k, m>> \notin OpToRel(<, Nat)
    BY <2>1, WFMin, NatLessThanWellFounded
  <2>3. \A k \in Bounds : ~(k < m)
    BY <2>1, <2>2, Zenon DEF OpToRel
  <2> QED
    BY <2>1, <2>3
<1>2. m \in S
  <2> SUFFICES ASSUME m \notin S PROVE FALSE
    OBVIOUS
  <2>1. PICK x \in S : TRUE
    OBVIOUS
  <2>2. m - 1 \in Bounds
    BY <2>1
  <2> QED
    BY <1>1, <2>2
<1>3. \A x \in S : m >= x
  OBVIOUS
<1> QED
  BY <1>2, <1>3 DEF Max

-----------------------------------------------------------------------------
(* Attempts                                                                 *)

\* A lifecycle event turns a list of attempts into a list of attempts.
LEMMA AttemptsAfterType ==
    ASSUME NEW log \in Seq(Attempt), NEW event, NEW s,
           event = "requeued" => s = "todo",
           event \in Terminal => s \in Terminal
    PROVE  AttemptsAfter(event, log, s) \in Seq(Attempt)
<1>1. ASSUME NEW o \in Terminal \cup {"todo"}
      PROVE  CloseLatest(log, o) \in Seq(Attempt)
  <2> DEFINE new == [log EXCEPT ![LatestOpen(log)].outcome = o]
  <2>1. log \in [1..Len(log) -> Attempt] /\ Len(log) \in Nat
    OBVIOUS
  <2>2. \A a \in Attempt : [a EXCEPT !.outcome = o] \in Attempt
    BY <1>1 DEF Attempt
  <2>3. new \in [1..Len(log) -> Attempt]
    BY <2>1, <2>2
  <2>4. new \in Seq(Attempt)
    BY <2>1, <2>3
  <2> QED
    BY <2>4 DEF CloseLatest
<1>2. OpenAttempt(log, NoWorker) \in Seq(Attempt)
  BY DEF OpenAttempt, Attempt
<1>3. ASSUME s \in Terminal
      PROVE  Append(log, [worker |-> NoWorker, outcome |-> s]) \in Seq(Attempt)
  BY <1>3 DEF Attempt
<1> QED
  BY <1>1, <1>2, <1>3 DEF AttemptsAfter, Terminal

\* The owner of a list whose last attempt is open is the worker of that attempt.
LEMMA LastOpenOwns ==
    ASSUME NEW log \in Seq(Attempt), Len(log) \in OpenAttempts(log)
    PROVE  ActiveAttemptOwner(log) = log[Len(log)].worker
<1>1. IsLatestOpen(log, Len(log))
  BY DEF IsLatestOpen, OpenAttempts
<1>2. ASSUME NEW i \in OpenAttempts(log), IsLatestOpen(log, i) PROVE i = Len(log)
  BY <1>2 DEF IsLatestOpen, OpenAttempts
<1>3. LatestOpen(log) = Len(log)
  BY <1>1, <1>2 DEF LatestOpen
<1> QED
  BY <1>3 DEF ActiveAttemptOwner

\* Appending an open attempt makes it the last one and its worker the owner.
LEMMA OpenAttemptOwns ==
    ASSUME NEW log \in Seq(Attempt), NEW w \in Worker \cup {NoWorker}
    PROVE  /\ OpenAttempt(log, w) \in Seq(Attempt)
           /\ Len(OpenAttempt(log, w)) \in OpenAttempts(OpenAttempt(log, w))
           /\ ActiveAttemptOwner(OpenAttempt(log, w)) = w
<1> DEFINE new == OpenAttempt(log, w)
<1>1. /\ new \in Seq(Attempt)
      /\ Len(new) = Len(log) + 1
      /\ new[Len(new)] = [worker |-> w, outcome |-> "open"]
  BY DEF OpenAttempt, Attempt
<1>2. Len(new) \in OpenAttempts(new)
  BY <1>1 DEF OpenAttempts
<1> HIDE DEF new
<1>3. ActiveAttemptOwner(new) = w
  BY <1>1, <1>2, LastOpenOwns
<1> QED
  BY <1>1, <1>2, <1>3 DEF new

-----------------------------------------------------------------------------
(* Types                                                                    *)

\* Ordinals have an upper bound: the next one is a natural number even if the
\* set of task ids is infinite.
OrdinalsBounded == \E n \in Nat : \A t \in Task : row[t].ordinal <= n

TypeInv == TypeOK /\ OrdinalsBounded

\* A status change turns a row into a row of that status and keeps its ordinal.
LEMMA SetStatusType ==
    ASSUME NEW r \in Row, NEW s \in Status, NEW at \in Nat
    PROVE  /\ SetStatus(r, s, at) \in Row
           /\ SetStatus(r, s, at).ordinal = r.ordinal
           /\ SetStatus(r, s, at).status = s
<1>1. SetStatus(r, s, at) \in {r, Reset(r), MarkWorking(r, at), MarkEnded(r, s)}
  <2>1. CASE s = r.status
    BY <2>1 DEF SetStatus
  <2>2. CASE s # r.status /\ s = "todo"
    BY <2>2 DEF SetStatus
  <2>3. CASE s # r.status /\ s = "doing"
    BY <2>3 DEF SetStatus
  <2>4. CASE s # r.status /\ s \notin {"todo", "doing"}
    BY <2>4 DEF SetStatus
  <2> QED
    BY <2>1, <2>2, <2>3, <2>4
<1>2. Reset(r) \in Row /\ MarkWorking(r, at) \in Row
  BY DEF Reset, MarkWorking, Row, Status
<1>3. MarkEnded(r, s) \in Row
  BY DEF MarkEnded, Row
<1>4. /\ Reset(r).ordinal = r.ordinal /\ Reset(r).status = "todo"
      /\ MarkWorking(r, at).ordinal = r.ordinal /\ MarkWorking(r, at).status = "doing"
      /\ MarkEnded(r, s).ordinal = r.ordinal /\ MarkEnded(r, s).status = s
  BY DEF Reset, MarkWorking, MarkEnded, Row
<1>5. SetStatus(r, s, at).status = s
  BY <1>4 DEF SetStatus
<1> QED
  BY <1>1, <1>2, <1>3, <1>4, <1>5

\* Refreshing a goal leaves every goal a status.
LEMMA RefreshType ==
    ASSUME goalStatus \in [Group -> GoalStatus], NEW rows, NEW t,
           NEW fallback \in {"complete", "failed"}
    PROVE  RefreshGoalStatus(rows, t, fallback) \in [Group -> GoalStatus]
<1>1. \A g \in Group : GoalStatusOf(rows, g, fallback) \in GoalStatus
  BY DEF GoalStatusOf, GoalStatus
<1> QED
  BY <1>1 DEF RefreshGoalStatus

\* The next ordinal is a natural number above every ordinal in use.
LEMMA NextOrdinalType ==
    ASSUME TypeInv
    PROVE  NextOrdinal \in Nat /\ \A t \in Present : row[t].ordinal < NextOrdinal
<1> DEFINE S == {0} \cup {row[t].ordinal : t \in Present}
<1>1. \A t \in Task : row[t].ordinal \in Nat
  BY DEF TypeInv, TypeOK, Row
<1>2. S \in SUBSET Nat /\ S # {}
  BY <1>1 DEF Present
<1>3. PICK n \in Nat : \A x \in S : x <= n
  BY DEF TypeInv, OrdinalsBounded, Present
<1>4. Max(S) \in S /\ \A x \in S : x <= Max(S)
  BY <1>2, <1>3, MaxOfBounded
<1>5. \A t \in Present : row[t].ordinal \in S
  OBVIOUS
<1>6. NextOrdinal = 1 + Max(S)
  BY DEF NextOrdinal
<1>7. Max(S) \in Nat
  BY <1>2, <1>4
<1> HIDE DEF S
<1> QED
  BY <1>1, <1>4, <1>5, <1>6, <1>7 DEF Present

\* Replacing the row of one task by a row with a bounded ordinal.
LEMMA RowReplaced ==
    ASSUME TypeInv, NEW t \in Task, NEW r \in Row, row' = [row EXCEPT ![t] = r]
    PROVE  row' \in [Task -> Row] /\ OrdinalsBounded'
<1>1. row' \in [Task -> Row]
  BY DEF TypeInv, TypeOK
<1>2. PICK n \in Nat : \A u \in Task : row[u].ordinal <= n
  BY DEF TypeInv, OrdinalsBounded
<1>3. r.ordinal \in Nat /\ \A u \in Task : row[u].ordinal \in Nat
  BY DEF TypeInv, TypeOK, Row
<1>4. \A u \in Task : row'[u].ordinal <= n + r.ordinal
  BY <1>2, <1>3 DEF TypeInv, TypeOK
<1> QED
  BY <1>1, <1>3, <1>4 DEF OrdinalsBounded

\* Every status update keeps the types.
LEMMA UpdateTaskType ==
    ASSUME TypeInv, NEW t \in Task, NEW r \in Row, NEW event, UpdateTask(t, r, event),
           event = "requeued" => r.status = "todo",
           event \in Terminal => r.status \in Terminal
    PROVE  TypeInv'
<1>1. row' \in [Task -> Row] /\ OrdinalsBounded'
  BY RowReplaced DEF UpdateTask
<1>2. AttemptsAfter(event, attempts[t], r.status) \in Seq(Attempt)
  BY AttemptsAfterType DEF TypeInv, TypeOK
<1>3. attempts' \in [Task -> Seq(Attempt)]
  BY <1>2 DEF UpdateTask, TypeInv, TypeOK
<1>4. goalStatus' \in [Group -> GoalStatus]
  BY RefreshType DEF UpdateTask, TypeInv, TypeOK
<1> QED
  BY <1>1, <1>3, <1>4 DEF UpdateTask, TypeInv, TypeOK

\* So does `set`, whatever the status, staged or not.
LEMMA ApplyStatusType ==
    ASSUME TypeInv, NEW t \in Task, NEW s \in Status, NEW staged,
           ApplyStatusAndStage(t, s, staged)
    PROVE  TypeInv'
<1> DEFINE r == SetStatus(row[t], s, now)
<1>1. row[t] \in Row /\ now \in Nat
  BY DEF TypeInv, TypeOK
<1>2. r \in Row /\ r.status = s
  BY <1>1, SetStatusType
<1>3. /\ EventForStatus(s) = "requeued" => s = "todo"
      /\ EventForStatus(s) \in Terminal => s \in Terminal
  BY DEF EventForStatus, Terminal, Status
<1>4. UpdateTask(t, r, EventForStatus(s))
  BY DEF ApplyStatusAndStage
<1> HIDE DEF r
<1> QED
  BY <1>2, <1>3, <1>4, UpdateTaskType

\* A claim keeps the types of what it changes.
LEMMA ClaimType ==
    ASSUME TypeInv, NEW t \in Task, NEW w \in Worker, NEW ttl \in Nat,
           Claim(t, w, ttl)
    PROVE  /\ row' \in [Task -> Row] /\ OrdinalsBounded'
           /\ attempts' \in [Task -> Seq(Attempt)]
           /\ goalStatus' \in [Group -> GoalStatus]
<1> DEFINE r == [row[t] EXCEPT !.status = "doing", !.started = now, !.lease = LeaseFrom(ttl)]
<1>1. ttl \in Nat /\ now \in Nat /\ row[t] \in Row
  BY DEF TypeInv, TypeOK
<1>2. r \in Row
  <2>1. LeaseFrom(ttl) \in Nat
    BY <1>1 DEF LeaseFrom
  <2> QED
    BY <1>1, <2>1 DEF Row, Status
<1>3. row' = [row EXCEPT ![t] = r]
  BY DEF Claim, TypeInv, TypeOK
<1> HIDE DEF r
<1>4. row' \in [Task -> Row] /\ OrdinalsBounded'
  BY <1>2, <1>3, RowReplaced
<1>5. attempts' \in [Task -> Seq(Attempt)]
  BY OpenAttemptOwns DEF Claim, TypeInv, TypeOK
<1>6. goalStatus' \in [Group -> GoalStatus]
  BY RefreshType DEF Claim, TypeInv, TypeOK
<1> QED
  BY <1>4, <1>5, <1>6

\* Every step keeps the types: one step per action.
LEMMA TypeStep ==
    ASSUME TypeInv, [Next]_vars
    PROVE  TypeInv'
<1> USE DEF TypeInv
<1>0. now \in Nat /\ \A t \in Task : row[t] \in Row
  BY DEF TypeOK
<1>1. ASSUME NEW t \in Task, NEW a \in AvailTimes, Add(t, a) PROVE TypeInv'
  <2>1. NewRow(a, NextOrdinal) \in Row
    BY QueueAssumption, NextOrdinalType DEF NewRow, Row, Status
  <2>2. row' \in [Task -> Row] /\ OrdinalsBounded'
    BY <1>1, <2>1, RowReplaced DEF Add, InsertTask
  <2> QED
    BY <1>1, <2>2 DEF Add, TypeOK
<1>2. ASSUME NEW t \in Task, NEW u \in Task, NEW a \in AvailTimes, AddBlockedBy(t, u, a)
      PROVE  TypeInv'
  <2>1. NewRow(a, NextOrdinal) \in Row
    BY QueueAssumption, NextOrdinalType DEF NewRow, Row, Status
  <2>2. row' \in [Task -> Row] /\ OrdinalsBounded'
    BY <1>2, <2>1, RowReplaced DEF AddBlockedBy, InsertTask
  <2>3. relation' \in [Task -> [Task -> RelationType \cup {"none"}]]
    BY <1>2 DEF AddBlockedBy, TypeOK, RelationType
  <2> QED
    BY <1>2, <2>2, <2>3 DEF AddBlockedBy, TypeOK
<1>3. ASSUME NEW g \in Group, NEW chain \in GoalChains(g), CreateGoal(g, chain)
      PROVE  TypeInv'
  <2> DEFINE At(t) == CHOOSE i \in DOMAIN chain : chain[i] = t
             Member(t) == \E i \in DOMAIN chain : chain[i] = t
  <2>1. PICK n \in Nat : DOMAIN chain = 1..n
    <3>1. PICK n \in 1..Cardinality({t \in HasStatus("unborn") : GroupOf[t] = g}) :
             chain \in [1..n -> {t \in HasStatus("unborn") : GroupOf[t] = g}]
      BY DEF GoalChains
    <3> QED
      BY <3>1
  <2>2. \A t \in Task : Member(t) => At(t) \in 1..n
    BY <2>1
  <2>3. \A t \in Task : row'[t] = IF Member(t) THEN NewRow(0, NextOrdinal + At(t) - 1)
                                              ELSE row[t]
    BY <1>3 DEF CreateGoal
  <2> HIDE DEF At, Member
  <2>4. \A t \in Task : Member(t) => /\ NextOrdinal + At(t) - 1 \in Nat
                                     /\ NextOrdinal + At(t) - 1 <= NextOrdinal + n
    BY <2>1, <2>2, NextOrdinalType
  <2>5. \A t \in Task : row'[t] \in Row
    <3>1. \A k \in Nat : NewRow(0, k) \in Row
      BY DEF NewRow, Row, Status
    <3> QED
      BY <1>0, <2>3, <2>4, <3>1
  <2>6. row' \in [Task -> Row]
    BY <1>3, <2>5 DEF CreateGoal
  <2>7. PICK m \in Nat : \A t \in Task : row[t].ordinal <= m
    BY DEF OrdinalsBounded
  <2>8. \A t \in Task : row'[t].ordinal <= NextOrdinal + n + m
    <3> TAKE t \in Task
    <3>1. row[t].ordinal \in Nat /\ row[t].ordinal <= m
      BY <2>7 DEF TypeOK, Row
    <3>2. CASE Member(t)
      <4>0. \A k : NewRow(0, k).ordinal = k
        BY DEF NewRow
      <4>1. row'[t].ordinal = NextOrdinal + At(t) - 1
        BY <2>3, <3>2, <4>0
      <4> QED
        BY <2>1, <2>4, <2>7, <3>2, <4>1, NextOrdinalType
    <3>3. CASE ~Member(t)
      BY <2>1, <2>3, <2>7, <3>1, <3>3, NextOrdinalType
    <3> QED
      BY <3>2, <3>3
  <2>9. OrdinalsBounded'
    <3>1. NextOrdinal + n + m \in Nat
      BY <2>1, <2>7, NextOrdinalType
    <3> QED
      BY <2>8, <3>1 DEF OrdinalsBounded
  <2>10. relation' \in [Task -> [Task -> RelationType \cup {"none"}]]
    BY <1>3 DEF CreateGoal, TypeOK, RelationType
  <2>11. goalStatus' \in [Group -> GoalStatus]
    BY <1>3 DEF CreateGoal, TypeOK, GoalStatus
  <2> QED
    BY <1>3, <2>6, <2>9, <2>10, <2>11 DEF CreateGoal, TypeOK
<1>4. ASSUME NEW t \in Task, NEW w \in Worker, NEW ttl \in LeaseTimes, ClaimNext(t, w, ttl)
      PROVE  TypeInv'
  BY <1>4, ClaimType, QueueAssumption DEF ClaimNext, TypeOK
<1>5. ASSUME NEW t \in Task, NEW w \in Worker, NEW ttl \in LeaseTimes,
             NEW approved \in SUBSET Gate, ClaimTask(t, w, ttl, approved)
      PROVE  TypeInv'
  <2>1. SatisfiedBy(gates[t], approved) \in [Gate -> {"none", "unmet", "satisfied"}]
    BY DEF SatisfiedBy, TypeOK
  <2>2. gates' \in [Task -> [Gate -> {"none", "unmet", "satisfied"}]]
    BY <1>5, <2>1 DEF ClaimTask, TypeOK
  <2>3. CASE Claim(t, w, ttl)
    BY <1>5, <2>2, <2>3, ClaimType, QueueAssumption DEF ClaimTask, TypeOK
  <2>4. CASE UNCHANGED <<row, attempts, goalStatus>>
    BY <1>5, <2>2, <2>4 DEF ClaimTask, TypeOK, OrdinalsBounded
  <2> QED
    BY <1>5, <2>3, <2>4 DEF ClaimTask
<1>6. ASSUME NEW t \in Task, NEW w \in Worker, NEW ttl \in LeaseTimes, Heartbeat(t, w, ttl)
      PROVE  TypeInv'
  <2>1. LeaseFrom(ttl) \in Nat
    BY QueueAssumption DEF LeaseFrom, TypeOK
  <2>2. [row[t] EXCEPT !.lease = LeaseFrom(ttl)] \in Row
    <3>1. row[t] \in Row
      BY DEF TypeOK
    <3> QED
      BY <2>1, <3>1 DEF Row
  <2>3. row' = [row EXCEPT ![t] = [row[t] EXCEPT !.lease = LeaseFrom(ttl)]]
    BY <1>6 DEF Heartbeat, TypeOK
  <2>4. row' \in [Task -> Row] /\ OrdinalsBounded'
    BY <2>2, <2>3, RowReplaced
  <2> QED
    BY <1>6, <2>4 DEF Heartbeat, TypeOK
<1>7. ASSUME NEW t \in Task, NEW s \in Status, NEW staged, ApplyStatusAndStage(t, s, staged)
      PROVE  TypeInv'
  BY <1>7, ApplyStatusType
<1>8. ASSUME NEW t \in Task, RetryManual(t) PROVE TypeInv'
  <2> DEFINE r == [SetStatus(row[t], "doing", now) EXCEPT !.avail = 0]
  <2>1. SetStatus(row[t], "doing", now) \in Row
    BY <1>0, SetStatusType DEF Status
  <2>2. r \in Row
    BY <2>1 DEF Row
  <2> HIDE DEF r
  <2>3. UpdateTask(t, r, "claimed")
    BY <1>8 DEF RetryManual, r
  <2> QED
    BY <2>2, <2>3, UpdateTaskType DEF Terminal
<1>9. ASSUME NEW t \in Task, NEW a \in AvailTimes, RetryDeferred(t, a) PROVE TypeInv'
  <2> DEFINE r == [SetStatus(row[t], "todo", now) EXCEPT !.avail = a]
  <2>1. SetStatus(row[t], "todo", now) \in Row /\ SetStatus(row[t], "todo", now).status = "todo"
    BY <1>0, SetStatusType DEF Status
  <2>2. r \in Row /\ r.status = "todo"
    BY <2>1, QueueAssumption DEF Row
  <2> HIDE DEF r
  <2>3. UpdateTask(t, r, "requeued")
    BY <1>9 DEF RetryDeferred, r
  <2> QED
    BY <2>2, <2>3, UpdateTaskType DEF Terminal
<1>10. ASSUME NEW t \in Task, Delete(t) PROVE TypeInv'
  <2>1. AbsentRow("removed", row[t].ordinal) \in Row
    BY DEF AbsentRow, Row, Absent, TypeOK
  <2>2. row' = [row EXCEPT ![t] = AbsentRow("removed", row[t].ordinal)]
    BY <1>10 DEF Delete, TypeOK
  <2>3. row' \in [Task -> Row] /\ OrdinalsBounded'
    BY <2>1, <2>2, RowReplaced
  <2>4. goalStatus' \in [Group -> GoalStatus]
    BY <1>10, RefreshType DEF Delete, TypeOK
  <2> QED
    BY <1>10, <2>3, <2>4 DEF Delete, TypeOK
<1>11. ASSUME NEW s \in Status, PruneStatus(s) PROVE TypeInv'
  <2>1. \A t \in Task : row'[t] \in Row /\ row'[t].ordinal = row[t].ordinal
    BY <1>11 DEF PruneStatus, AbsentRow, Row, Absent, TypeOK
  <2>2. row' \in [Task -> Row]
    BY <1>11, <2>1 DEF PruneStatus
  <2>3. OrdinalsBounded'
    BY <2>1 DEF OrdinalsBounded
  <2> QED
    BY <1>11, <2>2, <2>3 DEF PruneStatus, TypeOK
<1>12. ASSUME NEW t \in Task, NEW u \in Task, NEW type \in RelationType, AddRelation(t, u, type)
       PROVE  TypeInv'
  BY <1>12 DEF AddRelation, TypeOK, OrdinalsBounded
<1>13. ASSUME NEW t \in Task, NEW g \in Gate, AddGate(t, g) \/ SatisfyGate(t, g)
       PROVE  TypeInv'
  <2>1. gates' \in [Task -> [Gate -> {"none", "unmet", "satisfied"}]]
    <3>1. CASE AddGate(t, g)
      BY <3>1 DEF AddGate, TypeOK
    <3>2. CASE SatisfyGate(t, g)
      BY <3>2 DEF SatisfyGate, TypeOK
    <3> QED
      BY <1>13, <3>1, <3>2
  <2> QED
    BY <1>13, <2>1 DEF AddGate, SatisfyGate, TypeOK, OrdinalsBounded
<1>14. ASSUME NEW r \in Reaper, NEW age \in StaleAges, ReaperScan(r, age) PROVE TypeInv'
  <2>1. age \in Nat
    BY QueueAssumption
  <2>2. reaper' \in [Reaper -> [pending : SUBSET Task, at : Nat, cutoff : Nat]]
    BY <1>14, <2>1 DEF ReaperScan, TypeOK
  <2> QED
    BY <1>14, <2>2 DEF ReaperScan, TypeOK, OrdinalsBounded
<1>15. ASSUME NEW r \in Reaper
       PROVE  /\ Idle \in [pending : SUBSET Task, at : Nat, cutoff : Nat]
              /\ \A t \in Task : Without(reaper[r], t) \in
                                  [pending : SUBSET Task, at : Nat, cutoff : Nat]
  BY DEF Idle, Without, TypeOK
<1>16. ASSUME NEW r \in Reaper, NEW t \in Task, ReaperRequeue(r, t) PROVE TypeInv'
  <2>1. Reset(row[t]) \in Row
    <3>1. row[t] \in Row
      BY DEF TypeOK
    <3> QED
      BY <3>1 DEF Reset, Row, Status
  <2>2. row' \in [Task -> Row] /\ OrdinalsBounded'
    BY <1>16, <2>1, RowReplaced DEF ReaperRequeue, TypeOK
  <2>3. AttemptsAfter("requeued", attempts[t], "todo") \in Seq(Attempt)
    BY AttemptsAfterType DEF TypeOK, Terminal
  <2>4. attempts' \in [Task -> Seq(Attempt)]
    BY <1>16, <2>3 DEF ReaperRequeue, TypeOK
  <2>5. goalStatus' \in [Group -> GoalStatus]
    BY <1>16, RefreshType DEF ReaperRequeue, TypeOK
  <2>6. reaper' \in [Reaper -> [pending : SUBSET Task, at : Nat, cutoff : Nat]]
    <3> DEFINE Job == [pending : SUBSET Task, at : Nat, cutoff : Nat]
    <3>1. Without(reaper[r], t) \in Job /\ reaper \in [Reaper -> Job]
      BY <1>15 DEF TypeOK
    <3>2. reaper' = [reaper EXCEPT ![r] = Without(reaper[r], t)]
      BY <1>16 DEF ReaperRequeue
    <3> QED
      BY <3>1, <3>2
  <2> QED
    BY <1>16, <2>2, <2>4, <2>5, <2>6 DEF ReaperRequeue, TypeOK
<1>17. ASSUME NEW r \in Reaper, NEW t \in Task, ReaperSkip(r, t) \/ ReaperFail(r, t)
       PROVE  TypeInv'
  <2>1. reaper' \in [Reaper -> [pending : SUBSET Task, at : Nat, cutoff : Nat]]
    <3> DEFINE Job == [pending : SUBSET Task, at : Nat, cutoff : Nat]
    <3>1. Idle \in Job /\ Without(reaper[r], t) \in Job
      BY <1>15
    <3>2. reaper \in [Reaper -> Job]
      BY DEF TypeOK
    <3>3. \E job \in Job : reaper' = [reaper EXCEPT ![r] = job]
      BY <1>17, <3>1, Zenon DEF ReaperSkip, ReaperFail
    <3> QED
      BY <3>2, <3>3
  <2> QED
    BY <1>17, <2>1 DEF ReaperSkip, ReaperFail, TypeOK, OrdinalsBounded
<1>18. ASSUME NEW r \in Reaper, ReaperKill(r) PROVE TypeInv'
  BY <1>15, <1>18 DEF ReaperKill, TypeOK, OrdinalsBounded
<1>19. CASE Tick
  <2>1. now' \in Nat \ {0}
    BY <1>19 DEF Tick, TypeOK
  <2> QED
    BY <1>19, <2>1 DEF Tick, TypeOK, OrdinalsBounded
<1>20. CASE UNCHANGED vars
  BY <1>20 DEF vars, TypeOK, OrdinalsBounded
<1>21. CASE Adding
  BY <1>1, <1>2, <1>3, <1>21 DEF Adding
<1>22. CASE Working
  BY <1>4, <1>5, <1>6, <1>7, <1>22 DEF Working, SetByWorker
<1>23. CASE Operating
  <2>1. ASSUME NEW t \in Task, AuditDisapproves(t) PROVE TypeInv'
    BY <1>7, <2>1 DEF AuditDisapproves, Status
  <2> QED
    BY <1>7, <1>8, <1>9, <1>10, <1>11, <1>12, <1>13, <1>23, <2>1
       DEF Operating, Arranging, SetUnfenced, SetForced
<1>24. CASE Reaping
  BY <1>14, <1>16, <1>17, <1>18, <1>24 DEF Reaping, ReaperStep
<1> QED
  BY <1>19, <1>20, <1>21, <1>22, <1>23, <1>24 DEF Next

\* The initial tables are empty, and bounded.
LEMMA TypeInit == Init => TypeInv
<1> SUFFICES ASSUME Init PROVE TypeInv
  OBVIOUS
<1>1. \A s \in Absent : AbsentRow(s, 0) \in Row
  BY DEF AbsentRow, Row, Absent
<1>2. TypeOK
  BY <1>1 DEF Init, TypeOK, Absent, Idle, GoalStatus
<1>3. OrdinalsBounded
  BY DEF Init, OrdinalsBounded, AbsentRow
<1> QED
  BY <1>2, <1>3 DEF TypeInv

\* Type correctness of the queue, together with the bound on ordinals: the
\* tables hold only what their columns may hold, whatever is done to them.
THEOREM TypeCorrect == Spec => []TypeOK
<1>1. Init => TypeInv
  BY TypeInit
<1>2. TypeInv /\ [Next]_vars => TypeInv'
  BY TypeStep
<1>3. TypeInv => TypeOK
  BY DEF TypeInv
<1> QED
  BY <1>1, <1>2, <1>3, PTL DEF Spec

-----------------------------------------------------------------------------
(* Exclusion                                                                *)
(*                                                                          *)
(* A task that is doing after a step was doing before it, or was claimed in *)
(* it, or was put there by hand.  The lemma says what each of the three     *)
(* leaves to rely on; the invariants follow from it alone.                  *)

\* x was doing and goes on, with its attempts.
GoesOn(x) ==
    /\ row[x].status = "doing" /\ row'[x].started = row[x].started
    /\ attempts'[x] = attempts[x]

\* Operators move tasks to doing themselves, which nothing guards.
ByHand == Commands \cap {"set", "retry"} # {}

\* x was made, or was and stayed, doing by hand: its new attempt has no owner.
PutByHand(x) ==
    /\ attempts'[x] = OpenAttempt(attempts[x], NoWorker)
    /\ row[x].status = "doing" \/ ByHand
    /\ row'[x].started # 0 \/ (row[x].status = "doing" /\ row'[x].started = row[x].started)

\* x was claimed while no task that shares its resource was doing.
IsClaimed(x) ==
    /\ \E w \in Worker : attempts'[x] = OpenAttempt(attempts[x], w)
    /\ \A u \in Task : row[u].status = "doing" => ~SharesResource(x, u)
    /\ \A u \in Task \ {x} : row'[u] = row[u]
    /\ row'[x].started # 0

DoingAfter(x) == GoesOn(x) \/ PutByHand(x) \/ IsClaimed(x)

\* A row that has a lease after a step is doing, or has not lost its status.
LeaseAfter(x) ==
    row'[x].status = "doing" \/
    (row'[x].status = row[x].status /\ row'[x].lease = row[x].lease)

StepOn(x) ==
    /\ row'[x].status = "doing" => DoingAfter(x)
    /\ row'[x].lease # 0 => LeaseAfter(x)

\* A step that leaves a task's row and attempts alone is of the first kind.
LEMMA UnchangedStepOn ==
    ASSUME NEW x \in Task, row'[x] = row[x], attempts'[x] = attempts[x]
    PROVE  StepOn(x)
BY DEF StepOn, DoingAfter, GoesOn, LeaseAfter

\* A step that makes a row something else than doing takes its lease away.
LEMMA EndedStepOn ==
    ASSUME NEW x \in Task, row'[x].status # "doing", row'[x].lease = 0
    PROVE  StepOn(x)
BY DEF StepOn

\* What the lifecycle table makes of a row.
LEMMA SetStatusFields ==
    ASSUME NEW r \in Row, NEW s \in Status, NEW at \in Nat \ {0}
    PROVE  /\ SetStatus(r, s, at).status = s
           /\ s # r.status /\ s = "doing" => SetStatus(r, s, at).started = at
           /\ s # r.status => SetStatus(r, s, at).lease = 0
           /\ s = r.status => SetStatus(r, s, at) = r
BY DEF SetStatus, Reset, MarkWorking, MarkEnded, Row, Status

\* A status update is a step of one of the three kinds on its task, and of the
\* first kind on every other.
LEMMA UpdateStepOn ==
    ASSUME TypeInv, NEW t \in Task, NEW s \in Status, NEW r \in Row,
           UpdateTask(t, r, EventForStatus(s)),
           r.status = s,
           r.lease = SetStatus(row[t], s, now).lease,
           r.started = SetStatus(row[t], s, now).started,
           s = "doing" => row[t].status = "doing" \/ ByHand,
           NEW x \in Task
    PROVE  StepOn(x)
<1>0. row[t] \in Row /\ now \in Nat \ {0}
  BY DEF TypeInv, TypeOK
<1>1. CASE x # t
  <2>1. row'[x] = row[x] /\ attempts'[x] = attempts[x]
    BY <1>1 DEF UpdateTask, TypeInv, TypeOK
  <2> QED
    BY <2>1, UnchangedStepOn
<1>2. CASE x = t
  <2>1. /\ row'[t] = r
        /\ attempts'[t] = AttemptsAfter(EventForStatus(s), attempts[t], s)
    BY DEF UpdateTask, TypeInv, TypeOK
  <2>2. CASE s = "doing"
    <3>1. attempts'[t] = OpenAttempt(attempts[t], NoWorker)
      BY <2>1, <2>2 DEF EventForStatus, AttemptsAfter, Terminal
    <3>2. PutByHand(t)
      BY <1>0, <2>1, <2>2, <3>1, SetStatusFields DEF PutByHand
    <3> QED
      BY <1>2, <2>1, <2>2, <3>2 DEF StepOn, DoingAfter, LeaseAfter
  <2>3. CASE s # "doing"
    <3>1. LeaseAfter(t) \/ row'[t].lease = 0
      BY <1>0, <2>1, SetStatusFields DEF LeaseAfter
    <3> QED
      BY <1>2, <2>1, <2>3, <3>1 DEF StepOn
  <2> QED
    BY <2>2, <2>3
<1> QED
  BY <1>1, <1>2

\* `set` in all its forms.
LEMMA ApplyStatusStepOn ==
    ASSUME TypeInv, NEW t \in Task, NEW s \in Status, NEW staged,
           ApplyStatusAndStage(t, s, staged),
           s = "doing" => row[t].status = "doing" \/ ByHand, NEW x \in Task
    PROVE  StepOn(x)
<1> DEFINE r == SetStatus(row[t], s, now)
<1>1. row[t] \in Row /\ now \in Nat \ {0}
  BY DEF TypeInv, TypeOK
<1>2. r \in Row /\ r.status = s
  BY <1>1, SetStatusType, SetStatusFields
<1>3. UpdateTask(t, r, EventForStatus(s))
  BY DEF ApplyStatusAndStage
<1>4. r.lease = SetStatus(row[t], s, now).lease /\ r.started = SetStatus(row[t], s, now).started
  OBVIOUS
<1> HIDE DEF r
<1> QED
  BY <1>2, <1>3, <1>4, UpdateStepOn

\* A claim of a ready task.
LEMMA ClaimStepOn ==
    ASSUME TypeInv, NEW t \in Task, NEW w \in Worker, NEW ttl, NEW itsGates,
           ReadyWith(t, itsGates), Claim(t, w, ttl), NEW x \in Task
    PROVE  StepOn(x)
<1>0. now \in Nat \ {0}
  BY DEF TypeInv, TypeOK
<1>1. CASE x # t
  <2>1. row'[x] = row[x] /\ attempts'[x] = attempts[x]
    BY <1>1 DEF Claim, TypeInv, TypeOK
  <2> QED
    BY <2>1, UnchangedStepOn
<1>2. CASE x = t
  <2>1. /\ row'[t].status = "doing" /\ row'[t].started = now
        /\ attempts'[t] = OpenAttempt(attempts[t], w)
        /\ \A u \in Task \ {t} : row'[u] = row[u]
    BY DEF Claim, TypeInv, TypeOK, Row
  <2>2. \A u \in Task : row[u].status = "doing" => ~SharesResource(t, u)
    BY DEF ReadyWith, HasStatus
  <2>3. IsClaimed(t)
    BY <1>0, <2>1, <2>2 DEF IsClaimed
  <2> QED
    BY <1>2, <2>1, <2>3 DEF StepOn, DoingAfter, LeaseAfter
<1> QED
  BY <1>1, <1>2

\* Every step is, for every task, of one of the three kinds.
LEMMA NextStepOn ==
    ASSUME TypeInv, [Next]_vars, NEW x \in Task
    PROVE  StepOn(x)
<1>0. /\ now \in Nat \ {0}
      /\ \A t \in Task : row[t] \in Row
      /\ row = [t \in Task |-> row[t]]
  BY DEF TypeInv, TypeOK
<1>1. ASSUME NEW t \in Task, row[t].status = "unborn", NEW a, InsertTask(t, a),
             UNCHANGED attempts
      PROVE  StepOn(x)
  <2>1. CASE x = t
    <3>1. row'[t] = NewRow(a, NextOrdinal)
      BY <1>0, <1>1 DEF InsertTask
    <3> QED
      BY <2>1, <3>1, EndedStepOn DEF NewRow
  <2>2. CASE x # t
    BY <1>0, <1>1, <2>2, UnchangedStepOn DEF InsertTask
  <2> QED
    BY <2>1, <2>2
<1>2. ASSUME NEW g \in Group, NEW chain \in GoalChains(g), CreateGoal(g, chain)
      PROVE  StepOn(x)
  <2>1. row'[x] = row[x] \/ \E k : row'[x] = NewRow(0, k)
    BY <1>2 DEF CreateGoal
  <2>2. ASSUME NEW k, row'[x] = NewRow(0, k) PROVE StepOn(x)
    BY <2>2, EndedStepOn DEF NewRow
  <2>3. attempts' = attempts
    BY <1>2 DEF CreateGoal
  <2> QED
    BY <2>1, <2>2, <2>3, UnchangedStepOn
<1>3. ASSUME NEW t \in Task, NEW w \in Worker, NEW ttl \in LeaseTimes, ClaimNext(t, w, ttl)
      PROVE  StepOn(x)
  BY <1>3, ClaimStepOn DEF ClaimNext, Ready
<1>4. ASSUME NEW t \in Task, NEW w \in Worker, NEW ttl \in LeaseTimes,
             NEW approved \in SUBSET Gate, ClaimTask(t, w, ttl, approved)
      PROVE  StepOn(x)
  BY <1>4, ClaimStepOn, UnchangedStepOn DEF ClaimTask
<1>5. ASSUME NEW t \in Task, NEW w \in Worker, NEW ttl \in LeaseTimes, Heartbeat(t, w, ttl)
      PROVE  StepOn(x)
  <2>1. CASE x = t
    <3>1. /\ row[t].status = "doing" /\ row'[t].status = "doing"
          /\ row'[t].started = row[t].started /\ attempts' = attempts
      BY <1>0, <1>5 DEF Heartbeat, Row
    <3> QED
      BY <2>1, <3>1 DEF StepOn, DoingAfter, GoesOn, LeaseAfter
  <2>2. CASE x # t
    BY <1>0, <1>5, <2>2, UnchangedStepOn DEF Heartbeat
  <2> QED
    BY <2>1, <2>2
<1>6. ASSUME NEW t \in Task, NEW s \in Status, NEW staged, ApplyStatusAndStage(t, s, staged),
             s = "doing" => row[t].status = "doing" \/ ByHand
      PROVE  StepOn(x)
  BY <1>6, ApplyStatusStepOn
<1>7. ASSUME NEW t \in Task, NEW s \in {"todo", "doing"}, NEW a \in Nat,
             UpdateTask(t, [SetStatus(row[t], s, now) EXCEPT !.avail = a], EventForStatus(s)),
             s = "doing" => ByHand
      PROVE  StepOn(x)
  <2> DEFINE q == SetStatus(row[t], s, now)
             r == [q EXCEPT !.avail = a]
  <2>3. s \in Status
    BY DEF Status
  <2>1. q \in Row /\ q.status = s
    BY <1>0, <2>3, SetStatusType, SetStatusFields
  <2>2. r \in Row /\ r.status = s /\ r.lease = q.lease /\ r.started = q.started
    <3> HIDE DEF q
    <3> QED
      BY <2>1 DEF Row
  <2> HIDE DEF r
  <2>4. UpdateTask(t, r, EventForStatus(s))
    BY <1>7 DEF r
  <2> QED
    BY <1>7, <2>2, <2>3, <2>4, UpdateStepOn
<1>8. ASSUME NEW t \in Task, RetryManual(t) PROVE StepOn(x)
  <2>1. EventForStatus("doing") = "claimed"
    BY DEF EventForStatus
  <2> QED
    BY <1>7, <1>8, <2>1 DEF RetryManual, ByHand
<1>9. ASSUME NEW t \in Task, NEW a \in AvailTimes, RetryDeferred(t, a) PROVE StepOn(x)
  <2>1. EventForStatus("todo") = "requeued" /\ a \in Nat
    BY QueueAssumption DEF EventForStatus
  <2> QED
    BY <1>7, <1>9, <2>1 DEF RetryDeferred
<1>10. ASSUME NEW t \in Task, Delete(t) PROVE StepOn(x)
  <2>1. CASE x = t
    <3>1. row'[t] = AbsentRow("removed", row[t].ordinal)
      BY <1>0, <1>10 DEF Delete
    <3> QED
      BY <2>1, <3>1, EndedStepOn DEF AbsentRow
  <2>2. CASE x # t
    BY <1>0, <1>10, <2>2, UnchangedStepOn DEF Delete
  <2> QED
    BY <2>1, <2>2
<1>11. ASSUME NEW s \in Status, PruneStatus(s) PROVE StepOn(x)
  <2>1. row'[x] = row[x] \/ row'[x] = AbsentRow("removed", row[x].ordinal)
    BY <1>11 DEF PruneStatus
  <2>2. CASE row'[x] = AbsentRow("removed", row[x].ordinal)
    BY <2>2, EndedStepOn DEF AbsentRow
  <2>3. attempts' = attempts
    BY <1>11 DEF PruneStatus
  <2> QED
    BY <2>1, <2>2, <2>3, UnchangedStepOn
<1>12. ASSUME NEW r \in Reaper, NEW t \in Task, ReaperRequeue(r, t) PROVE StepOn(x)
  <2>1. CASE x = t
    <3>1. row'[t] = Reset(row[t])
      BY <1>0, <1>12 DEF ReaperRequeue
    <3>2. Reset(row[t]).status = "todo" /\ Reset(row[t]).lease = 0
      BY <1>0 DEF Reset, Row
    <3> QED
      BY <2>1, <3>1, <3>2, EndedStepOn
  <2>2. CASE x # t
    <3>1. row'[x] = row[x]
      BY <1>0, <1>12, <2>2 DEF ReaperRequeue
    <3>2. attempts'[x] = attempts[x]
      BY <1>12, <2>2 DEF ReaperRequeue, TypeInv, TypeOK
    <3> QED
      BY <3>1, <3>2, UnchangedStepOn
  <2> QED
    BY <2>1, <2>2
<1>13. CASE UNCHANGED <<row, attempts>>
  BY <1>13, UnchangedStepOn
<1>14. CASE Adding
  BY <1>1, <1>2, <1>14 DEF Adding, Add, AddBlockedBy
<1>15. CASE Working
  BY <1>3, <1>4, <1>5, <1>6, <1>15 DEF Working, SetByWorker, WorkerFence
<1>16. CASE Operating
  <2>1. ASSUME NEW t \in Task, NEW s \in Status, NEW staged,
               SetUnfenced(t, s, staged) \/ SetForced(t, s, staged)
        PROVE  StepOn(x)
    BY <1>6, <2>1 DEF SetUnfenced, SetForced, Terminal, ByHand
  <2>2. ASSUME NEW t \in Task, AuditDisapproves(t) PROVE StepOn(x)
    BY <2>2, ApplyStatusStepOn DEF AuditDisapproves, Status
  <2> QED
    BY <1>8, <1>9, <1>10, <1>11, <1>13, <1>16, <2>1, <2>2
       DEF Operating, Arranging, Staged, AddRelation, AddGate, SatisfyGate
<1>17. CASE Reaping
  BY <1>12, <1>13, <1>17
     DEF Reaping, ReaperStep, ReaperScan, ReaperSkip, ReaperFail, ReaperKill
<1>18. CASE Tick \/ UNCHANGED vars
  BY <1>13, <1>18 DEF Tick, vars
<1> QED
  BY <1>14, <1>15, <1>16, <1>17, <1>18 DEF Next

\* A doing task goes on being owned by its last attempt, and reclaimable.
LEMMA OwnedAfter ==
    ASSUME TypeInv, DoingIsOwnedAndReclaimable, \A x \in Task : StepOn(x)
    PROVE  DoingIsOwnedAndReclaimable'
<1> SUFFICES ASSUME NEW x \in Task
             PROVE  /\ row'[x].status = "doing" =>
                          /\ Len(attempts'[x]) \in OpenAttempts(attempts'[x])
                          /\ row'[x].started # 0
                    /\ row'[x].lease # 0 => row'[x].status = "doing"
  BY DEF DoingIsOwnedAndReclaimable
<1>0. /\ attempts[x] \in Seq(Attempt)
      /\ row[x].status = "doing" =>
            Len(attempts[x]) \in OpenAttempts(attempts[x]) /\ row[x].started # 0
      /\ row[x].lease # 0 => row[x].status = "doing"
  BY DEF DoingIsOwnedAndReclaimable, TypeInv, TypeOK
<1>2. ASSUME NEW w \in Worker \cup {NoWorker}, attempts'[x] = OpenAttempt(attempts[x], w)
      PROVE  Len(attempts'[x]) \in OpenAttempts(attempts'[x])
  BY <1>0, <1>2, OpenAttemptOwns
<1>3. ASSUME row'[x].status = "doing"
      PROVE  Len(attempts'[x]) \in OpenAttempts(attempts'[x]) /\ row'[x].started # 0
  <2>1. CASE GoesOn(x)
    BY <1>0, <2>1 DEF GoesOn
  <2>2. CASE PutByHand(x)
    BY <1>0, <1>2, <2>2 DEF PutByHand
  <2>3. CASE IsClaimed(x)
    BY <1>2, <2>3 DEF IsClaimed
  <2> QED
    BY <1>3, <2>1, <2>2, <2>3 DEF StepOn, DoingAfter
<1>4. ASSUME row'[x].lease # 0 PROVE row'[x].status = "doing"
  BY <1>0, <1>4 DEF StepOn, LeaseAfter
<1> QED
  BY <1>3, <1>4

\* So it does with every step of the queue.
LEMMA OwnedStep ==
    TypeInv /\ DoingIsOwnedAndReclaimable /\ [Next]_vars => DoingIsOwnedAndReclaimable'
BY NextStepOn, OwnedAfter

\* Two claims of one resource never come to overlap: of the two tasks, the one
\* claimed last would have been claimed while the other was doing.
LEMMA ClaimsExclusiveAfter ==
    ASSUME TypeInv, ClaimsExclusive, \A x \in Task : StepOn(x)
    PROVE  ClaimsExclusive'
<1> SUFFICES ASSUME NEW t \in Task, NEW u \in Task,
                    row'[t].status = "doing", row'[u].status = "doing",
                    SharesResource(t, u), Owner(t)' # NoWorker, Owner(u)' # NoWorker
             PROVE  FALSE
  BY DEF ClaimsExclusive, HasStatus, SharesResource
<1>1. StepOn(t) /\ StepOn(u)
  OBVIOUS
<1>2. SharesResource(u, t) /\ t # u
  BY DEF SharesResource
<1>3. ASSUME NEW x \in Task, Owner(x)' # NoWorker PROVE ~PutByHand(x)
  <2>1. attempts[x] \in Seq(Attempt)
    BY DEF TypeInv, TypeOK
  <2>2. Owner(x)' = ActiveAttemptOwner(attempts'[x])
    BY DEF Owner
  <2> QED
    BY <1>3, <2>1, <2>2, OpenAttemptOwns DEF PutByHand
<1>4. ASSUME NEW x \in Task, NEW y \in Task, IsClaimed(x), SharesResource(x, y), x # y,
             row'[y].status = "doing"
      PROVE  FALSE
  BY <1>4 DEF IsClaimed
<1>5. GoesOn(t) /\ GoesOn(u)
  BY <1>1, <1>2, <1>3, <1>4 DEF StepOn, DoingAfter
<1>6. Owner(t)' = Owner(t) /\ Owner(u)' = Owner(u)
  BY <1>5 DEF GoesOn, Owner
<1> QED
  BY <1>5, <1>6 DEF ClaimsExclusive, HasStatus, GoesOn

\* So it is with every step of the queue.
LEMMA ClaimsExclusiveStep == TypeInv /\ ClaimsExclusive /\ [Next]_vars => ClaimsExclusive'
BY NextStepOn, ClaimsExclusiveAfter

ExclusionInv == TypeInv /\ DoingIsOwnedAndReclaimable /\ ClaimsExclusive

LEMMA ExclusionInit == Init => ExclusionInv
<1> SUFFICES ASSUME Init PROVE ExclusionInv
  OBVIOUS
<1>1. \A t \in Task : row[t].status = "unborn" /\ row[t].lease = 0
  BY DEF Init, AbsentRow
<1> QED
  BY <1>1, TypeInit
     DEF ExclusionInv, DoingIsOwnedAndReclaimable, ClaimsExclusive, HasStatus

\* Every reachable queue is of the right types, its doing tasks are owned and
\* reclaimable, and its claims exclude each other.
LEMMA ExclusionInvariant == Spec => []ExclusionInv
<1>1. ExclusionInv /\ [Next]_vars => ExclusionInv'
  BY TypeStep, OwnedStep, ClaimsExclusiveStep DEF ExclusionInv
<1> QED
  BY <1>1, ExclusionInit, PTL DEF Spec

\* Whatever workers, operators and reapers do, a doing task has an owner in its
\* last attempt and a start time or lease for the reaper to judge it by.
THEOREM DoingOwned == Spec => []DoingIsOwnedAndReclaimable
<1>1. ExclusionInv => DoingIsOwnedAndReclaimable
  BY DEF ExclusionInv
<1> QED
  BY <1>1, ExclusionInvariant, PTL

\* However many workers and reapers there are, two of them never hold claims of
\* theirs on tasks that share a resource.
THEOREM ClaimsExclude == Spec => []ClaimsExclusive
<1>1. ExclusionInv => ClaimsExclusive
  BY DEF ExclusionInv
<1> QED
  BY <1>1, ExclusionInvariant, PTL

\* Where no operator moves a task to doing, the resource lock of the claims is
\* all there is: of the tasks that share a resource, at most one is doing.
LEMMA ResourceExclusiveStep ==
    ~ByHand /\ TypeInv /\ ResourceExclusive /\ [Next]_vars => ResourceExclusive'
<1> SUFFICES ASSUME ~ByHand, TypeInv, ResourceExclusive, [Next]_vars,
                    NEW t \in Task, NEW u \in Task,
                    row'[t].status = "doing", row'[u].status = "doing",
                    SharesResource(t, u)
             PROVE  FALSE
  BY DEF ResourceExclusive, HasStatus, SharesResource
<1>1. StepOn(t) /\ StepOn(u)
  BY NextStepOn
<1>2. SharesResource(u, t) /\ t # u
  BY DEF SharesResource
<1>3. ASSUME NEW x \in Task, NEW y \in Task, IsClaimed(x), SharesResource(x, y), x # y,
             row'[y].status = "doing"
      PROVE  FALSE
  BY <1>3 DEF IsClaimed
<1>4. row[t].status = "doing" /\ row[u].status = "doing"
  BY <1>1, <1>2, <1>3 DEF StepOn, DoingAfter, GoesOn, PutByHand
<1> QED
  BY <1>4 DEF ResourceExclusive, HasStatus

\* The resource lock of readyWhereSQL, for any number of tasks, workers and
\* reapers, as long as nobody uses `afk set` without a worker or `afk retry`.
THEOREM ResourceLock ==
    ASSUME ~ByHand
    PROVE  Spec => []ResourceExclusive
<1>1. Init => TypeInv /\ ResourceExclusive
  BY TypeInit DEF Init, ResourceExclusive, HasStatus, AbsentRow
<1>2. TypeInv /\ ResourceExclusive /\ [Next]_vars => (TypeInv /\ ResourceExclusive)'
  BY TypeStep, ResourceExclusiveStep
<1> QED
  BY <1>1, <1>2, PTL DEF Spec

=============================================================================
