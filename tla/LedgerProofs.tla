---------------------------- MODULE LedgerProofs ----------------------------
(***************************************************************************)
(* The queue implements the ledger of claims, for every value of its       *)
(* constants, as long as workers finish what they claim and nobody else    *)
(* changes statuses or takes rows away.                                    *)
(***************************************************************************)
EXTENDS QueueRefinement, QueueProofs

-----------------------------------------------------------------------------
(* Attempts as entries of the ledger                                        *)

LedgerOf(log) ==
    [i \in DOMAIN log |-> [worker |-> log[i].worker, fate |-> Fate(log[i].outcome)]]

Entry == [worker : Worker \cup {NoWorker}, fate : {"held", "reclaimed", "finished"}]

\* An attempt that is opened is a new entry of the ledger, and the one open.
LEMMA OpenedEntry ==
    ASSUME NEW log \in Seq(Attempt), NEW w \in Worker, OpenAttempts(log) = {}
    PROVE  /\ LedgerOf(OpenAttempt(log, w)) = Append(LedgerOf(log), [worker |-> w, fate |-> "held"])
           /\ OpenAttempts(OpenAttempt(log, w)) = {Len(OpenAttempt(log, w))}
<1> DEFINE new == OpenAttempt(log, w)
<1>1. /\ DOMAIN log = 1..Len(log) /\ Len(log) \in Nat
      /\ new \in Seq(Attempt) /\ Len(new) = Len(log) + 1 /\ DOMAIN new = 1..(Len(log) + 1)
      /\ \A i \in 1..Len(log) : new[i] = log[i]
      /\ new[Len(log) + 1] = [worker |-> w, outcome |-> "open"]
  BY DEF OpenAttempt, Attempt
<1> HIDE DEF new
<1>2. OpenAttempts(new) = {Len(new)}
  <2>1. \A i \in 1..Len(log) : log[i].outcome # "open"
    BY <1>1 DEF OpenAttempts
  <2>2. \A i \in 1..(Len(log) + 1) : i \in 1..Len(log) \/ i = Len(log) + 1
    BY <1>1
  <2> QED
    BY <1>1, <2>1, <2>2 DEF OpenAttempts
<1>3. LedgerOf(log) = [i \in 1..Len(log) |-> [worker |-> log[i].worker, fate |-> Fate(log[i].outcome)]]
  BY <1>1 DEF LedgerOf
<1>4. LedgerOf(log) \in Seq(Entry) /\ Len(LedgerOf(log)) = Len(log)
  <2>1. \A i \in 1..Len(log) : log[i] \in Attempt
    BY <1>1
  <2>2. \A i \in 1..Len(log) :
           [worker |-> log[i].worker, fate |-> Fate(log[i].outcome)] \in Entry
    BY <2>1 DEF Attempt, Fate, Entry
  <2> QED
    BY <1>1, <1>3, <2>2
<1>5. LedgerOf(new) = Append(LedgerOf(log), [worker |-> w, fate |-> "held"])
  <2> DEFINE e == [worker |-> w, fate |-> "held"]
             L == LedgerOf(log)
             M == Append(L, e)
  <2>1. /\ DOMAIN M = 1..(Len(log) + 1)
        /\ \A i \in 1..Len(log) : M[i] = L[i]
        /\ M[Len(log) + 1] = e
        /\ M = [i \in 1..(Len(log) + 1) |-> M[i]]
    BY <1>1, <1>4
  <2>2. \A i \in 1..Len(log) : L[i] = [worker |-> log[i].worker, fate |-> Fate(log[i].outcome)]
    BY <1>3
  <2>3. [worker |-> w, fate |-> Fate("open")] = e
    BY DEF Fate
  <2> HIDE DEF M, L, e
  <2>4. \A i \in 1..(Len(log) + 1) :
           M[i] = [worker |-> new[i].worker, fate |-> Fate(new[i].outcome)]
    <3> TAKE i \in 1..(Len(log) + 1)
    <3>1. CASE i \in 1..Len(log)
      BY <1>1, <2>1, <2>2, <3>1
    <3>2. CASE i = Len(log) + 1
      <4>1. new[i].worker = w /\ new[i].outcome = "open"
        BY <1>1, <3>2
      <4> QED
        BY <2>1, <2>3, <3>2, <4>1
    <3> QED
      BY <1>1, <3>1, <3>2
  <2>5. LedgerOf(new) = [i \in 1..(Len(log) + 1) |->
                           [worker |-> new[i].worker, fate |-> Fate(new[i].outcome)]]
    BY <1>1 DEF LedgerOf
  <2>6. LedgerOf(new) = M
    BY <2>1, <2>4, <2>5
  <2> QED
    BY <2>6 DEF M, L, e
<1> QED
  BY <1>2, <1>5 DEF new

\* A list of attempts and its entries, one changed by its outcome, the other by
\* the fate of that outcome.
LEMMA EntrySettled ==
    ASSUME NEW n \in Nat \ {0}, NEW log \in [1..n -> Attempt], NEW o
    PROVE  /\ LedgerOf(log) \in [1..n -> Entry]
           /\ LedgerOf([log EXCEPT ![n].outcome = o])
                = [LedgerOf(log) EXCEPT ![n].fate = Fate(o)]
<1> DEFINE L == LedgerOf(log)
           new == [log EXCEPT ![n].outcome = o]
<1>1. n \in 1..n /\ \A i \in 1..n : log[i] \in Attempt
  OBVIOUS
<1>2. L \in [1..n -> Entry]
  <2>1. \A i \in 1..n : [worker |-> log[i].worker, fate |-> Fate(log[i].outcome)] \in Entry
    BY <1>1 DEF Attempt, Fate, Entry
  <2> QED
    BY <2>1 DEF LedgerOf
<1>3. \A i \in 1..n : L[i] = [worker |-> log[i].worker, fate |-> Fate(log[i].outcome)]
  BY DEF LedgerOf
<1>4. new = [i \in 1..n |-> IF i = n THEN [worker |-> log[n].worker, outcome |-> o] ELSE log[i]]
  <2>1. [log[n] EXCEPT !.outcome = o] = [worker |-> log[n].worker, outcome |-> o]
    BY <1>1 DEF Attempt
  <2>2. new = [i \in 1..n |-> IF i = n THEN [log[n] EXCEPT !.outcome = o] ELSE log[i]]
    OBVIOUS
  <2> QED
    BY <2>1, <2>2
<1>5. LedgerOf(new) = [i \in 1..n |-> IF i = n THEN [worker |-> log[n].worker, fate |-> Fate(o)]
                                      ELSE L[i]]
  <2> HIDE DEF L, new
  <2>1. DOMAIN new = 1..n /\ \A i \in 1..n : i # n => new[i] = log[i]
    BY <1>4
  <2>2. new[n].worker = log[n].worker /\ new[n].outcome = o
    BY <1>1, <1>4
  <2> QED
    BY <1>3, <2>1, <2>2 DEF LedgerOf
<1> HIDE DEF L
<1>6. [L EXCEPT ![n].fate = Fate(o)]
        = [i \in 1..n |-> IF i = n THEN [worker |-> log[n].worker, fate |-> Fate(o)] ELSE L[i]]
  <2>1. L[n].worker = log[n].worker /\ L[n] \in Entry
    BY <1>1, <1>2, <1>3
  <2>2. [L[n] EXCEPT !.fate = Fate(o)] = [worker |-> log[n].worker, fate |-> Fate(o)]
    BY <2>1 DEF Entry
  <2>3. [L EXCEPT ![n].fate = Fate(o)]
          = [i \in 1..n |-> IF i = n THEN [L[n] EXCEPT !.fate = Fate(o)] ELSE L[i]]
    BY <1>2
  <2> QED
    BY <2>2, <2>3
<1> QED
  BY <1>2, <1>5, <1>6 DEF L

\* Closing the last attempt settles the last entry, and leaves none open.
LEMMA ClosedEntry ==
    ASSUME NEW log \in Seq(Attempt), OpenAttempts(log) = {Len(log)},
           NEW o \in Terminal \cup {"todo"}
    PROVE  /\ LedgerOf(CloseLatest(log, o))
                = [LedgerOf(log) EXCEPT ![Len(LedgerOf(log))].fate = Fate(o)]
           /\ OpenAttempts(CloseLatest(log, o)) = {}
<1> DEFINE n == Len(log)
           new == [log EXCEPT ![n].outcome = o]
<1>1. n \in Nat \ {0} /\ DOMAIN log = 1..n /\ \A i \in 1..n : log[i] \in Attempt
  BY DEF OpenAttempts
<1>2. LatestOpen(log) = n
  BY <1>1 DEF LatestOpen, IsLatestOpen
<1>3. CloseLatest(log, o) = new
  BY <1>2 DEF CloseLatest
<1>4. /\ DOMAIN new = 1..n
      /\ \A i \in 1..n : i # n => new[i] = log[i]
      /\ new[n] = [log[n] EXCEPT !.outcome = o]
      /\ new[n].worker = log[n].worker /\ new[n].outcome = o
  BY <1>1 DEF Attempt
<1>5. OpenAttempts(new) = {}
  <2>1. o # "open"
    BY DEF Terminal
  <2>2. \A i \in 1..n : i # n => log[i].outcome # "open"
    BY <1>1 DEF OpenAttempts
  <2> QED
    BY <1>1, <1>4, <2>1, <2>2 DEF OpenAttempts
<1>6. /\ Len(LedgerOf(log)) = n
      /\ LedgerOf(new) = [LedgerOf(log) EXCEPT ![n].fate = Fate(o)]
  <2>1. log \in [1..n -> Attempt]
    BY <1>1
  <2>2. LedgerOf(log) \in [1..n -> Entry]
    BY <1>1, <2>1, EntrySettled
  <2>3. Len(LedgerOf(log)) = n
    <3> HIDE DEF n
    <3> QED
      BY <1>1, <2>2
  <2>4. LedgerOf(new) = [LedgerOf(log) EXCEPT ![n].fate = Fate(o)]
    BY <1>1, <2>1, EntrySettled
  <2> QED
    BY <2>3, <2>4
<1> QED
  BY <1>3, <1>5, <1>6

-----------------------------------------------------------------------------
(* The steps of the queue, as the ledger sees them                          *)

\* Nobody but workers and the reaper changes statuses, and rows are not taken
\* away from under a claim.
ClaimsOnly ==
    /\ WorkerSets \subseteq Terminal
    /\ Commands \cap {"set", "force", "retry", "defer", "audit", "delete", "prune"} = {}

\* What the ledger needs beside the types: the attempt of a doing task is open
\* and its last, and no other is; only doing tasks have leases; and a listing
\* of the reaper is of a time that has come.
LedgerInv ==
    /\ TypeInv
    /\ \A t \in Task :
          /\ OpenAttempts(attempts[t]) = IF row[t].status = "doing" THEN {Len(attempts[t])} ELSE {}
          /\ row[t].lease # 0 => row[t].status = "doing"
    /\ \A r \in Reaper : reaper[r].at <= now

OnlyOf(t) ==
    /\ \A u \in Task \ {t} : row'[u] = row[u] /\ attempts'[u] = attempts[u]
    /\ now' = now

\* Nothing that the ledger sees, unless time goes on.
Quiet ==
    /\ attempts' = attempts
    /\ \A t \in Task : /\ row'[t].status = "doing" <=> row[t].status = "doing"
                       /\ row'[t].lease = row[t].lease
    /\ now' \in {now, now + 1}

Claimed(t, w) ==
    /\ row[t].status # "doing" /\ row'[t].status = "doing"
    /\ \A u \in Task : row[u].status = "doing" => ~SharesResource(t, u)
    /\ row'[t].lease = 0 \/ row'[t].lease > now
    /\ attempts'[t] = OpenAttempt(attempts[t], w)
    /\ OnlyOf(t)

Renewed(t) ==
    /\ row[t].status = "doing" /\ row'[t].status = "doing"
    /\ row'[t].lease = 0 \/ row'[t].lease > now
    /\ attempts' = attempts
    /\ OnlyOf(t)

\* Closed by the worker in time, or by the reaper after the deadline.
Closed(t, s) ==
    /\ row[t].status = "doing" /\ row'[t].status # "doing"
    /\ IF s = "todo" THEN row[t].lease <= now
       ELSE s \in Terminal /\ (row[t].lease = 0 \/ row[t].lease > now)
    /\ row'[t].lease = 0
    /\ attempts'[t] = CloseLatest(attempts[t], s)
    /\ OnlyOf(t)

Kinds ==
    \/ Quiet
    \/ \E t \in Task : \/ \E w \in Worker : Claimed(t, w)
                       \/ Renewed(t)
                       \/ \E s \in Terminal \cup {"todo"} : Closed(t, s)

\* A lease that is asked for is none or ends in the future.
LEMMA LeaseAhead ==
    ASSUME TypeInv, NEW ttl \in LeaseTimes
    PROVE  LeaseFrom(ttl) = 0 \/ LeaseFrom(ttl) > now
BY QueueAssumption DEF LeaseFrom, TypeInv, TypeOK

\* Each step of the queue is of one of these kinds.
LEMMA NextKinds ==
    ASSUME ClaimsOnly, LedgerInv, [Next]_vars
    PROVE  Kinds
<1>0. /\ TypeInv
      /\ row = [t \in Task |-> row[t]] /\ attempts = [t \in Task |-> attempts[t]]
      /\ now \in Nat \ {0} /\ \A t \in Task : row[t] \in Row
  BY DEF LedgerInv, TypeInv, TypeOK
<1>1. ASSUME attempts' = attempts, row' = row, now' \in {now, now + 1} PROVE Kinds
  BY <1>1 DEF Quiet, Kinds
<1>2. ASSUME NEW t \in Task, row[t].status = "unborn", NEW a, InsertTask(t, a),
             attempts' = attempts, now' = now
      PROVE  Kinds
  <2>1. row'[t].status = "todo" /\ row'[t].lease = 0
    BY <1>0, <1>2 DEF InsertTask, NewRow
  <2>2. row[t].lease = 0
    BY <1>2 DEF LedgerInv
  <2>3. \A u \in Task \ {t} : row'[u] = row[u]
    BY <1>0, <1>2 DEF InsertTask
  <2>4. Quiet
    BY <1>2, <2>1, <2>2, <2>3 DEF Quiet
  <2> QED
    BY <2>4 DEF Kinds
<1>3. ASSUME NEW g \in Group, NEW chain \in GoalChains(g), CreateGoal(g, chain) PROVE Kinds
  <2> DEFINE Member(t) == \E i \in DOMAIN chain : chain[i] = t
  <2>1. \A t \in Task : IF Member(t) THEN \E k : row'[t] = NewRow(0, k) ELSE row'[t] = row[t]
    BY <1>3 DEF CreateGoal
  <2>2. \A i \in DOMAIN chain : row[chain[i]].status = "unborn"
    <3>1. PICK n : chain \in [1..n -> {t \in HasStatus("unborn") : GroupOf[t] = g}]
      BY DEF GoalChains
    <3> QED
      BY <3>1 DEF HasStatus
  <2>3. attempts' = attempts /\ now' = now
    BY <1>3 DEF CreateGoal
  <2>4. \A k : NewRow(0, k).status = "todo" /\ NewRow(0, k).lease = 0
    BY DEF NewRow
  <2>5. \A t \in Task : Member(t) => row[t].status = "unborn" /\ row[t].lease = 0
    <3>1. \A t \in Task : row[t].lease # 0 => row[t].status = "doing"
      BY DEF LedgerInv
    <3> QED
      BY <2>2, <3>1
  <2> HIDE DEF Member
  <2>6. Quiet
    BY <2>1, <2>3, <2>4, <2>5 DEF Quiet
  <2> QED
    BY <2>6 DEF Kinds
<1>4. ASSUME NEW t \in Task, NEW w \in Worker, NEW ttl \in LeaseTimes, NEW itsGates,
             ReadyWith(t, itsGates), Claim(t, w, ttl), now' = now
      PROVE  Kinds
  <2>1. /\ row'[t].status = "doing" /\ row'[t].lease = LeaseFrom(ttl)
        /\ attempts'[t] = OpenAttempt(attempts[t], w)
        /\ OnlyOf(t)
    BY <1>0, <1>4 DEF Claim, OnlyOf, Row
  <2>2. row[t].status # "doing" /\ \A u \in Task : row[u].status = "doing" => ~SharesResource(t, u)
    BY <1>4 DEF ReadyWith, HasStatus
  <2>3. Claimed(t, w)
    BY <1>0, <2>1, <2>2, LeaseAhead DEF Claimed
  <2> QED
    BY <2>3 DEF Kinds
<1>5. ASSUME NEW t \in Task, NEW w \in Worker, NEW ttl \in LeaseTimes, Heartbeat(t, w, ttl)
      PROVE  Kinds
  <2>1. /\ row[t].status = "doing" /\ row'[t].status = "doing" /\ row'[t].lease = LeaseFrom(ttl)
        /\ attempts' = attempts /\ OnlyOf(t)
    BY <1>0, <1>5 DEF Heartbeat, OnlyOf, Row
  <2>2. Renewed(t)
    BY <1>0, <2>1, LeaseAhead DEF Renewed
  <2> QED
    BY <2>2 DEF Kinds
<1>6. ASSUME NEW t \in Task, NEW s \in Status, NEW staged, NEW w \in Worker,
             SetByWorker(t, s, staged, w)
      PROVE  Kinds
  <2>1. s \in Terminal /\ row[t].status = "doing" /\ (row[t].lease = 0 \/ row[t].lease > now)
    BY <1>6 DEF SetByWorker, WorkerFence, ClaimsOnly
  <2>2. SetStatus(row[t], s, now).status = s /\ SetStatus(row[t], s, now).lease = 0
    BY <1>0, <2>1, SetStatusFields DEF Terminal
  <2>3. /\ row' = [row EXCEPT ![t] = SetStatus(row[t], s, now)]
        /\ attempts' = [attempts EXCEPT ![t] =
                           AttemptsAfter(EventForStatus(s), attempts[t], SetStatus(row[t], s, now).status)]
        /\ now' = now
    BY <1>6 DEF SetByWorker, ApplyStatusAndStage, UpdateTask
  <2>4. OpenAttempts(attempts[t]) # {}
    BY <2>1 DEF LedgerInv
  <2>5. AttemptsAfter(EventForStatus(s), attempts[t], s) = CloseLatest(attempts[t], s)
    BY <2>1, <2>4 DEF AttemptsAfter, EventForStatus, Terminal
  <2>6. Closed(t, s)
    BY <1>0, <2>1, <2>2, <2>3, <2>5 DEF Closed, OnlyOf, Terminal
  <2> QED
    BY <2>1, <2>6 DEF Kinds
<1>7. ASSUME NEW r \in Reaper, NEW t \in Task, ReaperRequeue(r, t) PROVE Kinds
  <2>1. row[t].status = "doing" /\ row[t].lease <= now
    <3>1. row[t].lease \in Nat /\ reaper[r].at \in Nat /\ reaper[r].at <= now
      BY <1>0 DEF LedgerInv, TypeInv, TypeOK, Row
    <3> QED
      BY <1>0, <1>7, <3>1 DEF ReaperRequeue, StillStale
  <2>2. Reset(row[t]).status = "todo" /\ Reset(row[t]).lease = 0
    BY <1>0 DEF Reset, Row
  <2>3. AttemptsAfter("requeued", attempts[t], "todo") = CloseLatest(attempts[t], "todo")
    BY DEF AttemptsAfter, Terminal
  <2>4. Closed(t, "todo")
    BY <1>0, <1>7, <2>1, <2>2, <2>3 DEF Closed, OnlyOf, ReaperRequeue
  <2> QED
    BY <2>4 DEF Kinds
<1>8. CASE Adding
  BY <1>2, <1>3, <1>8 DEF Adding, Add, AddBlockedBy
<1>9. CASE Working
  BY <1>1, <1>4, <1>5, <1>6, <1>9 DEF Working, ClaimNext, ClaimTask, Ready
<1>10. CASE Operating
  BY <1>1, <1>10
     DEF Operating, Arranging, SetUnfenced, SetForced, AuditDisapproves, RetryManual, RetryDeferred,
         Delete, PruneStatus, AddRelation, AddGate, SatisfyGate, ClaimsOnly
<1>11. CASE Reaping
  BY <1>1, <1>7, <1>11 DEF Reaping, ReaperStep, ReaperScan, ReaperSkip, ReaperFail, ReaperKill
<1>12. CASE Tick \/ UNCHANGED vars
  BY <1>1, <1>12 DEF Tick, vars
<1> QED
  BY <1>8, <1>9, <1>10, <1>11, <1>12 DEF Next

\* No listing of the reaper is of a time to come.
LEMMA ListingsPast ==
    ASSUME TypeInv, [Next]_vars, \A r \in Reaper : reaper[r].at <= now
    PROVE  \A r \in Reaper : reaper'[r].at <= now'
<1>0. /\ reaper \in [Reaper -> [pending : SUBSET Task, at : Nat, cutoff : Nat]]
      /\ now \in Nat
  BY DEF TypeInv, TypeOK
<1>1. ASSUME reaper' = reaper, now' \in {now, now + 1}
      PROVE  \A r \in Reaper : reaper'[r].at <= now'
  BY <1>0, <1>1
<1> DEFINE Jobs == [pending : SUBSET Task, at : Nat, cutoff : Nat]
<1>2. ASSUME NEW r \in Reaper, NEW job \in Jobs, job.at \in {0, now, reaper[r].at},
             reaper' = [reaper EXCEPT ![r] = job], now' = now
      PROVE  \A q \in Reaper : reaper'[q].at <= now'
  BY <1>0, <1>2
<1>3. ASSUME NEW r \in Reaper, NEW t \in Task
      PROVE  Without(reaper[r], t) \in Jobs /\ Without(reaper[r], t).at \in {0, reaper[r].at}
  BY <1>0 DEF Without, Idle
<1>4. CASE Adding \/ Working \/ Operating
  <2>1. ASSUME NEW t, NEW r, NEW event, UpdateTask(t, r, event)
        PROVE  reaper' = reaper /\ now' = now
    BY <2>1 DEF UpdateTask
  <2>2. reaper' = reaper /\ now' = now
    <3>1. CASE Adding
      BY <3>1 DEF Adding, Add, AddBlockedBy, CreateGoal
    <3>2. CASE Working
      BY <2>1, <3>2 DEF Working, ClaimNext, ClaimTask, Heartbeat, SetByWorker, ApplyStatusAndStage
    <3>3. CASE Operating
      BY <2>1, <3>3 DEF Operating, Arranging, SetUnfenced, SetForced, AuditDisapproves, RetryManual,
                        RetryDeferred, ApplyStatusAndStage
    <3> QED
      BY <1>4, <3>1, <3>2, <3>3
  <2> QED
    BY <1>1, <2>2
<1>5. CASE Reaping
  <2>1. ASSUME NEW r \in Reaper, NEW age \in StaleAges, ReaperScan(r, age)
        PROVE  \A q \in Reaper : reaper'[q].at <= now'
    <3> DEFINE cutoff == IF age < now THEN now - age ELSE 0
               job == [pending |-> {t \in Task : StillStale(row[t], now, cutoff)},
                       at |-> now, cutoff |-> cutoff]
    <3>1. reaper' = [reaper EXCEPT ![r] = job] /\ now' = now
      BY <2>1 DEF ReaperScan
    <3>2. job \in Jobs /\ job.at = now
      BY <1>0, QueueAssumption
    <3> HIDE DEF job
    <3> QED
      BY <1>2, <3>1, <3>2
  <2>2. ASSUME NEW r \in Reaper, NEW t \in Task,
               ReaperRequeue(r, t) \/ ReaperSkip(r, t) \/ ReaperFail(r, t)
        PROVE  \A q \in Reaper : reaper'[q].at <= now'
    <3>1. Idle.at = 0 /\ Idle \in Jobs
      BY DEF Idle
    <3>2. PICK job \in {Idle, Without(reaper[r], t)} : reaper' = [reaper EXCEPT ![r] = job]
      BY <2>2, Zenon DEF ReaperRequeue, ReaperSkip, ReaperFail
    <3>3. now' = now
      BY <2>2 DEF ReaperRequeue, ReaperSkip, ReaperFail
    <3> QED
      BY <1>2, <1>3, <3>1, <3>2, <3>3
  <2>3. ASSUME NEW r \in Reaper, ReaperKill(r) PROVE \A q \in Reaper : reaper'[q].at <= now'
    <3>1. Idle.at = 0 /\ Idle \in Jobs
      BY DEF Idle
    <3>2. reaper' = [reaper EXCEPT ![r] = Idle] /\ now' = now
      BY <2>3 DEF ReaperKill
    <3> QED
      BY <1>2, <3>1, <3>2
  <2> QED
    BY <1>5, <2>1, <2>2, <2>3 DEF Reaping, ReaperStep
<1>6. CASE Tick \/ UNCHANGED vars
  BY <1>1, <1>6 DEF Tick, vars
<1> QED
  BY <1>4, <1>5, <1>6 DEF Next

\* Every step keeps what the ledger needs.
LEMMA LedgerInvStep == ClaimsOnly /\ LedgerInv /\ [Next]_vars => LedgerInv'
<1> SUFFICES ASSUME ClaimsOnly, LedgerInv, [Next]_vars PROVE LedgerInv'
  OBVIOUS
<1> DEFINE Agrees(t) ==
      /\ OpenAttempts(attempts'[t]) = IF row'[t].status = "doing" THEN {Len(attempts'[t])} ELSE {}
      /\ row'[t].lease # 0 => row'[t].status = "doing"
<1>0. \A t \in Task :
        /\ OpenAttempts(attempts[t]) = IF row[t].status = "doing" THEN {Len(attempts[t])} ELSE {}
        /\ row[t].lease # 0 => row[t].status = "doing"
        /\ attempts[t] \in Seq(Attempt)
  BY DEF LedgerInv, TypeInv, TypeOK
<1>1. TypeInv'
  BY TypeStep DEF LedgerInv
<1>2. \A r \in Reaper : reaper'[r].at <= now'
  BY ListingsPast DEF LedgerInv
<1>3. ASSUME NEW t \in Task PROVE Agrees(t)
  <2>1. CASE Quiet
    BY <1>0, <2>1 DEF Quiet
  <2>2. ASSUME NEW u \in Task, NEW w \in Worker, Claimed(u, w) PROVE Agrees(t)
    <3>1. CASE t = u
      BY <1>0, <2>2, <3>1, OpenedEntry DEF Claimed
    <3>2. CASE t # u
      BY <1>0, <2>2, <3>2 DEF Claimed, OnlyOf
    <3> QED
      BY <3>1, <3>2
  <2>3. ASSUME NEW u \in Task, Renewed(u) PROVE Agrees(t)
    BY <1>0, <2>3 DEF Renewed, OnlyOf
  <2>4. ASSUME NEW u \in Task, NEW s \in Terminal \cup {"todo"}, Closed(u, s) PROVE Agrees(t)
    <3>1. CASE t = u
      <4>1. OpenAttempts(attempts[t]) = {Len(attempts[t])} /\ attempts'[t] = CloseLatest(attempts[t], s)
        BY <1>0, <2>4, <3>1 DEF Closed
      <4>2. OpenAttempts(attempts'[t]) = {}
        BY <1>0, <4>1, ClosedEntry
      <4> QED
        BY <2>4, <3>1, <4>2 DEF Closed
    <3>2. CASE t # u
      BY <1>0, <2>4, <3>2 DEF Closed, OnlyOf
    <3> QED
      BY <3>1, <3>2
  <2> QED
    BY <2>1, <2>2, <2>3, <2>4, NextKinds DEF Kinds
<1> QED
  BY <1>1, <1>2, <1>3 DEF LedgerInv

-----------------------------------------------------------------------------
(* The refinement                                                           *)

Ledgers == [t \in Task |-> LedgerOf(attempts[t])]

Deadlines == [t \in Task |-> row[t].lease]

\* A task is held in the ledger when it is doing in the queue.
LEMMA HeldIsDoing ==
    ASSUME LedgerInv, NEW t \in Task
    PROVE  Ledger!Held(t) <=> row[t].status = "doing"
<1>0. /\ attempts[t] \in Seq(Attempt)
      /\ OpenAttempts(attempts[t]) # {} <=> row[t].status = "doing"
  BY DEF LedgerInv, TypeInv, TypeOK
<1>1. \A i \in DOMAIN attempts[t] :
        Fate(attempts[t][i].outcome) = "held" <=> attempts[t][i].outcome = "open"
  BY DEF Fate
<1>2. Ledger!Held(t) <=> \E i \in DOMAIN attempts[t] : Fate(attempts[t][i].outcome) = "held"
  BY DEF Ledger!Held
<1> QED
  BY <1>0, <1>1, <1>2 DEF OpenAttempts

\* What the ledger sees of a step on one task.
LEMMA OnlyOfMaps ==
    ASSUME TypeInv, NEW t \in Task, OnlyOf(t)
    PROVE  /\ Ledgers' = [Ledgers EXCEPT ![t] = LedgerOf(attempts'[t])]
           /\ Deadlines' = [Deadlines EXCEPT ![t] = row'[t].lease]
<1>1. Ledgers' = [x \in Task |-> LedgerOf(attempts'[x])]
  BY DEF Ledgers, LedgerOf
<1>2. Ledgers' = [Ledgers EXCEPT ![t] = LedgerOf(attempts'[t])]
  BY <1>1 DEF Ledgers, OnlyOf
<1>3. Deadlines' = [Deadlines EXCEPT ![t] = row'[t].lease]
  BY DEF Deadlines, OnlyOf
<1> QED
  BY <1>2, <1>3

\* Each kind of step is one of the ledger's steps, or none.
LEMMA KindsMap ==
    ASSUME LedgerInv, Kinds
    PROVE  [Ledger!Next]_(Ledger!vars)
<1>0. /\ TypeInv /\ now \in Nat
      /\ \A t \in Task : /\ attempts[t] \in Seq(Attempt) /\ row[t].lease \in Nat
                         /\ Ledgers[t] = LedgerOf(attempts[t]) /\ Deadlines[t] = row[t].lease
                         /\ OpenAttempts(attempts[t]) = IF row[t].status = "doing"
                                                        THEN {Len(attempts[t])} ELSE {}
                         /\ row[t].lease # 0 => row[t].status = "doing"
  BY DEF LedgerInv, TypeInv, TypeOK, Row, Ledgers, Deadlines
<1>1. CASE Quiet
  <2>1. Ledgers' = Ledgers /\ Deadlines' = Deadlines
    BY <1>1 DEF Quiet, Ledgers, Deadlines, LedgerOf
  <2>2. CASE now' = now + 1
    BY <2>1, <2>2 DEF Ledger!Next, Ledger!Advance, Ledgers, Deadlines, LedgerOf
  <2>3. CASE now' = now
    BY <2>1, <2>3 DEF Ledger!vars, Ledgers, Deadlines, LedgerOf
  <2> QED
    BY <1>1, <2>2, <2>3 DEF Quiet
<1>2. ASSUME NEW t \in Task, NEW w \in Worker, Claimed(t, w) PROVE Ledger!Next
  <2>1. LedgerOf(attempts'[t]) = Append(LedgerOf(attempts[t]), [worker |-> w, fate |-> "held"])
    BY <1>0, <1>2, OpenedEntry DEF Claimed
  <2>2. Ledgers' = [Ledgers EXCEPT ![t] = Append(Ledgers[t], [worker |-> w, fate |-> "held"])]
    BY <1>0, <1>2, <2>1, OnlyOfMaps DEF Claimed
  <2>3. /\ Deadlines' = [Deadlines EXCEPT ![t] = Deadlines'[t]]
        /\ Deadlines'[t] = 0 \/ Deadlines'[t] > now
    <3>1. Deadlines'[t] = row'[t].lease
      BY DEF Deadlines
    <3> QED
      BY <1>0, <1>2, <3>1, OnlyOfMaps DEF Claimed
  <2>4. ~Ledger!Held(t)
    BY <1>2, HeldIsDoing DEF Claimed
  <2>5. \A u \in Task : Ledger!Held(u) => ~Ledger!Excludes(t, u)
    <3> SUFFICES ASSUME NEW u \in Task, Ledger!Held(u), Ledger!Excludes(t, u) PROVE FALSE
      OBVIOUS
    <3>1. row[u].status = "doing" /\ t # u
      BY <2>4, HeldIsDoing
    <3> QED
      BY <1>2, <3>1 DEF Claimed, Ledger!Excludes, SharesResource
  <2>6. Ledger!Acquire(t, w)
    BY <1>2, <2>2, <2>3, <2>4, <2>5
       DEF Ledger!Acquire, Ledger!Renewed, Ledgers, Deadlines, LedgerOf, Claimed, OnlyOf
  <2> QED
    BY <2>6 DEF Ledger!Next
<1>3. ASSUME NEW t \in Task, Renewed(t) PROVE Ledger!Next
  <2>1. Ledgers' = Ledgers
    BY <1>3 DEF Renewed, Ledgers, LedgerOf
  <2>2. /\ Deadlines' = [Deadlines EXCEPT ![t] = Deadlines'[t]]
        /\ Deadlines'[t] = 0 \/ Deadlines'[t] > now
    <3>1. Deadlines'[t] = row'[t].lease
      BY DEF Deadlines
    <3> QED
      BY <1>0, <1>3, <3>1, OnlyOfMaps DEF Renewed
  <2>3. Ledger!Held(t)
    BY <1>3, HeldIsDoing DEF Renewed
  <2>4. Ledger!Renew(t)
    BY <1>3, <2>1, <2>2, <2>3
       DEF Ledger!Renew, Ledger!Renewed, Ledgers, Deadlines, LedgerOf, Renewed, OnlyOf
  <2> QED
    BY <2>4 DEF Ledger!Next
<1>4. ASSUME NEW t \in Task, NEW s \in Terminal \cup {"todo"}, Closed(t, s) PROVE Ledger!Next
  <2>1. LedgerOf(attempts'[t])
          = [LedgerOf(attempts[t]) EXCEPT ![Len(LedgerOf(attempts[t]))].fate = Fate(s)]
    <3>1. /\ OpenAttempts(attempts[t]) = {Len(attempts[t])} /\ attempts[t] \in Seq(Attempt)
          /\ attempts'[t] = CloseLatest(attempts[t], s)
      BY <1>0, <1>4 DEF Closed
    <3>2. LedgerOf(CloseLatest(attempts[t], s))
            = [LedgerOf(attempts[t]) EXCEPT ![Len(LedgerOf(attempts[t]))].fate = Fate(s)]
      BY <3>1, ClosedEntry
    <3> QED
      BY <3>1, <3>2
  <2>2. Ledgers' = [Ledgers EXCEPT ![t] = [Ledgers[t] EXCEPT ![Len(Ledgers[t])].fate = Fate(s)]]
    BY <1>0, <1>4, <2>1, OnlyOfMaps DEF Closed
  <2>3. Deadlines' = [Deadlines EXCEPT ![t] = 0]
    BY <1>0, <1>4, OnlyOfMaps DEF Closed
  <2>4. Ledger!Held(t)
    BY <1>4, HeldIsDoing DEF Closed
  <2>5. Ledger!Settle(t, Fate(s))
    BY <1>4, <2>2, <2>3, <2>4
       DEF Ledger!Settle, Ledgers, Deadlines, LedgerOf, Closed, OnlyOf
  <2>6. CASE s = "todo"
    <3>1. Fate(s) = "reclaimed" /\ Deadlines[t] <= now
      BY <1>0, <1>4, <2>6 DEF Fate, Closed
    <3>2. Ledger!Reclaim(t)
      BY <2>5, <3>1 DEF Ledger!Reclaim, Deadlines
    <3> QED
      BY <3>2 DEF Ledger!Next
  <2>7. CASE s \in Terminal
    <3>1. Fate(s) = "finished" /\ (Deadlines[t] = 0 \/ Deadlines[t] > now)
      BY <1>0, <1>4, <2>7 DEF Fate, Closed, Terminal
    <3>2. Ledger!Finish(t)
      BY <2>5, <3>1 DEF Ledger!Finish, Deadlines
    <3> QED
      BY <3>2 DEF Ledger!Next
  <2> QED
    BY <2>6, <2>7
<1> QED
  BY <1>1, <1>2, <1>3, <1>4 DEF Kinds

\* The empty queue is an empty ledger.
LEMMA LedgerInitial == Init => LedgerInv /\ Ledger!Init
<1> SUFFICES ASSUME Init PROVE LedgerInv /\ Ledger!Init
  OBVIOUS
<1>1. \A t \in Task : /\ row[t].status = "unborn" /\ row[t].lease = 0
                      /\ attempts[t] = <<>>
  BY DEF Init, AbsentRow
<1>2. LedgerInv
  <2>1. \A r \in Reaper : reaper[r].at <= now
    BY DEF Init, Idle
  <2> QED
    BY <1>1, <2>1, TypeInit DEF LedgerInv, OpenAttempts
<1>3. Ledger!Init
  <2>1. \A t \in Task : LedgerOf(attempts[t]) = <<>>
    BY <1>1 DEF LedgerOf
  <2>2. Ledgers = [t \in Task |-> <<>>] /\ Deadlines = [t \in Task |-> 0] /\ now \in Nat
    BY <1>1, <2>1 DEF Ledgers, Deadlines, Init
  <2> QED
    BY <2>2 DEF Ledger!Init, Ledgers, Deadlines, LedgerOf
<1> QED
  BY <1>2, <1>3

\* The queue keeps the promise of the ledger to its workers: claims exclude each
\* other, and each is settled once, by its worker before its lease runs out or
\* by a reaper after it, which may have listed it at any time before.
THEOREM ImplementsLedger ==
    ASSUME ClaimsOnly
    PROVE  Spec => LedgerSpec
<1>1. Init => LedgerInv /\ Ledger!Init
  BY LedgerInitial
<1>2. LedgerInv /\ [Next]_vars => LedgerInv'
  BY LedgerInvStep
<1>3. LedgerInv /\ [Next]_vars => [Ledger!Next]_(Ledger!vars)
  BY NextKinds, KindsMap
<1> QED
  BY <1>1, <1>2, <1>3, PTL DEF Spec, LedgerSpec, Ledger!Spec

=============================================================================
