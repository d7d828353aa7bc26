---------------------------- MODULE ImportProofs ----------------------------
(***************************************************************************)
(* Theorems about the import: archives enter the queue as a whole and once *)
(* each, what they bring keeps the order and the relations of the queue,   *)
(* what was blocked stays so until somebody approves of it, and the stored *)
(* reports account for every row.                                          *)
(***************************************************************************)
EXTENDS VybeImport, SchedulingProofs, FiniteSetTheorems

-----------------------------------------------------------------------------
(* The rows an import adds                                                  *)

\* What has not been imported of an archive is not there and never was.
ArchivedIdsFresh ==
    \A a \in Archive : \A t \in Ids(a) : t \notin provenance => row[t].status = "unborn"

\* The row that an archive has for a task, as it is imported.
PlaceOf(a, t) == CHOOSE i \in Places(a) : Content[a].tasks[i].id = t

ImportedRow(a, t) ==
    [NewRow(0, NextOrdinal + PlaceOf(a, t) - 1) EXCEPT
        !.status = ImportedStatus(Content[a].tasks[PlaceOf(a, t)].status)]

\* The places of a sequence.
LEMMA PlacesOfSeq ==
    ASSUME NEW T, NEW q \in Seq(T)
    PROVE  DOMAIN q = 1..Len(q) /\ Len(q) \in Nat /\ \A i \in DOMAIN q : q[i] \in T
OBVIOUS

\* The places of the ids of an archive.
LEMMA PlaceOfId ==
    ASSUME NEW a \in Archive, NEW t \in Ids(a)
    PROVE  /\ t \in Task
           /\ PlaceOf(a, t) \in 1..Len(Content[a].tasks)
           /\ Len(Content[a].tasks) \in Nat
           /\ Content[a].tasks[PlaceOf(a, t)].id = t
<1>0. Content[a].tasks \in Seq([id : Task, status : VybeStatus])
  BY ImportAssumption
<1>1. /\ Places(a) = 1..Len(Content[a].tasks) /\ Len(Content[a].tasks) \in Nat
      /\ \A i \in Places(a) : Content[a].tasks[i] \in [id : Task, status : VybeStatus]
  BY <1>0, PlacesOfSeq DEF Places
<1>2. \E i \in Places(a) : Content[a].tasks[i].id = t
  BY DEF Ids
<1>3. PlaceOf(a, t) \in Places(a) /\ Content[a].tasks[PlaceOf(a, t)].id = t
  BY <1>2 DEF PlaceOf
<1>4. \A i \in Places(a) : Content[a].tasks[i].id \in Task
  BY <1>1
<1> QED
  BY <1>1, <1>3, <1>4

\* An import adds rows under fresh ids, todo or ended, and touches no other.
LEMMA ImportRows ==
    ASSUME TypeInv, ArchivedIdsFresh, NEW a \in Archive, ImportArchive(a)
    PROVE  /\ \A t \in Ids(a) :
                 /\ row[t].status = "unborn"
                 /\ row'[t] = ImportedRow(a, t) /\ row'[t] \in Row
                 /\ row'[t].status \in {"todo", "done", "failed"}
                 /\ row'[t].ordinal = NextOrdinal + PlaceOf(a, t) - 1
           /\ \A t \in Task \ Ids(a) : row'[t] = row[t]
           /\ row' \in [Task -> Row]
<1>1. row' = [t \in Task |-> IF t \in Ids(a) THEN ImportedRow(a, t) ELSE row[t]]
  BY DEF ImportArchive, ImportedRow, PlaceOf
<1>2. ASSUME NEW t \in Ids(a)
      PROVE  /\ t \in Task /\ row[t].status = "unborn"
             /\ ImportedRow(a, t) \in Row
             /\ ImportedRow(a, t).status \in {"todo", "done", "failed"}
             /\ ImportedRow(a, t).ordinal = NextOrdinal + PlaceOf(a, t) - 1
  <2>1. t \notin provenance
    BY DEF ImportArchive, Importable
  <2>2. row[t].status = "unborn"
    BY <2>1 DEF ArchivedIdsFresh
  <2>3. NextOrdinal \in Nat /\ PlaceOf(a, t) \in Nat \ {0} /\ t \in Task
    BY NextOrdinalType, PlaceOfId
  <2>4. \A s : ImportedStatus(s) \in {"todo", "done", "failed"}
    BY DEF ImportedStatus
  <2> DEFINE s == ImportedStatus(Content[a].tasks[PlaceOf(a, t)].status)
             k == NextOrdinal + PlaceOf(a, t) - 1
  <2>5. s \in {"todo", "done", "failed"} /\ k \in Nat
    BY <2>3, <2>4
  <2>6. ImportedRow(a, t) = [NewRow(0, k) EXCEPT !.status = s]
    BY DEF ImportedRow
  <2> HIDE DEF s
  <2> SUFFICES ImportedRow(a, t) \in Row /\ ImportedRow(a, t).status = s /\ ImportedRow(a, t).ordinal = k
    BY <2>2, <2>3, <2>5
  <2> HIDE DEF k
  <2> QED
    BY <2>5, <2>6 DEF NewRow, Row, Status
<1>3. \A t \in Task \ Ids(a) : row[t] \in Row
  BY DEF TypeInv, TypeOK
<1>4. \A t \in Ids(a) : row'[t] = ImportedRow(a, t)
  BY <1>1, <1>2
<1>5. row' \in [Task -> Row]
  BY <1>1, <1>2, <1>3
<1> QED
  BY <1>1, <1>2, <1>4, <1>5

\* An import keeps the types of the queue.
LEMMA ImportTypes ==
    ASSUME TypeInv, ArchivedIdsFresh, NEW a \in Archive, ImportArchive(a)
    PROVE  TypeInv'
<1>1. row' \in [Task -> Row]
  BY ImportRows
<1>2. gates' \in [Task -> [Gate -> {"none", "unmet", "satisfied"}]]
  <2>1. gates' = [t \in Task |-> IF t \in Gated(a) THEN [gates[t] EXCEPT ![LegacyGate] = "unmet"]
                                 ELSE gates[t]]
    BY DEF ImportArchive, GatesFor
  <2>2. \A t \in Task : gates[t] \in [Gate -> {"none", "unmet", "satisfied"}]
    BY DEF TypeInv, TypeOK
  <2>3. \A t \in Task : [gates[t] EXCEPT ![LegacyGate] = "unmet"] \in [Gate -> {"none", "unmet", "satisfied"}]
    BY <2>2
  <2> QED
    BY <2>1, <2>2, <2>3
<1>3. OrdinalsBounded'
  <2>1. PICK n \in Nat : \A t \in Task : row[t].ordinal <= n
    BY DEF TypeInv, OrdinalsBounded
  <2> DEFINE len == Len(Content[a].tasks)
             next == NextOrdinal
             m == n + next + len
  <2>2. next \in Nat
    BY NextOrdinalType
  <2>3. len \in Nat
    <3>1. Content[a].tasks \in Seq([id : Task, status : VybeStatus])
      BY ImportAssumption
    <3> QED
      BY <3>1, PlacesOfSeq
  <2>4. ASSUME NEW t \in Task PROVE row'[t].ordinal <= m
    <3>1. row[t].ordinal \in Nat
      BY DEF TypeInv, TypeOK, Row
    <3>2. CASE t \in Ids(a)
      <4>1. row'[t].ordinal = next + PlaceOf(a, t) - 1 /\ PlaceOf(a, t) \in 1..len
        BY <3>2, ImportRows, PlaceOfId
      <4> HIDE DEF len, next
      <4> QED
        BY <2>2, <2>3, <4>1
    <3>3. CASE t \notin Ids(a)
      <4>1. row'[t] = row[t]
        BY <3>3, ImportRows
      <4>2. row'[t].ordinal <= n
        BY <2>1, <4>1
      <4> HIDE DEF len, next
      <4> QED
        BY <2>2, <2>3, <3>1, <4>1, <4>2
    <3> QED
      BY <3>2, <3>3
  <2>5. m \in Nat
    <3> HIDE DEF len, next
    <3> QED
      BY <2>2, <2>3
  <2> HIDE DEF m
  <2> QED
    BY <2>4, <2>5 DEF OrdinalsBounded
<1> QED
  BY <1>1, <1>2, <1>3 DEF ImportArchive, TypeInv, TypeOK

\* An import is a step in the life of every task, and gives new ordinals only.
LEMMA ImportLife ==
    ASSUME TypeInv, ArchivedIdsFresh, NEW a \in Archive, ImportArchive(a)
    PROVE  NewOrdinals /\ \A x \in Task : LifeStep(x)
<1>1. attempts' = attempts
  BY DEF ImportArchive
<1>2. ASSUME NEW x \in Task PROVE LifeStep(x)
  <2>1. CASE x \in Ids(a)
    <3>1. row[x].status = "unborn" /\ row'[x].status \in {"todo", "done", "failed"}
      BY <2>1, ImportRows
    <3> QED
      BY <1>1, <3>1 DEF LifeStep, Status
  <2>2. CASE x \notin Ids(a)
    <3>1. row'[x] = row[x] /\ row[x].status \in Status \cup Absent
      BY <2>2, ImportRows DEF TypeInv, TypeOK, Row
    <3> QED
      BY <1>1, <3>1, UnchangedLife
  <2> QED
    BY <2>1, <2>2
<1>3. ASSUME NEW t \in Task, row[t].status = "unborn", row'[t].status \in Status
      PROVE  t \in Ids(a)
  BY <1>3, ImportRows DEF Status
<1>4. ASSUME NEW t \in Ids(a)
      PROVE  /\ row'[t].ordinal >= NextOrdinal
             /\ \A u \in Ids(a) : row'[t].ordinal = row'[u].ordinal => t = u
  <2>1. NextOrdinal \in Nat
    BY NextOrdinalType
  <2>2. \A u \in Ids(a) : /\ row'[u].ordinal = NextOrdinal + PlaceOf(a, u) - 1
                          /\ PlaceOf(a, u) \in Nat \ {0} /\ Content[a].tasks[PlaceOf(a, u)].id = u
    BY ImportRows, PlaceOfId
  <2>3. \A u \in Ids(a) : row'[t].ordinal = row'[u].ordinal => PlaceOf(a, t) = PlaceOf(a, u)
    BY <2>1, <2>2
  <2>4. row'[t].ordinal >= NextOrdinal
    BY <2>1, <2>2
  <2> QED
    BY <2>2, <2>3, <2>4
<1>5. NewOrdinals
  BY <1>3, <1>4 DEF NewOrdinals
<1> QED
  BY <1>2, <1>5

\* What the proofs below share: types, fresh ids, relations and ordinals.
ImportInv == RelationInv /\ ArchivedIdsFresh /\ OrdinalsDistinct

\* Every step keeps it, and is one in the life of every task.
LEMMA ImportStep ==
    ASSUME ImportInv, [ImportNext]_<<vars, importVars>>
    PROVE  ImportInv' /\ \A x \in Task : LifeStep(x)
<1>0. TypeInv /\ RelationInv /\ ArchivedIdsFresh /\ OrdinalsDistinct
  BY DEF ImportInv, RelationInv
<1>1. CASE Queueing
  <2>1. \A x \in Task : LifeStep(x)
    BY <1>0, <1>1, NextLife DEF Queueing
  <2>2. RelationInv' /\ OrdinalsDistinct'
    BY <1>0, <1>1, <2>1, RelationNext, NextOrdinals, OrdinalsStep DEF Queueing
  <2>3. ArchivedIdsFresh'
    BY <1>0, <1>1 DEF ArchivedIdsFresh, Queueing, importVars
  <2> QED
    BY <2>1, <2>2, <2>3 DEF ImportInv
<1>2. ASSUME NEW a \in Archive, ImportArchive(a)
      PROVE  ImportInv' /\ \A x \in Task : LifeStep(x)
  <2>1. TypeInv' /\ NewOrdinals /\ \A x \in Task : LifeStep(x)
    BY <1>0, <1>2, ImportTypes, ImportLife
  <2>2. RelationInv' /\ OrdinalsDistinct'
    BY <1>0, <1>2, <2>1, RelationInvStep, OrdinalsStep DEF ImportArchive, RelationStep
  <2>3. ASSUME NEW b \in Archive, NEW t \in Ids(b), t \notin provenance'
        PROVE  row'[t].status = "unborn"
    <3>1. t \notin provenance /\ t \notin Ids(a)
      BY <1>2, <2>3 DEF ImportArchive
    <3>2. t \in Task /\ row[t].status = "unborn"
      BY <1>0, <3>1, PlaceOfId DEF ArchivedIdsFresh
    <3> QED
      BY <1>0, <1>2, <3>1, <3>2, ImportRows
  <2> QED
    BY <2>1, <2>2, <2>3 DEF ImportInv, ArchivedIdsFresh
<1>3. CASE UNCHANGED <<vars, importVars>>
  <2>1. \A x \in Task : LifeStep(x)
    BY <1>0, <1>3, NextLife
  <2>2. RelationInv'
    BY <1>0, <1>3, RelationNext
  <2> QED
    BY <1>0, <1>3, <2>1, <2>2
       DEF ImportInv, ArchivedIdsFresh, OrdinalsDistinct, Present, vars, importVars
<1> QED
  BY <1>1, <1>2, <1>3 DEF ImportNext, Importing

\* It holds of the empty tables.
LEMMA ImportInvInit == ImportInit => ImportInv
<1> SUFFICES ASSUME ImportInit PROVE ImportInv
  OBVIOUS
<1>1. RelationInv
  BY RelationInit DEF ImportInit
<1>2. \A t \in Task : row[t].status = "unborn"
  BY DEF ImportInit, Init, AbsentRow
<1>3. ArchivedIdsFresh
  BY <1>2, PlaceOfId DEF ArchivedIdsFresh
<1>4. OrdinalsDistinct
  BY <1>2 DEF OrdinalsDistinct, Present, Status
<1> QED
  BY <1>1, <1>3, <1>4 DEF ImportInv

\* And so of every reachable state.
LEMMA ImportInvariant == ImportSpec => []ImportInv
<1>1. ImportInv /\ [ImportNext]_<<vars, importVars>> => ImportInv'
  BY ImportStep
<1> QED
  BY <1>1, ImportInvInit, PTL DEF ImportSpec

\* Imported rows get ordinals of their own.
THEOREM ImportOrdinals == ImportSpec => []OrdinalsDistinct
<1>1. ImportInv => OrdinalsDistinct
  BY DEF ImportInv
<1> QED
  BY <1>1, ImportInvariant, PTL

\* And find no relations that were made before them.
THEOREM ImportNoCycles == ImportSpec => []BlocksAcyclic
<1>1. ImportInv => BlocksAcyclic
  BY DEF ImportInv, RelationInv
<1> QED
  BY <1>1, ImportInvariant, PTL

\* A queue with imported tasks that is stuck is so for a reason to be seen.
THEOREM ImportStuckExplained == ImportSpec => []StuckIsExplained
<1>1. ImportInv => StuckIsExplained
  BY AcyclicExplains DEF ImportInv, RelationInv
<1> QED
  BY <1>1, ImportInvariant, PTL

\* A task that was deleted does not come back: not by another archive that has
\* it, either.
THEOREM NoneComesBack == ImportSpec => DeletedForGood
<1> DEFINE Gone == \A t \in Task : row[t].status = "removed" => row'[t].status = "removed"
<1>1. ImportInv /\ [ImportNext]_<<vars, importVars>> => [Gone]_vars
  BY ImportStep DEF LifeStep
<1> QED
  BY <1>1, ImportInvariant, PTL DEF ImportSpec, DeletedForGood

-----------------------------------------------------------------------------
(* Reports                                                                  *)

\* The number of rows of a kind is a natural number.
LEMMA CountType ==
    ASSUME NEW n \in Nat, NEW T, NEW refs \in [1..n -> T], NEW S
    PROVE  CountIn(refs, S) \in Nat
<1>1. IsFiniteSet(1..n)
  BY FS_Interval
<1>2. {i \in DOMAIN refs : refs[i] \in S} \in SUBSET (1..n)
  OBVIOUS
<1>3. IsFiniteSet({i \in DOMAIN refs : refs[i] \in S})
  BY <1>1, <1>2, FS_Subset
<1> QED
  BY <1>3, FS_CardinalityType DEF CountIn

\* A tally accounts for every row once, and orphans are among the archived rows.
LEMMA TallyAdds ==
    ASSUME NEW a \in Archive, NEW n \in Nat, NEW refs \in [1..n -> Task \cup {NoTask}]
    PROVE  /\ Tally(refs, a) \in TallyType
           /\ Tally(refs, a).imported + Tally(refs, a).archived = n
           /\ Tally(refs, a).orphans <= Tally(refs, a).archived
<1> DEFINE In(S) == {i \in DOMAIN refs : refs[i] \in S}
           active == ActiveIds(a)
           rest == (Task \cup {NoTask}) \ active
           lost == Task \ Ids(a)
<1>1. IsFiniteSet(1..n) /\ Cardinality(1..n) = n
  BY FS_Interval
<1>2. \A S : In(S) \in SUBSET (1..n)
  OBVIOUS
<1>3. \A S : IsFiniteSet(In(S)) /\ Cardinality(In(S)) \in Nat
  BY <1>1, <1>2, FS_Subset, FS_CardinalityType
<1>4. In(active) \cup In(rest) = 1..n /\ In(active) \cap In(rest) = {}
  OBVIOUS
<1>5. Cardinality(In(active)) + Cardinality(In(rest)) = n
  <2>1. Cardinality(In(active) \cup In(rest))
          = Cardinality(In(active)) + Cardinality(In(rest)) - Cardinality(In(active) \cap In(rest))
    BY <1>3, FS_Union
  <2>2. Cardinality(In(active) \cap In(rest)) = 0
    BY <1>4, FS_EmptySet
  <2>3. Cardinality(In(active) \cup In(rest)) = n
    BY <1>1, <1>4
  <2>4. Cardinality(In(active)) \in Nat /\ Cardinality(In(rest)) \in Nat
    BY <1>3
  <2> HIDE DEF In, active, rest
  <2> QED
    BY <2>1, <2>2, <2>3, <2>4
<1>6. Cardinality(In(lost)) <= Cardinality(In(rest))
  <2>1. active \subseteq Ids(a)
    BY DEF ActiveIds, Ids
  <2>2. In(lost) \in SUBSET In(rest)
    BY <2>1
  <2> HIDE DEF In
  <2> QED
    BY <1>3, <2>2, FS_Subset
<1>7. Tally(refs, a) = [imported |-> Cardinality(In(active)), archived |-> Cardinality(In(rest)),
                        orphans |-> Cardinality(In(lost))]
  BY DEF Tally, CountIn
<1> HIDE DEF In, active, rest, lost
<1> QED
  BY <1>3, <1>5, <1>6, <1>7 DEF TallyType

\* So does the report of a well-formed archive for its files.
LEMMA ReportAdds ==
    ASSUME NEW a \in Archive
    PROVE  /\ Report(a) \in ReportType
           /\ WellFormed(a) =>
                LET adds(tally, n) == tally.imported + tally.archived = n /\ tally.orphans <= tally.archived
                    counts == Content[a].counts
                IN  /\ Report(a).tasks = counts.tasks
                    /\ adds(Report(a).events, counts.events)
                    /\ adds(Report(a).memories, counts.memories)
                    /\ adds(Report(a).artifacts, counts.artifacts)
<1> DEFINE files == Content[a]
           owners == [i \in DOMAIN files.memories |->
                        IF files.memories[i].scope = "task" THEN files.memories[i].of ELSE NoTask]
<1>1. /\ files.tasks \in Seq([id : Task, status : VybeStatus])
      /\ files.events \in Seq(Task \cup {NoTask})
      /\ files.memories \in Seq([scope : {"task", "other"}, of : Task \cup {NoTask}])
      /\ files.artifacts \in Seq(Task \cup {NoTask})
  BY ImportAssumption
<1>2. Len(files.tasks) \in Nat
  BY <1>1, PlacesOfSeq
<1>3. Len(files.events) \in Nat /\ files.events \in [1..Len(files.events) -> Task \cup {NoTask}]
  BY <1>1
<1>4. Len(files.artifacts) \in Nat /\ files.artifacts \in [1..Len(files.artifacts) -> Task \cup {NoTask}]
  BY <1>1
<1>5. Len(files.memories) \in Nat /\ owners \in [1..Len(files.memories) -> Task \cup {NoTask}]
  <2>1. /\ DOMAIN files.memories = 1..Len(files.memories) /\ Len(files.memories) \in Nat
        /\ \A i \in DOMAIN files.memories :
              files.memories[i] \in [scope : {"task", "other"}, of : Task \cup {NoTask}]
    BY <1>1, PlacesOfSeq
  <2> QED
    BY <2>1
<1>6. Report(a) = [tasks |-> Len(files.tasks), events |-> Tally(files.events, a),
                   memories |-> Tally(owners, a), artifacts |-> Tally(files.artifacts, a)]
  BY DEF Report
<1>7. WellFormed(a) =>
        files.counts = [tasks |-> Len(files.tasks), events |-> Len(files.events),
                        memories |-> Len(files.memories), artifacts |-> Len(files.artifacts)]
  BY DEF WellFormed, CountsMatch
<1>8. /\ Tally(files.events, a) \in TallyType
      /\ Tally(files.events, a).imported + Tally(files.events, a).archived = Len(files.events)
      /\ Tally(files.events, a).orphans <= Tally(files.events, a).archived
  BY <1>3, TallyAdds
<1>9. /\ Tally(files.artifacts, a) \in TallyType
      /\ Tally(files.artifacts, a).imported + Tally(files.artifacts, a).archived = Len(files.artifacts)
      /\ Tally(files.artifacts, a).orphans <= Tally(files.artifacts, a).archived
  BY <1>4, TallyAdds
<1>10. /\ Tally(owners, a) \in TallyType
       /\ Tally(owners, a).imported + Tally(owners, a).archived = Len(files.memories)
       /\ Tally(owners, a).orphans <= Tally(owners, a).archived
  <2> HIDE DEF owners
  <2> QED
    BY <1>5, TallyAdds
<1> HIDE DEF owners
<1>11. Report(a) \in ReportType
  BY <1>2, <1>6, <1>8, <1>9, <1>10 DEF ReportType
<1> QED
  BY <1>6, <1>7, <1>8, <1>9, <1>10, <1>11

\* The reports stored are of well-formed archives.
ReportsInv ==
    /\ reports \in [Archive -> ReportType \cup {NoReport}]
    /\ \A a \in Applied : WellFormed(a) /\ reports[a] = Report(a)

\* The tasks with a checkpoint are those of the archives with a report; the
\* archives with one have no task in common.
LEMMA ReportsStep ==
    ASSUME ReportsInv, [ImportNext]_<<vars, importVars>>
    PROVE  ReportsInv' /\ (ImportedWhole => ImportedWhole')
<1>1. CASE UNCHANGED importVars
  BY <1>1 DEF ReportsInv, Applied, ImportedWhole, importVars
<1>2. ASSUME NEW a \in Archive, ImportArchive(a)
      PROVE  ReportsInv' /\ (ImportedWhole => ImportedWhole')
  <2>1. /\ WellFormed(a) /\ reports[a] = NoReport /\ Ids(a) \cap provenance = {}
        /\ reports' = [reports EXCEPT ![a] = Report(a)]
        /\ provenance' = provenance \cup Ids(a)
    BY <1>2 DEF ImportArchive, Importable
  <2>2. Report(a) \in ReportType /\ Report(a) # NoReport
    BY ReportAdds, ImportAssumption
  <2>3. Applied' = Applied \cup {a} /\ a \notin Applied
    BY <2>1, <2>2 DEF ReportsInv, Applied
  <2>4. ReportsInv'
    BY <2>1, <2>2, <2>3 DEF ReportsInv, Applied
  <2>5. ASSUME ImportedWhole PROVE ImportedWhole'
    <3>1. /\ provenance = UNION {Ids(b) : b \in Applied}
          /\ \A b, c \in Applied : b # c => Ids(b) \cap Ids(c) = {}
      BY <2>5 DEF ImportedWhole
    <3>2. \A b \in Applied : Ids(b) \cap Ids(a) = {}
      BY <2>1, <3>1
    <3>3. provenance' = UNION {Ids(b) : b \in Applied'}
      BY <2>1, <2>3, <3>1
    <3>4. \A b, c \in Applied' : b # c => Ids(b) \cap Ids(c) = {}
      BY <2>3, <3>1, <3>2
    <3> QED
      BY <3>3, <3>4 DEF ImportedWhole
  <2> QED
    BY <2>4, <2>5
<1> QED
  BY <1>1, <1>2 DEF ImportNext, Queueing, Importing

\* Nothing has been imported into the empty tables.
LEMMA ReportsInit == ImportInit => ReportsInv /\ ImportedWhole
<1> SUFFICES ASSUME ImportInit PROVE ReportsInv /\ ImportedWhole
  OBVIOUS
<1>1. reports = [a \in Archive |-> NoReport] /\ provenance = {}
  BY DEF ImportInit
<1>2. Applied = {}
  BY <1>1 DEF Applied
<1> QED
  BY <1>1, <1>2 DEF ReportsInv, ImportedWhole

\* However imports of archives that overlap are repeated and ordered, each of
\* them is there as a whole or not at all, and no task comes from two.
THEOREM WholeImports == ImportSpec => []ImportedWhole
<1>1. ReportsInv /\ ImportedWhole /\ [ImportNext]_<<vars, importVars>>
      => ReportsInv' /\ ImportedWhole'
  BY ReportsStep
<1> QED
  BY <1>1, ReportsInit, PTL DEF ImportSpec

\* Every row of an imported archive is accounted for once in its report.
THEOREM ReportsReconcile == ImportSpec => []Reconciled
<1>1. ReportsInv /\ [ImportNext]_<<vars, importVars>> => ReportsInv'
  BY ReportsStep
<1>2. ReportsInv => Reconciled
  <2> SUFFICES ASSUME ReportsInv, NEW a \in Applied
               PROVE  LET adds(tally, n) == tally.imported + tally.archived = n
                                            /\ tally.orphans <= tally.archived
                          counts == Content[a].counts
                      IN  /\ reports[a].tasks = counts.tasks
                          /\ adds(reports[a].events, counts.events)
                          /\ adds(reports[a].memories, counts.memories)
                          /\ adds(reports[a].artifacts, counts.artifacts)
    BY DEF Reconciled
  <2>1. a \in Archive /\ WellFormed(a) /\ reports[a] = Report(a)
    BY DEF ReportsInv, Applied
  <2> QED
    BY <2>1, ReportAdds
<1> QED
  BY <1>1, <1>2, ReportsInit, PTL DEF ImportSpec

-----------------------------------------------------------------------------
(* What was blocked                                                         *)

\* Nobody opens an attempt by hand: `set`, `retry` and a forced end ask for no gate.
StartedByClaims == Commands \cap {"set", "force", "retry"} = {}

\* A gate, once added, stays, an approval is not taken back, and the first
\* attempt of a task is a claim that found no gate unmet.
GateStep(x) ==
    /\ \A g \in Gate : /\ gates[x][g] # "none" => gates'[x][g] # "none"
                       /\ gates[x][g] = "satisfied" => gates'[x][g] = "satisfied"
    /\ attempts'[x] # <<>> => attempts[x] # <<>> \/ \A g \in Gate : gates'[x][g] # "unmet"

\* Closing the open attempts of a task that has none adds none.
LEMMA RequeueAddsNone ==
    ASSUME NEW log, log = <<>>, NEW event, event = "requeued", NEW s
    PROVE  AttemptsAfter(event, log, s) = <<>>
<1>1. OpenAttempts(log) = {}
  BY DEF OpenAttempts
<1> QED
  BY <1>1 DEF AttemptsAfter, CloseLatest, Terminal

\* Every step of the queue is of that kind for each task.
LEMMA NextGateStep ==
    ASSUME StartedByClaims, TypeInv, [Next]_vars, NEW x \in Task
    PROVE  GateStep(x)
<1>0. /\ attempts = [t \in Task |-> attempts[t]]
      /\ gates \in [Task -> [Gate -> {"none", "unmet", "satisfied"}]]
  BY DEF TypeInv, TypeOK
<1>1. ASSUME UNCHANGED <<attempts, gates>> PROVE GateStep(x)
  BY <1>1 DEF GateStep
<1>2. CASE Adding
  BY <1>1, <1>2 DEF Adding, Add, AddBlockedBy, CreateGoal
<1>3. CASE Working
  <2>1. ASSUME NEW t \in Task, NEW w, NEW ttl, ClaimNext(t, w, ttl) PROVE GateStep(x)
    <3>1. gates' = gates /\ \A g \in Gate : gates[t][g] # "unmet"
      BY <2>1 DEF ClaimNext, Ready, ReadyWith
    <3>2. x # t => attempts'[x] = attempts[x]
      BY <1>0, <2>1 DEF ClaimNext, Claim
    <3> QED
      BY <3>1, <3>2 DEF GateStep
  <2>2. ASSUME NEW t \in Task, NEW w, NEW ttl, NEW approved, ClaimTask(t, w, ttl, approved)
        PROVE  GateStep(x)
    <3> DEFINE itsGates == SatisfiedBy(gates[t], approved)
    <3>1. gates' = [gates EXCEPT ![t] = itsGates]
      BY <2>2 DEF ClaimTask
    <3>2. \A g \in Gate : itsGates[g] = IF g \in approved /\ gates[t][g] = "unmet"
                                        THEN "satisfied" ELSE gates[t][g]
      BY DEF SatisfiedBy
    <3>3. x # t => gates'[x] = gates[x] /\ attempts'[x] = attempts[x]
      BY <1>0, <2>2, <3>1 DEF ClaimTask, Claim
    <3>4. gates'[t] = itsGates
      BY <1>0, <3>1
    <3>5. (\A g \in Gate : itsGates[g] # "unmet") \/ attempts' = attempts
      BY <2>2 DEF ClaimTask, ReadyWith
    <3> HIDE DEF itsGates
    <3> QED
      BY <3>2, <3>3, <3>4, <3>5 DEF GateStep
  <2>3. ASSUME NEW t \in Task, NEW s, NEW staged, NEW w \in Worker, SetByWorker(t, s, staged, w)
        PROVE  GateStep(x)
    <3>1. OpenAttempts(attempts[t]) # {}
      BY <2>3, NoWorkerAssumption DEF SetByWorker, WorkerFence, Owner, ActiveAttemptOwner
    <3>2. gates' = gates /\ (x # t => attempts'[x] = attempts[x])
      BY <1>0, <2>3 DEF SetByWorker, ApplyStatusAndStage, UpdateTask
    <3> QED
      BY <3>1, <3>2, OwnedHasAttempts DEF GateStep
  <2> QED
    BY <1>1, <1>3, <2>1, <2>2, <2>3 DEF Working, Heartbeat
<1>4. CASE Operating
  <2>1. ASSUME NEW t \in Task, NEW r, NEW event, event = "requeued", UpdateTask(t, r, event)
        PROVE  GateStep(x)
    <3>1. /\ gates' = gates
          /\ attempts'[x] = IF x = t THEN AttemptsAfter(event, attempts[x], r.status) ELSE attempts[x]
      BY <1>0, <2>1 DEF UpdateTask
    <3> QED
      BY <2>1, <3>1, RequeueAddsNone DEF GateStep
  <2>2. ASSUME NEW t \in Task, AuditDisapproves(t) PROVE GateStep(x)
    BY <2>1, <2>2 DEF AuditDisapproves, ApplyStatusAndStage, EventForStatus
  <2>3. ASSUME NEW t \in Task, NEW a, RetryDeferred(t, a) PROVE GateStep(x)
    BY <2>1, <2>3 DEF RetryDeferred
  <2>4. ASSUME NEW t \in Task, NEW g \in Gate, AddGate(t, g) \/ SatisfyGate(t, g)
        PROVE  GateStep(x)
    <3>1. /\ attempts' = attempts
          /\ \/ gates[t][g] = "none" /\ gates' = [gates EXCEPT ![t][g] = "unmet"]
             \/ gates' = [gates EXCEPT ![t][g] = "satisfied"]
      BY <2>4 DEF AddGate, SatisfyGate
    <3> QED
      BY <1>0, <3>1 DEF GateStep
  <2> QED
    BY <1>1, <1>4, <2>2, <2>3, <2>4
       DEF Operating, Arranging, SetUnfenced, SetForced, RetryManual, Delete, PruneStatus,
           AddRelation, StartedByClaims
<1>5. CASE Reaping
  <2>1. ASSUME NEW r \in Reaper, NEW t \in Task, ReaperRequeue(r, t) PROVE GateStep(x)
    <3>1. /\ gates' = gates
          /\ attempts'[x] = IF x = t THEN AttemptsAfter("requeued", attempts[x], "todo") ELSE attempts[x]
      BY <1>0, <2>1 DEF ReaperRequeue
    <3> QED
      BY <3>1, RequeueAddsNone DEF GateStep
  <2> QED
    BY <1>1, <1>5, <2>1
       DEF Reaping, ReaperStep, ReaperScan, ReaperSkip, ReaperFail, ReaperKill
<1>6. CASE Tick \/ UNCHANGED vars
  BY <1>1, <1>6 DEF Tick, vars
<1> QED
  BY <1>2, <1>3, <1>4, <1>5, <1>6 DEF Next

\* The tasks that were blocked in an archive have the gate, and attempts only
\* if it is satisfied.
GatedInv ==
    \A a \in Applied : \A t \in Gated(a) :
        /\ gates[t][LegacyGate] # "none"
        /\ attempts[t] # <<>> => gates[t][LegacyGate] = "satisfied"

\* Imported or not, a task keeps that.
LEMMA GatedStep ==
    ASSUME StartedByClaims, ImportInv, ReportsInv, GatedInv, [ImportNext]_<<vars, importVars>>
    PROVE  GatedInv'
<1>0. TypeInv /\ UnbornUntouched /\ ArchivedIdsFresh
  BY DEF ImportInv, RelationInv
<1>1. \A a \in Archive : Gated(a) \subseteq Ids(a) /\ Ids(a) \subseteq Task
  BY PlaceOfId DEF Gated, Ids
<1>2. CASE [Next]_vars /\ UNCHANGED importVars
  <2>1. Applied' = Applied
    BY <1>2 DEF Applied, importVars
  <2> SUFFICES ASSUME NEW a \in Applied, NEW t \in Gated(a)
               PROVE  /\ gates'[t][LegacyGate] # "none"
                      /\ attempts'[t] # <<>> => gates'[t][LegacyGate] = "satisfied"
    BY <2>1 DEF GatedInv
  <2>2. t \in Task /\ GateStep(t)
    BY <1>0, <1>1, <1>2, NextGateStep DEF Applied
  <2>3. gates'[t][LegacyGate] \in {"none", "unmet", "satisfied"}
    BY <1>0, <1>2, <2>2, TypeStep, ImportAssumption DEF TypeInv, TypeOK
  <2> QED
    BY <2>2, <2>3, ImportAssumption DEF GateStep, GatedInv
<1>3. ASSUME NEW b \in Archive, ImportArchive(b) PROVE GatedInv'
  <2>1. /\ attempts' = attempts /\ gates' = GatesFor(b) /\ Ids(b) \cap provenance = {}
        /\ \A a \in Archive : a # b => reports'[a] = reports[a]
    BY <1>3 DEF ImportArchive, Importable, ReportsInv
  <2> SUFFICES ASSUME NEW a \in Archive, reports'[a] # NoReport, NEW t \in Gated(a)
               PROVE  /\ gates'[t][LegacyGate] # "none"
                      /\ attempts'[t] # <<>> => gates'[t][LegacyGate] = "satisfied"
    BY DEF GatedInv, Applied
  <2>2. t \in Ids(a) /\ t \in Task
    BY <1>1
  <2>3. gates[t] \in [Gate -> {"none", "unmet", "satisfied"}]
    BY <1>0, <2>2 DEF TypeInv, TypeOK
  <2>4. CASE t \in Gated(b)
    <3>1. gates'[t][LegacyGate] = "unmet"
      BY <2>1, <2>2, <2>3, <2>4, ImportAssumption DEF GatesFor
    <3>2. attempts'[t] = <<>>
      BY <1>0, <1>1, <2>1, <2>4 DEF ArchivedIdsFresh, UnbornUntouched
    <3> QED
      BY <3>1, <3>2
  <2>5. CASE t \notin Gated(b)
    <3>1. a # b /\ gates'[t] = gates[t]
      BY <2>1, <2>2, <2>5 DEF GatesFor
    <3> QED
      BY <2>1, <3>1 DEF GatedInv, Applied
  <2> QED
    BY <2>4, <2>5
<1> QED
  BY <1>2, <1>3 DEF ImportNext, Queueing, Importing

\* What was blocked in an archive is not run before its gate is approved,
\* whatever else is imported, added, related or deleted in between.
THEOREM BlockedAwaitApproval ==
    ASSUME StartedByClaims
    PROVE  ImportSpec => []BlockedStaysBlocked
<1> DEFINE Inv == ImportInv /\ ReportsInv /\ GatedInv
<1>1. ImportInit => Inv
  <2> SUFFICES ASSUME ImportInit PROVE Inv
    OBVIOUS
  <2>1. Applied = {}
    BY DEF ImportInit, Applied
  <2> QED
    BY <2>1, ImportInvInit, ReportsInit DEF GatedInv
<1>2. Inv /\ [ImportNext]_<<vars, importVars>> => Inv'
  BY ImportStep, ReportsStep, GatedStep
<1>3. Inv => BlockedStaysBlocked
  BY DEF GatedInv, BlockedStaysBlocked
<1> QED
  BY <1>1, <1>2, <1>3, PTL DEF ImportSpec

=============================================================================
