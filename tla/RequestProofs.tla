---------------------------- MODULE RequestProofs ----------------------------
(***************************************************************************)
(* Theorems about commands with a request id: a repeated request acts once *)
(* and tells everybody the same, its receipt is made out for what is in    *)
(* the tables, and no rule or repetition fails a task under its worker.    *)
(***************************************************************************)
EXTENDS Requests, SchedulingProofs

-----------------------------------------------------------------------------
(* Types                                                                    *)

RequestTypes ==
    /\ banned \subseteq Body
    /\ ledger \in [Key -> [order : Orders, task : Task] \cup {NoReceipt}]
    /\ client \in [Client -> [key : Key \cup {NoKey}, order : Orders \cup {NoOrder}]]
    /\ answers \in [Key -> SUBSET Task]
    /\ effects \in [Key -> Nat]
    /\ checking \in [Worker -> Task \cup {NoTask}]

\* A request that acts on the status of a present task, as its fence allows.
StatusSet(t, s) ==
    /\ t \in Present /\ s \in Status
    /\ ApplyStatusAndStage(t, s, FALSE)

\* An order is of one of two kinds.
LEMMA OrderKinds ==
    ASSUME NEW o \in Orders \cup {NoOrder}, o # NoOrder
    PROVE  /\ o \in Orders
           /\ o.kind = "add" => o \in AddOrder
           /\ o.kind = "set" => o \in SetOrder /\ o.task \in Task /\ o.status \in Status
                                /\ o.force \in BOOLEAN
BY RequestAssumption DEF AddOrder, SetOrder

\* A receipt is of its type, and so is what the client is told.
LEMMA ReceiptTypes ==
    ASSUME RequestTypes, NEW c \in Client, NEW t \in Task, NEW heard \in BOOLEAN,
           client[c].order # NoOrder, Receipt(c, client[c].key, client[c].order, t, heard)
    PROVE  RequestTypes'
<1> DEFINE k == client[c].key
           o == client[c].order
<1>1. o \in Orders /\ k \in Key \cup {NoKey}
  BY DEF RequestTypes
<1>2. Waiting \in [key : Key \cup {NoKey}, order : Orders \cup {NoOrder}]
  BY DEF Waiting
<1>3. client' \in [Client -> [key : Key \cup {NoKey}, order : Orders \cup {NoOrder}]]
  BY <1>2 DEF Receipt, RequestTypes
<1>4. UNCHANGED <<banned, checking>>
  BY DEF Receipt
<1>5. CASE k = NoKey
  BY <1>3, <1>4, <1>5 DEF Receipt, RequestTypes
<1>6. CASE k # NoKey
  <2>1. /\ ledger' = [ledger EXCEPT ![k] = [order |-> o, task |-> t]]
        /\ answers' = [answers EXCEPT ![k] = IF heard THEN @ \cup {t} ELSE @]
        /\ effects' = [effects EXCEPT ![k] = @ + 1]
    BY <1>6 DEF Receipt
  <2>2. k \in Key /\ [order |-> o, task |-> t] \in [order : Orders, task : Task]
    BY <1>1, <1>6
  <2>3. /\ ledger \in [Key -> [order : Orders, task : Task] \cup {NoReceipt}]
        /\ answers \in [Key -> SUBSET Task] /\ effects \in [Key -> Nat]
    BY DEF RequestTypes
  <2> HIDE DEF k, o
  <2>4. ledger' \in [Key -> [order : Orders, task : Task] \cup {NoReceipt}]
    <3> DEFINE receipt == [order |-> o, task |-> t]
               R == [order : Orders, task : Task] \cup {NoReceipt}
    <3>1. ledger \in [Key -> R] /\ receipt \in R /\ ledger' = [ledger EXCEPT ![k] = receipt]
      BY <2>1, <2>2, <2>3
    <3> HIDE DEF receipt, R
    <3>2. ledger' \in [Key -> R]
      BY <3>1
    <3> QED
      BY <3>2 DEF R
  <2>5. answers' \in [Key -> SUBSET Task]
    BY <2>1, <2>2, <2>3
  <2>6. effects' \in [Key -> Nat]
    BY <2>1, <2>2, <2>3
  <2> QED
    BY <1>3, <1>4, <2>4, <2>5, <2>6 DEF RequestTypes
<1> QED
  BY <1>5, <1>6

\* An add is an insertion, with an edge to a prerequisite that is there.
LEMMA AddOnceFacts ==
    ASSUME TypeInv, UnbornUntouched, RequestTypes, NEW c \in Client, NEW t \in Task, NEW heard,
           AddOnce(c, t, heard)
    PROVE  /\ TypeInv' /\ \A x \in Task : LifeStep(x)
           /\ RelationStep
<1> DEFINE u == client[c].order.behind
<1>1. /\ row[t].status = "unborn" /\ InsertTask(t, 0) /\ MayBlock(u)
      /\ relation' = IF u \in Present THEN [relation EXCEPT ![t][u] = "blocks"] ELSE relation
      /\ UNCHANGED <<attempts, gates, goalStatus, now, reaper>>
  BY DEF AddOnce
<1>2. NewRow(0, NextOrdinal) \in Row /\ NewRow(0, NextOrdinal).status = "todo"
  BY NextOrdinalType DEF NewRow, Row, Status
<1>3. row' \in [Task -> Row] /\ OrdinalsBounded'
  BY <1>1, <1>2, RowReplaced DEF InsertTask
<1>4. relation' \in [Task -> [Task -> RelationType \cup {"none"}]]
  BY <1>1 DEF TypeInv, TypeOK, RelationType, Present
<1>5. TypeInv'
  BY <1>1, <1>3, <1>4 DEF TypeInv, TypeOK
<1>6. \A x \in Task : LifeStep(x)
  BY <1>1, InsertLife
<1>7. CASE u \in Present
  <2>1. /\ u \in Task /\ row[u].status # "unborn" /\ u # t
        /\ relation' = [relation EXCEPT ![t][u] = "blocks"]
    BY <1>1, <1>7 DEF Present, Status
  <2>2. row'[t].status = "todo" /\ row'[u] = row[u]
    BY <1>1, <1>2, <2>1 DEF InsertTask, TypeInv, TypeOK
  <2>3. EdgeAdded
    BY <1>1, <2>1, <2>2, FreshEdge
  <2> QED
    BY <1>5, <1>6, <2>3 DEF RelationStep
<1>8. CASE u \notin Present
  BY <1>1, <1>5, <1>6, <1>8 DEF RelationStep
<1> QED
  BY <1>7, <1>8

\* Whatever a step does beside, to the queue it is one of its own steps, an add
\* of a request, or a status set by one.
QueueStep ==
    \/ [Next]_vars
    \/ \E c \in Client, t \in Task, heard \in BOOLEAN : AddOnce(c, t, heard)
    \/ \E t \in Task, s \in Status : StatusSet(t, s)

\* Every step is one.
LEMMA IsQueueStep ==
    ASSUME RequestTypes, [RequestsNext]_<<vars, requestVars>>
    PROVE  QueueStep
<1>1. ASSUME NEW c \in Client, NEW heard, SetOnce(c, heard) PROVE QueueStep
  <2> DEFINE o == client[c].order
  <2>1. o \in Orders \cup {NoOrder} /\ o # NoOrder /\ o.kind = "set"
    BY <1>1 DEF SetOnce, RequestTypes
  <2>2. o.task \in Task /\ o.status \in Status
    BY <2>1, OrderKinds
  <2>3. Unfenced(o.task, o.status, o.force)
    BY <1>1 DEF SetOnce
  <2>4. ApplyStatusAndStage(o.task, o.status, FALSE) \/ UNCHANGED vars
    BY <1>1 DEF SetOnce
  <2> QED
    BY <2>2, <2>3, <2>4 DEF QueueStep, StatusSet, Unfenced
<1>2. ASSUME NEW w \in Worker, AutoFail(w) PROVE QueueStep
  <2> DEFINE t == checking[w]
  <2>1. t \in Task
    BY <1>2 DEF AutoFail, RequestTypes
  <2>2. (Unfenced(t, "failed", FALSE) /\ ApplyStatusAndStage(t, "failed", FALSE)) \/ UNCHANGED vars
    BY <1>2 DEF AutoFail
  <2> QED
    BY <2>1, <2>2 DEF QueueStep, StatusSet, Unfenced, Status
<1>3. ASSUME NEW t \in Task, NEW w \in Worker, NEW ttl \in LeaseTimes,
             NEW approved \in SUBSET Gate, Take(t, w, ttl, approved)
      PROVE  QueueStep
  BY <1>3 DEF Take, QueueStep, Next, Working
<1>4. CASE Requesting
  BY <1>1, <1>4 DEF Requesting, Submit, Replay, EndsWithoutEffect, QueueStep
<1>5. CASE Validating
  BY <1>2, <1>3, <1>5 DEF Validating, EditRules, HandOut, QueueStep
<1> QED
  BY <1>4, <1>5 DEF RequestsNext, QueueStep

\* Steps of these kinds keep the types and relations of the queue.
LEMMA QueueStepFacts ==
    ASSUME RelationInv, RequestTypes, QueueStep
    PROVE  RelationInv' /\ \A x \in Task : LifeStep(x)
<1>0. TypeInv /\ UnbornUntouched
  BY DEF RelationInv
<1>1. CASE [Next]_vars
  BY <1>0, <1>1, RelationNext, NextLife
<1>2. ASSUME NEW c \in Client, NEW t \in Task, NEW heard, AddOnce(c, t, heard)
      PROVE  RelationInv' /\ \A x \in Task : LifeStep(x)
  BY <1>0, <1>2, AddOnceFacts, RelationInvStep
<1>3. ASSUME NEW t \in Task, NEW s \in Status, StatusSet(t, s)
      PROVE  RelationInv' /\ \A x \in Task : LifeStep(x)
  <2>1. TypeInv' /\ \A x \in Task : LifeStep(x)
    BY <1>0, <1>3, ApplyStatusType, ApplyStatusLife DEF StatusSet
  <2>2. relation' = relation
    BY <1>3 DEF StatusSet, ApplyStatusAndStage, UpdateTask
  <2> QED
    BY <2>1, <2>2, RelationInvStep DEF RelationStep
<1> QED
  BY <1>1, <1>2, <1>3 DEF QueueStep

\* Every step keeps the types of the tables beside the queue.
LEMMA RequestTypesStep ==
    ASSUME RequestTypes, [RequestsNext]_<<vars, requestVars>>
    PROVE  RequestTypes'
<1>1. ASSUME NEW c \in Client, NEW k \in Key \cup {NoKey}, NEW o \in Orders, Submit(c, k, o)
      PROVE  RequestTypes'
  BY <1>1 DEF Submit, RequestTypes
<1>2. ASSUME NEW c \in Client, NEW t \in Task, NEW heard \in BOOLEAN, AddOnce(c, t, heard)
      PROVE  RequestTypes'
  BY <1>2, ReceiptTypes DEF AddOnce
<1>3. ASSUME NEW c \in Client, NEW heard \in BOOLEAN, SetOnce(c, heard) PROVE RequestTypes'
  <2>1. client[c].order \in Orders \cup {NoOrder}
    BY DEF RequestTypes
  <2>2. client[c].order.task \in Task
    BY <1>3, <2>1, OrderKinds DEF SetOnce
  <2> QED
    BY <1>3, <2>2, ReceiptTypes DEF SetOnce
<1>4. Waiting \in [key : Key \cup {NoKey}, order : Orders \cup {NoOrder}]
  BY DEF Waiting
<1>5. ASSUME NEW c \in Client, NEW heard \in BOOLEAN, Replay(c, heard) PROVE RequestTypes'
  <2> DEFINE k == client[c].key
  <2>1. k \in Key /\ ledger[k] # NoReceipt
    BY <1>5 DEF Replay, RequestTypes
  <2>2. ledger[k].task \in Task
    BY <2>1 DEF RequestTypes
  <2>3. answers' \in [Key -> SUBSET Task]
    BY <1>5, <2>2 DEF Replay, RequestTypes
  <2>4. client' \in [Client -> [key : Key \cup {NoKey}, order : Orders \cup {NoOrder}]]
    BY <1>4, <1>5 DEF Replay, RequestTypes
  <2> QED
    BY <1>5, <2>3, <2>4 DEF Replay, RequestTypes
<1>6. ASSUME NEW c \in Client, EndsWithoutEffect(c) PROVE RequestTypes'
  BY <1>4, <1>6 DEF EndsWithoutEffect, RequestTypes
<1>7. ASSUME NEW b \in Body, EditRules(b) PROVE RequestTypes'
  BY <1>7 DEF EditRules, RequestTypes
<1>8. ASSUME NEW w \in Worker, NEW to \in Task \cup {NoTask},
             checking' = [checking EXCEPT ![w] = to],
             UNCHANGED <<banned, ledger, client, answers, effects>>
      PROVE  RequestTypes'
  BY <1>8 DEF RequestTypes
<1>9. CASE Requesting
  BY <1>1, <1>2, <1>3, <1>5, <1>6, <1>9 DEF Requesting
<1>10. CASE Validating
  BY <1>7, <1>8, <1>10 DEF Validating, Take, HandOut, AutoFail
<1>11. CASE UNCHANGED requestVars
  BY <1>11 DEF requestVars, RequestTypes
<1> QED
  BY <1>9, <1>10, <1>11 DEF RequestsNext

\* The types of the queue and of the tables beside it, and the relations.
RequestInv == RelationInv /\ RequestTypes

\* They hold in the beginning.
LEMMA RequestInvInit == RequestsInit => RequestInv
<1> SUFFICES ASSUME RequestsInit PROVE RequestInv
  OBVIOUS
<1>1. RelationInv
  BY RelationInit DEF RequestsInit
<1>2. RequestTypes
  BY DEF RequestsInit, RequestTypes, Waiting
<1> QED
  BY <1>1, <1>2 DEF RequestInv

\* And every step keeps them.
LEMMA RequestInvStep == RequestInv /\ [RequestsNext]_<<vars, requestVars>> => RequestInv'
<1> SUFFICES ASSUME RequestInv, [RequestsNext]_<<vars, requestVars>> PROVE RequestInv'
  OBVIOUS
<1> QED
  BY IsQueueStep, QueueStepFacts, RequestTypesStep DEF RequestInv

\* Type correctness of the queue with requests.
THEOREM RequestTypeCorrect == RequestsSpec => []RequestsTypeOK
<1>1. RequestInv => RequestsTypeOK
  BY DEF RequestInv, RelationInv, TypeInv, RequestTypes, RequestsTypeOK
<1> QED
  BY <1>1, RequestInvInit, RequestInvStep, PTL DEF RequestsSpec

-----------------------------------------------------------------------------
(* Exactly once                                                             *)

\* A receipt is made out under a key that had none.
Made(k, o, t, heard) ==
    /\ ledger[k] = NoReceipt
    /\ ledger' = [ledger EXCEPT ![k] = [order |-> o, task |-> t]]
    /\ answers' = [answers EXCEPT ![k] = IF heard THEN @ \cup {t} ELSE @]
    /\ effects' = [effects EXCEPT ![k] = @ + 1]

\* A client is told what the receipt of its key says.
Told(k) ==
    /\ ledger[k] # NoReceipt
    /\ answers' = [answers EXCEPT ![k] = @ \cup {ledger[k].task}]
    /\ UNCHANGED <<ledger, effects>>

\* All that a step does to the receipts and answers.
ReceiptStep ==
    \/ UNCHANGED <<ledger, answers, effects>>
    \/ \E k \in Key, o \in Orders, t \in Task, heard \in BOOLEAN : Made(k, o, t, heard)
    \/ \E k \in Key : Told(k)

\* The transaction of an effect makes out the receipt.
LEMMA ReceiptMade ==
    ASSUME RequestTypes, NEW c \in Client, NEW t \in Task, NEW heard \in BOOLEAN,
           client[c].order # NoOrder, Fresh(client[c].key, client[c].order),
           Receipt(c, client[c].key, client[c].order, t, heard)
    PROVE  \/ UNCHANGED <<ledger, answers, effects>>
           \/ client[c].key \in Key /\ Made(client[c].key, client[c].order, t, heard)
BY DEF Receipt, Fresh, Made, RequestTypes

\* A replay tells what the receipt says, or is not heard.
LEMMA ReplayTells ==
    ASSUME RequestTypes, NEW c \in Client, NEW heard \in BOOLEAN, Replay(c, heard)
    PROVE  ReceiptStep
<1> DEFINE k == client[c].key
<1>1. k \in Key /\ ledger[k] # NoReceipt /\ UNCHANGED <<ledger, effects>>
  BY DEF Replay, RequestTypes
<1>2. CASE heard
  <2>1. answers' = [answers EXCEPT ![k] = @ \cup {ledger[k].task}]
    BY <1>2 DEF Replay
  <2> QED
    BY <1>1, <2>1 DEF Told, ReceiptStep
<1>3. CASE ~heard
  <2>1. answers' = [answers EXCEPT ![k] = @]
    BY <1>3 DEF Replay
  <2>2. answers' = answers
    BY <2>1 DEF RequestTypes
  <2> QED
    BY <1>1, <2>2 DEF ReceiptStep
<1> QED
  BY <1>2, <1>3

\* No step does anything else to them.
LEMMA ReceiptSteps ==
    ASSUME RequestTypes, [RequestsNext]_<<vars, requestVars>>
    PROVE  ReceiptStep
<1>1. ASSUME NEW c \in Client, NEW t \in Task, NEW heard \in BOOLEAN, AddOnce(c, t, heard)
      PROVE  ReceiptStep
  <2>1. client[c].order \in Orders
    BY <1>1 DEF AddOnce, RequestTypes
  <2> QED
    BY <1>1, <2>1, ReceiptMade DEF AddOnce, ReceiptStep
<1>2. ASSUME NEW c \in Client, NEW heard \in BOOLEAN, SetOnce(c, heard) PROVE ReceiptStep
  <2>1. client[c].order \in Orders
    BY <1>2 DEF SetOnce, RequestTypes
  <2>2. client[c].order.task \in Task
    BY <1>2, <2>1, OrderKinds DEF SetOnce
  <2> QED
    BY <1>2, <2>1, <2>2, ReceiptMade DEF SetOnce, ReceiptStep
<1>3. CASE Requesting
  BY <1>1, <1>2, <1>3, ReplayTells DEF Requesting, Submit, EndsWithoutEffect, ReceiptStep
<1>4. CASE Validating
  BY <1>4 DEF Validating, EditRules, Take, HandOut, AutoFail, ReceiptStep
<1>5. CASE UNCHANGED requestVars
  BY <1>5 DEF requestVars, ReceiptStep
<1> QED
  BY <1>3, <1>4, <1>5 DEF RequestsNext

\* Nobody has been told anything before there is a receipt, and afterwards
\* nothing but what it says.
AnswersMatch ==
    \A k \in Key :
        IF ledger[k] = NoReceipt THEN answers[k] = {} /\ effects[k] = 0
        ELSE answers[k] \subseteq {ledger[k].task}

\* What has been decided under each key.
Decided == [k \in Key |-> IF ledger[k] = NoReceipt THEN {} ELSE {ledger[k].task}]

\* A receipt decides the outcome of its key, and tells it to whoever heard.
LEMMA MadeDecides ==
    ASSUME RequestTypes, AnswersMatch, NEW k \in Key, NEW o \in Orders, NEW t \in Task,
           NEW heard \in BOOLEAN, Made(k, o, t, heard)
    PROVE  AnswersMatch' /\ Outcome!Decide(k, t, heard)
<1> DEFINE receipt == [order |-> o, task |-> t]
<1>1. /\ receipt # NoReceipt /\ receipt.task = t
      /\ ledger' = [ledger EXCEPT ![k] = receipt] /\ ledger[k] = NoReceipt
      /\ answers[k] = {} /\ effects[k] = 0
  BY RequestAssumption DEF Made, AnswersMatch
<1>2. /\ ledger = [l \in Key |-> ledger[l]] /\ answers = [l \in Key |-> answers[l]]
      /\ effects = [l \in Key |-> effects[l]]
  BY DEF RequestTypes
<1> HIDE DEF receipt
<1>3. answers' = [answers EXCEPT ![k] = IF heard THEN {t} ELSE {}]
  BY <1>1, <1>2 DEF Made
<1>4. effects' = [effects EXCEPT ![k] = 1]
  BY <1>1, <1>2 DEF Made
<1>5. Decided' = [Decided EXCEPT ![k] = {t}]
  BY <1>1, <1>2 DEF Decided
<1>6. Decided[k] = {}
  BY <1>1 DEF Decided
<1>7. AnswersMatch'
  BY <1>1, <1>2, <1>3, <1>4 DEF AnswersMatch
<1> QED
  BY <1>1, <1>3, <1>4, <1>5, <1>6, <1>7 DEF Outcome!Decide, Decided

\* Who is told what a receipt says is told the outcome.
LEMMA ToldOutcome ==
    ASSUME RequestTypes, AnswersMatch, NEW k \in Key, Told(k)
    PROVE  AnswersMatch' /\ Outcome!Tell(k)
<1>1. /\ ledger[k] # NoReceipt /\ answers[k] \subseteq {ledger[k].task}
      /\ answers' = [answers EXCEPT ![k] = answers[k] \cup {ledger[k].task}]
      /\ UNCHANGED <<ledger, effects>>
  BY DEF Told, AnswersMatch
<1>2. answers' = [answers EXCEPT ![k] = {ledger[k].task}]
  <2>1. answers[k] \cup {ledger[k].task} = {ledger[k].task}
    BY <1>1
  <2> QED
    BY <1>1, <2>1
<1>3. answers = [l \in Key |-> answers[l]]
  BY DEF RequestTypes
<1>4. AnswersMatch'
  BY <1>1, <1>2, <1>3 DEF AnswersMatch
<1>5. Decided[k] = {ledger[k].task} /\ Decided' = Decided
  BY <1>1 DEF Decided
<1> QED
  BY <1>1, <1>2, <1>4, <1>5 DEF Outcome!Tell, Decided

\* A repeated request acts once, and all who get an answer get the same.
THEOREM RequestsActOnce == RequestsSpec => RequestedOnce
<1> DEFINE Inv == RequestInv /\ AnswersMatch
<1>1. RequestsInit => Inv /\ Outcome!Init
  <2> SUFFICES ASSUME RequestsInit PROVE Inv /\ Outcome!Init
    OBVIOUS
  <2>1. Decided = [k \in Key |-> {}] /\ AnswersMatch
    BY DEF RequestsInit, Decided, AnswersMatch
  <2> QED
    BY <2>1, RequestInvInit DEF RequestsInit, Outcome!Init, Decided
<1>2. Inv /\ [RequestsNext]_<<vars, requestVars>>
      => Inv' /\ [Outcome!Next]_<<Decided, answers, effects>>
  <2> SUFFICES ASSUME Inv, [RequestsNext]_<<vars, requestVars>>
               PROVE  Inv' /\ [Outcome!Next]_<<Decided, answers, effects>>
    OBVIOUS
  <2>1. ReceiptStep /\ RequestInv'
    BY ReceiptSteps, RequestInvStep DEF RequestInv
  <2>2. CASE UNCHANGED <<ledger, answers, effects>>
    BY <2>1, <2>2 DEF AnswersMatch, Decided
  <2>3. ASSUME NEW k \in Key, NEW o \in Orders, NEW t \in Task, NEW heard \in BOOLEAN,
               Made(k, o, t, heard)
        PROVE  AnswersMatch' /\ Outcome!Next
    BY <2>3, MadeDecides DEF RequestInv, Outcome!Next
  <2>4. ASSUME NEW k \in Key, Told(k) PROVE AnswersMatch' /\ Outcome!Next
    BY <2>4, ToldOutcome DEF RequestInv, Outcome!Next
  <2> QED
    BY <2>1, <2>2, <2>3, <2>4 DEF ReceiptStep
<1> QED
  BY <1>1, <1>2, PTL DEF RequestsSpec, RequestedOnce, Outcome!Spec, Decided

-----------------------------------------------------------------------------
(* Receipts                                                                 *)

\* Nobody rewrites the relations of the instance by hand.
EdgesStay == "relate" \notin Commands

\* A row keeps the relations it was added with, and a new one waits for what the
\* step that adds it says.
LEMMA NextEdges ==
    ASSUME EdgesStay, TypeInv, [Next]_vars, NEW x \in Task, row[x].status # "unborn", NEW u \in Task
    PROVE  relation'[x][u] = relation[x][u]
<1>1. CASE Adding
  <2>1. ASSUME NEW t \in Task, NEW v \in Task, NEW a, AddBlockedBy(t, v, a)
        PROVE  relation'[x][u] = relation[x][u]
    BY <2>1 DEF AddBlockedBy, TypeInv, TypeOK
  <2>2. ASSUME NEW g \in Group, NEW chain \in GoalChains(g), CreateGoal(g, chain)
        PROVE  relation'[x][u] = relation[x][u]
    <3> DEFINE Member(t) == \E i \in DOMAIN chain : chain[i] = t
    <3>1. ~Member(x)
      BY <2>2, ChainRelation
    <3> QED
      BY <2>2, <3>1 DEF CreateGoal
  <2> QED
    BY <1>1, <2>1, <2>2 DEF Adding, Add
<1>2. CASE Working
  BY <1>2 DEF Working, ClaimNext, ClaimTask, Heartbeat, SetByWorker, ApplyStatusAndStage,
              UpdateTask
<1>3. CASE Operating
  BY <1>3 DEF Operating, Arranging, SetUnfenced, SetForced, AuditDisapproves, RetryManual,
              RetryDeferred, ApplyStatusAndStage, UpdateTask, Delete, PruneStatus, AddRelation,
              AddGate, SatisfyGate, EdgesStay
<1>4. CASE Reaping
  BY <1>4 DEF Reaping, ReaperStep, ReaperScan, ReaperRequeue, ReaperSkip, ReaperFail, ReaperKill
<1>5. CASE Tick \/ UNCHANGED vars
  BY <1>5 DEF Tick, vars
<1> QED
  BY <1>1, <1>2, <1>3, <1>4, <1>5 DEF Next

\* The same of every step on the queue.
LEMMA StepEdges ==
    ASSUME EdgesStay, TypeInv, QueueStep, NEW x \in Task, row[x].status # "unborn", NEW u \in Task
    PROVE  relation'[x][u] = relation[x][u]
<1>1. ASSUME NEW c \in Client, NEW t \in Task, NEW heard \in BOOLEAN, AddOnce(c, t, heard)
      PROVE  relation'[x][u] = relation[x][u]
  BY <1>1 DEF AddOnce, TypeInv, TypeOK
<1>2. ASSUME NEW t \in Task, NEW s \in Status, StatusSet(t, s)
      PROVE  relation'[x][u] = relation[x][u]
  BY <1>2 DEF StatusSet, ApplyStatusAndStage, UpdateTask
<1> QED
  BY <1>1, <1>2, NextEdges DEF QueueStep

\* The receipt of an add holds: its task is, or was, in the table, with the body
\* and the prerequisite that were ordered.
AddReceipt(receipt) ==
    LET t == receipt.task
        u == receipt.order.behind
    IN  /\ BodyOf[t] = receipt.order.body
        /\ row[t].status # "unborn"
        /\ u # NoTask => relation[t][u] = "blocks"

IsAdd(receipt) == receipt # NoReceipt /\ receipt.order.kind = "add"

ReceiptsInv ==
    /\ \A k \in Key : IsAdd(ledger[k]) => AddReceipt(ledger[k])
    /\ \A k, l \in Key :
          k # l /\ IsAdd(ledger[k]) /\ IsAdd(ledger[l]) => ledger[k].task # ledger[l].task

\* What holds of a receipt that is kept goes on to hold.
LEMMA AddReceiptKept ==
    ASSUME EdgesStay, RelationInv, RequestTypes, QueueStep, NEW k \in Key, IsAdd(ledger[k]),
           AddReceipt(ledger[k]), ledger'[k] = ledger[k]
    PROVE  AddReceipt(ledger[k])'
<1> DEFINE t == ledger[k].task
           u == ledger[k].order.behind
<1>1. t \in Task /\ ledger[k].order \in AddOrder
  BY OrderKinds, RequestAssumption DEF RequestTypes, IsAdd
<1>2. row'[t].status # "unborn"
  <2>1. LifeStep(t) /\ row[t].status \in Status \cup Absent
    BY <1>1, QueueStepFacts DEF RelationInv, TypeInv, TypeOK, Row
  <2> QED
    BY <2>1 DEF LifeStep, AddReceipt, Absent, Status
<1>3. u # NoTask => relation'[t][u] = relation[t][u]
  BY <1>1, StepEdges DEF AddReceipt, AddOrder, RelationInv
<1> QED
  BY <1>2, <1>3 DEF AddReceipt

\* The receipt that an add makes out holds, and no other is for its task.
LEMMA AddReceiptMade ==
    ASSUME RelationInv, RequestTypes, NEW c \in Client, NEW t \in Task, NEW heard \in BOOLEAN,
           AddOnce(c, t, heard), NEW k \in Key,
           ledger'[k] = [order |-> client[c].order, task |-> t]
    PROVE  AddReceipt(ledger[k])' /\ row[t].status = "unborn"
<1> DEFINE o == client[c].order
<1>1. /\ row[t].status = "unborn" /\ BodyOf[t] = o.body /\ MayBlock(o.behind)
      /\ InsertTask(t, 0)
      /\ relation' = IF o.behind \in Present THEN [relation EXCEPT ![t][o.behind] = "blocks"]
                     ELSE relation
  BY DEF AddOnce
<1>2. row'[t].status = "todo"
  BY <1>1 DEF InsertTask, NewRow, RelationInv, TypeInv, TypeOK
<1>3. o.behind # NoTask => relation'[t][o.behind] = "blocks"
  BY <1>1 DEF MayBlock, Present, RelationInv, TypeInv, TypeOK
<1> QED
  BY <1>1, <1>2, <1>3 DEF AddReceipt

\* A receipt is made out by an add for its task, or by a status change.
ReceiptOrigin ==
    \/ ledger' = ledger
    \/ \E c \in Client, t \in Task, heard \in BOOLEAN, k \in Key :
          /\ AddOnce(c, t, heard)
          /\ ledger' = [ledger EXCEPT ![k] = [order |-> client[c].order, task |-> t]]
    \/ \E k \in Key, receipt \in [order : Orders, task : Task] :
          /\ receipt.order.kind = "set"
          /\ ledger' = [ledger EXCEPT ![k] = receipt]

\* Where the receipt goes that a transaction makes out.
LEMMA ReceiptWritten ==
    ASSUME RequestTypes, NEW c \in Client, NEW t \in Task, NEW heard \in BOOLEAN,
           client[c].order # NoOrder, Fresh(client[c].key, client[c].order),
           Receipt(c, client[c].key, client[c].order, t, heard)
    PROVE  \/ ledger' = ledger
           \/ \E k \in Key : ledger' = [ledger EXCEPT ![k] = [order |-> client[c].order, task |-> t]]
<1> DEFINE k == client[c].key
           receipt == [order |-> client[c].order, task |-> t]
<1>1. \/ UNCHANGED <<ledger, answers, effects>>
      \/ k \in Key /\ Made(k, client[c].order, t, heard)
  BY ReceiptMade
<1>2. ledger' = ledger \/ (k \in Key /\ ledger' = [ledger EXCEPT ![k] = receipt])
  BY <1>1 DEF Made
<1> HIDE DEF k, receipt
<1>3. ledger' = ledger \/ \E l \in Key : ledger' = [ledger EXCEPT ![l] = receipt]
  BY <1>2
<1> QED
  BY <1>3 DEF receipt

\* No step makes out a receipt otherwise.
LEMMA ReceiptOrigins ==
    ASSUME RequestTypes, [RequestsNext]_<<vars, requestVars>>
    PROVE  ReceiptOrigin
<1>1. ASSUME NEW c \in Client, NEW t \in Task, NEW heard \in BOOLEAN, AddOnce(c, t, heard)
      PROVE  ReceiptOrigin
  <2>1. \/ ledger' = ledger
        \/ \E k \in Key : ledger' = [ledger EXCEPT ![k] = [order |-> client[c].order, task |-> t]]
    <3>1. /\ client[c].order # NoOrder /\ Fresh(client[c].key, client[c].order)
          /\ Receipt(c, client[c].key, client[c].order, t, heard)
      BY <1>1 DEF AddOnce
    <3> QED
      BY <3>1, ReceiptWritten
  <2> QED
    BY <1>1, <2>1 DEF ReceiptOrigin
<1>2. ASSUME NEW c \in Client, NEW heard \in BOOLEAN, SetOnce(c, heard) PROVE ReceiptOrigin
  <2> DEFINE o == client[c].order
             receipt == [order |-> o, task |-> o.task]
  <2>1. /\ o # NoOrder /\ o.kind = "set" /\ o \in Orders
        /\ Fresh(client[c].key, o) /\ Receipt(c, client[c].key, o, o.task, heard)
    BY <1>2 DEF SetOnce, RequestTypes
  <2>2. o.task \in Task
    BY <2>1, OrderKinds
  <2>3. ledger' = ledger \/ \E k \in Key : ledger' = [ledger EXCEPT ![k] = receipt]
    BY <2>1, <2>2, ReceiptWritten
  <2>4. receipt \in [order : Orders, task : Task] /\ receipt.order.kind = "set"
    BY <2>1, <2>2
  <2> HIDE DEF receipt
  <2> QED
    BY <2>3, <2>4 DEF ReceiptOrigin
<1>3. CASE Requesting
  BY <1>1, <1>2, <1>3 DEF Requesting, Submit, Replay, EndsWithoutEffect, ReceiptOrigin
<1>4. CASE Validating
  BY <1>4 DEF Validating, EditRules, Take, HandOut, AutoFail, ReceiptOrigin
<1>5. CASE UNCHANGED requestVars
  BY <1>5 DEF requestVars, ReceiptOrigin
<1> QED
  BY <1>3, <1>4, <1>5 DEF RequestsNext

\* Every step keeps what the receipts of adds say.
LEMMA ReceiptsStep ==
    ASSUME EdgesStay, RequestInv, ReceiptsInv, [RequestsNext]_<<vars, requestVars>>
    PROVE  ReceiptsInv'
<1>0. RelationInv /\ RequestTypes /\ QueueStep
  BY IsQueueStep DEF RequestInv
<1>1. \A k \in Key : IsAdd(ledger[k]) /\ ledger'[k] = ledger[k] => AddReceipt(ledger[k])'
  BY <1>0, AddReceiptKept DEF ReceiptsInv
<1>2. ledger = [k \in Key |-> ledger[k]]
  BY <1>0 DEF RequestTypes
<1>3. CASE ledger' = ledger
  BY <1>1, <1>3 DEF ReceiptsInv, IsAdd
<1>4. ASSUME NEW c \in Client, NEW t \in Task, NEW heard \in BOOLEAN, NEW k \in Key,
             AddOnce(c, t, heard),
             ledger' = [ledger EXCEPT ![k] = [order |-> client[c].order, task |-> t]]
      PROVE  ReceiptsInv'
  <2> DEFINE receipt == [order |-> client[c].order, task |-> t]
  <2>1. ledger'[k] = receipt /\ \A l \in Key \ {k} : ledger'[l] = ledger[l]
    BY <1>2, <1>4
  <2>2. AddReceipt(ledger[k])' /\ row[t].status = "unborn" /\ receipt.task = t
    BY <1>0, <1>4, <2>1, AddReceiptMade
  <2> HIDE DEF receipt
  <2>3. \A l \in Key \ {k} : IsAdd(ledger[l]) => ledger[l].task # t
    BY <2>2 DEF ReceiptsInv, AddReceipt
  <2>4. \A l \in Key \ {k} : IsAdd(ledger[l])' => IsAdd(ledger[l]) /\ AddReceipt(ledger[l])'
    BY <1>1, <2>1 DEF IsAdd
  <2> QED
    BY <2>1, <2>2, <2>3, <2>4 DEF ReceiptsInv
<1>5. ASSUME NEW k \in Key, NEW receipt \in [order : Orders, task : Task],
             receipt.order.kind = "set", ledger' = [ledger EXCEPT ![k] = receipt]
      PROVE  ReceiptsInv'
  <2>1. ledger'[k] = receipt /\ \A l \in Key \ {k} : ledger'[l] = ledger[l]
    BY <1>2, <1>5
  <2>2. ~IsAdd(ledger[k])'
    BY <1>5, <2>1 DEF IsAdd
  <2>3. \A l \in Key \ {k} : IsAdd(ledger[l])' => IsAdd(ledger[l]) /\ AddReceipt(ledger[l])'
    BY <1>1, <2>1 DEF IsAdd
  <2> QED
    BY <2>1, <2>2, <2>3 DEF ReceiptsInv
<1> QED
  BY <1>0, <1>3, <1>4, <1>5, ReceiptOrigins DEF ReceiptOrigin

\* An add is there as a whole or not at all, and no two receipts are for it.
THEOREM ReceiptsAreTrue ==
    ASSUME EdgesStay
    PROVE  RequestsSpec => []ReceiptsHold
<1>1. RequestsInit => ReceiptsInv
  BY DEF RequestsInit, ReceiptsInv, IsAdd
<1>2. RequestInv /\ ReceiptsInv /\ [RequestsNext]_<<vars, requestVars>> => ReceiptsInv'
  BY ReceiptsStep
<1>3. ReceiptsInv => ReceiptsHold
  BY DEF ReceiptsInv, ReceiptsHold, AddReceipt, IsAdd
<1> QED
  BY <1>1, <1>2, <1>3, RequestInvInit, RequestInvStep, PTL DEF RequestsSpec

-----------------------------------------------------------------------------
(* Failures                                                                 *)

\* Workers report no failures, and nobody forces one.
NoneFails ==
    /\ "failed" \notin WorkerSets /\ "force" \notin Commands
    /\ \A o \in Orders : o.kind = "set" /\ o.status = "failed" => ~o.force

\* A task that a worker holds is not failed in a step.
StaysUnfailed(x) ==
    row[x].status = "doing" /\ Owner(x) # NoWorker => row'[x].status # "failed"

\* A status change that leaves the failing of held tasks alone.
LEMMA ApplyUnfailed ==
    ASSUME TypeInv, NEW t \in Task, NEW s \in Status, NEW staged,
           ApplyStatusAndStage(t, s, staged),
           s = "failed" => row[t].status # "doing" \/ Owner(t) = NoWorker, NEW x \in Task
    PROVE  StaysUnfailed(x)
<1> DEFINE r == SetStatus(row[t], s, now)
<1>1. row[t] \in Row /\ now \in Nat \ {0}
  BY DEF TypeInv, TypeOK
<1>2. r.status = s
  BY <1>1, SetStatusFields
<1>3. row' = [row EXCEPT ![t] = r]
  BY DEF ApplyStatusAndStage, UpdateTask
<1> HIDE DEF r
<1>4. row'[x] = IF x = t THEN r ELSE row[x]
  BY <1>3 DEF TypeInv, TypeOK
<1> QED
  BY <1>2, <1>4 DEF StaysUnfailed

\* The queue itself fails no task that is held.
LEMMA NextUnfailed ==
    ASSUME NoneFails, TypeInv, [Next]_vars, NEW x \in Task
    PROVE  StaysUnfailed(x)
<1>0. /\ row = [t \in Task |-> row[t]] /\ now \in Nat \ {0} /\ \A t \in Task : row[t] \in Row
  BY DEF TypeInv, TypeOK
<1>1. ASSUME row'[x].status # "failed" \/ row'[x] = row[x] PROVE StaysUnfailed(x)
  BY <1>1 DEF StaysUnfailed
<1>2. ASSUME NEW t \in Task, NEW r, row' = [row EXCEPT ![t] = r], r.status # "failed"
      PROVE  StaysUnfailed(x)
  BY <1>0, <1>1, <1>2
<1>3. CASE Adding
  <2>1. ASSUME NEW t \in Task, NEW a, InsertTask(t, a) PROVE StaysUnfailed(x)
    <3> DEFINE r == NewRow(a, NextOrdinal)
    <3>1. r.status # "failed" /\ row' = [row EXCEPT ![t] = r]
      BY <2>1 DEF InsertTask, NewRow
    <3> HIDE DEF r
    <3> QED
      BY <1>2, <3>1
  <2>2. ASSUME NEW g \in Group, NEW chain \in GoalChains(g), CreateGoal(g, chain)
        PROVE  StaysUnfailed(x)
    BY <1>1, <2>2 DEF CreateGoal, NewRow
  <2> QED
    BY <1>3, <2>1, <2>2 DEF Adding, Add, AddBlockedBy
<1>4. CASE Working
  <2>1. ASSUME NEW t \in Task, NEW w, NEW ttl, Claim(t, w, ttl) PROVE StaysUnfailed(x)
    <3>1. x = t => row'[x].status = "doing"
      BY <1>0, <2>1 DEF Claim, Row
    <3>2. x # t => row'[x] = row[x]
      BY <1>0, <2>1 DEF Claim
    <3> QED
      BY <1>1, <3>1, <3>2
  <2>2. ASSUME NEW t \in Task, NEW w, NEW ttl, Heartbeat(t, w, ttl) PROVE StaysUnfailed(x)
    BY <1>0, <2>2 DEF Heartbeat, StaysUnfailed, Row
  <2>3. ASSUME NEW t \in Task, NEW s \in Status, NEW staged, NEW w, SetByWorker(t, s, staged, w)
        PROVE  StaysUnfailed(x)
    BY <2>3, ApplyUnfailed DEF SetByWorker, NoneFails
  <2> QED
    BY <1>1, <1>4, <2>1, <2>2, <2>3 DEF Working, ClaimNext, ClaimTask
<1>5. CASE Operating
  <2>1. ASSUME NEW t \in Task, NEW s \in Status, NEW staged, SetUnfenced(t, s, staged)
        PROVE  StaysUnfailed(x)
    BY <2>1, ApplyUnfailed DEF SetUnfenced, Terminal
  <2>2. ASSUME NEW t \in Task, AuditDisapproves(t) PROVE StaysUnfailed(x)
    BY <2>2, ApplyUnfailed DEF AuditDisapproves, Status
  <2>3. ASSUME NEW t \in Task, NEW s \in {"todo", "doing"}, NEW a, NEW event,
               UpdateTask(t, [SetStatus(row[t], s, now) EXCEPT !.avail = a], event)
        PROVE  StaysUnfailed(x)
    <3> DEFINE set == SetStatus(row[t], s, now)
               r == [set EXCEPT !.avail = a]
    <3>1. row' = [row EXCEPT ![t] = r]
      BY <2>3 DEF UpdateTask
    <3>2. s \in Status
      BY DEF Status
    <3>3. set \in Row /\ set.status = s
      BY <1>0, <3>2, SetStatusType
    <3> HIDE DEF set
    <3>4. r.status # "failed"
      BY <3>3 DEF Row
    <3> HIDE DEF r
    <3> QED
      BY <1>2, <3>1, <3>4
  <2>4. CASE Arranging
    <3>1. ASSUME NEW t \in Task, Delete(t) PROVE StaysUnfailed(x)
      <4> DEFINE r == AbsentRow("removed", row[t].ordinal)
      <4>1. r.status # "failed" /\ row' = [row EXCEPT ![t] = r]
        BY <1>0, <3>1 DEF Delete, AbsentRow
      <4> HIDE DEF r
      <4> QED
        BY <1>2, <4>1
    <3>2. ASSUME NEW s \in Status, PruneStatus(s) PROVE StaysUnfailed(x)
      BY <1>1, <3>2 DEF PruneStatus, AbsentRow
    <3> QED
      BY <1>1, <2>4, <3>1, <3>2 DEF Arranging, AddRelation, AddGate, SatisfyGate
  <2> QED
    BY <1>5, <2>1, <2>2, <2>3, <2>4
       DEF Operating, SetForced, RetryManual, RetryDeferred, NoneFails
<1>6. CASE Reaping
  <2>1. ASSUME NEW r \in Reaper, NEW t \in Task, ReaperRequeue(r, t) PROVE StaysUnfailed(x)
    <3>1. Reset(row[t]).status # "failed" /\ row' = [row EXCEPT ![t] = Reset(row[t])]
      BY <1>0, <2>1 DEF ReaperRequeue, Reset, Row
    <3> QED
      BY <1>2, <3>1
  <2> QED
    BY <1>1, <1>6, <2>1
       DEF Reaping, ReaperStep, ReaperScan, ReaperSkip, ReaperFail, ReaperKill
<1>7. CASE Tick \/ UNCHANGED vars
  BY <1>1, <1>7 DEF Tick, vars
<1> QED
  BY <1>3, <1>4, <1>5, <1>6, <1>7 DEF Next

\* Nor does a request, or the validation of a claim.
LEMMA RequestUnfailed ==
    ASSUME NoneFails, TypeInv, RequestTypes, [RequestsNext]_<<vars, requestVars>>, NEW x \in Task
    PROVE  StaysUnfailed(x)
<1>1. ASSUME UNCHANGED vars PROVE StaysUnfailed(x)
  BY <1>1, NextUnfailed
<1>2. ASSUME NEW t \in Task, NEW s \in Status, NEW force, Unfenced(t, s, force),
             s = "failed" => ~force, ApplyStatusAndStage(t, s, FALSE)
      PROVE  StaysUnfailed(x)
  BY <1>2, ApplyUnfailed DEF Unfenced, Terminal
<1>3. ASSUME NEW c \in Client, NEW t \in Task, NEW heard, AddOnce(c, t, heard)
      PROVE  StaysUnfailed(x)
  BY <1>3 DEF AddOnce, InsertTask, NewRow, StaysUnfailed, TypeInv, TypeOK
<1>4. ASSUME NEW c \in Client, NEW heard, SetOnce(c, heard) PROVE StaysUnfailed(x)
  <2> DEFINE o == client[c].order
  <2>1. /\ o # NoOrder /\ o.kind = "set" /\ o \in Orders /\ Unfenced(o.task, o.status, o.force)
        /\ ApplyStatusAndStage(o.task, o.status, FALSE) \/ UNCHANGED vars
    BY <1>4 DEF SetOnce, RequestTypes
  <2>2. o.task \in Task /\ o.status \in Status /\ (o.status = "failed" => ~o.force)
    BY <2>1, OrderKinds DEF NoneFails
  <2> QED
    BY <1>1, <1>2, <2>1, <2>2
<1>5. ASSUME NEW w \in Worker, AutoFail(w) PROVE StaysUnfailed(x)
  <2> DEFINE t == checking[w]
  <2>1. /\ t \in Task
        /\ \/ Unfenced(t, "failed", FALSE) /\ ApplyStatusAndStage(t, "failed", FALSE)
           \/ UNCHANGED vars
    BY <1>5 DEF AutoFail, RequestTypes
  <2> QED
    BY <1>1, <1>2, <2>1 DEF Status
<1>6. ASSUME NEW t \in Task, NEW w \in Worker, NEW ttl \in LeaseTimes,
             NEW approved \in SUBSET Gate, Take(t, w, ttl, approved)
      PROVE  StaysUnfailed(x)
  BY <1>6, NextUnfailed DEF Take, Next, Working
<1>7. CASE Requesting
  BY <1>1, <1>3, <1>4, <1>7 DEF Requesting, Submit, Replay, EndsWithoutEffect
<1>8. CASE Validating
  BY <1>1, <1>5, <1>6, <1>8 DEF Validating, EditRules, HandOut
<1> QED
  BY <1>1, <1>7, <1>8, NextUnfailed DEF RequestsNext

\* Where workers report no failures and nobody forces one, no task fails while a
\* worker holds it: neither a request nor an `afk take` whose claim turns out to
\* be invalid takes it from the worker who has it by then.
THEOREM HeldTasksNotFailed ==
    ASSUME NoneFails
    PROVE  RequestsSpec => HeldIsNotFailed
<1>1. RequestInv /\ [RequestsNext]_<<vars, requestVars>>
      => [\A t \in Task : row[t].status = "doing" /\ Owner(t) # NoWorker
                          => row'[t].status # "failed"]_vars
  BY RequestUnfailed DEF RequestInv, RelationInv, StaysUnfailed
<1> QED
  BY <1>1, RequestInvInit, RequestInvStep, PTL DEF RequestsSpec, HeldIsNotFailed

=============================================================================
