------------------------------ MODULE Requests ------------------------------
(***************************************************************************)
(* Commands with a request id.  A client that does not know whether its    *)
(* `afk add` or `afk set` took effect repeats it under the same id; the    *)
(* table request_ledger, written in the transaction of the effect, makes   *)
(* the repetition a replay.  And what the rules of validation.yaml do to   *)
(* tasks: they are asked before a task is added, outside the transaction,  *)
(* and again by `afk take` after its claim has been committed.             *)
(*                                                                         *)
(* An order is what the hash of a request covers.  A key is an actor with  *)
(* a request id.  The rules are abstracted to the bodies they reject.      *)
(* The sidecar file that refused adds are noted in is left out: no command *)
(* reads it.                                                               *)
(***************************************************************************)
EXTENDS Queue

CONSTANTS
    Client,             \* processes that run `afk add` or `afk set`
    Key, NoKey,
    NoTask,
    Body, BodyOf,       \* [Task -> Body]: a task is one submission of its body
    Orders,             \* what the clients want done
    NoOrder, NoReceipt

AddOrder == [kind : {"add"}, body : Body, behind : Task \cup {NoTask}, force : BOOLEAN]
SetOrder == [kind : {"set"}, task : Task, status : Status, force : BOOLEAN]

ASSUME RequestAssumption ==
    /\ NoKey \notin Key /\ NoTask \notin Task
    /\ BodyOf \in [Task -> Body]
    /\ Orders \subseteq AddOrder \cup SetOrder
    /\ NoOrder \notin AddOrder \cup SetOrder
    /\ NoReceipt \notin [order : Orders, task : Task]

VARIABLES
    banned,     \* the bodies that validation.yaml rejects now
    ledger,     \* request_ledger: the order of a key and the task it was about
    client,     \* per client: the order it has checked, and its key
    answers,    \* per key: the tasks its clients were told of
    effects,    \* per key: how many transactions have acted for it
    checking    \* per worker: the claim that its `afk take` has to validate

requestVars == <<banned, ledger, client, answers, effects, checking>>

Waiting == [key |-> NoKey, order |-> NoOrder]

RequestsTypeOK ==
    /\ TypeOK
    /\ banned \subseteq Body
    /\ ledger \in [Key -> [order : Orders, task : Task] \cup {NoReceipt}]
    /\ client \in [Client -> [key : Key \cup {NoKey}, order : Orders \cup {NoOrder}]]
    /\ answers \in [Key -> SUBSET Task]
    /\ effects \in [Key -> Nat]
    /\ checking \in [Worker -> Task \cup {NoTask}]

RequestsInit ==
    /\ Init
    /\ banned = {}
    /\ ledger = [k \in Key |-> NoReceipt]
    /\ client = [c \in Client |-> Waiting]
    /\ answers = [k \in Key |-> {}]
    /\ effects = [k \in Key |-> 0]
    /\ checking = [w \in Worker |-> NoTask]

-----------------------------------------------------------------------------
(* Before the transaction                                                   *)

\* An add is refused if its prerequisite is missing or its body rejected,
\* unless it is forced.
Acceptable(o) ==
    o.kind = "add" =>
        /\ o.behind # NoTask => o.behind \in Present
        /\ o.body \notin banned \/ o.force

\* A forced add takes no request id.
Submit(c, k, o) ==
    /\ client[c] = Waiting
    /\ o.kind = "add" /\ o.force => k = NoKey
    /\ Acceptable(o)
    /\ client' = [client EXCEPT ![c] = [key |-> k, order |-> o]]
    /\ UNCHANGED <<vars, banned, ledger, answers, effects, checking>>

-----------------------------------------------------------------------------
(* The transaction                                                          *)

\* A bug that lets a repeated request act again: its receipt is not looked at.
FreshUnlessColliding(k, o) ==
    k \in Key => ledger[k] \in {NoReceipt} \cup [order : {o}, task : Task]

Fresh(k, o) == k \in Key /\ o \in Orders => ledger[k] = NoReceipt

\* A bug the types would not survive: the receipt is made out before the task.
ReceiptBeforeTask(c, k, o, t, heard) ==
    /\ t \in Task /\ heard \in BOOLEAN
    /\ client' = [client EXCEPT ![c] = Waiting]
    /\ ledger' = IF k = NoKey THEN ledger ELSE [ledger EXCEPT ![k] = [order |-> o, task |-> NoTask]]
    /\ UNCHANGED <<answers, effects, banned, checking>>

\* The receipt is written with the effect; the answer may not get through.
Receipt(c, k, o, t, heard) ==
    /\ client' = [client EXCEPT ![c] = Waiting]
    /\ IF k = NoKey THEN UNCHANGED <<ledger, answers, effects>>
       ELSE /\ ledger' = [ledger EXCEPT ![k] = [order |-> o, task |-> t]]
            /\ answers' = [answers EXCEPT ![k] = IF heard THEN @ \cup {t} ELSE @]
            /\ effects' = [effects EXCEPT ![k] = @ + 1]
    /\ UNCHANGED <<banned, checking>>

\* A bug the receipts would not survive: the task is added without its edge.
MayBlockAny(u) == u \in Task \cup {NoTask}

\* The prerequisite is looked up again; a missing one undoes all of it.
MayBlock(u) == u = NoTask \/ u \in Present

\* AddRequested, and AddWithDependency or Add without a request id.
AddOnce(c, t, heard) ==
    LET k == client[c].key
        o == client[c].order
    IN  /\ o # NoOrder /\ o.kind = "add" /\ Fresh(k, o)
        /\ row[t].status = "unborn" /\ BodyOf[t] = o.body
        /\ MayBlock(o.behind)
        /\ InsertTask(t, 0)
        /\ relation' = IF o.behind \in Present
                       THEN [relation EXCEPT ![t][o.behind] = "blocks"] ELSE relation
        /\ Receipt(c, k, o, t, heard)
        /\ UNCHANGED <<attempts, gates, goalStatus, now, reaper>>

\* A bug that would fail tasks under their workers: requests are not guarded.
UnfencedAlways(t, s, force) == s \in Status /\ force \in BOOLEAN /\ t \in Present

\* checkUpdateFence without a worker: only finalizing is guarded.
Unfenced(t, s, force) ==
    /\ t \in Present
    /\ ~force /\ s \in Terminal /\ row[t].status = "doing" => Owner(t) = NoWorker

\* What a status that is set already leaves alone gets a receipt all the same.
SetOnce(c, heard) ==
    LET k == client[c].key
        o == client[c].order
    IN  /\ o # NoOrder /\ o.kind = "set" /\ Fresh(k, o)
        /\ Unfenced(o.task, o.status, o.force)
        /\ IF o.status # row[o.task].status
           THEN ApplyStatusAndStage(o.task, o.status, FALSE)
           ELSE UNCHANGED vars
        /\ Receipt(c, k, o, o.task, heard)

\* Nothing is asked about the task any more, which may have changed or gone.
Replay(c, heard) ==
    LET k == client[c].key
    IN  /\ k # NoKey /\ ledger[k] # NoReceipt
        /\ ledger[k].order = client[c].order
        /\ client' = [client EXCEPT ![c] = Waiting]
        /\ answers' = [answers EXCEPT ![k] = IF heard THEN @ \cup {ledger[k].task} ELSE @]
        /\ UNCHANGED <<vars, banned, ledger, effects, checking>>

\* The id was used for another order, the task or its prerequisite is gone, the
\* fence refuses: an error, and nothing is stored.  So it is for a client that
\* is killed before it commits.
EndsWithoutEffect(c) ==
    /\ client[c] # Waiting
    /\ client' = [client EXCEPT ![c] = Waiting]
    /\ UNCHANGED <<vars, banned, ledger, answers, effects, checking>>

-----------------------------------------------------------------------------
(* Validation                                                               *)

EditRules(b) ==
    /\ banned' = IF b \in banned THEN banned \ {b} ELSE banned \cup {b}
    /\ UNCHANGED <<vars, ledger, client, answers, effects, checking>>

\* `afk take`, which claims, and then looks at what it has claimed.
Take(t, w, ttl, approved) ==
    /\ checking[w] = NoTask
    /\ ClaimNext(t, w, ttl) \/ ClaimTask(t, w, ttl, approved)
    /\ checking' = [checking EXCEPT ![w] = t]
    /\ UNCHANGED <<banned, ledger, client, answers, effects>>

HandOut(w) ==
    /\ checking[w] # NoTask
    /\ BodyOf[checking[w]] \notin banned
    /\ checking' = [checking EXCEPT ![w] = NoTask]
    /\ UNCHANGED <<vars, banned, ledger, client, answers, effects>>

\* Service.Fail names no worker, so that the fence lets it through only when
\* the claim has ended meanwhile.
AutoFail(w) ==
    LET t == checking[w]
    IN  /\ t # NoTask /\ BodyOf[t] \in banned
        /\ IF Unfenced(t, "failed", FALSE) /\ row[t].status # "failed"
           THEN ApplyStatusAndStage(t, "failed", FALSE)
           ELSE UNCHANGED vars
        /\ checking' = [checking EXCEPT ![w] = NoTask]
        /\ UNCHANGED <<banned, ledger, client, answers, effects>>

-----------------------------------------------------------------------------
Requesting ==
    \/ \E c \in Client, k \in Key \cup {NoKey}, o \in Orders : Submit(c, k, o)
    \/ \E c \in Client, t \in Task, heard \in BOOLEAN : AddOnce(c, t, heard)
    \/ \E c \in Client, heard \in BOOLEAN : SetOnce(c, heard)
    \/ \E c \in Client, heard \in BOOLEAN : Replay(c, heard)
    \/ \E c \in Client : EndsWithoutEffect(c)

Validating ==
    \/ \E b \in Body : EditRules(b)
    \/ \E t \in Task, w \in Worker, ttl \in LeaseTimes, approved \in SUBSET Gate :
          Take(t, w, ttl, approved)
    \/ \E w \in Worker : HandOut(w)
    \/ \E w \in Worker : AutoFail(w)

RequestsNext == (Next /\ UNCHANGED requestVars) \/ Requesting \/ Validating

RequestsSpec == RequestsInit /\ [][RequestsNext]_<<vars, requestVars>>

-----------------------------------------------------------------------------
(* Properties                                                               *)

Outcome == INSTANCE ExactlyOnce WITH
    decided <- [k \in Key |-> IF ledger[k] = NoReceipt THEN {} ELSE {ledger[k].task}],
    told    <- answers,
    effects <- effects

\* "A request id replays the original result" (README.md:49): however often,
\* and by however many clients at once, a request is repeated, it acts once, and
\* all who get an answer get the same.
RequestedOnce == Outcome!Spec

\* An add is there as a whole or not at all: the task of its receipt has the
\* ordered body and waits for the ordered prerequisite, also if that was deleted
\* while the client was under way; and no two receipts are for the same task.
ReceiptsHold ==
    LET Added == {k \in Key : ledger[k] # NoReceipt /\ ledger[k].order.kind = "add"}
    IN  \A k \in Added :
          LET t == ledger[k].task
              u == ledger[k].order.behind
          IN  /\ BodyOf[t] = ledger[k].order.body
              /\ row[t].status # "unborn"
              /\ u # NoTask /\ t \in Present => relation[t][u] = "blocks"
              /\ \A l \in Added \ {k} : ledger[l].task # t

\* Where workers report no failures and nobody forces one, no task fails while
\* a worker holds it: not by a request, replayed or not, and not by an `afk
\* take` that found its own claim invalid when another worker had it already.
HeldIsNotFailed ==
    [][\A t \in Task : row[t].status = "doing" /\ Owner(t) # NoWorker
                       => row'[t].status # "failed"]_vars

=============================================================================
