---------------------------- MODULE ClaimLedger ----------------------------
(***************************************************************************)
(* What the queue promises its workers: a ledger of claims.                *)
(*                                                                         *)
(* A task is held by at most one worker at a time, until its deadline; of  *)
(* the tasks that share a resource, one is held at a time; a claim is      *)
(* settled once, either by its worker before the deadline or by a          *)
(* reclaim, which a claim with a deadline need not fear before it.         *)
(***************************************************************************)
EXTENDS Naturals, Sequences

CONSTANTS Task, Worker, ResourceOf, NoResource

VARIABLES
    ledger,    \* the claims of each task, oldest first
    deadline,  \* of the claim a task is held by; 0 if it has none
    clock

vars == <<ledger, deadline, clock>>

Entry == [worker : Worker, fate : {"held", "finished", "reclaimed"}]

Init ==
    /\ ledger = [t \in Task |-> <<>>]
    /\ deadline = [t \in Task |-> 0]
    /\ clock \in Nat

Held(t) == \E i \in DOMAIN ledger[t] : ledger[t][i].fate = "held"

Excludes(t, u) == ResourceOf[t] = ResourceOf[u] /\ ResourceOf[t] # NoResource

\* The deadline of t, and of no other task, becomes a future time or none.
Renewed(t) ==
    /\ deadline' = [deadline EXCEPT ![t] = deadline'[t]]
    /\ deadline'[t] = 0 \/ deadline'[t] > clock

Acquire(t, w) ==
    /\ ~Held(t)
    /\ \A u \in Task : Held(u) => ~Excludes(t, u)
    /\ ledger' = [ledger EXCEPT ![t] = Append(@, [worker |-> w, fate |-> "held"])]
    /\ Renewed(t)
    /\ UNCHANGED clock

Renew(t) ==
    /\ Held(t)
    /\ Renewed(t)
    /\ UNCHANGED <<ledger, clock>>

Settle(t, fate) ==
    /\ Held(t)
    /\ ledger' = [ledger EXCEPT ![t][Len(ledger[t])].fate = fate]
    /\ deadline' = [deadline EXCEPT ![t] = 0]
    /\ UNCHANGED clock

Finish(t) ==
    /\ deadline[t] = 0 \/ deadline[t] > clock
    /\ Settle(t, "finished")

Reclaim(t) ==
    /\ deadline[t] <= clock
    /\ Settle(t, "reclaimed")

Advance == clock' = clock + 1 /\ UNCHANGED <<ledger, deadline>>

Next ==
    \/ \E t \in Task, w \in Worker : Acquire(t, w)
    \/ \E t \in Task : Renew(t) \/ Finish(t) \/ Reclaim(t)
    \/ Advance

Spec == Init /\ [][Next]_vars

=============================================================================
