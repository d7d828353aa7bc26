---------------------------- MODULE ExactlyOnce ----------------------------
(***************************************************************************)
(* What a request id promises to the clients that repeat a request: its    *)
(* outcome is decided once, when the request acts, and whoever is answered *)
(* is told that outcome.                                                   *)
(***************************************************************************)
EXTENDS Naturals

CONSTANTS Key, Task

VARIABLES
    decided,    \* per key: the outcome, as a set of none or one
    told,       \* per key: the outcomes that clients have heard of
    effects     \* per key: how often the request has acted

Init ==
    /\ decided = [k \in Key |-> {}]
    /\ told = [k \in Key |-> {}]
    /\ effects = [k \in Key |-> 0]

Decide(k, outcome, heard) ==
    /\ decided[k] = {} /\ effects[k] = 0
    /\ decided' = [decided EXCEPT ![k] = {outcome}]
    /\ told' = [told EXCEPT ![k] = IF heard THEN {outcome} ELSE {}]
    /\ effects' = [effects EXCEPT ![k] = 1]

Tell(k) ==
    /\ decided[k] # {}
    /\ told' = [told EXCEPT ![k] = decided[k]]
    /\ UNCHANGED <<decided, effects>>

Next ==
    \E k \in Key :
        \/ \E outcome \in Task, heard \in BOOLEAN : Decide(k, outcome, heard)
        \/ Tell(k)

Spec == Init /\ [][Next]_<<decided, told, effects>>

=============================================================================
