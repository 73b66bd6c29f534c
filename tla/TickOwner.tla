------------------------------ MODULE TickOwner ------------------------------
(***************************************************************************)
(* What the lock in work_func (apps/crawl/scheduler/scheduler.py) is there *)
(* for: of all the processes whose scheduler fires the same cron time of a *)
(* job, one takes it, and it starts the script at most once per node.      *)
(*                                                                         *)
(* A lock that runs out gives less than that.  Its holder is alone for TTL *)
(* only, so the time is taken again as often as TTL fits in slack, the     *)
(* time processes have to come for it.  Without slack to speak of          *)
(* (slack < TTL) a fire time has one owner.                                *)
(***************************************************************************)
EXTENDS Naturals

CONSTANTS Node, FireTime, TTL

VARIABLES
    slack,      \* how long after a fire time processes may come for it
    claims,     \* claims[t]: how often fire time t was taken
    sent        \* sent[t][n]: how often t was dispatched to node n

vars == <<slack, claims, sent>>

Init ==
    /\ slack \in Nat
    /\ claims = [t \in FireTime |-> 0]
    /\ sent = [t \in FireTime |-> [n \in Node |-> 0]]

Claim(t) ==
    /\ claims[t] * TTL <= slack
    /\ claims' = [claims EXCEPT ![t] = @ + 1]
    /\ UNCHANGED <<slack, sent>>

\* Every owner of t reaches a node once at most.
Dispatch(t, n) ==
    /\ sent[t][n] < claims[t]
    /\ sent' = [sent EXCEPT ![t][n] = @ + 1]
    /\ UNCHANGED <<slack, claims>>

Next ==
    \E t \in FireTime :
        \/ Claim(t)
        \/ \E n \in Node : Dispatch(t, n)

Spec == Init /\ [][Next]_vars
=============================================================================
