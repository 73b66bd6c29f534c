------------------------------- MODULE RunLife -------------------------------
(***************************************************************************)
(* What engine_kit.schedule and the delay queue promise for each run: it   *)
(* is somewhere, in one place at a time, from its dispatch to its end.     *)
(* Some thread holds it, reads the row of the task and accepts it or puts  *)
(* it off; only a run accepted while the task is there is started, once,   *)
(* and on no node but its own.  What was put off is taken up again and     *)
(* read the row for again.  A run is lost only out of a thread's hands,    *)
(* and never without trouble.                                              *)
(***************************************************************************)
CONSTANTS Run, Node

VARIABLES
    live,       \* the task's row is there
    places,     \* places[i]: where run i is
    target,     \* target[i]: the node run i is for
    nodes,      \* nodes[i]: nodes that have run i
    trouble     \* there was an outage, a restart or a removal

vars == <<live, places, target, nodes, trouble>>

Init ==
    /\ live = TRUE
    /\ places = [i \in Run |-> {"fresh"}]
    /\ target \in [Run -> Node]
    /\ nodes = [i \in Run |-> {}]
    /\ trouble = FALSE

Move(i, from, to) ==
    /\ places[i] = {from}
    /\ places' = [places EXCEPT ![i] = {to}]

Dispatch(i, n) ==
    /\ Move(i, "fresh", "held")
    /\ target' = [target EXCEPT ![i] = n]
    /\ UNCHANGED <<live, nodes, trouble>>

Accept(i) ==
    /\ live
    /\ Move(i, "held", "accepted")
    /\ UNCHANGED <<live, target, nodes, trouble>>

PutOff(i) ==
    /\ Move(i, "held", "queued")
    /\ UNCHANGED <<live, target, nodes, trouble>>

TakeUp(i) ==
    /\ Move(i, "queued", "held")
    /\ UNCHANGED <<live, target, nodes, trouble>>

Start(i) ==
    /\ Move(i, "accepted", "waits")
    /\ nodes' = [nodes EXCEPT ![i] = {target[i]}]
    /\ UNCHANGED <<live, target, trouble>>

Launch(i) ==
    /\ Move(i, "waits", "runs")
    /\ UNCHANGED <<live, target, nodes, trouble>>

End(i) ==
    /\ \/ Move(i, "waits", "ended")
       \/ Move(i, "runs", "ended")
    /\ nodes' = [nodes EXCEPT ![i] = {}]
    /\ UNCHANGED <<live, target, trouble>>

Lose(i) ==
    /\ \/ Move(i, "held", "lost")
       \/ Move(i, "accepted", "lost")
    /\ trouble' = TRUE
    /\ UNCHANGED <<live, target, nodes>>

\* The removal of the task is trouble; its row can be live again later.
Disturb ==
    /\ trouble' = TRUE
    /\ live' \in {live, FALSE}
    /\ UNCHANGED <<places, target, nodes>>

Restore ==
    /\ live' = TRUE
    /\ UNCHANGED <<places, target, nodes, trouble>>

Next ==
    \/ Disturb
    \/ Restore
    \/ \E i \in Run :
          \/ \E n \in Node : Dispatch(i, n)
          \/ Accept(i) \/ PutOff(i) \/ TakeUp(i)
          \/ Start(i) \/ Launch(i) \/ End(i) \/ Lose(i)

Spec == Init /\ [][Next]_vars
=============================================================================
