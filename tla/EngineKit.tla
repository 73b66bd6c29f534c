------------------------------ MODULE EngineKit ------------------------------
(***************************************************************************)
(* Starting runs of one script on scrapyd nodes: engine_kit.schedule       *)
(* (server/common/engine_kit.py) as it is called by concurrent dispatches  *)
(* (work_func, script_start) and by the delay threads                      *)
(* (DelayTaskSchedulerWork in apps/crawl/scheduler/delay_scheduler.py),    *)
(* the Redis list crawl_delay_queue between them, and job_cancel_all.      *)
(*                                                                         *)
(* engine_kit.schedule asks the node twice for its jobs, adds the running  *)
(* ones of the first answer to the pending ones of the second, reads the   *)
(* task row, and then starts the run or puts it on the delay queue.  Each  *)
(* request is a step of its own.  scrapyd is external: a run is pending,   *)
(* then running, then gone.                                                *)
(***************************************************************************)
EXTENDS Naturals, Sequences, FiniteSets

CONSTANTS
    Caller,     \* threads that dispatch: pool threads and requests
    Worker,     \* delay threads, one per web process
    Node,       \* scrapyd nodes
    Run,        \* dispatches: one batch for one node each
    Max,        \* spider_concurrency of the task, or 5
    MaxFaults,  \* bound on node outages, restarts and removals of the task
    MaxCancels  \* bound on job_cancel_all requests and changes of the hosts

NoRun == "none"

ASSUME ConstantsAssumption ==
    /\ Max \in Nat
    /\ MaxFaults \in Nat
    /\ MaxCancels \in Nat
    /\ Caller \cap Worker = {}
    /\ IsFiniteSet(Caller)
    /\ IsFiniteSet(Worker)
    /\ NoRun \notin Run

VARIABLES
    live,       \* one CrawlTask row of the project's name has is_deleted = 0
    hosts,      \* nodes the script is configured for: its hosts, or node_ids
    up,         \* nodes that answer
    pending,    \* pending[n]: runs waiting on scrapyd n
    running,    \* running[n]: runs n executes
    ended,      \* runs that finished or were cancelled on a node
    queue,      \* crawl_delay_queue
    node,       \* node[i]: the node run i was dispatched to
    pc,         \* pc[c]: where a caller or delay thread is
    item,       \* item[c]: the run it has in hand
    count,      \* count[c]: current_count so far
    fresh,      \* runs not dispatched yet
    doomed,     \* runs whose task was removed before its row was read and has
                \* not come back since (history)
    lost,       \* runs dropped with an exception (history)
    faults,     \* outages and restarts so far (bound)
    cpc,        \* where the job_cancel_all request is
    cleft,      \* nodes it has still to visit
    ctarget,    \* ids it is about to cancel on the node it visits
    victims,    \* runs on any node when it began (history)
    cancels     \* cancel requests and host changes so far (bound)

nodeVars == <<up, pending, running, ended>>
callVars == <<pc, item, count, fresh, lost, node>>
cancelVars == <<hosts, cpc, cleft, ctarget, victims, cancels>>
taskVars == <<live, doomed>>
vars == <<taskVars, nodeVars, queue, callVars, faults, cancelVars>>

Thread == Caller \cup Worker
Places == {"idle", "look", "pop", "health", "list1", "list2", "task", "push",
           "start"}

-----------------------------------------------------------------------------
Init ==
    /\ live = TRUE
    /\ hosts = Node
    /\ up = Node
    /\ pending = [n \in Node |-> {}]
    /\ running = [n \in Node |-> {}]
    /\ ended = {}
    /\ queue = <<>>
    /\ node \in {[i \in Run |-> n] : n \in Node}
    /\ pc = [c \in Thread |-> "idle"]
    /\ item = [c \in Thread |-> NoRun]
    /\ count = [c \in Thread |-> 0]
    /\ fresh = Run
    /\ doomed = {}
    /\ lost = {}
    /\ faults = 0
    /\ cpc = "idle"
    /\ cleft = {}
    /\ ctarget = {}
    /\ victims = {}
    /\ cancels = 0

\* Thread c goes to p, keeping what it has in hand.
Goto(c, p) ==
    /\ pc' = [pc EXCEPT ![c] = p]
    /\ UNCHANGED <<item, count>>

\* Thread c's call returns: a delay thread looks at the queue again.
Return(c) ==
    /\ pc' = [pc EXCEPT ![c] = IF c \in Worker THEN "look" ELSE "idle"]
    /\ item' = [item EXCEPT ![c] = NoRun]
    /\ count' = [count EXCEPT ![c] = 0]

\* An exception in thread c: the caller logs it and goes on without the run,
\* the delay thread ends its pass; in both cases nothing keeps the run.
Raise(c) ==
    /\ pc' = [pc EXCEPT ![c] = "idle"]
    /\ item' = [item EXCEPT ![c] = NoRun]
    /\ count' = [count EXCEPT ![c] = 0]
    /\ lost' = lost \cup ({item[c]} \ {NoRun})

-----------------------------------------------------------------------------
(* engine_kit.schedule, for thread c.                                      *)

\* A dispatch begins once get_engine_by_ip found its node up.  A cron job goes to
\* the nodes the script had when the job was added, so not to the present ones
\* alone; at first the script has them all.
Begin(c, i, n) ==
    /\ c \in Caller
    /\ pc[c] = "idle"
    /\ i \in fresh
    /\ n \in up
    /\ fresh' = fresh \ {i}
    /\ node' = [node EXCEPT ![i] = n]
    /\ pc' = [pc EXCEPT ![c] = "list1"]
    /\ item' = [item EXCEPT ![c] = i]
    /\ UNCHANGED <<taskVars, nodeVars, queue, count, lost, faults, cancelVars>>

Target(c) == node[item[c]]

ListRunning(c) ==
    /\ pc[c] = "list1"
    /\ Target(c) \in up
    /\ count' = [count EXCEPT ![c] = Cardinality(running[Target(c)])]
    /\ pc' = [pc EXCEPT ![c] = "list2"]
    /\ UNCHANGED <<taskVars, nodeVars, queue, item, fresh, lost, node, faults,
                   cancelVars>>

\* Fault variant: the limit is compared with the running ones alone.
ListPendingIgnored(c) ==
    /\ pc[c] = "list2"
    /\ Target(c) \in up
    /\ pc' = [pc EXCEPT ![c] = "task"]
    /\ UNCHANGED <<taskVars, nodeVars, queue, item, count, fresh, lost, node,
                   faults, cancelVars>>

ListPending(c) ==
    /\ pc[c] = "list2"
    /\ Target(c) \in up
    /\ count' = [count EXCEPT ![c] = @ + Cardinality(pending[Target(c)])]
    /\ pc' = [pc EXCEPT ![c] = "task"]
    /\ UNCHANGED <<taskVars, nodeVars, queue, item, fresh, lost, node, faults,
                   cancelVars>>

\* Fault variant: the removed rows are not left out.
ReadTaskAny(c) ==
    /\ pc[c] = "task"
    /\ Goto(c, IF count[c] > Max THEN "push" ELSE "start")
    /\ UNCHANGED <<taskVars, nodeVars, queue, fresh, lost, node, faults,
                   cancelVars>>

\* CrawlTask.objects.get, and the comparison with its limit.
ReadTask(c) ==
    /\ pc[c] = "task"
    /\ live
    /\ Goto(c, IF count[c] > Max THEN "push" ELSE "start")
    /\ UNCHANGED <<taskVars, nodeVars, queue, fresh, lost, node, faults,
                   cancelVars>>

\* rpush to crawl_delay_queue; the call returns ''.
Push(c) ==
    /\ pc[c] = "push"
    /\ queue' = Append(queue, item[c])
    /\ Return(c)
    /\ UNCHANGED <<taskVars, nodeVars, fresh, lost, node, faults, cancelVars>>

Start(c) ==
    /\ pc[c] = "start"
    /\ Target(c) \in up
    /\ pending' = [pending EXCEPT ![Target(c)] = @ \cup {item[c]}]
    /\ Return(c)
    /\ UNCHANGED <<taskVars, up, running, ended, queue, fresh, lost, node, faults,
                   cancelVars>>

\* A request to a node that is down raises, and so does the query for the row
\* of a task that is removed (or there twice).
Fail(c) ==
    /\ \/ pc[c] \in {"health", "list1", "list2", "start"} /\ Target(c) \notin up
       \/ pc[c] = "task" /\ ~ live
    /\ Raise(c)
    /\ UNCHANGED <<taskVars, nodeVars, queue, fresh, node, faults, cancelVars>>

-----------------------------------------------------------------------------
(* The delay thread w.                                                     *)

Wake(w) ==
    /\ w \in Worker
    /\ pc[w] = "idle"
    /\ Goto(w, "look")
    /\ UNCHANGED <<taskVars, nodeVars, queue, fresh, lost, node, faults,
                   cancelVars>>

\* Fault variant: the thread leaves the last run on the queue.
LookForTwo(w) ==
    /\ pc[w] = "look"
    /\ Goto(w, IF Len(queue) <= 1 THEN "idle" ELSE "pop")
    /\ UNCHANGED <<taskVars, nodeVars, queue, fresh, lost, node, faults,
                   cancelVars>>

\* while crawl_redis.llen('crawl_delay_queue') > 0
Look(w) ==
    /\ pc[w] = "look"
    /\ Goto(w, IF queue = <<>> THEN "idle" ELSE "pop")
    /\ UNCHANGED <<taskVars, nodeVars, queue, fresh, lost, node, faults,
                   cancelVars>>

\* Fault variant: the head is read and only removed later.
PopPeek(w) ==
    /\ pc[w] = "pop"
    /\ queue # <<>>
    /\ item' = [item EXCEPT ![w] = Head(queue)]
    /\ pc' = [pc EXCEPT ![w] = "health"]
    /\ UNCHANGED <<taskVars, nodeVars, queue, count, fresh, lost, node, faults,
                   cancelVars>>

Pop(w) ==
    /\ pc[w] = "pop"
    /\ queue # <<>>
    /\ item' = [item EXCEPT ![w] = Head(queue)]
    /\ queue' = Tail(queue)
    /\ pc' = [pc EXCEPT ![w] = "health"]
    /\ UNCHANGED <<taskVars, nodeVars, count, fresh, lost, node, faults,
                   cancelVars>>

\* blpop times out after 3 seconds: another thread took the item.
PopNothing(w) ==
    /\ pc[w] = "pop"
    /\ queue = <<>>
    /\ Goto(w, "look")
    /\ UNCHANGED <<taskVars, nodeVars, queue, fresh, lost, node, faults,
                   cancelVars>>

\* get_general_engine
CheckHealth(w) ==
    /\ pc[w] = "health"
    /\ Target(w) \in up
    /\ Goto(w, "list1")
    /\ UNCHANGED <<taskVars, nodeVars, queue, fresh, lost, node, faults,
                   cancelVars>>

-----------------------------------------------------------------------------
(* scrapyd, failures, and task_remove.                                     *)

Launch(n, i) ==
    /\ i \in pending[n]
    /\ pending' = [pending EXCEPT ![n] = @ \ {i}]
    /\ running' = [running EXCEPT ![n] = @ \cup {i}]
    /\ UNCHANGED <<taskVars, up, ended, queue, callVars, faults, cancelVars>>

Finish(n, i) ==
    /\ i \in running[n]
    /\ running' = [running EXCEPT ![n] = @ \ {i}]
    /\ ended' = ended \cup {i}
    /\ UNCHANGED <<taskVars, up, pending, queue, callVars, faults, cancelVars>>

NodeDown(n) ==
    /\ faults < MaxFaults
    /\ n \in up
    /\ up' = up \ {n}
    /\ faults' = faults + 1
    /\ UNCHANGED <<taskVars, pending, running, ended, queue, callVars, cancelVars>>

NodeUp(n) ==
    /\ n \notin up
    /\ up' = up \cup {n}
    /\ UNCHANGED <<taskVars, pending, running, ended, queue, callVars, faults,
                   cancelVars>>

\* The process of thread c is killed and started again.
Restart(c) ==
    /\ faults < MaxFaults
    /\ pc[c] # "idle"
    /\ faults' = faults + 1
    /\ Raise(c)
    /\ UNCHANGED <<taskVars, nodeVars, queue, fresh, node, cancelVars>>

\* task_remove, and nothing else that involves the runs; or a second live row
\* with the name of the project, which makes the query raise as well.
TaskRemove ==
    /\ faults < MaxFaults
    /\ live
    /\ live' = FALSE
    /\ doomed' = fresh \cup {queue[k] : k \in 1 .. Len(queue)}
                    \cup {item[c] : c \in {t \in Thread :
                             pc[t] \in {"health", "list1", "list2", "task"}}}
    /\ faults' = faults + 1
    /\ UNCHANGED <<nodeVars, queue, callVars, cancelVars>>

\* The row is found again.  schedule asks for the project's name, not for an id:
\* task_deploy saves the whole row it read before the removal, and task_create
\* and task_update write whatever columns the request has.
TaskBack ==
    /\ ~ live
    /\ live' = TRUE
    /\ doomed' = {}
    /\ UNCHANGED <<nodeVars, queue, callVars, faults, cancelVars>>

-----------------------------------------------------------------------------
(* job_cancel_all and the change of hosts or node_ids.                     *)

OnNodes == UNION {pending[n] \cup running[n] : n \in Node}

\* Empty hosts mean the node_ids of the task: the script always has nodes.
SetHosts(ns) ==
    /\ cancels < MaxCancels
    /\ ns # {}
    /\ hosts' = ns
    /\ cancels' = cancels + 1
    /\ UNCHANGED <<taskVars, nodeVars, queue, callVars, faults, cpc, cleft,
                   ctarget, victims>>

BeginCancel ==
    /\ cancels < MaxCancels
    /\ cpc \in {"idle", "done"}
    /\ cancels' = cancels + 1
    /\ cpc' = "next"
    /\ cleft' = hosts
    /\ victims' = OnNodes
    /\ UNCHANGED <<taskVars, nodeVars, queue, callVars, faults, hosts, ctarget>>

\* Health check and listjobs of the next node.
ListToCancel(n) ==
    /\ cpc = "next"
    /\ n \in cleft \cap up
    /\ cleft' = cleft \ {n}
    /\ ctarget' = pending[n] \cup running[n]
    /\ cpc' = "cancel"
    /\ UNCHANGED <<taskVars, nodeVars, queue, callVars, faults, hosts, victims,
                   cancels>>

\* engine.cancel of one id; cancelling a run that is gone does nothing.
CancelOne(i) ==
    /\ cpc = "cancel"
    /\ i \in ctarget
    /\ node[i] \in up
    /\ pending' = [pending EXCEPT ![node[i]] = @ \ {i}]
    /\ running' = [running EXCEPT ![node[i]] = @ \ {i}]
    /\ ended' = ended \cup {i}
    /\ ctarget' = ctarget \ {i}
    /\ UNCHANGED <<taskVars, up, queue, callVars, faults, hosts, cpc, cleft,
                   victims, cancels>>

NextNode ==
    /\ cpc = "cancel"
    /\ ctarget = {}
    /\ cpc' = "next"
    /\ UNCHANGED <<taskVars, nodeVars, queue, callVars, faults, hosts, cleft,
                   ctarget, victims, cancels>>

\* Result.success
EndCancel ==
    /\ cpc = "next"
    /\ cleft = {}
    /\ cpc' = "done"
    /\ UNCHANGED <<taskVars, nodeVars, queue, callVars, faults, hosts, cleft,
                   ctarget, victims, cancels>>

\* A node that is down raises: Result.fail, the rest is left as it is.
FailCancel ==
    /\ \/ cpc = "next" /\ cleft \ up # {}
       \/ cpc = "cancel" /\ \E i \in ctarget : node[i] \notin up
    /\ cpc' = "idle"
    /\ cleft' = {}
    /\ ctarget' = {}
    /\ UNCHANGED <<taskVars, nodeVars, queue, callVars, faults, hosts, victims,
                   cancels>>

-----------------------------------------------------------------------------
Call(c) ==
    \/ ListRunning(c)
    \/ ListPending(c)
    \/ ReadTask(c)
    \/ Push(c)
    \/ Start(c)
    \/ Fail(c)

Delay(w) ==
    \/ Wake(w)
    \/ Look(w)
    \/ Pop(w)
    \/ PopNothing(w)
    \/ CheckHealth(w)
    \/ Call(w)

Scrapyd == \E n \in Node, i \in Run : Launch(n, i) \/ Finish(n, i)

Cancel ==
    \/ BeginCancel
    \/ \E n \in Node : ListToCancel(n)
    \/ \E i \in Run : CancelOne(i)
    \/ NextNode
    \/ EndCancel
    \/ FailCancel

Next ==
    \/ \E c \in Caller, i \in Run, n \in Node : Begin(c, i, n)
    \/ \E c \in Caller : Call(c)
    \/ \E w \in Worker : Delay(w)
    \/ Scrapyd
    \/ \E n \in Node : NodeDown(n) \/ NodeUp(n)
    \/ \E c \in Thread : Restart(c)
    \/ TaskRemove
    \/ TaskBack
    \/ \E ns \in SUBSET Node : SetHosts(ns)
    \/ Cancel

Spec == Init /\ [][Next]_vars

\* Threads go on with what they do (the delay thread is a while True loop),
\* runs end, and a node that is down comes back; nobody has to dispatch, to
\* cancel or to remove anything.
FairSpec ==
    /\ Spec
    /\ \A c \in Caller : WF_vars(Call(c))
    /\ \A w \in Worker : WF_vars(Delay(w))
    /\ \A n \in Node, i \in Run :
          WF_vars(Launch(n, i)) /\ WF_vars(Finish(n, i))
    /\ \A n \in Node : WF_vars(NodeUp(n))

-----------------------------------------------------------------------------
TypeOK ==
    /\ live \in BOOLEAN
    /\ hosts \subseteq Node
    /\ up \subseteq Node
    /\ pending \in [Node -> SUBSET Run]
    /\ running \in [Node -> SUBSET Run]
    /\ ended \subseteq Run
    /\ queue \in Seq(Run)
    /\ node \in [Run -> Node]
    /\ pc \in [Thread -> Places]
    /\ item \in [Thread -> Run \cup {NoRun}]
    /\ count \in [Thread -> Nat]
    /\ fresh \subseteq Run
    /\ doomed \subseteq Run
    /\ lost \subseteq Run
    /\ faults \in 0 .. MaxFaults
    /\ cpc \in {"idle", "next", "cancel", "done"}
    /\ cleft \subseteq Node
    /\ ctarget \subseteq Run
    /\ victims \subseteq Run
    /\ cancels \in 0 .. MaxCancels

\* The places that hold run i: threads, positions of the queue, nodes.
Holders(i) == {c \in Thread : item[c] = i}
Positions(i) == {k \in 1 .. Len(queue) : queue[k] = i}
PendingOn(i) == {n \in Node : i \in pending[n]}
RunningOn(i) == {n \in Node : i \in running[n]}

\* A dispatched run is in exactly one place: in one thread's hands, once on the
\* delay queue, waiting or running on one node, ended there, or lost; and none
\* is lost without an outage, a restart or the removal of its task.  However
\* many delay threads and callers work on the queue, no run is dropped or
\* started twice.
NothingLostOrDoubled ==
    /\ \A i \in Run :
          Cardinality(Holders(i)) + Cardinality(Positions(i))
             + Cardinality(PendingOn(i)) + Cardinality(RunningOn(i))
             + Cardinality({i} \cap fresh) + Cardinality({i} \cap ended)
             + Cardinality({i} \cap lost) = 1
    /\ faults = 0 => lost = {}

\* How far a node can be driven past the limit.  What waits on a node passes
\* Max by one start of each thread, whose count others have made stale.  A count
\* also misses the runs that went from pending to running between its two
\* listings, so all that wait can start under it, with one more start of each
\* thread: twice the limit and more, where one correct count would give Max + 1.
OvershootBounded ==
    \A n \in Node :
        /\ Cardinality(pending[n]) <= Max + Cardinality(Thread)
        /\ Cardinality(pending[n] \cup running[n])
              <= 2 * (Max + Cardinality(Thread))

\* A run whose task was removed before engine_kit.schedule read the task's row,
\* on the delay queue or in a thread's hands, does not reach a node unless the
\* row has been made live again since.
RemovedTaskNeverStarts == doomed \cap (OnNodes \cup ended) = {}

\* The queue does not keep runs for ever: each is tried until its node has
\* room, unless it is lost.
QueueDrains == \A i \in Run : Positions(i) # {} ~>
                   (i \in lost \/ PendingOn(i) # {})

\* When job_cancel_all reports success, what ran anywhere when it began has
\* been stopped.
CancelStopsEverywhere == cpc = "done" => victims \cap OnNodes = {}
-----------------------------------------------------------------------------
\* Where run i is, as RunLife counts it: with a thread it has been accepted by
\* once the row is read and the limit not passed.
Whereabouts(i) ==
    {w \in {"fresh", "held", "accepted", "queued", "waits", "runs", "ended",
            "lost"} :
        \/ w = "fresh" /\ i \in fresh
        \/ w = "held" /\ \E c \in Holders(i) : pc[c] # "start"
        \/ w = "accepted" /\ \E c \in Holders(i) : pc[c] = "start"
        \/ w = "queued" /\ Positions(i) # {}
        \/ w = "waits" /\ PendingOn(i) # {}
        \/ w = "runs" /\ RunningOn(i) # {}
        \/ w = "ended" /\ i \in ended
        \/ w = "lost" /\ i \in lost}

Life == INSTANCE RunLife WITH
    places <- [i \in Run |-> Whereabouts(i)],
    target <- node,
    nodes <- [i \in Run |-> PendingOn(i) \cup RunningOn(i)],
    trouble <- faults > 0

\* Callers, delay threads, nodes and cancels together implement the life of a
\* run: whatever they do to it is one step of RunLife, so that a run on its way
\* through the queue is neither dropped nor started twice, nor started without
\* its task's row.
RunLifeSpec == Life!Spec
=============================================================================
