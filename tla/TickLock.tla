------------------------------ MODULE TickLock ------------------------------
(***************************************************************************)
(* A cron job of the crawl scheduler as every web process runs it.  Each   *)
(* process has its own BackgroundScheduler with the same jobs in a memory  *)
(* store, so each fires every cron time; work_func                         *)
(* (apps/crawl/scheduler/scheduler.py) takes a Redis lock named after the  *)
(* batch for 30 seconds, never releases it, and goes through the nodes     *)
(* only if it got the lock.  A run that starts more than                   *)
(* misfire_grace_time = 60 seconds late is dropped by the scheduler.       *)
(*                                                                         *)
(* One batch: locks of different batches do not interact.  Time is counted *)
(* in units of some seconds; requests to Redis take less than one unit.    *)
(***************************************************************************)
EXTENDS Naturals

CONSTANTS
    Proc,       \* web processes (uWSGI workers)
    Node,       \* the nodes of the job; the loop may take them in any order
    FireTime,   \* the times the cron trigger fires at
    TTL,        \* life of the lock
    Grace,      \* misfire_grace_time
    MaxLate,    \* bound of late
    Horizon     \* bound of the clock

ASSUME ConstantsAssumption ==
    /\ FireTime \subseteq Nat \ {0}
    /\ TTL \in Nat \ {0}
    /\ Grace \in Nat
    /\ MaxLate \in Nat
    /\ Horizon \in Nat

VARIABLES
    late,       \* how late processes may be with a fire time (environment)
    now,        \* the clock
    lockUntil,  \* when the key dlm#batch expires
    up,         \* nodes whose scrapyd answers daemonstatus.json
    last,       \* last[p]: newest fire time p's scheduler has dealt with
    pc,         \* pc[p]: "idle", "queued" in the pool, or "loop"
    tick,       \* tick[p]: the fire time of the run p has queued or loops for
    left,       \* left[p]: the nodes the loop has still to go through
    claims,     \* claims[t]: how many times the lock was got for t (history)
    sent        \* sent[t][n]: dispatches of t to n (history)

history == <<claims, sent>>
vars == <<late, now, lockUntil, up, last, pc, tick, left, history>>

-----------------------------------------------------------------------------
Init ==
    /\ late \in 0 .. MaxLate
    /\ now = 0
    /\ lockUntil = 0
    /\ up = Node
    /\ last = [p \in Proc |-> 0]
    /\ pc = [p \in Proc |-> "idle"]
    /\ tick = [p \in Proc |-> 0]
    /\ left = [p \in Proc |-> {}]
    /\ claims = [t \in FireTime |-> 0]
    /\ sent = [t \in FireTime |-> [n \in Node |-> 0]]

\* t is the fire time p's scheduler sees due: the newest one (coalesce is on)
\* it has not dealt with.
IsDue(p, t) ==
    /\ last[p] < t
    /\ t <= now
    /\ \A u \in FireTime : u <= now => u <= t

\* The scheduler thread hands the due run to the pool.
Submit(p, t) ==
    /\ IsDue(p, t)
    /\ pc[p] = "idle"
    /\ last' = [last EXCEPT ![p] = t]
    /\ pc' = [pc EXCEPT ![p] = "queued"]
    /\ tick' = [tick EXCEPT ![p] = t]
    /\ UNCHANGED <<late, now, lockUntil, up, left, history>>

\* max_instances = 1: a run still queued or looping makes this one be skipped.
SkipInstance(p, t) ==
    /\ IsDue(p, t)
    /\ pc[p] # "idle"
    /\ last' = [last EXCEPT ![p] = t]
    /\ UNCHANGED <<late, now, lockUntil, up, pc, tick, left, history>>

InGrace(p) == now <= tick[p] + Grace

\* run_job of the scheduler drops a run that starts too late.
Misfire(p) ==
    /\ pc[p] = "queued"
    /\ ~ InGrace(p)
    /\ pc' = [pc EXCEPT ![p] = "idle"]
    /\ UNCHANGED <<late, now, lockUntil, up, last, tick, left, history>>

\* Fault variant: the lock's life is counted from the fire time of the run.
AcquireFromTick(p) ==
    /\ pc[p] = "queued"
    /\ InGrace(p)
    /\ lockUntil <= now
    /\ lockUntil' = tick[p] + TTL
    /\ pc' = [pc EXCEPT ![p] = "loop"]
    /\ left' = [left EXCEPT ![p] = Node]
    /\ claims' = [claims EXCEPT ![tick[p]] = @ + 1]
    /\ UNCHANGED <<late, now, up, last, tick, sent>>

\* work_func with dlm.lock: the key is set with its time to live if absent.
Acquire(p) ==
    /\ pc[p] = "queued"
    /\ InGrace(p)
    /\ lockUntil <= now
    /\ lockUntil' = now + TTL
    /\ pc' = [pc EXCEPT ![p] = "loop"]
    /\ left' = [left EXCEPT ![p] = Node]
    /\ claims' = [claims EXCEPT ![tick[p]] = @ + 1]
    /\ UNCHANGED <<late, now, up, last, tick, sent>>

\* The retries of the lock are over within the unit: "batch locked".
Locked(p) ==
    /\ pc[p] = "queued"
    /\ InGrace(p)
    /\ now < lockUntil
    /\ pc' = [pc EXCEPT ![p] = "idle"]
    /\ UNCHANGED <<late, now, lockUntil, up, last, tick, left, history>>

\* Fault variant: the loop comes back to a node it has dispatched to.
DispatchAgain(p, n) ==
    /\ pc[p] = "loop"
    /\ n \in left[p] \cap up
    /\ \E ns \in {left[p], left[p] \ {n}} : left' = [left EXCEPT ![p] = ns]
    /\ sent' = [sent EXCEPT ![tick[p]][n] = @ + 1]
    /\ UNCHANGED <<late, now, lockUntil, up, last, pc, tick, claims>>

\* One node of the loop: the health check passes and engine_kit.schedule puts
\* the run on the node or on the delay queue.
Dispatch(p, n) ==
    /\ pc[p] = "loop"
    /\ n \in left[p] \cap up
    /\ left' = [left EXCEPT ![p] = @ \ {n}]
    /\ sent' = [sent EXCEPT ![tick[p]][n] = @ + 1]
    /\ UNCHANGED <<late, now, lockUntil, up, last, pc, tick, claims>>

\* engine_kit.schedule raises: the inner try logs it and the loop goes on.
FailDispatch(p, n) ==
    /\ pc[p] = "loop"
    /\ n \in left[p] \cap up
    /\ left' = [left EXCEPT ![p] = @ \ {n}]
    /\ UNCHANGED <<late, now, lockUntil, up, last, pc, tick, history>>

\* get_engine_by_ip raises outside the inner try: the other nodes are not
\* tried, and the lock stays.
AbortLoop(p) ==
    /\ pc[p] = "loop"
    /\ left[p] \ up # {}
    /\ pc' = [pc EXCEPT ![p] = "idle"]
    /\ left' = [left EXCEPT ![p] = {}]
    /\ UNCHANGED <<late, now, lockUntil, up, last, tick, history>>

\* Fault variant: dlm.unlock in the finally clause.
EndLoopUnlocks(p) ==
    /\ pc[p] = "loop"
    /\ left[p] = {}
    /\ pc' = [pc EXCEPT ![p] = "idle"]
    /\ lockUntil' = now
    /\ UNCHANGED <<late, now, up, last, tick, left, history>>

\* Fault variant: the lock is renewed at the end of the loop.
EndLoopRenews(p) ==
    /\ pc[p] = "loop"
    /\ left[p] = {}
    /\ pc' = [pc EXCEPT ![p] = "idle"]
    /\ lockUntil' = now + TTL
    /\ UNCHANGED <<late, now, up, last, tick, left, history>>

\* The lock is not released (line 89 is a comment): it runs out.
EndLoop(p) ==
    /\ pc[p] = "loop"
    /\ left[p] = {}
    /\ pc' = [pc EXCEPT ![p] = "idle"]
    /\ UNCHANGED <<late, now, lockUntil, up, last, tick, left, history>>

\* A worker is killed and started again: what it had queued or was doing is
\* gone, and a cron job added now first fires after now.
Restart(p) ==
    /\ pc' = [pc EXCEPT ![p] = "idle"]
    /\ left' = [left EXCEPT ![p] = {}]
    /\ last' = [last EXCEPT ![p] = now]
    /\ UNCHANGED <<late, now, lockUntil, up, tick, history>>

NodeFlips(n) ==
    /\ up' = IF n \in up THEN up \ {n} ELSE up \cup {n}
    /\ UNCHANGED <<late, now, lockUntil, last, pc, tick, left, history>>

\* The clock waits for a process that is late units behind a fire time.
Behind(p) ==
    \/ pc[p] = "queued" /\ tick[p] + late <= now
    \/ \E t \in FireTime : last[p] < t /\ t + late <= now

Advance ==
    /\ now < Horizon
    /\ \A p \in Proc : ~ Behind(p)
    /\ now' = now + 1
    /\ UNCHANGED <<late, lockUntil, up, last, pc, tick, left, history>>

Step(p) ==
    \/ \E t \in FireTime : Submit(p, t) \/ SkipInstance(p, t)
    \/ Misfire(p)
    \/ Acquire(p)
    \/ Locked(p)
    \/ \E n \in Node : Dispatch(p, n) \/ FailDispatch(p, n)
    \/ AbortLoop(p)
    \/ EndLoop(p)
    \/ Restart(p)

Next ==
    \/ \E p \in Proc : Step(p)
    \/ \E n \in Node : NodeFlips(n)
    \/ Advance

Spec == Init /\ [][Next]_vars

-----------------------------------------------------------------------------
TypeOK ==
    /\ late \in 0 .. MaxLate
    /\ now \in 0 .. Horizon
    /\ lockUntil \in Nat
    /\ up \subseteq Node
    /\ last \in [Proc -> Nat]
    /\ pc \in [Proc -> {"idle", "queued", "loop"}]
    /\ tick \in [Proc -> FireTime \cup {0}]
    /\ left \in [Proc -> SUBSET Node]
    /\ claims \in [FireTime -> Nat]
    /\ sent \in [FireTime -> [Node -> Nat]]
    /\ \A p \in Proc : pc[p] # "idle" => tick[p] \in FireTime

\* One fire time is taken at most once, and once more for every life of the
\* lock that fits both in the grace time and in the delays there are: once if
\* no process is as late as the lock lives, and with the 30 and 60 seconds of
\* work_func and of add_job never more than three times.
ClaimsPerTickBounded ==
    \A t \in FireTime : claims[t] > 0 =>
        /\ (claims[t] - 1) * TTL <= Grace
        /\ (claims[t] - 1) * TTL <= late

\* Fire times far enough apart for the lock to have expired between them.
Spaced ==
    \A t, u \in FireTime : t < u => t + late + TTL <= u

\* With such fire times a run turned away by the lock was turned away by a run
\* of the same fire time: no fire time is lost to an earlier one's lock.
LockedOnlyByOwnTick ==
    [][Spaced => \A p \in Proc : Locked(p) => claims[tick[p]] > 0]_vars

-----------------------------------------------------------------------------
\* The lock implements the ownership of fire times, with the delays and the
\* grace time as its slack: prompt processes have a single owner.
Ownership == INSTANCE TickOwner WITH
    slack <- IF late < Grace THEN late ELSE Grace

OwnershipSpec == Ownership!Spec
=============================================================================
