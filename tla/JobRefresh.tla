----------------------------- MODULE JobRefresh -----------------------------
(***************************************************************************)
(* The refresh thread of the crawl scheduler, CreateSchedulerWork.run in   *)
(* apps/crawl/scheduler/scheduler.py, with the APScheduler memory store it *)
(* feeds and the requests that change the CrawlScript rows it reads.       *)
(*                                                                         *)
(* A pass takes a snapshot of the ids in the job store, reads the enabled  *)
(* scripts in one query, works through them one by one, and then removes   *)
(* the snapshot's ids that no script asked for.  The rows, the tasks and   *)
(* the nodes change, and date jobs fire, between any two of these steps.   *)
(*                                                                         *)
(* A job id is the script's id with the md5 of (trigger, args), prefixed   *)
(* with "fix-" for a back-fill: here a pair <<script, key>>, the keys of   *)
(* cron entries, back-fill entries and dynamic query rows being distinct.  *)
(***************************************************************************)
EXTENDS Naturals, FiniteSets

CONSTANTS
    Script,     \* ids of CrawlScript rows
    Node,       \* ip:port of crawl nodes
    CronKey,    \* md5 of (trigger, args) of plain cron entries
    FixKey,     \* the same of back-fill entries (fix_type 1, 2 or 3)
    DynKey,     \* the same of the rows a dynamic_value query can return
    Dyn,        \* the entry of the args list that has a dynamic_value query
    Date,       \* the fix_date values a back-fill entry can carry (0: none)
    MaxTime,    \* bound of the clock, in whole seconds
    MaxEdits    \* bound on the requests that change the tables

ASSUME BoundsAssumption ==
    MaxTime \in Nat /\ MaxEdits \in Nat /\ Date \subseteq Nat

ASSUME KeysAssumption ==
    /\ CronKey \cap FixKey = {}
    /\ CronKey \cap DynKey = {}
    /\ FixKey \cap DynKey = {}
    /\ Dyn \notin CronKey \cup FixKey \cup DynKey

VARIABLES
    row,        \* the CrawlScript table
    task,       \* node_ids of the CrawlTask the scripts belong to
    nodes,      \* the CrawlNode rows that exist
    now,        \* the whole second the clock is in
    edits,      \* number of table changes so far (bound)
    store,      \* the job store of this process's scheduler
    fired,      \* date jobs that have run, with their run date (history)
    pc,         \* where the refresh thread is
    snapshot,   \* redis_job_ids of the pass
    read,       \* script_models: the enabled rows as the pass read them
    todo,       \* scripts of the pass not yet worked through
    dbJobIds,   \* db_job_ids of the pass
    toRemove,   \* c_ids of the pass not yet removed
    dirty,      \* scripts changed since a pass last read the rows (history)
    moved,      \* scripts given other nodes by an edit of the task since a
                \* pass last worked through them (history)
    skipped,    \* scripts with a cron entry that pass failed on (history)
    settled     \* the last pass ran to its end (history)

tables == <<row, task, nodes, edits>>
pass == <<pc, snapshot, read, todo, dbJobIds, toRemove>>
history == <<dirty, moved, skipped, settled>>
vars == <<tables, now, store, fired, pass, history>>

-----------------------------------------------------------------------------
Key == CronKey \cup FixKey \cup DynKey
Entry == CronKey \cup FixKey \cup {Dyn}
JobId == Script \X Key
Time == 0 .. MaxTime

NoJob == [kind |-> "none"]
CronJob(ns) == [kind |-> "cron", nodes |-> ns]
DateJob(ns, d) == [kind |-> "date", nodes |-> ns, run |-> d]
Job == {CronJob(ns) : ns \in SUBSET Node}
         \cup {DateJob(ns, d) : ns \in SUBSET Node, d \in Date}

\* A CrawlScript row.  "off" is is_disable = 1, "gone" a deleted row; hosts
\* empty means NULL or '[]'; fixDate 0 means the back-fill entries carry no
\* fix_date; wellFormed is whether eval() accepts the stored args and every
\* entry of them has its args, trigger and fix_type.
Row == [status: {"on", "off", "gone"}, hosts: SUBSET Node,
        args: SUBSET Entry, fixDate: Date, wellFormed: BOOLEAN]

InitRow(as, d) == [status |-> "on", hosts |-> {}, args |-> as,
                   fixDate |-> d, wellFormed |-> TRUE]

\* Whether the pass finds the nodes of the row, and whether it can take the
\* whole row without an exception outside the inner try.
NodesExist(r) == r.hosts = {} => task \subseteq nodes
Resolvable(r) == r.wellFormed /\ NodesExist(r)

NodeList(r) == IF r.hosts = {} THEN task ELSE r.hosts

\* No row read: the queryset variable outside the loop body.
NoRows == [s \in {} |-> InitRow({}, 0)]

Ids(st) == {j \in JobId : st[j] # NoJob}

-----------------------------------------------------------------------------
Init ==
    /\ row \in [Script -> {InitRow(as, d) : as \in SUBSET Entry, d \in Date}]
    /\ task = Node
    /\ nodes = Node
    /\ now = 0
    /\ edits = 0
    /\ store = [j \in JobId |-> NoJob]
    /\ fired = {}
    /\ pc = "sleep"
    /\ snapshot = {}
    /\ read = NoRows
    /\ todo = {}
    /\ dbJobIds = {}
    /\ toRemove = {}
    /\ dirty = Script
    /\ moved = {}
    /\ skipped = {}
    /\ settled = FALSE

-----------------------------------------------------------------------------
(* The pass.                                                               *)

TakeSnapshot ==
    /\ pc = "sleep"
    /\ pc' = "rows"
    /\ snapshot' = Ids(store)
    /\ dbJobIds' = {}
    /\ UNCHANGED <<tables, now, store, fired, read, todo, toRemove, history>>

ReadRows ==
    /\ pc = "rows"
    /\ pc' = "scan"
    /\ todo' = {s \in Script : row[s].status = "on"}
    /\ read' = [s \in todo' |-> row[s]]
    /\ dirty' = {}
    /\ skipped' = {}
    /\ UNCHANGED <<tables, now, store, fired, snapshot, dbJobIds, toRemove,
                   moved, settled>>

\* The ids the entries es of a script contribute to db_job_ids: q is what its
\* dynamic query yielded before it ended or failed, f are the cron entries whose
\* args#id could not be set in Redis, which raises before the id is recorded,
\* and so does a back-fill entry without fix_date.
IdsOf(s, es, q, f) ==
    {s} \X (((es \cap CronKey) \ f)
            \cup (IF Dyn \in es THEN q ELSE {})
            \cup (IF read[s].fixDate # 0 THEN es \cap FixKey ELSE {}))

\* Fault variant: the run date is compared with the time cut to the second.
IsAddedInItsSecond(s, id) ==
    /\ id \notin snapshot
    /\ id[2] \in FixKey => read[s].fixDate >= now

\* Whether add_job is called for an id: not if it was in the snapshot, nor if
\* it is a back-fill whose date has passed.  The code asks run_date >= now();
\* run_date is a whole second and now() an instant inside the second "now", so
\* that is a later second.  (An instant on the second, to the microsecond, is
\* left out: the job would have to fire and a pass to list the store, query
\* the rows and get here within that microsecond.)
IsAdded(s, id) ==
    /\ id \notin snapshot
    /\ id[2] \in FixKey => read[s].fixDate > now

NewJob(s, id) ==
    IF id[2] \in FixKey THEN DateJob(NodeList(read[s]), read[s].fixDate)
                        ELSE CronJob(NodeList(read[s]))

\* The store after add_job for the ids of s that are to be added.  add_job on
\* an id that is still there raises ConflictingIdError, which leaves the old job.
StoreWith(s, ids) ==
    [j \in JobId |-> IF j \in ids /\ IsAdded(s, j) /\ store[j] = NoJob
                     THEN NewJob(s, j) ELSE store[j]]

\* One script: its nodes, then each of its entries.
ScanScript(s) ==
    /\ pc = "scan"
    /\ s \in todo
    /\ Resolvable(read[s])
    /\ todo' = todo \ {s}
    /\ \E q \in SUBSET DynKey, f \in SUBSET (read[s].args \cap CronKey) :
          /\ dbJobIds' = dbJobIds \cup IdsOf(s, read[s].args, q, f)
          /\ store' = StoreWith(s, IdsOf(s, read[s].args, q, f))
          /\ skipped' = skipped \cup {u \in {s} : f # {}}
    /\ moved' = moved \ {s}
    /\ UNCHANGED <<tables, now, fired, pc, snapshot, read, toRemove, dirty,
                   settled>>

\* The next iteration of the loop builds all of these again.
LeavePass ==
    /\ pc' = "sleep"
    /\ snapshot' = {}
    /\ read' = NoRows
    /\ todo' = {}
    /\ dbJobIds' = {}
    /\ toRemove' = {}

\* Fault variant: the pass skips a script it cannot take and goes on.
SkipScript(s) ==
    /\ pc = "scan"
    /\ s \in todo
    /\ ~ Resolvable(read[s])
    /\ todo' = todo \ {s}
    /\ UNCHANGED <<tables, now, store, fired, pc, snapshot, read, dbJobIds,
                   toRemove, history>>

\* A script the pass cannot take ends the whole pass in its outer except: before
\* its entries if a node is missing or eval fails, and otherwise at the first
\* malformed entry, with the jobs of the entries es before that one added.
AbortScan(s) ==
    /\ pc = "scan"
    /\ s \in todo
    /\ ~ Resolvable(read[s])
    /\ \E es \in {a \in SUBSET read[s].args : NodesExist(read[s]) \/ a = {}},
          q \in SUBSET DynKey, f \in SUBSET CronKey :
          store' = StoreWith(s, IdsOf(s, es, q, f))
    /\ LeavePass
    /\ settled' = FALSE
    /\ UNCHANGED <<tables, now, fired, dirty, moved, skipped>>

\* Fault variant: only cron jobs are compared with the rows.
EndScanCronOnly ==
    /\ pc = "scan"
    /\ todo = {}
    /\ pc' = "remove"
    /\ toRemove' = {j \in snapshot \ dbJobIds : j[2] \in CronKey}
    /\ UNCHANGED <<tables, now, store, fired, snapshot, read, todo, dbJobIds,
                   history>>

\* Fault variant: what was in the snapshot is never compared.
EndScanNoDiff ==
    /\ pc = "scan"
    /\ todo = {}
    /\ pc' = "remove"
    /\ toRemove' = {}
    /\ UNCHANGED <<tables, now, store, fired, snapshot, read, todo, dbJobIds,
                   history>>

EndScan ==
    /\ pc = "scan"
    /\ todo = {}
    /\ pc' = "remove"
    /\ toRemove' = snapshot \ dbJobIds
    /\ UNCHANGED <<tables, now, store, fired, snapshot, read, todo, dbJobIds,
                   history>>

RemoveJob(j) ==
    /\ pc = "remove"
    /\ j \in toRemove
    /\ store[j] # NoJob
    /\ store' = [store EXCEPT ![j] = NoJob]
    /\ toRemove' = toRemove \ {j}
    /\ UNCHANGED <<tables, now, fired, pc, snapshot, read, todo, dbJobIds,
                   history>>

\* remove_job of a date job that fired since the snapshot: JobLookupError.
AbortRemove(j) ==
    /\ pc = "remove"
    /\ j \in toRemove
    /\ store[j] = NoJob
    /\ LeavePass
    /\ settled' = FALSE
    /\ UNCHANGED <<tables, now, store, fired, dirty, moved, skipped>>

EndPass ==
    /\ pc = "remove"
    /\ toRemove = {}
    /\ LeavePass
    /\ settled' = TRUE
    /\ UNCHANGED <<tables, now, store, fired, dirty, moved, skipped>>

-----------------------------------------------------------------------------
(* The scheduler.  A date job leaves the store when its run date has come, *)
(* whether it runs or is dropped as a misfire.  Cron jobs stay.            *)

Due(j) == store[j].kind = "date" /\ store[j].run <= now

FireDateJob(j) ==
    /\ Due(j)
    /\ store' = [store EXCEPT ![j] = NoJob]
    /\ fired' = fired \cup {<<j, store[j].run>>}
    /\ UNCHANGED <<tables, now, pass, history>>

MissDateJob(j) ==
    /\ Due(j)
    /\ store' = [store EXCEPT ![j] = NoJob]
    /\ UNCHANGED <<tables, now, fired, pass, history>>

Tick ==
    /\ now < MaxTime
    /\ now' = now + 1
    /\ UNCHANGED <<tables, store, fired, pass, history>>

-----------------------------------------------------------------------------
(* Requests that change the tables.                                        *)

ChangeRows(S, r) ==
    /\ edits < MaxEdits
    /\ edits' = edits + 1
    /\ row' = [s \in Script |-> IF s \in S THEN r[s] ELSE row[s]]
    /\ dirty' = dirty \cup S
    /\ UNCHANGED <<task, nodes, now, store, fired, pass, moved, skipped, settled>>

\* edit_script_cfg for one script, or with applyToAll for all of the task's.
EditCfg(S, hs, as, d, e) ==
    LET live == {s \in S : row[s].status # "gone"} IN
    /\ live # {}
    /\ ChangeRows(live, [s \in Script |->
           [row[s] EXCEPT !.hosts = hs, !.args = as, !.fixDate = d,
                          !.wellFormed = e]])

\* script_disable and script_enable
ControlScript(s, st) ==
    /\ row[s].status # "gone"
    /\ ChangeRows({s}, [row EXCEPT ![s].status = st])

ScriptRemove(s) ==
    /\ row[s].status # "gone"
    /\ ChangeRows({s}, [row EXCEPT ![s].status = "gone"])

TaskUpdate(ns) ==
    /\ edits < MaxEdits
    /\ edits' = edits + 1
    /\ task' = ns
    /\ moved' = moved \cup {s \in Script : row[s].hosts = {}}
    /\ UNCHANGED <<row, nodes, now, store, fired, pass, dirty, skipped, settled>>

\* node_remove leaves the node's id in the node_ids of tasks.
NodeRemove(n) ==
    /\ edits < MaxEdits
    /\ n \in nodes
    /\ edits' = edits + 1
    /\ nodes' = nodes \ {n}
    /\ UNCHANGED <<row, task, now, store, fired, pass, history>>

Request ==
    \/ \E S \in {{s} : s \in Script} \cup {Script}, hs \in SUBSET Node,
          as \in SUBSET Entry, d \in Date, e \in BOOLEAN :
             EditCfg(S, hs, as, d, e)
    \/ \E s \in Script, st \in {"on", "off"} : ControlScript(s, st)
    \/ \E s \in Script : ScriptRemove(s)
    \/ \E ns \in SUBSET nodes : TaskUpdate(ns)
    \/ \E n \in Node : NodeRemove(n)

Refresh ==
    \/ TakeSnapshot
    \/ ReadRows
    \/ \E s \in Script : ScanScript(s) \/ AbortScan(s)
    \/ EndScan
    \/ \E j \in JobId : RemoveJob(j) \/ AbortRemove(j)
    \/ EndPass

Scheduler == \E j \in JobId : FireDateJob(j) \/ MissDateJob(j)

Next == Refresh \/ Scheduler \/ Tick \/ Request

Spec == Init /\ [][Next]_vars

\* The thread is a while True loop with a sleep: it always takes its next
\* step.  The APScheduler thread likewise wakes for a due job.
FairSpec == Spec /\ WF_vars(Refresh) /\ WF_vars(Scheduler)

-----------------------------------------------------------------------------
(* Properties.                                                             *)

TypeOK ==
    /\ row \in [Script -> Row]
    /\ task \subseteq Node
    /\ nodes \subseteq Node
    /\ now \in Time
    /\ edits \in 0 .. MaxEdits
    /\ store \in [JobId -> Job \cup {NoJob}]
    /\ fired \subseteq JobId \X Date
    /\ pc \in {"sleep", "rows", "scan", "remove"}
    /\ snapshot \subseteq JobId
    /\ \E S \in SUBSET Script : read \in [S -> Row]
    /\ todo \subseteq Script
    /\ dbJobIds \subseteq JobId
    /\ toRemove \subseteq JobId
    /\ dirty \subseteq Script
    /\ moved \subseteq Script
    /\ skipped \subseteq Script
    /\ settled \in BOOLEAN

\* The cron jobs a row asks for.
WantedCron(s) ==
    IF row[s].status = "on" THEN row[s].args \cap CronKey ELSE {}

StoredOf(s, K) == {k \in K : store[<<s, k>>] # NoJob}

\* After a pass that ran to its end, a script nobody has changed since that
\* pass read the rows has exactly the cron jobs its row asks for, whatever
\* fired, failed on other scripts, or changed in them, the tasks and the nodes
\* meanwhile; one whose own entries the pass failed on has no other jobs.
SettledJobsMatchRows ==
    (pc = "sleep" /\ settled) =>
        \A s \in Script \ dirty :
            /\ StoredOf(s, CronKey) \subseteq WantedCron(s)
            /\ s \notin skipped => WantedCron(s) \subseteq StoredOf(s, CronKey)

\* In the same states no back-fill or dynamic job is left of a script that is
\* off or gone, or has no such entry any more: what was removed from the table
\* cannot start again.
SettledNoOrphans ==
    (pc = "sleep" /\ settled) =>
        \A s \in Script \ dirty :
            /\ StoredOf(s, FixKey) \subseteq
                  (IF row[s].status = "on" THEN row[s].args ELSE {})
            /\ StoredOf(s, DynKey) # {} =>
                  row[s].status = "on" /\ Dyn \in row[s].args

\* A cron job leaves the store only in the removal phase, and only if the row
\* of its script, as the pass read it, does not ask for it, or the pass failed
\* on an entry of that script: an aborted scan, a failure in another script or
\* a concurrent edit never removes it.
RemovesOnlyUnwanted ==
    [][\A s \in Script : \A k \in CronKey :
          (store[<<s, k>>] # NoJob /\ store'[<<s, k>>] = NoJob) =>
              /\ pc = "remove"
              /\ s \in DOMAIN read /\ k \in read[s].args => s \in skipped]_vars

\* A back-fill runs at most once for one run date, although its job leaves the
\* store when it fires and the entry that asks for it stays in the row.
FixRunsOnce ==
    [][\A j \in JobId :
          FireDateJob(j) => <<j, store[j].run>> \notin fired]_vars

\* After a pass that ran to its end, the node list of a job is the one its
\* script was given when the pass read its row and worked through it, a script
\* left without nodes aside: the scheduler documents the node as part of the
\* granularity of a job.
SettledJobsRunOnTheirHosts ==
    (pc = "sleep" /\ settled /\ task \subseteq nodes) =>
        \A s \in Script \ (dirty \cup moved) : \A k \in CronKey :
            (NodeList(row[s]) # {} /\ store[<<s, k>>] # NoJob) =>
                store[<<s, k>>].nodes = NodeList(row[s])

\* As long as every enabled script can be resolved from some time on, the cron
\* jobs of a script that is switched off or deleted eventually disappear.
AllResolvable == \A s \in Script : row[s].status = "on" => Resolvable(row[s])

StoppedScriptsGoQuiet ==
    <>[]AllResolvable =>
        \A s \in Script :
            row[s].status # "on" ~>
                (row[s].status = "on" \/ StoredOf(s, CronKey) = {})
=============================================================================
