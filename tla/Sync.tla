-------------------------------- MODULE Sync --------------------------------
(***************************************************************************)
(* Data synchronisation (apps/sync/views.py): the tasks, the instances the *)
(* spider reports its runs to, the back-fills asked for by hand, and the   *)
(* lists of them read page by page.                                        *)
(*                                                                         *)
(* Every statement to MySQL commits on its own, except in the two handlers *)
(* that delete rows: these read in the snapshot of their transaction, hold *)
(* the rows they have written, and save whole rows.                        *)
(***************************************************************************)
EXTENDS Naturals, Sequences, FiniteSets

CONSTANTS
    SyncThread,     \* threads that handle requests
    TaskName,       \* names of tasks
    SyncRun,        \* runs of the spider: values of sync_id
    PageSize,       \* size, as the browser asks for it
    MaxDays,        \* bound of a back-fill's range
    MaxSync         \* bound on requests

VARIABLES
    strict,     \* whether the columns without null=True are NOT NULL
    tasks,      \* CrawlSyncTask rows in order of id
    instances,  \* CrawlSyncInstance rows in order of id
    dataDays,   \* number of CrawlSyncDataInstance rows, one for each day
    data,       \* CrawlSyncData rows in order of id
    req,        \* req[t]: the request t handles, between two statements
    browser,    \* somebody who reads the list of instances page by page
    asked,      \* requests so far (bound)
    raced,      \* runs with two first reports at work at once (history)
    removed,    \* instances a delete has confirmed (history)
    overtaken,  \* instances whose end was reported during a delete (history)
    killed      \* data_instance_ids whose kill_all was confirmed (history)

syncHistory == <<raced, removed, overtaken, killed>>
syncVars == <<strict, tasks, instances, dataDays, data, req, browser, asked,
              syncHistory>>

None == [op |-> "none"]
Outside == [page |-> 0, seen |-> {}, due |-> {}, gone |-> {}]

Init ==
    /\ strict \in BOOLEAN
    /\ tasks = <<>>
    /\ instances = <<>>
    /\ dataDays = 0
    /\ data = <<>>
    /\ req = [t \in SyncThread |-> None]
    /\ browser = Outside
    /\ asked = 0
    /\ raced = {}
    /\ removed = {}
    /\ overtaken = {}
    /\ killed = {}

Take(t) ==
    /\ req[t] = None
    /\ asked < MaxSync
    /\ asked' = asked + 1

Hold(t, r) == req' = [req EXCEPT ![t] = r]
Done(t) == Hold(t, None)

-----------------------------------------------------------------------------
(* Tasks.                                                                  *)

TaskCreate(t, name) ==
    /\ Take(t)
    /\ IF \E i \in DOMAIN tasks : tasks[i] = [name |-> name, deleted |-> FALSE]
       THEN UNCHANGED req
       ELSE Hold(t, [op |-> "task", name |-> name])
    /\ UNCHANGED <<strict, tasks, instances, dataDays, data, browser, syncHistory>>

InsertTask(t) ==
    /\ req[t].op = "task"
    /\ tasks' = Append(tasks, [name |-> req[t].name, deleted |-> FALSE])
    /\ Done(t)
    /\ UNCHANGED <<strict, instances, dataDays, data, browser, asked, syncHistory>>

\* The name is not checked, nor whether the task was deleted.
TaskUpdate(t, i, name) ==
    /\ Take(t)
    /\ tasks' = [tasks EXCEPT ![i].name = name]
    /\ UNCHANGED <<strict, instances, dataDays, data, req, browser, syncHistory>>

TaskDelete(t, i) ==
    /\ Take(t)
    /\ tasks' = [tasks EXCEPT ![i].deleted = TRUE]
    /\ UNCHANGED <<strict, instances, dataDays, data, req, browser, syncHistory>>

-----------------------------------------------------------------------------
(* Reports of runs.                                                        *)

RowsOf(run) == {i \in DOMAIN instances : instances[i].run = run}

\* Fault variant: rows that were deleted are left out.
ReportLive(t, run, ended) ==
    LET rows == {i \in RowsOf(run) : ~ instances[i].deleted} IN
    /\ Take(t)
    /\ tasks # <<>>
    /\ Hold(t, [op |-> "report", run |-> run, ended |-> ended,
                found |-> rows # {}])
    /\ raced' = raced \cup {r \in {run} : RowsOf(run) = {} /\ \E u \in SyncThread :
                   req[u].op = "report" /\ req[u].run = run /\ ~ req[u].found}
    /\ UNCHANGED <<strict, tasks, instances, dataDays, data, browser, removed,
                   overtaken, killed>>

\* sync_instance_create, once the task is found, deleted or not, and the rows
\* with the sync_id are fetched, deleted or not.
Report(t, run, ended) ==
    /\ Take(t)
    /\ tasks # <<>>
    /\ Hold(t, [op |-> "report", run |-> run, ended |-> ended,
                found |-> RowsOf(run) # {}])
    /\ raced' = raced \cup {r \in {run} : RowsOf(run) = {} /\ \E u \in SyncThread :
                   req[u].op = "report" /\ req[u].run = run /\ ~ req[u].found}
    /\ UNCHANGED <<strict, tasks, instances, dataDays, data, browser, removed,
                   overtaken, killed>>

\* Rows the open transactions have written, and those they have read.
Locked == UNION {req[u].written : u \in {v \in SyncThread : req[v].op = "delete"}}
Read == UNION {DOMAIN req[u].view : u \in {v \in SyncThread : req[v].op = "delete"}}

InsertInstance(t) ==
    LET r == req[t] IN
    /\ r.op = "report"
    /\ ~ r.found
    /\ instances' = Append(instances,
                           [run |-> r.run, ended |-> r.ended, deleted |-> FALSE])
    /\ Done(t)
    /\ UNCHANGED <<strict, tasks, dataDays, data, browser, asked, syncHistory>>

\* One UPDATE of all rows with the sync_id, which also sets their id to the one
\* of the first row found: with two rows it fails.  sync_id has no index, so it
\* waits for every row a transaction holds.
UpdateInstance(t) ==
    LET r == req[t] IN
    /\ r.op = "report"
    /\ r.found
    /\ Locked = {}
    /\ IF Cardinality(RowsOf(r.run)) = 1
       THEN /\ instances' = [i \in DOMAIN instances |->
                                IF instances[i].run = r.run
                                THEN [instances[i] EXCEPT !.ended = r.ended]
                                ELSE instances[i]]
            /\ overtaken' = IF r.ended THEN overtaken \cup (RowsOf(r.run) \cap Read)
                                       ELSE overtaken
       ELSE UNCHANGED <<instances, overtaken>>
    /\ Done(t)
    /\ UNCHANGED <<strict, tasks, dataDays, data, browser, asked, raced, removed,
                   killed>>

\* It is the victim of a deadlock, or has waited too long.
AbandonReport(t) ==
    /\ req[t].op = "report"
    /\ req[t].found
    /\ Locked # {}
    /\ Done(t)
    /\ UNCHANGED <<strict, tasks, instances, dataDays, data, browser, asked,
                   syncHistory>>

-----------------------------------------------------------------------------
(* Deleting instances.                                                     *)

\* The transaction takes its snapshot with the first row it gets.
InstanceDelete(t, ids) ==
    /\ Take(t)
    /\ Hold(t, [op |-> "delete", left |-> ids, view |-> instances, written |-> {}])
    /\ UNCHANGED <<strict, tasks, instances, dataDays, data, browser, syncHistory>>

\* Fault variant: no transaction, every save is seen at once.
SaveDeletedAtOnce(t, i) ==
    LET r == req[t] IN
    /\ r.op = "delete"
    /\ i \in r.left
    /\ IF r.view[i].ended
       THEN Done(t) /\ UNCHANGED instances
       ELSE /\ Hold(t, [r EXCEPT !.left = @ \ {i}, !.written = @ \cup {i}])
            /\ instances' = [instances EXCEPT ![i] = [r.view[i] EXCEPT !.deleted = TRUE]]
    /\ UNCHANGED <<strict, tasks, dataDays, data, browser, asked, syncHistory>>

\* Fault variant: the state of the run is not looked at.
SaveDeletedAny(t, i) ==
    LET r == req[t] IN
    /\ r.op = "delete"
    /\ i \in r.left \ Locked
    /\ Hold(t, [r EXCEPT !.left = @ \ {i}, !.written = @ \cup {i}])
    /\ UNCHANGED <<strict, tasks, instances, dataDays, data, browser, asked,
                   syncHistory>>

\* A row that waits or runs in the snapshot is saved, when no other transaction
\* holds it; one that has ended makes the whole transaction roll back.
SaveDeleted(t, i) ==
    LET r == req[t] IN
    /\ r.op = "delete"
    /\ i \in r.left
    /\ IF r.view[i].ended
       THEN Done(t)
       ELSE /\ i \notin Locked
            /\ Hold(t, [r EXCEPT !.left = @ \ {i}, !.written = @ \cup {i}])
    /\ UNCHANGED <<strict, tasks, instances, dataDays, data, browser, asked,
                   syncHistory>>

\* The commit: whole rows, as they were in the snapshot.
CommitDelete(t) ==
    LET r == req[t] IN
    /\ r.op = "delete"
    /\ r.left = {}
    /\ instances' = [i \in DOMAIN instances |->
                        IF i \in r.written
                        THEN [r.view[i] EXCEPT !.deleted = TRUE]
                        ELSE instances[i]]
    /\ removed' = removed \cup r.written
    /\ Done(t)
    /\ UNCHANGED <<strict, tasks, dataDays, data, browser, asked, raced,
                   overtaken, killed>>

\* Deadlock with another transaction, or a wait that is too long.
RollBack(t) ==
    /\ req[t].op = "delete"
    /\ req[t].left \cap Locked # {}
    /\ Done(t)
    /\ UNCHANGED <<strict, tasks, instances, dataDays, data, browser, asked,
                   syncHistory>>

-----------------------------------------------------------------------------
(* Back-fills asked for by hand.                                           *)

DataCreate(t, n) ==
    /\ Take(t)
    /\ Hold(t, [op |-> "days", left |-> n, last |-> 0])
    /\ UNCHANGED <<strict, tasks, instances, dataDays, data, browser, syncHistory>>

\* One row for each day.  modifier_id is not given, so a NOT NULL column ends
\* the request.
InsertDay(t) ==
    LET r == req[t] IN
    /\ r.op = "days"
    /\ r.left > 0
    /\ IF strict
       THEN Done(t) /\ UNCHANGED dataDays
       ELSE /\ dataDays' = dataDays + 1
            /\ Hold(t, [r EXCEPT !.left = @ - 1, !.last = dataDays'])
    /\ UNCHANGED <<strict, tasks, instances, data, browser, asked, syncHistory>>

\* Fault variant: whether there was a day at all is not looked at.
InsertDataAnyway(t) ==
    LET r == req[t] IN
    /\ r.op = "days"
    /\ r.left = 0
    /\ data' = IF tasks # <<>>
               THEN Append(data, [instance |-> r.last, deleted |-> FALSE])
               ELSE data
    /\ Done(t)
    /\ UNCHANGED <<strict, tasks, instances, dataDays, browser, asked, syncHistory>>

\* The data of the last day alone; without a task, or without a day, an
\* exception.  is_deleted is not given: it is NULL.
InsertData(t) ==
    LET r == req[t] IN
    /\ r.op = "days"
    /\ r.left = 0
    /\ data' = IF tasks # <<>> /\ r.last > 0
               THEN Append(data, [instance |-> r.last, deleted |-> FALSE])
               ELSE data
    /\ Done(t)
    /\ UNCHANGED <<strict, tasks, instances, dataDays, browser, asked, syncHistory>>

\* sync_data_delete: a row's status is never changed from 0, so none is refused,
\* and rows are only ever set to deleted: the transaction is one step.
DataDelete(t, ids) ==
    /\ Take(t)
    /\ data' = [i \in DOMAIN data |->
                   IF i \in ids THEN [data[i] EXCEPT !.deleted = TRUE] ELSE data[i]]
    /\ UNCHANGED <<strict, tasks, instances, dataDays, req, browser, syncHistory>>

\* No row has status 0 and status 1.
DataKillAll(t, d) ==
    /\ Take(t)
    /\ killed' = killed \cup {d}
    /\ UNCHANGED <<strict, tasks, instances, dataDays, data, req, browser, raced,
                   removed, overtaken>>

-----------------------------------------------------------------------------
(* sync_instance_list and page_helper.                                     *)

\* The rows of the list, those not deleted; it has the newest first.
Listed == {i \in DOMAIN instances : ~ instances[i].deleted}
Rank(i) == Cardinality({j \in Listed : i <= j})

\* Fault variant: total / size, rounded down.
TotalPagesDown(total) == total \div PageSize

TotalPages(total) ==
    IF total % PageSize = 0 THEN total \div PageSize ELSE total \div PageSize + 1

\* page_results of page_helper.
PageOf(page) ==
    {i \in Listed : PageSize * (page - 1) < Rank(i) /\ Rank(i) <= PageSize * page}

\* The browser asks for the next page, from the first, until the one it got is
\* the last.  due: the rows listed when it began; gone: those removed by then.
ReadPage ==
    LET p == browser.page + 1
        last == p >= TotalPages(Cardinality(Listed))
    IN /\ browser.page >= 0
       /\ p = 1 => asked < MaxSync
       /\ asked' = IF p = 1 THEN asked + 1 ELSE asked
       /\ browser' = [page |-> IF last THEN 0 - 1 ELSE p,
                      seen |-> browser.seen \cup PageOf(p),
                      due |-> IF p = 1 THEN Listed ELSE browser.due,
                      gone |-> IF p = 1 THEN removed ELSE browser.gone]
       /\ UNCHANGED <<strict, tasks, instances, dataDays, data, req, syncHistory>>

-----------------------------------------------------------------------------
Serve(t) ==
    \/ \E n \in TaskName : TaskCreate(t, n)
    \/ \E i \in DOMAIN tasks, n \in TaskName : TaskUpdate(t, i, n)
    \/ \E i \in DOMAIN tasks : TaskDelete(t, i)
    \/ InsertTask(t)
    \/ \E r \in SyncRun, e \in BOOLEAN : Report(t, r, e)
    \/ InsertInstance(t) \/ UpdateInstance(t) \/ AbandonReport(t)
    \/ \E ids \in SUBSET DOMAIN instances \ {{}} : InstanceDelete(t, ids)
    \/ \E i \in DOMAIN instances : SaveDeleted(t, i)
    \/ CommitDelete(t) \/ RollBack(t)
    \/ \E n \in 0 .. MaxDays : DataCreate(t, n)
    \/ InsertDay(t) \/ InsertData(t)
    \/ \E ids \in SUBSET DOMAIN data \ {{}} : DataDelete(t, ids)
    \/ \E d \in 1 .. dataDays : DataKillAll(t, d)

Next == ReadPage \/ \E t \in SyncThread : Serve(t)

Spec == Init /\ [][Next]_syncVars

-----------------------------------------------------------------------------
TypeOK ==
    /\ strict \in BOOLEAN
    /\ tasks \in Seq([name : TaskName, deleted : BOOLEAN])
    /\ instances \in Seq([run : SyncRun, ended : BOOLEAN, deleted : BOOLEAN])
    /\ data \in Seq([instance : 1 .. dataDays, deleted : BOOLEAN])
    /\ \A t \in SyncThread : req[t].op \in {"none", "task", "report", "delete", "days"}
    /\ asked \in 0 .. MaxSync
    /\ removed \cup overtaken \subseteq DOMAIN instances

\* The reports of a run go to one row, deleted or not, so a run whose row was
\* removed from the list does not come back, and no report fails for a second
\* row: unless two of its first reports were handled at the same time.
OneRowPerRun ==
    \A i, j \in DOMAIN instances :
        i # j /\ instances[i].run = instances[j].run => instances[i].run \in raced

\* What is deleted is what the confirmed requests named: one that is refused for
\* one of its rows, or loses a deadlock, leaves none of them deleted, and neither
\* a later report nor another request's save brings a row back.
DeletedAsConfirmed ==
    {i \in DOMAIN instances : instances[i].deleted} = removed

\* A run that has ended is removed from the list only if its end was reported
\* while the request was at work, and so saved a row it had read before.
KeepsEnded ==
    \A i \in DOMAIN instances :
        (instances[i].ended /\ ~ instances[i].deleted /\ instances'[i].deleted) =>
            i \in overtaken

EndedStaysListed == [][KeepsEnded]_syncVars

\* Reading the list page by page shows every instance that was there from the
\* start, whatever is added meanwhile, if nothing is removed before the last page.
LastPageCompletes ==
    (browser.page >= 0 /\ browser'.page = 0 - 1 /\ browser'.gone = removed) =>
        browser'.due \subseteq browser'.seen

BrowseSeesAll == [][LastPageCompletes]_syncVars

\* sync_data_kill_all: all the data of the back-fill is gone.
KilledAll ==
    \A i \in DOMAIN data : data[i].instance \in killed => data[i].deleted
=============================================================================
