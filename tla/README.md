# A verification project for WNCrawlWeb

WNCrawlWeb is a Django application that manages crawlers: it keeps the tables
of tasks, scripts and nodes, starts scrapy spiders on scrapyd nodes, runs them
on cron expressions, back-fills date ranges, and drives data synchronisation
jobs.  It runs as several uWSGI worker processes with threads
(`conf/crawl.ini`: `processes = 2`, `enable-threads = true`), and every process
starts the same schedulers.  What keeps the processes from doing each job once
each is a Redis lock, a Redis list and a pub/sub channel.  Around them, requests
of all processes read rows and save them whole, mostly without a transaction,
and handlers change the working directory of their process while debug runs do
the same.  Those protocols and those interleavings are what this project is
about.

The project has TLA+ modules translated from the Python source, TLC runs on
small instances, and TLAPS proofs for every value of the constants.
`PROJECT.json` maps each definition to the lines it models.

## 1. Inventory

Paths are relative to `src/webapps/`.

| Part | Source | State | Operations | Model |
|---|---|---|---|---|
| Crawl scheduler: refresh | `apps/crawl/scheduler/scheduler.py:213-320` | job store of the process, the ids of a pass | snapshot, read rows, add jobs, remove jobs | `JobRefresh` |
| Crawl scheduler: cron runs | `scheduler.py:46-89`, `server/db_conf.py` | Redis key of the batch lock, thread pool | `work_func` | `TickLock`, `TickOwner` |
| Crawl scheduler: back-fill | `scheduler.py:92-157` | channel subscription, index and last batch of the loop, locks | `schedule_fix_data` | `Backfill` |
| Back-fill windows | `scheduler.py:160-200` | none | `parse_date` | `ParseDate` |
| Dispatch and delay queue | `server/common/engine_kit.py`, `apps/crawl/scheduler/delay_scheduler.py`, `apps/crawl/utils.py` | Redis list `crawl_delay_queue`, jobs of each scrapyd | `schedule`, the delay thread, `job_cancel_all` | `EngineKit`, `RunLife` |
| Script rows | `apps/crawl/views/script_views.py`, `project_views.py:363-409` | `CrawlScript` rows | open a file, edit, enable, disable, start, remove | `ScriptRows`; what the refresh sees of them in `JobRefresh` |
| Starts and progress reports | `script_views.py:451-596` | `CrawlScriptProgress` rows, Redis `args#batch` | `script_start`, `collect_script_progress` | `ScriptReports` |
| Debug runs, working directory | `script_views.py:272-392`, `utils.py:259-366`, `build.py`, `parser.py:178-201` | working directory and environment of the process, project directories, eggs | every handler that calls `chdir`, the thread of a debug run | `WorkDir` |
| Tasks, projects, nodes | `task_views.py`, `project_views.py`, `node_views.py` | `CrawlTask`, `CrawlProject`, `CrawlNode`, `CrawlDeploy` rows | create, build, deploy, remove | `Catalogue` |
| Data sync: requests | `apps/sync/views.py` | `CrawlSyncTask`, `CrawlSyncInstance`, `CrawlSyncData(Instance)` rows | tasks, reports of runs, deletes in a transaction, back-fills, lists | `Sync` |
| Paging | `server/common/page_helper.py` | none | `page_helper` | `Sync` |
| Users and roles | `apps/user/views.py` | users, roles, links between them and permissions | create, edit, passwords, remove | `Accounts` |
| Data sync: scheduler | `apps/sync/scheduler/scheduler.py` | job store | empty and refill every three minutes | not modelled |
| Proxies, middleware, trigger check, toolkits, command line, rule spiders, configuration | see `PROJECT.json` | none, or one table with single statements | | not modelled |

**How the parts interact.** Requests change the rows. In every process the
refresh thread reads the rows every seven minutes (`scheduler.py:320`) and
brings that process's APScheduler job store in line with them. The store's cron
jobs call `work_func`, its date jobs `schedule_fix_data`; both take the Redis
lock of the batch and then go through the nodes, calling `engine_kit.schedule`
for each. This asks scrapyd for its jobs and either starts the run or pushes it
on `crawl_delay_queue`, from which the delay thread of any process pops it and
calls `schedule` again. Requests start scripts by hand through the same
`schedule`, and every run reports its progress by HTTP to
`collect_script_progress`, in whichever process gets the request. A spider that
ends a back-fill window publishes the batch id on the channel of the job, which
wakes the loops of all processes. Projects live in directories below the one the
process starts in; handlers and debug runs go there with `chdir`, build eggs
there and send them to the nodes.

**What is hard.**  Steps of several processes in any order; answers of scrapyd
that are stale when used; nodes that are down in the middle of a loop; workers
killed between two steps; a lock that expires while its owner is at work, or
before a late process asks for it; messages nobody is subscribed for; rows that
change in the middle of a pass, or between the `get` and the `save` of a
request; looking for a row and making it as two statements; a directory that
belongs to the process and not to the thread; a list that grows while its pages
are read.  `PROJECT.json` lists these hazards at their lines, with the
properties that would catch them.

**What makes each part correct.**

- Refresh: a finished pass leaves the jobs the rows ask for and no others; a
  failure in one script never takes jobs away from another; a back-fill that
  has fired does not fire again; a stopped script loses its jobs some time.
- Cron runs: one process takes a fire time, each node gets it once, the lock of
  one fire time does not swallow the next.
- Back-fill: windows in order, each once, all of them, each day in one of them,
  the thread ends.
- Dispatch: no run lost or doubled between queue, threads and nodes; the limit
  is exceeded by a bounded number; a run never starts while its task is removed; the
  queue drains; cancelling stops what runs.
- Progress reports: what was confirmed stays recorded, concurrent reports of one
  run are all recorded, a failure's message is not lost, reports are not
  refused once the run's arguments are stored.
- Rows: what the last confirmed request wrote is what is there; what handlers
  `get` by name is there once; a deletion that is confirmed is complete, and
  one that is refused changes nothing.
- Working directory: the process ends up where it began, and what is shown,
  built and shipped is the project that was asked for.

Two things a reader of the source should know.  The crawl schedulers start when
`apps/crawl/scheduler` is imported, and that import is commented out in this
version (`apps/crawl/urls/task_urls.py:3`), as is the start of the sync
scheduler (`apps/sync/scheduler/scheduler.py:143`).  The models describe the
crawl schedulers as they run when they are enabled.  And some names this version
uses are missing from it (`apps.alert.models`, `CrawlUserAlertRel`,
`DataSource`); what would use them is modelled as the exception it raises, or
left out.

## 2. Modules

### JobRefresh

One process: its refresh thread, its job store, the date jobs that fire, the
clock, and the requests that change scripts, tasks and nodes.

| Code | Model |
|---|---|
| `redis_job_ids` (scheduler.py:226) | `snapshot`, taken by `TakeSnapshot` |
| `CrawlScript.objects.filter(is_disable=0)` (229) | `ReadRows`: all enabled rows at once into `read` |
| node list, `eval(args)` (231-242), the keys of an entry (244-246), outside the inner `try` | `Resolvable`; `AbortScan` ends the pass when it does not hold, with the jobs of the entries before the failure added |
| the entries of one script (243-308) | `ScanScript`: `IdsOf` are the ids that get into `db_job_ids`, `IsAdded` says when `add_job` is called |
| an entry fails inside the inner `try` (295-297, 306-308) | the sets `q` (dynamic rows seen) and `f` (cron entries not recorded) |
| `redis_job_ids - db_job_ids` (310) | `EndScan` |
| `remove_job` (312), `JobLookupError` | `RemoveJob`, `AbortRemove` |
| end of the `try`, sleep (314-320) | `EndPass` |
| APScheduler date jobs | `FireDateJob`, `MissDateJob` |
| `edit_script_cfg`, `script_disable`, `script_enable`, `script_remove`, `task_update`, `node_remove` | `EditCfg`, `ControlScript`, `ScriptRemove`, `TaskUpdate`, `NodeRemove` |

A job id is a pair of script and key; the md5 of trigger and arguments is a
model value. One pass works through its scripts in any order, one step each:
only the scan of one script is atomic, and rows, tasks, nodes, and date jobs
change between the steps. The variables `dirty`, `moved`, `skipped`, `settled`
and `fired` are history: scripts changed since they were read, scripts given
other nodes through their task since they were worked through, scripts with an
entry the pass failed on, whether the last pass ran to its end, date jobs that
have run. The clock counts whole seconds: the code compares a run date with
`now()` to the microsecond, so a date that is added is in a later second, and
APScheduler fires it from that second on.

Every process has a job store of its own and nothing is shared between two
refresh threads but the tables they read, so one process is enough.

### TickLock and TickOwner

One cron job in several processes.  `Submit`, `SkipInstance` and `Misfire` are
what APScheduler does with a due fire time (`coalesce`, `max_instances = 1`,
`misfire_grace_time = 60`); `Acquire` and `Locked` are `dlm.lock(batch, 30000)`
(the lock is never released, `scheduler.py:89` is a comment); `Dispatch`,
`FailDispatch` and `AbortLoop` are one node of the loop; `Restart` is a worker
that is killed.  Time is discrete.  The variable `late`, chosen at the start
and never changed, says how late a process can be with a fire time; it is an
assumption on the environment, not on the code, and one run covers all its
values.

`TickOwner` is the abstract specification: a fire time is taken by its owner,
and once more for each life of the lock that fits into the time processes have
to come for it (`slack`); each owner reaches a node at most once.
`OwnershipSpec` is `TickOwner!Spec` under the identity mapping of `claims` and
`sent`, with the smaller of `late` and `Grace` for `slack`.

The code's proportions matter here: the lock lives 30 seconds, but a run is
accepted up to 60 seconds late.  The lock therefore gives single ownership only
if no process is as late as the lock lives; what holds whatever the delays is
that a fire time is taken at most three times (`ClaimsPerTickBounded`).

### ParseDate and Backfill

`ParseDate` is `parse_date` with the table of months it uses, next to the
calendar itself.  Dates are the days of the years `FirstYear` up to `LastYear`;
the run has 2000 and 2001, the first of which is a leap year by the rule of 400.

`Backfill` is `schedule_fix_data` in several processes, over the windows of a
range.  `First` and `Receive` are the turns of the loop that go for a window
(`GoFor` is the lock), `StartRun` the run on the first node, `Finish` the
spider's `publish`, `Expire` the lock's end, `Die` any exception or a killed
worker, `RunDies` a spider that ends without publishing.  A process may be down
at the run date (`"off"`).

The process that does not get a window's lock waits for the same batch id as
the one that did.  If the lock has expired by the time it asks, it starts the
window again: `StartsOnce` says that this happens at most once per process, and
`WindowAfterPredecessor` that windows stay in order all the same.  The loser of
the last window's lock waits for one more message and may never get it: that
`OneWindowAtATime` and `ThreadEnds` are stated for one process (`Alone`) is on
purpose.  `RunsTileRange` says which days have been run once a process has come
to the end of its loop: all of them, by one window each, but for the end of a
range by weeks or months that falls on the first day of a window, which the code
leaves out (`start < end`, lines 178-186).  `NeverStandsStill` is what keeps the
back-fill going: without a failure the window after the last reported one is
running, or some process is heading for it (`Heading`: it is about to start it,
or has the message in its inbox that will make it).  The loser of a lock alone
would never do: the winner must be among those who hear the end of its window.

### EngineKit

`engine_kit.schedule`, called by dispatching threads (`Caller`) and delay
threads (`Worker`), with each request to scrapyd a step: `ListRunning`,
`ListPending`, `ReadTask`, `Push` or `Start`, and `Fail` when the node is down
or the task's row is gone. `Wake`, `Look`, `Pop`, `PopNothing`, `CheckHealth`
are the delay thread. `Launch`, `Finish` are scrapyd, `NodeDown`, `NodeUp`,
`Restart` the environment, `TaskRemove`, `TaskBack`, `SetHosts` and the `Cancel`
actions the requests. `schedule` finds the task by the name of the project, and
other requests can make such a row live after a removal (`TaskBack`):
`task_deploy` saves the whole row it read before (`project_views.py:306-309`),
`task_update` and `task_create` write any columns they are sent. So
`RemovedTaskNeverStarts` speaks of the time until then. A cron job dispatches to
the nodes its script had when the job was added, so `Begin` does not ask for the
present hosts; and a script without hosts has the nodes of its task, so
`SetHosts` leaves it at least one.

The code compares `current_count > max` with counts from two requests made one
after the other.  `OvershootBounded` says how far that can go wrong: what waits
on a node passes the limit by one start per thread, and since a run that moves
from pending to running between the requests is in neither count, what is on
the node in all can be twice that.

`RunLife` is the abstract specification of all this, seen from one run: it goes
from place to place, one at a time, and the only ways are those of its life. A
thread holds it, then accepts it or puts it off; it is accepted only while the
task's row is there; what was put off comes back to a thread's hands and has to
be accepted anew; it is started once, on the node it was dispatched for; and
lost only out of a thread's hands and with trouble. The row can be removed
(`Disturb`) and be there again (`Restore`). `RunLifeSpec` maps `places[i]` to
the set of all places that hold run `i` (`Whereabouts`) and `nodes[i]` to all
nodes that have it, so that a run in two places is no state of `RunLife`. A
thread has accepted a run when it has read the row and is at the call that
starts it. The mapping leaves out the counts: that a run is accepted says
nothing of the limit, which is `OvershootBounded`.

### ScriptReports

`script_start`, `script_remove` and `collect_script_progress` as concurrent
requests.

| Code | Model |
|---|---|
| `objects.get`, the list of batches (script_views.py:525-546) | `BeginStart` |
| `engine_kit.schedule`, then `crawl_redis.set` (573-575 and its two siblings) | `StartRun`, `SetArgs` |
| `except` (594) at any point | `FailStart` |
| `crawl_script.save()` (591) | `EndStart`; the whole row is saved, so one that was removed is inserted again |
| `crawl_redis.get`, `bytes.decode` (464-465) | `GetArgs`, `Refuse` |
| `if script_progress`, where the query is evaluated (469-473) | `Look`: the row is read, with its message |
| the kept message, `update` (475-484) | `MessageToSet`, `Update` |
| query for the script, `create` (488-494) | `FindScript`, `Create` |
| `except IntegrityError` (495-507) | `LookAgain`, `UpdateAgain` |

A batch id is the md5 of the arguments, or of the second of the start, and says
neither which script nor which node it is for; the model lets scripts share
ids.  The column `batch` is unique, while rows are looked up by script and
batch.  So the second of two scripts with one id can neither find the row nor
insert one: `TurnedDownOnlyForAnother` says that this is the only way a report
of a script that exists is turned down, and `ConfirmedStaysRecorded` that the
first script does not lose its row.  After a report of a failure the name
`CrawlUserAlertRel` raises, so the row is updated and the answer is a failure
all the same; `Update` and `UpdateAgain` have both.

Abstracted: the statuses 1 and 2 are handled alike and are one; the counters
and times of a row are left out; a report is of a run that was started by
`script_start` and carries its batch id as its `arg_key`, or none; there is one
`script_start` at a time for a script.  `crowded`, `unset`, `accepted` and
`answer` are history.

### WorkDir

One web process.  `conf/crawl.ini` has no `threads`, so a process handles one
request at a time; but `debug_script` starts a thread for each run, which stays
in the project's directory until the spider ends, so there is one `Handler`
(`OneRequestAssumption`) and any number of `Debugger`s.

`Steps` lists, for each handler, the statements that matter here in their order;
there is an action for each kind of statement: `Save`
(`work_path = os.getcwd()`), `Resolve`
(`os.path.abspath(join(os.getcwd(), ...))`), `Enter` and `Restore` (`os.chdir`),
`Query` (a query or call that may fail), and those that read, make, build and
ship. `Leave` is an exception: on to the `finally`, for handlers that have one,
or out. Copying the template, moving the module and rendering can raise at any
file: `Copy`, `Place` and `Render` have an outcome that leaves part of the
project (`BreakOff`, `PartOf`). `Kill` ends the process with all its threads at
any statement; uWSGI's master (`master = true`) starts it again in the root, and
what is on the disk stays. A directory is the sequence of projects on the way to
it, because a handler that starts while another thread is in project `q` looks
for `p` in `q/projects/p`. `env` is `SCRAPY_SETTINGS_MODULE`, which
`get_project_settings` sets and `detect_project_spiders` deletes.

`disturbed`, `strayed`, `spoilt` and `halved` are history.  The properties hold
exactly up to these conditions, which say what concurrency costs here: a
handler that begins while a debug run is away goes back to where it found the
process and leaves it there; and what it built in between may be the other
project's.

`HalfMade` is a directory that a creation has left, or is about to leave,
without all its files: `project_create` makes the directory before it looks at
the description (`project_views.py:176-179`), so a request refused for want of
one leaves it empty, and one that raises later or dies leaves part of it. It
matters twice. The project can then neither be created again nor built
(`HalfMadeOnlyIfBroken`: nothing else leaves one); and if the directory is below
another project's, because a debug run was away at the time, scrapy finds that
project's `scrapy.cfg` above it, so that a later scan of spiders goes by the
other's settings though nobody disturbs it. `OwnUnlessDisturbed` concedes that
case. TLC's shortest way there takes two debug runs, two creations and a scan;
it was the proof that asked for it.

### Sync

Each statement of `sync/views.py` commits on its own, but for
`sync_instance_delete` and `sync_data_delete`, which are in a transaction.
`InstanceDelete` takes the snapshot (REPEATABLE READ); `SaveDeleted` is one
turn of the loop, which reads the row in the snapshot, refuses one that has
ended (`Result.fail` after a rollback) and else saves all its columns, which
locks the row; `CommitDelete` makes them visible.  `RollBack` and
`AbandonReport` are a deadlock or a lock wait that ended.  `Report`, and then
`InsertInstance` or `UpdateInstance`, are `sync_instance_create`.  `DataCreate`,
`InsertDay` and `InsertData` are `sync_data_create`, of which `strict` says
whether the columns it leaves out may be NULL.  `browser` reads
`sync_instance_list` page by page through `page_helper`.

A report that comes while a delete is at work waits for the rows it holds, or
slips in before; in the second case the end of the run is overwritten by the
row of the snapshot.  `EndedStaysListed` says that this is the only way in which
a run that has ended leaves the list.

### Catalogue

The rows of tasks, projects, nodes and deployments, each statement a step.
`update_or_create(**data)` of `project_create` looks for a row with all of the
data, and is before the directory is checked and made, either of which can end
the creation with the row in the table (`MakeProject`); `project_build` looks
for the row and then makes or changes it; `task_deploy` saves the task, then for
each node marks the old deployments and makes the new one (`update_or_create`
with the present time always inserts); `node_remove` deletes the deployments and
then the node. A request holds the row it has read in `creq[t]` until it saves
it. `RowsFoundOnce` says when the `get`s of the other handlers find exactly one
row; `extra`, `orphaned` and `crossed` record the three ways in which they do
not.

### ScriptRows

The `CrawlScript` rows of one task, between requests and the scheduler's
threads.  Most handlers `get` a row, do something that can take seconds, and
`save()` it: all columns are written back, and a row that was removed meanwhile
is inserted.  `Got` and `SaveRow` are these two ends, with `set` as what the
handler means to change.  `wanted` is the table as the requests meant it, and
`ChangesKept` compares it with the table there is: they differ only on rows a
thread saved that had been written since it got them (`spoiled`).

### Accounts

Users, roles, and their links. A request that sets links marks all the old ones
as deleted and inserts the new ones one by one (`Unlink`, `Link`, `Confirm`);
users are saved whole. Every statement commits on its own and may fail, as may
the loop over a list that was not sent and the write to Redis: `BreakOff` ends a
request wherever it is, with what it has written in the tables. `live` is
compared with `given`, the links the last request asked for, and `users` with
`meant`: an owner is linked to all of `given` if that request was confirmed, and
to part of it if it broke off among its links (`broken`).

### Requests

`Sync`, `Catalogue`, `ScriptRows` and `Accounts` share no table, so what holds
of each alone holds of all together, and interleaving them would show nothing:
the composition starts all four, and `part`, chosen in `Init`, says which one
moves. It names their properties; `MCRequests` only adds the symmetry and keeps
roles and users apart. Where these components do meet the others they meet in
the tables of `JobRefresh` and in the history of `ScriptReports`, which model
the same handlers' effect there.

## 3. Runs

Each run is a module `MC*` with a configuration; the checked properties are
those of the configuration. The type invariants of `JobRefresh`, `TickLock` and
`EngineKit` are left to their proofs.

| Run | Instance | Shows |
|---|---|---|
| `refresh_scripts` | 2 scripts, 1 node, 1 cron entry, 2 table changes, fair | `SettledJobsMatchRows`, `RemovesOnlyUnwanted`, `StoppedScriptsGoQuiet` |
| `refresh_kinds` | 1 script with a cron, a back-fill and a dynamic entry, clock 0..2, 2 table changes | `SettledNoOrphans`, `FixRunsOnce` |
| `refresh_hosts` | 1 script, 2 nodes, 1 table change | violation: a change of the script's nodes does not reach a stored job |
| `lock` | 3 processes, 2 nodes, 2 fire times, lateness 0..3, grace time twice the lock's life | `ClaimsPerTickBounded`, `LockedOnlyByOwnTick`, `OwnershipSpec` |
| `engine_limit` | 2 callers, limit 1, 7 runs | `OvershootBounded` |
| `engine_queue` | 1 caller, 2 delay threads, 2 runs, 2 faults, 1 cancel, fair | `RemovedTaskNeverStarts`, `NothingLostOrDoubled`, `QueueDrains`, `RunLifeSpec` |
| `engine_cancel` | 2 nodes, 1 run, 2 cancels or host changes | violation: cancelling misses a node that is no longer among the hosts |
| `backfill` | 2 processes, 11 ranges with up to 4 windows, 1 fault, fair | `TypeOK`, `WindowAfterPredecessor`, `OneWindowAtATime`, `RunsTileRange`, `StartsOnce`, `NeverStandsStill`, `BackfillCompletes`, `ThreadEnds` |
| `scripts_reports` | 2 scripts, 1 shared batch, 2 handlers, 3 reports | `TypeOK`, `ConfirmedStaysRecorded`, `TurnedDownOnlyForAnother`, `MessageKept`, `RefusedOnlyEarly` |
| `work_dir` | 1 handler, 2 debug threads; 2 projects and any 3 requests, runs or kills, or 3 projects and 5 of some kinds | `TypeOK`, `QuietAtRoot`, `OwnUnlessDisturbed`, `HalfMadeOnlyIfBroken` |
| `requests` | 2 threads in each part; bounds below | `TypeOK`, `OneRowPerRun`, `DeletedAsConfirmed`, `EndedStaysListed`, `BrowseSeesAll`, `RowsFoundOnce`, `ScriptsAsConfirmed`, `OneRowPerName`, `AccountsAsConfirmed` |
| `sync_kill_all` | as `requests` | violation: killing all instances kills none |

**Why the bounds are enough.** Two table changes let a script be changed while
another is unresolvable, a node be removed and a script be disabled in the same
pass, and a script be edited twice within one pass. The second script of
`refresh_scripts` is there for one script's failure against another's jobs; the
clock of `refresh_kinds` reaches past both dates a back-fill can have, so that
jobs fire, misfire and are asked for again. In `lock`, three processes reach the
bound of three claims, and the latest of them are past the grace time. Seven
runs in `engine_limit` are one more than the bound `2 * (1 + 2)`; in
`engine_queue` the limit is 0, so that two runs already mean a full node and a
waiting one. The ranges of `backfill` are days, weeks that end inside and on the
edge of a window, months over both Februaries, one day and none; two processes
are a winner and a loser of each lock. In `scripts_reports` two handlers race
for the insert and for the update, from one script or from two, and the third
report finds what the race left; batches do not interact, so one is enough. In
`work_dir` two debug runs overlap with a request; a third activity before or
after them is what finds what they left. A directory left below another
project's takes more, so the run also has up to five activities when the
requests are creations, scans and builds, and the debug runs, one at a time, of
a project they are not for, as long as what a creation leaves behind is empty or
whole (`Deep` in `MCWorkDir`); the creations that stop in the middle are in the
three activities of `Wide`.

In `requests` two threads are the two statements' owners a race needs.
`MaxSync = 6` is reports of two runs, a delete and a reader, whose pages of
`PageSize = 2` are two; `MaxCat = 4`, `MaxJob = 2` let a project be created
twice, built and deployed; `MaxRowOps = 4`, `MaxRow = 2` let a row be started,
edited, removed and made anew; `MaxUserOps = 3`, `MaxRows = 2` let a name be
used, given up and used again; roles and users share no table, so a behaviour of
`MCSpec` is of requests for roles or of requests for users. `MaxDays = 2` is
more than one day. Every other bound is named in its configuration (`MaxEdits`,
`MaxFaults`, `MaxCancels`, `MaxTime`, `Horizon`, `MaxReports`, `MaxWork`).

**Deadlock.**  All configurations switch the check off: the systems stop when
their bounds are reached, or when all windows and runs are over.

**Symmetry** is used where all properties of the run are invariants or action
properties and no definition singles out an element of the set.

**Fairness.**  Stated only where a liveness property is checked.

- Refresh and delay threads are `while True` loops that catch every exception:
  weak fairness of their steps.
- APScheduler's thread wakes for a due job: weak fairness of date jobs.
- A pool thread or request that is in a call goes on with it.
- Runs on scrapyd start and end, and a node that is down comes back: needed for
  `QueueDrains`, since a full or dead node keeps runs waiting for ever.
- No fairness for requests, failures, or the start of a dispatch.

`StoppedScriptsGoQuiet` also assumes that from some time on all enabled scripts
can be resolved: while one cannot, every pass is aborted before its removals,
and stopped scripts keep their jobs.  This is what the code does, not a
simplification of the model.

**Findings.**  Three runs end in a violation of what the source documents.  In
`refresh_hosts`, the doc of `work_func` (`scheduler.py:49-52`) counts the
executing node to the granularity of a job, but the id of a job has no node in
it, so a job that exists is not replaced when `hosts` or `node_ids` change.  In
`engine_cancel`, `job_cancel_all` is documented to stop the script on all nodes
(`script_views.py:634`), but visits only those it is configured for now.  In
`sync_kill_all`, `sync_data_kill_all` is documented to kill all back-fill
instances (`sync/views.py:413`), but its condition asks for a status that is 0
and 1.

**What the other properties concede.** Several invariants name, as history
variables, the interleavings after which they no longer hold. These are not
assumptions that the interleavings do not happen: the runs contain them, and the
properties say that nothing else goes wrong. They are: two creations of one name
at once (`raced`, `doubled`, `twice`, `extra`), the reports that meet on a batch
(`crowded`), whole rows saved over later writes (`spoiled`, `undone`,
`overtaken`), links of two requests mixed (`mixed`), deployments at once or
during a node's removal (`crossed`, `orphaned`), and threads that move the
process under each other (`disturbed`, `strayed`, `spoilt`), and requests that
fail half way: creations of projects (`extra`, `halved`) and edits of links
(`broken`, for which `AsAsked` still bounds what is left). The notes of the
hazards in `PROJECT.json` say where a hazard is such an exception.

**Mutants.**  For every checked property `PROJECT.json` names a definition and
a faulty variant of it (in the modules under "Fault variant") with which the
property fails in the same run.

## 4. Proofs

The modules `*_proofs` hold machine-checked proofs for all values of the
constants.  They rest on the assumptions of the modules: `BoundsAssumption` and
`KeysAssumption` of `JobRefresh` (bounds and dates are naturals, the kinds of
keys are disjoint), `BoundAssumption` of `ScriptReports`, `ConstantsAssumption`
of `TickLock` (bounds are naturals, the lock's life is positive, fire times are
positive), `CalendarAssumption` of `ParseDate` (the calendar has a year or more)
and `ConstantsAssumption` of `Backfill` (the dates of a range are in the
calendar, as those that `strptime` returns are; the bound is a natural), that of
`EngineKit` (bounds are naturals, callers and delay threads are finite, disjoint
sets, and no run is called `NoRun`),
`BoundsAssumption` of `Requests` (bounds are naturals; pages have a row or more,
and the tables that start with a row have room for it), and of `WorkDir`
`MaxWorkAssumption` (a natural) and `OneRequestAssumption`.

**JobRefresh_proofs.**  `TypeCorrect`, `JobsMatchRows`, `NoOrphans`,
`OnlyUnwantedRemoved`, `FixOnce`.  `SettledJobsMatchRows` says something only
of the states between passes, so it is not inductive.  `IInv` follows a pass:
`Read` (what was read agrees with the rows that are not dirty), `Collected`
(`dbJobIds` holds what the scripts worked through ask for, up to `skipped`),
`Stored` (what is in the store is in the snapshot or was asked for in this
pass, and what was asked for is stored), `CronIsCron` (keys and kinds of jobs
agree), `FiredIsOver` (a recorded date has passed) and `Settled`.

**TickLock_proofs.**  `TypeCorrect`, `BoundedClaims`, `NoTickLostToAnother`,
`ImplementsOwnership`.  The inductive invariant `Timing` relates the lock to
the fire times: no process is more than `late` behind or ahead, every claim of a
fire time has pushed the end of the lock by a life (`t + claims[t] * TTL <=
lockUntil`), and the lock belongs to a fire time it was got for.  The bounds on
claims follow by arithmetic at the moment the lock is got.  `Covered` counts:
the dispatches of a fire time to a node and the loops still heading for it are
together no more than the claims, with the library's lemmas on cardinality.
`ImplementsOwnership` is the refinement, without a condition on the delays:
every step is a step of `TickOwner` or leaves it unchanged.

**EngineKit_proofs.** `TypeCorrect`, `RunsAreKept`, `RemovalHolds`,
`OvershootIsBounded`, `ImplementsRunLife`. `IInv` is `Placement` (each run is
`At` one place: fresh, in a thread's hands, on the queue, waiting, running,
ended or lost; no two threads, positions or nodes share one), `Busy` (a thread
has a run in hand from the moment it has taken one), `Targets` (what a cancel is
about to stop has reached a node), `Faultless` and `Finite`. `MoveOne` reduces
each step to the run it moves. `RunsAreKept` counts the places of `Placement`.
`RemovalHolds` adds `Barred`: while the row is not live the runs in `doomed` are
with no thread past the reading of the row, and `TaskBack` empties `doomed`.
`OvershootIsBounded` adds `Accounted`: the threads that have been let through by
what they have listed so far count as if they had started, in `Waiting` those
that have seen at most `Max` waiting, in `Loaded` those that have seen at most
`Max` running. A listing lets a thread in only when the bound has room for all
threads; a start moves one from the account to the node. `ImplementsRunLife` is
the refinement, step by step, and needs no more than `IInv`: `LivesFit` turns
the place of a run into its place in `RunLife`, `LifeMoves` does a step's move,
and there is a lemma for each action (`BeginLife` ... `EndLife`). That a lost
run means trouble is `Faultless`: a call fails only when a node is down or the
row is gone, both of which have been counted.

**Backfill_proofs.** `TypeCorrect`, `WindowsInOrder`, `EachWindowOnce`,
`OneAtATime`, `RangeIsTiled`, `GoesOn`. `IInv` is `Places` (where a waiting
process stands: it waits for its last window or for the one it was refused),
`Heard` (messages tell the truth), `Order` (the window before any window started
or aimed at has been reported) and `Once` (a process has started only windows up
to its index). `Solitary` adds, for a single process, that nothing runs behind
the window it is at.

`RangeIsTiled` is about what `parse_date` computes, for every range and every
calendar.  The library's induction theorems cannot be used here, but the order
of the naturals is well-founded (`NatLessThanWellFounded`), so a set of naturals
that is not empty has a least member (`LeastNat`), and an argument by the least
counterexample needs no operator parameter.  This is how `FirstDayDefined` and
`CutsExist` show that the two recursive functions exist and satisfy their
equations on their whole domain: a function on the part below `n` extends to `n`.
The calendar follows: `OneMonthIsCalendars` (the code's table of months is the
calendar's), `FirstDayGrows`, `MonthOfFirstDay` (each date is in one month).
`Tiling` says of a list of windows that it begins at a day, ends where the loop
ends, and leaves neither gap nor overlap; `TilingExtends` puts a window in front,
and `WindowsTile` takes the least stretch that would not be tiled.  `AllRan` is
the other half: a process at the end has been through all windows, and what it
did not start itself had been reported, hence run.  That the windows are a list
at all (`Windows(r) \in DateList`) is a lemma now, where it used to be assumed.

`NeverStandsStill` is not inductive, and `GoesOn` adds what it rests on (`Going`):
a process has gone past reported windows only (`Past`); a lock is held for a
window that was started or is about to be (`Taken`); and a window that was
started runs or has reported (`Outcome`).  So a process that is refused a lock
leaves the window with somebody, and a window whose run ends leaves its message
with who started it.  It is the safety half of `BackfillCompletes`; that whoever
is heading for a window gets there is fairness.

**ScriptReports_proofs.**  `TypeCorrect`, `ConfirmedRecorded`, `TurnedDown`,
`RefusedEarly`, `MessageIsKept`: all that the run checks.  `IInv` is `Known`
(reports and rows are of runs that were started), `Seen` (the row a handler has
found is still there and still its script's), `Stored` (the arguments of a run
are in Redis, about to be, or their write failed).  `HandleFacts` sums up once
what a step of a handler can do to the table and to the others.  The message
needs `Alone` besides: a handler that met no other on its batch knows the row
as it is, so what it read before it writes is still true.

**DataRequests_proofs** and **Requests_proofs** are about `Requests`: every
property the run checks, for any number of threads, rows and names.  A step of
the composition is a step of each part or leaves it alone (`PartsStep`), so each
part has an inductive invariant of its own.  All four have in common that they
follow a request between its statements: what thread `t` holds is one of a few
records, and says what the table was when it was read.

- `Sync`: `OneRowPerRunHolds`, `DeletedAsConfirmedHolds`,
  `EndedStaysListedHolds`, `BrowseSeesAllHolds`. `SyncInv` has `FirstReports` (a
  report that found no row is the only one at work on its run, and there still
  is no row, unless the run is in `raced`), `Snapshots` (the snapshot of a
  transaction is of rows that are there, for the same runs; where it has missed
  an end, the end came during the request) and `Browsing` (what was due is seen
  or behind the pages read). A row's place in the list, `Rank`, is a
  cardinality; `RankGrows` says that new rows push a row back and never forward,
  and `TotalPagesCover` that as many pages as `page_helper` counts hold all
  rows. The two action properties follow from the invariant at the step.
- `Accounts`: `OneRowPerNameHolds`, `AccountsAsConfirmedHolds`. `HeldUsers` (the
  row a thread is going to save is the user's, but for what others have saved
  since it read it), `Creations` (nobody else has a name that is going to be
  given, or is about to have it) and `Links` (the links an owner has and those a
  request still has to insert are together what it was asked for, unless another
  is at work on them) make it inductive. A request that breaks off among its
  links leaves a subset of them, by `Links` (`BreakOffKeeps`).
- `ScriptRows`: `ScriptsAsConfirmedHolds`. `HeldRows` is that a thread not in
  `late` holds the row as it is, and that one in `late` at least has its name
  right; without the name, a row that is saved after its removal could be
  another script's. `Makings` does for creations what `Creations` does for
  users.
- `Catalogue`: `RowsFoundOnceHolds`. `OneRowPerProject` speaks of live rows and
  of names, and is not inductive: a refused creation must be told from one that
  will be. `ProjectRows` says which thread is going to be refused: a row whose
  name has no directory is about to get it (`Making`), and of any two rows with
  one name, deleted or not, one is `Making` or the name is in `extra`. When the
  directory is made, the other row's thread is still to come, and finds it; a
  creation that cannot make it puts the name in `extra` too. `NodeRows` adds
  that a node being removed has lost its deployments, but for those recorded
  since (`orphaned`); `LiveDeploys` that a thread about to record a deployment
  has marked all the others.
- `TypeOKHolds`: the types of all four.

**WorkDir_proofs.**  `TypeOKHolds`, `QuietAtRootHolds`,
`HalfMadeOnlyIfBrokenHolds`, `OwnUnlessDisturbedHolds`: all that the run
checks, for any number of projects, debug runs and activities.  The last two
cite `OneRequestAssumption`, since two creations at once would write into each
other's directories; the first two do not, and hold for any number of requests
at a time.  The statements of a handler are a sequence, so the proof first says
at which positions a label stands (`Positions`, `Restores`), then what each
action does to its own thread (`SaveDoes` ... `PublishDoes`) and what it can do to
the others, which is to disturb them (`Noticed`); after that four invariants,
each kept by each action.

- `TypeInv` is what a thread has worked out by the time it is at a statement:
  the directory it is in is on the disk (`Inside`, `Filling`), has a `setup.py`
  (`Writing`), and what was packed came from one that is there (`Packed`).
  Nothing is ever removed from the disk, which is why this survives the others.
- `WayBack`: unless `strayed`, every thread has noted the root, and when the
  process is elsewhere there is a thread that will still go back (`Away`).
  `QuietAtRoot` alone says nothing of a process at work.
- `CreateInv`: a creation under way that nobody has disturbed has worked in one
  directory only, the one of its project where the process is, and that
  directory is as far as the creation has got (`Creation`).
- `OwnInv`: an undisturbed thread is in the directory it worked out, with the
  variable unset; that directory ends in the project it was asked for; and what
  it has read, packed or opened is that project's (`Own`), or the egg was packed
  while disturbed (`EggsOwn`, `ShippedOwn`), or the directory was `Abandoned` by
  a creation. `AbandonedHere` is where it meets `CreateInv`: the directory the
  process is in is never one that an undisturbed creation is at work on, since
  that one works below it.

**Only model-checked**: the liveness properties (`StoppedScriptsGoQuiet`,
`QueueDrains`, `BackfillCompletes`, `ThreadEnds`), since fairness is beyond the
prover, and the violations.

## 5. Not modelled, and the plan

Left out for good:

- The sync scheduler: its start is commented out, so its store is filled and
  never fires.  `script_start` and the reruns of `sync/views.py` end before they
  change anything, `script_start` at the undefined name `DataSource`.
- `project_deploy` and `script_stop` are not routed to by any URL;
  `project_remove` fails at its first query (a field that does not exist) and
  is in `WorkDir` only as a handler that notes and restores the directory.
- `node_create`, `node_update`, `task_update`: single statements, whose effect
  on the schedulers is in `JobRefresh`.  Proxy addresses likewise.
- Requests that read, write, rename or delete one file: one call of the
  operating system each.
- What the scrapyd client sends of an egg file that an earlier host's upload has
  read to its end (`sync/views.py:169`): this is in the client library.
- A back-fill that dies: nothing in the code takes it up again, so there is no
  promise to state beyond those of `Backfill`.
- The permission tree in Redis, which is written and never read; the middleware
  (a check per request without state), the trigger check, toolkits that wrap
  drivers and services, the command line, the rule spiders, formatting and
  logging.

Every safety property and both refinements that the passing runs check have
their theorem.  What a later version of the code would ask for first: the sync
scheduler, if its start comes back, and `project_deploy` and `script_stop`, if
they get a route.
