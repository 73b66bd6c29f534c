------------------------------- MODULE WorkDir -------------------------------
(***************************************************************************)
(* The working directory of one web process, and the projects on its disk. *)
(*                                                                         *)
(* The directory, and the environment with the variable that names scrapy's*)
(* settings, belong to the process.  The handlers of projects and scripts  *)
(* note the directory, go into a project's, work there and go back, and so *)
(* do the threads of the debug runs, which stay in the project until the   *)
(* spider ends.  uWSGI gives a process one request at a time (conf/        *)
(* crawl.ini), but any number of debug threads, and its master starts a    *)
(* process that was killed anew.                                           *)
(*                                                                         *)
(* A directory is the sequence of the projects on the way to it: <<>> is   *)
(* the one the process starts in, <<p>> is projects/p there, and <<q, p>>  *)
(* is projects/p below <<q>>.                                              *)
(***************************************************************************)
EXTENDS Naturals, Sequences, FiniteSets, SequencesExt

CONSTANTS
    Handler,    \* threads that handle requests
    Debugger,   \* threads of debug runs
    Project,    \* names of projects
    MaxWork     \* bound on requests, debug runs and kills of the process

ASSUME MaxWorkAssumption == MaxWork \in Nat

\* uWSGI runs the application without threads: a process has one request at a time.
ASSUME OneRequestAssumption == \A t, u \in Handler : t = u

VARIABLES
    cwd,        \* os.getcwd()
    env,        \* directory whose settings SCRAPY_SETTINGS_MODULE names, or <<>>
    disk,       \* the directories of projects
    shipped,    \* pairs of a project and the project whose code its nodes got
    work,       \* work[t]: what t is doing
    begun,      \* requests, runs and kills so far (bound)
    strayed,    \* a directory other than the root was noted, or a spider scan
                \* met a directory without settings (history)
    spoilt,     \* projects that got an egg packed while disturbed (history)
    halved      \* directories of creations that were disturbed, refused for want
                \* of a description, broken off or killed (history)

workVars == <<cwd, env, disk, shipped, work, begun, strayed, spoilt, halved>>

Thread == Handler \cup Debugger
Root == <<>>

\* Fault variant: the row is made after the directory.
CreateStepsRowLater == <<"save", "mkdir", "query", "describe", "copy", "place",
                         "render", "query", "restore">>

CreateSteps == <<"save", "query", "mkdir", "describe", "copy", "place", "render",
                 "query", "restore">>

\* The statements of each handler that matter here, in their order.
Steps ==
    [look   |-> <<"save", "restore">>,
     show   |-> <<"save", "enterHere", "read", "restore">>,
     scan   |-> <<"resolve", "save", "enter", "load", "restore">>,
     create |-> CreateSteps,
     build  |-> <<"save", "resolve", "enter", "setup", "pack", "clear",
                  "moveIn", "restore">>,
     deploy |-> <<"save", "note", "openEgg", "query", "publish", "restore">>,
     sync   |-> <<"note", "save", "resolve", "enter", "setup", "pack", "clear",
                  "moveIn", "restore", "openEgg", "publish">>,
     debug  |-> <<"save", "resolve", "enter", "query", "run", "restore">>]

Requests == DOMAIN Steps \ {"debug"}

\* saved: the directory to go back to; path: the one in which the handler will
\* look for an egg; dir: the one where work is to be done; used: where it was;
\* disturbed: another thread has moved the process meanwhile, or has set the
\* variable.
Idle == [op |-> "none", project |-> CHOOSE p \in Project : TRUE, at |-> 0,
         saved |-> Root, path |-> Root, dir |-> Root, used |-> Root, disturbed |-> FALSE]

Fresh(files) == [files |-> files, setup |-> FALSE, eggs |-> {}]

Init ==
    /\ cwd = Root
    /\ env = Root
    /\ \E made \in SUBSET Project : disk = [d \in {<<p>> : p \in made} |-> Fresh("whole")]
    /\ shipped = {}
    /\ work = [t \in Thread |-> Idle]
    /\ begun = 0
    /\ strayed = FALSE
    /\ spoilt = {}
    /\ halved = {}

-----------------------------------------------------------------------------
At(t, label) == work[t].op # "none" /\ Steps[work[t].op][work[t].at] = label

Ended(r) == IF r.at = Len(Steps[r.op]) THEN Idle ELSE [r EXCEPT !.at = @ + 1]

\* t goes on to its next statement.
Advance(t, r) == work' = [work EXCEPT ![t] = Ended(r)]

\* Fault variant: what is to be done at the end is not in a finally.
LeaveAtOnce(t) == work' = [work EXCEPT ![t] = Idle]

\* An exception, or an early return: on to the finally, if t is not past it.
Leave(t) ==
    LET r == work[t]
        finally == {k \in DOMAIN Steps[r.op] : k > r.at /\ Steps[r.op][k] = "restore"}
    IN work' = [work EXCEPT ![t] = IF finally = {} THEN Idle
                                   ELSE [r EXCEPT !.at = CHOOSE k \in finally : TRUE]]

\* t moves the process to d: every other thread at work is disturbed.
MoveTo(t, d, r) ==
    /\ cwd' = d
    /\ work' = [u \in Thread |->
                   IF u = t THEN r
                   ELSE [work[u] EXCEPT !.disturbed =
                            @ \/ (work[u].op # "none" /\ d # cwd)]]

Begin(t, op, p) ==
    /\ work[t].op = "none"
    /\ begun < MaxWork
    /\ begun' = begun + 1
    /\ work' = [work EXCEPT ![t] = [Idle EXCEPT !.op = op, !.project = p, !.at = 1]]
    /\ UNCHANGED <<cwd, env, disk, shipped, strayed, spoilt, halved>>

\* work_path = os.getcwd()
Save(t) ==
    /\ At(t, "save")
    /\ Advance(t, [work[t] EXCEPT !.saved = cwd, !.disturbed = FALSE])
    /\ strayed' = (strayed \/ cwd # Root)
    /\ UNCHANGED <<cwd, env, disk, shipped, begun, spoilt, halved>>

\* join(os.path.abspath(join(os.getcwd(), PROJECTS_FOLDER)), project)
Resolve(t) ==
    LET d == Append(cwd, work[t].project) IN
    /\ \/ At(t, "resolve") /\ Advance(t, [work[t] EXCEPT !.dir = d])
       \/ At(t, "note") /\ Advance(t, [work[t] EXCEPT !.path = d])
    /\ UNCHANGED <<cwd, env, disk, shipped, begun, strayed, spoilt, halved>>

\* A query of the database or a call of a node, which may fail.
Query(t) ==
    /\ At(t, "query")
    /\ Advance(t, work[t]) \/ Leave(t)
    /\ UNCHANGED <<cwd, env, disk, shipped, begun, strayed, spoilt, halved>>

\* os.chdir(project_path), which fails if there is no such directory.
Enter(t, label, d) ==
    /\ At(t, label)
    /\ IF d \in DOMAIN disk
       THEN MoveTo(t, d, Ended([work[t] EXCEPT !.dir = d, !.disturbed = env # Root]))
       ELSE Leave(t) /\ UNCHANGED cwd
    /\ UNCHANGED <<env, disk, shipped, begun, strayed, spoilt, halved>>

\* find_debug_result and find_debug_log read a file of the directory.
ReadDebug(t) ==
    /\ At(t, "read")
    /\ Advance(t, [work[t] EXCEPT !.used = cwd])
    /\ UNCHANGED <<cwd, env, disk, shipped, begun, strayed, spoilt, halved>>

\* closest_scrapy_cfg: the nearest directory above with a scrapy.cfg.
SettingsAt(d) ==
    LET found == {k \in 1 .. Len(d) : /\ SubSeq(d, 1, k) \in DOMAIN disk
                                      /\ disk[SubSeq(d, 1, k)].files # "empty"}
    IN IF found = {} THEN Root
       ELSE SubSeq(d, 1, CHOOSE k \in found : \A j \in found : j <= k)

Settings == IF env = Root THEN SettingsAt(cwd) ELSE env

\* get_project_settings in detect_project_spiders: the variable, if it is not
\* set, is set from the directory.
Load(t) ==
    /\ At(t, "load")
    /\ env' = Settings
    /\ work' = [u \in Thread |->
                   IF u = t THEN Ended([work[t] EXCEPT !.used = Settings])
                   ELSE [work[u] EXCEPT !.disturbed =
                            @ \/ (work[u].op # "none" /\ env' # env)]]
    /\ strayed' = (strayed \/ env' = Root)
    /\ UNCHANGED <<cwd, disk, shipped, begun, spoilt, halved>>

\* The spider of a debug run inherits the directory and the variable.
Run(t) ==
    /\ At(t, "run")
    /\ Advance(t, [work[t] EXCEPT !.used = Settings])
    /\ UNCHANGED <<cwd, env, disk, shipped, begun, strayed, spoilt, halved>>

\* Fault variant: to the path worked out, not to the one that was noted.
RestoreDir(t) ==
    /\ At(t, "restore")
    /\ MoveTo(t, work[t].dir, Ended(work[t]))
    /\ UNCHANGED <<env, disk, shipped, begun, strayed, spoilt, halved>>

\* os.chdir(work_path) in the finally.  That of detect_project_spiders deletes the
\* variable first: if it is not set, the KeyError leaves the directory as it is.
Restore(t) ==
    /\ At(t, "restore")
    /\ IF work[t].op = "scan" /\ env = Root
       THEN Advance(t, work[t]) /\ UNCHANGED cwd
       ELSE MoveTo(t, work[t].saved, Ended(work[t]))
    /\ env' = IF work[t].op = "scan" THEN Root ELSE env
    /\ halved' = IF work[t].op = "create" /\ work[t].disturbed
                 THEN halved \cup {work[t].used, work[t].dir} ELSE halved
    /\ UNCHANGED <<disk, shipped, begun, strayed, spoilt>>

-----------------------------------------------------------------------------
(* project_create.                                                         *)

\* projects/ is there in the root, and below where something was made in it.
HasProjects(d) == d = Root \/ \E e \in DOMAIN disk : e # Root /\ Front(e) = d

\* exists(path), then os.mkdir(path)
MakeDir(t) ==
    LET d == Append(cwd, work[t].project) IN
    /\ At(t, "mkdir")
    /\ IF d \in DOMAIN disk \/ ~ HasProjects(cwd)
       THEN Leave(t) /\ UNCHANGED disk
       ELSE /\ disk' = [e \in DOMAIN disk \cup {d} |->
                           IF e = d THEN Fresh("empty") ELSE disk[e]]
            /\ Advance(t, [work[t] EXCEPT !.used = d])
    /\ UNCHANGED <<cwd, env, shipped, begun, strayed, spoilt, halved>>

\* The description is asked for only now.
Describe(t) ==
    /\ At(t, "describe")
    /\ \/ Advance(t, work[t]) /\ UNCHANGED halved
       \/ Leave(t) /\ halved' = halved \cup {work[t].used}
    /\ UNCHANGED <<cwd, env, disk, shipped, begun, strayed, spoilt>>

\* generate_project raises, and project_create answers the failure: what has been
\* made stays.
BreakOff(t) ==
    /\ Leave(t)
    /\ halved' = halved \cup {work[t].used, work[t].dir}

Copied(d, files) ==
    [e \in DOMAIN disk \cup {d} |->
        IF e \notin DOMAIN disk THEN Fresh(files)
        ELSE IF e = d THEN [disk[e] EXCEPT !.files = files] ELSE disk[e]]

\* What a copy that is broken off may have brought to d: nothing that counts,
\* scrapy.cfg without the module, or both.
PartOf(d) ==
    IF d \notin DOMAIN disk \/ disk[d].files = "empty" THEN {"empty", "gutted", "copied"}
                                                      ELSE {"copied"}

\* generate_project: copy_tree, into the path worked out anew, which may raise
\* before it has made the directory or at any file.
Copy(t) ==
    LET d == Append(cwd, work[t].project) IN
    /\ At(t, "copy")
    /\ \/ /\ disk' = Copied(d, "copied")
          /\ Advance(t, [work[t] EXCEPT !.dir = d])
          /\ UNCHANGED halved
       \/ /\ \/ UNCHANGED disk
             \/ \E files \in PartOf(d) : disk' = Copied(d, files)
          /\ Leave(t)
          /\ halved' = halved \cup {work[t].used, d}
    /\ UNCHANGED <<cwd, env, shipped, begun, strayed, spoilt>>

\* The module goes to its place: from below the directory as it is now, if it is
\* there and can be moved.
Place(t) ==
    LET from == Append(cwd, work[t].project)
        to == work[t].dir
    IN /\ At(t, "place")
       /\ \/ /\ from \in DOMAIN disk /\ disk[from].files = "copied"
             /\ disk' = [disk EXCEPT ![from].files = "gutted", ![to].files = "placed"]
             /\ Advance(t, work[t])
             /\ UNCHANGED halved
          \/ BreakOff(t) /\ UNCHANGED disk
       /\ UNCHANGED <<cwd, env, shipped, begun, strayed, spoilt>>

\* The templates are rendered, the demo spider below the directory as it is now,
\* if all of them can be; then os.chdir to the directory at the start of
\* generate_project.
Render(t) ==
    LET d == Append(cwd, work[t].project) IN
    /\ At(t, "render")
    /\ \/ /\ d \in DOMAIN disk /\ disk[d].files \in {"placed", "whole"}
          /\ disk' = [disk EXCEPT ![d].files = "whole"]
          /\ MoveTo(t, Front(work[t].dir), Ended(work[t]))
          /\ UNCHANGED halved
       \/ BreakOff(t) /\ UNCHANGED <<cwd, disk>>
    /\ UNCHANGED <<env, shipped, begun, strayed, spoilt>>

-----------------------------------------------------------------------------
(* project_build, sync_task_deploy and task_deploy.                        *)

\* The settings are read from scrapy.cfg, and setup.py is written.
WriteSetup(t) ==
    LET d == work[t].dir IN
    /\ At(t, "setup")
    /\ IF disk[d].files = "empty"
       THEN Leave(t) /\ UNCHANGED disk
       ELSE disk' = [disk EXCEPT ![d].setup = TRUE] /\ Advance(t, work[t])
    /\ UNCHANGED <<cwd, env, shipped, begun, strayed, spoilt, halved>>

\* python setup.py bdist_egg, in the directory the process is in.
Pack(t) ==
    /\ At(t, "pack")
    /\ IF cwd \in DOMAIN disk /\ disk[cwd].setup
       THEN Advance(t, [work[t] EXCEPT !.used = cwd])
       ELSE Leave(t)
    /\ UNCHANGED <<cwd, env, disk, shipped, begun, strayed, spoilt, halved>>

\* The first egg found is removed.
ClearEgg(t) ==
    LET d == work[t].dir IN
    /\ At(t, "clear")
    /\ \/ disk[d].eggs = {} /\ UNCHANGED disk
       \/ \E e \in disk[d].eggs : disk' = [disk EXCEPT ![d].eggs = @ \ {e}]
    /\ Advance(t, work[t])
    /\ UNCHANGED <<cwd, env, shipped, begun, strayed, spoilt, halved>>

\* Fault variant: into the directory the process is in.
MoveEggHere(t) ==
    LET d == cwd
        e == Last(work[t].used)
    IN /\ At(t, "moveIn")
       /\ IF d = Root \/ e \in disk[d].eggs
          THEN Leave(t) /\ UNCHANGED <<disk, spoilt>>
          ELSE /\ disk' = [disk EXCEPT ![d].eggs = @ \cup {e}]
               /\ spoilt' = IF work[t].disturbed THEN spoilt \cup {work[t].project}
                                                 ELSE spoilt
               /\ Advance(t, work[t])
       /\ UNCHANGED <<cwd, env, shipped, begun, strayed, halved>>

\* shutil.move(egg, project_path) fails if an egg of that name is there.
MoveEgg(t) ==
    LET d == work[t].dir
        e == Last(work[t].used)
    IN /\ At(t, "moveIn")
       /\ IF e \in disk[d].eggs
          THEN Leave(t) /\ UNCHANGED <<disk, spoilt>>
          ELSE /\ disk' = [disk EXCEPT ![d].eggs = @ \cup {e}]
               /\ spoilt' = IF work[t].disturbed THEN spoilt \cup {work[t].project}
                                                 ELSE spoilt
               /\ Advance(t, work[t])
       /\ UNCHANGED <<cwd, env, shipped, begun, strayed, halved>>

\* find_egg and open.
OpenEgg(t) ==
    LET d == work[t].path IN
    /\ At(t, "openEgg")
    /\ IF d \in DOMAIN disk /\ disk[d].eggs # {}
       THEN \E e \in disk[d].eggs : Advance(t, [work[t] EXCEPT !.used = <<e>>])
       ELSE Leave(t)
    /\ UNCHANGED <<cwd, env, disk, shipped, begun, strayed, spoilt, halved>>

\* add_version on the nodes.
Publish(t) ==
    /\ At(t, "publish")
    /\ shipped' = shipped \cup {<<work[t].project, Last(work[t].used)>>}
    /\ Advance(t, work[t])
    /\ UNCHANGED <<cwd, env, disk, begun, strayed, spoilt, halved>>

-----------------------------------------------------------------------------
\* The process is killed, whatever its threads are at, and the master starts it
\* anew in the directory it was started in itself.
Kill ==
    /\ begun < MaxWork
    /\ begun' = begun + 1
    /\ cwd' = Root /\ env' = Root
    /\ work' = [t \in Thread |-> Idle]
    /\ strayed' = FALSE
    /\ halved' = halved \cup UNION {{work[t].used, work[t].dir} :
                                       t \in {u \in Thread : work[u].op = "create"}}
    /\ UNCHANGED <<disk, shipped, spoilt>>

Step(t) ==
    \/ Save(t) \/ Resolve(t) \/ Query(t) \/ Restore(t)
    \/ Enter(t, "enter", work[t].dir)
    \/ Enter(t, "enterHere", Append(cwd, work[t].project))
    \/ ReadDebug(t) \/ Load(t) \/ Run(t)
    \/ MakeDir(t) \/ Describe(t) \/ Copy(t) \/ Place(t) \/ Render(t)
    \/ WriteSetup(t) \/ Pack(t) \/ ClearEgg(t) \/ MoveEgg(t)
    \/ OpenEgg(t) \/ Publish(t)

Next ==
    \/ \E t \in Handler, op \in Requests, p \in Project : Begin(t, op, p)
    \/ \E t \in Debugger, p \in Project : Begin(t, "debug", p)
    \/ \E t \in Thread : Step(t)
    \/ Kill

Spec == Init /\ [][Next]_workVars

-----------------------------------------------------------------------------
TypeOK ==
    /\ cwd \in DOMAIN disk \cup {Root}
    /\ env \in DOMAIN disk \cup {Root}
    /\ \A d \in DOMAIN disk :
          /\ d \in Seq(Project) \ {Root}
          /\ disk[d].files \in {"empty", "copied", "placed", "whole", "gutted"}
          /\ disk[d].eggs \subseteq Project
          /\ disk[d].eggs # {} => disk[d].setup
    /\ shipped \subseteq Project \X Project
    /\ \A t \in Thread : /\ work[t].op \in DOMAIN Steps \cup {"none"}
                         /\ work[t].saved \in DOMAIN disk \cup {Root}
    /\ begun \in 0 .. MaxWork

\* When nothing is under way the process is back where it started, however the
\* comings and goings overlapped: unless a handler began while another was away,
\* and went back to where it found the process, or a scan of spiders met a
\* directory without settings, and did not go back.
QuietAtRoot ==
    (\A t \in Thread : work[t].op = "none") /\ ~ strayed => cwd = Root

\* d was made by a creation that has not ended, or that another thread disturbed,
\* that came without a description, that raised or that died with its process.
HalfMade(d) ==
    \/ d \in halved
    \/ \E t \in Handler : work[t].op = "create" /\ d \in {work[t].used, work[t].dir}

\* A thread that nobody has disturbed shows, scans, packs and runs the project it
\* was asked for, unless that is a directory without settings left by a creation,
\* where scrapy goes by the nearest settings above; an egg that holds the code of
\* another project, in a directory or on the nodes, was packed while disturbed.
OwnUnlessDisturbed ==
    /\ \A t \in Thread :
          (At(t, "restore") /\ work[t].op \in {"show", "scan", "debug"}
              /\ work[t].used # Root /\ ~ work[t].disturbed)
          => \/ Last(work[t].used) = work[t].project
             \/ work[t].op # "show" /\ HalfMade(work[t].dir)
    /\ \A d \in DOMAIN disk : \A e \in disk[d].eggs : e # Last(d) => Last(d) \in spoilt
    /\ \A s \in shipped : s[1] # s[2] => s[1] \in spoilt

\* A directory that is there but is not a whole project, so that the project can
\* neither be created again nor built, is left only by a creation that another
\* thread disturbed, that came without a description, that raised while it copied,
\* moved or rendered, or that died with its process: never by one that succeeded
\* or whose queries failed, nor by anything else that goes on in the directory.
HalfMadeOnlyIfBroken ==
    \A d \in DOMAIN disk : disk[d].files = "whole" \/ HalfMade(d)
=============================================================================
