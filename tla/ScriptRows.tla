----------------------------- MODULE ScriptRows -----------------------------
(***************************************************************************)
(* The CrawlScript rows of one task: made when a spider's file is opened   *)
(* (project_views.py), edited, disabled, started and removed               *)
(* (script_views.py), and given their last job by the scheduler's threads  *)
(* (scheduler.py).                                                         *)
(*                                                                         *)
(* Most of these get a row, do something, and save the whole row: every    *)
(* column is written back as it was, and a row removed meanwhile is        *)
(* inserted again.  Every statement commits on its own.  job_id, all that  *)
(* starting a script means to change, is left out.                         *)
(***************************************************************************)
EXTENDS Naturals, FiniteSets, Functions

CONSTANTS
    RowThread,      \* threads that handle requests or dispatch scripts
    SpiderName,     \* names of spiders in the task's project
    Cfg,            \* values of trigger, hosts and args
    MaxRow,         \* bound on rows
    MaxRowOps       \* bound on requests and dispatches

VARIABLES
    scripts,    \* rows by id
    lastId,     \* AUTO_INCREMENT
    rreq,       \* rreq[t]: what t handles, between two statements
    rasked,     \* requests and dispatches so far (bound)
    wanted,     \* wanted[i]: row i after the last request confirmed (history)
    late,       \* threads whose row was written after they got it (history)
    spoiled,    \* rows such a thread has saved (history)
    doubled     \* spiders with two creations of a row at once (history)

rowVars == <<scripts, lastId, rreq, rasked, wanted, late, spoiled, doubled>>

None == [op |-> "none"]
NoCfg == "none"
NewRow(name, path) == [name |-> name, cfg |-> NoCfg, off |-> FALSE, path |-> path]

\* The table with row as row i, which was there or not.
With(table, i, row) == [j \in DOMAIN table \cup {i} |-> IF j = i THEN row ELSE table[j]]

\* One row, which may be older than its column path.
Init ==
    /\ scripts \in [{1} -> {NewRow(n, p) : n \in SpiderName, p \in BOOLEAN}]
    /\ lastId = 1
    /\ rreq = [t \in RowThread |-> None]
    /\ rasked = 0
    /\ wanted = scripts
    /\ late = {}
    /\ spoiled = {}
    /\ doubled = {}

Take(t) ==
    /\ rreq[t] = None
    /\ rasked < MaxRowOps
    /\ rasked' = rasked + 1

Hold(t, r) == rreq' = [rreq EXCEPT ![t] = r]
Done(t) == Hold(t, None)

Named(name) == {i \in DOMAIN scripts : scripts[i].name = name}
TheOnly(S) == CHOOSE x \in S : TRUE

\* Row i is in memory; set is what the handler is going to change in it, and left
\* are the rows that follow.
Got(t, i, set, left) == Hold(t, [op |-> "save", id |-> i, row |-> scripts[i],
                                 set |-> set, left |-> left])

Changed(row, set) ==
    CASE set.what = "cfg"  -> [row EXCEPT !.cfg = set.to]
      [] set.what = "off"  -> [row EXCEPT !.off = set.to]
      [] set.what = "path" -> [row EXCEPT !.path = TRUE]
      [] set.what = "job"  -> row

\* The other threads that hold one of the rows in S.
Holding(t, S) == {u \in RowThread \ {t} : rreq[u].op = "save" /\ rreq[u].id \in S}

-----------------------------------------------------------------------------
(* project_file_read.                                                      *)

Doubling(t, name) ==
    doubled' = IF \E u \in RowThread : rreq[u] = [op |-> "create", name |-> name]
               THEN doubled \cup {name} ELSE doubled

\* The rows with the spider's name are fetched.  If there is none, one will be
\* made; else the first one gets the path, if it has none.
OpenFile(t, name) ==
    /\ Take(t)
    /\ IF Named(name) = {}
       THEN Hold(t, [op |-> "create", name |-> name]) /\ Doubling(t, name)
       ELSE LET first == CHOOSE i \in Named(name) : \A j \in Named(name) : i <= j
            IN /\ IF scripts[first].path
                  THEN UNCHANGED rreq
                  ELSE Got(t, first, [what |-> "path"], {})
               /\ UNCHANGED doubled
    /\ UNCHANGED <<scripts, lastId, wanted, late, spoiled>>

Create(t) ==
    LET row == NewRow(rreq[t].name, TRUE) IN
    /\ rreq[t].op = "create"
    /\ lastId < MaxRow
    /\ lastId' = lastId + 1
    /\ scripts' = With(scripts, lastId', row)
    /\ wanted' = With(wanted, lastId', row)
    /\ Done(t)
    /\ UNCHANGED <<rasked, late, spoiled, doubled>>

-----------------------------------------------------------------------------
(* edit_script_cfg.                                                        *)

\* get raises if there is no row with the name in the task, or more than one.
EditOne(t, name, cfg) ==
    /\ Take(t)
    /\ IF Cardinality(Named(name)) = 1
       THEN Got(t, TheOnly(Named(name)), [what |-> "cfg", to |-> cfg], {})
       ELSE UNCHANGED rreq
    /\ UNCHANGED <<scripts, lastId, wanted, late, spoiled, doubled>>

\* Fault variant: the rows are set to a new one's state first.
EditAllReset(t, cfg) ==
    /\ Take(t)
    /\ scripts' = [i \in DOMAIN scripts |->
                      [NewRow(scripts[i].name, scripts[i].path) EXCEPT !.cfg = cfg]]
    /\ wanted' = [i \in DOMAIN wanted |-> [wanted[i] EXCEPT !.cfg = cfg]]
    /\ late' = late \cup Holding(t, DOMAIN scripts)
    /\ UNCHANGED <<lastId, rreq, spoiled, doubled>>

\* applyToAll: one UPDATE, of three columns, for all of the task's rows.
EditAll(t, cfg) ==
    /\ Take(t)
    /\ scripts' = [i \in DOMAIN scripts |-> [scripts[i] EXCEPT !.cfg = cfg]]
    /\ wanted' = [i \in DOMAIN wanted |-> [wanted[i] EXCEPT !.cfg = cfg]]
    /\ late' = late \cup Holding(t, DOMAIN scripts)
    /\ UNCHANGED <<lastId, rreq, spoiled, doubled>>

-----------------------------------------------------------------------------
(* script_disable, script_enable, script_start: for each of the ids, get,  *)
(* and save.                                                               *)

ForEach(t, ids, set) ==
    /\ Take(t)
    /\ Hold(t, [op |-> "each", set |-> set, left |-> ids])
    /\ UNCHANGED <<scripts, lastId, wanted, late, spoiled, doubled>>

Control(t, ids, off) == ForEach(t, ids, [what |-> "off", to |-> off])
Start(t, ids) == ForEach(t, ids, [what |-> "job"])

\* get raises if the row was removed.
GetNext(t, i) ==
    LET r == rreq[t] IN
    /\ r.op = "each"
    /\ i \in r.left
    /\ IF i \in DOMAIN scripts THEN Got(t, i, r.set, r.left \ {i}) ELSE Done(t)
    /\ UNCHANGED <<scripts, lastId, rasked, wanted, late, spoiled, doubled>>

\* A node that script_start sends the script to does not answer.
FailStart(t) ==
    /\ rreq[t].op = "save"
    /\ rreq[t].set.what = "job"
    /\ Done(t)
    /\ late' = late \ {t}
    /\ UNCHANGED <<scripts, lastId, rasked, wanted, spoiled, doubled>>

\* work_func and schedule_fix_data, once they have dispatched the script.
Dispatched(t, name) ==
    /\ Take(t)
    /\ IF Cardinality(Named(name)) = 1
       THEN Got(t, TheOnly(Named(name)), [what |-> "job"], {})
       ELSE UNCHANGED rreq
    /\ UNCHANGED <<scripts, lastId, wanted, late, spoiled, doubled>>

-----------------------------------------------------------------------------
\* save(): UPDATE of all columns, and INSERT if no row was matched.
SaveRow(t) ==
    LET r == rreq[t] IN
    /\ r.op = "save"
    /\ scripts' = With(scripts, r.id, Changed(r.row, r.set))
    /\ wanted' = [i \in DOMAIN wanted |->
                     IF i = r.id THEN Changed(wanted[i], r.set) ELSE wanted[i]]
    /\ spoiled' = IF t \in late THEN spoiled \cup {r.id} ELSE spoiled
    /\ late' = (late \ {t}) \cup Holding(t, {r.id})
    /\ IF r.left = {} THEN Done(t)
                      ELSE Hold(t, [op |-> "each", set |-> r.set, left |-> r.left])
    /\ UNCHANGED <<lastId, rasked, doubled>>

RemoveRow(t, i) ==
    /\ Take(t)
    /\ scripts' = Restrict(scripts, DOMAIN scripts \ {i})
    /\ wanted' = Restrict(wanted, DOMAIN wanted \ {i})
    /\ late' = late \cup Holding(t, {i})
    /\ UNCHANGED <<lastId, rreq, spoiled, doubled>>

-----------------------------------------------------------------------------
Serve(t) ==
    \/ \E name \in SpiderName :
          \/ OpenFile(t, name)
          \/ Dispatched(t, name)
          \/ \E cfg \in Cfg : EditOne(t, name, cfg)
    \/ \E cfg \in Cfg : EditAll(t, cfg)
    \/ Create(t)
    \/ \E ids \in SUBSET (1 .. lastId) \ {{}} :
          Start(t, ids) \/ \E off \in BOOLEAN : Control(t, ids, off)
    \/ \E i \in 1 .. lastId : GetNext(t, i)
    \/ \E i \in DOMAIN scripts : RemoveRow(t, i)
    \/ FailStart(t) \/ SaveRow(t)

Next == \E t \in RowThread : Serve(t)

Spec == Init /\ [][Next]_rowVars

-----------------------------------------------------------------------------
TypeOK ==
    /\ DOMAIN scripts \subseteq 1 .. lastId
    /\ \A i \in DOMAIN scripts :
          scripts[i] \in [name : SpiderName, cfg : Cfg \cup {NoCfg}, off : BOOLEAN, path : BOOLEAN]
    /\ lastId \in 1 .. MaxRow
    /\ rasked \in 0 .. MaxRowOps
    /\ late \subseteq {t \in RowThread : rreq[t].op = "save"}

\* A script keeps the configuration, and stays enabled, disabled or removed, as
\* the last confirmed request made it, whatever else was started, scheduled,
\* opened or edited: unless a request, or a thread of the scheduler, that had got
\* the row before saves it after.
ChangesKept ==
    \A i \in (1 .. lastId) \ spoiled :
        /\ i \in DOMAIN scripts <=> i \in DOMAIN wanted
        /\ i \in DOMAIN scripts => /\ scripts[i].cfg = wanted[i].cfg
                                   /\ scripts[i].off = wanted[i].off

\* The scheduler and edit_script_cfg get a script's row by its name: there is one,
\* unless two requests opened the new spider's file at once, or such a save has
\* brought a removed row back when there was a new one.
OneRowPerScript ==
    \A i, j \in DOMAIN scripts :
        (i # j /\ scripts[i].name = scripts[j].name) =>
            scripts[i].name \in doubled \/ {i, j} \cap spoiled # {}

ScriptsAsConfirmed == ChangesKept /\ OneRowPerScript
=============================================================================
