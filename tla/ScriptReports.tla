---------------------------- MODULE ScriptReports ----------------------------
(***************************************************************************)
(* Runs of scripts started by hand and what they report: script_start,     *)
(* script_remove and collect_script_progress in                            *)
(* apps/crawl/views/script_views.py, as concurrent requests.               *)
(*                                                                         *)
(* script_start names a run by a batch id, the md5 of its arguments (of    *)
(* the second it is started in, when there are none): two scripts, or two  *)
(* nodes, can share one.  It starts the run first and stores args#batch in *)
(* Redis afterwards.  The run reports its progress by HTTP, and the report *)
(* is kept in one row of crawl_script_progress, whose batch column is      *)
(* unique.  Each statement a request sends to Redis or to the database is  *)
(* a step of its own.                                                      *)
(***************************************************************************)
EXTENDS Naturals, FiniteSets

CONSTANTS
    Script,     \* names of scripts
    Batch,      \* batch ids
    Handler,    \* threads that handle reports
    MaxReports  \* bound on the reports that arrive

ASSUME BoundAssumption == MaxReports \in Nat

VARIABLES
    exists,     \* scripts that have a CrawlScript row
    args,       \* batches whose args#batch is in Redis
    progress,   \* progress[b]: the row of crawl_script_progress, or NoRow
    started,    \* <<s, b>>: runs of s under batch b that a node was given
    spc,        \* spc[s]: where the script_start for s is (one at a time)
    sleft,      \* sleft[s]: batches it has still to start
    scur,       \* scur[s]: the batch whose arguments it is about to store
    unset,      \* batches started whose args were never stored (history)
    pc,         \* pc[h]: where a handler is
    rep,        \* rep[h]: the report it handles
    seen,       \* seen[h]: the message it read in the row (sp.msg)
    answer,     \* the last answer given (history)
    crowded,    \* handlers at work that met another one on their batch (history)
    accepted,   \* <<s, b>>: a report of it was recorded and confirmed (history)
    reports     \* number of reports so far (bound)

startVars == <<args, started, spc, sleft, scur, unset>>
handlerVars == <<pc, rep, seen, answer, crowded>>
vars == <<exists, progress, startVars, handlerVars, accepted, reports>>

-----------------------------------------------------------------------------
\* The statuses 1 (running) and 2 (done) are handled alike.
Status == {"fine", "failed"}

\* A report without a message, with an empty one, or with a text.
Msg == {"absent", "empty", "text"}

Report == [script: Script, batch: Batch, status: Status, msg: Msg]
NoReport == [status |-> "none"]
NoBatch == "none"

NoRow == [msg |-> "none"]
ProgressRow == [script: Script, status: Status, msg: Msg]

RowOf(r) == [script |-> r.script, status |-> r.status, msg |-> r.msg]

\* The row a report of r's script and batch finds.
Found(r) == progress[r.batch] # NoRow /\ progress[r.batch].script = r.script

\* Fault variant: the row is replaced by what the report carries.
Replaced(old, r, m) == [status |-> r.status, msg |-> m]

\* UPDATE sets the columns the report carries.
Updated(old, r, m) ==
    [old EXCEPT !.status = r.status, !.msg = IF m = "absent" THEN @ ELSE m]

-----------------------------------------------------------------------------
Init ==
    /\ exists = Script
    /\ args = {}
    /\ progress = [b \in Batch |-> NoRow]
    /\ started = {}
    /\ spc = [s \in Script |-> "idle"]
    /\ sleft = [s \in Script |-> {}]
    /\ scur = [s \in Script |-> NoBatch]
    /\ unset = {}
    /\ pc = [h \in Handler |-> "idle"]
    /\ rep = [h \in Handler |-> NoReport]
    /\ seen = [h \in Handler |-> "absent"]
    /\ answer = "none"
    /\ crowded = {}
    /\ accepted = {}
    /\ reports = 0

-----------------------------------------------------------------------------
(* script_start and script_remove.                                         *)

\* The row is read; bs are the batches of the arguments the request gives.
BeginStart(s, bs) ==
    /\ spc[s] = "idle"
    /\ s \in exists
    /\ bs # {}
    /\ spc' = [spc EXCEPT ![s] = "start"]
    /\ sleft' = [sleft EXCEPT ![s] = bs]
    /\ UNCHANGED <<exists, progress, args, started, scur, unset, handlerVars,
                   accepted, reports>>

\* Fault variant: a branch of script_start stores no arguments.
StartRunOnly(s, b) ==
    /\ spc[s] = "start"
    /\ b \in sleft[s]
    /\ started' = started \cup {<<s, b>>}
    /\ sleft' = [sleft EXCEPT ![s] = @ \ {b}]
    /\ UNCHANGED <<exists, progress, args, spc, scur, unset, handlerVars, accepted,
                   reports>>

\* engine_kit.schedule
StartRun(s, b) ==
    /\ spc[s] = "start"
    /\ b \in sleft[s]
    /\ started' = started \cup {<<s, b>>}
    /\ sleft' = [sleft EXCEPT ![s] = @ \ {b}]
    /\ scur' = [scur EXCEPT ![s] = b]
    /\ spc' = [spc EXCEPT ![s] = "args"]
    /\ UNCHANGED <<exists, progress, args, unset, handlerVars, accepted, reports>>

\* crawl_redis.set of args#batch
SetArgs(s) ==
    /\ spc[s] = "args"
    /\ args' = args \cup {scur[s]}
    /\ scur' = [scur EXCEPT ![s] = NoBatch]
    /\ spc' = [spc EXCEPT ![s] = "start"]
    /\ UNCHANGED <<exists, progress, started, sleft, unset, handlerVars,
                   accepted, reports>>

\* A node, scrapyd or Redis fails: Result.fail, the rest is not started and the
\* row is not saved.
FailStart(s) ==
    /\ spc[s] # "idle"
    /\ spc' = [spc EXCEPT ![s] = "idle"]
    /\ sleft' = [sleft EXCEPT ![s] = {}]
    /\ scur' = [scur EXCEPT ![s] = NoBatch]
    /\ unset' = IF spc[s] = "args" THEN unset \cup {scur[s]} ELSE unset
    /\ UNCHANGED <<exists, progress, args, started, handlerVars, accepted, reports>>

\* The row that was read is saved whole: one removed meanwhile is back.
EndStart(s) ==
    /\ spc[s] = "start"
    /\ sleft[s] = {}
    /\ exists' = exists \cup {s}
    /\ spc' = [spc EXCEPT ![s] = "idle"]
    /\ UNCHANGED <<progress, args, started, sleft, scur, unset, handlerVars,
                   accepted, reports>>

ScriptRemove(s) ==
    /\ s \in exists
    /\ exists' = exists \ {s}
    /\ UNCHANGED <<progress, startVars, handlerVars, accepted, reports>>

-----------------------------------------------------------------------------
(* collect_script_progress, for handler h.                                 *)

Goto(h, p) ==
    /\ pc' = [pc EXCEPT ![h] = p]
    /\ UNCHANGED <<rep, seen, answer, crowded>>

\* The request is answered; ok says whether with Result.success.
Reply(h, ok) ==
    /\ pc' = [pc EXCEPT ![h] = "idle"]
    /\ rep' = [rep EXCEPT ![h] = NoReport]
    /\ seen' = [seen EXCEPT ![h] = "absent"]
    /\ answer' = IF ok THEN "success" ELSE "fail"
    /\ crowded' = crowded \ {h}

Confirm(h, ok) ==
    accepted' = IF ok THEN accepted \cup {<<rep[h].script, rep[h].batch>>}
                      ELSE accepted

AtWork(b) == {h \in Handler : pc[h] # "idle" /\ rep[h].batch = b}

\* A report arrives, with an arg_key or without one.
Receive(h, r) ==
    /\ reports < MaxReports
    /\ pc[h] = "idle"
    /\ <<r.script, r.batch>> \in started
    /\ reports' = reports + 1
    /\ \E p \in {"args", "look"} : pc' = [pc EXCEPT ![h] = p]
    /\ rep' = [rep EXCEPT ![h] = r]
    /\ crowded' = IF AtWork(r.batch) = {} THEN crowded
                  ELSE crowded \cup AtWork(r.batch) \cup {h}
    /\ UNCHANGED <<exists, progress, startVars, seen, answer, accepted>>

GetArgs(h) ==
    /\ pc[h] = "args"
    /\ rep[h].batch \in args
    /\ Goto(h, "look")
    /\ UNCHANGED <<exists, progress, startVars, accepted, reports>>

\* bytes.decode(None): the report is refused.
Refuse(h) ==
    /\ pc[h] = "args"
    /\ rep[h].batch \notin args
    /\ Reply(h, FALSE)
    /\ UNCHANGED <<exists, progress, startVars, accepted, reports>>

\* The query runs when its truth value is taken.
Look(h) ==
    /\ pc[h] = "look"
    /\ IF Found(rep[h])
       THEN /\ pc' = [pc EXCEPT ![h] = "update"]
            /\ seen' = [seen EXCEPT ![h] = progress[rep[h].batch].msg]
            /\ UNCHANGED <<rep, answer, crowded>>
       ELSE Goto(h, "find")
    /\ UNCHANGED <<exists, progress, startVars, accepted, reports>>

\* Fault variant: the message of the row is not looked at.
MessageSentOnly(h) == rep[h].msg

\* A failure without a message keeps the one that was read.
MessageToSet(h) ==
    IF /\ rep[h].status = "failed"
       /\ rep[h].msg # "text"
       /\ seen[h] = "text"
    THEN "text" ELSE rep[h].msg

\* After a failure the name CrawlUserAlertRel, which is not defined, raises:
\* the row is updated and the answer is Result.fail.
Update(h) ==
    LET r == rep[h] IN
    /\ pc[h] = "update"
    /\ progress' = [progress EXCEPT ![r.batch] = Updated(@, r, MessageToSet(h))]
    /\ Reply(h, r.status # "failed")
    /\ Confirm(h, r.status # "failed")
    /\ UNCHANGED <<exists, startVars, reports>>

\* CrawlScript.objects.filter by name; without one nothing is recorded.
FindScript(h) ==
    /\ pc[h] = "find"
    /\ IF rep[h].script \in exists THEN Goto(h, "create") ELSE Reply(h, TRUE)
    /\ UNCHANGED <<exists, progress, startVars, accepted, reports>>

\* INSERT; batch is unique: IntegrityError.
Create(h) ==
    LET r == rep[h] IN
    /\ pc[h] = "create"
    /\ IF progress[r.batch] = NoRow
       THEN /\ progress' = [progress EXCEPT ![r.batch] = RowOf(r)]
            /\ Reply(h, TRUE)
            /\ Confirm(h, TRUE)
       ELSE /\ Goto(h, "again")
            /\ UNCHANGED <<progress, accepted>>
    /\ UNCHANGED <<exists, startVars, reports>>

\* Fault variant: the conflict is taken for a report that is there already.
LookAgainBlindly(h) ==
    /\ pc[h] = "again"
    /\ Reply(h, TRUE)
    /\ Confirm(h, TRUE)
    /\ UNCHANGED <<exists, progress, startVars, reports>>

\* Fault variant: the conflict is not handled.
LookAgainNever(h) ==
    /\ pc[h] = "again"
    /\ Reply(h, FALSE)
    /\ UNCHANGED <<exists, progress, startVars, accepted, reports>>

\* script_progress[0] in the except clause: IndexError if the row of the batch
\* is another script's.
LookAgain(h) ==
    /\ pc[h] = "again"
    /\ IF Found(rep[h]) THEN Goto(h, "reupdate") ELSE Reply(h, FALSE)
    /\ UNCHANGED <<exists, progress, startVars, accepted, reports>>

UpdateAgain(h) ==
    LET r == rep[h] IN
    /\ pc[h] = "reupdate"
    /\ progress' = [progress EXCEPT ![r.batch] = Updated(@, r, r.msg)]
    /\ Reply(h, r.status # "failed")
    /\ Confirm(h, r.status # "failed")
    /\ UNCHANGED <<exists, startVars, reports>>

-----------------------------------------------------------------------------
Handle(h) ==
    \/ GetArgs(h)
    \/ Refuse(h)
    \/ Look(h)
    \/ Update(h)
    \/ FindScript(h)
    \/ Create(h)
    \/ LookAgain(h)
    \/ UpdateAgain(h)

Start(s) ==
    \/ \E bs \in SUBSET Batch : BeginStart(s, bs)
    \/ \E b \in Batch : StartRun(s, b)
    \/ SetArgs(s)
    \/ FailStart(s)
    \/ EndStart(s)

Next ==
    \/ \E s \in Script : Start(s) \/ ScriptRemove(s)
    \/ \E h \in Handler, r \in Report : Receive(h, r)
    \/ \E h \in Handler : Handle(h)

Spec == Init /\ [][Next]_vars

-----------------------------------------------------------------------------
TypeOK ==
    /\ exists \subseteq Script
    /\ args \subseteq Batch
    /\ progress \in [Batch -> ProgressRow \cup {NoRow}]
    /\ started \subseteq Script \X Batch
    /\ spc \in [Script -> {"idle", "start", "args"}]
    /\ sleft \in [Script -> SUBSET Batch]
    /\ scur \in [Script -> Batch \cup {NoBatch}]
    /\ unset \subseteq Batch
    /\ pc \in [Handler -> {"idle", "args", "look", "update", "find", "create",
                           "again", "reupdate"}]
    /\ rep \in [Handler -> Report \cup {NoReport}]
    /\ seen \in [Handler -> Msg]
    /\ answer \in {"none", "success", "fail"}
    /\ crowded \subseteq Handler
    /\ accepted \subseteq Script \X Batch
    /\ reports \in 0 .. MaxReports
    /\ \A h \in Handler : pc[h] # "idle" => rep[h] \in Report
    /\ \A s \in Script : spc[s] = "args" => scur[s] \in Batch

\* A report that was recorded and confirmed stays recorded under its script:
\* whatever other reports race for the batch, from this script or from another
\* one with the same batch id, the row of the batch is its script's.
ConfirmedStaysRecorded ==
    \A s \in Script : \A b \in Batch :
        <<s, b>> \in accepted => progress[b] # NoRow /\ progress[b].script = s

\* A report of a script that exists is turned down at the insert only if
\* another script has started a run under the same batch id: two reports of the
\* same script, even in the same moment, are both recorded.
TurnedDownOnlyForAnother ==
    [][\A h \in Handler :
          (/\ pc[h] \in {"create", "again", "reupdate"}
           /\ pc'[h] = "idle"
           /\ answer' = "fail"
           /\ rep[h].status # "failed") =>
              \E t \in Script \ {rep[h].script} : <<t, rep[h].batch>> \in started]_vars

\* The message of a failure is lost to a later failure without one only when
\* two handlers were at work on the batch at the same time.
MessageKept ==
    [][\A h \in Handler :
          (/\ pc[h] # "idle"
           /\ pc'[h] = "idle"
           /\ rep[h].status = "failed"
           /\ progress[rep[h].batch] # NoRow
           /\ progress[rep[h].batch].msg = "text"
           /\ progress'[rep[h].batch].msg # "text") => h \in crowded]_vars

\* A report is refused for want of its arguments only between the start of a
\* run and the write of its arguments, or when that write failed.
RefusedOnlyEarly ==
    [][\A h \in Handler :
          Refuse(h) =>
              \/ rep[h].batch \in unset
              \/ \E s \in Script : spc[s] = "args" /\ scur[s] = rep[h].batch]_vars
=============================================================================
