------------------------- MODULE ScriptReports_proofs -------------------------
(***************************************************************************)
(* Proofs about ScriptReports, for any scripts, batch ids and handlers:    *)
(* what a confirmed report leaves behind, when a report is turned down or  *)
(* refused, and when the message of a failure can be lost.                 *)
(***************************************************************************)
EXTENDS ScriptReports, TLAPS

Busy(h) == pc[h] # "idle"

\* Reports and rows are of runs that were started.
Known ==
    /\ \A h \in Handler : Busy(h) => <<rep[h].script, rep[h].batch>> \in started
    /\ \A b \in Batch :
          progress[b] # NoRow => <<progress[b].script, b>> \in started

\* What a handler has found in the table stays true: rows are neither deleted
\* nor given to another script.
Seen ==
    /\ \A h \in Handler : pc[h] \in {"update", "reupdate"} => Found(rep[h])
    /\ \A h \in Handler : pc[h] = "again" => progress[rep[h].batch] # NoRow

\* A run that was started has its arguments in Redis, or its script_start is
\* about to write them, or could not.
Stored ==
    \A s \in Script : \A b \in Batch : <<s, b>> \in started =>
        \/ b \in args
        \/ b \in unset
        \/ \E t \in Script : spc[t] = "args" /\ scur[t] = b

IInv == TypeOK /\ Known /\ Seen /\ Stored /\ ConfirmedStaysRecorded

\* Two handlers at work on one batch are crowded; one that is alone knows what
\* is in the table.
Alone ==
    /\ \A h, g \in Handler :
          (h # g /\ Busy(h) /\ Busy(g) /\ rep[h].batch = rep[g].batch)
              => h \in crowded
    /\ \A h \in Handler \ crowded :
          /\ pc[h] = "update" => seen[h] = progress[rep[h].batch].msg
          /\ pc[h] \in {"find", "create", "again"} => ~ Found(rep[h])
          /\ pc[h] # "reupdate"

-----------------------------------------------------------------------------
\* Reports and rows are told apart from their sentinels, and an update leaves a
\* row with the script it had.
LEMMA Rows ==
  /\ NoRow \notin ProgressRow
  /\ NoReport \notin Report
  /\ \A r \in Report : RowOf(r) \in ProgressRow
  /\ \A o \in ProgressRow, r \in Report, m \in Msg :
        Updated(o, r, m) \in ProgressRow /\ Updated(o, r, m).script = o.script
  /\ \A o \in ProgressRow, r \in Report : Updated(o, r, "text").msg = "text"
<1>1. NoRow \notin ProgressRow
  <2>1. SUFFICES ASSUME NoRow \in ProgressRow PROVE FALSE
    OBVIOUS
  <2>2. NoRow.msg = "none" /\ NoRow.msg \in Msg
    BY <2>1 DEF NoRow, ProgressRow
  <2>3. QED
    BY <2>2 DEF Msg
<1>2. NoReport \notin Report
  <2>1. SUFFICES ASSUME NoReport \in Report PROVE FALSE
    OBVIOUS
  <2>2. NoReport.status = "none" /\ NoReport.status \in Status
    BY <2>1 DEF NoReport, Report
  <2>3. QED
    BY <2>2 DEF Status
<1>3. \A r \in Report : RowOf(r) \in ProgressRow
  BY DEF Report, RowOf, ProgressRow
<1>4. \A o \in ProgressRow, r \in Report, m \in Msg :
         Updated(o, r, m) \in ProgressRow /\ Updated(o, r, m).script = o.script
  BY DEF Report, ProgressRow, Updated
<1>5. \A o \in ProgressRow, r \in Report : Updated(o, r, "text").msg = "text"
  BY DEF Report, ProgressRow, Updated
<1>6. QED
  BY <1>1, <1>2, <1>3, <1>4, <1>5

\* The invariant holds at the start.
LEMMA InitIInv == Init => IInv /\ Alone
  BY BoundAssumption
  DEF Init, IInv, Alone, TypeOK, Known, Seen, Stored, ConfirmedStaysRecorded,
      Busy, Msg

-----------------------------------------------------------------------------
\* Starting and removing scripts.
LEMMA StartKeeps ==
  ASSUME IInv, NEW s \in Script, Start(s) \/ ScriptRemove(s)
  PROVE  IInv' /\ UNCHANGED <<handlerVars, progress>>
<1>1. UNCHANGED <<handlerVars, progress, accepted, reports>> /\ started \subseteq started'
  BY DEF Start, ScriptRemove, BeginStart, StartRun, SetArgs, FailStart, EndStart,
         startVars
<1>2. TypeOK'
  <2>1. CASE \E bs \in SUBSET Batch : BeginStart(s, bs)
    BY <2>1, <1>1 DEF IInv, TypeOK, BeginStart, handlerVars
  <2>2. CASE \E b \in Batch : StartRun(s, b)
    BY <2>2, <1>1 DEF IInv, TypeOK, StartRun, handlerVars
  <2>3. CASE SetArgs(s)
    BY <2>3, <1>1 DEF IInv, TypeOK, SetArgs, handlerVars
  <2>4. CASE FailStart(s)
    BY <2>4, <1>1 DEF IInv, TypeOK, FailStart, handlerVars
  <2>5. CASE EndStart(s)
    BY <2>5, <1>1 DEF IInv, TypeOK, EndStart, handlerVars
  <2>6. CASE ScriptRemove(s)
    BY <2>6, <1>1 DEF IInv, TypeOK, ScriptRemove, handlerVars, startVars
  <2>7. QED
    BY <2>1, <2>2, <2>3, <2>4, <2>5, <2>6 DEF Start
<1>3. Known' /\ Seen' /\ ConfirmedStaysRecorded'
  BY <1>1 DEF IInv, Known, Seen, ConfirmedStaysRecorded, Busy, Found, handlerVars
<1>4. Stored'
  <2>1. CASE \E bs \in SUBSET Batch : BeginStart(s, bs)
    BY <2>1 DEF IInv, TypeOK, Stored, BeginStart
  <2>2. CASE \E b \in Batch : StartRun(s, b)
    BY <2>2 DEF IInv, TypeOK, Stored, StartRun
  <2>3. CASE SetArgs(s)
    BY <2>3 DEF IInv, TypeOK, Stored, SetArgs
  <2>4. CASE FailStart(s)
    BY <2>4 DEF IInv, TypeOK, Stored, FailStart
  <2>5. CASE EndStart(s)
    BY <2>5 DEF IInv, TypeOK, Stored, EndStart
  <2>6. CASE ScriptRemove(s)
    BY <2>6 DEF IInv, TypeOK, Stored, ScriptRemove, startVars
  <2>7. QED
    BY <2>1, <2>2, <2>3, <2>4, <2>5, <2>6 DEF Start
<1>5. QED
  BY <1>1, <1>2, <1>3, <1>4 DEF IInv

\* A report arrives.
LEMMA ReceiveKeeps ==
  ASSUME IInv, NEW h \in Handler, NEW r \in Report, Receive(h, r)
  PROVE  IInv'
<1>1. TypeOK'
  BY BoundAssumption DEF IInv, TypeOK, Receive, startVars, AtWork
<1>2. Known' /\ Seen' /\ Stored' /\ ConfirmedStaysRecorded'
  BY DEF IInv, TypeOK, Known, Seen, Stored, ConfirmedStaysRecorded, Receive, startVars,
         Busy, Found
<1>3. QED
  BY <1>1, <1>2 DEF IInv

\* What a step of a handler does to the others, and to the table: a row stays
\* its script's, and only the row of the handler's batch changes.
LEMMA HandleFacts ==
  ASSUME IInv, NEW h \in Handler, Handle(h)
  PROVE  /\ Busy(h) /\ rep[h] \in Report
         /\ UNCHANGED <<exists, startVars, reports>>
         /\ \A g \in Handler \ {h} : pc'[g] = pc[g] /\ rep'[g] = rep[g] /\ seen'[g] = seen[g]
         /\ pc'[h] = "idle" \/ rep' = rep
         /\ \A b \in Batch \ {rep[h].batch} : progress'[b] = progress[b]
         /\ \A b \in Batch : progress[b] # NoRow =>
               progress'[b] # NoRow /\ progress'[b].script = progress[b].script
         /\ progress'[rep[h].batch] # NoRow =>
               \/ progress[rep[h].batch] # NoRow
               \/ progress'[rep[h].batch].script = rep[h].script
         /\ crowded' \in {crowded, crowded \ {h}}
         /\ crowded' = crowded \/ pc'[h] = "idle"
<1>1. /\ pc \in [Handler -> {"idle", "args", "look", "update", "find", "create",
                             "again", "reupdate"}]
      /\ rep \in [Handler -> Report \cup {NoReport}]
      /\ seen \in [Handler -> Msg]
      /\ progress \in [Batch -> ProgressRow \cup {NoRow}]
  BY DEF IInv, TypeOK
<1>2. Busy(h) /\ rep[h] \in Report /\ rep[h].batch \in Batch
  BY DEF IInv, TypeOK, Handle, GetArgs, Refuse, Look, Update, FindScript, Create,
         LookAgain, UpdateAgain, Busy, Report
<1>3. MessageToSet(h) \in Msg /\ rep[h].msg \in Msg
  BY <1>2 DEF MessageToSet, Msg, Report
<1>4. CASE GetArgs(h)
  BY <1>1, <1>2, <1>4 DEF GetArgs, Goto
<1>5. CASE Refuse(h)
  BY <1>1, <1>2, <1>5 DEF Refuse, Reply
<1>6. CASE Look(h)
  BY <1>1, <1>2, <1>6 DEF Look, Goto
<1>7. CASE Update(h)
  <2>1. progress[rep[h].batch] \in ProgressRow
    BY <1>1, <1>2, <1>7 DEF IInv, Seen, Found, Update
  <2>2. QED
    BY <1>1, <1>2, <1>3, <1>7, <2>1, Rows DEF Update, Reply
<1>8. CASE FindScript(h)
  BY <1>1, <1>2, <1>8 DEF FindScript, Goto, Reply
<1>9. CASE Create(h)
  <2>1. CASE progress[rep[h].batch] = NoRow
    <3>1. /\ progress' = [progress EXCEPT ![rep[h].batch] = RowOf(rep[h])]
          /\ Reply(h, TRUE)
          /\ UNCHANGED <<exists, startVars, reports>>
      BY <1>9, <2>1 DEF Create
    <3>2. RowOf(rep[h]).script = rep[h].script
      BY DEF RowOf
    <3>3. QED
      BY <1>1, <1>2, <2>1, <3>1, <3>2 DEF Reply
  <2>2. CASE progress[rep[h].batch] # NoRow
    <3>1. Goto(h, "again") /\ UNCHANGED <<progress, exists, startVars, reports>>
      BY <1>9, <2>2 DEF Create
    <3>2. QED
      BY <1>1, <1>2, <2>2, <3>1 DEF Goto
  <2>3. QED
    BY <2>1, <2>2
<1>10. CASE LookAgain(h)
  BY <1>1, <1>2, <1>10 DEF LookAgain, Goto, Reply
<1>11. CASE UpdateAgain(h)
  <2>1. progress[rep[h].batch] \in ProgressRow
    BY <1>1, <1>2, <1>11 DEF IInv, Seen, Found, UpdateAgain
  <2>2. QED
    BY <1>1, <1>2, <1>3, <1>11, <2>1, Rows DEF UpdateAgain, Reply
<1>12. QED
  BY <1>4, <1>5, <1>6, <1>7, <1>8, <1>9, <1>10, <1>11 DEF Handle

\* A step of a handler keeps the invariant.
LEMMA HandleKeeps ==
  ASSUME IInv, NEW h \in Handler, Handle(h)
  PROVE  IInv'
<1>1. /\ pc \in [Handler -> {"idle", "args", "look", "update", "find", "create",
                             "again", "reupdate"}]
      /\ rep \in [Handler -> Report \cup {NoReport}]
      /\ seen \in [Handler -> Msg]
      /\ progress \in [Batch -> ProgressRow \cup {NoRow}]
      /\ \A g \in Handler : pc[g] # "idle" => rep[g] \in Report
  BY DEF IInv, TypeOK
<1>2. Busy(h) /\ rep[h] \in Report /\ rep[h].batch \in Batch /\ rep[h].script \in Script
  BY HandleFacts DEF Report
<1>3. /\ pc' \in [Handler -> {"idle", "args", "look", "update", "find", "create",
                             "again", "reupdate"}]
      /\ rep' \in [Handler -> Report \cup {NoReport}]
      /\ seen' \in [Handler -> Msg]
      /\ answer' \in {"none", "success", "fail"}
      /\ crowded' \subseteq Handler
      /\ accepted' \subseteq Script \X Batch
  <2>1. /\ answer \in {"none", "success", "fail"} /\ crowded \subseteq Handler
        /\ accepted \subseteq Script \X Batch
    BY DEF IInv, TypeOK
  <2>2. "absent" \in Msg
    BY DEF Msg
  <2>3. CASE GetArgs(h)
    BY <1>1, <2>1, <2>3 DEF GetArgs, Goto
  <2>4. CASE Refuse(h)
    BY <1>1, <2>1, <2>2, <2>4 DEF Refuse, Reply
  <2>5. CASE Look(h)
    <3>1. Found(rep[h]) => progress[rep[h].batch].msg \in Msg
      BY <1>1, <1>2 DEF Found, ProgressRow
    <3>2. QED
      BY <1>1, <2>1, <2>5, <3>1 DEF Look, Goto
  <2>6. CASE Update(h)
    BY <1>1, <1>2, <2>1, <2>2, <2>6 DEF Update, Reply, Confirm
  <2>7. CASE FindScript(h)
    BY <1>1, <2>1, <2>2, <2>7 DEF FindScript, Goto, Reply
  <2>8. CASE Create(h)
    BY <1>1, <1>2, <2>1, <2>2, <2>8 DEF Create, Goto, Reply, Confirm
  <2>9. CASE LookAgain(h)
    BY <1>1, <2>1, <2>2, <2>9 DEF LookAgain, Goto, Reply
  <2>10. CASE UpdateAgain(h)
    BY <1>1, <1>2, <2>1, <2>2, <2>10 DEF UpdateAgain, Reply, Confirm
  <2>11. QED
    BY <2>3, <2>4, <2>5, <2>6, <2>7, <2>8, <2>9, <2>10 DEF Handle
<1>4. progress' \in [Batch -> ProgressRow \cup {NoRow}]
  <2>1. MessageToSet(h) \in Msg /\ rep[h].msg \in Msg
    BY <1>2 DEF MessageToSet, Msg, Report
  <2>2. CASE Update(h) \/ UpdateAgain(h)
    <3>1. progress[rep[h].batch] \in ProgressRow
      BY <1>1, <1>2, <2>2 DEF IInv, Seen, Found, Update, UpdateAgain
    <3>2. \A m \in Msg : Updated(progress[rep[h].batch], rep[h], m) \in ProgressRow
      BY <1>2, <3>1, Rows
    <3>3. PICK m \in Msg : progress' =
            [progress EXCEPT ![rep[h].batch] = Updated(progress[rep[h].batch], rep[h], m)]
      BY <2>1, <2>2 DEF Update, UpdateAgain
    <3>4. QED
      BY <1>1, <1>2, <3>2, <3>3
  <2>3. CASE Create(h)
    BY <1>1, <1>2, <2>3, Rows DEF Create
  <2>4. CASE GetArgs(h) \/ Refuse(h) \/ Look(h) \/ FindScript(h) \/ LookAgain(h)
    BY <1>1, <2>4 DEF GetArgs, Refuse, Look, FindScript, LookAgain
  <2>5. QED
    BY <2>2, <2>3, <2>4 DEF Handle
<1>5. TypeOK'
  <2>1. UNCHANGED <<exists, startVars, reports>>
    BY HandleFacts
  <2>2. \A g \in Handler : pc'[g] # "idle" => rep'[g] \in Report
    <3>1. \A g \in Handler \ {h} : pc'[g] = pc[g] /\ rep'[g] = rep[g]
      BY HandleFacts
    <3>2. pc'[h] = "idle" \/ rep' = rep
      BY HandleFacts
    <3>3. QED
      BY <1>1, <1>2, <3>1, <3>2
  <2>3. QED
    BY <1>3, <1>4, <2>1, <2>2 DEF IInv, TypeOK, startVars
<1>6. Known'
  <2>1. started' = started /\ Known
    BY HandleFacts DEF startVars, IInv
  <2>2. \A g \in Handler : Busy(g)' => rep'[g] = rep[g] /\ Busy(g)
    <3>1. \A g \in Handler \ {h} : pc'[g] = pc[g] /\ rep'[g] = rep[g]
      BY HandleFacts
    <3>2. pc'[h] = "idle" \/ rep' = rep
      BY HandleFacts
    <3>3. QED
      BY <1>2, <3>1, <3>2 DEF Busy
  <2>3. \A b \in Batch : progress'[b] # NoRow =>
           \/ progress[b] # NoRow /\ progress'[b].script = progress[b].script
           \/ b = rep[h].batch /\ progress'[b].script = rep[h].script
    BY HandleFacts
  <2>4. QED
    BY <1>2, <2>1, <2>2, <2>3 DEF Known
<1>7. Seen'
  <2>1. \A b \in Batch : progress[b] # NoRow =>
           progress'[b] # NoRow /\ progress'[b].script = progress[b].script
    BY HandleFacts
  <2>2. ASSUME NEW g \in Handler \ {h}
        PROVE  /\ pc'[g] \in {"update", "reupdate"} => Found(rep[g])'
               /\ pc'[g] = "again" => progress'[rep'[g].batch] # NoRow
    <3>1. pc'[g] = pc[g] /\ rep'[g] = rep[g]
      BY HandleFacts
    <3>2. pc[g] # "idle" => rep[g].batch \in Batch
      BY <1>1 DEF Report
    <3>3. QED
      BY <2>1, <3>1, <3>2 DEF IInv, Seen, Found
  <2>3. /\ pc'[h] \in {"update", "reupdate"} => Found(rep[h])'
        /\ pc'[h] = "again" => progress'[rep'[h].batch] # NoRow
    BY <1>1, <1>2 DEF Handle, GetArgs, Refuse, Look, Update, FindScript, Create,
       LookAgain, UpdateAgain, Goto, Reply, Found
  <2>4. QED
    BY <2>2, <2>3 DEF Seen
<1>8. Stored'
  BY HandleFacts DEF IInv, Stored, startVars
<1>9. ConfirmedStaysRecorded'
  <2>1. \A b \in Batch : progress[b] # NoRow =>
           progress'[b] # NoRow /\ progress'[b].script = progress[b].script
    BY HandleFacts
  <2>2. \/ accepted' = accepted
        \/ /\ accepted' = accepted \cup {<<rep[h].script, rep[h].batch>>}
           /\ Update(h) \/ UpdateAgain(h) \/ Create(h)
    BY DEF Handle, GetArgs, Refuse, Look, Update, FindScript, Create, LookAgain,
           UpdateAgain, Confirm
  <2>3. CASE accepted' = accepted
    BY <2>1, <2>3 DEF IInv, ConfirmedStaysRecorded
  <2>4. CASE /\ accepted' = accepted \cup {<<rep[h].script, rep[h].batch>>}
             /\ Update(h) \/ UpdateAgain(h)
    <3>1. Found(rep[h])
      BY <2>4 DEF IInv, Seen, Update, UpdateAgain
    <3>2. QED
      BY <1>2, <2>1, <2>4, <3>1 DEF IInv, ConfirmedStaysRecorded, Found
  <2>5. CASE accepted' # accepted /\ Create(h)
    <3>1. /\ progress' = [progress EXCEPT ![rep[h].batch] = RowOf(rep[h])]
          /\ accepted' = accepted \cup {<<rep[h].script, rep[h].batch>>}
      BY <2>5, <2>2 DEF Create
    <3>2. RowOf(rep[h]) # NoRow /\ RowOf(rep[h]).script = rep[h].script
      BY <1>2, Rows DEF RowOf
    <3>3. progress'[rep[h].batch] # NoRow
          /\ progress'[rep[h].batch].script = rep[h].script
      BY <1>1, <1>2, <3>1, <3>2
    <3>4. QED
      BY <1>2, <2>1, <3>1, <3>3 DEF IInv, ConfirmedStaysRecorded
  <2>6. QED
    BY <2>2, <2>3, <2>4, <2>5
<1>10. QED
  BY <1>5, <1>6, <1>7, <1>8, <1>9 DEF IInv

\* Every step keeps the invariant.
LEMMA NextIInv == IInv /\ [Next]_vars => IInv'
<1> SUFFICES ASSUME IInv, [Next]_vars PROVE IInv'
  OBVIOUS
<1>1. ASSUME NEW s \in Script, Start(s) \/ ScriptRemove(s) PROVE IInv'
  BY <1>1, StartKeeps
<1>2. ASSUME NEW h \in Handler, NEW r \in Report, Receive(h, r) PROVE IInv'
  BY <1>2, ReceiveKeeps
<1>3. ASSUME NEW h \in Handler, Handle(h) PROVE IInv'
  BY <1>3, HandleKeeps
<1>4. CASE UNCHANGED vars
  BY <1>4 DEF vars, startVars, handlerVars, IInv, TypeOK, Known, Seen, Stored,
     ConfirmedStaysRecorded, Busy, Found
<1>5. QED
  BY <1>1, <1>2, <1>3, <1>4 DEF Next

\* The invariant holds in every reachable state.
LEMMA SpecIInv == Spec => []IInv
<1>1. Init => IInv
  BY InitIInv
<1>2. QED
  BY <1>1, NextIInv, PTL DEF Spec

-----------------------------------------------------------------------------
\* Types: what a row, a report and a handler are.
THEOREM TypeCorrect == Spec => []TypeOK
<1>1. IInv => TypeOK
  BY DEF IInv
<1>2. QED
  BY <1>1, SpecIInv, PTL

\* A report that was recorded and confirmed stays recorded under its script.
THEOREM ConfirmedRecorded == Spec => []ConfirmedStaysRecorded
<1>1. IInv => ConfirmedStaysRecorded
  BY DEF IInv
<1>2. QED
  BY <1>1, SpecIInv, PTL

\* A report is refused only while the arguments of its run are not stored.
THEOREM RefusedEarly == Spec => RefusedOnlyEarly
<1>1. ASSUME IInv, NEW h \in Handler, Refuse(h)
      PROVE  \/ rep[h].batch \in unset
             \/ \E s \in Script : spc[s] = "args" /\ scur[s] = rep[h].batch
  <2>1. Busy(h) /\ rep[h].batch \notin args
    BY <1>1 DEF Refuse, Busy
  <2>2. <<rep[h].script, rep[h].batch>> \in started
    BY <1>1, <2>1 DEF IInv, Known
  <2>3. rep[h].script \in Script /\ rep[h].batch \in Batch
    BY <1>1, <2>1 DEF IInv, TypeOK, Busy, Report
  <2>4. QED
    BY <1>1, <2>1, <2>2, <2>3 DEF IInv, Stored
<1>2. IInv /\ [Next]_vars =>
        [\A h \in Handler :
            Refuse(h) =>
              \/ rep[h].batch \in unset
              \/ \E s \in Script : spc[s] = "args" /\ scur[s] = rep[h].batch]_vars
  BY <1>1
<1>3. QED
  BY <1>2, SpecIInv, PTL DEF Spec, RefusedOnlyEarly

\* A handler that goes idle does so by a step of its own.
LEMMA OwnStep ==
  ASSUME IInv, [Next]_vars, NEW h \in Handler, pc[h] # "idle", pc'[h] = "idle"
  PROVE  Handle(h)
<1>1. CASE UNCHANGED vars
  BY <1>1 DEF vars, handlerVars
<1>2. ASSUME NEW s \in Script, Start(s) \/ ScriptRemove(s) PROVE FALSE
  BY <1>2, StartKeeps DEF handlerVars
<1>3. ASSUME NEW g \in Handler, NEW r \in Report, Receive(g, r) PROVE FALSE
  BY <1>3 DEF Receive, IInv, TypeOK
<1>4. ASSUME NEW g \in Handler, Handle(g) PROVE g = h
  BY <1>4, HandleFacts
<1>5. QED
  BY <1>1, <1>2, <1>3, <1>4 DEF Next

\* A report of a script that exists is turned down at the insert only if
\* another script has started a run under the same batch id.
THEOREM TurnedDown == Spec => TurnedDownOnlyForAnother
<1>1. ASSUME IInv, [Next]_vars, NEW h \in Handler,
             pc[h] \in {"create", "again", "reupdate"}, pc'[h] = "idle",
             answer' = "fail", rep[h].status # "failed"
      PROVE  \E t \in Script \ {rep[h].script} : <<t, rep[h].batch>> \in started
  <2>1. Handle(h)
    BY <1>1, OwnStep
  <2>2. LookAgain(h) /\ ~ Found(rep[h])
    BY <1>1, <2>1 DEF Handle, GetArgs, Refuse, Look, Update, FindScript, Create,
       LookAgain, UpdateAgain, Reply, Goto, IInv, TypeOK
  <2>3. progress[rep[h].batch] # NoRow /\ progress[rep[h].batch].script # rep[h].script
    BY <1>1, <2>2 DEF LookAgain, IInv, Seen, Found
  <2>4. rep[h].batch \in Batch
    BY <1>1 DEF IInv, TypeOK, Report
  <2>5. progress[rep[h].batch].script \in Script
    BY <1>1, <2>3, <2>4 DEF IInv, TypeOK, ProgressRow
  <2>6. <<progress[rep[h].batch].script, rep[h].batch>> \in started
    BY <1>1, <2>3, <2>4 DEF IInv, Known
  <2>7. QED
    BY <2>3, <2>5, <2>6
<1>2. IInv /\ [Next]_vars =>
        [\A h \in Handler :
            (/\ pc[h] \in {"create", "again", "reupdate"}
             /\ pc'[h] = "idle"
             /\ answer' = "fail"
             /\ rep[h].status # "failed") =>
                \E t \in Script \ {rep[h].script} : <<t, rep[h].batch>> \in started]_vars
  BY <1>1
<1>3. QED
  BY <1>2, SpecIInv, PTL DEF Spec, TurnedDownOnlyForAnother

-----------------------------------------------------------------------------
\* Every step keeps what a handler that is alone knows of its row.
LEMMA NextAlone == IInv /\ Alone /\ [Next]_vars => Alone'
<1> SUFFICES ASSUME IInv, Alone, [Next]_vars PROVE Alone'
  OBVIOUS
<1>1. CASE UNCHANGED <<handlerVars, progress>>
  BY <1>1 DEF Alone, Busy, Found, handlerVars
<1>2. ASSUME NEW s \in Script, Start(s) \/ ScriptRemove(s) PROVE Alone'
  BY <1>1, <1>2, StartKeeps
<1>3. ASSUME NEW h \in Handler, NEW r \in Report, Receive(h, r) PROVE Alone'
  <2>1. /\ pc'[h] \in {"args", "look"}
        /\ \A g \in Handler \ {h} : pc'[g] = pc[g] /\ rep'[g] = rep[g]
        /\ rep'[h] = r /\ pc[h] = "idle"
        /\ progress' = progress /\ seen' = seen
    BY <1>3 DEF Receive, IInv, TypeOK
  <2>2. /\ crowded \subseteq crowded'
        /\ \A g \in Handler \ {h} : (Busy(g) /\ rep[g].batch = r.batch) =>
              g \in crowded' /\ h \in crowded'
    BY <1>3 DEF Receive, AtWork, Busy
  <2>3. \A g, k \in Handler :
           (g # k /\ Busy(g)' /\ Busy(k)' /\ rep'[g].batch = rep'[k].batch)
              => g \in crowded'
    BY <2>1, <2>2 DEF Alone, Busy
  <2>4. \A g \in Handler \ crowded' :
           /\ pc'[g] = "update" => seen'[g] = progress'[rep'[g].batch].msg
           /\ pc'[g] \in {"find", "create", "again"} => ~ Found(rep[g])'
           /\ pc'[g] # "reupdate"
    BY <2>1, <2>2 DEF Alone, Found
  <2>5. QED
    BY <2>3, <2>4 DEF Alone
<1>4. ASSUME NEW h \in Handler, Handle(h) PROVE Alone'
  <2>1. /\ \A g \in Handler \ {h} : pc'[g] = pc[g] /\ rep'[g] = rep[g] /\ seen'[g] = seen[g]
        /\ pc'[h] = "idle" \/ rep' = rep
        /\ Busy(h)
        /\ \A b \in Batch \ {rep[h].batch} : progress'[b] = progress[b]
        /\ crowded' \in {crowded, crowded \ {h}}
        /\ crowded' = crowded \/ pc'[h] = "idle"
    BY <1>4, HandleFacts
  <2>2. \A g, k \in Handler :
           (g # k /\ Busy(g)' /\ Busy(k)' /\ rep'[g].batch = rep'[k].batch)
              => g \in crowded'
    <3>1. \A g \in Handler : Busy(g)' => Busy(g) /\ rep'[g] = rep[g]
      BY <2>1 DEF Busy
    <3>2. \A g \in Handler : Busy(g)' /\ g \in crowded => g \in crowded'
      BY <2>1 DEF Busy
    <3>3. QED
      BY <3>1, <3>2 DEF Alone
  <2>3. ASSUME NEW g \in Handler \ crowded', g # h
        PROVE  /\ pc'[g] = "update" => seen'[g] = progress'[rep'[g].batch].msg
               /\ pc'[g] \in {"find", "create", "again"} => ~ Found(rep[g])'
               /\ pc'[g] # "reupdate"
    <3>1. g \notin crowded
      BY <2>1, <2>3
    <3>2. ASSUME Busy(g) PROVE progress'[rep[g].batch] = progress[rep[g].batch]
      <4>1. rep[g].batch # rep[h].batch
        BY <2>1, <2>3, <3>1, <3>2 DEF Alone
      <4>2. rep[g].batch \in Batch
        BY <3>2 DEF IInv, TypeOK, Busy, Report
      <4>3. QED
        BY <2>1, <4>1, <4>2
    <3>3. QED
      BY <2>1, <2>3, <3>1, <3>2 DEF Alone, Busy, Found
  <2>4. ASSUME h \notin crowded'
        PROVE  /\ pc'[h] = "update" => seen'[h] = progress'[rep'[h].batch].msg
               /\ pc'[h] \in {"find", "create", "again"} => ~ Found(rep[h])'
               /\ pc'[h] # "reupdate"
    <3>1. CASE pc'[h] = "idle"
      BY <3>1
    <3>2. CASE pc'[h] # "idle"
      <4>1. h \notin crowded
        BY <2>1, <2>4, <3>2
      <4>2. /\ pc \in [Handler -> {"idle", "args", "look", "update", "find", "create",
                                   "again", "reupdate"}]
            /\ seen \in [Handler -> Msg]
        BY DEF IInv, TypeOK
      <4>3. progress' = progress /\ rep' = rep
        BY <1>4, <3>2, <4>2 DEF Handle, GetArgs, Refuse, Look, Update, FindScript,
           Create, LookAgain, UpdateAgain, Goto, Reply
      <4>4. /\ pc'[h] = "update" =>
                  Look(h) /\ seen' = [seen EXCEPT ![h] = progress[rep[h].batch].msg]
            /\ pc'[h] = "find" => ~ Found(rep[h])
            /\ pc'[h] = "create" => pc[h] = "find"
            /\ pc'[h] = "again" => pc[h] = "create"
            /\ pc'[h] = "reupdate" => pc[h] = "again" /\ Found(rep[h])
        BY <1>4, <3>2, <4>2 DEF Handle, GetArgs, Refuse, Look, Update, FindScript,
           Create, LookAgain, UpdateAgain, Goto, Reply
      <4>5. QED
        BY <4>1, <4>2, <4>3, <4>4 DEF Alone, Found
    <3>3. QED
      BY <3>1, <3>2
  <2>5. QED
    BY <2>2, <2>3, <2>4 DEF Alone
<1>5. CASE UNCHANGED vars
  BY <1>1, <1>5 DEF vars
<1>6. QED
  BY <1>2, <1>3, <1>4, <1>5 DEF Next

\* The message of a failure is lost to a later failure without one only when
\* two handlers were at work on the batch at the same time.
THEOREM MessageIsKept == Spec => MessageKept
<1>1. ASSUME IInv, Alone, [Next]_vars, NEW h \in Handler,
             pc[h] # "idle", pc'[h] = "idle", rep[h].status = "failed",
             progress[rep[h].batch] # NoRow, progress[rep[h].batch].msg = "text",
             progress'[rep[h].batch].msg # "text"
      PROVE  h \in crowded
  <2>1. Handle(h)
    BY <1>1, OwnStep
  <2>2. Update(h) \/ UpdateAgain(h)
    BY <1>1, <2>1 DEF Handle, GetArgs, Refuse, Look, Update, FindScript, Create,
       LookAgain, UpdateAgain
  <2>3. SUFFICES ASSUME h \notin crowded PROVE FALSE
    OBVIOUS
  <2>4. Update(h) /\ seen[h] = "text"
    BY <1>1, <2>2, <2>3 DEF Alone, Update, UpdateAgain
  <2>5. MessageToSet(h) = "text"
    BY <1>1, <2>4 DEF MessageToSet
  <2>6. /\ rep[h] \in Report /\ rep[h].batch \in Batch
        /\ progress \in [Batch -> ProgressRow \cup {NoRow}]
    BY <1>1 DEF IInv, TypeOK, Report
  <2>7. progress' = [progress EXCEPT ![rep[h].batch] =
                       Updated(progress[rep[h].batch], rep[h], "text")]
    BY <2>4, <2>5 DEF Update
  <2>8. progress'[rep[h].batch].msg = "text"
    BY <1>1, <2>6, <2>7, Rows
  <2>9. QED
    BY <1>1, <2>8
<1>2. IInv /\ Alone /\ [Next]_vars =>
        [\A h \in Handler :
            (/\ pc[h] # "idle"
             /\ pc'[h] = "idle"
             /\ rep[h].status = "failed"
             /\ progress[rep[h].batch] # NoRow
             /\ progress[rep[h].batch].msg = "text"
             /\ progress'[rep[h].batch].msg # "text") => h \in crowded]_vars
  BY <1>1
<1>3. Spec => []Alone
  BY InitIInv, NextAlone, SpecIInv, PTL DEF Spec
<1>4. QED
  BY <1>2, <1>3, SpecIInv, PTL DEF Spec, MessageKept
=============================================================================
