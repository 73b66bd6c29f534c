------------------------- MODULE DataRequests_proofs -------------------------
(***************************************************************************)
(* Proofs about the requests of data synchronisation (Sync) and on users   *)
(* and roles (Accounts), for any threads, names, runs and bounds.          *)
(***************************************************************************)
EXTENDS Requests, TLAPS, FiniteSetTheorems, SequenceTheorems

-----------------------------------------------------------------------------
(* Sync: what a request holds between two statements.                      *)

Instance == [run : SyncRun, ended : BOOLEAN, deleted : BOOLEAN]
TaskRow == [name : TaskName, deleted : BOOLEAN]

TaskReq == [op : {"task"}, name : TaskName]
ReportReq == [op : {"report"}, run : SyncRun, ended : BOOLEAN, found : BOOLEAN]
DeleteReq == [op : {"delete"}, left : SUBSET Nat, view : Seq(Instance),
              written : SUBSET Nat]
DaysReq == [op : {"days"}, left : Nat, last : Nat]
SyncReq == {S!None} \cup TaskReq \cup ReportReq \cup DeleteReq \cup DaysReq

Reporting(t) == req[t].op = "report"
Deleting(t) == req[t].op = "delete"

SyncTypes ==
    /\ strict \in BOOLEAN
    /\ tasks \in Seq(TaskRow)
    /\ instances \in Seq(Instance)
    /\ dataDays \in Nat
    /\ data \in Seq([instance : 1 .. dataDays, deleted : BOOLEAN])
    /\ req \in [SyncThread -> SyncReq]
    /\ \A t \in SyncThread : req[t].op = "days" => req[t].last <= dataDays
    /\ asked \in 0 .. MaxSync
    /\ removed \cup overtaken \subseteq DOMAIN instances

\* A first report is the only one at work on its run, and the run has no row yet.
FirstReports ==
    \A t \in SyncThread :
        (Reporting(t) /\ ~ req[t].found /\ req[t].run \notin raced) =>
            /\ S!RowsOf(req[t].run) = {}
            /\ \A u \in SyncThread \ {t} :
                  Reporting(u) /\ ~ req[u].found => req[u].run # req[t].run

\* The snapshot of a transaction is of rows that are still there, for the same
\* runs; an end it has missed was reported since; and it saves no row that had
\* ended in it.
Snapshots ==
    \A t \in SyncThread : Deleting(t) =>
        /\ req[t].left \cup req[t].written \subseteq DOMAIN req[t].view
        /\ \A i \in req[t].written : ~ req[t].view[i].ended
        /\ \A i \in DOMAIN req[t].view :
              /\ i \in DOMAIN instances
              /\ req[t].view[i].run = instances[i].run
              /\ instances[i].ended /\ ~ req[t].view[i].ended => i \in overtaken

\* What the reader was shown when he began is seen, or further on than the pages
\* he has read, if nothing has been removed since.
Browsing ==
    /\ browser.page \in Int
    /\ browser.gone \subseteq removed
    /\ (browser.page >= 0 /\ browser.gone = removed /\ browser.page # 0) =>
          \A i \in browser.due :
              \/ i \in browser.seen
              \/ i \in S!Listed /\ S!Rank(i) > PageSize * browser.page

SyncInv ==
    /\ SyncTypes
    /\ FirstReports
    /\ S!OneRowPerRun
    /\ Snapshots
    /\ S!DeletedAsConfirmed
    /\ Browsing

\* Which request it is tells what is held.
LEMMA SyncReqOps ==
  ASSUME NEW r \in SyncReq
  PROVE  /\ r.op = "task" => r \in TaskReq
         /\ r.op = "report" => r \in ReportReq
         /\ r.op = "delete" => r \in DeleteReq
         /\ r.op = "days" => r \in DaysReq
  BY DEF SyncReq, S!None, TaskReq, ReportReq, DeleteReq, DaysReq

LEMMA SyncInit == S!Init => SyncInv
  <1> SUFFICES ASSUME S!Init PROVE SyncInv
    OBVIOUS
  <1> USE BoundsAssumption DEF S!Init
  <1>1. req \in [SyncThread -> SyncReq] /\ \A t \in SyncThread : req[t].op = "none"
    BY DEF SyncReq, S!None
  <1>2. SyncTypes
    BY <1>1 DEF SyncTypes
  <1>3. FirstReports /\ Snapshots
    BY <1>1 DEF FirstReports, Snapshots, Reporting, Deleting
  <1>4. S!OneRowPerRun /\ S!DeletedAsConfirmed
    BY DEF S!OneRowPerRun, S!DeletedAsConfirmed
  <1>5. Browsing
    BY DEF Browsing, S!Outside
  <1> QED
    BY <1>2, <1>3, <1>4, <1>5 DEF SyncInv

\* Steps of one thread that leave the instances, and end in a request that is
\* neither a report nor a deletion.
LEMMA SyncOther ==
  ASSUME SyncInv, NEW t \in SyncThread, NEW r \in SyncReq,
         r.op \notin {"report", "delete"},
         req' = [req EXCEPT ![t] = r],
         UNCHANGED <<instances, browser, raced, removed, overtaken>>
  PROVE  /\ FirstReports' /\ S!OneRowPerRun' /\ Snapshots'
         /\ S!DeletedAsConfirmed' /\ Browsing'
  <1>1. req \in [SyncThread -> SyncReq]
    BY DEF SyncInv, SyncTypes
  <1>2. \A u \in SyncThread : (Reporting(u)' \/ Deleting(u)') => req'[u] = req[u]
    BY <1>1 DEF Reporting, Deleting
  <1>3. FirstReports'
    BY <1>2 DEF SyncInv, FirstReports, Reporting, S!RowsOf
  <1>4. Snapshots'
    BY <1>2 DEF SyncInv, Snapshots, Deleting
  <1>5. S!OneRowPerRun' /\ S!DeletedAsConfirmed' /\ Browsing'
    BY DEF SyncInv, S!OneRowPerRun, S!DeletedAsConfirmed, Browsing, S!Listed, S!Rank
  <1> QED
    BY <1>3, <1>4, <1>5

\* Steps that leave instances and requests alone.
LEMMA SyncStay ==
  ASSUME SyncInv, UNCHANGED <<instances, req, browser, raced, removed, overtaken>>
  PROVE  /\ FirstReports' /\ S!OneRowPerRun' /\ Snapshots'
         /\ S!DeletedAsConfirmed' /\ Browsing'
  BY DEF SyncInv, FirstReports, Reporting, S!RowsOf, Snapshots, Deleting, S!OneRowPerRun,
         S!DeletedAsConfirmed, Browsing, S!Listed, S!Rank

\* A function on 1 .. n is a sequence.
LEMMA IsSeq ==
  ASSUME NEW T, NEW n \in Nat, NEW f \in [1 .. n -> T]
  PROVE  f \in Seq(T) /\ Len(f) = n
  <1>1. f \in Seq(T)
    BY SeqDef
  <1> QED
    BY <1>1, LenProperties

LEMMA SyncTaskKeeps ==
  ASSUME SyncInv, NEW t \in SyncThread,
         \/ \E n \in TaskName : S!TaskCreate(t, n)
         \/ \E i \in DOMAIN tasks, n \in TaskName : S!TaskUpdate(t, i, n)
         \/ \E i \in DOMAIN tasks : S!TaskDelete(t, i)
         \/ S!InsertTask(t)
  PROVE  SyncInv'
  <1> USE BoundsAssumption DEF S!Hold, S!Done, S!Take
  <1>1. req \in [SyncThread -> SyncReq] /\ tasks \in Seq(TaskRow)
    BY DEF SyncInv, SyncTypes
  <1>2. CASE \E n \in TaskName : S!TaskCreate(t, n)
    <2>1. PICK n \in TaskName : S!TaskCreate(t, n)
      BY <1>2
    <2>2. [op |-> "task", name |-> n] \in SyncReq
      BY DEF SyncReq, TaskReq
    <2>3. UNCHANGED <<strict, tasks, instances, dataDays, data, browser, raced, removed,
                      overtaken, killed>>
      BY <2>1 DEF S!TaskCreate, S!syncHistory
    <2>4. asked' \in 0 .. MaxSync
      BY <2>1 DEF S!TaskCreate, SyncInv, SyncTypes
    <2>5. CASE UNCHANGED req
      <3>1. SyncTypes'
        BY <2>3, <2>4, <2>5 DEF SyncInv, SyncTypes
      <3> QED
        BY <2>3, <2>5, <3>1, SyncStay DEF SyncInv
    <2>6. CASE req' = [req EXCEPT ![t] = [op |-> "task", name |-> n]]
      <3>1. SyncTypes'
        BY <2>2, <2>3, <2>4, <2>6 DEF SyncInv, SyncTypes
      <3> QED
        BY <2>2, <2>3, <2>6, <3>1, SyncOther DEF SyncInv
    <2> QED
      BY <2>1, <2>5, <2>6 DEF S!TaskCreate
  <1>3. CASE \E i \in DOMAIN tasks, n \in TaskName : S!TaskUpdate(t, i, n)
    <2>1. PICK i \in DOMAIN tasks, n \in TaskName : S!TaskUpdate(t, i, n)
      BY <1>3
    <2>2. tasks[i] \in TaskRow /\ i \in 1 .. Len(tasks)
      BY <1>1, LenProperties
    <2>3. [tasks[i] EXCEPT !.name = n] \in TaskRow
      BY <2>2 DEF TaskRow
    <2>4. tasks' \in Seq(TaskRow)
      BY <2>1, <2>2, <2>3, <1>1, ExceptSeq DEF S!TaskUpdate
    <2>5. SyncTypes'
      BY <2>1, <2>4 DEF S!TaskUpdate, SyncInv, SyncTypes, S!syncHistory
    <2> QED
      BY <2>1, <2>5, SyncStay DEF S!TaskUpdate, SyncInv, S!syncHistory
  <1>4. CASE \E i \in DOMAIN tasks : S!TaskDelete(t, i)
    <2>1. PICK i \in DOMAIN tasks : S!TaskDelete(t, i)
      BY <1>4
    <2>2. tasks[i] \in TaskRow /\ i \in 1 .. Len(tasks)
      BY <1>1, LenProperties
    <2>3. [tasks[i] EXCEPT !.deleted = TRUE] \in TaskRow
      BY <2>2 DEF TaskRow
    <2>4. tasks' \in Seq(TaskRow)
      BY <2>1, <2>2, <2>3, <1>1, ExceptSeq DEF S!TaskDelete
    <2>5. SyncTypes'
      BY <2>1, <2>4 DEF S!TaskDelete, SyncInv, SyncTypes, S!syncHistory
    <2> QED
      BY <2>1, <2>5, SyncStay DEF S!TaskDelete, SyncInv, S!syncHistory
  <1>5. CASE S!InsertTask(t)
    <2>1. req[t] \in TaskReq
      BY <1>1, <1>5, SyncReqOps DEF S!InsertTask
    <2>2. [name |-> req[t].name, deleted |-> FALSE] \in TaskRow
      BY <2>1 DEF TaskReq, TaskRow
    <2>3. tasks' \in Seq(TaskRow)
      BY <1>5, <1>1, <2>2, AppendProperties DEF S!InsertTask
    <2>4. S!None \in SyncReq /\ S!None.op = "none"
      BY DEF SyncReq, S!None
    <2>5. SyncTypes'
      BY <1>5, <2>3, <2>4 DEF S!InsertTask, SyncInv, SyncTypes, S!syncHistory
    <2> QED
      BY <1>5, <2>4, <2>5, SyncOther DEF S!InsertTask, SyncInv, S!syncHistory
  <1> QED
    BY <1>2, <1>3, <1>4, <1>5

LEMMA SyncDataKeeps ==
  ASSUME SyncInv, NEW t \in SyncThread,
         \/ \E n \in 0 .. MaxDays : S!DataCreate(t, n)
         \/ S!InsertDay(t)
         \/ S!InsertData(t)
         \/ \E ids \in SUBSET DOMAIN data \ {{}} : S!DataDelete(t, ids)
         \/ \E d \in 1 .. dataDays : S!DataKillAll(t, d)
  PROVE  SyncInv'
  <1> USE BoundsAssumption DEF S!Hold, S!Done, S!Take
  <1> DEFINE Row(n) == [instance : 1 .. n, deleted : BOOLEAN]
  <1>1. req \in [SyncThread -> SyncReq] /\ dataDays \in Nat /\ data \in Seq(Row(dataDays))
    BY DEF SyncInv, SyncTypes
  <1>2. S!None \in SyncReq /\ S!None.op = "none"
    BY DEF SyncReq, S!None
  <1>3. CASE \E n \in 0 .. MaxDays : S!DataCreate(t, n)
    <2>1. PICK n \in 0 .. MaxDays : S!DataCreate(t, n)
      BY <1>3
    <2>2. [op |-> "days", left |-> n, last |-> 0] \in SyncReq
      BY DEF SyncReq, DaysReq
    <2>3. SyncTypes'
      BY <2>1, <2>2, <1>1 DEF S!DataCreate, SyncInv, SyncTypes, S!syncHistory
    <2> QED
      BY <2>1, <2>2, <2>3, SyncOther DEF S!DataCreate, SyncInv, S!syncHistory
  <1>4. CASE S!InsertDay(t)
    <2> DEFINE more == [req[t] EXCEPT !.left = @ - 1, !.last = dataDays']
    <2>1. req[t] \in DaysReq
      BY <1>1, <1>4, SyncReqOps DEF S!InsertDay
    <2>2. CASE strict
      <3>1. SyncTypes'
        BY <1>2, <1>4, <2>2 DEF S!InsertDay, SyncInv, SyncTypes, S!syncHistory
      <3> QED
        BY <1>2, <1>4, <2>2, <3>1, SyncOther DEF S!InsertDay, SyncInv, S!syncHistory
    <2>3. CASE ~ strict
      <3>1. dataDays' = dataDays + 1 /\ req' = [req EXCEPT ![t] = more]
        BY <1>4, <2>3 DEF S!InsertDay
      <3>2. more \in DaysReq /\ more.last = dataDays'
        <4>1. req[t].left - 1 \in Nat /\ dataDays' \in Nat
          BY <1>1, <1>4, <2>1, <3>1 DEF S!InsertDay, DaysReq
        <4> QED
          BY <2>1, <4>1 DEF DaysReq
      <3>3. more \in SyncReq /\ more.op = "days"
        BY <3>2 DEF SyncReq, DaysReq
      <3>4. data \in Seq(Row(dataDays'))
        <4>1. Row(dataDays) \subseteq Row(dataDays')
          BY <1>1, <3>1
        <4> QED
          BY <1>1, <4>1, SeqMonotonic
      <3>5. \A u \in SyncThread : req'[u].op = "days" => req'[u].last <= dataDays'
        <4> SUFFICES ASSUME NEW u \in SyncThread, req'[u].op = "days"
                     PROVE  req'[u].last <= dataDays'
          OBVIOUS
        <4>1. CASE u = t
          BY <1>1, <3>1, <3>2, <4>1
        <4>2. CASE u # t
          <5>1. req'[u] = req[u]
            BY <1>1, <3>1, <4>2
          <5>2. req[u] \in DaysReq
            BY <1>1, <5>1, SyncReqOps
          <5>3. req[u].last <= dataDays /\ req[u].last \in Nat
            BY <5>1, <5>2 DEF SyncInv, SyncTypes, DaysReq
          <5> QED
            BY <1>1, <3>1, <5>1, <5>3
        <4> QED
          BY <4>1, <4>2
      <3>6. SyncTypes'
        BY <1>1, <1>4, <3>1, <3>3, <3>4, <3>5 DEF S!InsertDay, SyncInv, SyncTypes, S!syncHistory
      <3> QED
        BY <1>4, <3>1, <3>3, <3>6, SyncOther DEF S!InsertDay, SyncInv, S!syncHistory
    <2> QED
      BY <2>2, <2>3
  <1>5. CASE S!InsertData(t)
    <2>1. req[t] \in DaysReq /\ req[t].last <= dataDays
      BY <1>1, <1>5, SyncReqOps DEF S!InsertData, SyncInv, SyncTypes
    <2>2. data' \in Seq(Row(dataDays))
      <3>1. CASE tasks # <<>> /\ req[t].last > 0
        <4>1. [instance |-> req[t].last, deleted |-> FALSE] \in Row(dataDays)
          BY <2>1, <3>1, <1>1 DEF DaysReq
        <4>2. data' = Append(data, [instance |-> req[t].last, deleted |-> FALSE])
          BY <1>5, <3>1 DEF S!InsertData
        <4> QED
          BY <1>1, <4>1, <4>2, AppendProperties
      <3>2. CASE ~ (tasks # <<>> /\ req[t].last > 0)
        BY <1>1, <1>5, <3>2 DEF S!InsertData
      <3> QED
        BY <3>1, <3>2
    <2>3. SyncTypes'
      BY <1>2, <1>5, <2>2 DEF S!InsertData, SyncInv, SyncTypes, S!syncHistory
    <2> QED
      BY <1>2, <1>5, <2>3, SyncOther DEF S!InsertData, SyncInv, S!syncHistory
  <1>6. CASE \E ids \in SUBSET DOMAIN data \ {{}} : S!DataDelete(t, ids)
    <2>1. PICK ids : S!DataDelete(t, ids)
      BY <1>6
    <2>2. data' \in [1 .. Len(data) -> Row(dataDays)] /\ Len(data) \in Nat
      <3>1. data \in [1 .. Len(data) -> Row(dataDays)] /\ Len(data) \in Nat
        BY <1>1, LenProperties
      <3> QED
        BY <2>1, <3>1 DEF S!DataDelete
    <2>3. data' \in Seq(Row(dataDays))
      BY <2>2, IsSeq
    <2>4. SyncTypes'
      BY <2>1, <2>3 DEF S!DataDelete, SyncInv, SyncTypes, S!syncHistory
    <2> QED
      BY <2>1, <2>4, SyncStay DEF S!DataDelete, SyncInv, S!syncHistory
  <1>7. CASE \E d \in 1 .. dataDays : S!DataKillAll(t, d)
    <2>1. SyncTypes'
      BY <1>7 DEF S!DataKillAll, SyncInv, SyncTypes
    <2> QED
      BY <1>7, <2>1, SyncStay DEF S!DataKillAll, SyncInv
  <1> QED
    BY <1>3, <1>4, <1>5, <1>6, <1>7

-----------------------------------------------------------------------------
(* Sync: reports.                                                          *)

\* The indices of a sequence.
LEMMA SeqDom ==
  ASSUME NEW T, NEW s \in Seq(T)
  PROVE  /\ Len(s) \in Nat
         /\ DOMAIN s = 1 .. Len(s)
         /\ IsFiniteSet(DOMAIN s)
         /\ \A i \in DOMAIN s : s[i] \in T
         /\ s \in [1 .. Len(s) -> T]
  <1>1. /\ Len(s) \in Nat
        /\ DOMAIN s = 1 .. Len(s)
        /\ \A i \in DOMAIN s : s[i] \in T
        /\ s \in [1 .. Len(s) -> T]
    BY LenProperties, ElementOfSeq
  <1>2. IsFiniteSet(1 .. Len(s))
    BY <1>1, FS_Interval
  <1> QED
    BY <1>1, <1>2

LEMMA RankGrows ==
  ASSUME NEW L, NEW K, L \subseteq K, IsFiniteSet(K), NEW i
  PROVE  /\ Cardinality({j \in L : i <= j}) \in Nat
         /\ Cardinality({j \in K : i <= j}) \in Nat
         /\ Cardinality({j \in L : i <= j}) <= Cardinality({j \in K : i <= j})
  <1>1. IsFiniteSet({j \in K : i <= j})
    BY FS_Subset
  <1>2. {j \in L : i <= j} \in SUBSET {j \in K : i <= j}
    OBVIOUS
  <1>3. IsFiniteSet({j \in L : i <= j})
    BY <1>1, <1>2, FS_Subset
  <1> QED
    BY <1>1, <1>2, <1>3, FS_Subset, FS_CardinalityType

\* The instance counts as this module does.
LEMMA SameCount == \A X : S!Cardinality(X) = Cardinality(X)
  BY DEF S!Cardinality, Cardinality

\* The reader only loses sight of a row that is removed.
LEMMA BrowseKeeps ==
  ASSUME SyncInv, SyncTypes', S!DeletedAsConfirmed', UNCHANGED browser,
         removed \subseteq removed', DOMAIN instances \subseteq DOMAIN instances'
  PROVE  Browsing'
  <1>1. browser.page \in Int /\ browser.gone \subseteq removed'
    BY DEF SyncInv, Browsing
  <1>2. ASSUME browser.page >= 0, browser.gone = removed', browser.page # 0,
               NEW i \in browser.due, i \notin browser.seen
        PROVE  i \in S!Listed' /\ S!Rank(i)' > PageSize * browser.page
    <2>1. removed' = removed
      BY <1>2 DEF SyncInv, Browsing
    <2>2. i \in S!Listed /\ S!Rank(i) > PageSize * browser.page
      BY <1>2, <2>1 DEF SyncInv, Browsing
    <2>3. S!Listed = DOMAIN instances \ removed
      BY DEF S!Listed, SyncInv, S!DeletedAsConfirmed
    <2>4. S!Listed' = DOMAIN instances' \ removed'
      BY DEF S!Listed, S!DeletedAsConfirmed
    <2>5. S!Listed \subseteq S!Listed'
      BY <2>1, <2>3, <2>4
    <2>6. IsFiniteSet(DOMAIN instances')
      <3>1. instances' \in Seq(Instance)
        BY DEF SyncTypes
      <3> QED
        BY <3>1, SeqDom
    <2>7. IsFiniteSet(S!Listed')
      BY <2>4, <2>6, FS_Subset
    <2>8. S!Rank(i) \in Nat /\ S!Rank(i)' \in Nat /\ S!Rank(i) <= S!Rank(i)'
      <3>1. /\ S!Rank(i) = Cardinality({j \in S!Listed : i <= j})
            /\ S!Rank(i)' = Cardinality({j \in S!Listed' : i <= j})
        BY SameCount DEF S!Rank
      <3>2. ASSUME NEW L, NEW K, L \subseteq K, IsFiniteSet(K)
            PROVE  /\ Cardinality({j \in L : i <= j}) \in Nat
                   /\ Cardinality({j \in K : i <= j}) \in Nat
                   /\ Cardinality({j \in L : i <= j}) <= Cardinality({j \in K : i <= j})
        BY <3>2, RankGrows
      <3> QED
        BY <2>5, <2>7, <3>1, <3>2, Zenon
    <2>9. PageSize * browser.page \in Int
      BY <1>1, BoundsAssumption
    <2> QED
      BY <2>2, <2>5, <2>8, <2>9
  <1> QED
    BY <1>1, <1>2 DEF Browsing

LEMMA ReportKeeps ==
  ASSUME SyncInv, NEW t \in SyncThread, NEW run \in SyncRun, NEW ended \in BOOLEAN,
         S!Report(t, run, ended)
  PROVE  SyncInv'
  <1> USE BoundsAssumption DEF S!Hold, S!Done, S!Take, S!Report
  <1> DEFINE r == [op |-> "report", run |-> run, ended |-> ended,
                   found |-> S!RowsOf(run) # {}]
  <1>1. req \in [SyncThread -> SyncReq] /\ req' = [req EXCEPT ![t] = r] /\ req[t].op = "none"
    BY DEF SyncInv, SyncTypes, S!None
  <1>2. r \in SyncReq
    BY DEF SyncReq, ReportReq
  <1>3. SyncTypes'
    BY <1>1, <1>2 DEF SyncInv, SyncTypes
  <1>4. /\ \A x : S!RowsOf(x)' = S!RowsOf(x)
        /\ raced \subseteq raced'
    BY DEF S!RowsOf
  <1>5. FirstReports'
    <2> SUFFICES ASSUME NEW u \in SyncThread, Reporting(u)', ~ req'[u].found,
                        req'[u].run \notin raced'
                 PROVE  /\ S!RowsOf(req'[u].run) = {}
                        /\ \A v \in SyncThread \ {u} :
                              Reporting(v)' /\ ~ req'[v].found => req'[v].run # req'[u].run
      BY <1>4 DEF FirstReports
    <2>1. CASE u = t
      <3>1. req'[u] = r
        BY <1>1, <2>1
      <3>2. req'[u].run = run /\ S!RowsOf(run) = {}
        <4>1. r.run = run /\ r.found = (S!RowsOf(run) # {})
          OBVIOUS
        <4> HIDE DEF r
        <4> QED
          BY <3>1, <4>1
      <3>3. \A v \in SyncThread : Reporting(v) /\ ~ req[v].found => req[v].run # run
        BY <3>2 DEF Reporting
      <3> QED
        BY <1>1, <2>1, <3>2, <3>3 DEF Reporting
    <2>2. CASE u # t
      <3>1. req'[u] = req[u] /\ Reporting(u)
        BY <1>1, <2>2 DEF Reporting
      <3>2. /\ S!RowsOf(req[u].run) = {}
            /\ \A v \in SyncThread \ {u} :
                  Reporting(v) /\ ~ req[v].found => req[v].run # req[u].run
        BY <3>1, <1>4 DEF SyncInv, FirstReports
      <3>3. run = req[u].run => run \in raced'
        BY <3>1, <3>2 DEF Reporting
      <3>4. run # req[u].run
        BY <3>1, <3>3
      <3> QED
        BY <1>1, <3>1, <3>2, <3>4 DEF Reporting
    <2> QED
      BY <2>1, <2>2
  <1>6. Snapshots'
    BY <1>1 DEF SyncInv, Snapshots, Deleting
  <1>7. S!OneRowPerRun' /\ S!DeletedAsConfirmed'
    BY <1>4 DEF SyncInv, S!OneRowPerRun, S!DeletedAsConfirmed
  <1>8. Browsing'
    BY <1>3, <1>7, BrowseKeeps
  <1> QED
    BY <1>3, <1>5, <1>6, <1>7, <1>8 DEF SyncInv

\* A thread ends its request, and the rows keep their runs.
LEMMA FirstReportsKeep ==
  ASSUME SyncInv, NEW t \in SyncThread, NEW r \in SyncReq, r.op # "report",
         req' = [req EXCEPT ![t] = r], raced' = raced,
         DOMAIN instances' = DOMAIN instances,
         \A i \in DOMAIN instances : instances'[i].run = instances[i].run
  PROVE  FirstReports' /\ S!OneRowPerRun'
  <1>1. \A x : S!RowsOf(x)' = S!RowsOf(x)
    BY DEF S!RowsOf
  <1>2. \A u \in SyncThread : Reporting(u)' => Reporting(u) /\ req'[u] = req[u]
    BY DEF Reporting, SyncInv, SyncTypes
  <1>3. FirstReports'
    BY <1>1, <1>2 DEF SyncInv, FirstReports
  <1>4. S!OneRowPerRun'
    BY DEF SyncInv, S!OneRowPerRun
  <1> QED
    BY <1>3, <1>4

LEMMA InsertInstanceKeeps ==
  ASSUME SyncInv, NEW t \in SyncThread, S!InsertInstance(t)
  PROVE  SyncInv'
  <1> USE DEF S!Hold, S!Done, S!InsertInstance, S!syncHistory
  <1> DEFINE row == [run |-> req[t].run, ended |-> req[t].ended, deleted |-> FALSE]
             new == Len(instances) + 1
  <1>1. /\ req \in [SyncThread -> SyncReq] /\ req' = [req EXCEPT ![t] = S!None]
        /\ S!None \in SyncReq /\ S!None.op = "none"
    BY DEF SyncInv, SyncTypes, SyncReq, S!None
  <1>2. Reporting(t) /\ ~ req[t].found /\ req[t] \in ReportReq
    BY <1>1, SyncReqOps DEF Reporting
  <1>3. row \in Instance
    BY <1>2 DEF ReportReq, Instance
  <1>4. instances \in Seq(Instance) /\ instances' = Append(instances, row)
    BY DEF SyncInv, SyncTypes
  <1>5. /\ DOMAIN instances = 1 .. Len(instances) /\ Len(instances) \in Nat
        /\ instances' \in Seq(Instance) /\ DOMAIN instances' = 1 .. new
        /\ \A i \in DOMAIN instances : instances'[i] = instances[i]
        /\ instances'[new] = row
    BY <1>3, <1>4, AppendProperties, LenProperties
  <1>6. SyncTypes'
    <2>1. removed \cup overtaken \subseteq DOMAIN instances'
      BY <1>5 DEF SyncInv, SyncTypes
    <2> QED
      BY <1>1, <1>5, <2>1 DEF SyncInv, SyncTypes
  <1>7. \A x : x # req[t].run => S!RowsOf(x)' = S!RowsOf(x)
    BY <1>5 DEF S!RowsOf
  <1>8. \A u \in SyncThread : (Reporting(u)' \/ Deleting(u)') =>
           u # t /\ req'[u] = req[u] /\ (Reporting(u)' => Reporting(u)) /\ (Deleting(u)' => Deleting(u))
    BY <1>1 DEF Reporting, Deleting
  <1>9. FirstReports'
    <2>0. raced' = raced
      OBVIOUS
    <2> SUFFICES ASSUME NEW u \in SyncThread, Reporting(u)', ~ req'[u].found,
                        req'[u].run \notin raced
                 PROVE  /\ S!RowsOf(req[u].run)' = {}
                        /\ \A v \in SyncThread \ {u} :
                              Reporting(v)' /\ ~ req'[v].found => req'[v].run # req'[u].run
      BY <2>0 DEF FirstReports
    <2>1. u # t /\ req'[u] = req[u] /\ Reporting(u)
      BY <1>8
    <2>2. /\ S!RowsOf(req[u].run) = {}
          /\ \A v \in SyncThread \ {u} :
                Reporting(v) /\ ~ req[v].found => req[v].run # req[u].run
      BY <2>1 DEF SyncInv, FirstReports
    <2>3. req[t].run # req[u].run
      BY <1>2, <2>1, <2>2
    <2>4. S!RowsOf(req[u].run)' = {}
      <3>1. S!RowsOf(req[u].run)' = {i \in DOMAIN instances' : instances'[i].run = req'[u].run}
        BY <2>1 DEF S!RowsOf
      <3> QED
        BY <1>5, <2>1, <2>2, <2>3, <3>1 DEF S!RowsOf
    <2> QED
      BY <1>8, <2>1, <2>2, <2>4
  <1>10. S!OneRowPerRun'
    <2> SUFFICES ASSUME NEW i \in DOMAIN instances', NEW j \in DOMAIN instances', i # j,
                        instances'[i].run = instances'[j].run
                 PROVE  instances'[i].run \in raced
      BY DEF S!OneRowPerRun
    <2>1. CASE i # new /\ j # new
      BY <1>5, <2>1 DEF SyncInv, S!OneRowPerRun
    <2>2. CASE i = new \/ j = new
      <3>1. S!RowsOf(req[t].run) # {}
        BY <1>5, <2>2 DEF S!RowsOf
      <3>2. req[t].run \in raced
        BY <1>2, <3>1 DEF SyncInv, FirstReports
      <3> QED
        BY <1>5, <2>2, <3>2
    <2> QED
      BY <2>1, <2>2
  <1>11. Snapshots'
    BY <1>5, <1>8 DEF SyncInv, Snapshots
  <1>12. S!DeletedAsConfirmed'
    BY <1>5 DEF SyncInv, SyncTypes, S!DeletedAsConfirmed
  <1>13. Browsing'
    BY <1>5, <1>6, <1>12, BrowseKeeps
  <1> QED
    BY <1>6, <1>9, <1>10, <1>11, <1>12, <1>13 DEF SyncInv

LEMMA UpdateInstanceKeeps ==
  ASSUME SyncInv, NEW t \in SyncThread, S!UpdateInstance(t)
  PROVE  SyncInv'
  <1> USE DEF S!Hold, S!Done, S!UpdateInstance
  <1>1. /\ req \in [SyncThread -> SyncReq] /\ req' = [req EXCEPT ![t] = S!None]
        /\ S!None \in SyncReq /\ S!None.op = "none"
    BY DEF SyncInv, SyncTypes, SyncReq, S!None
  <1>2. req[t] \in ReportReq
    BY <1>1, SyncReqOps
  <1>3. /\ DOMAIN instances = 1 .. Len(instances) /\ Len(instances) \in Nat
        /\ \A i \in DOMAIN instances : instances[i] \in Instance
        /\ instances \in [1 .. Len(instances) -> Instance]
    <2>1. instances \in Seq(Instance)
      BY DEF SyncInv, SyncTypes
    <2> QED
      BY <2>1, SeqDom
  <1> DEFINE rows == S!RowsOf(req[t].run)
  <1>4. \/ /\ instances' = [i \in DOMAIN instances |->
                               IF instances[i].run = req[t].run
                               THEN [instances[i] EXCEPT !.ended = req[t].ended]
                               ELSE instances[i]]
           /\ overtaken' = IF req[t].ended THEN overtaken \cup (rows \cap S!Read)
                                            ELSE overtaken
        \/ UNCHANGED <<instances, overtaken>>
    OBVIOUS
  <1>4a. UNCHANGED <<strict, tasks, dataDays, data, browser, asked, raced, removed, killed>>
    OBVIOUS
  <1> HIDE DEF S!UpdateInstance
  <1>5. /\ instances' \in [1 .. Len(instances) -> Instance]
        /\ \A i \in DOMAIN instances :
              /\ instances'[i].run = instances[i].run
              /\ instances'[i].deleted = instances[i].deleted
              /\ instances'[i].ended => instances[i].ended \/ i \in overtaken' \/ i \notin S!Read
    <2>1. CASE UNCHANGED <<instances, overtaken>>
      BY <1>3, <2>1
    <2>2. CASE ~ UNCHANGED <<instances, overtaken>>
      <3>1. \A i \in DOMAIN instances :
               /\ [instances[i] EXCEPT !.ended = req[t].ended] \in Instance
               /\ [instances[i] EXCEPT !.ended = req[t].ended].run = instances[i].run
               /\ [instances[i] EXCEPT !.ended = req[t].ended].deleted = instances[i].deleted
               /\ [instances[i] EXCEPT !.ended = req[t].ended].ended = req[t].ended
        BY <1>2, <1>3 DEF Instance, ReportReq
      <3>2. \A i \in DOMAIN instances :
               instances'[i] = IF instances[i].run = req[t].run
                               THEN [instances[i] EXCEPT !.ended = req[t].ended]
                               ELSE instances[i]
        BY <1>4, <2>2
      <3>3. instances' \in [1 .. Len(instances) -> Instance]
        BY <1>3, <1>4, <2>2, <3>1
      <3>4. ASSUME NEW i \in DOMAIN instances
            PROVE  /\ instances'[i].run = instances[i].run
                   /\ instances'[i].deleted = instances[i].deleted
                   /\ instances'[i].ended => instances[i].ended \/ (req[t].ended /\ i \in rows)
        BY <3>1, <3>2 DEF S!RowsOf
      <3>5. req[t].ended => \A i \in rows \cap S!Read : i \in overtaken'
        BY <1>4, <2>2
      <3> HIDE DEF rows
      <3> QED
        BY <3>3, <3>4, <3>5
    <2> QED
      BY <2>1, <2>2
  <1>6. overtaken \subseteq overtaken' /\ overtaken' \subseteq overtaken \cup DOMAIN instances
    BY <1>4 DEF S!RowsOf
  <1>7. DOMAIN instances' = DOMAIN instances /\ instances' \in Seq(Instance)
    BY <1>3, <1>5, IsSeq
  <1>8. SyncTypes'
    BY <1>1, <1>4a, <1>6, <1>7 DEF SyncInv, SyncTypes
  <1>9. FirstReports' /\ S!OneRowPerRun'
    BY <1>1, <1>4a, <1>5, <1>7, FirstReportsKeep
  <1>10. \A u \in SyncThread : Deleting(u)' => req'[u] = req[u] /\ Deleting(u)
    BY <1>1 DEF Deleting
  <1>11. ASSUME NEW u \in SyncThread, Deleting(u), NEW i \in DOMAIN req[u].view
         PROVE  i \in S!Read
    BY <1>11 DEF S!Read, Deleting
  <1>12. Snapshots'
    <2> SUFFICES ASSUME NEW u \in SyncThread, Deleting(u), NEW i \in DOMAIN req[u].view,
                        instances'[i].ended, ~ req[u].view[i].ended
                 PROVE  i \in overtaken'
      BY <1>5, <1>7, <1>10 DEF SyncInv, Snapshots
    <2>1. i \in DOMAIN instances
      BY DEF SyncInv, Snapshots
    <2>2. CASE instances[i].ended
      BY <1>6, <2>2 DEF SyncInv, Snapshots
    <2>3. CASE ~ instances[i].ended
      BY <1>5, <1>11, <2>1, <2>3
    <2> QED
      BY <2>2, <2>3
  <1>13. S!DeletedAsConfirmed'
    BY <1>4a, <1>5, <1>7 DEF SyncInv, S!DeletedAsConfirmed
  <1>14. Browsing'
    BY <1>4a, <1>7, <1>8, <1>13, BrowseKeeps
  <1> QED
    BY <1>8, <1>9, <1>12, <1>13, <1>14 DEF SyncInv

\* A request is given up, and changes nothing.
LEMMA SyncGiveUp ==
  ASSUME SyncInv, NEW t \in SyncThread, S!Done(t),
         UNCHANGED <<strict, tasks, instances, dataDays, data, browser, asked,
                     S!syncHistory>>
  PROVE  SyncInv'
  <1> USE DEF S!Done, S!Hold, S!syncHistory
  <1>1. S!None \in SyncReq /\ S!None.op = "none"
    BY DEF SyncReq, S!None
  <1>2. SyncTypes'
    BY <1>1 DEF SyncInv, SyncTypes
  <1> QED
    BY <1>1, <1>2, SyncOther DEF SyncInv
-----------------------------------------------------------------------------
(* Sync: deletions.                                                        *)

LEMMA InstanceDeleteKeeps ==
  ASSUME SyncInv, NEW t \in SyncThread, NEW ids \in SUBSET DOMAIN instances,
         S!InstanceDelete(t, ids)
  PROVE  SyncInv'
  <1> USE BoundsAssumption DEF S!Hold, S!Take, S!InstanceDelete, S!syncHistory
  <1> DEFINE r == [op |-> "delete", left |-> ids, view |-> instances, written |-> {}]
  <1>1. /\ req \in [SyncThread -> SyncReq] /\ req' = [req EXCEPT ![t] = r]
        /\ instances \in Seq(Instance)
    BY DEF SyncInv, SyncTypes
  <1>2. r \in SyncReq
    <2>1. ids \subseteq Nat
      BY <1>1, SeqDom
    <2> QED
      BY <1>1, <2>1 DEF SyncReq, DeleteReq
  <1>3. SyncTypes'
    BY <1>1, <1>2 DEF SyncInv, SyncTypes
  <1>4. FirstReports' /\ S!OneRowPerRun'
    BY <1>1, <1>2, FirstReportsKeep
  <1>5. Snapshots'
    <2> SUFFICES ASSUME NEW u \in SyncThread, Deleting(u)'
                 PROVE  /\ req'[u].left \cup req'[u].written \subseteq DOMAIN req'[u].view
                        /\ \A i \in req'[u].written : ~ req'[u].view[i].ended
                        /\ \A i \in DOMAIN req'[u].view :
                              /\ i \in DOMAIN instances
                              /\ req'[u].view[i].run = instances[i].run
                              /\ instances[i].ended /\ ~ req'[u].view[i].ended => i \in overtaken
      BY DEF Snapshots
    <2>1. CASE u = t
      BY <1>1, <2>1
    <2>2. CASE u # t
      BY <1>1, <2>2 DEF SyncInv, Snapshots, Deleting
    <2> QED
      BY <2>1, <2>2
  <1>6. S!DeletedAsConfirmed' /\ Browsing'
    BY DEF SyncInv, S!DeletedAsConfirmed, Browsing, S!Listed, S!Rank
  <1> QED
    BY <1>3, <1>4, <1>5, <1>6 DEF SyncInv

LEMMA SaveDeletedKeeps ==
  ASSUME SyncInv, NEW t \in SyncThread, NEW i \in DOMAIN instances, S!SaveDeleted(t, i)
  PROVE  SyncInv'
  <1> USE DEF S!Hold, S!Done, S!syncHistory
  <1>1. /\ req \in [SyncThread -> SyncReq] /\ Deleting(t) /\ req[t] \in DeleteReq
        /\ i \in req[t].left
    BY SyncReqOps DEF SyncInv, SyncTypes, Deleting, S!SaveDeleted
  <1>2. UNCHANGED <<strict, tasks, instances, dataDays, data, browser, asked, raced,
                    removed, overtaken, killed>>
    BY DEF S!SaveDeleted
  <1>3. CASE req[t].view[i].ended
    BY <1>2, <1>3, SyncGiveUp DEF S!SaveDeleted
  <1>4. CASE ~ req[t].view[i].ended
    <2> DEFINE r == [req[t] EXCEPT !.left = @ \ {i}, !.written = @ \cup {i}]
    <2>1. req' = [req EXCEPT ![t] = r]
      BY <1>4 DEF S!SaveDeleted
    <2>2. /\ r \in DeleteReq /\ r.view = req[t].view /\ r.left = req[t].left \ {i}
          /\ r.written = req[t].written \cup {i}
      <3>1. i \in Nat
        BY <1>1 DEF DeleteReq
      <3> QED
        BY <1>1, <3>1 DEF DeleteReq
    <2>3. r \in SyncReq /\ r.op = "delete"
      BY <2>2 DEF SyncReq, DeleteReq
    <2> HIDE DEF r
    <2>4. SyncTypes'
      BY <1>1, <1>2, <2>1, <2>3 DEF SyncInv, SyncTypes
    <2>5. FirstReports' /\ S!OneRowPerRun'
      BY <1>2, <2>1, <2>3, FirstReportsKeep
    <2>6. Snapshots'
      <3> SUFFICES ASSUME NEW u \in SyncThread, Deleting(u)'
                   PROVE  /\ req'[u].left \cup req'[u].written \subseteq DOMAIN req'[u].view
                          /\ \A j \in req'[u].written : ~ req'[u].view[j].ended
                          /\ \A j \in DOMAIN req'[u].view :
                                /\ j \in DOMAIN instances
                                /\ req'[u].view[j].run = instances[j].run
                                /\ instances[j].ended /\ ~ req'[u].view[j].ended
                                      => j \in overtaken
        BY <1>2 DEF Snapshots
      <3>1. CASE u = t
        <4>1. req'[u] = r
          BY <1>1, <2>1, <3>1
        <4> QED
          BY <1>1, <1>4, <2>2, <4>1 DEF SyncInv, Snapshots
      <3>2. CASE u # t
        BY <1>1, <2>1, <3>2 DEF SyncInv, Snapshots, Deleting
      <3> QED
        BY <3>1, <3>2
    <2>7. S!DeletedAsConfirmed' /\ Browsing'
      BY <1>2 DEF SyncInv, S!DeletedAsConfirmed, Browsing, S!Listed, S!Rank
    <2> QED
      BY <2>4, <2>5, <2>6, <2>7 DEF SyncInv
  <1> QED
    BY <1>3, <1>4

LEMMA CommitDeleteKeeps ==
  ASSUME SyncInv, NEW t \in SyncThread, S!CommitDelete(t)
  PROVE  SyncInv'
  <1> USE DEF S!Hold, S!Done
  <1>1. /\ req \in [SyncThread -> SyncReq] /\ req' = [req EXCEPT ![t] = S!None]
        /\ S!None \in SyncReq /\ S!None.op = "none"
    BY DEF SyncInv, SyncTypes, SyncReq, S!None, S!CommitDelete
  <1>2. Deleting(t) /\ req[t] \in DeleteReq
    BY <1>1, SyncReqOps DEF Deleting, S!CommitDelete
  <1>3. UNCHANGED <<strict, tasks, dataDays, data, browser, asked, raced, overtaken>>
    BY DEF S!CommitDelete
  <1> DEFINE view == req[t].view
             written == req[t].written
  <1>4. /\ instances \in Seq(Instance)
        /\ DOMAIN instances = 1 .. Len(instances) /\ Len(instances) \in Nat
        /\ \A i \in DOMAIN instances : instances[i] \in Instance
        /\ view \in Seq(Instance)
        /\ \A i \in DOMAIN view : view[i] \in Instance
    <2>1. instances \in Seq(Instance) /\ view \in Seq(Instance)
      BY <1>2 DEF SyncInv, SyncTypes, DeleteReq
    <2> QED
      BY <2>1, SeqDom
  <1>5. /\ written \subseteq DOMAIN view
        /\ \A i \in written : ~ view[i].ended
        /\ \A i \in DOMAIN view : i \in DOMAIN instances /\ view[i].run = instances[i].run
    BY <1>2 DEF SyncInv, Snapshots
  <1>6. /\ instances' = [i \in DOMAIN instances |->
                           IF i \in written THEN [view[i] EXCEPT !.deleted = TRUE]
                                            ELSE instances[i]]
        /\ removed' = removed \cup written
    BY DEF S!CommitDelete
  <1>7. \A i \in written : /\ [view[i] EXCEPT !.deleted = TRUE] \in Instance
                           /\ [view[i] EXCEPT !.deleted = TRUE].run = instances[i].run
                           /\ [view[i] EXCEPT !.deleted = TRUE].deleted
                           /\ ~ [view[i] EXCEPT !.deleted = TRUE].ended
    BY <1>4, <1>5 DEF Instance
  <1> HIDE DEF view, written
  <1>8. /\ instances' \in [1 .. Len(instances) -> Instance]
        /\ \A i \in DOMAIN instances :
              /\ instances'[i].run = instances[i].run
              /\ instances'[i].deleted <=> instances[i].deleted \/ i \in written
              /\ instances'[i].ended => instances[i].ended
    BY <1>4, <1>6, <1>7
  <1>9. DOMAIN instances' = DOMAIN instances /\ instances' \in Seq(Instance)
    BY <1>4, <1>8, IsSeq
  <1>10. written \subseteq DOMAIN instances
    BY <1>5
  <1>11. SyncTypes'
    BY <1>1, <1>3, <1>6, <1>9, <1>10 DEF SyncInv, SyncTypes
  <1>12. FirstReports' /\ S!OneRowPerRun'
    BY <1>1, <1>3, <1>8, <1>9, FirstReportsKeep
  <1>13. \A u \in SyncThread : Deleting(u)' => req'[u] = req[u] /\ Deleting(u)
    BY <1>1 DEF Deleting
  <1>14. Snapshots'
    BY <1>3, <1>8, <1>9, <1>13 DEF SyncInv, Snapshots
  <1>15. S!DeletedAsConfirmed'
    BY <1>6, <1>8, <1>9, <1>10 DEF SyncInv, S!DeletedAsConfirmed
  <1>16. Browsing'
    BY <1>3, <1>6, <1>9, <1>11, <1>15, BrowseKeeps
  <1> QED
    BY <1>11, <1>12, <1>14, <1>15, <1>16 DEF SyncInv
-----------------------------------------------------------------------------
(* Sync: the pages of the list.                                            *)

\* The last page ends at or after the last row.
LEMMA TotalPagesCover ==
  ASSUME NEW n \in Nat, NEW p \in Int, p >= S!TotalPages(n)
  PROVE  n <= PageSize * p
  <1> DEFINE q == n \div PageSize
  <1>1. PageSize \in Nat /\ PageSize > 0
    BY BoundsAssumption
  <1>2. q \in Int /\ n % PageSize \in 0 .. PageSize - 1 /\ n = PageSize * q + (n % PageSize)
    BY <1>1, SMT
  <1> HIDE DEF q
  <1>3. ASSUME NEW k \in Int, NEW l \in Int, k <= l
        PROVE  PageSize * k <= PageSize * l
    BY <1>1, <1>3, SMT
  <1>4. CASE n % PageSize = 0
    <2>1. p >= q
      BY <1>4 DEF S!TotalPages, q
    <2> QED
      BY <1>1, <1>2, <1>3, <1>4, <2>1
  <1>5. CASE n % PageSize # 0
    <2>1. p >= q + 1
      BY <1>5 DEF S!TotalPages, q
    <2>2. PageSize * (q + 1) <= PageSize * p
      BY <1>2, <1>3, <2>1
    <2>3. PageSize * (q + 1) = PageSize * q + PageSize
      BY <1>1, <1>2, SMT
    <2> QED
      BY <1>1, <1>2, <2>2, <2>3
  <1> QED
    BY <1>4, <1>5

\* A row's place in the list is between 1 and the number of rows.
LEMMA RankBounds ==
  ASSUME SyncTypes
  PROVE  /\ Cardinality(S!Listed) \in Nat
         /\ \A i \in S!Listed : S!Rank(i) \in Nat /\ S!Rank(i) > 0
                                /\ S!Rank(i) <= Cardinality(S!Listed)
  <1>1. instances \in Seq(Instance)
    BY DEF SyncTypes
  <1>2. IsFiniteSet(S!Listed) /\ S!Listed \subseteq Nat
    BY <1>1, SeqDom, FS_Subset DEF S!Listed
  <1>3. Cardinality(S!Listed) \in Nat
    BY <1>2, FS_CardinalityType
  <1>4. ASSUME NEW i \in S!Listed
        PROVE  S!Rank(i) \in Nat /\ S!Rank(i) > 0 /\ S!Rank(i) <= Cardinality(S!Listed)
    <2> DEFINE after == {j \in S!Listed : i <= j}
    <2>1. i \in after /\ after \subseteq S!Listed
      BY <1>2
    <2> HIDE DEF after
    <2>2. IsFiniteSet(after) /\ Cardinality(after) \in Nat /\ Cardinality(after) <= Cardinality(S!Listed)
      BY <1>2, <2>1, FS_Subset, FS_CardinalityType
    <2>3. Cardinality(after) # 0
      BY <2>1, <2>2, FS_EmptySet
    <2>4. S!Rank(i) = Cardinality(after)
      BY SameCount DEF S!Rank, after
    <2> QED
      BY <2>2, <2>3, <2>4
  <1> QED
    BY <1>3, <1>4

\* What was to be seen is seen with this page, or comes after it.
LEMMA ReadPageShows ==
  ASSUME SyncInv, S!ReadPage, browser'.gone = removed
  PROVE  \A i \in browser'.due :
            \/ i \in browser'.seen
            \/ i \in S!Listed /\ S!Rank(i) > PageSize * (browser.page + 1)
  <1> DEFINE p == browser.page + 1
  <1>1. browser.page \in Int /\ browser.page >= 0
    BY DEF SyncInv, Browsing, S!ReadPage
  <1>2. browser' = [page |-> IF p >= S!TotalPages(S!Cardinality(S!Listed)) THEN 0 - 1 ELSE p,
                    seen |-> browser.seen \cup S!PageOf(p),
                    due |-> IF p = 1 THEN S!Listed ELSE browser.due,
                    gone |-> IF p = 1 THEN removed ELSE browser.gone]
    BY DEF S!ReadPage
  <1>3. /\ browser'.seen = browser.seen \cup S!PageOf(p)
        /\ browser'.due = IF p = 1 THEN S!Listed ELSE browser.due
        /\ browser'.gone = IF p = 1 THEN removed ELSE browser.gone
    BY <1>2
  <1>4. ASSUME NEW i \in S!Listed, S!Rank(i) > PageSize * (p - 1)
        PROVE  i \in S!PageOf(p) \/ S!Rank(i) > PageSize * p
    <2>1. S!Rank(i) \in Nat /\ PageSize * p \in Int
      BY <1>1, RankBounds, BoundsAssumption DEF SyncInv
    <2> QED
      BY <1>4, <2>1 DEF S!PageOf
  <1>5. CASE p = 1
    <2>1. \A i \in S!Listed : S!Rank(i) > PageSize * (p - 1)
      <3>1. PageSize * (p - 1) = 0
        BY <1>1, <1>5, BoundsAssumption
      <3> QED
        BY <3>1, RankBounds DEF SyncInv
    <2> QED
      BY <1>3, <1>4, <1>5, <2>1
  <1>6. CASE p # 1
    <2>1. \A i \in browser.due :
             \/ i \in browser.seen
             \/ i \in S!Listed /\ S!Rank(i) > PageSize * browser.page
      BY <1>1, <1>3, <1>6 DEF SyncInv, Browsing
    <2>2. p - 1 = browser.page
      BY <1>1
    <2> QED
      BY <1>3, <1>4, <1>6, <2>1, <2>2
  <1> QED
    BY <1>5, <1>6

LEMMA ReadPageKeeps ==
  ASSUME SyncInv, S!ReadPage
  PROVE  SyncInv'
  <1> DEFINE p == browser.page + 1
  <1>1. browser.page \in Int /\ browser.page >= 0 /\ browser.gone \subseteq removed
    BY DEF SyncInv, Browsing, S!ReadPage
  <1>2. UNCHANGED <<strict, tasks, instances, dataDays, data, req, raced, removed, overtaken,
                    killed>>
    BY DEF S!ReadPage, S!syncHistory
  <1>3. asked' \in 0 .. MaxSync
    BY BoundsAssumption DEF S!ReadPage, SyncInv, SyncTypes
  <1>4. /\ browser'.page \in {0 - 1, p}
        /\ browser'.gone \in {removed, browser.gone}
    BY DEF S!ReadPage
  <1>5. SyncTypes'
    BY <1>2, <1>3 DEF SyncInv, SyncTypes
  <1>6. Browsing'
    <2>1. browser'.page \in Int /\ browser'.gone \subseteq removed'
      BY <1>1, <1>2, <1>4
    <2>2. ASSUME browser'.page >= 0, browser'.gone = removed', NEW i \in browser'.due,
                 i \notin browser'.seen
          PROVE  i \in S!Listed' /\ S!Rank(i)' > PageSize * browser'.page
      <3>1. i \in S!Listed /\ S!Rank(i) > PageSize * p
        BY <1>2, <2>2, ReadPageShows
      <3>2. browser'.page = p
        BY <1>4, <2>2
      <3> QED
        BY <1>2, <3>1, <3>2 DEF S!Listed, S!Rank
    <2> QED
      BY <2>1, <2>2 DEF Browsing
  <1>7. FirstReports' /\ Snapshots' /\ S!OneRowPerRun' /\ S!DeletedAsConfirmed'
    BY <1>2 DEF SyncInv, FirstReports, Reporting, S!RowsOf, Snapshots, Deleting,
                S!OneRowPerRun, S!DeletedAsConfirmed
  <1> QED
    BY <1>5, <1>6, <1>7 DEF SyncInv

-----------------------------------------------------------------------------
(* Sync: what follows for its steps.                                       *)

LEMMA SyncStep ==
  ASSUME SyncInv, S!Next
  PROVE  SyncInv'
  <1>1. CASE S!ReadPage
    BY <1>1, ReadPageKeeps
  <1>2. ASSUME NEW t \in SyncThread, S!Serve(t)
        PROVE  SyncInv'
    <2>1. CASE \E r \in SyncRun, e \in BOOLEAN : S!Report(t, r, e)
      BY <2>1, ReportKeeps
    <2>2. CASE S!InsertInstance(t)
      BY <2>2, InsertInstanceKeeps
    <2>3. CASE S!UpdateInstance(t)
      BY <2>3, UpdateInstanceKeeps
    <2>4. CASE S!AbandonReport(t) \/ S!RollBack(t)
      BY <2>4, SyncGiveUp DEF S!AbandonReport, S!RollBack
    <2>5. CASE \E ids \in SUBSET DOMAIN instances \ {{}} : S!InstanceDelete(t, ids)
      BY <2>5, InstanceDeleteKeeps
    <2>6. CASE \E i \in DOMAIN instances : S!SaveDeleted(t, i)
      BY <2>6, SaveDeletedKeeps
    <2>7. CASE S!CommitDelete(t)
      BY <2>7, CommitDeleteKeeps
    <2>8. CASE \/ \E n \in TaskName : S!TaskCreate(t, n)
               \/ \E i \in DOMAIN tasks, n \in TaskName : S!TaskUpdate(t, i, n)
               \/ \E i \in DOMAIN tasks : S!TaskDelete(t, i)
               \/ S!InsertTask(t)
      BY <2>8, SyncTaskKeeps
    <2>9. CASE \/ \E n \in 0 .. MaxDays : S!DataCreate(t, n)
               \/ S!InsertDay(t)
               \/ S!InsertData(t)
               \/ \E ids \in SUBSET DOMAIN data \ {{}} : S!DataDelete(t, ids)
               \/ \E d \in 1 .. dataDays : S!DataKillAll(t, d)
      BY <2>9, SyncDataKeeps
    <2> QED
      BY <1>2, <2>1, <2>2, <2>3, <2>4, <2>5, <2>6, <2>7, <2>8, <2>9 DEF S!Serve
  <1> QED
    BY <1>1, <1>2 DEF S!Next

\* Only the commit of a deletion sets a row to deleted, and it saves the row as
\* it was in the snapshot: not ended.
LEMMA SyncKeepsEnded ==
  ASSUME SyncInv, S!Next
  PROVE  S!KeepsEnded
  <1> SUFFICES ASSUME NEW i \in DOMAIN instances, instances[i].ended,
                      ~ instances[i].deleted, instances'[i].deleted
               PROVE  i \in overtaken
    BY DEF S!KeepsEnded
  <1>1. instances' # instances
    OBVIOUS
  <1>2. PICK t \in SyncThread : \/ S!InsertInstance(t)
                                \/ S!UpdateInstance(t)
                                \/ S!CommitDelete(t)
    <2>1. ~ S!ReadPage
      BY <1>1 DEF S!ReadPage
    <2>2. PICK t \in SyncThread : S!Serve(t)
      BY <2>1 DEF S!Next
    <2> QED
      BY <1>1, <2>2
         DEF S!Serve, S!TaskCreate, S!TaskUpdate, S!TaskDelete, S!InsertTask, S!Report,
             S!AbandonReport, S!InstanceDelete, S!SaveDeleted, S!RollBack, S!DataCreate,
             S!InsertDay, S!InsertData, S!DataDelete, S!DataKillAll
  <1>3. instances \in Seq(Instance)
    BY DEF SyncInv, SyncTypes
  <1>4. CASE S!InsertInstance(t)
    <2>1. instances' = Append(instances, [run |-> req[t].run, ended |-> req[t].ended,
                                          deleted |-> FALSE])
      BY <1>4 DEF S!InsertInstance
    <2>2. instances'[i] = instances[i]
      BY <1>3, <2>1
    <2> QED
      BY <2>2
  <1>5. CASE S!UpdateInstance(t)
    <2>1. PICK e : instances' = [j \in DOMAIN instances |->
                                   IF instances[j].run = req[t].run
                                   THEN [instances[j] EXCEPT !.ended = e]
                                   ELSE instances[j]]
      BY <1>1, <1>5 DEF S!UpdateInstance
    <2>2. instances[i] \in Instance
      BY <1>3, SeqDom
    <2>3. [instances[i] EXCEPT !.ended = e].deleted = instances[i].deleted
      BY <2>2 DEF Instance
    <2> QED
      BY <2>1, <2>3
  <1>6. CASE S!CommitDelete(t)
    <2>1. i \in req[t].written
      BY <1>6 DEF S!CommitDelete
    <2>2. i \in DOMAIN req[t].view /\ ~ req[t].view[i].ended
      BY <1>6, <2>1 DEF SyncInv, Snapshots, Deleting, S!CommitDelete
    <2> QED
      BY <1>6, <2>2 DEF SyncInv, Snapshots, Deleting, S!CommitDelete
  <1> QED
    BY <1>2, <1>4, <1>5, <1>6

\* The last page leaves nothing to come after it.
LEMMA SyncLastPage ==
  ASSUME SyncInv, S!Next
  PROVE  S!LastPageCompletes
  <1> SUFFICES ASSUME browser.page >= 0, browser'.page = 0 - 1, browser'.gone = removed,
                      NEW i \in browser'.due
               PROVE  i \in browser'.seen
    BY DEF S!LastPageCompletes
  <1>1. browser.page \in Int
    BY DEF SyncInv, Browsing
  <1>2. browser' # browser
    BY <1>1
  <1>3. S!ReadPage
    BY <1>2 DEF S!Next, S!Serve, S!TaskCreate, S!TaskUpdate, S!TaskDelete, S!InsertTask,
           S!Report, S!InsertInstance, S!UpdateInstance, S!AbandonReport, S!InstanceDelete,
           S!SaveDeleted, S!CommitDelete, S!RollBack, S!DataCreate, S!InsertDay,
           S!InsertData, S!DataDelete, S!DataKillAll
  <1> DEFINE p == browser.page + 1
  <1>4. p >= S!TotalPages(Cardinality(S!Listed))
    <2>1. browser'.page = IF p >= S!TotalPages(S!Cardinality(S!Listed)) THEN 0 - 1 ELSE p
      BY <1>3 DEF S!ReadPage
    <2>2. p >= S!TotalPages(S!Cardinality(S!Listed))
      BY <1>1, <2>1
    <2> QED
      BY <2>2, SameCount
  <1>5. Cardinality(S!Listed) <= PageSize * p
    BY <1>1, <1>4, TotalPagesCover, RankBounds DEF SyncInv
  <1>6. i \in browser'.seen \/ (i \in S!Listed /\ S!Rank(i) > PageSize * p)
    BY <1>3, ReadPageShows
  <1>7. PageSize * p \in Int
    BY <1>1, BoundsAssumption
  <1> QED
    BY <1>5, <1>6, <1>7, RankBounds DEF SyncInv
-----------------------------------------------------------------------------
(* Accounts: what a request holds between two statements.                  *)

UserRow == [name : UserName, profile : Value, pwd : Value, deleted : BOOLEAN]

CreateReq == [op : {"user", "role"}, name : UserName, links : SUBSET Right]
UnlinkReq == [op : {"unlink"}, owner : A!Owner, links : SUBSET Right]
LinkReq == [op : {"link"}, owner : A!Owner, todo : SUBSET Right, all : SUBSET Right]
EditReq == [op : {"save"}, id : Nat, col : {"profile", "pwd"}, to : Value, row : UserRow,
            relink : BOOLEAN, links : SUBSET Right]
RemoveReq == [op : {"save"}, id : Nat, col : {"deleted"}, to : {TRUE}, row : UserRow,
              relink : BOOLEAN, links : SUBSET Right]
UserReq == {A!None} \cup CreateReq \cup UnlinkReq \cup LinkReq \cup EditReq \cup RemoveReq

\* The owner whose links a request replaces, or is going to.
LinkedBy(r) ==
    CASE r.op \in {"unlink", "link"}  -> {r.owner}
      [] r.op = "save" /\ r.relink    -> {A!User(r.id)}
      [] OTHER                        -> {}

\* The owners that have a row.
Known == {A!User(i) : i \in DOMAIN users} \cup {A!Role(i) : i \in DOMAIN roles}

AccountTypes ==
    /\ users \in Seq(UserRow) /\ Len(users) <= MaxRows
    /\ meant \in Seq(UserRow) /\ Len(meant) = Len(users)
    /\ roles \in Seq(UserName) /\ Len(roles) <= MaxRows
    /\ live \in [A!Owner -> SUBSET Right]
    /\ given \in [A!Owner -> SUBSET Right]
    /\ ureq \in [UserThread -> UserReq]
    /\ \A t \in UserThread : ureq[t].op = "save" => ureq[t].id \in DOMAIN users
    /\ uasked \in 0 .. MaxUserOps
    /\ behind \subseteq {t \in UserThread : ureq[t].op = "save"}

\* A row a thread holds is the user's, but for what others have saved since.
HeldUsers ==
    \A t \in UserThread : ureq[t].op = "save" =>
        /\ ureq[t].row.name = users[ureq[t].id].name
        /\ ureq[t].row.deleted => ureq[t].id \in left
        /\ t \notin behind => ureq[t].row = users[ureq[t].id]

RemovedLeft == \A i \in DOMAIN users : users[i].deleted => i \in left

\* Nobody else has the name that is going to be given, or is going to have it.
Creations ==
    \A t \in UserThread :
        (ureq[t].op \in {"user", "role"} /\ <<ureq[t].op, ureq[t].name>> \notin twice) =>
            /\ \A u \in UserThread \ {t} :
                  ureq[u].op = ureq[t].op => ureq[u].name # ureq[t].name
            /\ ureq[t].op = "user" =>
                  \A i \in DOMAIN users : users[i].name = ureq[t].name => i \in left
            /\ ureq[t].op = "role" =>
                  \A i \in DOMAIN roles : roles[i] # ureq[t].name

\* An owner that was never mixed up has one request at work on his links, which
\* has made those it no longer has to do; one without a row has neither.
Links ==
    /\ \A t \in UserThread : LinkedBy(ureq[t]) \subseteq Known
    /\ \A o \in A!Owner \ Known : live[o] = {}
    /\ \A t, u \in UserThread :
          t # u => LinkedBy(ureq[t]) \cap LinkedBy(ureq[u]) \subseteq mixed
    /\ \A t \in UserThread : (ureq[t].op = "link" /\ ureq[t].owner \notin mixed) =>
          live[ureq[t].owner] \cup ureq[t].todo = ureq[t].all

Confirmed ==
    \A o \in A!Owner \ mixed :
        (\A t \in UserThread : ~ A!AtLinks(t, o)) => A!AsAsked(o)

AccountInv ==
    /\ AccountTypes
    /\ HeldUsers
    /\ RemovedLeft
    /\ Creations
    /\ Links
    /\ Confirmed
    /\ A!UsersAsConfirmed
    /\ A!OneRowPerName

LEMMA UserReqOps ==
  ASSUME NEW r \in UserReq
  PROVE  /\ r.op \in {"user", "role"} => r \in CreateReq
         /\ r.op = "unlink" => r \in UnlinkReq
         /\ r.op = "link" => r \in LinkReq
         /\ r.op = "save" => r \in EditReq \cup RemoveReq
  <1>1. /\ r \in CreateReq => r.op \in {"user", "role"}
        /\ r \in UnlinkReq => r.op = "unlink"
        /\ r \in LinkReq => r.op = "link"
    BY DEF CreateReq, UnlinkReq, LinkReq
  <1>2. r \in EditReq \/ r \in RemoveReq => r.op = "save"
    BY DEF EditReq, RemoveReq
  <1>3. r = A!None => r.op = "none"
    BY DEF A!None
  <1> QED
    BY <1>1, <1>2, <1>3 DEF UserReq

LEMMA LinkedByIs ==
  ASSUME NEW r
  PROVE  /\ r.op \in {"unlink", "link"} => LinkedBy(r) = {r.owner}
         /\ r.op = "save" /\ r.relink => LinkedBy(r) = {A!User(r.id)}
         /\ r.op = "save" /\ ~ r.relink => LinkedBy(r) = {}
         /\ r.op \notin {"unlink", "link", "save"} => LinkedBy(r) = {}
  BY DEF LinkedBy

LEMMA LinkingIs == \A t : A!Linking(t) = LinkedBy(ureq[t])
  BY DEF A!Linking, LinkedBy

LEMMA OwnersDiffer ==
  \A i, j : /\ A!User(i) # A!Role(j)
            /\ A!User(i) = A!User(j) => i = j
            /\ A!Role(i) = A!Role(j) => i = j
  BY DEF A!User, A!Role

\* A row with one column changed, as a request that saves changes it.
LEMMA SavedUser ==
  ASSUME NEW r \in EditReq \cup RemoveReq, NEW old \in UserRow
  PROVE  LET row == [old EXCEPT ![r.col] = r.to]
         IN /\ row \in UserRow
            /\ row.name = old.name
            /\ row.deleted => old.deleted \/ r.col = "deleted"
  <1>1. CASE r.col = "profile"
    BY <1>1 DEF EditReq, RemoveReq, UserRow
  <1>2. CASE r.col = "pwd"
    BY <1>2 DEF EditReq, RemoveReq, UserRow
  <1>3. CASE r.col = "deleted"
    BY <1>3 DEF EditReq, RemoveReq, UserRow
  <1> QED
    BY <1>1, <1>2, <1>3 DEF EditReq, RemoveReq

LEMMA AccountsInit == A!Init => AccountInv
  <1> SUFFICES ASSUME A!Init PROVE AccountInv
    OBVIOUS
  <1> USE BoundsAssumption DEF A!Init
  <1>1. PICK n \in UserName, v \in Value :
           users = <<[name |-> n, profile |-> v, pwd |-> v, deleted |-> FALSE]>>
    OBVIOUS
  <1>2. PICK m \in UserName : roles = <<m>>
    OBVIOUS
  <1>3. users \in Seq(UserRow) /\ Len(users) = 1 /\ ~ users[1].deleted
    BY <1>1 DEF UserRow
  <1>4. roles \in Seq(UserName) /\ Len(roles) = 1
    BY <1>2
  <1>5. /\ ureq \in [UserThread -> UserReq]
        /\ \A t \in UserThread : ureq[t].op = "none" /\ LinkedBy(ureq[t]) = {}
    BY LinkedByIs DEF UserReq, A!None
  <1>6. AccountTypes
    BY <1>3, <1>4, <1>5 DEF AccountTypes
  <1>7. HeldUsers /\ Creations
    BY <1>5 DEF HeldUsers, Creations
  <1>8. RemovedLeft
    BY <1>1 DEF RemovedLeft
  <1>9. Links /\ Confirmed
    BY <1>5 DEF Links, Confirmed, A!AsAsked, A!AtLinks
  <1>10. A!UsersAsConfirmed /\ A!OneRowPerName
    BY <1>1, <1>2 DEF A!UsersAsConfirmed, A!OneRowPerName
  <1> QED
    BY <1>6, <1>7, <1>8, <1>9, <1>10 DEF AccountInv

-----------------------------------------------------------------------------
(* Accounts: what a step of a thread leaves.                               *)

\* The thread goes on with a request on the same owner's links, or none.
LEMMA LinksSame ==
  ASSUME AccountInv, NEW t \in UserThread, NEW r, ureq' = [ureq EXCEPT ![t] = r],
         r.op # "link", ureq[t].op # "link", LinkedBy(r) = LinkedBy(ureq[t]),
         UNCHANGED <<live, given, broken, mixed>>,
         DOMAIN users' = DOMAIN users, DOMAIN roles' = DOMAIN roles
  PROVE  Links' /\ Confirmed'
  <1>1. ureq \in [UserThread -> UserReq]
    BY DEF AccountInv, AccountTypes
  <1>2. \A u \in UserThread : LinkedBy(ureq'[u]) = LinkedBy(ureq[u])
    BY <1>1
  <1>3. \A u \in UserThread : ureq'[u].op = "link" \/ ureq[u].op = "link" => ureq'[u] = ureq[u]
    BY <1>1
  <1>4. Known' = Known
    BY DEF Known
  <1> QED
    BY <1>2, <1>3, <1>4 DEF AccountInv, Links, Confirmed, A!AsAsked, A!AtLinks

\* The thread starts with a request on the links of o.
LEMMA LinksStart ==
  ASSUME AccountInv, NEW t \in UserThread, NEW r, ureq' = [ureq EXCEPT ![t] = r],
         LinkedBy(ureq[t]) = {}, r.op # "link", NEW o \in Known, LinkedBy(r) = {o},
         A!StartLinking(t, o), UNCHANGED <<users, roles, live, given, broken>>
  PROVE  Links' /\ Confirmed'
  <1>1. ureq \in [UserThread -> UserReq]
    BY DEF AccountInv, AccountTypes
  <1>2. LinkedBy(ureq'[t]) = {o} /\ \A u \in UserThread \ {t} : ureq'[u] = ureq[u]
    BY <1>1
  <1>3. Known' = Known /\ mixed \subseteq mixed'
    BY DEF Known, A!StartLinking
  <1>4. \A u \in UserThread \ {t} : o \in LinkedBy(ureq[u]) => o \in mixed'
    BY LinkingIs DEF A!StartLinking
  <1>5. \A u, w \in UserThread :
           u # w => LinkedBy(ureq'[u]) \cap LinkedBy(ureq'[w]) \subseteq mixed'
    <2> SUFFICES ASSUME NEW u \in UserThread, NEW w \in UserThread, u # w,
                        NEW x \in LinkedBy(ureq'[u]) \cap LinkedBy(ureq'[w])
                 PROVE  x \in mixed'
      OBVIOUS
    <2>1. CASE u = t \/ w = t
      BY <1>2, <1>4, <2>1
    <2>2. CASE u # t /\ w # t
      BY <1>2, <1>3, <2>2 DEF AccountInv, Links
    <2> QED
      BY <2>1, <2>2
  <1>6. Links'
    <2>1. \A u \in UserThread : LinkedBy(ureq'[u]) \subseteq Known
      BY <1>2 DEF AccountInv, Links
    <2>2. \A u \in UserThread : ureq'[u].op = "link" => u # t /\ ureq'[u] = ureq[u]
      BY <1>1, <1>2
    <2> QED
      BY <1>3, <1>5, <2>1, <2>2 DEF AccountInv, Links
  <1>7. Confirmed'
    <2> SUFFICES ASSUME NEW x \in A!Owner \ mixed',
                        \A u \in UserThread : ~ (ureq'[u].op = "link" /\ ureq'[u].owner = x)
                 PROVE  live[x] \subseteq given[x] /\ (x \notin broken => live[x] = given[x])
      BY DEF Confirmed, A!AsAsked, A!AtLinks
    <2>1. \A u \in UserThread : ~ (ureq[u].op = "link" /\ ureq[u].owner = x)
      BY <1>2, LinkedByIs
    <2> QED
      BY <1>3, <2>1 DEF AccountInv, Confirmed, A!AsAsked, A!AtLinks
  <1> QED
    BY <1>6, <1>7

\* The thread has made the row of o, and is going to link it.
LEMMA LinksNew ==
  ASSUME AccountInv, NEW t \in UserThread, NEW r \in LinkReq,
         ureq' = [ureq EXCEPT ![t] = r], r.todo = r.all, LinkedBy(ureq[t]) = {},
         r.owner \notin Known, Known' = Known \cup {r.owner},
         UNCHANGED <<live, given, broken, mixed>>
  PROVE  Links' /\ Confirmed'
  <1>1. ureq \in [UserThread -> UserReq]
    BY DEF AccountInv, AccountTypes
  <1>2. /\ r.op = "link" /\ r.owner \in A!Owner
        /\ LinkedBy(ureq'[t]) = {r.owner} /\ ureq'[t] = r
        /\ \A u \in UserThread \ {t} : ureq'[u] = ureq[u]
    BY <1>1, LinkedByIs DEF LinkReq
  <1>3. \A u \in UserThread : r.owner \notin LinkedBy(ureq[u])
    BY DEF AccountInv, Links
  <1>4. live[r.owner] = {}
    BY <1>2 DEF AccountInv, Links
  <1>5. Links'
    <2>1. \A u \in UserThread : LinkedBy(ureq'[u]) \subseteq Known'
      BY <1>2 DEF AccountInv, Links
    <2>2. \A u, w \in UserThread :
             u # w => LinkedBy(ureq'[u]) \cap LinkedBy(ureq'[w]) \subseteq mixed
      BY <1>2, <1>3 DEF AccountInv, Links
    <2>3. ASSUME NEW u \in UserThread, ureq'[u].op = "link", ureq'[u].owner \notin mixed
          PROVE  live[ureq'[u].owner] \cup ureq'[u].todo = ureq'[u].all
      <3>1. CASE u = t
        BY <1>2, <1>4, <3>1
      <3>2. CASE u # t
        BY <1>2, <2>3, <3>2 DEF AccountInv, Links
      <3> QED
        BY <3>1, <3>2
    <2> QED
      BY <2>1, <2>2, <2>3 DEF AccountInv, Links
  <1>6. Confirmed'
    <2> SUFFICES ASSUME NEW x \in A!Owner \ mixed,
                        \A u \in UserThread : ~ A!AtLinks(u, x)'
                 PROVE  A!AsAsked(x)
      BY DEF Confirmed, A!AsAsked
    <2>1. ureq[t].op # "link"
      BY LinkedByIs, <1>1
    <2>2. \A u \in UserThread : ~ A!AtLinks(u, x)
      BY <1>2, <2>1 DEF A!AtLinks
    <2> QED
      BY <2>2 DEF AccountInv, Confirmed
  <1> QED
    BY <1>5, <1>6

\* The thread goes on with a request that neither creates anything nor saves a row,
\* and the rows keep their names.
LEMMA CreationsKeep ==
  ASSUME AccountInv, NEW t \in UserThread, NEW r, ureq' = [ureq EXCEPT ![t] = r],
         r.op \notin {"user", "role"}, roles' = roles, twice' = twice, left \subseteq left',
         DOMAIN users' = DOMAIN users,
         \A i \in DOMAIN users : users'[i].name = users[i].name
  PROVE  Creations' /\ A!OneRowPerName'
  <1>1. \A u \in UserThread : ureq'[u].op \in {"user", "role"} => ureq'[u] = ureq[u]
    BY DEF AccountInv, AccountTypes
  <1>2. Creations'
    BY <1>1 DEF AccountInv, Creations
  <1>3. A!OneRowPerName'
    BY DEF AccountInv, A!OneRowPerName
  <1> QED
    BY <1>2, <1>3

LEMMA HeldKeep ==
  ASSUME AccountInv, NEW t \in UserThread, NEW r, ureq' = [ureq EXCEPT ![t] = r],
         r.op # "save", UNCHANGED <<users, meant, behind, undone, left>>
  PROVE  HeldUsers' /\ RemovedLeft' /\ A!UsersAsConfirmed'
  <1>1. \A u \in UserThread : ureq'[u].op = "save" => ureq'[u] = ureq[u]
    BY DEF AccountInv, AccountTypes
  <1> QED
    BY <1>1 DEF AccountInv, HeldUsers, RemovedLeft, A!UsersAsConfirmed

-----------------------------------------------------------------------------
(* Accounts: the links.                                                    *)

LEMMA UnlinkKeeps ==
  ASSUME AccountInv, NEW t \in UserThread, A!Unlink(t)
  PROVE  AccountInv'
  <1> USE DEF A!Hold, A!userHistory
  <1> DEFINE o == ureq[t].owner
             r == [op |-> "link", owner |-> o, todo |-> ureq[t].links, all |-> ureq[t].links]
  <1>1. /\ ureq \in [UserThread -> UserReq] /\ ureq' = [ureq EXCEPT ![t] = r]
        /\ ureq[t].op = "unlink" /\ live' = [live EXCEPT ![o] = {}]
        /\ live \in [A!Owner -> SUBSET Right]
    BY DEF AccountInv, AccountTypes, A!Unlink
  <1>2. UNCHANGED <<users, roles, uasked, meant, given, broken, behind, undone, mixed, twice, left>>
    BY DEF A!Unlink
  <1>3. ureq[t] \in UnlinkReq
    BY <1>1, UserReqOps
  <1>4. /\ r \in LinkReq /\ r \in UserReq /\ r.op = "link" /\ r.owner = o
        /\ r.todo = r.all
    BY <1>3 DEF UnlinkReq, LinkReq, UserReq
  <1>5. LinkedBy(r) = {o} /\ LinkedBy(ureq[t]) = {o} /\ o \in A!Owner
    BY <1>1, <1>3, <1>4, LinkedByIs DEF UnlinkReq
  <1> HIDE DEF o, r
  <1>6. AccountTypes'
    BY <1>1, <1>2, <1>4, <1>5 DEF AccountInv, AccountTypes
  <1>7. HeldUsers' /\ RemovedLeft' /\ A!UsersAsConfirmed'
    BY <1>1, <1>2, <1>4, HeldKeep
  <1>8. Creations' /\ A!OneRowPerName'
    BY <1>1, <1>2, <1>4, CreationsKeep
  <1>9. /\ \A u \in UserThread : LinkedBy(ureq'[u]) = LinkedBy(ureq[u])
        /\ \A x \in A!Owner \ {o} : live'[x] = live[x]
        /\ live'[o] = {} /\ ureq'[t] = r /\ \A u \in UserThread \ {t} : ureq'[u] = ureq[u]
        /\ Known' = Known
    BY <1>1, <1>2, <1>5 DEF Known
  <1>10. ASSUME NEW u \in UserThread, ureq'[u].op = "link", ureq'[u].owner \notin mixed
         PROVE  live'[ureq'[u].owner] \cup ureq'[u].todo = ureq'[u].all
    <2>1. CASE u = t
      BY <1>4, <1>9, <2>1
    <2>2. CASE u # t
      <3>1. ureq'[u] = ureq[u] /\ LinkedBy(ureq[u]) = {ureq[u].owner}
        BY <1>9, <1>10, <2>2, LinkedByIs
      <3>2. ureq[u].owner # o
        BY <1>5, <1>10, <2>2, <3>1 DEF AccountInv, Links
      <3>3. ureq[u] \in LinkReq
        BY <1>1, <1>10, <3>1, UserReqOps
      <3>4. ureq[u].owner \in A!Owner
        BY <3>3 DEF LinkReq
      <3> QED
        BY <1>9, <1>10, <3>1, <3>2, <3>4 DEF AccountInv, Links
    <2> QED
      BY <2>1, <2>2
  <1>11. Links'
    BY <1>2, <1>9, <1>10 DEF AccountInv, Links
  <1>12. Confirmed'
    <2> SUFFICES ASSUME NEW x \in A!Owner \ mixed,
                        \A u \in UserThread : ~ (ureq'[u].op = "link" /\ ureq'[u].owner = x)
                 PROVE  A!AsAsked(x)'
      BY <1>2 DEF Confirmed, A!AtLinks
    <2>1. x # o /\ live'[x] = live[x]
      BY <1>4, <1>9
    <2>2. \A u \in UserThread : ~ A!AtLinks(u, x)
      BY <1>1, <1>9 DEF A!AtLinks
    <2> QED
      BY <1>2, <2>1, <2>2 DEF AccountInv, Confirmed, A!AsAsked
  <1> QED
    BY <1>6, <1>7, <1>8, <1>11, <1>12 DEF AccountInv

LEMMA LinkKeeps ==
  ASSUME AccountInv, NEW t \in UserThread, NEW x \in Right, A!Link(t, x)
  PROVE  AccountInv'
  <1> USE DEF A!Hold, A!userHistory
  <1> DEFINE o == ureq[t].owner
             r == [ureq[t] EXCEPT !.todo = @ \ {x}]
  <1>1. /\ ureq \in [UserThread -> UserReq] /\ ureq' = [ureq EXCEPT ![t] = r]
        /\ ureq[t].op = "link" /\ x \in ureq[t].todo
        /\ live' = [live EXCEPT ![o] = @ \cup {x}]
        /\ live \in [A!Owner -> SUBSET Right]
    BY DEF AccountInv, AccountTypes, A!Link
  <1>2. UNCHANGED <<users, roles, uasked, meant, given, broken, behind, undone, mixed, twice, left>>
    BY DEF A!Link
  <1>3. ureq[t] \in LinkReq
    BY <1>1, UserReqOps
  <1>4. /\ r \in LinkReq /\ r \in UserReq /\ r.op = "link" /\ r.owner = o
        /\ r.todo = ureq[t].todo \ {x} /\ r.all = ureq[t].all
    BY <1>3 DEF LinkReq, UserReq
  <1>5. LinkedBy(r) = {o} /\ LinkedBy(ureq[t]) = {o} /\ o \in A!Owner
    BY <1>1, <1>3, <1>4, LinkedByIs DEF LinkReq
  <1> HIDE DEF o, r
  <1>6. AccountTypes'
    BY <1>1, <1>2, <1>4, <1>5 DEF AccountInv, AccountTypes
  <1>7. HeldUsers' /\ RemovedLeft' /\ A!UsersAsConfirmed'
    BY <1>1, <1>2, <1>4, HeldKeep
  <1>8. Creations' /\ A!OneRowPerName'
    BY <1>1, <1>2, <1>4, CreationsKeep
  <1>9. /\ \A u \in UserThread : LinkedBy(ureq'[u]) = LinkedBy(ureq[u])
        /\ \A y \in A!Owner \ {o} : live'[y] = live[y]
        /\ live'[o] = live[o] \cup {x} /\ ureq'[t] = r
        /\ \A u \in UserThread \ {t} : ureq'[u] = ureq[u]
        /\ Known' = Known
    BY <1>1, <1>2, <1>5 DEF Known
  <1>10. ASSUME NEW u \in UserThread, ureq'[u].op = "link", ureq'[u].owner \notin mixed
         PROVE  live'[ureq'[u].owner] \cup ureq'[u].todo = ureq'[u].all
    <2>1. CASE u = t
      <3>1. live[o] \cup ureq[t].todo = ureq[t].all
        BY <1>1, <1>4, <1>9, <1>10, <2>1 DEF AccountInv, Links, o
      <3> QED
        BY <1>1, <1>4, <1>9, <2>1, <3>1
    <2>2. CASE u # t
      <3>1. ureq'[u] = ureq[u] /\ LinkedBy(ureq[u]) = {ureq[u].owner}
        BY <1>9, <1>10, <2>2, LinkedByIs
      <3>2. ureq[u].owner # o
        BY <1>5, <1>10, <2>2, <3>1 DEF AccountInv, Links
      <3>3. ureq[u] \in LinkReq
        BY <1>1, <1>10, <3>1, UserReqOps
      <3>4. ureq[u].owner \in A!Owner
        BY <3>3 DEF LinkReq
      <3> QED
        BY <1>9, <1>10, <3>1, <3>2, <3>4 DEF AccountInv, Links
    <2> QED
      BY <2>1, <2>2
  <1>11. o \in Known
    BY <1>5 DEF AccountInv, Links
  <1>12. Links'
    BY <1>2, <1>9, <1>10, <1>11 DEF AccountInv, Links
  <1>13. Confirmed'
    <2> SUFFICES ASSUME NEW y \in A!Owner \ mixed,
                        \A u \in UserThread : ~ (ureq'[u].op = "link" /\ ureq'[u].owner = y)
                 PROVE  A!AsAsked(y)'
      BY <1>2 DEF Confirmed, A!AtLinks
    <2>1. y # o /\ live'[y] = live[y]
      BY <1>4, <1>9
    <2>2. \A u \in UserThread : ~ A!AtLinks(u, y)
      BY <1>9, <2>1 DEF A!AtLinks, o
    <2> QED
      BY <1>2, <2>1, <2>2 DEF AccountInv, Confirmed, A!AsAsked
  <1> QED
    BY <1>6, <1>7, <1>8, <1>12, <1>13 DEF AccountInv

LEMMA ConfirmKeeps ==
  ASSUME AccountInv, NEW t \in UserThread, A!Confirm(t)
  PROVE  AccountInv'
  <1> USE DEF A!Hold, A!Done
  <1> DEFINE o == ureq[t].owner
  <1>1. /\ ureq \in [UserThread -> UserReq] /\ ureq' = [ureq EXCEPT ![t] = A!None]
        /\ ureq[t].op = "link" /\ ureq[t].todo = {}
        /\ given' = [given EXCEPT ![o] = ureq[t].all] /\ broken' = broken \ {o}
        /\ given \in [A!Owner -> SUBSET Right]
    BY DEF AccountInv, AccountTypes, A!Confirm
  <1>2. UNCHANGED <<users, roles, live, uasked, meant, behind, undone, mixed, twice, left>>
    BY DEF A!Confirm
  <1>3. A!None \in UserReq /\ A!None.op = "none" /\ LinkedBy(A!None) = {}
    BY LinkedByIs DEF A!None, UserReq
  <1>4. ureq[t] \in LinkReq
    BY <1>1, UserReqOps
  <1>5. LinkedBy(ureq[t]) = {o} /\ o \in A!Owner /\ ureq[t].all \in SUBSET Right
    BY <1>1, <1>4, LinkedByIs DEF LinkReq
  <1>6. AccountTypes'
    BY <1>1, <1>2, <1>3, <1>5 DEF AccountInv, AccountTypes
  <1>7. HeldUsers' /\ RemovedLeft' /\ A!UsersAsConfirmed'
    BY <1>1, <1>2, <1>3, HeldKeep
  <1>8. Creations' /\ A!OneRowPerName'
    BY <1>1, <1>2, <1>3, CreationsKeep
  <1>9. ureq'[t] = A!None /\ \A u \in UserThread \ {t} : ureq'[u] = ureq[u]
    BY <1>1
  <1>10. Known' = Known
    BY <1>2 DEF Known
  <1>11. Links'
    BY <1>2, <1>3, <1>9, <1>10 DEF AccountInv, Links
  <1>12. o \notin mixed => live[o] = ureq[t].all
    BY <1>1 DEF AccountInv, Links
  <1>13. Confirmed'
    <2> SUFFICES ASSUME NEW x \in A!Owner \ mixed,
                        \A u \in UserThread : ~ (ureq'[u].op = "link" /\ ureq'[u].owner = x)
                 PROVE  live[x] \subseteq given'[x] /\ (x \notin broken' => live[x] = given'[x])
      BY <1>2 DEF Confirmed, A!AsAsked, A!AtLinks
    <2>1. CASE x = o
      BY <1>1, <1>5, <1>12, <2>1
    <2>2. CASE x # o
      <3>1. \A u \in UserThread : ~ (ureq[u].op = "link" /\ ureq[u].owner = x)
        BY <1>5, <1>9, <2>2
      <3> QED
        BY <1>1, <2>2, <3>1 DEF AccountInv, Confirmed, A!AsAsked, A!AtLinks
    <2> QED
      BY <2>1, <2>2
  <1> QED
    BY <1>6, <1>7, <1>8, <1>11, <1>13 DEF AccountInv

\* What a request that breaks off leaves: if it was at the links, part of them.
LEMMA BreakOffKeeps ==
  ASSUME AccountInv, NEW t \in UserThread, A!BreakOff(t)
  PROVE  AccountInv'
  <1> USE DEF A!Hold, A!Done
  <1>1. /\ ureq \in [UserThread -> UserReq] /\ ureq' = [ureq EXCEPT ![t] = A!None]
        /\ behind' = behind \ {t}
        /\ given \in [A!Owner -> SUBSET Right]
    BY DEF AccountInv, AccountTypes, A!BreakOff
  <1>2. UNCHANGED <<users, roles, live, uasked, meant, undone, mixed, twice, left>>
    BY DEF A!BreakOff
  <1>3. A!None \in UserReq /\ A!None.op = "none" /\ LinkedBy(A!None) = {}
    BY LinkedByIs DEF A!None, UserReq
  <1>4. ureq'[t] = A!None /\ \A u \in UserThread \ {t} : ureq'[u] = ureq[u]
    BY <1>1
  <1>5. given' \in [A!Owner -> SUBSET Right]
    <2>1. CASE ureq[t].op = "link"
      <3>1. ureq[t] \in LinkReq
        BY <1>1, <2>1, UserReqOps
      <3>2. ureq[t].all \in SUBSET Right
        BY <3>1 DEF LinkReq
      <3> QED
        BY <1>1, <2>1, <3>2 DEF A!BreakOff
    <2>2. CASE ureq[t].op # "link"
      BY <1>1, <2>2 DEF A!BreakOff
    <2> QED
      BY <2>1, <2>2
  <1>6. AccountTypes'
    BY <1>1, <1>2, <1>3, <1>4, <1>5 DEF AccountInv, AccountTypes
  <1>7. HeldUsers' /\ RemovedLeft' /\ A!UsersAsConfirmed'
    <2>1. HeldUsers'
      BY <1>1, <1>2, <1>3, <1>4 DEF AccountInv, HeldUsers
    <2> QED
      BY <1>2, <2>1 DEF AccountInv, RemovedLeft, A!UsersAsConfirmed
  <1>8. Creations' /\ A!OneRowPerName'
    BY <1>1, <1>2, <1>3, CreationsKeep
  <1>9. Known' = Known
    BY <1>2 DEF Known
  <1>10. Links'
    BY <1>2, <1>3, <1>4, <1>9 DEF AccountInv, Links
  <1>11. CASE ureq[t].op # "link"
    <2>1. UNCHANGED <<given, broken>>
      BY <1>11 DEF A!BreakOff
    <2>2. Confirmed'
      BY <1>2, <1>3, <1>4, <1>11, <2>1 DEF AccountInv, Confirmed, A!AsAsked, A!AtLinks
    <2> QED
      BY <1>6, <1>7, <1>8, <1>10, <2>2 DEF AccountInv
  <1>12. CASE ureq[t].op = "link"
    <2> DEFINE o == ureq[t].owner
    <2>1. /\ given' = [given EXCEPT ![o] = ureq[t].all]
          /\ broken' = broken \cup {o}
      BY <1>12 DEF A!BreakOff
    <2>2. ureq[t] \in LinkReq
      BY <1>1, <1>12, UserReqOps
    <2>3. LinkedBy(ureq[t]) = {o} /\ o \in A!Owner
      BY <1>12, <2>2, LinkedByIs DEF LinkReq
    <2>4. o \notin mixed => live[o] \subseteq ureq[t].all
      BY <1>12 DEF AccountInv, Links
    <2>5. ASSUME NEW x \in A!Owner \ mixed,
                 \A u \in UserThread : ~ (ureq'[u].op = "link" /\ ureq'[u].owner = x)
          PROVE  live[x] \subseteq given'[x] /\ (x \notin broken' => live[x] = given'[x])
      <3>1. CASE x = o
        BY <1>1, <2>1, <2>3, <2>4, <2>5, <3>1
      <3>2. CASE x # o
        <4>1. \A u \in UserThread : ~ (ureq[u].op = "link" /\ ureq[u].owner = x)
          BY <1>4, <2>3, <2>5, <3>2
        <4> QED
          BY <1>1, <2>1, <2>5, <3>2, <4>1 DEF AccountInv, Confirmed, A!AsAsked, A!AtLinks
      <3> QED
        BY <3>1, <3>2
    <2>6. Confirmed'
      BY <1>2, <2>5 DEF Confirmed, A!AsAsked, A!AtLinks
    <2> QED
      BY <1>6, <1>7, <1>8, <1>10, <2>6 DEF AccountInv
  <1> QED
    BY <1>11, <1>12

-----------------------------------------------------------------------------
(* Accounts: creations.                                                    *)

\* The name of the request that starts is nobody's, or two have it at once.
LEMMA CreateStarts ==
  ASSUME AccountInv, NEW t \in UserThread, NEW what \in {"user", "role"},
         NEW name \in UserName, NEW links \in SUBSET Right,
         A!Take(t), A!Creating(t, what, name),
         A!Hold(t, [op |-> what, name |-> name, links |-> links]),
         what = "user" =>
            \A i \in DOMAIN users : users[i].name = name => users[i].deleted,
         what = "role" => \A i \in DOMAIN roles : roles[i] # name,
         UNCHANGED <<users, roles, live, meant, given, broken, behind, undone, mixed, left>>
  PROVE  AccountInv'
  <1> USE BoundsAssumption DEF A!Hold, A!Take
  <1> DEFINE r == [op |-> what, name |-> name, links |-> links]
  <1>1. /\ ureq \in [UserThread -> UserReq] /\ ureq' = [ureq EXCEPT ![t] = r]
        /\ ureq[t] = A!None /\ ureq[t].op # "link"
    BY DEF AccountInv, AccountTypes, A!None
  <1>2. r \in CreateReq /\ r \in UserReq /\ r.op = what /\ r.name = name
    BY DEF CreateReq, UserReq
  <1>3. LinkedBy(r) = {} /\ LinkedBy(ureq[t]) = {}
    BY <1>1, <1>2, LinkedByIs DEF A!None
  <1> HIDE DEF r
  <1>4. AccountTypes'
    BY <1>1, <1>2 DEF AccountInv, AccountTypes, A!None
  <1>5. HeldUsers' /\ RemovedLeft' /\ A!UsersAsConfirmed'
    BY <1>1, <1>2, HeldKeep
  <1>6. Links' /\ Confirmed'
    BY <1>1, <1>2, <1>3, LinksSame
  <1>7. /\ twice \subseteq twice'
        /\ \A u \in UserThread \ {t} :
              ureq[u].op = what /\ ureq[u].name = name => <<what, name>> \in twice'
    BY DEF A!Creating
  <1>8. A!OneRowPerName'
    BY <1>7 DEF AccountInv, A!OneRowPerName
  <1>9. ureq'[t] = r /\ \A u \in UserThread \ {t} : ureq'[u] = ureq[u]
    BY <1>1
  <1>10. Creations'
    <2> SUFFICES ASSUME NEW u \in UserThread, ureq'[u].op \in {"user", "role"},
                        <<ureq'[u].op, ureq'[u].name>> \notin twice'
                 PROVE  /\ \A w \in UserThread \ {u} :
                              ureq'[w].op = ureq'[u].op => ureq'[w].name # ureq'[u].name
                        /\ ureq'[u].op = "user" =>
                              \A i \in DOMAIN users : users[i].name = ureq'[u].name => i \in left
                        /\ ureq'[u].op = "role" =>
                              \A i \in DOMAIN roles : roles[i] # ureq'[u].name
      BY DEF Creations
    <2>1. CASE u = t
      <3>1. \A w \in UserThread \ {u} : ureq'[w].op = what => ureq'[w].name # name
        BY <1>2, <1>7, <1>9, <2>1
      <3>2. what = "user" => \A i \in DOMAIN users : users[i].name = name => i \in left
        BY DEF AccountInv, RemovedLeft
      <3> QED
        BY <1>2, <1>9, <2>1, <3>1, <3>2
    <2>2. CASE u # t
      <3>1. ureq'[u] = ureq[u] /\ <<ureq[u].op, ureq[u].name>> \notin twice
        BY <1>7, <1>9, <2>2
      <3>2. ureq[u].op = what => ureq[u].name # name
        BY <1>7, <2>2, <3>1
      <3>3. \A w \in UserThread \ {u} :
               ureq[w].op = ureq[u].op => ureq[w].name # ureq[u].name
        BY <3>1 DEF AccountInv, Creations
      <3>4. \A w \in UserThread \ {u} :
               ureq'[w].op = ureq'[u].op => ureq'[w].name # ureq'[u].name
        BY <1>2, <1>9, <3>1, <3>2, <3>3
      <3> QED
        BY <3>1, <3>4 DEF AccountInv, Creations
    <2> QED
      BY <2>1, <2>2
  <1> QED
    BY <1>4, <1>5, <1>6, <1>8, <1>10 DEF AccountInv

\* A request that is refused.
LEMMA AccountsRefused ==
  ASSUME AccountInv, NEW t \in UserThread, A!Take(t), UNCHANGED ureq,
         UNCHANGED <<users, roles, live, meant, given, broken, behind, undone, mixed, twice, left>>
  PROVE  AccountInv'
  <1>1. AccountTypes'
    BY BoundsAssumption DEF AccountInv, AccountTypes, A!Take
  <1>2. HeldUsers' /\ RemovedLeft' /\ A!UsersAsConfirmed' /\ A!OneRowPerName' /\ Creations'
    BY DEF AccountInv, HeldUsers, RemovedLeft, A!UsersAsConfirmed, A!OneRowPerName, Creations
  <1>3. Links' /\ Confirmed'
    BY DEF AccountInv, Links, Confirmed, A!AsAsked, A!AtLinks, Known
  <1> QED
    BY <1>1, <1>2, <1>3 DEF AccountInv

LEMMA CreateUserKeeps ==
  ASSUME AccountInv, NEW t \in UserThread, NEW name \in UserName, NEW links \in SUBSET Right,
         A!CreateUser(t, name, links)
  PROVE  AccountInv'
  <1>1. /\ A!Take(t)
        /\ UNCHANGED <<users, roles, live, meant, given, broken, behind, undone, mixed, left>>
    BY DEF A!CreateUser
  <1>2. CASE \E i \in DOMAIN users : users[i].name = name /\ ~ users[i].deleted
    BY <1>1, <1>2, AccountsRefused DEF A!CreateUser
  <1>3. CASE ~ \E i \in DOMAIN users : users[i].name = name /\ ~ users[i].deleted
    <2>1. /\ A!Hold(t, [op |-> "user", name |-> name, links |-> links])
          /\ A!Creating(t, "user", name)
      BY <1>3 DEF A!CreateUser
    <2>2. \A i \in DOMAIN users : users[i].name = name => users[i].deleted
      BY <1>3
    <2> QED
      BY <1>1, <2>1, <2>2, CreateStarts
  <1> QED
    BY <1>2, <1>3

LEMMA CreateRoleKeeps ==
  ASSUME AccountInv, NEW t \in UserThread, NEW name \in UserName, NEW links \in SUBSET Right,
         A!CreateRole(t, name, links)
  PROVE  AccountInv'
  <1>1. /\ A!Take(t)
        /\ UNCHANGED <<users, roles, live, meant, given, broken, behind, undone, mixed, left>>
    BY DEF A!CreateRole
  <1>2. CASE \E i \in DOMAIN roles : roles[i] = name
    BY <1>1, <1>2, AccountsRefused DEF A!CreateRole
  <1>3. CASE ~ \E i \in DOMAIN roles : roles[i] = name
    <2>1. /\ A!Hold(t, [op |-> "role", name |-> name, links |-> links])
          /\ A!Creating(t, "role", name)
      BY <1>3 DEF A!CreateRole
    <2> QED
      BY <1>1, <1>3, <2>1, CreateStarts
  <1> QED
    BY <1>2, <1>3

LEMMA InsertUserKeeps ==
  ASSUME AccountInv, NEW t \in UserThread, NEW v \in Value, A!InsertUser(t, v)
  PROVE  AccountInv'
  <1> USE BoundsAssumption DEF A!Hold
  <1> DEFINE name == ureq[t].name
             row == [name |-> name, profile |-> v, pwd |-> v, deleted |-> FALSE]
             new == Len(users) + 1
             r == [op |-> "link", owner |-> A!User(Len(users')), todo |-> ureq[t].links,
                   all |-> ureq[t].links]
  <1>1. /\ ureq \in [UserThread -> UserReq] /\ ureq' = [ureq EXCEPT ![t] = r]
        /\ ureq[t].op = "user" /\ Len(users) < MaxRows
        /\ users' = Append(users, row) /\ meant' = Append(meant, row)
        /\ users \in Seq(UserRow) /\ meant \in Seq(UserRow) /\ Len(meant) = Len(users)
    BY DEF AccountInv, AccountTypes, A!InsertUser
  <1>2. UNCHANGED <<roles, live, uasked, given, broken, behind, undone, mixed, twice, left>>
    BY DEF A!InsertUser
  <1>3. ureq[t] \in CreateReq
    BY <1>1, UserReqOps
  <1>4. row \in UserRow /\ row.name = name /\ ~ row.deleted
    BY <1>3 DEF CreateReq, UserRow
  <1> HIDE DEF row
  <1>5. /\ Len(users) \in Nat /\ DOMAIN users = 1 .. Len(users)
        /\ users' \in Seq(UserRow) /\ Len(users') = new /\ DOMAIN users' = 1 .. new
        /\ \A i \in DOMAIN users : users'[i] = users[i]
        /\ users'[new] = row
        /\ meant' \in Seq(UserRow) /\ Len(meant') = new
        /\ \A i \in DOMAIN users : meant'[i] = meant[i]
        /\ meant'[new] = row
    BY <1>1, <1>4, AppendProperties, LenProperties
  <1>6. /\ r \in LinkReq /\ r \in UserReq /\ r.op = "link" /\ r.todo = r.all
        /\ r.owner = A!User(new) /\ r.owner \in A!Owner
    <2>1. A!User(new) \in A!Owner
      <3>1. new \in 1 .. MaxRows
        BY <1>1, <1>5
      <3> QED
        BY <3>1 DEF A!Owner
    <2>2. r.owner = A!User(new)
      BY <1>5
    <2>3. r \in LinkReq
      BY <1>3, <2>1, <2>2 DEF CreateReq, LinkReq
    <2> QED
      BY <2>1, <2>2, <2>3 DEF UserReq, LinkReq
  <1> HIDE DEF r
  <1>7. AccountTypes'
    BY <1>1, <1>2, <1>5, <1>6 DEF AccountInv, AccountTypes
  <1>8. ureq'[t] = r /\ \A u \in UserThread \ {t} : ureq'[u] = ureq[u]
    BY <1>1
  <1>9. HeldUsers'
    <2>1. \A u \in UserThread : ureq'[u].op = "save" =>
             ureq'[u] = ureq[u] /\ ureq[u].op = "save" /\ ureq[u].id \in DOMAIN users
      BY <1>6, <1>8 DEF AccountInv, AccountTypes
    <2> QED
      BY <1>2, <1>5, <2>1 DEF AccountInv, HeldUsers
  <1>10. RemovedLeft'
    BY <1>2, <1>4, <1>5 DEF AccountInv, RemovedLeft
  <1>11. A!UsersAsConfirmed'
    BY <1>2, <1>5 DEF AccountInv, A!UsersAsConfirmed
  <1>12. <<"user", name>> \notin twice =>
            /\ \A i \in DOMAIN users : users[i].name = name => i \in left
            /\ \A u \in UserThread \ {t} : ureq[u].op = "user" => ureq[u].name # name
    BY <1>1 DEF AccountInv, Creations
  <1>13. Creations'
    <2> SUFFICES ASSUME NEW u \in UserThread, ureq'[u].op \in {"user", "role"},
                        <<ureq'[u].op, ureq'[u].name>> \notin twice
                 PROVE  /\ \A w \in UserThread \ {u} :
                              ureq'[w].op = ureq'[u].op => ureq'[w].name # ureq'[u].name
                        /\ ureq'[u].op = "user" =>
                              \A i \in DOMAIN users' :
                                  users'[i].name = ureq'[u].name => i \in left
                        /\ ureq'[u].op = "role" =>
                              \A i \in DOMAIN roles : roles[i] # ureq'[u].name
      BY <1>2 DEF Creations
    <2>1. u # t /\ ureq'[u] = ureq[u]
      BY <1>6, <1>8
    <2>2. /\ \A w \in UserThread \ {u} :
                ureq[w].op = ureq[u].op => ureq[w].name # ureq[u].name
          /\ ureq[u].op = "user" =>
                \A i \in DOMAIN users : users[i].name = ureq[u].name => i \in left
          /\ ureq[u].op = "role" => \A i \in DOMAIN roles : roles[i] # ureq[u].name
      BY <2>1 DEF AccountInv, Creations
    <2>3. \A w \in UserThread \ {u} :
             ureq'[w].op = ureq'[u].op => ureq'[w].name # ureq'[u].name
      BY <1>6, <1>8, <2>1, <2>2
    <2>4. ureq[u].op = "user" =>
             \A i \in DOMAIN users' : users'[i].name = ureq[u].name => i \in left
      BY <1>1, <1>4, <1>5, <2>1, <2>2
    <2> QED
      BY <2>1, <2>2, <2>3, <2>4
  <1>14. A!OneRowPerName'
    <2>1. ASSUME NEW i \in DOMAIN users', NEW j \in DOMAIN users', i # j,
                 users'[i].name = users'[j].name
          PROVE  {i, j} \cap left # {} \/ <<"user", users'[i].name>> \in twice
      <3>1. CASE i # new /\ j # new
        BY <1>5, <2>1, <3>1 DEF AccountInv, A!OneRowPerName
      <3>2. CASE i = new
        <4>1. j \in DOMAIN users /\ users[j].name = name /\ users'[i].name = name
          BY <1>4, <1>5, <2>1, <3>2
        <4>2. <<"user", name>> \in twice \/ j \in left
          BY <1>12, <4>1
        <4> QED
          BY <4>1, <4>2
      <3>3. CASE j = new
        <4>1. i \in DOMAIN users /\ users[i].name = name /\ users'[i].name = name
          BY <1>4, <1>5, <2>1, <3>3
        <4>2. <<"user", name>> \in twice \/ i \in left
          BY <1>12, <4>1
        <4> QED
          BY <4>1, <4>2
      <3> QED
        BY <3>1, <3>2, <3>3
    <2> QED
      BY <1>2, <2>1 DEF AccountInv, A!OneRowPerName
  <1>15. LinkedBy(ureq[t]) = {}
    BY <1>1, LinkedByIs
  <1>16. Known' = Known \cup {r.owner} /\ r.owner \notin Known
    <2>1. DOMAIN users' = DOMAIN users \cup {new} /\ new \notin DOMAIN users
      BY <1>5
    <2>2. Known' = Known \cup {r.owner}
      BY <1>2, <1>6, <2>1 DEF Known
    <2> QED
      BY <1>6, <2>1, <2>2, OwnersDiffer DEF Known
  <1>17. Links' /\ Confirmed'
    BY <1>1, <1>2, <1>6, <1>15, <1>16, LinksNew
  <1> QED
    BY <1>7, <1>9, <1>10, <1>11, <1>13, <1>14, <1>17 DEF AccountInv

LEMMA InsertRoleKeeps ==
  ASSUME AccountInv, NEW t \in UserThread, A!InsertRole(t)
  PROVE  AccountInv'
  <1> USE BoundsAssumption DEF A!Hold, A!userHistory
  <1> DEFINE name == ureq[t].name
             new == Len(roles) + 1
             r == [op |-> "link", owner |-> A!Role(Len(roles')), todo |-> ureq[t].links,
                   all |-> ureq[t].links]
  <1>1. /\ ureq \in [UserThread -> UserReq] /\ ureq' = [ureq EXCEPT ![t] = r]
        /\ ureq[t].op = "role" /\ Len(roles) < MaxRows
        /\ roles' = Append(roles, name) /\ roles \in Seq(UserName)
    BY DEF AccountInv, AccountTypes, A!InsertRole
  <1>2. UNCHANGED <<users, live, uasked, meant, given, broken, behind, undone, mixed, twice, left>>
    BY DEF A!InsertRole
  <1>3. ureq[t] \in CreateReq /\ name \in UserName
    BY <1>1, UserReqOps DEF CreateReq
  <1>4. /\ Len(roles) \in Nat /\ DOMAIN roles = 1 .. Len(roles)
        /\ roles' \in Seq(UserName) /\ Len(roles') = new /\ DOMAIN roles' = 1 .. new
        /\ \A i \in DOMAIN roles : roles'[i] = roles[i]
        /\ roles'[new] = name
    BY <1>1, <1>3, AppendProperties, LenProperties
  <1>5. /\ r \in LinkReq /\ r \in UserReq /\ r.op = "link" /\ r.todo = r.all
        /\ r.owner = A!Role(new) /\ r.owner \in A!Owner
    BY <1>1, <1>3, <1>4 DEF CreateReq, LinkReq, UserReq, A!Owner
  <1> HIDE DEF r
  <1>6. AccountTypes'
    BY <1>1, <1>2, <1>4, <1>5 DEF AccountInv, AccountTypes
  <1>7. HeldUsers' /\ RemovedLeft' /\ A!UsersAsConfirmed'
    BY <1>1, <1>2, <1>5, HeldKeep
  <1>8. ureq'[t] = r /\ \A u \in UserThread \ {t} : ureq'[u] = ureq[u]
    BY <1>1
  <1>9. <<"role", name>> \notin twice =>
           /\ \A i \in DOMAIN roles : roles[i] # name
           /\ \A u \in UserThread \ {t} : ureq[u].op = "role" => ureq[u].name # name
    BY <1>1 DEF AccountInv, Creations
  <1>10. Creations'
    <2> SUFFICES ASSUME NEW u \in UserThread, ureq'[u].op \in {"user", "role"},
                        <<ureq'[u].op, ureq'[u].name>> \notin twice
                 PROVE  /\ \A w \in UserThread \ {u} :
                              ureq'[w].op = ureq'[u].op => ureq'[w].name # ureq'[u].name
                        /\ ureq'[u].op = "user" =>
                              \A i \in DOMAIN users :
                                  users[i].name = ureq'[u].name => i \in left
                        /\ ureq'[u].op = "role" =>
                              \A i \in DOMAIN roles' : roles'[i] # ureq'[u].name
      BY <1>2 DEF Creations
    <2>1. u # t /\ ureq'[u] = ureq[u]
      BY <1>5, <1>8
    <2>2. /\ \A w \in UserThread \ {u} :
                ureq[w].op = ureq[u].op => ureq[w].name # ureq[u].name
          /\ ureq[u].op = "user" =>
                \A i \in DOMAIN users : users[i].name = ureq[u].name => i \in left
          /\ ureq[u].op = "role" => \A i \in DOMAIN roles : roles[i] # ureq[u].name
      BY <2>1 DEF AccountInv, Creations
    <2>3. \A w \in UserThread \ {u} :
             ureq'[w].op = ureq'[u].op => ureq'[w].name # ureq'[u].name
      BY <1>5, <1>8, <2>1, <2>2
    <2>4. ureq[u].op = "role" => \A i \in DOMAIN roles' : roles'[i] # ureq[u].name
      BY <1>1, <1>4, <2>1, <2>2
    <2> QED
      BY <2>1, <2>2, <2>3, <2>4
  <1>11. A!OneRowPerName'
    <2>1. ASSUME NEW i \in DOMAIN roles', NEW j \in DOMAIN roles', i # j,
                 roles'[i] = roles'[j]
          PROVE  <<"role", roles'[i]>> \in twice
      <3>1. CASE i # new /\ j # new
        BY <1>4, <2>1, <3>1 DEF AccountInv, A!OneRowPerName
      <3>2. CASE i = new
        BY <1>4, <1>9, <2>1, <3>2
      <3>3. CASE j = new
        BY <1>4, <1>9, <2>1, <3>3
      <3> QED
        BY <3>1, <3>2, <3>3
    <2> QED
      BY <1>2, <2>1 DEF AccountInv, A!OneRowPerName
  <1>12. LinkedBy(ureq[t]) = {}
    BY <1>1, LinkedByIs
  <1>13. Known' = Known \cup {r.owner} /\ r.owner \notin Known
    <2>1. DOMAIN roles' = DOMAIN roles \cup {new} /\ new \notin DOMAIN roles
      BY <1>4
    <2>2. Known' = Known \cup {r.owner}
      BY <1>2, <1>5, <2>1 DEF Known
    <2> QED
      BY <1>5, <2>1, <2>2, OwnersDiffer DEF Known
  <1>14. Links' /\ Confirmed'
    BY <1>1, <1>2, <1>5, <1>12, <1>13, LinksNew
  <1> QED
    BY <1>6, <1>7, <1>10, <1>11, <1>14 DEF AccountInv

-----------------------------------------------------------------------------
(* Accounts: getting a row, and saving it.                                 *)

LEMMA GetKeeps ==
  ASSUME AccountInv, NEW t \in UserThread, NEW i \in DOMAIN users, NEW col, NEW v,
         NEW relink \in BOOLEAN, NEW links \in SUBSET Right,
         (col \in {"profile", "pwd"} /\ v \in Value) \/ (col = "deleted" /\ v = TRUE),
         A!Get(t, i, col, v, relink, links),
         IF relink THEN A!StartLinking(t, A!User(i)) ELSE UNCHANGED mixed
  PROVE  AccountInv'
  <1> USE BoundsAssumption DEF A!Hold, A!Take
  <1> DEFINE r == [op |-> "save", id |-> i, col |-> col, to |-> v, row |-> users[i],
                   relink |-> relink, links |-> links]
  <1>1. /\ ureq \in [UserThread -> UserReq] /\ ureq' = [ureq EXCEPT ![t] = r]
        /\ ureq[t].op = "none" /\ users \in Seq(UserRow)
    BY DEF AccountInv, AccountTypes, A!Get, A!None
  <1>2. UNCHANGED <<users, roles, live, meant, given, broken, behind, undone, twice, left>>
    BY DEF A!Get
  <1>3. i \in Nat /\ users[i] \in UserRow
    BY <1>1, SeqDom
  <1>4. /\ r \in EditReq \cup RemoveReq /\ r.op = "save" /\ r.id = i /\ r.row = users[i]
        /\ r.relink = relink
    <2>1. CASE col \in {"profile", "pwd"} /\ v \in Value
      BY <1>3, <2>1 DEF EditReq
    <2>2. CASE col = "deleted" /\ v = TRUE
      BY <1>3, <2>2 DEF RemoveReq
    <2> QED
      BY <2>1, <2>2
  <1>5. r \in UserReq
    BY <1>4 DEF UserReq
  <1> HIDE DEF r
  <1>6. ureq'[t] = r /\ \A u \in UserThread \ {t} : ureq'[u] = ureq[u]
    BY <1>1
  <1>7. AccountTypes'
    <2>1. uasked' \in 0 .. MaxUserOps
      BY DEF A!Get, AccountInv, AccountTypes
    <2>2. \A u \in UserThread : ureq'[u].op = "save" => ureq'[u].id \in DOMAIN users
      BY <1>4, <1>6 DEF AccountInv, AccountTypes
    <2>3. behind \subseteq {u \in UserThread : ureq'[u].op = "save"}
      BY <1>1, <1>6 DEF AccountInv, AccountTypes
    <2> QED
      BY <1>1, <1>2, <1>5, <2>1, <2>2, <2>3 DEF AccountInv, AccountTypes
  <1>8. HeldUsers'
    <2>1. ASSUME NEW u \in UserThread, ureq'[u].op = "save"
          PROVE  /\ ureq'[u].row.name = users[ureq'[u].id].name
                 /\ ureq'[u].row.deleted => ureq'[u].id \in left
                 /\ u \notin behind => ureq'[u].row = users[ureq'[u].id]
      <3>1. CASE u = t
        BY <1>4, <1>6, <3>1 DEF AccountInv, RemovedLeft
      <3>2. CASE u # t
        BY <1>6, <2>1, <3>2 DEF AccountInv, HeldUsers
      <3> QED
        BY <3>1, <3>2
    <2> QED
      BY <1>2, <2>1 DEF HeldUsers
  <1>9. RemovedLeft' /\ A!UsersAsConfirmed'
    BY <1>2 DEF AccountInv, RemovedLeft, A!UsersAsConfirmed
  <1>10. Creations' /\ A!OneRowPerName'
    BY <1>1, <1>2, <1>4, CreationsKeep
  <1>11. LinkedBy(ureq[t]) = {}
    BY <1>1, LinkedByIs
  <1>12. Links' /\ Confirmed'
    <2>1. CASE relink
      <3>1. LinkedBy(r) = {A!User(i)} /\ A!User(i) \in Known
        BY <1>4, <2>1, LinkedByIs DEF Known
      <3> QED
        BY <1>1, <1>2, <1>4, <1>11, <2>1, <3>1, LinksStart
    <2>2. CASE ~ relink
      <3>1. LinkedBy(r) = {}
        BY <1>4, <2>2, LinkedByIs
      <3> QED
        BY <1>1, <1>2, <1>4, <1>11, <2>2, <3>1, LinksSame
    <2> QED
      BY <2>1, <2>2
  <1> QED
    BY <1>7, <1>8, <1>9, <1>10, <1>12 DEF AccountInv

LEMMA EditRoleKeeps ==
  ASSUME AccountInv, NEW t \in UserThread, NEW i \in DOMAIN roles,
         NEW links \in SUBSET Right, A!EditRole(t, i, links)
  PROVE  AccountInv'
  <1> USE BoundsAssumption DEF A!Hold, A!Take
  <1> DEFINE r == [op |-> "unlink", owner |-> A!Role(i), links |-> links]
  <1>1. /\ ureq \in [UserThread -> UserReq] /\ ureq' = [ureq EXCEPT ![t] = r]
        /\ ureq[t].op = "none" /\ roles \in Seq(UserName) /\ Len(roles) <= MaxRows
    BY DEF AccountInv, AccountTypes, A!EditRole, A!None
  <1>2. UNCHANGED <<users, roles, live, meant, given, broken, behind, undone, twice, left>>
    BY DEF A!EditRole
  <1>3. A!Role(i) \in A!Owner /\ A!Role(i) \in Known
    <2>1. i \in 1 .. MaxRows
      BY <1>1, SeqDom
    <2> QED
      BY <2>1 DEF A!Owner, Known
  <1>4. r \in UserReq /\ r.op = "unlink" /\ r.owner = A!Role(i)
    BY <1>3 DEF UnlinkReq, UserReq
  <1> HIDE DEF r
  <1>5. AccountTypes'
    <2>1. uasked' \in 0 .. MaxUserOps
      BY DEF A!EditRole, AccountInv, AccountTypes
    <2> QED
      BY <1>1, <1>2, <1>4, <2>1 DEF AccountInv, AccountTypes
  <1>6. HeldUsers' /\ RemovedLeft' /\ A!UsersAsConfirmed'
    BY <1>1, <1>2, <1>4, HeldKeep
  <1>7. Creations' /\ A!OneRowPerName'
    BY <1>1, <1>2, <1>4, CreationsKeep
  <1>8. LinkedBy(ureq[t]) = {} /\ LinkedBy(r) = {A!Role(i)}
    BY <1>1, <1>4, LinkedByIs
  <1>9. A!StartLinking(t, A!Role(i))
    BY DEF A!EditRole
  <1>10. Links' /\ Confirmed'
    BY <1>1, <1>2, <1>3, <1>4, <1>8, <1>9, LinksStart
  <1> QED
    BY <1>5, <1>6, <1>7, <1>10 DEF AccountInv

LEMMA SaveUserKeeps ==
  ASSUME AccountInv, NEW t \in UserThread, A!SaveUser(t)
  PROVE  AccountInv'
  <1> USE DEF A!Hold, A!Done
  <1> DEFINE id == ureq[t].id
             next == IF ureq[t].relink
                     THEN [op |-> "unlink", owner |-> A!User(id), links |-> ureq[t].links]
                     ELSE A!None
             row == [ureq[t].row EXCEPT ![ureq[t].col] = ureq[t].to]
             asked2 == [meant[id] EXCEPT ![ureq[t].col] = ureq[t].to]
  <1>1. /\ ureq \in [UserThread -> UserReq] /\ ureq' = [ureq EXCEPT ![t] = next]
        /\ ureq[t].op = "save" /\ id \in DOMAIN users
        /\ users \in Seq(UserRow) /\ meant \in Seq(UserRow) /\ Len(meant) = Len(users)
    BY DEF AccountInv, AccountTypes, A!SaveUser
  <1>2. /\ users' = [users EXCEPT ![id] = row]
        /\ meant' = [meant EXCEPT ![id] = asked2]
        /\ undone' = IF t \in behind THEN undone \cup {id} ELSE undone
        /\ behind' = (behind \ {t}) \cup A!Holding(t, id)
        /\ left' = IF ureq[t].col = "deleted" THEN left \cup {id} ELSE left
        /\ UNCHANGED <<roles, live, uasked, given, broken, mixed, twice>>
    BY DEF A!SaveUser
  <1>3. /\ ureq[t] \in EditReq \cup RemoveReq
        /\ ureq[t].row \in UserRow /\ ureq[t].relink \in BOOLEAN
        /\ ureq[t].links \in SUBSET Right
    <2>1. ureq[t] \in EditReq \cup RemoveReq
      BY <1>1, UserReqOps
    <2> QED
      BY <2>1 DEF EditReq, RemoveReq
  <1>4. /\ DOMAIN users = 1 .. Len(users) /\ Len(users) \in Nat /\ id \in 1 .. Len(users)
        /\ \A i \in DOMAIN users : users[i] \in UserRow /\ meant[i] \in UserRow
    BY <1>1, SeqDom
  <1>5. /\ ureq[t].row.name = users[id].name
        /\ ureq[t].row.deleted => id \in left
        /\ t \notin behind => ureq[t].row = users[id]
    BY <1>1 DEF AccountInv, HeldUsers
  <1>6. /\ row \in UserRow /\ row.name = users[id].name
        /\ row.deleted => id \in left'
    BY <1>2, <1>3, <1>5, SavedUser
  <1>7. asked2 \in UserRow
    BY <1>1, <1>3, <1>4, SavedUser
  <1>8. t \notin behind /\ users[id] = meant[id] => row = asked2
    BY <1>5
  <1> HIDE DEF row, asked2
  <1>9. /\ users' \in Seq(UserRow) /\ Len(users') = Len(users) /\ DOMAIN users' = DOMAIN users
        /\ users'[id] = row /\ \A i \in DOMAIN users \ {id} : users'[i] = users[i]
        /\ meant' \in Seq(UserRow) /\ Len(meant') = Len(users)
        /\ meant'[id] = asked2 /\ \A i \in DOMAIN users \ {id} : meant'[i] = meant[i]
    <2>1. /\ users' \in Seq(UserRow) /\ Len(users') = Len(users)
          /\ meant' \in Seq(UserRow) /\ Len(meant') = Len(users)
      BY <1>1, <1>2, <1>4, <1>6, <1>7, ExceptSeq
    <2>2. DOMAIN users' = DOMAIN users /\ DOMAIN meant = DOMAIN users
      BY <1>1, <1>4, <2>1, SeqDom
    <2> QED
      BY <1>1, <1>2, <2>1, <2>2
  <1>10. next \in UserReq /\ next.op \in {"unlink", "none"} /\ LinkedBy(next) = LinkedBy(ureq[t])
    <2>1. CASE ureq[t].relink
      <3>1. next = [op |-> "unlink", owner |-> A!User(id), links |-> ureq[t].links]
        BY <2>1
      <3>2. A!User(id) \in A!Owner
        <4>1. id \in 1 .. MaxRows
          BY <1>4, BoundsAssumption DEF AccountInv, AccountTypes
        <4> QED
          BY <4>1 DEF A!Owner
      <3>3. next \in UserReq /\ next.op = "unlink" /\ next.owner = A!User(id)
        BY <1>3, <3>1, <3>2 DEF UnlinkReq, UserReq
      <3> HIDE DEF next
      <3> QED
        BY <1>1, <2>1, <3>3, LinkedByIs
    <2>2. CASE ~ ureq[t].relink
      <3>1. next = A!None
        BY <2>2
      <3>2. next \in UserReq /\ next.op = "none"
        BY <3>1 DEF A!None, UserReq
      <3> HIDE DEF next
      <3> QED
        BY <1>1, <2>2, <3>2, LinkedByIs
    <2> QED
      BY <2>1, <2>2
  <1> HIDE DEF next
  <1>11. ureq'[t] = next /\ \A u \in UserThread \ {t} : ureq'[u] = ureq[u]
    BY <1>1
  <1>12. AccountTypes'
    <2>1. \A u \in UserThread : ureq'[u].op = "save" => ureq'[u].id \in DOMAIN users'
      BY <1>9, <1>10, <1>11 DEF AccountInv, AccountTypes
    <2>2. behind' \subseteq {u \in UserThread : ureq'[u].op = "save"}
      BY <1>2, <1>11 DEF AccountInv, AccountTypes, A!Holding
    <2> QED
      BY <1>1, <1>2, <1>9, <1>10, <2>1, <2>2 DEF AccountInv, AccountTypes
  <1>13. HeldUsers'
    <2> SUFFICES ASSUME NEW u \in UserThread, ureq'[u].op = "save"
                 PROVE  /\ ureq'[u].row.name = users'[ureq'[u].id].name
                        /\ ureq'[u].row.deleted => ureq'[u].id \in left'
                        /\ u \notin behind' => ureq'[u].row = users'[ureq'[u].id]
      BY DEF HeldUsers
    <2>1. u # t /\ ureq'[u] = ureq[u] /\ ureq[u].id \in DOMAIN users
      BY <1>10, <1>11 DEF AccountInv, AccountTypes
    <2>2. /\ ureq[u].row.name = users[ureq[u].id].name
          /\ ureq[u].row.deleted => ureq[u].id \in left'
          /\ u \notin behind => ureq[u].row = users[ureq[u].id]
      BY <1>2, <2>1 DEF AccountInv, HeldUsers
    <2>3. CASE ureq[u].id = id
      <3>1. u \in behind'
        BY <1>2, <2>1, <2>3 DEF A!Holding
      <3> QED
        BY <1>6, <1>9, <2>1, <2>2, <2>3, <3>1
    <2>4. CASE ureq[u].id # id
      BY <1>2, <1>9, <2>1, <2>2, <2>4
    <2> QED
      BY <2>3, <2>4
  <1>14. RemovedLeft'
    BY <1>2, <1>6, <1>9 DEF AccountInv, RemovedLeft
  <1>15. A!UsersAsConfirmed'
    <2> SUFFICES ASSUME NEW i \in DOMAIN users, i \notin undone'
                 PROVE  users'[i] = meant'[i]
      BY <1>9 DEF A!UsersAsConfirmed
    <2>1. i \notin undone /\ users[i] = meant[i]
      BY <1>2 DEF AccountInv, A!UsersAsConfirmed
    <2>2. CASE i = id
      BY <1>2, <1>8, <1>9, <2>1, <2>2
    <2>3. CASE i # id
      BY <1>9, <2>1, <2>3
    <2> QED
      BY <2>2, <2>3
  <1>16. \A i \in DOMAIN users : users'[i].name = users[i].name
    BY <1>6, <1>9
  <1>17. Creations' /\ A!OneRowPerName'
    BY <1>1, <1>2, <1>9, <1>10, <1>16, CreationsKeep
  <1>18. Links' /\ Confirmed'
    BY <1>1, <1>2, <1>9, <1>10, LinksSame
  <1> QED
    BY <1>12, <1>13, <1>14, <1>15, <1>17, <1>18 DEF AccountInv

LEMMA EditProfileKeeps ==
  ASSUME AccountInv, NEW t \in UserThread, NEW i \in DOMAIN users, NEW v \in Value,
         A!EditProfile(t, i, v)
  PROVE  AccountInv'
  <1> DEFINE row == [users[i] EXCEPT !.profile = v]
             asked2 == [meant[i] EXCEPT !.profile = v]
  <1>1. /\ ureq \in [UserThread -> UserReq] /\ ureq[t].op = "none"
        /\ users \in Seq(UserRow) /\ meant \in Seq(UserRow) /\ Len(meant) = Len(users)
    BY DEF AccountInv, AccountTypes, A!EditProfile, A!Take, A!None
  <1>2. /\ users' = [users EXCEPT ![i] = row]
        /\ meant' = [meant EXCEPT ![i] = asked2]
        /\ behind' = behind \cup A!Holding(t, i)
        /\ UNCHANGED <<roles, live, ureq, given, broken, undone, mixed, twice, left>>
    BY DEF A!EditProfile
  <1>3. /\ DOMAIN users = 1 .. Len(users) /\ Len(users) \in Nat /\ i \in 1 .. Len(users)
        /\ \A j \in DOMAIN users : users[j] \in UserRow /\ meant[j] \in UserRow
    BY <1>1, SeqDom
  <1>4. /\ row \in UserRow /\ row.name = users[i].name /\ row.deleted = users[i].deleted
        /\ asked2 \in UserRow
        /\ users[i] = meant[i] => row = asked2
    BY <1>3 DEF UserRow
  <1> HIDE DEF row, asked2
  <1>5. /\ users' \in Seq(UserRow) /\ Len(users') = Len(users) /\ DOMAIN users' = DOMAIN users
        /\ users'[i] = row /\ \A j \in DOMAIN users \ {i} : users'[j] = users[j]
        /\ meant' \in Seq(UserRow) /\ Len(meant') = Len(users)
        /\ meant'[i] = asked2 /\ \A j \in DOMAIN users \ {i} : meant'[j] = meant[j]
    <2>1. /\ users' \in Seq(UserRow) /\ Len(users') = Len(users)
          /\ meant' \in Seq(UserRow) /\ Len(meant') = Len(users)
      BY <1>1, <1>2, <1>3, <1>4, ExceptSeq
    <2>2. DOMAIN users' = DOMAIN users /\ DOMAIN meant = DOMAIN users
      BY <1>1, <1>3, <2>1, SeqDom
    <2> QED
      BY <1>1, <1>2, <2>1, <2>2
  <1>6. AccountTypes'
    <2>1. uasked' \in 0 .. MaxUserOps
      BY BoundsAssumption DEF A!EditProfile, A!Take, AccountInv, AccountTypes
    <2>2. behind' \subseteq {u \in UserThread : ureq[u].op = "save"}
      BY <1>2 DEF AccountInv, AccountTypes, A!Holding
    <2> QED
      BY <1>1, <1>2, <1>5, <2>1, <2>2 DEF AccountInv, AccountTypes
  <1>7. HeldUsers'
    <2> SUFFICES ASSUME NEW u \in UserThread, ureq[u].op = "save"
                 PROVE  /\ ureq[u].row.name = users'[ureq[u].id].name
                        /\ ureq[u].row.deleted => ureq[u].id \in left
                        /\ u \notin behind' => ureq[u].row = users'[ureq[u].id]
      BY <1>2 DEF HeldUsers
    <2>1. u # t /\ ureq[u].id \in DOMAIN users
      BY <1>1 DEF AccountInv, AccountTypes
    <2>2. /\ ureq[u].row.name = users[ureq[u].id].name
          /\ ureq[u].row.deleted => ureq[u].id \in left
          /\ u \notin behind => ureq[u].row = users[ureq[u].id]
      BY DEF AccountInv, HeldUsers
    <2>3. CASE ureq[u].id = i
      <3>1. u \in behind'
        BY <1>2, <2>1, <2>3 DEF A!Holding
      <3> QED
        BY <1>4, <1>5, <2>2, <2>3, <3>1
    <2>4. CASE ureq[u].id # i
      BY <1>2, <1>5, <2>1, <2>2, <2>4
    <2> QED
      BY <2>3, <2>4
  <1>8. RemovedLeft'
    BY <1>2, <1>4, <1>5 DEF AccountInv, RemovedLeft
  <1>9. A!UsersAsConfirmed'
    BY <1>2, <1>4, <1>5 DEF AccountInv, A!UsersAsConfirmed
  <1>10. ureq' = [ureq EXCEPT ![t] = ureq[t]]
    BY <1>1, <1>2
  <1>11. \A j \in DOMAIN users : users'[j].name = users[j].name
    BY <1>4, <1>5
  <1>12. Creations' /\ A!OneRowPerName'
    BY <1>1, <1>2, <1>5, <1>10, <1>11, CreationsKeep
  <1>13. Links' /\ Confirmed'
    BY <1>1, <1>2, <1>5, <1>10, LinksSame
  <1> QED
    BY <1>6, <1>7, <1>8, <1>9, <1>12, <1>13 DEF AccountInv

-----------------------------------------------------------------------------
(* Accounts: what follows for its steps.                                   *)

LEMMA AccountsStep ==
  ASSUME AccountInv, A!Next
  PROVE  AccountInv'
  <1> SUFFICES ASSUME NEW t \in UserThread, A!Serve(t) PROVE AccountInv'
    BY DEF A!Next
  <1>1. CASE \E name \in UserName, links \in SUBSET Right :
                A!CreateUser(t, name, links) \/ A!CreateRole(t, name, links)
    BY <1>1, CreateUserKeeps, CreateRoleKeeps
  <1>2. CASE \E v \in Value : A!InsertUser(t, v)
    BY <1>2, InsertUserKeeps
  <1>3. ASSUME NEW i \in DOMAIN users, NEW v \in Value, NEW links \in SUBSET Right,
               A!EditUser(t, i, v, links)
        PROVE  AccountInv'
    BY <1>3, GetKeeps DEF A!EditUser
  <1>4. ASSUME NEW i \in DOMAIN users, NEW v \in Value, A!ResetPwd(t, i, v)
        PROVE  AccountInv'
    <2>1. A!Get(t, i, "pwd", v, FALSE, {}) /\ UNCHANGED mixed
      BY <1>4 DEF A!ResetPwd
    <2>2. FALSE \in BOOLEAN /\ {} \in SUBSET Right /\ "pwd" \in {"profile", "pwd"}
      OBVIOUS
    <2>3. IF FALSE THEN A!StartLinking(t, A!User(i)) ELSE UNCHANGED mixed
      BY <2>1
    <2> QED
      BY <2>1, <2>2, <2>3, GetKeeps, Zenon
  <1>5. ASSUME NEW i \in DOMAIN users, NEW v \in Value, A!EditProfile(t, i, v)
        PROVE  AccountInv'
    BY <1>5, EditProfileKeeps
  <1>6. ASSUME NEW i \in DOMAIN users, A!RemoveUser(t, i)
        PROVE  AccountInv'
    <2>1. A!Get(t, i, "deleted", TRUE, TRUE, {}) /\ A!StartLinking(t, A!User(i))
      BY <1>6 DEF A!RemoveUser
    <2>2. TRUE \in BOOLEAN /\ {} \in SUBSET Right
      OBVIOUS
    <2>3. IF TRUE THEN A!StartLinking(t, A!User(i)) ELSE UNCHANGED mixed
      BY <2>1
    <2> QED
      BY <2>1, <2>2, <2>3, GetKeeps, Zenon
  <1>7. CASE \E i \in DOMAIN roles, links \in SUBSET Right : A!EditRole(t, i, links)
    BY <1>7, EditRoleKeeps
  <1>8. CASE \E x \in Right : A!Link(t, x)
    BY <1>8, LinkKeeps
  <1>9. CASE \/ A!SaveUser(t) \/ A!Unlink(t) \/ A!Confirm(t) \/ A!BreakOff(t)
             \/ A!InsertRole(t)
    BY <1>9, SaveUserKeeps, UnlinkKeeps, ConfirmKeeps, BreakOffKeeps, InsertRoleKeeps
  <1> QED
    BY <1>1, <1>2, <1>3, <1>4, <1>5, <1>6, <1>7, <1>8, <1>9 DEF A!Serve, A!ResetProfilePwd

LEMMA AccountsAre ==
  ASSUME AccountInv
  PROVE  A!AccountsAsConfirmed /\ A!OneRowPerName
  BY LinkingIs
     DEF AccountInv, Confirmed, A!AsAsked, A!AtLinks, A!AccountsAsConfirmed, A!RolesAsConfirmed

-----------------------------------------------------------------------------
(* The parts together.                                                     *)

LEMMA PartsStart == Init => S!Init /\ C!Init /\ R!Init /\ A!Init
  BY DEF Init

LEMMA PartsStep ==
  ASSUME [Next]_vars
  PROVE  /\ [S!Next]_syncState
         /\ [C!Next]_catState
         /\ [R!Next]_rowState
         /\ [A!Next]_userState
  <1>1. CASE UNCHANGED vars
    BY <1>1 DEF vars
  <1>2. CASE Next
    BY <1>2 DEF Next
  <1> QED
    BY <1>1, <1>2

LEMMA SyncStutters ==
  ASSUME SyncInv, UNCHANGED syncState
  PROVE  SyncInv'
  <1> USE DEF syncState
  <1>1. SyncTypes'
    BY DEF SyncInv, SyncTypes
  <1> QED
    BY <1>1, SyncStay DEF SyncInv

LEMMA AccountsStutter ==
  ASSUME AccountInv, UNCHANGED userState
  PROVE  AccountInv'
  <1> USE DEF userState
  <1>1. AccountTypes'
    BY DEF AccountInv, AccountTypes
  <1>2. HeldUsers' /\ RemovedLeft' /\ A!UsersAsConfirmed' /\ A!OneRowPerName' /\ Creations'
    BY DEF AccountInv, HeldUsers, RemovedLeft, A!UsersAsConfirmed, A!OneRowPerName, Creations
  <1>3. Links' /\ Confirmed'
    BY DEF AccountInv, Links, Confirmed, A!AsAsked, A!AtLinks, Known
  <1> QED
    BY <1>1, <1>2, <1>3 DEF AccountInv

LEMMA SyncSafe == Spec => []SyncInv
  <1>1. Init => SyncInv
    BY PartsStart, SyncInit
  <1>2. SyncInv /\ [Next]_vars => SyncInv'
    BY PartsStep, SyncStep, SyncStutters
  <1> QED
    BY <1>1, <1>2, PTL DEF Spec

LEMMA AccountsSafe == Spec => []AccountInv
  <1>1. Init => AccountInv
    BY PartsStart, AccountsInit
  <1>2. AccountInv /\ [Next]_vars => AccountInv'
    BY PartsStep, AccountsStep, AccountsStutter
  <1> QED
    BY <1>1, <1>2, PTL DEF Spec

\* However many reports come at once, a run has one row, unless two first reports
\* of it did (sync_instance_create).
THEOREM OneRowPerRunHolds == Spec => []OneRowPerRun
  <1>1. SyncInv => OneRowPerRun
    BY DEF SyncInv, OneRowPerRun
  <1> QED
    BY <1>1, SyncSafe, PTL

\* The deleted rows are exactly those that confirmed requests named, whatever was
\* rolled back, reported or saved meanwhile (sync_instance_delete).
THEOREM DeletedAsConfirmedHolds == Spec => []DeletedAsConfirmed
  <1>1. SyncInv => DeletedAsConfirmed
    BY DEF SyncInv, DeletedAsConfirmed
  <1> QED
    BY <1>1, SyncSafe, PTL

\* No step removes a run that had ended, unless its end was reported during the
\* request (sync_instance_delete, sync_instance_create).
THEOREM EndedStaysListedHolds == Spec => EndedStaysListed
  <1>1. SyncInv /\ [Next]_vars => [S!KeepsEnded]_syncState
    BY PartsStep, SyncKeepsEnded
  <1> QED
    BY <1>1, SyncSafe, PTL DEF Spec, EndedStaysListed

\* The last page completes what there was on the first, for any page size and any
\* number of rows added in between (sync_instance_list, page_helper).
THEOREM BrowseSeesAllHolds == Spec => BrowseSeesAll
  <1>1. SyncInv /\ [Next]_vars => [S!LastPageCompletes]_syncState
    BY PartsStep, SyncLastPage
  <1> QED
    BY <1>1, SyncSafe, PTL DEF Spec, BrowseSeesAll

\* One user who was not removed, and one role, of each name, unless two requests
\* created it at once (create_user, create_role).
THEOREM OneRowPerNameHolds == Spec => []OneRowPerName
  <1>1. AccountInv => OneRowPerName
    BY AccountsAre DEF OneRowPerName
  <1> QED
    BY <1>1, AccountsSafe, PTL

\* Links and users are as the last request made them, and of one that broke off at
\* the links there is part of what it asked for and nothing of what there was before
\* (create_user, edit_user, remove_user, reset_pwd, edit_role).
THEOREM AccountsAsConfirmedHolds == Spec => []AccountsAsConfirmed
  <1>1. AccountInv => AccountsAsConfirmed
    BY AccountsAre DEF AccountsAsConfirmed
  <1> QED
    BY <1>1, AccountsSafe, PTL

=============================================================================
