--------------------------- MODULE JobRefresh_proofs ---------------------------
(***************************************************************************)
(* Proofs about JobRefresh, for any scripts, nodes, entries and dates:     *)
(* what a pass that ran to its end leaves in the job store, what a pass    *)
(* may remove, and that a back-fill fires once for a date.                 *)
(***************************************************************************)
EXTENDS JobRefresh, TLAPS

\* What the pass has read, and what that says of the rows nobody changed since.
Read ==
    pc \in {"scan", "remove"} =>
        /\ todo \subseteq DOMAIN read
        /\ \A s \in Script \ dirty :
              IF s \in DOMAIN read
              THEN row[s] = read[s] /\ row[s].status = "on"
              ELSE row[s].status # "on"

\* The row of s, as the pass read it, has an entry for key k.
Asked(s, k) ==
    /\ s \in DOMAIN read
    /\ k \in CronKey \cup FixKey => k \in read[s].args
    /\ k \in DynKey => Dyn \in read[s].args

\* The ids collected so far are asked for, and no cron id of a script that has
\* been worked through without a failure is left out.
Collected ==
    pc \in {"scan", "remove"} =>
        \A s \in Script : \A k \in Key :
            /\ <<s, k>> \in dbJobIds => Asked(s, k)
            /\ (/\ s \in DOMAIN read \ (todo \cup skipped)
                /\ k \in CronKey /\ k \in read[s].args) => <<s, k>> \in dbJobIds

\* Until the removals begin the store holds snapshot and collected ids only,
\* and all the cron ones; afterwards collected ids and those not yet removed.
Stored ==
    /\ pc = "rows" => dbJobIds = {}
    /\ pc \in {"rows", "scan"} =>
          \A s \in Script : \A k \in Key :
              /\ store[<<s, k>>] # NoJob => <<s, k>> \in snapshot \cup dbJobIds
              /\ (k \in CronKey /\ <<s, k>> \in snapshot \cup dbJobIds) =>
                    store[<<s, k>>] # NoJob
    /\ pc = "remove" =>
          /\ todo = {}
          /\ toRemove \cap dbJobIds = {}
          /\ \A s \in Script : \A k \in Key :
              /\ store[<<s, k>>] # NoJob => <<s, k>> \in toRemove \cup dbJobIds
              /\ (k \in CronKey /\ <<s, k>> \in dbJobIds) =>
                    store[<<s, k>>] # NoJob

\* A cron key names a cron job.
CronIsCron ==
    \A s \in Script : \A k \in CronKey :
        store[<<s, k>>] # NoJob => store[<<s, k>>].kind = "cron"

\* Fired back-fills have run dates that are past, and none of them is stored.
FiredIsOver ==
    /\ \A j \in JobId, d \in Date : <<j, d>> \in fired => d <= now
    /\ \A j \in JobId : store[j].kind = "date" => <<j, store[j].run>> \notin fired

Settled == SettledJobsMatchRows /\ SettledNoOrphans

IInv == /\ TypeOK /\ Read /\ Collected /\ Stored
        /\ CronIsCron /\ FiredIsOver /\ Settled

-----------------------------------------------------------------------------
\* What the job store can hold.
LEMMA JobFacts ==
  /\ \A ns \in SUBSET Node :
        CronJob(ns) \in Job /\ CronJob(ns) # NoJob /\ CronJob(ns).kind = "cron"
  /\ \A ns \in SUBSET Node : \A d \in Date :
        /\ DateJob(ns, d) \in Job /\ DateJob(ns, d) # NoJob
        /\ DateJob(ns, d).kind = "date" /\ DateJob(ns, d).run = d
  /\ NoJob.kind = "none"
  /\ \A jb \in Job : jb.kind = "date" => jb.run \in Date
<1>1. NoJob.kind = "none"
  BY DEF NoJob
<1>2. ASSUME NEW ns \in SUBSET Node
      PROVE  /\ CronJob(ns) \in Job /\ CronJob(ns).kind = "cron"
             /\ CronJob(ns) # NoJob
  <2>1. CronJob(ns) \in Job
    BY DEF Job
  <2>2. CronJob(ns).kind = "cron"
    BY DEF CronJob
  <2>3. QED
    BY <1>1, <2>1, <2>2
<1>3. ASSUME NEW ns \in SUBSET Node, NEW d \in Date
      PROVE  /\ DateJob(ns, d) \in Job /\ DateJob(ns, d) # NoJob
             /\ DateJob(ns, d).kind = "date" /\ DateJob(ns, d).run = d
  <2>1. DateJob(ns, d) \in Job
    BY DEF Job
  <2>2. DateJob(ns, d).kind = "date" /\ DateJob(ns, d).run = d
    BY DEF DateJob
  <2>3. QED
    BY <1>1, <2>1, <2>2
<1>4. ASSUME NEW jb \in Job, jb.kind = "date" PROVE jb.run \in Date
  <2>1. CASE \E ns \in SUBSET Node : jb = CronJob(ns)
    BY <1>2, <1>4, <2>1
  <2>2. CASE \E ns \in SUBSET Node, d \in Date : jb = DateJob(ns, d)
    BY <1>3, <2>2
  <2>3. QED
    BY <2>1, <2>2 DEF Job
<1>5. QED
  BY <1>1, <1>2, <1>3, <1>4

\* The empty queryset.
LEMMA NoRowsType == NoRows \in [{} -> Row] /\ DOMAIN NoRows = {}
  BY DEF NoRows

\* The invariant holds at the start.
LEMMA InitIInv == Init => IInv
<1> SUFFICES ASSUME Init PROVE IInv
  OBVIOUS
<1>1. TypeOK
  <2>1. row \in [Script -> Row]
    <3>1. \A as \in SUBSET Entry, d \in Date : InitRow(as, d) \in Row
      BY DEF InitRow, Row
    <3>2. {InitRow(as, d) : as \in SUBSET Entry, d \in Date} \subseteq Row
      BY <3>1
    <3>3. QED
      BY <3>2 DEF Init
  <2>2. \E S \in SUBSET Script : read \in [S -> Row]
    BY NoRowsType DEF Init
  <2>3. now \in Time /\ edits \in 0 .. MaxEdits
    BY BoundsAssumption DEF Init, Time
  <2>4. QED
    BY <2>1, <2>2, <2>3 DEF Init, TypeOK
<1>2. \A j \in JobId : store[j] = NoJob
  BY DEF Init
<1>3. QED
  BY <1>1, <1>2, JobFacts
  DEF Init, IInv, Read, Collected, Stored, CronIsCron, FiredIsOver, Settled,
      SettledJobsMatchRows, SettledNoOrphans, JobId, Key

-----------------------------------------------------------------------------
\* The start of a pass changes neither the store nor what was read.
LEMMA SnapshotStep == IInv /\ TakeSnapshot => IInv'
<1> SUFFICES ASSUME IInv, TakeSnapshot PROVE IInv'
  OBVIOUS
<1>1. /\ pc = "sleep" /\ pc' = "rows"
      /\ snapshot' = Ids(store) /\ dbJobIds' = {}
      /\ UNCHANGED <<row, task, nodes, edits, now, store, fired, read, todo,
                     toRemove, dirty, moved, skipped, settled>>
  BY DEF TakeSnapshot, tables, history
<1>2. TypeOK'
  BY <1>1 DEF IInv, TypeOK, Ids
<1>3. Stored'
  BY <1>1 DEF Stored, Ids, JobId, Key
<1>4. Read' /\ Collected' /\ CronIsCron' /\ FiredIsOver' /\ Settled'
  BY <1>1 DEF IInv, Read, Collected, CronIsCron, FiredIsOver, Settled,
              SettledJobsMatchRows, SettledNoOrphans
<1>5. QED
  BY <1>2, <1>3, <1>4 DEF IInv

\* Reading the rows: nothing is dirty any more, and nothing is collected yet.
LEMMA ReadStep == IInv /\ ReadRows => IInv'
<1> SUFFICES ASSUME IInv, ReadRows PROVE IInv'
  OBVIOUS
<1>1. /\ pc = "rows" /\ pc' = "scan"
      /\ todo' = {s \in Script : row[s].status = "on"}
      /\ read' = [s \in todo' |-> row[s]]
      /\ dirty' = {} /\ skipped' = {}
      /\ UNCHANGED <<row, task, nodes, edits, now, store, fired, snapshot,
                     dbJobIds, toRemove, moved, settled>>
  BY DEF ReadRows, tables
<1>2. TypeOK'
  <2>1. todo' \in SUBSET Script /\ read' \in [todo' -> Row]
    BY <1>1 DEF IInv, TypeOK
  <2>2. QED
    BY <1>1, <2>1 DEF IInv, TypeOK
<1>3. Read'
  BY <1>1 DEF Read
<1>4. Stored' /\ Collected'
  BY <1>1 DEF IInv, Stored, Collected
<1>5. CronIsCron' /\ FiredIsOver' /\ Settled'
  BY <1>1 DEF IInv, CronIsCron, FiredIsOver, Settled, SettledJobsMatchRows,
              SettledNoOrphans
<1>6. QED
  BY <1>2, <1>3, <1>4, <1>5 DEF IInv

\* The ids to remove are those of the snapshot that no row asked for.
LEMMA EndScanStep == IInv /\ EndScan => IInv'
<1> SUFFICES ASSUME IInv, EndScan PROVE IInv'
  OBVIOUS
<1>1. /\ pc = "scan" /\ pc' = "remove" /\ todo = {}
      /\ toRemove' = snapshot \ dbJobIds
      /\ UNCHANGED <<row, task, nodes, edits, now, store, fired, snapshot, read,
                     todo, dbJobIds, dirty, moved, skipped, settled>>
  BY DEF EndScan, tables, history
<1>2. TypeOK'
  BY <1>1 DEF IInv, TypeOK
<1>3. Stored'
  BY <1>1 DEF IInv, Stored
<1>4. Read' /\ Collected' /\ CronIsCron' /\ FiredIsOver' /\ Settled'
  BY <1>1 DEF IInv, Read, Collected, Asked, CronIsCron, FiredIsOver, Settled,
              SettledJobsMatchRows, SettledNoOrphans
<1>5. QED
  BY <1>2, <1>3, <1>4 DEF IInv

\* The ids a script contributes.
LEMMA IdsOfScript ==
  ASSUME IInv, pc = "scan", NEW s \in todo, NEW q \in SUBSET DynKey,
         NEW f, NEW u \in Script, NEW k \in Key
  PROVE  /\ <<u, k>> \in IdsOf(s, read[s].args, q, f) => u = s /\ Asked(u, k)
         /\ (u = s /\ k \in CronKey \ f /\ k \in read[s].args) =>
               <<u, k>> \in IdsOf(s, read[s].args, q, f)
<1>1. s \in DOMAIN read
  BY DEF IInv, Read
<1>2. QED
  BY <1>1, KeysAssumption DEF IdsOf, Asked, Key

\* Adding jobs for a script that was read: cron keys get cron jobs, and a
\* back-fill job has a run date that no job has fired for.
LEMMA Adding ==
  ASSUME IInv, NEW s \in DOMAIN read, NEW ids, store' = StoreWith(s, ids),
         UNCHANGED <<now, fired>>
  PROVE  /\ store' \in [JobId -> Job \cup {NoJob}]
         /\ CronIsCron' /\ FiredIsOver'
         /\ \A j \in JobId :
               store'[j] # NoJob <=>
                  \/ store[j] # NoJob
                  \/ j \in ids /\ IsAdded(s, j)
<1>1. read[s] \in Row
  BY DEF IInv, TypeOK
<1>2. NodeList(read[s]) \in SUBSET Node /\ read[s].fixDate \in Date
  BY <1>1 DEF IInv, TypeOK, NodeList, Row
<1>3. \A j \in JobId :
        /\ NewJob(s, j) \in Job /\ NewJob(s, j) # NoJob
        /\ NewJob(s, j).kind = "date" =>
              j[2] \in FixKey /\ NewJob(s, j).run = read[s].fixDate
        /\ j[2] \notin FixKey => NewJob(s, j).kind = "cron"
  BY <1>2, JobFacts DEF NewJob
<1>4. \A j \in JobId :
        store'[j] = IF j \in ids /\ IsAdded(s, j) /\ store[j] = NoJob
                    THEN NewJob(s, j) ELSE store[j]
  BY DEF StoreWith
<1>5. store' \in [JobId -> Job \cup {NoJob}]
  BY <1>3 DEF IInv, TypeOK, StoreWith
<1>6. CronIsCron'
  <2> SUFFICES ASSUME NEW u \in Script, NEW k \in CronKey,
                      store'[<<u, k>>] # NoJob
               PROVE  store'[<<u, k>>].kind = "cron"
    BY DEF CronIsCron
  <2>1. <<u, k>> \in JobId /\ k \notin FixKey
    BY KeysAssumption DEF JobId, Key
  <2>2. QED
    BY <1>3, <1>4, <2>1 DEF IInv, CronIsCron
<1>7. FiredIsOver'
  <2>1. ASSUME NEW j \in JobId, store'[j].kind = "date"
        PROVE  <<j, store'[j].run>> \notin fired
    <3>1. CASE store'[j] = store[j]
      BY <2>1, <3>1 DEF IInv, FiredIsOver
    <3>2. CASE store'[j] # store[j]
      <4>1. store'[j] = NewJob(s, j) /\ IsAdded(s, j)
        BY <1>4, <3>2
      <4>2. store'[j].run = read[s].fixDate /\ read[s].fixDate > now
        BY <1>3, <2>1, <4>1 DEF IsAdded
      <4>3. read[s].fixDate \in Nat
        BY <1>2, BoundsAssumption
      <4>4. now \in Nat
        BY BoundsAssumption DEF IInv, TypeOK, Time
      <4>5. QED
        BY <1>2, <4>2, <4>3, <4>4 DEF IInv, FiredIsOver
    <3>3. QED
      BY <3>1, <3>2
  <2>2. QED
    BY <2>1 DEF IInv, FiredIsOver
<1>8. QED
  BY <1>3, <1>4, <1>5, <1>6, <1>7

\* Working through one script.
LEMMA ScanStep == ASSUME NEW s \in Script PROVE IInv /\ ScanScript(s) => IInv'
<1> SUFFICES ASSUME IInv, ScanScript(s) PROVE IInv'
  OBVIOUS
<1> DEFINE ids(q, f) == IdsOf(s, read[s].args, q, f)
<1>1. PICK q \in SUBSET DynKey, f \in SUBSET (read[s].args \cap CronKey) :
        /\ dbJobIds' = dbJobIds \cup ids(q, f)
        /\ skipped' = skipped \cup {u \in {s} : f # {}}
        /\ store' = StoreWith(s, ids(q, f))
  BY DEF ScanScript
<1>2. /\ pc = "scan" /\ s \in todo
      /\ todo' = todo \ {s}
      /\ moved' = moved \ {s}
      /\ UNCHANGED <<row, task, nodes, edits, now, fired, pc, snapshot, read,
                     toRemove, dirty, settled>>
  BY DEF ScanScript, tables
<1>3. s \in DOMAIN read
  BY <1>2 DEF IInv, Read
<1>4. /\ store' \in [JobId -> Job \cup {NoJob}]
      /\ CronIsCron' /\ FiredIsOver'
      /\ \A j \in JobId :
            store'[j] # NoJob <=>
               \/ store[j] # NoJob
               \/ j \in ids(q, f) /\ IsAdded(s, j)
  BY <1>1, <1>2, <1>3, Adding
<1>5. \A u \in Script : \A k \in Key :
        /\ <<u, k>> \in JobId
        /\ <<u, k>> \in ids(q, f) => u = s /\ Asked(u, k)
        /\ (u = s /\ k \in CronKey \ f /\ k \in read[s].args) =>
              <<u, k>> \in ids(q, f)
  BY <1>2, IdsOfScript DEF JobId
<1>6. ids(q, f) \subseteq JobId
  BY DEF IdsOf, JobId, Key
<1> HIDE DEF ids
<1>7. TypeOK'
  <2>1. dbJobIds' \subseteq JobId
    BY <1>1, <1>6 DEF IInv, TypeOK
  <2>2. skipped' \subseteq Script
    BY <1>1 DEF IInv, TypeOK
  <2>3. QED
    BY <1>2, <1>4, <2>1, <2>2 DEF IInv, TypeOK
<1>8. Read'
  BY <1>2 DEF IInv, Read
<1>9. Collected'
  BY <1>1, <1>2, <1>5 DEF IInv, Collected, Asked
<1>10. Stored'
  <2>1. ASSUME NEW u \in Script, NEW k \in Key
        PROVE  /\ store'[<<u, k>>] # NoJob => <<u, k>> \in snapshot \cup dbJobIds'
               /\ (k \in CronKey /\ <<u, k>> \in snapshot \cup dbJobIds') =>
                     store'[<<u, k>>] # NoJob
    <3>1. /\ <<u, k>> \in JobId /\ <<u, k>>[2] = k
          /\ store[<<u, k>>] # NoJob => <<u, k>> \in snapshot \cup dbJobIds
          /\ (k \in CronKey /\ <<u, k>> \in snapshot \cup dbJobIds) =>
                store[<<u, k>>] # NoJob
      BY <1>2, <1>5 DEF IInv, Stored
    <3>2. k \in CronKey /\ <<u, k>> \notin snapshot => IsAdded(s, <<u, k>>)
      BY <3>1, KeysAssumption DEF IsAdded
    <3>3. QED
      BY <1>1, <1>4, <3>1, <3>2
  <2>2. QED
    BY <1>2, <2>1 DEF Stored
<1>11. Settled'
  BY <1>2 DEF Settled, SettledJobsMatchRows, SettledNoOrphans
<1>12. QED
  BY <1>4, <1>7, <1>8, <1>9, <1>10, <1>11 DEF IInv

-----------------------------------------------------------------------------
\* A pass that is broken off leaves a store that is typed as the jobs are.
LEMMA AbortStep ==
  ASSUME IInv, LeavePass, UNCHANGED <<tables, now, fired, dirty, moved, skipped>>,
         settled' = FALSE,
         store' \in [JobId -> Job \cup {NoJob}], CronIsCron', FiredIsOver'
  PROVE  IInv'
<1>1. /\ pc' = "sleep" /\ snapshot' = {} /\ read' = NoRows /\ todo' = {}
      /\ dbJobIds' = {} /\ toRemove' = {}
      /\ UNCHANGED <<row, task, nodes, edits, now, fired, dirty, moved, skipped>>
  BY DEF LeavePass, tables
<1>2. TypeOK'
  <2>1. \E S \in SUBSET Script : read' \in [S -> Row]
    BY <1>1, NoRowsType
  <2>2. QED
    BY <1>1, <2>1 DEF IInv, TypeOK
<1>3. Read' /\ Collected' /\ Stored'
  BY <1>1 DEF IInv, Read, Collected, Stored
<1>4. Settled'
  BY DEF Settled, SettledJobsMatchRows, SettledNoOrphans
<1>5. QED
  BY <1>2, <1>3, <1>4 DEF IInv

\* A pass that ends leaves the store as it is.
LEMMA EndStep ==
  ASSUME IInv, LeavePass, UNCHANGED <<tables, now, store, fired, dirty, moved, skipped>>,
         settled' \in BOOLEAN,
         settled' => pc = "remove" /\ toRemove = {}
  PROVE  IInv'
<1>1. /\ pc' = "sleep" /\ snapshot' = {} /\ read' = NoRows /\ todo' = {}
      /\ dbJobIds' = {} /\ toRemove' = {}
      /\ UNCHANGED <<row, task, nodes, edits, now, store, fired, dirty, moved, skipped>>
  BY DEF LeavePass, tables
<1>2. TypeOK'
  <2>1. \E S \in SUBSET Script : read' \in [S -> Row]
    BY <1>1, NoRowsType
  <2>2. QED
    BY <1>1, <2>1 DEF IInv, TypeOK
<1>3. Read' /\ Collected' /\ Stored' /\ CronIsCron' /\ FiredIsOver'
  BY <1>1 DEF IInv, Read, Collected, Stored, CronIsCron, FiredIsOver
<1>4. ASSUME settled', NEW s \in Script \ dirty, NEW k \in Key
      PROVE  /\ store[<<s, k>>] # NoJob =>
                   /\ row[s].status = "on"
                   /\ k \in CronKey \cup FixKey => k \in row[s].args
                   /\ k \in DynKey => Dyn \in row[s].args
             /\ (/\ s \notin skipped /\ k \in CronKey
                 /\ row[s].status = "on" /\ k \in row[s].args) =>
                   store[<<s, k>>] # NoJob
  <2>1. pc = "remove" /\ toRemove = {} /\ todo = {}
    BY <1>4 DEF IInv, Stored
  <2>2. IF s \in DOMAIN read THEN row[s] = read[s] /\ row[s].status = "on"
                             ELSE row[s].status # "on"
    BY <2>1 DEF IInv, Read
  <2>3. /\ store[<<s, k>>] # NoJob => <<s, k>> \in dbJobIds
        /\ (k \in CronKey /\ <<s, k>> \in dbJobIds) => store[<<s, k>>] # NoJob
    BY <2>1 DEF IInv, Stored
  <2>4. /\ <<s, k>> \in dbJobIds => Asked(s, k)
        /\ (/\ s \in DOMAIN read \ skipped
            /\ k \in CronKey /\ k \in read[s].args) => <<s, k>> \in dbJobIds
    BY <2>1 DEF IInv, Collected
  <2>5. QED
    BY <2>2, <2>3, <2>4 DEF Asked
<1>5. SettledJobsMatchRows'
  BY <1>1, <1>4 DEF SettledJobsMatchRows, StoredOf, WantedCron, Key
<1>6. SettledNoOrphans'
  BY <1>1, <1>4 DEF SettledNoOrphans, StoredOf, Key
<1>7. QED
  BY <1>2, <1>3, <1>5, <1>6 DEF IInv, Settled

\* One removal.
LEMMA RemoveStep == ASSUME NEW j \in JobId PROVE IInv /\ RemoveJob(j) => IInv'
<1> SUFFICES ASSUME IInv, RemoveJob(j) PROVE IInv'
  OBVIOUS
<1>1. /\ pc = "remove" /\ j \in toRemove
      /\ store' = [store EXCEPT ![j] = NoJob]
      /\ toRemove' = toRemove \ {j}
      /\ UNCHANGED <<row, task, nodes, edits, now, fired, pc, snapshot, read,
                     todo, dbJobIds, dirty, moved, skipped, settled>>
  BY DEF RemoveJob, tables, history
<1>2. \A i \in JobId : store'[i] = IF i = j THEN NoJob ELSE store[i]
  BY <1>1 DEF IInv, TypeOK
<1>3. \A s \in Script : \A k \in Key : <<s, k>> \in JobId
  BY DEF JobId
<1>4. TypeOK'
  BY <1>1 DEF IInv, TypeOK
<1>5. Read' /\ Collected'
  BY <1>1 DEF IInv, Read, Collected, Asked
<1>6. Stored'
  BY <1>1, <1>2, <1>3 DEF IInv, Stored
<1>7. CronIsCron'
  BY <1>2, <1>3 DEF IInv, CronIsCron, Key
<1>8. FiredIsOver'
  BY <1>1, <1>2, JobFacts DEF IInv, FiredIsOver
<1>9. Settled'
  BY <1>1 DEF Settled, SettledJobsMatchRows, SettledNoOrphans
<1>10. QED
  BY <1>4, <1>5, <1>6, <1>7, <1>8, <1>9 DEF IInv

\* A date job that leaves the store, and is recorded if it runs.
LEMMA DateStep ==
  ASSUME NEW j \in JobId, IInv, FireDateJob(j) \/ MissDateJob(j)
  PROVE  IInv'
<1> DEFINE d == store[j].run
<1>1. /\ Due(j)
      /\ store' = [store EXCEPT ![j] = NoJob]
      /\ fired' = fired \/ fired' = fired \cup {<<j, d>>}
      /\ UNCHANGED <<row, task, nodes, edits, now, pc, snapshot, read, todo,
                     dbJobIds, toRemove, dirty, moved, skipped, settled>>
  BY DEF FireDateJob, MissDateJob, tables, pass, history
<1>2. store[j] \in Job /\ d \in Date /\ d <= now /\ store[j].kind = "date"
  BY <1>1, JobFacts DEF Due, IInv, TypeOK
<1>3. \A i \in JobId : store'[i] = IF i = j THEN NoJob ELSE store[i]
  BY <1>1 DEF IInv, TypeOK
<1>4. \A s \in Script : \A k \in Key : <<s, k>> \in JobId
  BY DEF JobId
<1>5. \A s \in Script : \A k \in CronKey : <<s, k>> # j
  <2> SUFFICES ASSUME NEW s \in Script, NEW k \in CronKey, <<s, k>> = j
               PROVE  FALSE
    OBVIOUS
  <2>1. store[<<s, k>>].kind = "date" /\ store[<<s, k>>] # NoJob
    BY <1>2, JobFacts
  <2>2. QED
    BY <2>1 DEF IInv, CronIsCron
<1> HIDE DEF d
<1>6. TypeOK'
  BY <1>1, <1>2 DEF IInv, TypeOK
<1>7. Read' /\ Collected'
  BY <1>1 DEF IInv, Read, Collected, Asked
<1>8. Stored'
  BY <1>1, <1>3, <1>4, <1>5 DEF IInv, Stored
<1>9. CronIsCron'
  BY <1>3, <1>4 DEF IInv, CronIsCron, Key
<1>10. FiredIsOver'
  <2>1. ASSUME NEW i \in JobId, store'[i].kind = "date"
        PROVE  <<i, store'[i].run>> \notin fired'
    <3>1. i # j /\ store'[i] = store[i]
      BY <1>3, <2>1, JobFacts
    <3>2. QED
      BY <1>1, <2>1, <3>1 DEF IInv, FiredIsOver
  <2>2. QED
    BY <1>1, <1>2, <2>1 DEF IInv, FiredIsOver
<1>11. Settled'
  <2>1. \A s \in Script : StoredOf(s, CronKey)' = StoredOf(s, CronKey)
    BY <1>3, <1>4, <1>5 DEF StoredOf, Key
  <2>2. \A s \in Script : /\ StoredOf(s, FixKey)' \subseteq StoredOf(s, FixKey)
                          /\ StoredOf(s, DynKey)' \subseteq StoredOf(s, DynKey)
    BY <1>3, <1>4 DEF StoredOf, Key
  <2>3. SettledJobsMatchRows'
    BY <1>1, <2>1 DEF IInv, Settled, SettledJobsMatchRows, WantedCron
  <2>4. SettledNoOrphans'
    BY <1>1, <2>2 DEF IInv, Settled, SettledNoOrphans
  <2>5. QED
    BY <2>3, <2>4 DEF Settled
<1>12. QED
  BY <1>6, <1>7, <1>8, <1>9, <1>10, <1>11 DEF IInv

\* A request that changes rows makes them dirty.
LEMMA ChangeStep ==
  ASSUME IInv, NEW S \in SUBSET Script, NEW r, ChangeRows(S, r),
         \A s \in S : r[s] \in Row
  PROVE  IInv'
<1>1. /\ edits < MaxEdits /\ edits' = edits + 1
      /\ row' = [s \in Script |-> IF s \in S THEN r[s] ELSE row[s]]
      /\ dirty' = dirty \cup S
      /\ UNCHANGED <<task, nodes, now, store, fired, pc, snapshot, read, todo,
                     dbJobIds, toRemove, moved, skipped, settled>>
  BY DEF ChangeRows, pass
<1>2. \A s \in Script \ dirty' : row'[s] = row[s] /\ s \in Script \ dirty
  BY <1>1
<1>3. TypeOK'
  <2>1. row' \in [Script -> Row]
    BY <1>1 DEF IInv, TypeOK
  <2>2. edits' \in 0 .. MaxEdits
    BY <1>1, BoundsAssumption DEF IInv, TypeOK
  <2>3. QED
    BY <1>1, <2>1, <2>2 DEF IInv, TypeOK
<1>4. Read' /\ Collected' /\ Stored' /\ CronIsCron' /\ FiredIsOver'
  BY <1>1, <1>2 DEF IInv, Read, Collected, Asked, Stored, CronIsCron, FiredIsOver
<1>5. SettledJobsMatchRows'
  BY <1>1, <1>2
  DEF IInv, Settled, SettledJobsMatchRows, StoredOf, WantedCron
<1>6. SettledNoOrphans'
  BY <1>1, <1>2 DEF IInv, Settled, SettledNoOrphans, StoredOf
<1>7. QED
  BY <1>3, <1>4, <1>5, <1>6 DEF IInv, Settled

\* Every step keeps the invariant.
LEMMA NextIInv == IInv /\ [Next]_vars => IInv'
<1> SUFFICES ASSUME IInv, [Next]_vars PROVE IInv'
  OBVIOUS
<1>1. ASSUME NEW s \in Script, ScanScript(s) \/ AbortScan(s) PROVE IInv'
  <2>1. CASE ScanScript(s)
    BY <2>1, ScanStep
  <2>2. CASE AbortScan(s)
    <3>1. s \in DOMAIN read
      BY <2>2 DEF AbortScan, IInv, Read
    <3>2. PICK ids : store' = StoreWith(s, ids)
      BY <2>2 DEF AbortScan
    <3>3. /\ LeavePass /\ settled' = FALSE
          /\ UNCHANGED <<tables, now, fired, dirty, moved, skipped>>
      BY <2>2 DEF AbortScan
    <3>4. store' \in [JobId -> Job \cup {NoJob}] /\ CronIsCron' /\ FiredIsOver'
      BY <3>1, <3>2, <3>3, Adding
    <3>5. QED
      BY <3>3, <3>4, AbortStep
  <2>3. QED
    BY <1>1, <2>1, <2>2
<1>2. ASSUME NEW j \in JobId, RemoveJob(j) \/ AbortRemove(j) PROVE IInv'
  <2>1. CASE RemoveJob(j)
    BY <2>1, RemoveStep
  <2>2. CASE AbortRemove(j)
    BY <2>2, EndStep DEF AbortRemove
  <2>3. QED
    BY <1>2, <2>1, <2>2
<1>3. CASE EndPass
  BY <1>3, EndStep DEF EndPass
<1>4. CASE Tick
  <2>1. /\ now < MaxTime /\ now' = now + 1
        /\ UNCHANGED <<row, task, nodes, edits, store, fired, pc, snapshot, read,
                       todo, dbJobIds, toRemove, dirty, moved, skipped, settled>>
    BY <1>4 DEF Tick, tables, pass, history
  <2>2. now \in 0 .. MaxTime /\ MaxTime \in Nat /\ Date \subseteq Nat
    BY BoundsAssumption DEF IInv, TypeOK, Time
  <2>3. TypeOK'
    BY <2>1, <2>2 DEF IInv, TypeOK, Time
  <2>4. FiredIsOver'
    <3>1. ASSUME NEW j \in JobId, NEW d \in Date, <<j, d>> \in fired
          PROVE  d <= now + 1
      <4>1. d <= now /\ d \in Nat /\ now \in Nat
        BY <2>2, <3>1 DEF IInv, FiredIsOver
      <4>2. QED
        BY <4>1
    <3>2. QED
      BY <2>1, <3>1 DEF IInv, FiredIsOver
  <2>5. Read' /\ Collected' /\ Stored' /\ CronIsCron' /\ Settled'
    BY <2>1 DEF IInv, Read, Collected, Asked, Stored, CronIsCron, Settled,
                SettledJobsMatchRows, SettledNoOrphans, StoredOf, WantedCron
  <2>6. QED
    BY <2>3, <2>4, <2>5 DEF IInv
<1>5. ASSUME NEW S \in SUBSET Script, NEW hs \in SUBSET Node,
             NEW as \in SUBSET Entry, NEW d \in Date, NEW e \in BOOLEAN,
             EditCfg(S, hs, as, d, e)
      PROVE  IInv'
  <2> DEFINE live == {s \in S : row[s].status # "gone"}
             r == [s \in Script |->
                     [row[s] EXCEPT !.hosts = hs, !.args = as, !.fixDate = d,
                                    !.wellFormed = e]]
  <2>1. ChangeRows(live, r) /\ live \in SUBSET Script
    BY <1>5 DEF EditCfg
  <2>2. \A s \in live : r[s] \in Row
    BY DEF IInv, TypeOK, Row
  <2> HIDE DEF live, r
  <2>3. QED
    BY <2>1, <2>2, ChangeStep
<1>6. ASSUME NEW s \in Script, NEW st \in {"on", "off", "gone"},
             ChangeRows({s}, [row EXCEPT ![s].status = st])
      PROVE  IInv'
  <2> DEFINE r == [row EXCEPT ![s].status = st]
  <2>1. r[s] \in Row
    BY DEF IInv, TypeOK, Row
  <2> HIDE DEF r
  <2>2. ChangeRows({s}, r)
    BY <1>6 DEF r
  <2>3. QED
    BY <2>1, <2>2, ChangeStep
<1>7. ASSUME NEW ns \in SUBSET nodes, TaskUpdate(ns) PROVE IInv'
  <2>1. /\ edits < MaxEdits /\ edits' = edits + 1 /\ task' = ns
        /\ moved' \subseteq moved \cup Script
        /\ UNCHANGED <<row, nodes, now, store, fired, pc, snapshot, read, todo,
                       dbJobIds, toRemove, dirty, skipped, settled>>
    BY <1>7 DEF TaskUpdate, pass
  <2>2. TypeOK'
    BY <2>1, BoundsAssumption DEF IInv, TypeOK
  <2>3. QED
    BY <2>1, <2>2
    DEF IInv, Read, Collected, Asked, Stored, CronIsCron, FiredIsOver, Settled,
        SettledJobsMatchRows, SettledNoOrphans, StoredOf, WantedCron
<1>8. ASSUME NEW n \in Node, NodeRemove(n) PROVE IInv'
  <2>1. /\ edits < MaxEdits /\ edits' = edits + 1 /\ nodes' = nodes \ {n}
        /\ UNCHANGED <<row, task, now, store, fired, pc, snapshot, read, todo,
                       dbJobIds, toRemove, dirty, moved, skipped, settled>>
    BY <1>8 DEF NodeRemove, pass, history
  <2>2. TypeOK'
    BY <2>1, BoundsAssumption DEF IInv, TypeOK
  <2>3. QED
    BY <2>1, <2>2
    DEF IInv, Read, Collected, Asked, Stored, CronIsCron, FiredIsOver, Settled,
        SettledJobsMatchRows, SettledNoOrphans, StoredOf, WantedCron
<1>9. CASE UNCHANGED vars
  <2>1. UNCHANGED <<row, task, nodes, edits, now, store, fired, pc, snapshot,
                    read, todo, dbJobIds, toRemove, dirty, moved, skipped, settled>>
    BY <1>9 DEF vars, tables, pass, history
  <2>2. QED
    BY <2>1
    DEF IInv, TypeOK, Read, Collected, Asked, Stored, CronIsCron, FiredIsOver,
        Settled, SettledJobsMatchRows, SettledNoOrphans, StoredOf, WantedCron
<1>10. CASE Request
  <2>1. ASSUME NEW s \in Script, NEW st \in {"on", "off"}, ControlScript(s, st)
        PROVE  IInv'
    BY <1>6, <2>1 DEF ControlScript
  <2>2. ASSUME NEW s \in Script, ScriptRemove(s) PROVE IInv'
    BY <1>6, <2>2 DEF ScriptRemove
  <2>3. QED
    BY <1>5, <1>7, <1>8, <1>10, <2>1, <2>2 DEF Request
<1>11. CASE Refresh
  BY <1>1, <1>2, <1>3, <1>11, SnapshotStep, ReadStep, EndScanStep DEF Refresh
<1>12. CASE Scheduler
  BY <1>12, DateStep DEF Scheduler
<1>13. QED
  BY <1>4, <1>9, <1>10, <1>11, <1>12 DEF Next

\* The invariant holds in every reachable state.
LEMMA SpecIInv == Spec => []IInv
  BY InitIInv, NextIInv, PTL DEF Spec

-----------------------------------------------------------------------------
\* Type correctness of the tables, the store and the pass.
THEOREM TypeCorrect == Spec => []TypeOK
  BY SpecIInv, PTL DEF IInv

\* After a pass that ran to its end, a script unchanged since it was read has
\* exactly the cron jobs its row asks for, or fewer if the pass failed on it.
THEOREM JobsMatchRows == Spec => []SettledJobsMatchRows
  BY SpecIInv, PTL DEF IInv, Settled

\* In the same states no back-fill or dynamic job is left that has no entry.
THEOREM NoOrphans == Spec => []SettledNoOrphans
  BY SpecIInv, PTL DEF IInv, Settled

\* A cron job leaves the store only in the removals of a pass, and only if the
\* row the pass read does not ask for it or the pass failed on that script.
THEOREM OnlyUnwantedRemoved == Spec => RemovesOnlyUnwanted
<1> DEFINE Unwanted(s, k) == /\ pc = "remove"
                             /\ s \in DOMAIN read /\ k \in read[s].args =>
                                   s \in skipped
<1>1. ASSUME IInv, Next, NEW s \in Script, NEW k \in CronKey,
             store[<<s, k>>] # NoJob, store'[<<s, k>>] = NoJob
      PROVE  Unwanted(s, k)
  <2>1. <<s, k>> \in JobId /\ k \in Key
    BY DEF JobId, Key
  <2>2. ASSUME NEW j \in JobId, RemoveJob(j) PROVE Unwanted(s, k)
    <3>1. j = <<s, k>> /\ pc = "remove" /\ j \in toRemove
      BY <1>1, <2>1, <2>2 DEF RemoveJob, IInv, TypeOK
    <3>2. <<s, k>> \notin dbJobIds /\ todo = {}
      BY <1>1, <3>1 DEF IInv, Stored
    <3>3. QED
      BY <1>1, <2>1, <3>1, <3>2 DEF IInv, Collected
  <2>3. ASSUME NEW j \in JobId, FireDateJob(j) \/ MissDateJob(j) PROVE FALSE
    <3>1. j = <<s, k>> /\ store[j].kind = "date"
      BY <1>1, <2>1, <2>3 DEF FireDateJob, MissDateJob, Due, IInv, TypeOK
    <3>2. QED
      BY <1>1, <3>1 DEF IInv, CronIsCron
  <2>4. ASSUME NEW u \in Script, ScanScript(u) PROVE FALSE
    <3>1. PICK ids : store' = StoreWith(u, ids)
      BY <2>4 DEF ScanScript
    <3>2. store'[<<s, k>>] = store[<<s, k>>]
      BY <1>1, <2>1, <3>1 DEF StoreWith
    <3>3. QED
      BY <1>1, <3>2
  <2>5. CASE UNCHANGED store
    BY <1>1, <2>5
  <2>6. CASE Tick
    BY <2>5, <2>6 DEF Tick
  <2>7. CASE Request
    BY <2>5, <2>7
    DEF Request, EditCfg, ControlScript, ScriptRemove, ChangeRows, TaskUpdate,
        NodeRemove
  <2>8. CASE Refresh
    <3>1. ASSUME TakeSnapshot \/ ReadRows \/ EndScan \/ EndPass
          PROVE  Unwanted(s, k)
      BY <2>5, <3>1 DEF TakeSnapshot, ReadRows, EndScan, EndPass
    <3>2. ASSUME NEW u \in Script, AbortScan(u) PROVE Unwanted(s, k)
      <4>1. PICK ids : store' = StoreWith(u, ids)
        BY <3>2 DEF AbortScan
      <4>2. store'[<<s, k>>] = store[<<s, k>>]
        BY <1>1, <2>1, <4>1 DEF StoreWith
      <4>3. QED
        BY <1>1, <4>2
    <3>3. ASSUME NEW j \in JobId, AbortRemove(j) PROVE Unwanted(s, k)
      BY <2>5, <3>3 DEF AbortRemove
    <3>4. QED
      BY <2>2, <2>4, <2>8, <3>1, <3>2, <3>3 DEF Refresh
  <2>9. QED
    BY <1>1, <2>3, <2>6, <2>7, <2>8 DEF Next, Scheduler
<1>2. IInv /\ [Next]_vars =>
        [\A s \in Script : \A k \in CronKey :
           (store[<<s, k>>] # NoJob /\ store'[<<s, k>>] = NoJob) =>
               /\ pc = "remove"
               /\ s \in DOMAIN read /\ k \in read[s].args => s \in skipped]_vars
  BY <1>1
<1>3. QED
  BY <1>2, SpecIInv, PTL DEF Spec, RemovesOnlyUnwanted

\* A back-fill runs at most once for one run date.
THEOREM FixOnce == Spec => FixRunsOnce
<1>1. IInv /\ [Next]_vars =>
        [\A j \in JobId : FireDateJob(j) => <<j, store[j].run>> \notin fired]_vars
  BY DEF IInv, FiredIsOver, FireDateJob, Due
<1>2. QED
  BY <1>1, SpecIInv, PTL DEF Spec, FixRunsOnce
================================================================================
