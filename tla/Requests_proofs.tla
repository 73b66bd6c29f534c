--------------------------- MODULE Requests_proofs ---------------------------
(***************************************************************************)
(* Proofs about the rows of scripts (ScriptRows), and of tasks, projects,  *)
(* nodes and deployments (Catalogue), for any threads, names and bounds.   *)
(***************************************************************************)
EXTENDS DataRequests_proofs, WellFoundedInduction

-----------------------------------------------------------------------------
(* ScriptRows: what a request holds between two statements.                *)

ScriptRow == [name : SpiderName, cfg : Cfg \cup {R!NoCfg}, off : BOOLEAN, path : BOOLEAN]

Change == [what : {"cfg"}, to : Cfg] \cup [what : {"off"}, to : BOOLEAN]
              \cup [what : {"path", "job"}]

MakeReq == [op : {"create"}, name : SpiderName]
RowReq == [op : {"save"}, id : Nat, row : ScriptRow, set : Change, left : SUBSET Nat]
EachReq == [op : {"each"}, set : Change, left : SUBSET Nat]
ScriptReq == {R!None} \cup MakeReq \cup RowReq \cup EachReq

Saving(t) == rreq[t].op = "save"

ScriptTypes ==
    /\ lastId \in 1 .. MaxRow
    /\ scripts \in [DOMAIN scripts -> ScriptRow] /\ DOMAIN scripts \subseteq 1 .. lastId
    /\ wanted \in [DOMAIN wanted -> ScriptRow]
    /\ rreq \in [RowThread -> ScriptReq]
    /\ \A t \in RowThread : Saving(t) => rreq[t].id \in 1 .. lastId
    /\ rasked \in 0 .. MaxRowOps
    /\ late \subseteq {t \in RowThread : Saving(t)}

\* A row a thread holds is as it is in the table, but for what others have done to
\* it since, and its name never changes, even when it is removed.
HeldRows ==
    \A t \in RowThread : Saving(t) =>
        /\ t \notin late => rreq[t].id \in DOMAIN scripts /\ rreq[t].row = scripts[rreq[t].id]
        /\ rreq[t].id \in DOMAIN scripts => rreq[t].row.name = scripts[rreq[t].id].name
        /\ \A u \in RowThread : Saving(u) /\ rreq[u].id = rreq[t].id =>
              rreq[u].row.name = rreq[t].row.name

\* A row that is going to be made is the only one of its name, but for those that a
\* late save has brought back.
Makings ==
    \A t \in RowThread :
        (rreq[t].op = "create" /\ rreq[t].name \notin doubled) =>
            /\ R!Named(rreq[t].name) \subseteq spoiled
            /\ \A u \in RowThread \ {t} :
                  rreq[u].op = "create" => rreq[u].name # rreq[t].name

ScriptInv ==
    /\ ScriptTypes
    /\ HeldRows
    /\ Makings
    /\ R!ChangesKept
    /\ R!OneRowPerScript

LEMMA ScriptReqOps ==
  ASSUME NEW r \in ScriptReq
  PROVE  /\ r.op = "create" => r \in MakeReq
         /\ r.op = "save" => r \in RowReq
         /\ r.op = "each" => r \in EachReq
  <1>1. /\ r \in MakeReq => r.op = "create"
        /\ r \in RowReq => r.op = "save"
        /\ r \in EachReq => r.op = "each"
    BY DEF MakeReq, RowReq, EachReq
  <1>2. r = R!None => r.op = "none"
    BY DEF R!None
  <1> QED
    BY <1>1, <1>2 DEF ScriptReq

LEMMA NoRequest == R!None \in ScriptReq /\ R!None.op = "none"
  BY DEF ScriptReq, R!None

\* A change leaves the name, and makes of rows that agree in cfg and off rows that
\* do.
LEMMA ChangedRow ==
  ASSUME NEW row \in ScriptRow, NEW set \in Change
  PROVE  /\ R!Changed(row, set) \in ScriptRow
         /\ R!Changed(row, set).name = row.name
         /\ \A old \in ScriptRow :
               old.cfg = row.cfg /\ old.off = row.off =>
                  /\ R!Changed(old, set).cfg = R!Changed(row, set).cfg
                  /\ R!Changed(old, set).off = R!Changed(row, set).off
  <1>1. CASE set \in [what : {"cfg"}, to : Cfg]
    <2>1. set.what = "cfg" /\ set.to \in Cfg
      BY <1>1
    <2>2. \A x : R!Changed(x, set) = [x EXCEPT !.cfg = set.to]
      BY <2>1 DEF R!Changed
    <2> QED
      BY <2>1, <2>2 DEF ScriptRow
  <1>2. CASE set \in [what : {"off"}, to : BOOLEAN]
    <2>1. set.what = "off" /\ set.to \in BOOLEAN
      BY <1>2
    <2>2. \A x : R!Changed(x, set) = [x EXCEPT !.off = set.to]
      BY <2>1 DEF R!Changed
    <2> QED
      BY <2>1, <2>2 DEF ScriptRow
  <1>3. CASE set \in [what : {"path", "job"}] /\ set.what = "path"
    <2>1. \A x : R!Changed(x, set) = [x EXCEPT !.path = TRUE]
      BY <1>3 DEF R!Changed
    <2> QED
      BY <2>1 DEF ScriptRow
  <1>4. CASE set \in [what : {"path", "job"}] /\ set.what = "job"
    <2>1. \A x : R!Changed(x, set) = x
      BY <1>4 DEF R!Changed
    <2> QED
      BY <2>1
  <1> QED
    BY <1>1, <1>2, <1>3, <1>4 DEF Change

LEMMA LeastOf ==
  ASSUME NEW T \in SUBSET Nat, T # {}
  PROVE  \E x \in T : \A y \in T : x <= y
  <1> DEFINE Less == OpToRel(<, Nat)
  <1>1. PICK x \in T : \A y \in T : <<y, x>> \notin Less
    BY NatLessThanWellFounded, WFMin
  <1>2. \A y \in T : ~ (y < x)
    BY <1>1 DEF OpToRel
  <1> QED
    BY <1>2

LEMMA OneIsThere ==
  ASSUME NEW T, R!Cardinality(T) = 1
  PROVE  R!TheOnly(T) \in T
  <1>1. Cardinality(T) = 1
    BY DEF R!Cardinality, Cardinality
  <1>2. T # {}
    BY <1>1, FS_EmptySet
  <1> QED
    BY <1>2 DEF R!TheOnly

LEMMA ScriptsInit == R!Init => ScriptInv
  <1> SUFFICES ASSUME R!Init PROVE ScriptInv
    OBVIOUS
  <1> USE BoundsAssumption DEF R!Init
  <1>1. scripts \in [{1} -> ScriptRow]
    <2>1. PICK n \in SpiderName, p \in BOOLEAN : scripts[1] = R!NewRow(n, p)
      OBVIOUS
    <2>2. R!NewRow(n, p) \in ScriptRow
      BY DEF R!NewRow, ScriptRow
    <2>3. DOMAIN scripts = {1} /\ scripts = [i \in {1} |-> scripts[i]]
      OBVIOUS
    <2> QED
      BY <2>1, <2>2, <2>3
  <1>2. \A t \in RowThread : rreq[t].op = "none"
    BY NoRequest
  <1>3. ScriptTypes
    <2>1. rreq \in [RowThread -> ScriptReq]
      BY NoRequest
    <2>2. DOMAIN scripts = {1} /\ wanted = scripts
      BY <1>1
    <2>3. lastId \in 1 .. MaxRow /\ rasked \in 0 .. MaxRowOps
      OBVIOUS
    <2> QED
      BY <1>1, <1>2, <2>1, <2>2, <2>3 DEF ScriptTypes, Saving
  <1>4. HeldRows /\ Makings
    BY <1>2 DEF HeldRows, Makings, Saving
  <1>5. R!ChangesKept
    BY DEF R!ChangesKept
  <1>6. R!OneRowPerScript
    BY <1>1 DEF R!OneRowPerScript
  <1> QED
    BY <1>3, <1>4, <1>5, <1>6 DEF ScriptInv

-----------------------------------------------------------------------------
(* ScriptRows: steps that only change what the thread holds.               *)

\* It holds no row, and makes none.
LEMMA RowsIdle ==
  ASSUME ScriptInv, NEW t \in RowThread, NEW r \in ScriptReq, r.op \notin {"save", "create"},
         rreq' = [rreq EXCEPT ![t] = r], rasked' \in 0 .. MaxRowOps, late' = late \ {t},
         UNCHANGED <<scripts, lastId, wanted, spoiled, doubled>>
  PROVE  ScriptInv'
  <1>1. rreq \in [RowThread -> ScriptReq]
    BY DEF ScriptInv, ScriptTypes
  <1>2. \A u \in RowThread : Saving(u)' => u # t /\ rreq'[u] = rreq[u] /\ Saving(u)
    BY <1>1 DEF Saving
  <1>3. \A u \in RowThread \ {t} : Saving(u) => Saving(u)'
    BY <1>1 DEF Saving
  <1>4. ScriptTypes'
    BY <1>1, <1>2, <1>3 DEF ScriptInv, ScriptTypes
  <1>5. HeldRows'
    BY <1>2 DEF ScriptInv, HeldRows
  <1>6. Makings'
    <2>1. \A u \in RowThread : rreq'[u].op = "create" => rreq'[u] = rreq[u]
      BY <1>1
    <2> QED
      BY <2>1 DEF ScriptInv, Makings, R!Named
  <1>7. R!ChangesKept' /\ R!OneRowPerScript'
    BY DEF ScriptInv, R!ChangesKept, R!OneRowPerScript
  <1> QED
    BY <1>4, <1>5, <1>6, <1>7 DEF ScriptInv

\* It gets row i.
LEMMA RowsGot ==
  ASSUME ScriptInv, NEW t \in RowThread, ~ Saving(t), NEW i \in DOMAIN scripts,
         NEW set \in Change, NEW rest \in SUBSET Nat,
         R!Got(t, i, set, rest), rasked' \in 0 .. MaxRowOps,
         UNCHANGED <<scripts, lastId, wanted, late, spoiled, doubled>>
  PROVE  ScriptInv'
  <1> DEFINE r == [op |-> "save", id |-> i, row |-> scripts[i], set |-> set, left |-> rest]
  <1>1. /\ rreq \in [RowThread -> ScriptReq] /\ rreq' = [rreq EXCEPT ![t] = r]
        /\ scripts \in [DOMAIN scripts -> ScriptRow] /\ i \in 1 .. lastId /\ lastId \in Nat
    BY DEF ScriptInv, ScriptTypes, R!Got, R!Hold
  <1>2. r \in RowReq /\ r \in ScriptReq /\ r.op = "save" /\ r.id = i /\ r.row = scripts[i]
    BY <1>1 DEF RowReq, ScriptReq
  <1> HIDE DEF r
  <1>3. rreq'[t] = r /\ \A u \in RowThread \ {t} : rreq'[u] = rreq[u]
    BY <1>1
  <1>4. ScriptTypes'
    <2>1. \A u \in RowThread : Saving(u)' => rreq'[u].id \in 1 .. lastId
      BY <1>1, <1>2, <1>3 DEF ScriptInv, ScriptTypes, Saving
    <2>2. \A u \in late : Saving(u)'
      BY <1>2, <1>3 DEF ScriptInv, ScriptTypes, Saving
    <2> QED
      BY <1>1, <1>2, <2>1, <2>2 DEF ScriptInv, ScriptTypes
  <1>5. HeldRows'
    <2>1. \A u \in RowThread : Saving(u)' /\ rreq'[u].id \in DOMAIN scripts =>
             rreq'[u].row.name = scripts[rreq'[u].id].name
      BY <1>2, <1>3 DEF ScriptInv, HeldRows, Saving
    <2>2. \A u \in RowThread : Saving(u)' /\ u \notin late =>
             rreq'[u].id \in DOMAIN scripts /\ rreq'[u].row = scripts[rreq'[u].id]
      BY <1>2, <1>3 DEF ScriptInv, HeldRows, Saving
    <2>3. ASSUME NEW u \in RowThread, Saving(u)', NEW w \in RowThread, Saving(w)',
                 rreq'[w].id = rreq'[u].id
          PROVE  rreq'[w].row.name = rreq'[u].row.name
      <3>1. CASE u = t \/ w = t
        <4>1. rreq'[u].id = i /\ rreq'[w].id = i
          BY <1>2, <1>3, <2>3, <3>1
        <4> QED
          BY <2>1, <2>3, <4>1
      <3>2. CASE u # t /\ w # t
        BY <1>3, <2>3, <3>2 DEF ScriptInv, HeldRows, Saving
      <3> QED
        BY <3>1, <3>2
    <2> QED
      BY <2>1, <2>2, <2>3 DEF HeldRows
  <1>6. Makings'
    <2>1. \A u \in RowThread : rreq'[u].op = "create" => rreq'[u] = rreq[u]
      BY <1>2, <1>3
    <2> QED
      BY <2>1 DEF ScriptInv, Makings, R!Named
  <1>7. R!ChangesKept' /\ R!OneRowPerScript'
    BY DEF ScriptInv, R!ChangesKept, R!OneRowPerScript
  <1> QED
    BY <1>4, <1>5, <1>6, <1>7 DEF ScriptInv

\* It finds no row of the name, and is going to make one.
LEMMA RowsMissing ==
  ASSUME ScriptInv, NEW t \in RowThread, rreq[t].op = "none", NEW name \in SpiderName,
         R!Named(name) = {}, R!Hold(t, [op |-> "create", name |-> name]),
         R!Doubling(t, name), rasked' \in 0 .. MaxRowOps,
         UNCHANGED <<scripts, lastId, wanted, late, spoiled>>
  PROVE  ScriptInv'
  <1> DEFINE r == [op |-> "create", name |-> name]
  <1>1. rreq \in [RowThread -> ScriptReq] /\ rreq' = [rreq EXCEPT ![t] = r]
    BY DEF ScriptInv, ScriptTypes, R!Hold
  <1>2. r \in ScriptReq /\ r.op = "create" /\ r.name = name
    BY DEF MakeReq, ScriptReq
  <1>3. \A u \in RowThread : rreq[u].op = "create" /\ rreq[u].name = name => rreq[u] = r
    <2> SUFFICES ASSUME NEW u \in RowThread, rreq[u].op = "create", rreq[u].name = name
                 PROVE  rreq[u] = r
      OBVIOUS
    <2>1. rreq[u] \in MakeReq
      BY <1>1, ScriptReqOps
    <2> QED
      BY <2>1 DEF MakeReq
  <1>4. /\ doubled \subseteq doubled'
        /\ \A u \in RowThread : rreq[u].op = "create" /\ rreq[u].name = name => name \in doubled'
    BY <1>3 DEF R!Doubling
  <1> HIDE DEF r
  <1>5. rreq'[t] = r /\ \A u \in RowThread \ {t} : rreq'[u] = rreq[u]
    BY <1>1
  <1>6. \A u \in RowThread : Saving(u)' <=> Saving(u)
    BY <1>2, <1>5 DEF Saving
  <1>7. \A u \in RowThread : Saving(u) => rreq'[u] = rreq[u]
    BY <1>5 DEF Saving
  <1>8. ScriptTypes'
    BY <1>1, <1>2, <1>6, <1>7 DEF ScriptInv, ScriptTypes
  <1>9. HeldRows'
    BY <1>6, <1>7 DEF ScriptInv, HeldRows
  <1>10. Makings'
    <2> SUFFICES ASSUME NEW u \in RowThread, rreq'[u].op = "create", rreq'[u].name \notin doubled'
                 PROVE  /\ R!Named(rreq'[u].name) \subseteq spoiled
                        /\ \A w \in RowThread \ {u} :
                              rreq'[w].op = "create" => rreq'[w].name # rreq'[u].name
      BY DEF Makings, R!Named
    <2>2. CASE u = t
      BY <1>2, <1>4, <1>5, <2>2
    <2>3. CASE u # t
      <3>1. rreq[u].name \notin doubled /\ rreq'[u] = rreq[u] /\ rreq[u].name # name
        BY <1>4, <1>5, <2>3
      <3>2. R!Named(rreq[u].name) \subseteq spoiled
        BY <3>1 DEF ScriptInv, Makings
      <3>3. \A w \in RowThread \ {u} : rreq[w].op = "create" => rreq[w].name # rreq[u].name
        BY <3>1 DEF ScriptInv, Makings
      <3> QED
        BY <1>2, <1>5, <3>1, <3>2, <3>3
    <2> QED
      BY <2>2, <2>3
  <1>11. R!ChangesKept' /\ R!OneRowPerScript'
    BY <1>4 DEF ScriptInv, R!ChangesKept, R!OneRowPerScript
  <1> QED
    BY <1>8, <1>9, <1>10, <1>11 DEF ScriptInv

\* The request is refused.
LEMMA RowsRefused ==
  ASSUME ScriptInv, NEW t \in RowThread, rreq[t].op = "none", rasked' \in 0 .. MaxRowOps,
         UNCHANGED <<scripts, lastId, rreq, wanted, late, spoiled, doubled>>
  PROVE  ScriptInv'
  <1>1. /\ rreq[t] \in ScriptReq /\ rreq' = [rreq EXCEPT ![t] = rreq[t]]
        /\ late' = late \ {t}
    BY DEF ScriptInv, ScriptTypes, Saving
  <1> QED
    BY <1>1, RowsIdle

-----------------------------------------------------------------------------
(* ScriptRows: steps that change the table.                                *)

LEMMA CreateKeeps ==
  ASSUME ScriptInv, NEW t \in RowThread, R!Create(t)
  PROVE  ScriptInv'
  <1> USE BoundsAssumption
  <1> DEFINE name == rreq[t].name
             row == R!NewRow(name, TRUE)
             new == lastId + 1
  <1>1. /\ rreq \in [RowThread -> ScriptReq] /\ rreq' = [rreq EXCEPT ![t] = R!None]
        /\ rreq[t].op = "create" /\ lastId < MaxRow /\ lastId' = new
        /\ scripts' = R!With(scripts, new, row)
        /\ wanted' = R!With(wanted, new, row)
        /\ UNCHANGED <<rasked, late, spoiled, doubled>>
    BY DEF ScriptInv, ScriptTypes, R!Create, R!Done, R!Hold
  <1>2. row \in ScriptRow /\ row.name = name
    <2>1. rreq[t] \in MakeReq
      BY <1>1, ScriptReqOps
    <2> QED
      BY <2>1 DEF MakeReq, R!NewRow, ScriptRow
  <1> HIDE DEF row
  <1>3. /\ lastId \in Nat /\ new \in 1 .. MaxRow
        /\ scripts \in [DOMAIN scripts -> ScriptRow] /\ DOMAIN scripts \subseteq 1 .. lastId
        /\ wanted \in [DOMAIN wanted -> ScriptRow]
    BY <1>1 DEF ScriptInv, ScriptTypes
  <1>4. /\ DOMAIN scripts' = DOMAIN scripts \cup {new} /\ new \notin DOMAIN scripts
        /\ scripts'[new] = row /\ \A i \in DOMAIN scripts : scripts'[i] = scripts[i]
        /\ scripts' \in [DOMAIN scripts' -> ScriptRow]
    <2>1. new \notin DOMAIN scripts
      BY <1>3
    <2> QED
      BY <1>1, <1>2, <1>3, <2>1 DEF R!With
  <1>5. /\ DOMAIN wanted' = DOMAIN wanted \cup {new}
        /\ wanted'[new] = row /\ \A i \in DOMAIN wanted \ {new} : wanted'[i] = wanted[i]
        /\ wanted' \in [DOMAIN wanted' -> ScriptRow]
    BY <1>1, <1>2, <1>3 DEF R!With
  <1>6. rreq'[t] = R!None /\ \A u \in RowThread \ {t} : rreq'[u] = rreq[u]
    BY <1>1
  <1>7. \A u \in RowThread : /\ Saving(u)' <=> Saving(u)
                             /\ Saving(u) => rreq'[u] = rreq[u] /\ rreq[u].id \in 1 .. lastId
    BY <1>1, <1>6, NoRequest DEF ScriptInv, ScriptTypes, Saving
  <1>8. ScriptTypes'
    <2>1. DOMAIN scripts' \subseteq 1 .. new
      BY <1>3, <1>4
    <2>2. \A u \in RowThread : Saving(u)' => rreq'[u].id \in 1 .. new
      BY <1>3, <1>7
    <2> QED
      BY <1>1, <1>3, <1>4, <1>5, <1>7, <2>1, <2>2, NoRequest DEF ScriptInv, ScriptTypes
  <1>9. HeldRows'
    <2>1. \A u \in RowThread : Saving(u) => rreq[u].id # new
      BY <1>3, <1>7
    <2> QED
      BY <1>1, <1>4, <1>7, <2>1 DEF ScriptInv, HeldRows
  <1>10. name \notin doubled =>
            /\ \A i \in DOMAIN scripts : scripts[i].name = name => i \in spoiled
            /\ \A u \in RowThread \ {t} : rreq[u].op = "create" => rreq[u].name # name
    BY <1>1 DEF ScriptInv, Makings, R!Named
  <1>11. Makings'
    <2> SUFFICES ASSUME NEW u \in RowThread, rreq'[u].op = "create", rreq'[u].name \notin doubled
                 PROVE  /\ \A i \in DOMAIN scripts' :
                              scripts'[i].name = rreq'[u].name => i \in spoiled
                        /\ \A w \in RowThread \ {u} :
                              rreq'[w].op = "create" => rreq'[w].name # rreq'[u].name
      BY <1>1 DEF Makings, R!Named
    <2>1. u # t /\ rreq'[u] = rreq[u]
      BY <1>6, NoRequest
    <2>2. /\ \A i \in DOMAIN scripts : scripts[i].name = rreq[u].name => i \in spoiled
          /\ \A w \in RowThread \ {u} : rreq[w].op = "create" => rreq[w].name # rreq[u].name
      BY <2>1 DEF ScriptInv, Makings, R!Named
    <2>3. name # rreq[u].name
      BY <1>1, <2>1, <2>2
    <2> QED
      BY <1>2, <1>4, <1>6, <2>1, <2>2, <2>3, NoRequest
  <1>12. R!ChangesKept'
    BY <1>1, <1>3, <1>4, <1>5 DEF ScriptInv, R!ChangesKept
  <1>13. R!OneRowPerScript'
    <2>1. ASSUME NEW i \in DOMAIN scripts', NEW j \in DOMAIN scripts', i # j,
                 scripts'[i].name = scripts'[j].name
          PROVE  scripts'[i].name \in doubled \/ {i, j} \cap spoiled # {}
      <3>1. CASE i # new /\ j # new
        BY <1>4, <2>1, <3>1 DEF ScriptInv, R!OneRowPerScript
      <3>2. CASE i = new
        <4>1. j \in DOMAIN scripts /\ scripts[j].name = name /\ scripts'[i].name = name
          BY <1>2, <1>4, <2>1, <3>2
        <4> QED
          BY <1>10, <4>1
      <3>3. CASE j = new
        <4>1. i \in DOMAIN scripts /\ scripts[i].name = name /\ scripts'[i].name = name
          BY <1>2, <1>4, <2>1, <3>3
        <4> QED
          BY <1>10, <4>1
      <3> QED
        BY <3>1, <3>2, <3>3
    <2> QED
      BY <1>1, <2>1 DEF R!OneRowPerScript
  <1> QED
    BY <1>8, <1>9, <1>11, <1>12, <1>13 DEF ScriptInv

LEMMA EditAllKeeps ==
  ASSUME ScriptInv, NEW t \in RowThread, NEW cfg \in Cfg, R!EditAll(t, cfg)
  PROVE  ScriptInv'
  <1>1. /\ rreq[t].op = "none" /\ rasked' \in 0 .. MaxRowOps
        /\ scripts' = [i \in DOMAIN scripts |-> [scripts[i] EXCEPT !.cfg = cfg]]
        /\ wanted' = [i \in DOMAIN wanted |-> [wanted[i] EXCEPT !.cfg = cfg]]
        /\ late' = late \cup R!Holding(t, DOMAIN scripts)
        /\ UNCHANGED <<lastId, rreq, spoiled, doubled>>
    BY BoundsAssumption, NoRequest DEF R!EditAll, R!Take, ScriptInv, ScriptTypes
  <1>2. /\ scripts \in [DOMAIN scripts -> ScriptRow] /\ wanted \in [DOMAIN wanted -> ScriptRow]
    BY DEF ScriptInv, ScriptTypes
  <1>3. \A row \in ScriptRow : /\ [row EXCEPT !.cfg = cfg] \in ScriptRow
                               /\ [row EXCEPT !.cfg = cfg].cfg = cfg
                               /\ [row EXCEPT !.cfg = cfg].off = row.off
                               /\ [row EXCEPT !.cfg = cfg].name = row.name
    BY DEF ScriptRow
  <1>4. /\ DOMAIN scripts' = DOMAIN scripts /\ scripts' \in [DOMAIN scripts' -> ScriptRow]
        /\ \A i \in DOMAIN scripts : /\ scripts'[i].cfg = cfg
                                     /\ scripts'[i].off = scripts[i].off
                                     /\ scripts'[i].name = scripts[i].name
        /\ DOMAIN wanted' = DOMAIN wanted /\ wanted' \in [DOMAIN wanted' -> ScriptRow]
        /\ \A i \in DOMAIN wanted : wanted'[i].cfg = cfg /\ wanted'[i].off = wanted[i].off
    BY <1>1, <1>2, <1>3
  <1>5. ScriptTypes'
    <2>1. late' \subseteq {u \in RowThread : Saving(u)'}
      BY <1>1 DEF ScriptInv, ScriptTypes, R!Holding, Saving
    <2> QED
      BY <1>1, <1>4, <2>1 DEF ScriptInv, ScriptTypes, Saving
  <1>6. HeldRows'
    <2>1. ASSUME NEW u \in RowThread, Saving(u), u \notin late'
          PROVE  FALSE
      <3>1. u \notin late /\ u # t
        BY <1>1, <2>1 DEF Saving
      <3>2. rreq[u].id \in DOMAIN scripts
        BY <2>1, <3>1 DEF ScriptInv, HeldRows
      <3> QED
        BY <1>1, <2>1, <3>1, <3>2 DEF R!Holding, Saving
    <2> QED
      BY <1>1, <1>4, <2>1 DEF ScriptInv, HeldRows, Saving
  <1>7. Makings'
    <2>1. \A x : R!Named(x)' = R!Named(x)
      BY <1>4 DEF R!Named
    <2> QED
      BY <1>1, <2>1 DEF ScriptInv, Makings
  <1>8. R!ChangesKept' /\ R!OneRowPerScript'
    BY <1>1, <1>4 DEF ScriptInv, R!ChangesKept, R!OneRowPerScript
  <1> QED
    BY <1>5, <1>6, <1>7, <1>8 DEF ScriptInv

LEMMA RemoveRowKeeps ==
  ASSUME ScriptInv, NEW t \in RowThread, NEW i \in DOMAIN scripts, R!RemoveRow(t, i)
  PROVE  ScriptInv'
  <1>1. /\ rreq[t].op = "none" /\ rasked' \in 0 .. MaxRowOps
        /\ scripts' = [j \in DOMAIN scripts \ {i} |-> scripts[j]]
        /\ wanted' = [j \in DOMAIN wanted \ {i} |-> wanted[j]]
        /\ late' = late \cup R!Holding(t, {i})
        /\ UNCHANGED <<lastId, rreq, spoiled, doubled>>
    BY BoundsAssumption, NoRequest
       DEF R!RemoveRow, R!Take, R!Restrict, ScriptInv, ScriptTypes
  <1>2. /\ scripts \in [DOMAIN scripts -> ScriptRow] /\ wanted \in [DOMAIN wanted -> ScriptRow]
    BY DEF ScriptInv, ScriptTypes
  <1>3. /\ DOMAIN scripts' = DOMAIN scripts \ {i} /\ scripts' \in [DOMAIN scripts' -> ScriptRow]
        /\ \A j \in DOMAIN scripts' : scripts'[j] = scripts[j]
        /\ DOMAIN wanted' = DOMAIN wanted \ {i} /\ wanted' \in [DOMAIN wanted' -> ScriptRow]
        /\ \A j \in DOMAIN wanted' : wanted'[j] = wanted[j]
    BY <1>1, <1>2
  <1>4. ScriptTypes'
    <2>1. late' \subseteq {u \in RowThread : Saving(u)'}
      BY <1>1 DEF ScriptInv, ScriptTypes, R!Holding, Saving
    <2> QED
      BY <1>1, <1>3, <2>1 DEF ScriptInv, ScriptTypes, Saving
  <1>5. HeldRows'
    <2>1. ASSUME NEW u \in RowThread, Saving(u), u \notin late'
          PROVE  u \notin late /\ rreq[u].id # i
      BY <1>1, <2>1 DEF R!Holding, Saving
    <2> QED
      BY <1>1, <1>3, <2>1 DEF ScriptInv, HeldRows, Saving
  <1>6. Makings'
    <2>1. \A x : R!Named(x)' \subseteq R!Named(x)
      BY <1>3 DEF R!Named
    <2> QED
      BY <1>1, <2>1 DEF ScriptInv, Makings
  <1>7. R!ChangesKept' /\ R!OneRowPerScript'
    BY <1>1, <1>3 DEF ScriptInv, R!ChangesKept, R!OneRowPerScript
  <1> QED
    BY <1>4, <1>5, <1>6, <1>7 DEF ScriptInv

LEMMA SaveRowKeeps ==
  ASSUME ScriptInv, NEW t \in RowThread, R!SaveRow(t)
  PROVE  ScriptInv'
  <1> DEFINE id == rreq[t].id
             set == rreq[t].set
             row == R!Changed(rreq[t].row, set)
             next == IF rreq[t].left = {} THEN R!None
                     ELSE [op |-> "each", set |-> set, left |-> rreq[t].left]
  <1>1. /\ Saving(t) /\ rreq \in [RowThread -> ScriptReq]
        /\ rreq' = [rreq EXCEPT ![t] = next]
        /\ scripts' = R!With(scripts, id, row)
        /\ wanted' = [i \in DOMAIN wanted |-> IF i = id THEN R!Changed(wanted[i], set)
                                                        ELSE wanted[i]]
        /\ spoiled' = IF t \in late THEN spoiled \cup {id} ELSE spoiled
        /\ late' = (late \ {t}) \cup R!Holding(t, {id})
        /\ UNCHANGED <<lastId, rasked, doubled>>
    BY DEF ScriptInv, ScriptTypes, R!SaveRow, R!Done, R!Hold, Saving
  <1>2. /\ rreq[t] \in RowReq /\ set \in Change /\ rreq[t].row \in ScriptRow
        /\ rreq[t].left \in SUBSET Nat /\ id \in Nat
    <2>1. rreq[t] \in RowReq
      BY <1>1, ScriptReqOps DEF Saving
    <2> QED
      BY <2>1 DEF RowReq
  <1>3. next \in ScriptReq /\ next.op \in {"none", "each"}
    <2>1. CASE rreq[t].left = {}
      BY <2>1, NoRequest
    <2>2. CASE rreq[t].left # {}
      BY <1>2, <2>2 DEF EachReq, ScriptReq
    <2> QED
      BY <2>1, <2>2
  <1>4. row \in ScriptRow /\ row.name = rreq[t].row.name
    BY <1>2, ChangedRow
  <1>5. /\ t \notin late => id \in DOMAIN scripts /\ rreq[t].row = scripts[id]
        /\ id \in DOMAIN scripts => rreq[t].row.name = scripts[id].name
        /\ \A u \in RowThread : Saving(u) /\ rreq[u].id = id =>
              rreq[u].row.name = rreq[t].row.name
    BY <1>1 DEF ScriptInv, HeldRows
  <1>6. /\ scripts \in [DOMAIN scripts -> ScriptRow] /\ DOMAIN scripts \subseteq 1 .. lastId
        /\ wanted \in [DOMAIN wanted -> ScriptRow] /\ id \in 1 .. lastId
    BY <1>1 DEF ScriptInv, ScriptTypes
  <1> HIDE DEF row, next
  <1>7. /\ DOMAIN scripts' = DOMAIN scripts \cup {id}
        /\ scripts' \in [DOMAIN scripts' -> ScriptRow]
        /\ scripts'[id] = row /\ \A i \in DOMAIN scripts \ {id} : scripts'[i] = scripts[i]
    BY <1>1, <1>4, <1>6 DEF R!With
  <1>8. /\ DOMAIN wanted' = DOMAIN wanted
        /\ wanted' \in [DOMAIN wanted' -> ScriptRow]
        /\ id \in DOMAIN wanted => wanted'[id] = R!Changed(wanted[id], set)
        /\ \A i \in DOMAIN wanted \ {id} : wanted'[i] = wanted[i]
    <2>1. \A i \in DOMAIN wanted : R!Changed(wanted[i], set) \in ScriptRow
      BY <1>2, <1>6, ChangedRow
    <2> QED
      BY <1>1, <1>6, <2>1
  <1>9. rreq'[t] = next /\ \A u \in RowThread \ {t} : rreq'[u] = rreq[u]
    BY <1>1
  <1>10. \A u \in RowThread : Saving(u)' => u # t /\ rreq'[u] = rreq[u] /\ Saving(u)
    BY <1>3, <1>9 DEF Saving
  <1>11. ScriptTypes'
    <2>1. late' \subseteq {u \in RowThread : Saving(u)'}
      BY <1>1, <1>9 DEF ScriptInv, ScriptTypes, R!Holding, Saving
    <2>2. DOMAIN scripts' \subseteq 1 .. lastId
      BY <1>6, <1>7
    <2>3. \A u \in RowThread : Saving(u)' => rreq'[u].id \in 1 .. lastId
      BY <1>10 DEF ScriptInv, ScriptTypes
    <2> QED
      BY <1>1, <1>3, <1>7, <1>8, <2>1, <2>2, <2>3 DEF ScriptInv, ScriptTypes
  <1>12. HeldRows'
    <2> SUFFICES ASSUME NEW u \in RowThread, Saving(u)'
                 PROVE  /\ u \notin late' => /\ rreq'[u].id \in DOMAIN scripts'
                                             /\ rreq'[u].row = scripts'[rreq'[u].id]
                        /\ rreq'[u].id \in DOMAIN scripts' =>
                              rreq'[u].row.name = scripts'[rreq'[u].id].name
                        /\ \A w \in RowThread : Saving(w)' /\ rreq'[w].id = rreq'[u].id =>
                              rreq'[w].row.name = rreq'[u].row.name
      BY DEF HeldRows
    <2>1. u # t /\ rreq'[u] = rreq[u] /\ Saving(u)
      BY <1>10
    <2>2. /\ u \notin late => rreq[u].id \in DOMAIN scripts /\ rreq[u].row = scripts[rreq[u].id]
          /\ rreq[u].id \in DOMAIN scripts => rreq[u].row.name = scripts[rreq[u].id].name
          /\ \A w \in RowThread : Saving(w) /\ rreq[w].id = rreq[u].id =>
                rreq[w].row.name = rreq[u].row.name
      BY <2>1 DEF ScriptInv, HeldRows
    <2>3. \A w \in RowThread : Saving(w)' /\ rreq'[w].id = rreq'[u].id =>
             rreq'[w].row.name = rreq'[u].row.name
      BY <1>10, <2>1, <2>2
    <2>4. CASE rreq[u].id = id
      <3>1. u \in late'
        BY <1>1, <2>1, <2>4 DEF R!Holding, Saving
      <3>2. rreq[u].row.name = rreq[t].row.name
        BY <1>5, <2>1, <2>4
      <3> QED
        BY <1>4, <1>7, <2>1, <2>3, <2>4, <3>1, <3>2
    <2>5. CASE rreq[u].id # id
      <3>1. u \notin late' => u \notin late
        BY <1>1, <2>1
      <3> QED
        BY <1>7, <2>1, <2>2, <2>3, <2>5, <3>1
    <2> QED
      BY <2>4, <2>5
  \* A save that is not late is of a row that is there, under its name.
  <1>13. id \in spoiled' \/ (/\ t \notin late
                           /\ id \in DOMAIN scripts
                           /\ rreq[t].row = scripts[id])
    BY <1>1, <1>5
  <1>14. spoiled \subseteq spoiled'
    BY <1>1
  <1>15. \A i \in DOMAIN scripts' : i \notin spoiled' =>
            i \in DOMAIN scripts /\ scripts'[i].name = scripts[i].name
    <2> SUFFICES ASSUME NEW i \in DOMAIN scripts', i \notin spoiled'
                 PROVE  i \in DOMAIN scripts /\ scripts'[i].name = scripts[i].name
      OBVIOUS
    <2>1. CASE i = id
      BY <1>4, <1>7, <1>13, <2>1
    <2>2. CASE i # id
      BY <1>7, <2>2
    <2> QED
      BY <2>1, <2>2
  <1>16. Makings'
    <2> SUFFICES ASSUME NEW u \in RowThread, rreq'[u].op = "create", rreq'[u].name \notin doubled
                 PROVE  /\ \A i \in DOMAIN scripts' :
                              scripts'[i].name = rreq'[u].name => i \in spoiled'
                        /\ \A w \in RowThread \ {u} :
                              rreq'[w].op = "create" => rreq'[w].name # rreq'[u].name
      BY <1>1 DEF Makings, R!Named
    <2>1. \A w \in RowThread : rreq'[w].op = "create" => rreq'[w] = rreq[w]
      BY <1>3, <1>9
    <2>2. /\ \A i \in DOMAIN scripts : scripts[i].name = rreq[u].name => i \in spoiled
          /\ \A w \in RowThread \ {u} : rreq[w].op = "create" => rreq[w].name # rreq[u].name
      BY <2>1 DEF ScriptInv, Makings, R!Named
    <2> QED
      BY <1>14, <1>15, <2>1, <2>2
  <1>17. R!ChangesKept'
    <2> SUFFICES ASSUME NEW i \in (1 .. lastId) \ spoiled'
                 PROVE  /\ i \in DOMAIN scripts' <=> i \in DOMAIN wanted'
                        /\ i \in DOMAIN scripts' => /\ scripts'[i].cfg = wanted'[i].cfg
                                                    /\ scripts'[i].off = wanted'[i].off
      BY <1>1 DEF R!ChangesKept
    <2>1. /\ i \in DOMAIN scripts <=> i \in DOMAIN wanted
          /\ i \in DOMAIN scripts => /\ scripts[i].cfg = wanted[i].cfg
                                     /\ scripts[i].off = wanted[i].off
      BY <1>14 DEF ScriptInv, R!ChangesKept
    <2>2. CASE i = id
      <3>1. id \in DOMAIN scripts /\ rreq[t].row = scripts[id]
        BY <1>13, <2>2
      <3>2. wanted[id] \in ScriptRow /\ scripts[id] \in ScriptRow
        BY <1>6, <2>1, <2>2, <3>1
      <3>3. /\ R!Changed(wanted[id], set).cfg = row.cfg
            /\ R!Changed(wanted[id], set).off = row.off
        BY <1>2, <2>1, <2>2, <3>1, <3>2, ChangedRow DEF row
      <3> QED
        BY <1>7, <1>8, <2>1, <2>2, <3>1, <3>3
    <2>3. CASE i # id
      BY <1>7, <1>8, <2>1, <2>3
    <2> QED
      BY <2>2, <2>3
  <1>18. R!OneRowPerScript'
    BY <1>1, <1>14, <1>15 DEF ScriptInv, R!OneRowPerScript
  <1> QED
    BY <1>11, <1>12, <1>16, <1>17, <1>18 DEF ScriptInv

LEMMA OpenFileKeeps ==
  ASSUME ScriptInv, NEW t \in RowThread, NEW name \in SpiderName, R!OpenFile(t, name)
  PROVE  ScriptInv'
  <1>1. /\ rreq[t].op = "none" /\ rasked' \in 0 .. MaxRowOps
        /\ UNCHANGED <<scripts, lastId, wanted, late, spoiled>>
    BY BoundsAssumption, NoRequest DEF R!OpenFile, R!Take, ScriptInv, ScriptTypes
  <1>2. CASE R!Named(name) = {}
    BY <1>1, <1>2, RowsMissing DEF R!OpenFile
  <1>3. CASE R!Named(name) # {}
    <2> DEFINE first == CHOOSE i \in R!Named(name) : \A j \in R!Named(name) : i <= j
    <2>1. first \in DOMAIN scripts
      <3>1. R!Named(name) \in SUBSET Nat /\ R!Named(name) \subseteq DOMAIN scripts
        BY DEF ScriptInv, ScriptTypes, R!Named
      <3>2. \E i \in R!Named(name) : \A j \in R!Named(name) : i <= j
        BY <1>3, <3>1, LeastOf
      <3> QED
        BY <3>1, <3>2
    <2>2. CASE scripts[first].path
      <3>1. UNCHANGED <<rreq, doubled>>
        BY <1>3, <2>2 DEF R!OpenFile
      <3> QED
        BY <1>1, <3>1, RowsRefused
    <2>3. CASE ~ scripts[first].path
      <3>1. R!Got(t, first, [what |-> "path"], {}) /\ UNCHANGED doubled
        BY <1>3, <2>3 DEF R!OpenFile
      <3>2. [what |-> "path"] \in Change /\ {} \in SUBSET Nat /\ ~ Saving(t)
        BY <1>1 DEF Change, Saving
      <3> QED
        BY <1>1, <2>1, <3>1, <3>2, RowsGot
    <2> QED
      BY <2>2, <2>3
  <1> QED
    BY <1>2, <1>3

\* edit_script_cfg, and the scheduler's threads, get the one row of a name.
LEMMA OneGotKeeps ==
  ASSUME ScriptInv, NEW t \in RowThread, NEW name \in SpiderName, NEW set \in Change,
         R!Take(t),
         IF R!Cardinality(R!Named(name)) = 1
         THEN R!Got(t, R!TheOnly(R!Named(name)), set, {}) ELSE UNCHANGED rreq,
         UNCHANGED <<scripts, lastId, wanted, late, spoiled, doubled>>
  PROVE  ScriptInv'
  <1>1. rreq[t].op = "none" /\ rasked' \in 0 .. MaxRowOps
    BY BoundsAssumption, NoRequest DEF R!Take, ScriptInv, ScriptTypes
  <1>2. CASE R!Cardinality(R!Named(name)) = 1
    <2>1. R!TheOnly(R!Named(name)) \in DOMAIN scripts
      <3>1. R!Named(name) \subseteq DOMAIN scripts
        BY DEF R!Named
      <3> QED
        BY <1>2, <3>1, OneIsThere
    <2>2. {} \in SUBSET Nat /\ ~ Saving(t)
      BY <1>1 DEF Saving
    <2> QED
      BY <1>1, <1>2, <2>1, <2>2, RowsGot
  <1>3. CASE R!Cardinality(R!Named(name)) # 1
    BY <1>1, <1>3, RowsRefused
  <1> QED
    BY <1>2, <1>3

LEMMA ForEachKeeps ==
  ASSUME ScriptInv, NEW t \in RowThread, NEW ids \in SUBSET (1 .. lastId),
         NEW set \in Change, R!ForEach(t, ids, set)
  PROVE  ScriptInv'
  <1> DEFINE r == [op |-> "each", set |-> set, left |-> ids]
  <1>1. /\ rreq[t].op = "none" /\ rasked' \in 0 .. MaxRowOps
        /\ rreq' = [rreq EXCEPT ![t] = r]
        /\ UNCHANGED <<scripts, lastId, wanted, late, spoiled, doubled>>
    BY BoundsAssumption, NoRequest DEF R!ForEach, R!Hold, R!Take, ScriptInv, ScriptTypes
  <1>2. r \in ScriptReq /\ r.op = "each"
    <2>1. ids \subseteq Nat
      BY DEF ScriptInv, ScriptTypes
    <2> QED
      BY <2>1 DEF EachReq, ScriptReq
  <1>3. late' = late \ {t}
    BY <1>1 DEF ScriptInv, ScriptTypes, Saving
  <1> QED
    BY <1>1, <1>2, <1>3, RowsIdle

LEMMA GetNextKeeps ==
  ASSUME ScriptInv, NEW t \in RowThread, NEW i \in 1 .. lastId, R!GetNext(t, i)
  PROVE  ScriptInv'
  <1>1. /\ rreq[t].op = "each" /\ rasked' \in 0 .. MaxRowOps
        /\ UNCHANGED <<scripts, lastId, wanted, late, spoiled, doubled>>
        /\ rreq \in [RowThread -> ScriptReq]
    BY DEF R!GetNext, ScriptInv, ScriptTypes
  <1>2. rreq[t].set \in Change /\ rreq[t].left \ {i} \in SUBSET Nat
    <2>1. rreq[t] \in EachReq
      BY <1>1, ScriptReqOps
    <2> QED
      BY <2>1 DEF EachReq
  <1>3. CASE i \in DOMAIN scripts
    <2>1. R!Got(t, i, rreq[t].set, rreq[t].left \ {i}) /\ ~ Saving(t)
      BY <1>1, <1>3 DEF R!GetNext, Saving
    <2> QED
      BY <1>1, <1>2, <1>3, <2>1, RowsGot
  <1>4. CASE i \notin DOMAIN scripts
    <2>1. rreq' = [rreq EXCEPT ![t] = R!None] /\ late' = late \ {t}
      BY <1>1, <1>4 DEF R!GetNext, R!Done, R!Hold, ScriptInv, ScriptTypes, Saving
    <2> QED
      BY <1>1, <2>1, NoRequest, RowsIdle
  <1> QED
    BY <1>3, <1>4

LEMMA ScriptsStep ==
  ASSUME ScriptInv, R!Next
  PROVE  ScriptInv'
  <1> SUFFICES ASSUME NEW t \in RowThread, R!Serve(t) PROVE ScriptInv'
    BY DEF R!Next
  <1>1. CASE \E name \in SpiderName : R!OpenFile(t, name)
    BY <1>1, OpenFileKeeps
  <1>2. ASSUME NEW name \in SpiderName, R!Dispatched(t, name)
        PROVE  ScriptInv'
    <2>1. [what |-> "job"] \in Change
      BY DEF Change
    <2> QED
      BY <1>2, <2>1, OneGotKeeps DEF R!Dispatched
  <1>3. ASSUME NEW name \in SpiderName, NEW cfg \in Cfg, R!EditOne(t, name, cfg)
        PROVE  ScriptInv'
    <2>1. [what |-> "cfg", to |-> cfg] \in Change
      BY DEF Change
    <2> QED
      BY <1>3, <2>1, OneGotKeeps DEF R!EditOne
  <1>4. CASE \E cfg \in Cfg : R!EditAll(t, cfg)
    BY <1>4, EditAllKeeps
  <1>5. CASE R!Create(t)
    BY <1>5, CreateKeeps
  <1>6. ASSUME NEW ids \in SUBSET (1 .. lastId), R!Start(t, ids)
        PROVE  ScriptInv'
    <2>1. [what |-> "job"] \in Change
      BY DEF Change
    <2> QED
      BY <1>6, <2>1, ForEachKeeps DEF R!Start
  <1>7. ASSUME NEW ids \in SUBSET (1 .. lastId), NEW off \in BOOLEAN, R!Control(t, ids, off)
        PROVE  ScriptInv'
    <2>1. [what |-> "off", to |-> off] \in Change
      BY DEF Change
    <2> QED
      BY <1>7, <2>1, ForEachKeeps DEF R!Control
  <1>8. CASE \E i \in 1 .. lastId : R!GetNext(t, i)
    BY <1>8, GetNextKeeps
  <1>9. CASE \E i \in DOMAIN scripts : R!RemoveRow(t, i)
    BY <1>9, RemoveRowKeeps
  <1>10. CASE R!FailStart(t)
    <2>1. /\ rreq' = [rreq EXCEPT ![t] = R!None] /\ late' = late \ {t}
          /\ rasked' \in 0 .. MaxRowOps
          /\ UNCHANGED <<scripts, lastId, wanted, spoiled, doubled>>
      BY <1>10 DEF R!FailStart, R!Done, R!Hold, ScriptInv, ScriptTypes
    <2> QED
      BY <2>1, NoRequest, RowsIdle
  <1>11. CASE R!SaveRow(t)
    BY <1>11, SaveRowKeeps
  <1> QED
    BY <1>1, <1>2, <1>3, <1>4, <1>5, <1>6, <1>7, <1>8, <1>9, <1>10, <1>11 DEF R!Serve

LEMMA ScriptsStutter ==
  ASSUME ScriptInv, UNCHANGED rowState
  PROVE  ScriptInv'
  <1> USE DEF rowState
  <1>1. ScriptTypes' /\ HeldRows'
    BY DEF ScriptInv, ScriptTypes, HeldRows, Saving
  <1>2. Makings'
    BY DEF ScriptInv, Makings, R!Named
  <1>3. R!ChangesKept' /\ R!OneRowPerScript'
    BY DEF ScriptInv, R!ChangesKept, R!OneRowPerScript
  <1> QED
    BY <1>1, <1>2, <1>3 DEF ScriptInv

LEMMA ScriptsSafe == Spec => []ScriptInv
  <1>1. Init => ScriptInv
    BY PartsStart, ScriptsInit
  <1>2. ScriptInv /\ [Next]_vars => ScriptInv'
    BY PartsStep, ScriptsStep, ScriptsStutter
  <1> QED
    BY <1>1, <1>2, PTL DEF Spec

-----------------------------------------------------------------------------
(* Catalogue: what a request holds between two statements, when there are  *)
(* n projects and m tasks.                                                 *)

JobRow(n) == [project : 0 .. n, deleted : BOOLEAN, deployed : BOOLEAN]
ProjectRow(m) == [name : ProjectName, about : About, task : 0 .. m, deleted : BOOLEAN]
DeployRows(n) == [node : CatNode, project : 1 .. n, deleted : BOOLEAN, at : Nat, by : CatThread]

SaveTaskReq(n, m) ==
    [op : {"saveTask"}, task : 1 .. m, row : JobRow(n), next : {"getProject"}]
        \cup [op : {"saveTask"}, task : 1 .. m, next : {"deploy"}, project : 1 .. n,
              row : JobRow(n)]
GetProjectReq(n) == [op : {"getProject"}, project : 1 .. n]
SaveProjectReq(n, m) == [op : {"saveProject"}, project : 1 .. n, row : ProjectRow(m)]
NewProjectReq(n, m) == [op : {"mkdir", "generate"}, task : 1 .. m, project : 1 .. n]
BuildReq == [op : {"build"}, name : ProjectName, found : BOOLEAN]
DeployReq(n) == [op : {"deploy"}, project : 1 .. n, left : SUBSET CatNode]
ShipReq(n) == [op : {"markOld", "newDeploy"}, project : 1 .. n, left : SUBSET CatNode,
               node : CatNode]
DropReq == [op : {"dropNode"}, node : CatNode]
CatReq(n, m) ==
    {C!None} \cup SaveTaskReq(n, m) \cup GetProjectReq(n) \cup SaveProjectReq(n, m)
        \cup NewProjectReq(n, m) \cup BuildReq \cup DeployReq(n) \cup ShipReq(n) \cup DropReq

CatTypes ==
    /\ jobs \in Seq(JobRow(Len(projects)))
    /\ projects \in Seq(ProjectRow(Len(jobs)))
    /\ nodes \subseteq CatNode
    /\ deploys \subseteq DeployRows(Len(projects))
    /\ made \subseteq ProjectName
    /\ creq \in [CatThread -> CatReq(Len(projects), Len(jobs))]
    /\ casked \in 0 .. MaxCat

\* Somebody is going to make the directory of project i.
Making(i) == \E t \in CatThread : creq[t].op = "mkdir" /\ creq[t].project = i

\* A project's row keeps its name.  A row whose name has no directory is about to
\* get it, and of two rows with one name, one is about to be refused it.
ProjectRows ==
    /\ \A t \in CatThread : creq[t].op = "saveProject" =>
          creq[t].row.name = projects[creq[t].project].name
    /\ \A t \in CatThread : creq[t].op = "build" => creq[t].name \in made
    /\ \A i \in DOMAIN projects : projects[i].name \notin made \cup extra => Making(i)
    /\ \A i, j \in DOMAIN projects :
          (i # j /\ projects[i].name = projects[j].name /\ projects[i].name \notin extra) =>
              Making(i) \/ Making(j)

\* A node that is being removed has lost its deployments.
NodeRows ==
    /\ C!DeployedNodesThere
    /\ \A t \in CatThread : creq[t].op = "dropNode" =>
          \A d \in deploys : d.node = creq[t].node => d.node \in orphaned

\* A thread that is going to record a deployment has marked all there were, and is
\* the only one.
LiveDeploys ==
    /\ C!OneDeployEach
    /\ \A t \in CatThread :
          (creq[t].op = "newDeploy" /\ <<creq[t].node, creq[t].project>> \notin crossed) =>
              /\ \A d \in deploys :
                    d.node = creq[t].node /\ d.project = creq[t].project => d.deleted
              /\ \A u \in CatThread : ~ C!SameDeploy(t, u)

CatInv ==
    /\ CatTypes
    /\ ProjectRows
    /\ NodeRows
    /\ LiveDeploys

LEMMA CatReqOps ==
  ASSUME NEW n, NEW m, NEW r \in CatReq(n, m)
  PROVE  /\ r.op = "saveTask" => r \in SaveTaskReq(n, m)
         /\ r.op = "getProject" => r \in GetProjectReq(n)
         /\ r.op = "saveProject" => r \in SaveProjectReq(n, m)
         /\ r.op \in {"mkdir", "generate"} => r \in NewProjectReq(n, m)
         /\ r.op = "build" => r \in BuildReq
         /\ r.op = "deploy" => r \in DeployReq(n)
         /\ r.op \in {"markOld", "newDeploy"} => r \in ShipReq(n)
         /\ r.op = "dropNode" => r \in DropReq
  <1>1. /\ r \in SaveTaskReq(n, m) => r.op = "saveTask"
        /\ r \in GetProjectReq(n) => r.op = "getProject"
        /\ r \in SaveProjectReq(n, m) => r.op = "saveProject"
        /\ r \in NewProjectReq(n, m) => r.op \in {"mkdir", "generate"}
    BY DEF SaveTaskReq, GetProjectReq, SaveProjectReq, NewProjectReq
  <1>2. /\ r \in BuildReq => r.op = "build"
        /\ r \in DeployReq(n) => r.op = "deploy"
        /\ r \in ShipReq(n) => r.op \in {"markOld", "newDeploy"}
        /\ r \in DropReq => r.op = "dropNode"
    BY DEF BuildReq, DeployReq, ShipReq, DropReq
  <1>3. r = C!None => r.op = "none"
    BY DEF C!None
  <1> QED
    BY <1>1, <1>2, <1>3 DEF CatReq

LEMMA NoCatRequest ==
  /\ \A n, m : C!None \in CatReq(n, m)
  /\ C!None.op = "none"
  BY DEF CatReq, C!None

\* What a request holds stays right when there are more projects and tasks.
LEMMA CatReqGrows ==
  ASSUME NEW n \in Nat, NEW m \in Nat, NEW n2 \in Nat, NEW m2 \in Nat, n <= n2, m <= m2
  PROVE  /\ JobRow(n) \subseteq JobRow(n2)
         /\ ProjectRow(m) \subseteq ProjectRow(m2)
         /\ DeployRows(n) \subseteq DeployRows(n2)
         /\ CatReq(n, m) \subseteq CatReq(n2, m2)
  <1>1. /\ 0 .. n \subseteq 0 .. n2 /\ 1 .. n \subseteq 1 .. n2
        /\ 0 .. m \subseteq 0 .. m2 /\ 1 .. m \subseteq 1 .. m2
    OBVIOUS
  <1>2. JobRow(n) \subseteq JobRow(n2)
    BY <1>1 DEF JobRow
  <1>3. ProjectRow(m) \subseteq ProjectRow(m2)
    BY <1>1 DEF ProjectRow
  <1>4. DeployRows(n) \subseteq DeployRows(n2)
    BY <1>1 DEF DeployRows
  <1>5. SaveTaskReq(n, m) \subseteq SaveTaskReq(n2, m2)
    BY <1>1, <1>2 DEF SaveTaskReq
  <1>6. GetProjectReq(n) \subseteq GetProjectReq(n2)
    BY <1>1 DEF GetProjectReq
  <1>7. SaveProjectReq(n, m) \subseteq SaveProjectReq(n2, m2)
    BY <1>1, <1>3 DEF SaveProjectReq
  <1>8. NewProjectReq(n, m) \subseteq NewProjectReq(n2, m2)
    BY <1>1 DEF NewProjectReq
  <1>9. DeployReq(n) \subseteq DeployReq(n2) /\ ShipReq(n) \subseteq ShipReq(n2)
    BY <1>1 DEF DeployReq, ShipReq
  <1> QED
    BY <1>2, <1>3, <1>4, <1>5, <1>6, <1>7, <1>8, <1>9 DEF CatReq

LEMMA MoreRows ==
  ASSUME NEW T, NEW U, T \subseteq U, NEW s \in Seq(T)
  PROVE  s \in Seq(U)
  OBVIOUS

\* A step that leaves what thread t holds right, and does not lose rows.
LEMMA CatTypesKept ==
  ASSUME CatTypes, NEW t \in CatThread, NEW r \in CatReq(Len(projects'), Len(jobs')),
         creq' = [creq EXCEPT ![t] = r],
         jobs' \in Seq(JobRow(Len(projects'))), projects' \in Seq(ProjectRow(Len(jobs'))),
         Len(jobs) <= Len(jobs'), Len(projects) <= Len(projects'),
         nodes' \subseteq nodes, deploys' \subseteq DeployRows(Len(projects')),
         made' \subseteq ProjectName, casked' \in 0 .. MaxCat
  PROVE  CatTypes'
  <1>1. /\ Len(jobs) \in Nat /\ Len(projects) \in Nat
        /\ Len(jobs') \in Nat /\ Len(projects') \in Nat
    BY DEF CatTypes
  <1>2. CatReq(Len(projects), Len(jobs)) \subseteq CatReq(Len(projects'), Len(jobs'))
    BY <1>1, CatReqGrows
  <1>3. creq \in [CatThread -> CatReq(Len(projects), Len(jobs))]
    BY DEF CatTypes
  <1>4. creq' \in [CatThread -> CatReq(Len(projects'), Len(jobs'))]
    BY <1>2, <1>3
  <1>5. nodes' \subseteq CatNode
    BY DEF CatTypes
  <1> QED
    BY <1>4, <1>5 DEF CatTypes

LEMMA CatTypesFacts ==
  ASSUME CatTypes
  PROVE  /\ Len(jobs) \in Nat /\ DOMAIN jobs = 1 .. Len(jobs)
         /\ Len(projects) \in Nat /\ DOMAIN projects = 1 .. Len(projects)
         /\ \A i \in DOMAIN jobs : jobs[i] \in JobRow(Len(projects))
         /\ \A i \in DOMAIN projects : projects[i] \in ProjectRow(Len(jobs))
         /\ \A t \in CatThread : creq[t] \in CatReq(Len(projects), Len(jobs))
  <1>1. /\ jobs \in Seq(JobRow(Len(projects))) /\ projects \in Seq(ProjectRow(Len(jobs)))
        /\ creq \in [CatThread -> CatReq(Len(projects), Len(jobs))]
    BY DEF CatTypes
  <1> HIDE DEF CatTypes
  <1> QED
    BY <1>1

-----------------------------------------------------------------------------
(* Catalogue: what a step that only changes what thread t holds keeps.     *)

LEMMA ProjectsKeep ==
  ASSUME CatTypes, ProjectRows, NEW t \in CatThread, NEW r, creq' = [creq EXCEPT ![t] = r],
         creq[t].op # "mkdir",
         r.op = "saveProject" => r.row.name = projects[r.project].name,
         r.op = "build" => r.name \in made,
         UNCHANGED <<projects, made, extra>>
  PROVE  ProjectRows'
  <1>1. creq'[t] = r /\ \A u \in CatThread \ {t} : creq'[u] = creq[u]
    BY DEF CatTypes
  <1>2. \A i : Making(i) => Making(i)'
    BY <1>1 DEF Making
  <1>3. /\ (\A u \in CatThread : creq[u].op = "saveProject" =>
              creq[u].row.name = projects[creq[u].project].name)'
        /\ (\A u \in CatThread : creq[u].op = "build" => creq[u].name \in made)'
    BY <1>1 DEF ProjectRows
  <1>4. /\ (\A i \in DOMAIN projects : projects[i].name \notin made \cup extra => Making(i))'
        /\ (\A i, j \in DOMAIN projects :
              (i # j /\ projects[i].name = projects[j].name /\ projects[i].name \notin extra) =>
                  Making(i) \/ Making(j))'
    BY <1>2 DEF ProjectRows
  <1> QED
    BY <1>3, <1>4 DEF ProjectRows

LEMMA NodesKeep ==
  ASSUME CatTypes, NodeRows, NEW t \in CatThread, NEW r, creq' = [creq EXCEPT ![t] = r],
         r.op = "dropNode" => \A d \in deploys' : d.node = r.node => d.node \in orphaned,
         deploys' \subseteq deploys, UNCHANGED <<nodes, orphaned>>
  PROVE  NodeRows'
  <1>1. creq'[t] = r /\ \A u \in CatThread \ {t} : creq'[u] = creq[u]
    BY DEF CatTypes
  <1> QED
    BY <1>1 DEF NodeRows, C!DeployedNodesThere

LEMMA DeploysKeep ==
  ASSUME CatTypes, LiveDeploys, NEW t \in CatThread, NEW r, creq' = [creq EXCEPT ![t] = r],
         r.op # "newDeploy", deploys' \subseteq deploys, UNCHANGED crossed
  PROVE  LiveDeploys'
  <1>1. creq'[t] = r /\ \A u \in CatThread \ {t} : creq'[u] = creq[u]
    BY DEF CatTypes
  <1>2. \A u \in CatThread : creq'[u].op = "newDeploy" => creq'[u] = creq[u]
    BY <1>1
  <1>3. C!OneDeployEach'
    BY DEF LiveDeploys, C!OneDeployEach
  <1> QED
    BY <1>2, <1>3 DEF LiveDeploys, C!SameDeploy

\* A step that changes tasks, and what t holds.
LEMMA CatIdle ==
  ASSUME CatInv, NEW t \in CatThread, NEW r \in CatReq(Len(projects), Len(jobs)),
         creq' = [creq EXCEPT ![t] = r], creq[t].op # "mkdir",
         r.op = "saveProject" => r.row.name = projects[r.project].name,
         r.op = "build" => r.name \in made,
         r.op \notin {"dropNode", "newDeploy"},
         jobs' \in Seq(JobRow(Len(projects))), Len(jobs) <= Len(jobs'),
         casked' \in 0 .. MaxCat,
         UNCHANGED <<projects, nodes, deploys, made, extra, orphaned, crossed>>
  PROVE  CatInv'
  <1>1. CatTypes'
    <2>1. /\ Len(jobs) \in Nat /\ Len(projects) \in Nat
          /\ projects \in Seq(ProjectRow(Len(jobs)))
          /\ deploys \subseteq DeployRows(Len(projects)) /\ made \subseteq ProjectName
      BY DEF CatInv, CatTypes
    <2>2. /\ Len(jobs') \in Nat
          /\ CatReq(Len(projects), Len(jobs)) \subseteq CatReq(Len(projects), Len(jobs'))
          /\ projects \in Seq(ProjectRow(Len(jobs')))
      <3>1. /\ Len(jobs') \in Nat
            /\ ProjectRow(Len(jobs)) \subseteq ProjectRow(Len(jobs'))
            /\ CatReq(Len(projects), Len(jobs)) \subseteq CatReq(Len(projects), Len(jobs'))
        BY <2>1, CatReqGrows
      <3> QED
        BY <2>1, <3>1, MoreRows
    <2>3. /\ CatTypes /\ r \in CatReq(Len(projects'), Len(jobs'))
          /\ jobs' \in Seq(JobRow(Len(projects'))) /\ projects' \in Seq(ProjectRow(Len(jobs')))
          /\ deploys' \subseteq DeployRows(Len(projects'))
          /\ Len(jobs) <= Len(jobs') /\ Len(projects) <= Len(projects')
      BY <2>1, <2>2 DEF CatInv
    <2> QED
      BY <2>1, <2>3, CatTypesKept
  <1>2. ProjectRows'
    BY ProjectsKeep DEF CatInv
  <1>3. NodeRows'
    BY NodesKeep DEF CatInv
  <1>4. LiveDeploys'
    BY DeploysKeep DEF CatInv
  <1> QED
    BY <1>1, <1>2, <1>3, <1>4 DEF CatInv

LEMMA RowPut ==
  ASSUME NEW T, NEW s \in Seq(T), NEW i \in DOMAIN s, NEW x \in T
  PROVE  /\ [s EXCEPT ![i] = x] \in Seq(T)
         /\ Len([s EXCEPT ![i] = x]) = Len(s)
         /\ DOMAIN [s EXCEPT ![i] = x] = DOMAIN s
  <1>1. Len(s) \in Nat /\ [s EXCEPT ![i] = x] \in [1 .. Len(s) -> T] /\ DOMAIN s = 1 .. Len(s)
    BY SeqDom
  <1> QED
    BY <1>1, IsSeq

LEMMA CatTake ==
  ASSUME CatTypes, NEW t \in CatThread, C!Take(t)
  PROVE  creq[t].op = "none" /\ casked' \in 0 .. MaxCat
  <1>1. casked \in 0 .. MaxCat /\ MaxCat \in Nat
    BY BoundsAssumption DEF CatTypes
  <1> QED
    BY <1>1, NoCatRequest DEF C!Take

LEMMA OneProject ==
  ASSUME NEW T, C!Cardinality(T) = 1
  PROVE  C!TheOnly(T) \in T
  <1>1. Cardinality(T) = 1
    BY DEF C!Cardinality, Cardinality
  <1>2. T # {}
    BY <1>1, FS_EmptySet
  <1> QED
    BY <1>2 DEF C!TheOnly

-----------------------------------------------------------------------------
(* Catalogue: tasks.                                                       *)

LEMMA TaskCreateKeeps ==
  ASSUME CatInv, NEW t \in CatThread, C!TaskCreate(t)
  PROVE  CatInv'
  <1>1. creq[t].op = "none" /\ casked' \in 0 .. MaxCat
    BY CatTake DEF C!TaskCreate, CatInv
  <1>2. /\ jobs' = Append(jobs, C!NewJob) /\ creq' = [creq EXCEPT ![t] = creq[t]]
        /\ UNCHANGED <<projects, nodes, deploys, made, extra, orphaned, crossed>>
    BY DEF C!TaskCreate, C!catHistory, CatInv, CatTypes
  <1>3. /\ creq[t] \in CatReq(Len(projects), Len(jobs)) /\ Len(projects) \in Nat
        /\ jobs \in Seq(JobRow(Len(projects)))
    BY CatTypesFacts DEF CatInv, CatTypes
  <1>4. C!NewJob \in JobRow(Len(projects))
    BY <1>3 DEF C!NewJob, JobRow
  <1>5. jobs' \in Seq(JobRow(Len(projects))) /\ Len(jobs) <= Len(jobs')
    BY <1>2, <1>3, <1>4
  <1> QED
    BY <1>1, <1>2, <1>3, <1>5, CatIdle

LEMMA TaskRemoveKeeps ==
  ASSUME CatInv, NEW t \in CatThread, NEW i \in DOMAIN jobs, C!TaskRemove(t, i)
  PROVE  CatInv'
  <1> DEFINE r == [op |-> "saveTask", task |-> i, row |-> [jobs[i] EXCEPT !.deleted = TRUE],
                   next |-> "getProject"]
  <1>1. creq[t].op = "none" /\ casked' \in 0 .. MaxCat
    BY CatTake DEF C!TaskRemove, CatInv
  <1>2. /\ creq' = [creq EXCEPT ![t] = r]
        /\ UNCHANGED <<jobs, projects, nodes, deploys, made, extra, orphaned, crossed>>
    BY DEF C!TaskRemove, C!catHistory, C!Hold
  <1>3. r \in CatReq(Len(projects), Len(jobs)) /\ r.op = "saveTask"
    <2>1. i \in 1 .. Len(jobs) /\ jobs[i] \in JobRow(Len(projects))
      BY CatTypesFacts DEF CatInv
    <2>2. [jobs[i] EXCEPT !.deleted = TRUE] \in JobRow(Len(projects))
      BY <2>1 DEF JobRow
    <2>3. r \in SaveTaskReq(Len(projects), Len(jobs))
      BY <2>1, <2>2 DEF SaveTaskReq
    <2> QED
      BY <2>3 DEF CatReq
  <1>4. jobs' \in Seq(JobRow(Len(projects))) /\ Len(jobs) <= Len(jobs')
    BY <1>2 DEF CatInv, CatTypes
  <1> HIDE DEF r
  <1> QED
    BY <1>1, <1>2, <1>3, <1>4, CatIdle

LEMMA SaveTaskKeeps ==
  ASSUME CatInv, NEW t \in CatThread, C!SaveTask(t)
  PROVE  CatInv'
  <1> DEFINE n == Len(projects)
             m == Len(jobs)
  <1>1. /\ creq[t].op = "saveTask" /\ casked' \in 0 .. MaxCat
        /\ jobs' = [jobs EXCEPT ![creq[t].task] = creq[t].row]
        /\ UNCHANGED <<projects, nodes, deploys, made, extra, orphaned, crossed>>
    BY DEF C!SaveTask, C!catHistory, C!Keep, CatInv, CatTypes
  <1>2. /\ creq[t] \in CatReq(n, m) /\ jobs \in Seq(JobRow(n))
        /\ n \in Nat /\ m \in Nat /\ DOMAIN jobs = 1 .. m
    BY CatTypesFacts DEF CatInv, CatTypes
  <1>3. creq[t] \in SaveTaskReq(n, m)
    BY <1>1, <1>2, CatReqOps
  <1>4. creq[t].task \in 1 .. m /\ creq[t].row \in JobRow(n)
    BY <1>3 DEF SaveTaskReq
  <1>5. jobs' \in Seq(JobRow(n)) /\ Len(jobs) <= Len(jobs')
    BY <1>1, <1>2, <1>4, RowPut
  <1>6. CASE creq[t].next = "getProject" /\ creq[t].row.project = 0
    <2>1. creq' = [creq EXCEPT ![t] = C!None]
      BY <1>6 DEF C!SaveTask, C!Done, C!Hold
    <2> QED
      BY <1>1, <1>5, <2>1, NoCatRequest, CatIdle
  <1>7. CASE creq[t].next = "getProject" /\ creq[t].row.project # 0
    <2> DEFINE r == [op |-> "getProject", project |-> creq[t].row.project]
    <2>1. creq' = [creq EXCEPT ![t] = r]
      BY <1>7 DEF C!SaveTask, C!Hold
    <2>2. r \in CatReq(n, m) /\ r.op = "getProject"
      <3>1. creq[t].row.project \in 1 .. n
        BY <1>2, <1>4, <1>7 DEF JobRow
      <3> QED
        BY <3>1 DEF GetProjectReq, CatReq
    <2> HIDE DEF r
    <2> QED
      BY <1>1, <1>5, <2>1, <2>2, CatIdle
  <1>8. CASE creq[t].next # "getProject"
    <2> DEFINE r == [op |-> "deploy", project |-> creq[t].project, left |-> CatNode]
    <2>1. creq' = [creq EXCEPT ![t] = r]
      BY <1>8 DEF C!SaveTask, C!Hold
    <2>2. r \in CatReq(n, m) /\ r.op = "deploy"
      <3>1. creq[t].project \in 1 .. n
        BY <1>3, <1>8 DEF SaveTaskReq
      <3> QED
        BY <3>1 DEF DeployReq, CatReq
    <2> HIDE DEF r
    <2> QED
      BY <1>1, <1>5, <2>1, <2>2, CatIdle
  <1> QED
    BY <1>6, <1>7, <1>8

LEMMA GetProjectKeeps ==
  ASSUME CatInv, NEW t \in CatThread, C!GetProject(t)
  PROVE  CatInv'
  <1> DEFINE p == creq[t].project
             r == [op |-> "saveProject", project |-> p,
                   row |-> [projects[p] EXCEPT !.deleted = TRUE]]
  <1>1. /\ creq[t].op = "getProject" /\ casked' \in 0 .. MaxCat
        /\ creq' = [creq EXCEPT ![t] = r]
        /\ UNCHANGED <<jobs, projects, nodes, deploys, made, extra, orphaned, crossed>>
    BY DEF C!GetProject, C!catHistory, C!Keep, C!Hold, CatInv, CatTypes
  <1>2. p \in 1 .. Len(projects)
    <2>1. creq[t] \in GetProjectReq(Len(projects))
      BY <1>1, CatReqOps, CatTypesFacts DEF CatInv
    <2> QED
      BY <2>1 DEF GetProjectReq
  <1>3. /\ r \in CatReq(Len(projects), Len(jobs)) /\ r.op = "saveProject"
        /\ r.project = p /\ r.row.name = projects[p].name
    <2>1. projects[p] \in ProjectRow(Len(jobs))
      BY <1>2, CatTypesFacts DEF CatInv
    <2>2. /\ [projects[p] EXCEPT !.deleted = TRUE] \in ProjectRow(Len(jobs))
          /\ [projects[p] EXCEPT !.deleted = TRUE].name = projects[p].name
      BY <2>1 DEF ProjectRow
    <2>3. r \in SaveProjectReq(Len(projects), Len(jobs))
      BY <1>2, <2>2 DEF SaveProjectReq
    <2> QED
      BY <2>2, <2>3 DEF CatReq
  <1>4. jobs' \in Seq(JobRow(Len(projects))) /\ Len(jobs) <= Len(jobs')
    BY <1>1 DEF CatInv, CatTypes
  <1> HIDE DEF r
  <1> QED
    BY <1>1, <1>3, <1>4, CatIdle

-----------------------------------------------------------------------------
(* Catalogue: creating and building projects.                              *)

\* A step that makes or saves a project, and does not lose any.
LEMMA CatTypesProjects ==
  ASSUME CatTypes, NEW t \in CatThread, NEW r \in CatReq(Len(projects'), Len(jobs)),
         creq' = [creq EXCEPT ![t] = r],
         projects' \in Seq(ProjectRow(Len(jobs))), Len(projects) <= Len(projects'),
         made' \subseteq ProjectName, casked' \in 0 .. MaxCat,
         UNCHANGED <<jobs, nodes, deploys>>
  PROVE  CatTypes'
  <1>1. /\ Len(jobs) \in Nat /\ Len(projects) \in Nat /\ Len(projects') \in Nat
        /\ jobs \in Seq(JobRow(Len(projects))) /\ deploys \subseteq DeployRows(Len(projects))
    BY DEF CatTypes
  <1>2. /\ JobRow(Len(projects)) \subseteq JobRow(Len(projects'))
        /\ DeployRows(Len(projects)) \subseteq DeployRows(Len(projects'))
    BY <1>1, CatReqGrows
  <1>3. jobs \in Seq(JobRow(Len(projects')))
    BY <1>1, <1>2, MoreRows
  <1>4. /\ r \in CatReq(Len(projects'), Len(jobs'))
        /\ jobs' \in Seq(JobRow(Len(projects'))) /\ projects' \in Seq(ProjectRow(Len(jobs')))
        /\ deploys' \subseteq DeployRows(Len(projects'))
        /\ Len(jobs) <= Len(jobs') /\ Len(projects) <= Len(projects')
    BY <1>1, <1>2, <1>3
  <1> QED
    BY <1>4, CatTypesKept

LEMMA SaveProjectKeeps ==
  ASSUME CatInv, NEW t \in CatThread, C!SaveProject(t)
  PROVE  CatInv'
  <1> DEFINE p == creq[t].project
             row == creq[t].row
  <1>1. /\ creq[t].op = "saveProject" /\ casked' \in 0 .. MaxCat
        /\ projects' = [projects EXCEPT ![p] = row] /\ creq' = [creq EXCEPT ![t] = C!None]
        /\ UNCHANGED <<jobs, nodes, deploys, made, extra, orphaned, crossed>>
    BY DEF C!SaveProject, C!catHistory, C!Keep, C!Done, C!Hold, CatInv, CatTypes
  <1>2. /\ projects \in Seq(ProjectRow(Len(jobs))) /\ DOMAIN projects = 1 .. Len(projects)
        /\ Len(projects) \in Nat /\ made \subseteq ProjectName
    BY CatTypesFacts DEF CatInv, CatTypes
  <1>3. p \in DOMAIN projects /\ row \in ProjectRow(Len(jobs)) /\ row.name = projects[p].name
    <2>1. creq[t] \in SaveProjectReq(Len(projects), Len(jobs))
      BY <1>1, CatReqOps, CatTypesFacts DEF CatInv
    <2> QED
      BY <1>1, <1>2, <2>1 DEF SaveProjectReq, CatInv, ProjectRows
  <1>4. /\ projects' \in Seq(ProjectRow(Len(jobs))) /\ Len(projects') = Len(projects)
        /\ DOMAIN projects' = DOMAIN projects
    BY <1>1, <1>2, <1>3, RowPut
  <1>5. CatTypes'
    <2>1. /\ C!None \in CatReq(Len(projects'), Len(jobs)) /\ Len(projects) <= Len(projects')
          /\ made' \subseteq ProjectName
      BY <1>1, <1>2, <1>4, NoCatRequest
    <2> QED
      BY <1>1, <1>4, <2>1, CatTypesProjects DEF CatInv
  <1>6. \A i \in DOMAIN projects : projects'[i].name = projects[i].name
    BY <1>1, <1>3
  <1>7. ProjectRows'
    <2>1. /\ \A u \in CatThread \ {t} : creq'[u] = creq[u]
          /\ creq'[t].op = "none"
      BY <1>1, NoCatRequest DEF CatInv, CatTypes
    <2>2. \A i : Making(i) => Making(i)'
      BY <1>1, <2>1 DEF Making
    <2>3. \A u \in CatThread : creq'[u].op = "saveProject" =>
             creq'[u].row.name = projects'[creq'[u].project].name
      <3> SUFFICES ASSUME NEW u \in CatThread, creq'[u].op = "saveProject"
                   PROVE  creq'[u].row.name = projects'[creq'[u].project].name
        OBVIOUS
      <3>1. creq'[u] = creq[u] /\ creq[u] \in SaveProjectReq(Len(projects), Len(jobs))
        BY <2>1, CatReqOps, CatTypesFacts DEF CatInv
      <3>2. creq[u].project \in DOMAIN projects
        BY <1>2, <3>1 DEF SaveProjectReq
      <3> QED
        BY <1>6, <3>1, <3>2 DEF CatInv, ProjectRows
    <2>4. \A u \in CatThread : creq'[u].op = "build" => creq'[u].name \in made'
      BY <1>1, <2>1 DEF CatInv, ProjectRows
    <2>5. \A i \in DOMAIN projects' : projects'[i].name \notin made' \cup extra' => Making(i)'
      BY <1>1, <1>4, <1>6, <2>2 DEF CatInv, ProjectRows
    <2>6. \A i, j \in DOMAIN projects' :
             (i # j /\ projects'[i].name = projects'[j].name /\ projects'[i].name \notin extra') =>
                 Making(i)' \/ Making(j)'
      BY <1>1, <1>4, <1>6, <2>2 DEF CatInv, ProjectRows
    <2> QED
      BY <2>3, <2>4, <2>5, <2>6 DEF ProjectRows
  <1>8. NodeRows' /\ LiveDeploys'
    BY <1>1, NoCatRequest, NodesKeep, DeploysKeep DEF CatInv
  <1> QED
    BY <1>5, <1>7, <1>8 DEF CatInv

\* A row is added at the end, of a name that has a directory and no other row, or
\* in extra, or that t is going to make.
LEMMA AddedProject ==
  ASSUME CatTypes, ProjectRows, NEW t \in CatThread, NEW r, NEW row,
         creq[t].op # "mkdir", creq' = [creq EXCEPT ![t] = r],
         r.op \notin {"saveProject", "build"},
         projects' = Append(projects, row), UNCHANGED made, extra \subseteq extra',
         \/ r.op = "mkdir" /\ r.project = Len(projects) + 1
         \/ row.name \in made /\ (row.name \in extra' \/ C!Named(row.name) = {})
  PROVE  ProjectRows'
  <1>0. PICK new : new = Len(projects) + 1
    OBVIOUS
  <1>1. /\ Len(projects) \in Nat /\ DOMAIN projects = 1 .. Len(projects)
        /\ DOMAIN projects' = DOMAIN projects \cup {new} /\ new \notin DOMAIN projects
        /\ projects'[new] = row /\ \A i \in DOMAIN projects : projects'[i] = projects[i]
    BY <1>0 DEF CatTypes
  <1>2. creq'[t] = r /\ \A u \in CatThread \ {t} : creq'[u] = creq[u]
    BY DEF CatTypes
  <1>3. \A i : Making(i) => Making(i)'
    BY <1>2 DEF Making
  <1>4. r.op = "mkdir" /\ r.project = new => Making(new)'
    BY <1>2 DEF Making
  <1>5. \A u \in CatThread : creq'[u].op = "saveProject" =>
             creq'[u].row.name = projects'[creq'[u].project].name
    <2> SUFFICES ASSUME NEW u \in CatThread, creq'[u].op = "saveProject"
                 PROVE  creq'[u].row.name = projects'[creq'[u].project].name
      OBVIOUS
    <2>1. creq'[u] = creq[u] /\ creq[u] \in SaveProjectReq(Len(projects), Len(jobs))
      BY <1>2, CatReqOps, CatTypesFacts
    <2>2. creq[u].project \in DOMAIN projects
      BY <1>1, <2>1 DEF SaveProjectReq
    <2> QED
      BY <1>1, <2>1, <2>2 DEF ProjectRows
  <1>6. \A u \in CatThread : creq'[u].op = "build" => creq'[u].name \in made'
    BY <1>2 DEF ProjectRows
  <1>7. \A i \in DOMAIN projects' : projects'[i].name \notin made' \cup extra' => Making(i)'
    BY <1>0, <1>1, <1>3, <1>4 DEF ProjectRows
  <1>8. ASSUME NEW i \in DOMAIN projects', NEW j \in DOMAIN projects', i # j,
               projects'[i].name = projects'[j].name, projects'[i].name \notin extra'
        PROVE  Making(i)' \/ Making(j)'
    <2>1. CASE i # new /\ j # new
      <3>1. Making(i) \/ Making(j)
        BY <1>1, <1>8, <2>1 DEF ProjectRows
      <3> QED
        BY <1>3, <3>1
    <2>2. CASE i = new \/ j = new
      <3>1. C!Named(row.name) # {} /\ row.name \notin extra'
        BY <1>1, <1>8, <2>2 DEF C!Named
      <3> QED
        BY <1>0, <1>4, <2>2, <3>1
    <2> QED
      BY <2>1, <2>2
  <1> QED
    BY <1>5, <1>6, <1>7, <1>8 DEF ProjectRows

LEMMA ProjectCreateKeeps ==
  ASSUME CatInv, NEW t \in CatThread, NEW i \in DOMAIN jobs,
         NEW name \in ProjectName, NEW about \in About, C!ProjectCreate(t, name, about, i)
  PROVE  CatInv'
  <1> DEFINE row == [name |-> name, about |-> about, task |-> i, deleted |-> FALSE]
             found == {j \in C!Named(name) : projects[j].about = about /\ projects[j].task = i}
             r(p) == [op |-> "mkdir", task |-> i, project |-> p]
  <1>1. /\ creq[t].op = "none" /\ casked' \in 0 .. MaxCat
        /\ UNCHANGED <<jobs, nodes, deploys, made, extra, orphaned, crossed>>
    BY CatTake DEF C!ProjectCreate, C!catHistory, CatInv
  <1>2. /\ projects \in Seq(ProjectRow(Len(jobs))) /\ DOMAIN projects = 1 .. Len(projects)
        /\ jobs \in Seq(JobRow(Len(projects)))
        /\ Len(projects) \in Nat /\ Len(jobs) \in Nat /\ i \in 1 .. Len(jobs)
        /\ made \subseteq ProjectName /\ creq[t] \in CatReq(Len(projects), Len(jobs))
        /\ jobs' \in Seq(JobRow(Len(projects))) /\ Len(jobs) <= Len(jobs')
    BY <1>1, CatTypesFacts DEF CatInv, CatTypes
  <1>3. CASE C!Cardinality(found) > 1
    <2>1. creq' = [creq EXCEPT ![t] = creq[t]] /\ UNCHANGED projects
      BY <1>3 DEF C!ProjectCreate, CatInv, CatTypes
    <2> QED
      BY <1>1, <1>2, <2>1, CatIdle
  <1>4. CASE ~ (C!Cardinality(found) > 1) /\ found # {}
    <2> DEFINE p == C!TheOnly(found)
    <2>1. creq' = [creq EXCEPT ![t] = r(p)] /\ UNCHANGED projects
      BY <1>4 DEF C!ProjectCreate, C!Hold
    <2>2. p \in 1 .. Len(projects)
      BY <1>2, <1>4 DEF C!TheOnly, C!Named
    <2>3. r(p) \in CatReq(Len(projects), Len(jobs)) /\ r(p).op = "mkdir"
      BY <1>2, <2>2 DEF NewProjectReq, CatReq
    <2> HIDE DEF r
    <2> QED
      BY <1>1, <1>2, <2>1, <2>3, CatIdle
  <1>5. CASE ~ (C!Cardinality(found) > 1) /\ found = {}
    <2> DEFINE new == Len(projects) + 1
    <2>1. projects' = Append(projects, row) /\ creq' = [creq EXCEPT ![t] = r(Len(projects'))]
      BY <1>5 DEF C!ProjectCreate, C!Hold
    <2>2. row \in ProjectRow(Len(jobs))
      BY <1>2 DEF ProjectRow
    <2> HIDE DEF row
    <2>3. projects' \in Seq(ProjectRow(Len(jobs))) /\ Len(projects') = new
      BY <1>2, <2>1, <2>2
    <2>4. /\ r(new) \in CatReq(new, Len(jobs)) /\ r(new).op = "mkdir" /\ r(new).project = new
          /\ creq' = [creq EXCEPT ![t] = r(new)]
      <3>1. new \in 1 .. new
        BY <1>2
      <3> QED
        BY <1>2, <2>1, <2>3, <3>1 DEF NewProjectReq, CatReq
    <2> HIDE DEF r
    <2>5. CatTypes'
      <3>1. /\ r(new) \in CatReq(Len(projects'), Len(jobs)) /\ Len(projects) <= Len(projects')
            /\ made' \subseteq ProjectName
        BY <1>1, <1>2, <2>3, <2>4
      <3> QED
        BY <1>1, <2>3, <2>4, <3>1, CatTypesProjects DEF CatInv
    <2>6. ProjectRows'
      BY <1>1, <2>1, <2>4, AddedProject DEF CatInv
    <2>7. NodeRows' /\ LiveDeploys'
      BY <1>1, <2>4, NodesKeep, DeploysKeep DEF CatInv
    <2> QED
      BY <2>5, <2>6, <2>7 DEF CatInv
  <1> QED
    BY <1>3, <1>4, <1>5

\* Of two rows of a name that had no directory, another thread is about to be
\* refused the other.
LEMMA MakeProjectKeeps ==
  ASSUME CatInv, NEW t \in CatThread, C!MakeProject(t)
  PROVE  CatInv'
  <1> DEFINE n == Len(projects)
             m == Len(jobs)
             name == projects[creq[t].project].name
  <1>1. /\ creq[t].op = "mkdir" /\ casked' \in 0 .. MaxCat
        /\ made \subseteq made' /\ made' \subseteq made \cup {name}
        /\ UNCHANGED <<jobs, projects, nodes, deploys, orphaned, crossed>>
    BY DEF C!MakeProject, C!Keep, CatInv, CatTypes
  <1>2. /\ creq \in [CatThread -> CatReq(n, m)] /\ DOMAIN projects = 1 .. n
        /\ projects \in Seq(ProjectRow(m)) /\ n \in Nat
        /\ made \subseteq ProjectName
    BY CatTypesFacts DEF CatInv, CatTypes
  <1>3. \A u \in CatThread : creq[u].op = "mkdir" => creq[u].project \in DOMAIN projects
    <2> SUFFICES ASSUME NEW u \in CatThread, creq[u].op = "mkdir"
                 PROVE  creq[u].project \in DOMAIN projects
      OBVIOUS
    <2>1. creq[u] \in NewProjectReq(n, m)
      BY <1>2, CatReqOps
    <2> QED
      BY <1>2, <2>1 DEF NewProjectReq
  <1>4. PICK r \in CatReq(n, m) : /\ creq' = [creq EXCEPT ![t] = r]
                                  /\ r.op \in {"none", "generate"}
    <2>1. CASE C!Done(t)
      <3>1. creq' = [creq EXCEPT ![t] = C!None]
        BY <2>1 DEF C!Done, C!Hold
      <3> QED
        BY <3>1, NoCatRequest
    <2>2. CASE C!Hold(t, [creq[t] EXCEPT !.op = "generate"])
      <3>1. creq[t] \in NewProjectReq(n, m)
        BY <1>1, <1>2, CatReqOps
      <3>2. /\ [creq[t] EXCEPT !.op = "generate"] \in NewProjectReq(n, m)
            /\ [creq[t] EXCEPT !.op = "generate"].op = "generate"
        BY <3>1 DEF NewProjectReq
      <3>3. creq' = [creq EXCEPT ![t] = [creq[t] EXCEPT !.op = "generate"]]
        BY <2>2 DEF C!Hold
      <3> QED
        BY <3>2, <3>3 DEF CatReq
    <2> QED
      BY <2>1, <2>2 DEF C!MakeProject
  <1>5. \/ extra' = extra \cup {name}
        \/ extra' = extra /\ name \in made' /\ name \notin made
    BY DEF C!MakeProject
  <1>6. CatTypes'
    <2>1. creq[t].project \in DOMAIN projects /\ name \in ProjectName
      BY <1>1, <1>2, <1>3, CatTypesFacts DEF CatInv, ProjectRow
    <2>2. /\ r \in CatReq(Len(projects'), Len(jobs)) /\ Len(projects) <= Len(projects')
          /\ made' \subseteq ProjectName /\ projects' \in Seq(ProjectRow(Len(jobs)))
      BY <1>1, <1>2, <2>1
    <2> QED
      BY <1>1, <1>4, <2>2, CatTypesProjects DEF CatInv
  <1>7. creq'[t] = r /\ \A u \in CatThread \ {t} : creq'[u] = creq[u]
    BY <1>2, <1>4
  <1>8. ASSUME NEW i, Making(i), i # creq[t].project
        PROVE  Making(i)'
    <2>1. PICK u \in CatThread : creq[u].op = "mkdir" /\ creq[u].project = i
      BY <1>8 DEF Making
    <2>2. u # t
      BY <1>8, <2>1
    <2> QED
      BY <1>7, <2>1, <2>2 DEF Making
  <1>9. ProjectRows'
    <2>1. \A u \in CatThread : creq'[u].op = "saveProject" =>
             creq'[u].row.name = projects'[creq'[u].project].name
      BY <1>1, <1>4, <1>7 DEF CatInv, ProjectRows
    <2>2. \A u \in CatThread : creq'[u].op = "build" => creq'[u].name \in made'
      BY <1>1, <1>4, <1>7 DEF CatInv, ProjectRows
    <2>3. ASSUME NEW i \in DOMAIN projects, projects[i].name \notin made' \cup extra'
          PROVE  Making(i)'
      <3>1. i # creq[t].project /\ projects[i].name \notin made \cup extra
        BY <1>1, <1>5, <2>3
      <3> QED
        BY <1>8, <3>1 DEF CatInv, ProjectRows
    <2>4. ASSUME NEW i \in DOMAIN projects, NEW j \in DOMAIN projects, i # j,
                 projects[i].name = projects[j].name, projects[i].name \notin extra'
          PROVE  Making(i)' \/ Making(j)'
      <3>1. projects[i].name \notin extra
        BY <1>5, <2>4
      <3>2. CASE i # creq[t].project /\ j # creq[t].project
        <4>1. Making(i) \/ Making(j)
          BY <2>4, <3>1 DEF CatInv, ProjectRows
        <4> QED
          BY <1>8, <3>2, <4>1
      <3>3. CASE i = creq[t].project \/ j = creq[t].project
        <4>1. projects[i].name = name /\ name \notin made
          BY <1>5, <2>4, <3>3
        <4>2. Making(i) /\ Making(j)
          BY <2>4, <3>1, <4>1 DEF CatInv, ProjectRows
        <4> QED
          BY <1>8, <2>4, <4>2
      <3> QED
        BY <3>2, <3>3
    <2> QED
      BY <1>1, <2>1, <2>2, <2>3, <2>4 DEF ProjectRows
  <1>10. NodeRows' /\ LiveDeploys'
    BY <1>1, <1>4, NodesKeep, DeploysKeep DEF CatInv
  <1> QED
    BY <1>6, <1>9, <1>10 DEF CatInv

LEMMA GenerateKeeps ==
  ASSUME CatInv, NEW t \in CatThread, C!Generate(t)
  PROVE  CatInv'
  <1> DEFINE n == Len(projects)
             m == Len(jobs)
  <1>1. /\ creq[t].op = "generate" /\ casked' \in 0 .. MaxCat
        /\ creq' = [creq EXCEPT ![t] = C!None]
        /\ jobs' \in {jobs, [jobs EXCEPT ![creq[t].task].project = creq[t].project]}
        /\ UNCHANGED <<projects, nodes, deploys, made, extra, orphaned, crossed>>
    BY DEF C!Generate, C!catHistory, C!Keep, C!Done, C!Hold, CatInv, CatTypes
  <1>2. jobs \in Seq(JobRow(n)) /\ n \in Nat /\ m \in Nat /\ DOMAIN jobs = 1 .. m
    BY CatTypesFacts DEF CatInv, CatTypes
  <1>3. creq[t].task \in DOMAIN jobs /\ creq[t].project \in 1 .. n
    <2>1. creq[t] \in NewProjectReq(n, m)
      BY <1>1, CatReqOps, CatTypesFacts DEF CatInv
    <2> QED
      BY <1>2, <2>1 DEF NewProjectReq
  <1>4. jobs' \in Seq(JobRow(n)) /\ Len(jobs) <= Len(jobs')
    <2> DEFINE row == [jobs[creq[t].task] EXCEPT !.project = creq[t].project]
    <2>1. row \in JobRow(n)
      BY <1>2, <1>3, CatTypesFacts DEF CatInv, JobRow
    <2>2. jobs' = jobs \/ jobs' = [jobs EXCEPT ![creq[t].task] = row]
      BY <1>1
    <2> HIDE DEF row
    <2> QED
      BY <1>2, <1>3, <2>1, <2>2, RowPut
  <1> QED
    BY <1>1, <1>4, NoCatRequest, CatIdle

LEMMA ProjectBuildKeeps ==
  ASSUME CatInv, NEW t \in CatThread, NEW name \in ProjectName, C!ProjectBuild(t, name)
  PROVE  CatInv'
  <1> DEFINE r == [op |-> "build", name |-> name, found |-> C!Named(name) # {}]
  <1>1. creq[t].op = "none" /\ casked' \in 0 .. MaxCat
    BY CatTake DEF C!ProjectBuild, CatInv
  <1>2. /\ creq' = [creq EXCEPT ![t] = r] /\ name \in made
        /\ UNCHANGED <<jobs, projects, nodes, deploys, made, extra, orphaned, crossed>>
    BY DEF C!ProjectBuild, C!catHistory, C!Hold
  <1>3. r \in CatReq(Len(projects), Len(jobs)) /\ r.op = "build" /\ r.name = name
    <2>1. r \in BuildReq
      BY DEF BuildReq
    <2> QED
      BY <2>1 DEF CatReq
  <1>4. jobs' \in Seq(JobRow(Len(projects))) /\ Len(jobs) <= Len(jobs')
    BY <1>2, CatTypesFacts DEF CatInv, CatTypes
  <1> HIDE DEF r
  <1> QED
    BY <1>1, <1>2, <1>3, <1>4, CatIdle

LEMMA BuildRowKeeps ==
  ASSUME CatInv, NEW t \in CatThread, NEW about \in About, C!BuildRow(t, about)
  PROVE  CatInv'
  <1> DEFINE n == Len(projects)
             m == Len(jobs)
             name == creq[t].name
             live1 == C!LiveNamed(name)
  <1>1. /\ creq[t].op = "build" /\ casked' \in 0 .. MaxCat
        /\ UNCHANGED <<jobs, nodes, deploys, made, orphaned, crossed>>
    BY DEF C!BuildRow, C!Keep, CatInv, CatTypes
  <1>2. /\ projects \in Seq(ProjectRow(m)) /\ DOMAIN projects = 1 .. n
        /\ jobs' \in Seq(JobRow(n)) /\ Len(jobs) <= Len(jobs')
        /\ n \in Nat /\ m \in Nat /\ made \subseteq ProjectName
    BY <1>1, CatTypesFacts DEF CatInv, CatTypes
  <1>3. name \in ProjectName /\ name \in made
    <2>1. creq[t] \in BuildReq
      BY <1>1, CatReqOps, CatTypesFacts DEF CatInv
    <2> QED
      BY <1>1, <2>1 DEF BuildReq, CatInv, ProjectRows
  <1>4. CASE ~ creq[t].found
    <2> DEFINE row == [name |-> name, about |-> about, task |-> 0, deleted |-> FALSE]
    <2>1. /\ projects' = Append(projects, row) /\ creq' = [creq EXCEPT ![t] = C!None]
          /\ extra \subseteq extra' /\ (name \in extra' \/ C!Named(name) = {})
      BY <1>4 DEF C!BuildRow, C!Done, C!Hold
    <2>2. row \in ProjectRow(m) /\ row.name = name
      BY <1>2, <1>3 DEF ProjectRow
    <2> HIDE DEF row
    <2>3. projects' \in Seq(ProjectRow(m)) /\ Len(projects') = n + 1
      BY <1>2, <2>1, <2>2
    <2>4. CatTypes'
      <3>1. /\ C!None \in CatReq(Len(projects'), m) /\ Len(projects) <= Len(projects')
            /\ made' \subseteq ProjectName
        BY <1>1, <1>2, <2>3, NoCatRequest
      <3> QED
        BY <1>1, <2>1, <2>3, <3>1, CatTypesProjects DEF CatInv
    <2>5. ProjectRows'
      <3>1. /\ row.name \in made /\ (row.name \in extra' \/ C!Named(row.name) = {})
            /\ C!None.op \notin {"saveProject", "build"} /\ creq[t].op # "mkdir"
        BY <1>1, <1>3, <2>1, <2>2, NoCatRequest
      <3> QED
        BY <1>1, <2>1, <3>1, AddedProject DEF CatInv
    <2>6. NodeRows' /\ LiveDeploys'
      BY <1>1, <2>1, NoCatRequest, NodesKeep, DeploysKeep DEF CatInv
    <2> QED
      BY <2>4, <2>5, <2>6 DEF CatInv
  <1>5. CASE creq[t].found /\ C!Cardinality(live1) = 1
    <2> DEFINE p == C!TheOnly(live1)
               r == [op |-> "saveProject", project |-> p,
                     row |-> [projects[p] EXCEPT !.about = about]]
    <2>1. creq' = [creq EXCEPT ![t] = r] /\ UNCHANGED <<projects, extra>>
      BY <1>5 DEF C!BuildRow, C!Hold
    <2>2. p \in 1 .. n
      <3>1. p \in live1
        BY <1>5, OneProject
      <3> QED
        BY <1>2, <3>1 DEF C!LiveNamed, C!Named
    <2>3. r \in CatReq(n, m) /\ r.op = "saveProject" /\ r.row.name = projects[r.project].name
      <3>1. projects[p] \in ProjectRow(m)
        BY <1>2, <2>2, CatTypesFacts DEF CatInv
      <3>2. /\ [projects[p] EXCEPT !.about = about] \in ProjectRow(m)
            /\ [projects[p] EXCEPT !.about = about].name = projects[p].name
        BY <3>1 DEF ProjectRow
      <3>3. r \in SaveProjectReq(n, m)
        BY <2>2, <3>2 DEF SaveProjectReq
      <3> QED
        BY <3>2, <3>3 DEF CatReq
    <2> HIDE DEF r
    <2> QED
      BY <1>1, <1>2, <2>1, <2>3, CatIdle
  <1>6. CASE creq[t].found /\ C!Cardinality(live1) # 1
    <2>1. creq' = [creq EXCEPT ![t] = C!None] /\ UNCHANGED <<projects, extra>>
      BY <1>6 DEF C!BuildRow, C!Done, C!Hold
    <2> QED
      BY <1>1, <1>2, <2>1, NoCatRequest, CatIdle
  <1> QED
    BY <1>4, <1>5, <1>6

-----------------------------------------------------------------------------
(* Catalogue: deployment, and removing nodes.                              *)

\* A step that changes deployments and nodes, and what t holds.
LEMMA CatTypesDeploys ==
  ASSUME CatTypes, NEW t \in CatThread, NEW r \in CatReq(Len(projects), Len(jobs)),
         creq' = [creq EXCEPT ![t] = r],
         nodes' \subseteq nodes, deploys' \subseteq DeployRows(Len(projects)),
         casked' \in 0 .. MaxCat, UNCHANGED <<jobs, projects, made>>
  PROVE  CatTypes'
  <1>1. /\ r \in CatReq(Len(projects'), Len(jobs'))
        /\ jobs' \in Seq(JobRow(Len(projects'))) /\ projects' \in Seq(ProjectRow(Len(jobs')))
        /\ deploys' \subseteq DeployRows(Len(projects')) /\ made' \subseteq ProjectName
        /\ Len(jobs) <= Len(jobs') /\ Len(projects) <= Len(projects')
    BY DEF CatTypes
  <1> QED
    BY <1>1, CatTypesKept

LEMMA TaskDeployKeeps ==
  ASSUME CatInv, NEW t \in CatThread, NEW name \in ProjectName, C!TaskDeploy(t, name)
  PROVE  CatInv'
  <1> DEFINE p == C!TheOnly(C!LiveNamed(name))
             r == [op |-> "saveTask", task |-> projects[p].task, next |-> "deploy",
                   project |-> p,
                   row |-> [jobs[projects[p].task] EXCEPT !.deployed = TRUE]]
  <1>1. creq[t].op = "none" /\ casked' \in 0 .. MaxCat
    BY CatTake DEF C!TaskDeploy, CatInv
  <1>2. /\ creq' = [creq EXCEPT ![t] = r] /\ projects[p].task # 0
        /\ C!Cardinality(C!LiveNamed(name)) = 1
        /\ UNCHANGED <<jobs, projects, nodes, deploys, made, extra, orphaned, crossed>>
    BY DEF C!TaskDeploy, C!catHistory, C!Hold
  <1>3. p \in DOMAIN projects /\ DOMAIN projects = 1 .. Len(projects)
    <2>1. p \in C!LiveNamed(name)
      BY <1>2, OneProject
    <2> QED
      BY <2>1, CatTypesFacts DEF C!LiveNamed, C!Named, CatInv
  <1>4. projects[p].task \in 1 .. Len(jobs)
    <2>1. projects[p].task \in 0 .. Len(jobs) /\ Len(jobs) \in Nat
      BY <1>3, CatTypesFacts DEF CatInv, ProjectRow
    <2> QED
      BY <1>2, <2>1
  <1>5. [jobs[projects[p].task] EXCEPT !.deployed = TRUE] \in JobRow(Len(projects))
    <2>1. jobs[projects[p].task] \in JobRow(Len(projects))
      BY <1>4, CatTypesFacts DEF CatInv
    <2> QED
      BY <2>1 DEF JobRow
  <1>6. r \in CatReq(Len(projects), Len(jobs)) /\ r.op = "saveTask"
    <2>1. r \in SaveTaskReq(Len(projects), Len(jobs))
      BY <1>3, <1>4, <1>5 DEF SaveTaskReq
    <2> QED
      BY <2>1 DEF CatReq
  <1>7. jobs' \in Seq(JobRow(Len(projects))) /\ Len(jobs) <= Len(jobs')
    BY <1>2, CatTypesFacts DEF CatInv, CatTypes
  <1> HIDE DEF r
  <1> QED
    BY <1>1, <1>2, <1>6, <1>7, CatIdle

LEMMA ShipToKeeps ==
  ASSUME CatInv, NEW t \in CatThread, NEW n \in CatNode, C!ShipTo(t, n)
  PROVE  CatInv'
  <1>1. /\ creq[t].op = "deploy" /\ casked' \in 0 .. MaxCat
        /\ UNCHANGED <<jobs, projects, nodes, deploys, made, extra, orphaned, crossed>>
    BY DEF C!ShipTo, C!catHistory, C!Keep, CatInv, CatTypes
  <1>2. jobs' \in Seq(JobRow(Len(projects))) /\ Len(jobs) <= Len(jobs')
    BY <1>1, CatTypesFacts DEF CatInv, CatTypes
  <1>3. CASE C!Hold(t, [op |-> "markOld", project |-> creq[t].project,
                        left |-> creq[t].left \ {n}, node |-> n])
    <2> DEFINE r == [op |-> "markOld", project |-> creq[t].project,
                     left |-> creq[t].left \ {n}, node |-> n]
    <2>1. creq' = [creq EXCEPT ![t] = r]
      BY <1>3 DEF C!Hold
    <2>2. r \in CatReq(Len(projects), Len(jobs)) /\ r.op = "markOld"
      <3>1. creq[t] \in DeployReq(Len(projects))
        BY <1>1, CatReqOps, CatTypesFacts DEF CatInv
      <3>2. r \in ShipReq(Len(projects))
        BY <3>1 DEF DeployReq, ShipReq
      <3> QED
        BY <3>2 DEF CatReq
    <2> HIDE DEF r
    <2> QED
      BY <1>1, <1>2, <2>1, <2>2, CatIdle
  <1>4. CASE C!Done(t)
    <2>1. creq' = [creq EXCEPT ![t] = C!None]
      BY <1>4 DEF C!Done, C!Hold
    <2> QED
      BY <1>1, <1>2, <2>1, NoCatRequest, CatIdle
  <1> QED
    BY <1>3, <1>4 DEF C!ShipTo

LEMMA EndDeployKeeps ==
  ASSUME CatInv, NEW t \in CatThread, C!EndDeploy(t)
  PROVE  CatInv'
  <1>1. /\ creq[t].op = "deploy" /\ casked' \in 0 .. MaxCat
        /\ creq' = [creq EXCEPT ![t] = C!None]
        /\ UNCHANGED <<jobs, projects, nodes, deploys, made, extra, orphaned, crossed>>
    BY DEF C!EndDeploy, C!catHistory, C!Keep, C!Done, C!Hold, CatInv, CatTypes
  <1>2. jobs' \in Seq(JobRow(Len(projects))) /\ Len(jobs) <= Len(jobs')
    BY <1>1, CatTypesFacts DEF CatInv, CatTypes
  <1> QED
    BY <1>1, <1>2, NoCatRequest, CatIdle

\* All the deployments there were of the node and the project are deleted, and
\* if another thread is going to record one, the pair is crossed.
LEMMA MarkOldKeeps ==
  ASSUME CatInv, NEW t \in CatThread, C!MarkOld(t)
  PROVE  CatInv'
  <1> DEFINE pn == creq[t].project
             nd == creq[t].node
             r == [creq[t] EXCEPT !.op = "newDeploy"]
             Marked(d) == IF d.node = nd /\ d.project = pn
                          THEN [d EXCEPT !.deleted = TRUE] ELSE d
  <1>1. /\ creq[t].op = "markOld" /\ casked' \in 0 .. MaxCat
        /\ creq' = [creq EXCEPT ![t] = r]
        /\ deploys' = {Marked(d) : d \in deploys}
        /\ UNCHANGED <<jobs, projects, nodes, made, extra, orphaned>>
    BY DEF C!MarkOld, C!Keep, C!Hold, CatInv, CatTypes
  <1>2. crossed' = IF \E u \in CatThread : C!SameDeploy(t, u)
                   THEN crossed \cup {<<nd, pn>>} ELSE crossed
    BY DEF C!MarkOld
  <1>3. deploys \subseteq DeployRows(Len(projects))
        /\ creq \in [CatThread -> CatReq(Len(projects), Len(jobs))]
    BY DEF CatInv, CatTypes
  <1>4. /\ r \in CatReq(Len(projects), Len(jobs)) /\ r.op = "newDeploy"
        /\ r.node = nd /\ r.project = pn
    <2>1. creq[t] \in ShipReq(Len(projects))
      BY <1>1, CatReqOps, CatTypesFacts DEF CatInv
    <2>2. r \in ShipReq(Len(projects)) /\ r.op = "newDeploy" /\ r.node = nd /\ r.project = pn
      BY <2>1 DEF ShipReq
    <2> QED
      BY <2>2 DEF CatReq
  <1>5. \A d \in deploys : /\ Marked(d) \in DeployRows(Len(projects))
                           /\ Marked(d).node = d.node /\ Marked(d).project = d.project
                           /\ Marked(d) = d \/ Marked(d).deleted
                           /\ d.node = nd /\ d.project = pn => Marked(d).deleted
    <2> SUFFICES ASSUME NEW d \in deploys
                 PROVE  /\ Marked(d) \in DeployRows(Len(projects))
                        /\ Marked(d).node = d.node /\ Marked(d).project = d.project
                        /\ Marked(d) = d \/ Marked(d).deleted
                        /\ d.node = nd /\ d.project = pn => Marked(d).deleted
      OBVIOUS
    <2>1. d \in DeployRows(Len(projects))
      BY <1>3
    <2> QED
      BY <2>1 DEF DeployRows
  <1> HIDE DEF Marked, r
  <1>6. \A e \in deploys' : /\ \E d \in deploys : d.node = e.node /\ d.project = e.project
                            /\ e \in deploys \/ e.deleted
                            /\ e.node = nd /\ e.project = pn => e.deleted
                            /\ e \in DeployRows(Len(projects))
    <2> SUFFICES ASSUME NEW e \in deploys'
                 PROVE  /\ \E d \in deploys : d.node = e.node /\ d.project = e.project
                        /\ e \in deploys \/ e.deleted
                        /\ e.node = nd /\ e.project = pn => e.deleted
                        /\ e \in DeployRows(Len(projects))
      OBVIOUS
    <2>1. PICK d \in deploys : e = Marked(d)
      BY <1>1
    <2> QED
      BY <1>5, <2>1
  <1>7. creq'[t] = r /\ \A u \in CatThread \ {t} : creq'[u] = creq[u]
    BY <1>1, <1>3
  <1>8. CatTypes'
    BY <1>1, <1>4, <1>6, CatTypesDeploys DEF CatInv
  <1>9. ProjectRows'
    BY <1>1, <1>4, ProjectsKeep DEF CatInv
  <1>10. NodeRows'
    <2>1. \A d \in deploys' : d.node \in nodes' \cup orphaned'
      BY <1>1, <1>6 DEF CatInv, NodeRows, C!DeployedNodesThere
    <2>2. \A u \in CatThread : creq'[u].op = "dropNode" =>
             \A d \in deploys' : d.node = creq'[u].node => d.node \in orphaned'
      BY <1>1, <1>4, <1>6, <1>7 DEF CatInv, NodeRows
    <2> QED
      BY <2>1, <2>2 DEF NodeRows, C!DeployedNodesThere
  <1>11. LiveDeploys'
    <2>1. C!OneDeployEach'
      <3>1. crossed \subseteq crossed'
        BY <1>2
      <3> QED
        BY <1>6, <3>1 DEF CatInv, LiveDeploys, C!OneDeployEach
    <2>2. ASSUME NEW u \in CatThread, creq'[u].op = "newDeploy",
                 <<creq'[u].node, creq'[u].project>> \notin crossed'
          PROVE  /\ \A d \in deploys' :
                       d.node = creq'[u].node /\ d.project = creq'[u].project => d.deleted
                 /\ \A w \in CatThread : ~ C!SameDeploy(u, w)'
      <3>1. CASE u = t
        <4>1. \A w \in CatThread : ~ C!SameDeploy(t, w)
          BY <1>2, <1>4, <1>7, <2>2, <3>1
        <4>2. \A w \in CatThread : ~ C!SameDeploy(t, w)'
          BY <1>4, <1>7, <4>1 DEF C!SameDeploy
        <4> QED
          BY <1>4, <1>6, <1>7, <3>1, <4>2
      <3>2. CASE u # t
        <4>1. /\ creq'[u] = creq[u] /\ creq[u].op = "newDeploy"
              /\ <<creq[u].node, creq[u].project>> \notin crossed
          BY <1>2, <1>7, <2>2, <3>2
        <4>2. /\ \A d \in deploys :
                    d.node = creq[u].node /\ d.project = creq[u].project => d.deleted
              /\ \A w \in CatThread : ~ C!SameDeploy(u, w)
          BY <4>1 DEF CatInv, LiveDeploys
        <4>3. ~ C!SameDeploy(u, t)'
          <5>1. ~ C!SameDeploy(t, u)
            BY <1>2, <2>2, <4>1 DEF C!SameDeploy
          <5> QED
            BY <1>4, <1>7, <3>2, <4>1, <5>1 DEF C!SameDeploy
        <4>4. \A w \in CatThread \ {t} : ~ C!SameDeploy(u, w)'
          BY <1>7, <4>1, <4>2 DEF C!SameDeploy
        <4> QED
          BY <1>6, <4>1, <4>2, <4>3, <4>4
      <3> QED
        BY <3>1, <3>2
    <2> QED
      BY <2>1, <2>2 DEF LiveDeploys
  <1> QED
    BY <1>8, <1>9, <1>10, <1>11 DEF CatInv

\* Nobody else is going to record a deployment of a pair that is not crossed, and
\* the ones there were are deleted.
LEMMA NewDeployKeeps ==
  ASSUME CatInv, NEW t \in CatThread, C!NewDeploy(t)
  PROVE  CatInv'
  <1> DEFINE pn == creq[t].project
             nd == creq[t].node
             new == C!DeployRow(nd, pn, casked, t)
             r == [op |-> "deploy", project |-> pn, left |-> creq[t].left]
  <1>1. /\ creq[t].op = "newDeploy" /\ casked' \in 0 .. MaxCat
        /\ creq' = [creq EXCEPT ![t] = r]
        /\ deploys' = deploys \cup {new}
        /\ UNCHANGED <<jobs, projects, nodes, made, extra, crossed>>
    BY DEF C!NewDeploy, C!Keep, C!Hold, CatInv, CatTypes
  <1>2. orphaned' = IF \/ nd \notin nodes
                       \/ \E u \in CatThread : creq[u] = [op |-> "dropNode", node |-> nd]
                    THEN orphaned \cup {nd} ELSE orphaned
    BY DEF C!NewDeploy
  <1>3. /\ deploys \subseteq DeployRows(Len(projects)) /\ casked \in Nat
        /\ creq \in [CatThread -> CatReq(Len(projects), Len(jobs))]
    BY DEF CatInv, CatTypes
  <1>4. creq[t] \in ShipReq(Len(projects))
    BY <1>1, CatReqOps, CatTypesFacts DEF CatInv
  <1>5. r \in CatReq(Len(projects), Len(jobs)) /\ r.op = "deploy"
    <2>1. r \in DeployReq(Len(projects))
      BY <1>4 DEF ShipReq, DeployReq
    <2> QED
      BY <2>1 DEF CatReq
  <1>6. new \in DeployRows(Len(projects)) /\ new.node = nd /\ new.project = pn
    BY <1>3, <1>4 DEF ShipReq, DeployRows, C!DeployRow
  <1> HIDE DEF r, new
  <1>7. creq'[t] = r /\ \A u \in CatThread \ {t} : creq'[u] = creq[u]
    BY <1>1, <1>3
  <1>8. CatTypes'
    <2>1. deploys' \subseteq DeployRows(Len(projects)) /\ nodes' \subseteq nodes
      BY <1>1, <1>3, <1>6
    <2> QED
      BY <1>1, <1>5, <2>1, CatTypesDeploys DEF CatInv
  <1>9. ProjectRows'
    BY <1>1, <1>5, ProjectsKeep DEF CatInv
  <1>10. NodeRows'
    <2>1. orphaned \subseteq orphaned' /\ (nd \notin nodes => nd \in orphaned')
      BY <1>2
    <2>2. \A d \in deploys' : d.node \in nodes' \cup orphaned'
      BY <1>1, <1>6, <2>1 DEF CatInv, NodeRows, C!DeployedNodesThere
    <2>3. ASSUME NEW u \in CatThread, creq'[u].op = "dropNode",
                 NEW d \in deploys', d.node = creq'[u].node
          PROVE  d.node \in orphaned'
      <3>1. u # t /\ creq'[u] = creq[u]
        BY <1>5, <1>7, <2>3
      <3>2. CASE d \in deploys
        BY <2>1, <2>3, <3>1, <3>2 DEF CatInv, NodeRows
      <3>3. CASE d = new
        <4>1. creq[u] \in DropReq
          BY <1>3, <2>3, <3>1, CatReqOps
        <4>2. creq[u] = [op |-> "dropNode", node |-> nd]
          BY <1>6, <2>3, <3>1, <3>3, <4>1 DEF DropReq
        <4> QED
          BY <1>2, <1>6, <3>3, <4>2
      <3> QED
        BY <1>1, <3>2, <3>3
    <2> QED
      BY <2>2, <2>3 DEF NodeRows, C!DeployedNodesThere
  <1>11. LiveDeploys'
    <2>1. <<nd, pn>> \notin crossed =>
             /\ \A d \in deploys : d.node = nd /\ d.project = pn => d.deleted
             /\ \A u \in CatThread : ~ C!SameDeploy(t, u)
      BY <1>1 DEF CatInv, LiveDeploys
    <2>2. C!OneDeployEach'
      <3> SUFFICES ASSUME NEW d \in deploys', NEW e \in deploys', d # e,
                          d.node = e.node, d.project = e.project, ~ d.deleted, ~ e.deleted
                   PROVE  <<d.node, d.project>> \in crossed'
        BY DEF C!OneDeployEach
      <3>1. CASE d \in deploys /\ e \in deploys
        BY <1>1, <3>1 DEF CatInv, LiveDeploys, C!OneDeployEach
      <3>2. CASE d = new \/ e = new
        <4>1. PICK f \in deploys : f.node = nd /\ f.project = pn /\ ~ f.deleted
          BY <1>1, <1>6, <3>2
        <4>2. <<nd, pn>> \in crossed
          BY <2>1, <4>1
        <4> QED
          BY <1>1, <1>6, <3>2, <4>2
      <3> QED
        BY <1>1, <3>1, <3>2
    <2>3. ASSUME NEW u \in CatThread, creq'[u].op = "newDeploy",
                 <<creq'[u].node, creq'[u].project>> \notin crossed'
          PROVE  /\ \A d \in deploys' :
                       d.node = creq'[u].node /\ d.project = creq'[u].project => d.deleted
                 /\ \A w \in CatThread : ~ C!SameDeploy(u, w)'
      <3>1. /\ u # t /\ creq'[u] = creq[u] /\ creq[u].op = "newDeploy"
            /\ <<creq[u].node, creq[u].project>> \notin crossed
        BY <1>1, <1>5, <1>7, <2>3
      <3>2. /\ \A d \in deploys :
                  d.node = creq[u].node /\ d.project = creq[u].project => d.deleted
            /\ \A w \in CatThread : ~ C!SameDeploy(u, w)
        BY <3>1 DEF CatInv, LiveDeploys
      <3>3. ~ (nd = creq[u].node /\ pn = creq[u].project)
        BY <1>1, <3>1, <3>2 DEF C!SameDeploy
      <3>4. \A w \in CatThread : ~ C!SameDeploy(u, w)'
        BY <1>5, <1>7, <3>1, <3>2 DEF C!SameDeploy
      <3> QED
        BY <1>1, <1>6, <3>1, <3>2, <3>3, <3>4
    <2> QED
      BY <2>2, <2>3 DEF LiveDeploys
  <1> QED
    BY <1>8, <1>9, <1>10, <1>11 DEF CatInv

LEMMA NodeRemoveKeeps ==
  ASSUME CatInv, NEW t \in CatThread, NEW n \in CatNode, C!NodeRemove(t, n)
  PROVE  CatInv'
  <1> DEFINE r == [op |-> "dropNode", node |-> n]
  <1>1. creq[t].op = "none" /\ casked' \in 0 .. MaxCat
    BY CatTake DEF C!NodeRemove, CatInv
  <1>2. /\ creq' = [creq EXCEPT ![t] = r] /\ deploys' = {d \in deploys : d.node # n}
        /\ UNCHANGED <<jobs, projects, nodes, made, extra, orphaned, crossed>>
    BY DEF C!NodeRemove, C!catHistory, C!Hold
  <1>3. r \in CatReq(Len(projects), Len(jobs)) /\ r.op = "dropNode" /\ r.node = n
    BY DEF DropReq, CatReq
  <1>4. deploys' \subseteq deploys /\ deploys' \subseteq DeployRows(Len(projects))
    BY <1>2 DEF CatInv, CatTypes
  <1> HIDE DEF r
  <1>5. CatTypes'
    BY <1>1, <1>2, <1>3, <1>4, CatTypesDeploys DEF CatInv
  <1>6. ProjectRows'
    BY <1>1, <1>2, <1>3, ProjectsKeep DEF CatInv
  <1>7. NodeRows'
    BY <1>2, <1>3, <1>4, NodesKeep DEF CatInv
  <1>8. LiveDeploys'
    BY <1>2, <1>3, <1>4, DeploysKeep DEF CatInv
  <1> QED
    BY <1>5, <1>6, <1>7, <1>8 DEF CatInv

LEMMA DropNodeKeeps ==
  ASSUME CatInv, NEW t \in CatThread, C!DropNode(t)
  PROVE  CatInv'
  <1>1. /\ creq[t].op = "dropNode" /\ casked' \in 0 .. MaxCat
        /\ creq' = [creq EXCEPT ![t] = C!None] /\ nodes' = nodes \ {creq[t].node}
        /\ UNCHANGED <<jobs, projects, deploys, made, extra, orphaned, crossed>>
    BY DEF C!DropNode, C!catHistory, C!Keep, C!Done, C!Hold, CatInv, CatTypes
  <1>2. creq'[t] = C!None /\ \A u \in CatThread \ {t} : creq'[u] = creq[u]
    BY <1>1 DEF CatInv, CatTypes
  <1>3. CatTypes'
    <2>1. C!None \in CatReq(Len(projects), Len(jobs)) /\ nodes' \subseteq nodes
          /\ deploys' \subseteq DeployRows(Len(projects))
      BY <1>1, NoCatRequest DEF CatInv, CatTypes
    <2> QED
      BY <1>1, <2>1, CatTypesDeploys DEF CatInv
  <1>4. ProjectRows'
    BY <1>1, NoCatRequest, ProjectsKeep DEF CatInv
  <1>5. NodeRows'
    <2>1. \A d \in deploys' : d.node \in nodes' \cup orphaned'
      BY <1>1 DEF CatInv, NodeRows, C!DeployedNodesThere
    <2>2. \A u \in CatThread : creq'[u].op = "dropNode" =>
             \A d \in deploys' : d.node = creq'[u].node => d.node \in orphaned'
      BY <1>1, <1>2, NoCatRequest DEF CatInv, NodeRows
    <2> QED
      BY <2>1, <2>2 DEF NodeRows, C!DeployedNodesThere
  <1>6. LiveDeploys'
    BY <1>1, NoCatRequest, DeploysKeep DEF CatInv
  <1> QED
    BY <1>3, <1>4, <1>5, <1>6 DEF CatInv

-----------------------------------------------------------------------------
LEMMA CatInit == C!Init => CatInv
  <1> SUFFICES ASSUME C!Init PROVE CatInv
    OBVIOUS
  <1> USE BoundsAssumption DEF C!Init
  <1>1. \A t \in CatThread : creq[t].op = "none"
    BY NoCatRequest
  <1>2. CatTypes
    <2>1. Len(projects) = 0 /\ projects \in Seq(ProjectRow(Len(jobs)))
      OBVIOUS
    <2>2. C!NewJob \in JobRow(0)
      BY DEF C!NewJob, JobRow
    <2>3. jobs \in Seq(JobRow(Len(projects)))
      BY <2>1, <2>2
    <2> QED
      BY <2>1, <2>3, NoCatRequest DEF CatTypes
  <1>3. ProjectRows
    BY <1>1 DEF ProjectRows
  <1>4. NodeRows /\ LiveDeploys
    BY <1>1 DEF NodeRows, LiveDeploys, C!DeployedNodesThere, C!OneDeployEach
  <1> QED
    BY <1>2, <1>3, <1>4 DEF CatInv

LEMMA CatStep ==
  ASSUME CatInv, C!Next
  PROVE  CatInv'
  <1> SUFFICES ASSUME NEW t \in CatThread, C!Serve(t) PROVE CatInv'
    BY DEF C!Next
  <1>1. CASE C!TaskCreate(t)
    BY <1>1, TaskCreateKeeps
  <1>2. CASE \E i \in DOMAIN jobs : C!TaskRemove(t, i)
    BY <1>2, TaskRemoveKeeps
  <1>3. CASE \E i \in DOMAIN jobs : \E name \in ProjectName, about \in About :
                C!ProjectCreate(t, name, about, i)
    BY <1>3, ProjectCreateKeeps
  <1>4. CASE C!SaveTask(t) \/ C!GetProject(t) \/ C!SaveProject(t)
    BY <1>4, SaveTaskKeeps, GetProjectKeeps, SaveProjectKeeps
  <1>5. CASE C!MakeProject(t) \/ C!Generate(t)
    BY <1>5, MakeProjectKeeps, GenerateKeeps
  <1>6. CASE \E name \in ProjectName : C!ProjectBuild(t, name) \/ C!TaskDeploy(t, name)
    BY <1>6, ProjectBuildKeeps, TaskDeployKeeps
  <1>7. CASE \E about \in About : C!BuildRow(t, about)
    BY <1>7, BuildRowKeeps
  <1>8. CASE \E n \in CatNode : C!ShipTo(t, n) \/ C!NodeRemove(t, n)
    BY <1>8, ShipToKeeps, NodeRemoveKeeps
  <1>9. CASE C!EndDeploy(t) \/ C!MarkOld(t) \/ C!NewDeploy(t) \/ C!DropNode(t)
    BY <1>9, EndDeployKeeps, MarkOldKeeps, NewDeployKeeps, DropNodeKeeps
  <1> QED
    BY <1>1, <1>2, <1>3, <1>4, <1>5, <1>6, <1>7, <1>8, <1>9 DEF C!Serve

LEMMA CatStutter ==
  ASSUME CatInv, UNCHANGED catState
  PROVE  CatInv'
  <1> USE DEF catState
  <1>1. CatTypes'
    BY DEF CatInv, CatTypes
  <1>2. ProjectRows'
    BY DEF CatInv, ProjectRows, Making
  <1>3. NodeRows'
    BY DEF CatInv, NodeRows, C!DeployedNodesThere
  <1>4. LiveDeploys'
    BY DEF CatInv, LiveDeploys, C!OneDeployEach, C!SameDeploy
  <1> QED
    BY <1>1, <1>2, <1>3, <1>4 DEF CatInv

LEMMA CatSafe == Spec => []CatInv
  <1>1. Init => CatInv
    BY PartsStart, CatInit
  <1>2. CatInv /\ [Next]_vars => CatInv'
    BY PartsStep, CatStep, CatStutter
  <1> QED
    BY <1>1, <1>2, PTL DEF Spec

-----------------------------------------------------------------------------
\* A script's row is as the last confirmed request made it, and there is one of its
\* name, but for rows that a late save has written back and names that two requests
\* created at once (edit_script_cfg, control_script, script_remove,
\* project_file_read).
THEOREM ScriptsAsConfirmedHolds == Spec => []ScriptsAsConfirmed
  <1>1. ScriptInv => ScriptsAsConfirmed
    BY DEF ScriptInv, ScriptsAsConfirmed, R!ScriptsAsConfirmed
  <1> QED
    BY <1>1, ScriptsSafe, PTL

\* Of two rows of a project that are not removed, either one's creation was or is
\* about to be refused, or it came of a build at the same time; every deployment's
\* node is there, and each node has one live deployment of a project, but for the
\* requests that crossed (project_create, project_build, task_deploy, node_remove).
THEOREM RowsFoundOnceHolds == Spec => []RowsFoundOnce
  <1>1. CatInv => C!OneRowPerProject
    <2> SUFFICES ASSUME CatInv, NEW i \in DOMAIN projects, NEW j \in DOMAIN projects,
                        i # j, projects[i].name = projects[j].name,
                        projects[i].name \notin extra
                 PROVE  \E t \in CatThread :
                           /\ creq[t].op = "mkdir"
                           /\ projects[creq[t].project].name = projects[i].name
      BY DEF C!OneRowPerProject
    <2>1. Making(i) \/ Making(j)
      BY DEF CatInv, ProjectRows
    <2> QED
      BY <2>1 DEF Making
  <1>2. CatInv => RowsFoundOnce
    BY <1>1 DEF CatInv, NodeRows, LiveDeploys, RowsFoundOnce, C!RowsFoundOnce
  <1> QED
    BY <1>2, CatSafe, PTL

\* Every variable of the four modules keeps its type, for any bounds.
THEOREM TypeOKHolds == Spec => []TypeOK
  <1>1. SyncInv => S!TypeOK
    <2> SUFFICES ASSUME SyncInv PROVE S!TypeOK
      OBVIOUS
    <2>1. SyncTypes
      BY DEF SyncInv
    <2>2. /\ tasks \in Seq([name : TaskName, deleted : BOOLEAN])
          /\ instances \in Seq([run : SyncRun, ended : BOOLEAN, deleted : BOOLEAN])
      BY <2>1 DEF SyncTypes, TaskRow, Instance
    <2>3. \A t \in SyncThread : req[t].op \in {"none", "task", "report", "delete", "days"}
      <3>1. /\ S!None.op = "none" /\ (\A r \in TaskReq : r.op = "task")
            /\ (\A r \in ReportReq : r.op = "report") /\ (\A r \in DeleteReq : r.op = "delete")
            /\ (\A r \in DaysReq : r.op = "days")
        BY DEF S!None, TaskReq, ReportReq, DeleteReq, DaysReq
      <3> QED
        BY <2>1, <3>1 DEF SyncTypes, SyncReq
    <2> QED
      BY <2>1, <2>2, <2>3 DEF SyncTypes, S!TypeOK
  <1>2. CatInv => C!TypeOK
    <2> SUFFICES ASSUME CatInv PROVE C!TypeOK
      OBVIOUS
    <2>1. CatTypes /\ DOMAIN projects = 1 .. Len(projects)
      BY CatTypesFacts DEF CatInv
    <2>2. /\ jobs \in Seq([project : 0 .. Len(projects), deleted : BOOLEAN, deployed : BOOLEAN])
          /\ projects \in Seq([name : ProjectName, about : About, task : 0 .. Len(jobs),
                               deleted : BOOLEAN])
      BY <2>1 DEF CatTypes, JobRow, ProjectRow
    <2>3. \A d \in deploys : d.node \in CatNode /\ d.project \in DOMAIN projects
      BY <2>1 DEF CatTypes, DeployRows
    <2> QED
      BY <2>1, <2>2, <2>3 DEF CatTypes, C!TypeOK
  <1>3. ScriptInv => R!TypeOK
    BY DEF ScriptInv, ScriptTypes, ScriptRow, Saving, R!TypeOK
  <1>4. AccountInv => A!TypeOK
    BY DEF AccountInv, AccountTypes, UserRow, A!TypeOK
  <1>5. SyncInv /\ CatInv /\ ScriptInv /\ AccountInv => TypeOK
    BY <1>1, <1>2, <1>3, <1>4 DEF TypeOK
  <1> QED
    BY <1>5, SyncSafe, CatSafe, ScriptsSafe, AccountsSafe, PTL

=============================================================================
