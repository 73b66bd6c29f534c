--------------------------- MODULE EngineKit_proofs ---------------------------
(***************************************************************************)
(* Proofs about EngineKit, for any number of threads, nodes and runs: its  *)
(* types, that every run is in exactly one place, that a run whose task    *)
(* was removed never reaches a node, how far a node can be driven past the *)
(* limit, and that all of it implements RunLife.                           *)
(***************************************************************************)
EXTENDS EngineKit, TLAPS, FiniteSetTheorems

\* The places a run can be in, as facts about single runs.
Held(i) == \E c \in Thread : item[c] = i
Queued(i) == \E k \in 1 .. Len(queue) : queue[k] = i
Waits(i) == \E n \in Node : i \in pending[n]
Runs(i) == \E n \in Node : i \in running[n]

Place == {"fresh", "held", "queued", "waits", "runs", "ended", "lost"}

\* Run i is at w, and nowhere else.
At(i, w) ==
    /\ i \in fresh <=> w = "fresh"
    /\ Held(i) <=> w = "held"
    /\ Queued(i) <=> w = "queued"
    /\ Waits(i) <=> w = "waits"
    /\ Runs(i) <=> w = "runs"
    /\ i \in ended <=> w = "ended"
    /\ i \in lost <=> w = "lost"

Placed == \A i \in Run : \E w \in Place : At(i, w)

\* And there once.
OneThread == \A c, d \in Thread : item[c] = item[d] => item[c] = NoRun \/ c = d
OnePosition == \A j, k \in 1 .. Len(queue) : queue[j] = queue[k] => j = k
OneNode == \A i \in Run, n \in Node : i \in pending[n] \cup running[n] => n = node[i]

Placement == Placed /\ OneThread /\ OnePosition /\ OneNode

\* A thread has a run in hand from the moment it has taken one.
Busy == \A c \in Thread : item[c] = NoRun <=> pc[c] \in {"idle", "look", "pop"}

\* What a cancel is about to stop has reached a node.
Targets == \A i \in ctarget : Waits(i) \/ Runs(i) \/ i \in ended

\* Without a failure the nodes are up, the task is there, and no run is lost.
Faultless == faults = 0 => up = Node /\ live /\ lost = {}

\* Counts are numbers.
Finite == \A n \in Node : IsFiniteSet(pending[n]) /\ IsFiniteSet(running[n])

IInv == TypeOK /\ Busy /\ Placement /\ Targets /\ Faultless /\ Finite

placeVars == <<item, queue, pending, running, ended, lost, fresh, node>>

LEMMA InitIInv == Init => IInv
  <1> SUFFICES ASSUME Init PROVE IInv
    OBVIOUS
  <1> USE ConstantsAssumption DEF Init
  <1>1. TypeOK
    BY DEF TypeOK, Places
  <1>2. Busy /\ Targets /\ Faultless
    BY DEF Busy, Targets, Faultless
  <1>3. Placed
    <2> SUFFICES ASSUME NEW i \in Run PROVE At(i, "fresh")
      BY DEF Placed, Place
    <2> QED
      BY DEF At, Held, Queued, Waits, Runs
  <1>4. OneThread /\ OnePosition /\ OneNode
    BY DEF OneThread, OnePosition, OneNode
  <1>5. Finite
    BY FS_EmptySet DEF Finite
  <1> QED
    BY <1>1, <1>2, <1>3, <1>4, <1>5 DEF IInv, Placement

\* Steps that move no run.
LEMMA Stay ==
  ASSUME Placement, Targets, UNCHANGED placeVars
  PROVE  Placement' /\ (ctarget' \subseteq ctarget => Targets')
  BY DEF Placement, Placed, At, Held, Queued, Waits, Runs, OneThread, OnePosition,
         OneNode, Targets, placeVars

-----------------------------------------------------------------------------
(* Steps that move a run.                                                  *)

\* Where run i is does not change.
Same(i) ==
    /\ i \in fresh' <=> i \in fresh
    /\ Held(i)' <=> Held(i)
    /\ Queued(i)' <=> Queued(i)
    /\ Waits(i)' <=> Waits(i)
    /\ Runs(i)' <=> Runs(i)
    /\ i \in ended' <=> i \in ended
    /\ i \in lost' <=> i \in lost

\* Run i goes from v to w, and no other run moves.
Moved(i, v, w) ==
    /\ At(i, v) /\ At(i, w)'
    /\ \A j \in Run \ {i} : Same(j)

LEMMA MoveOne ==
  ASSUME Placed, NEW x \in Run, NEW w \in Place, At(x, w)',
         \A i \in Run \ {x} : Same(i)
  PROVE  Placed'
  <1> SUFFICES ASSUME NEW i \in Run PROVE \E v \in Place : At(i, v)'
    BY DEF Placed
  <1>1. CASE i = x
    BY <1>1
  <1>2. CASE i # x
    <2>1. PICK v \in Place : At(i, v)
      BY DEF Placed
    <2>2. Same(i)
      BY <1>2
    <2>3. At(i, v)'
      BY <2>1, <2>2 DEF At, Same
    <2> QED
      BY <2>3
  <1> QED
    BY <1>1, <1>2

\* The one place of run i.
LEMMA PlaceOf ==
  ASSUME Placed, NEW i \in Run, NEW w \in Place,
         \/ w = "fresh" /\ i \in fresh
         \/ w = "held" /\ Held(i)
         \/ w = "queued" /\ Queued(i)
         \/ w = "waits" /\ Waits(i)
         \/ w = "runs" /\ Runs(i)
         \/ w = "ended" /\ i \in ended
  PROVE  At(i, w)
  BY DEF Placed, At

LEMMA BeginMoves ==
  ASSUME IInv, NEW c \in Caller, NEW i \in Run, NEW n \in Node, Begin(c, i, n)
  PROVE  Placement' /\ Moved(i, "fresh", "held")
  <1> USE DEF Begin, Thread
  <1>1. item[c] = NoRun /\ item' = [item EXCEPT ![c] = i] /\ item \in [Thread -> Run \cup {NoRun}]
    BY DEF IInv, Busy, TypeOK
  <1>2. At(i, "fresh")
    BY PlaceOf DEF IInv, Placement, Place
  <1>3. At(i, "held")'
    BY <1>1, <1>2 DEF At, Held, Queued, Waits, Runs, nodeVars, cancelVars
  <1>4. ASSUME NEW j \in Run \ {i} PROVE Same(j)
    BY <1>1, ConstantsAssumption DEF Same, Held, Queued, Waits, Runs, nodeVars
  <1>5. Placed'
    BY <1>3, <1>4, MoveOne DEF IInv, Placement, Place
  <1>6. OneThread'
    BY <1>1, <1>2 DEF OneThread, At, Held, IInv, Placement
  <1>7. OnePosition' /\ OneNode'
    BY <1>2 DEF OnePosition, OneNode, At, Waits, Runs, IInv, Placement, TypeOK, nodeVars
  <1> QED
    BY <1>2, <1>3, <1>4, <1>5, <1>6, <1>7 DEF Placement, Moved

LEMMA PushMoves ==
  ASSUME IInv, NEW c \in Thread, Push(c)
  PROVE  Placement' /\ \E i \in Run : i = item[c] /\ Moved(i, "held", "queued")
  <1> USE DEF Push, Return
  <1>0. PICK i \in Run : i = item[c]
    BY DEF IInv, Busy, TypeOK
  <1>1. i # NoRun /\ item' = [item EXCEPT ![c] = NoRun] /\ item \in [Thread -> Run \cup {NoRun}]
    BY <1>0, ConstantsAssumption DEF IInv, Busy, TypeOK
  <1>2. At(i, "held")
    BY <1>0, PlaceOf DEF IInv, Placement, Place, Held
  <1>3. queue \in Seq(Run) /\ queue' = Append(queue, i)
    BY <1>0 DEF IInv, TypeOK
  <1>4. /\ Len(queue') = Len(queue) + 1 /\ queue'[Len(queue) + 1] = i
        /\ \A k \in 1 .. Len(queue) : queue'[k] = queue[k]
        /\ Len(queue) \in Nat
    BY <1>1, <1>3
  <1>5. \A d \in Thread : item[d] = i => d = c
    BY <1>0, <1>1 DEF IInv, Placement, OneThread
  <1>6. Queued(i)' /\ ~ Held(i)'
    BY <1>1, <1>4, <1>5, ConstantsAssumption DEF Queued, Held
  <1>7. At(i, "queued")'
    BY <1>2, <1>6 DEF At, Waits, Runs, nodeVars
  <1>8. ASSUME NEW j \in Run \ {i} PROVE Same(j)
    <2>1. Queued(j)' <=> Queued(j)
      BY <1>4 DEF Queued
    <2>2. Held(j)' <=> Held(j)
      BY <1>0, <1>1, ConstantsAssumption DEF Held
    <2> QED
      BY <2>1, <2>2 DEF Same, Waits, Runs, nodeVars
  <1>9. Placed'
    BY <1>1, <1>7, <1>8, MoveOne DEF IInv, Placement, Place
  <1>10. OneThread'
    BY <1>1 DEF OneThread, IInv, Placement
  <1>11. OnePosition'
    BY <1>2, <1>4 DEF OnePosition, At, Queued, IInv, Placement
  <1>12. OneNode'
    BY DEF OneNode, IInv, Placement, nodeVars
  <1> QED
    BY <1>0, <1>2, <1>7, <1>8, <1>9, <1>10, <1>11, <1>12 DEF Placement, Moved

LEMMA PopMoves ==
  ASSUME IInv, NEW w \in Thread, Pop(w)
  PROVE  Placement' /\ \E i \in Run : i = Head(queue) /\ Moved(i, "queued", "held")
  <1> USE DEF Pop
  <1>1. queue \in Seq(Run) /\ queue # <<>> /\ queue' = Tail(queue) /\ Len(queue) \in Nat \ {0}
    BY DEF IInv, TypeOK
  <1>0. PICK i \in Run : i = queue[1]
    BY <1>1
  <1>2. /\ i = Head(queue) /\ Len(queue') = Len(queue) - 1
        /\ \A k \in 1 .. Len(queue') : queue'[k] = queue[k + 1]
    BY <1>0, <1>1
  <1>3. item[w] = NoRun /\ item' = [item EXCEPT ![w] = i] /\ item \in [Thread -> Run \cup {NoRun}]
    BY <1>2 DEF IInv, Busy, TypeOK
  <1>4. At(i, "queued")
    BY <1>0, <1>1, PlaceOf DEF IInv, Placement, Place, Queued
  <1>5. Held(i)' /\ ~ Queued(i)'
    BY <1>0, <1>1, <1>2, <1>3 DEF Held, Queued, IInv, Placement, OnePosition
  <1>6. At(i, "held")'
    BY <1>4, <1>5 DEF At, Waits, Runs, nodeVars
  <1>7. ASSUME NEW j \in Run \ {i} PROVE Same(j)
    <2>1. Queued(j)' => Queued(j)
      BY <1>1, <1>2 DEF Queued
    <2>2. ASSUME Queued(j) PROVE Queued(j)'
      <3>1. PICK k \in 1 .. Len(queue) : queue[k] = j
        BY <2>2 DEF Queued
      <3>2. k - 1 \in 1 .. Len(queue') /\ queue'[k - 1] = j
        BY <1>0, <1>1, <1>2, <3>1
      <3> QED
        BY <3>2 DEF Queued
    <2>3. Held(j)' <=> Held(j)
      BY <1>3, ConstantsAssumption DEF Held
    <2> QED
      BY <2>1, <2>2, <2>3 DEF Same, Waits, Runs, nodeVars
  <1>8. Placed'
    BY <1>2, <1>6, <1>7, MoveOne DEF IInv, Placement, Place
  <1>9. OneThread'
    BY <1>3, <1>4 DEF OneThread, At, Held, IInv, Placement
  <1>10. OnePosition'
    BY <1>1, <1>2 DEF OnePosition, IInv, Placement
  <1>11. OneNode'
    BY DEF OneNode, IInv, Placement, nodeVars
  <1> QED
    BY <1>2, <1>4, <1>6, <1>7, <1>8, <1>9, <1>10, <1>11 DEF Placement, Moved

LEMMA StartMoves ==
  ASSUME IInv, NEW c \in Thread, Start(c)
  PROVE  Placement' /\ \E i \in Run : i = item[c] /\ Moved(i, "held", "waits")
  <1> USE DEF Start, Return, Target
  <1>0. PICK i \in Run : i = item[c]
    BY DEF IInv, Busy, TypeOK
  <1>9a. PICK n \in Node : n = node[i]
    BY DEF IInv, TypeOK
  <1>1. i # NoRun /\ item' = [item EXCEPT ![c] = NoRun] /\ item \in [Thread -> Run \cup {NoRun}]
    BY <1>0, ConstantsAssumption DEF IInv, Busy, TypeOK
  <1>2. At(i, "held")
    BY <1>0, PlaceOf DEF IInv, Placement, Place, Held
  <1>3. pending' = [pending EXCEPT ![n] = @ \cup {i}] /\ pending \in [Node -> SUBSET Run]
    BY <1>0, <1>9a DEF IInv, TypeOK
  <1>4. \A d \in Thread : item[d] = i => d = c
    BY <1>0, <1>1 DEF IInv, Placement, OneThread
  <1>5. At(i, "waits")'
    BY <1>1, <1>2, <1>3, <1>4, ConstantsAssumption DEF At, Held, Queued, Waits, Runs
  <1>6. ASSUME NEW j \in Run \ {i} PROVE Same(j)
    BY <1>0, <1>1, <1>3, ConstantsAssumption DEF Same, Held, Queued, Waits, Runs
  <1>7. Placed'
    BY <1>1, <1>5, <1>6, MoveOne DEF IInv, Placement, Place
  <1>8. OneThread' /\ OnePosition'
    BY <1>1 DEF OneThread, OnePosition, IInv, Placement
  <1>9. OneNode'
    BY <1>1, <1>3, <1>9a DEF OneNode, IInv, Placement
  <1> QED
    BY <1>0, <1>2, <1>5, <1>6, <1>7, <1>8, <1>9 DEF Placement, Moved

\* Exceptions and restarts: the run in hand is lost, if there is one.
LEMMA RaiseMoves ==
  ASSUME IInv, NEW c \in Thread, Raise(c), UNCHANGED <<nodeVars, queue, fresh, node>>
  PROVE  /\ Placement'
         /\ item[c] # NoRun => \E i \in Run : i = item[c] /\ Moved(i, "held", "lost")
  <1> USE DEF Raise
  <1>1. item' = [item EXCEPT ![c] = NoRun] /\ item \in [Thread -> Run \cup {NoRun}]
    BY DEF IInv, TypeOK
  <1>2. CASE item[c] = NoRun
    <2>1. item' = item /\ lost' = lost
      BY <1>1, <1>2
    <2> QED
      BY <1>2, <2>1, Stay DEF IInv, placeVars, nodeVars
  <1>3. CASE item[c] # NoRun
    <2>1. PICK i \in Run : i = item[c]
      BY <1>1, <1>3
    <2>2. At(i, "held")
      BY <2>1, PlaceOf DEF IInv, Placement, Place, Held
    <2>3. \A d \in Thread : item[d] = i => d = c
      BY <1>3, <2>1 DEF IInv, Placement, OneThread
    <2>4. At(i, "lost")'
      BY <1>1, <1>3, <2>1, <2>2, <2>3 DEF At, Held, Queued, Waits, Runs, nodeVars
    <2>5. ASSUME NEW j \in Run \ {i} PROVE Same(j)
      BY <1>1, <2>1, ConstantsAssumption DEF Same, Held, Queued, Waits, Runs, nodeVars
    <2>6. Placed'
      BY <2>1, <2>4, <2>5, MoveOne DEF IInv, Placement, Place
    <2>7. OneThread' /\ OnePosition' /\ OneNode'
      BY <1>1 DEF OneThread, OnePosition, OneNode, IInv, Placement, nodeVars
    <2> QED
      BY <2>1, <2>2, <2>4, <2>5, <2>6, <2>7 DEF Placement, Moved
  <1> QED
    BY <1>2, <1>3

LEMMA LaunchMoves ==
  ASSUME IInv, NEW n \in Node, NEW i \in Run, Launch(n, i)
  PROVE  Placement' /\ Moved(i, "waits", "runs")
  <1> USE DEF Launch, callVars
  <1>1. /\ pending' = [pending EXCEPT ![n] = @ \ {i}] /\ pending \in [Node -> SUBSET Run]
        /\ running' = [running EXCEPT ![n] = @ \cup {i}] /\ running \in [Node -> SUBSET Run]
    BY DEF IInv, TypeOK
  <1>2. At(i, "waits")
    BY PlaceOf DEF IInv, Placement, Place, Waits
  <1>3. n = node[i] /\ \A m \in Node : i \in pending[m] => m = n
    BY DEF IInv, Placement, OneNode
  <1>4. At(i, "runs")'
    BY <1>1, <1>2, <1>3 DEF At, Held, Queued, Waits, Runs
  <1>5. ASSUME NEW j \in Run \ {i} PROVE Same(j)
    BY <1>1 DEF Same, Held, Queued, Waits, Runs
  <1>6. Placed'
    BY <1>4, <1>5, MoveOne DEF IInv, Placement, Place
  <1>7. OneThread' /\ OnePosition'
    BY DEF OneThread, OnePosition, IInv, Placement
  <1>8. OneNode'
    BY <1>1, <1>3 DEF OneNode, IInv, Placement
  <1> QED
    BY <1>2, <1>4, <1>5, <1>6, <1>7, <1>8 DEF Placement, Moved

\* A run leaves its node: it has finished, or was cancelled.
LEMMA EndMoves ==
  ASSUME IInv, NEW i \in Run, NEW n \in Node, n = node[i],
         Waits(i) \/ Runs(i) \/ i \in ended,
         \/ pending' = [pending EXCEPT ![n] = @ \ {i}]
         \/ pending' = pending /\ i \notin pending[n],
         running' = [running EXCEPT ![n] = @ \ {i}],
         ended' = ended \cup {i},
         UNCHANGED <<item, queue, fresh, lost, node>>
  PROVE  Placement' /\ \E v \in {"waits", "runs", "ended"} : Moved(i, v, "ended")
  <1>1. pending \in [Node -> SUBSET Run] /\ running \in [Node -> SUBSET Run]
    BY DEF IInv, TypeOK
  <1>2. \A m \in Node : i \in pending[m] \cup running[m] => m = n
    BY DEF IInv, Placement, OneNode
  <1>3. PICK w \in {"waits", "runs", "ended"} : At(i, w)
    BY PlaceOf DEF IInv, Placement, Place
  <1>4. ~ Waits(i)' /\ ~ Runs(i)'
    BY <1>1, <1>2 DEF Waits, Runs
  <1>5. At(i, "ended")'
    BY <1>3, <1>4 DEF At, Held, Queued
  <1>6. ASSUME NEW j \in Run \ {i} PROVE Same(j)
    BY <1>1 DEF Same, Held, Queued, Waits, Runs
  <1>7. Placed'
    BY <1>5, <1>6, MoveOne DEF IInv, Placement, Place
  <1>8. OneThread' /\ OnePosition'
    BY DEF OneThread, OnePosition, IInv, Placement
  <1>9. OneNode'
    BY <1>1 DEF OneNode, IInv, Placement
  <1> QED
    BY <1>3, <1>5, <1>6, <1>7, <1>8, <1>9 DEF Placement, Moved

-----------------------------------------------------------------------------
(* The steps keep IInv.                                                    *)

LEMMA Targeted ==
  ASSUME IInv, NEW c \in Thread, pc[c] \notin {"idle", "look", "pop"}
  PROVE  item[c] \in Run /\ Target(c) \in Node
  BY ConstantsAssumption DEF IInv, Busy, TypeOK, Target

LEMMA StillFinite ==
  ASSUME IInv, NEW i,
         \A n \in Node :
            /\ pending'[n] \in {pending[n], pending[n] \ {i}, pending[n] \cup {i}}
            /\ running'[n] \in {running[n], running[n] \ {i}, running[n] \cup {i}}
  PROVE  Finite'
  <1> SUFFICES ASSUME NEW n \in Node
               PROVE  IsFiniteSet(pending'[n]) /\ IsFiniteSet(running'[n])
    BY DEF Finite
  <1>1. IsFiniteSet(pending[n]) /\ IsFiniteSet(running[n])
    BY DEF IInv, Finite
  <1>2. IsFiniteSet(pending[n] \ {i}) /\ IsFiniteSet(running[n] \ {i})
    BY <1>1, FS_RemoveElement
  <1>3. IsFiniteSet(pending[n] \cup {i}) /\ IsFiniteSet(running[n] \cup {i})
    BY <1>1, FS_AddElement
  <1>4. IsFiniteSet(pending'[n])
    <2>1. \/ pending'[n] = pending[n]
          \/ pending'[n] = pending[n] \ {i}
          \/ pending'[n] = pending[n] \cup {i}
      OBVIOUS
    <2> QED
      BY <2>1, <1>1, <1>2, <1>3
  <1>5. IsFiniteSet(running'[n])
    <2>1. \/ running'[n] = running[n]
          \/ running'[n] = running[n] \ {i}
          \/ running'[n] = running[n] \cup {i}
      OBVIOUS
    <2> QED
      BY <2>1, <1>1, <1>2, <1>3
  <1> QED
    BY <1>4, <1>5

\* Steps of schedule and of the delay thread that move no run.
LEMMA GotoKeeps ==
  ASSUME IInv, NEW c \in Thread,
         \/ ListRunning(c) \/ ListPending(c) \/ ReadTask(c)
         \/ Wake(c) \/ Look(c) \/ PopNothing(c) \/ CheckHealth(c)
  PROVE  IInv'
  <1> USE DEF ListRunning, ListPending, ReadTask, Wake, Look, PopNothing, CheckHealth, Goto
  <1>1. UNCHANGED <<placeVars, taskVars, nodeVars, faults, cancelVars>>
    BY DEF placeVars, nodeVars
  <1>2. /\ pc' \in [Thread -> Places]
        /\ \A d \in Thread : pc'[d] \in {"idle", "look", "pop"} <=>
                               pc[d] \in {"idle", "look", "pop"}
    BY DEF IInv, TypeOK, Places
  <1>3. Placement' /\ Targets'
    BY <1>1, Stay DEF IInv, cancelVars
  <1>4. Busy' /\ Faultless' /\ Finite'
    BY <1>1, <1>2 DEF IInv, Busy, Faultless, Finite, placeVars, taskVars, nodeVars
  <1>5. count' \in [Thread -> Nat]
    <2>1. count \in [Thread -> Nat]
      BY DEF IInv, TypeOK
    <2>2. CASE ListRunning(c) \/ ListPending(c)
      <3>1. Target(c) \in Node
        BY <2>2, Targeted
      <3>2. Cardinality(running[Target(c)]) \in Nat /\ Cardinality(pending[Target(c)]) \in Nat
        BY <3>1, FS_CardinalityType DEF IInv, Finite
      <3> QED
        BY <2>1, <2>2, <3>2
    <2> QED
      BY <2>1, <2>2
  <1>6. TypeOK'
    BY <1>1, <1>2, <1>5 DEF IInv, TypeOK, placeVars, taskVars, nodeVars, cancelVars
  <1> QED
    BY <1>3, <1>4, <1>6 DEF IInv

LEMMA BeginKeeps ==
  ASSUME IInv, NEW c \in Caller, NEW i \in Run, NEW n \in Node, Begin(c, i, n)
  PROVE  IInv'
  <1> USE DEF Begin, nodeVars, taskVars, cancelVars
  <1>1. c \in Thread
    BY DEF Thread
  <1>2. TypeOK'
    BY <1>1 DEF IInv, TypeOK, Places
  <1>3. Busy'
    BY <1>1, ConstantsAssumption DEF IInv, Busy, TypeOK
  <1>4. Targets' /\ Faultless' /\ Finite'
    BY DEF IInv, Targets, Faultless, Finite, Waits, Runs
  <1> QED
    BY <1>2, <1>3, <1>4, BeginMoves DEF IInv

LEMMA PushKeeps ==
  ASSUME IInv, NEW c \in Thread, Push(c)
  PROVE  IInv'
  <1> USE DEF Push, Return, nodeVars, taskVars, cancelVars
  <1>1. item[c] \in Run
    BY Targeted
  <1>2. TypeOK'
    <2>1. queue' \in Seq(Run)
      BY <1>1 DEF IInv, TypeOK
    <2> QED
      BY <2>1 DEF IInv, TypeOK, Places
  <1>3. Busy'
    BY DEF IInv, Busy, TypeOK
  <1>4. Targets' /\ Faultless' /\ Finite'
    BY DEF IInv, Targets, Faultless, Finite, Waits, Runs
  <1> QED
    BY <1>2, <1>3, <1>4, PushMoves DEF IInv

LEMMA PopKeeps ==
  ASSUME IInv, NEW w \in Thread, Pop(w)
  PROVE  IInv'
  <1> USE DEF Pop, nodeVars, taskVars, cancelVars
  <1>1. Head(queue) \in Run /\ queue' \in Seq(Run)
    BY DEF IInv, TypeOK
  <1>2. TypeOK'
    BY <1>1 DEF IInv, TypeOK, Places
  <1>3. Busy'
    BY <1>1, ConstantsAssumption DEF IInv, Busy, TypeOK
  <1>4. Targets' /\ Faultless' /\ Finite'
    BY DEF IInv, Targets, Faultless, Finite, Waits, Runs
  <1> QED
    BY <1>2, <1>3, <1>4, PopMoves DEF IInv

LEMMA StartKeeps ==
  ASSUME IInv, NEW c \in Thread, Start(c)
  PROVE  IInv'
  <1> USE DEF Start, Return, taskVars, cancelVars
  <1>1. item[c] \in Run /\ Target(c) \in Node
    BY Targeted
  <1>2. TypeOK'
    BY <1>1 DEF IInv, TypeOK, Places
  <1>3. Busy'
    BY DEF IInv, Busy, TypeOK
  <1>4. pending' = [pending EXCEPT ![Target(c)] = @ \cup {item[c]}] /\ pending \in [Node -> SUBSET Run]
    BY DEF IInv, TypeOK
  <1>5. Targets' /\ Faultless'
    BY <1>4 DEF IInv, Targets, Faultless, Waits, Runs
  <1>6. Finite'
    BY <1>1, <1>4, StillFinite
  <1> QED
    BY <1>2, <1>3, <1>5, <1>6, StartMoves DEF IInv

LEMMA RaiseKeeps ==
  ASSUME IInv, NEW c \in Thread, Raise(c),
         UNCHANGED <<taskVars, nodeVars, queue, fresh, node, cancelVars>>,
         faults' \in 0 .. MaxFaults, faults' # 0
  PROVE  IInv'
  <1> USE DEF Raise, nodeVars, taskVars, cancelVars
  <1>1. TypeOK'
    BY ConstantsAssumption DEF IInv, TypeOK, Places
  <1>2. Busy'
    BY DEF IInv, Busy, TypeOK
  <1>3. Targets' /\ Finite'
    BY DEF IInv, Targets, Finite, Waits, Runs
  <1>4. Faultless'
    BY ConstantsAssumption DEF IInv, Faultless, TypeOK
  <1> QED
    BY <1>1, <1>2, <1>3, <1>4, RaiseMoves DEF IInv

LEMMA FailKeeps ==
  ASSUME IInv, NEW c \in Thread, Fail(c)
  PROVE  IInv'
  <1>1. faults # 0
    BY Targeted DEF Fail, IInv, Faultless
  <1>2. /\ Raise(c)
        /\ UNCHANGED <<taskVars, nodeVars, queue, fresh, node, cancelVars>>
        /\ faults' = faults
    BY DEF Fail
  <1>3. faults' \in 0 .. MaxFaults /\ faults' # 0
    BY <1>1, <1>2 DEF IInv, TypeOK
  <1> QED
    BY <1>2, <1>3, RaiseKeeps

LEMMA LaunchKeeps ==
  ASSUME IInv, NEW n \in Node, NEW i \in Run, Launch(n, i)
  PROVE  IInv'
  <1> USE DEF Launch, callVars, taskVars, cancelVars
  <1>1. /\ pending' = [pending EXCEPT ![n] = @ \ {i}] /\ pending \in [Node -> SUBSET Run]
        /\ running' = [running EXCEPT ![n] = @ \cup {i}] /\ running \in [Node -> SUBSET Run]
    BY DEF IInv, TypeOK
  <1>2. TypeOK'
    BY DEF IInv, TypeOK
  <1>3. Busy' /\ Faultless'
    BY DEF IInv, Busy, Faultless
  <1>4. Targets'
    BY <1>1 DEF IInv, Targets, Waits, Runs
  <1>5. Finite'
    BY <1>1, StillFinite
  <1> QED
    BY <1>2, <1>3, <1>4, <1>5, LaunchMoves DEF IInv

LEMMA FinishKeeps ==
  ASSUME IInv, NEW n \in Node, NEW i \in Run, Finish(n, i)
  PROVE  IInv'
  <1> USE DEF Finish, callVars, taskVars, cancelVars
  <1>1. running' = [running EXCEPT ![n] = @ \ {i}] /\ running \in [Node -> SUBSET Run]
    BY DEF IInv, TypeOK
  <1>2. TypeOK'
    BY DEF IInv, TypeOK
  <1>3. Busy' /\ Faultless'
    BY DEF IInv, Busy, Faultless
  <1>4. Targets'
    BY <1>1 DEF IInv, Targets, Waits, Runs
  <1>5. Finite'
    BY <1>1, StillFinite
  <1>6. Runs(i) /\ n = node[i]
    BY DEF Runs, IInv, Placement, OneNode
  <1>7. At(i, "runs")
    BY <1>6, PlaceOf DEF IInv, Placement, Place
  <1>8. i \notin pending[n]
    BY <1>7 DEF At, Waits
  <1>9. Placement'
    BY <1>6, <1>8, EndMoves
  <1> QED
    BY <1>2, <1>3, <1>4, <1>5, <1>9 DEF IInv

LEMMA CancelKeeps ==
  ASSUME IInv, Cancel
  PROVE  IInv'
  <1> USE DEF nodeVars, callVars, taskVars, cancelVars, placeVars
  <1>1. ASSUME NEW i \in Run, CancelOne(i) PROVE IInv'
    <2> USE <1>1 DEF CancelOne
    <2>1. PICK n \in Node : n = node[i]
      BY DEF IInv, TypeOK
    <2>2. /\ pending' = [pending EXCEPT ![n] = @ \ {i}] /\ pending \in [Node -> SUBSET Run]
          /\ running' = [running EXCEPT ![n] = @ \ {i}] /\ running \in [Node -> SUBSET Run]
      BY <2>1 DEF IInv, TypeOK
    <2>3. TypeOK'
      BY DEF IInv, TypeOK
    <2>4. Busy' /\ Faultless'
      BY DEF IInv, Busy, Faultless
    <2>5. Targets'
      BY <2>2 DEF IInv, Targets, Waits, Runs, TypeOK
    <2>6. Finite'
      BY <2>2, StillFinite
    <2>7. Waits(i) \/ Runs(i) \/ i \in ended
      BY DEF IInv, Targets
    <2>8. Placement'
      BY <2>1, <2>2, <2>7, EndMoves
    <2> QED
      BY <2>3, <2>4, <2>5, <2>6, <2>8 DEF IInv
  <1>2. ASSUME \/ BeginCancel \/ NextNode \/ EndCancel \/ FailCancel
               \/ \E n \in Node : ListToCancel(n)
        PROVE  IInv'
    <2> USE <1>2 DEF BeginCancel, NextNode, EndCancel, FailCancel, ListToCancel
    <2>1. Placement'
      BY Stay DEF IInv
    <2>2. Busy' /\ Faultless' /\ Finite'
      BY DEF IInv, Busy, Faultless, Finite
    <2>3. Targets'
      BY DEF IInv, Targets, Waits, Runs
    <2>4. TypeOK'
      BY ConstantsAssumption DEF IInv, TypeOK, OnNodes
    <2> QED
      BY <2>1, <2>2, <2>3, <2>4 DEF IInv
  <1> QED
    BY <1>1, <1>2 DEF Cancel

LEMMA WorldKeeps ==
  ASSUME IInv,
         \/ \E n \in Node : NodeDown(n) \/ NodeUp(n)
         \/ TaskRemove \/ TaskBack
         \/ \E ns \in SUBSET Node : SetHosts(ns)
  PROVE  IInv'
  <1> USE DEF NodeDown, NodeUp, TaskRemove, TaskBack, SetHosts, nodeVars, callVars, taskVars,
              cancelVars, placeVars
  <1>1. Placement' /\ Targets'
    BY Stay DEF IInv
  <1>2. Busy' /\ Finite'
    BY DEF IInv, Busy, Finite
  <1>3. Faultless'
    BY ConstantsAssumption DEF IInv, Faultless, TypeOK
  <1>4. TypeOK'
    <2>1. CASE TaskRemove
      <3>1. doomed' \subseteq Run
        <4>1. \A c \in Thread : pc[c] \in {"health", "list1", "list2", "task"} => item[c] \in Run
          BY Targeted
        <4>2. \A k \in 1 .. Len(queue) : queue[k] \in Run
          BY DEF IInv, TypeOK
        <4> QED
          BY <2>1, <4>1, <4>2 DEF IInv, TypeOK
      <3>2. faults < MaxFaults /\ faults' = faults + 1 /\ live' = FALSE
        BY <2>1
      <3>3. faults' \in 0 .. MaxFaults
        BY <3>2, ConstantsAssumption DEF IInv, TypeOK
      <3> QED
        BY <2>1, <3>1, <3>2, <3>3 DEF IInv, TypeOK
    <2>2. CASE \E n \in Node : NodeDown(n) \/ NodeUp(n)
      <3>1. faults' \in 0 .. MaxFaults /\ up' \subseteq Node
        BY <2>2, ConstantsAssumption DEF IInv, TypeOK
      <3> QED
        BY <2>2, <3>1 DEF IInv, TypeOK
    <2>3. CASE \E ns \in SUBSET Node : SetHosts(ns)
      <3>1. cancels' \in 0 .. MaxCancels /\ hosts' \subseteq Node
        BY <2>3, ConstantsAssumption DEF IInv, TypeOK
      <3> QED
        BY <2>3, <3>1 DEF IInv, TypeOK
    <2>4. CASE TaskBack
      BY <2>4 DEF IInv, TypeOK
    <2> QED
      BY <2>1, <2>2, <2>3, <2>4
  <1> QED
    BY <1>1, <1>2, <1>3, <1>4 DEF IInv

LEMMA NextIInv == IInv /\ [Next]_vars => IInv'
  <1> SUFFICES ASSUME IInv, [Next]_vars PROVE IInv'
    OBVIOUS
  <1>1. ASSUME NEW c \in Thread, Call(c) PROVE IInv'
    BY <1>1, GotoKeeps, PushKeeps, StartKeeps, FailKeeps DEF Call
  <1>2. ASSUME NEW w \in Worker, Delay(w) PROVE IInv'
    <2>1. w \in Thread
      BY DEF Thread
    <2> QED
      BY <1>1, <1>2, <2>1, GotoKeeps, PopKeeps DEF Delay
  <1>3. CASE Scrapyd
    BY <1>3, LaunchKeeps, FinishKeeps DEF Scrapyd
  <1>4. ASSUME NEW c \in Thread, Restart(c) PROVE IInv'
    <2>1. /\ Raise(c)
          /\ UNCHANGED <<taskVars, nodeVars, queue, fresh, node, cancelVars>>
      BY <1>4 DEF Restart
    <2>2. faults' \in 0 .. MaxFaults /\ faults' # 0
      BY <1>4, ConstantsAssumption DEF Restart, IInv, TypeOK
    <2> QED
      BY <2>1, <2>2, RaiseKeeps
  <1>5. CASE UNCHANGED vars
    <2> USE <1>5 DEF vars, taskVars, nodeVars, callVars, cancelVars, placeVars
    <2>1. Placement' /\ Targets'
      BY Stay DEF IInv
    <2>2. TypeOK' /\ Busy' /\ Faultless' /\ Finite'
      BY DEF IInv, TypeOK, Busy, Faultless, Finite
    <2> QED
      BY <2>1, <2>2 DEF IInv
  <1>6. ASSUME NEW c \in Caller, Call(c) PROVE IInv'
    BY <1>1, <1>6 DEF Thread
  <1> QED
    BY <1>2, <1>3, <1>4, <1>5, <1>6, BeginKeeps, CancelKeeps, WorldKeeps DEF Next

LEMMA SpecIInv == Spec => []IInv
  BY InitIInv, NextIInv, PTL DEF Spec

\* Every variable keeps its type: in particular, every count is a number and
\* every run on the queue is one.
THEOREM TypeCorrect == Spec => []TypeOK
  <1>1. IInv => TypeOK
    BY DEF IInv
  <1> QED
    BY <1>1, SpecIInv, PTL

-----------------------------------------------------------------------------
(* Where runs are, counted.                                                *)

LEMMA NoneCounted == Cardinality({}) = 0
  BY FS_EmptySet

LEMMA OneCounted ==
  ASSUME NEW S, NEW x \in S, \A y \in S : y = x
  PROVE  Cardinality(S) = 1
  <1>1. S = {x}
    OBVIOUS
  <1> QED
    BY <1>1, FS_Singleton

LEMMA RunCounted ==
  ASSUME IInv, NEW i \in Run
  PROVE  Cardinality(Holders(i)) + Cardinality(Positions(i))
             + Cardinality(PendingOn(i)) + Cardinality(RunningOn(i))
             + Cardinality({i} \cap fresh) + Cardinality({i} \cap ended)
             + Cardinality({i} \cap lost) = 1
  <1>1. PICK w \in Place : At(i, w)
    BY DEF IInv, Placement, Placed
  <1>2. i # NoRun
    BY ConstantsAssumption
  <1>3. Cardinality(Holders(i)) = IF w = "held" THEN 1 ELSE 0
    <2>1. CASE Held(i)
      <3>1. PICK c \in Thread : item[c] = i
        BY <2>1 DEF Held
      <3>2. c \in Holders(i) /\ \A d \in Holders(i) : d = c
        BY <3>1, <1>2 DEF Holders, IInv, Placement, OneThread
      <3>3. Cardinality(Holders(i)) = 1
        BY <3>2, OneCounted
      <3> QED
        BY <3>3, <2>1, <1>1 DEF At
    <2>2. CASE ~ Held(i)
      <3>1. Holders(i) = {}
        BY <2>2 DEF Held, Holders
      <3> QED
        BY <3>1, <2>2, <1>1, NoneCounted DEF At
    <2> QED
      BY <2>1, <2>2
  <1>4. Cardinality(Positions(i)) = IF w = "queued" THEN 1 ELSE 0
    <2>1. CASE Queued(i)
      <3>1. PICK k \in 1 .. Len(queue) : queue[k] = i
        BY <2>1 DEF Queued
      <3>2. k \in Positions(i) /\ \A j \in Positions(i) : j = k
        BY <3>1 DEF Positions, IInv, Placement, OnePosition
      <3>3. Cardinality(Positions(i)) = 1
        BY <3>2, OneCounted
      <3> QED
        BY <3>3, <2>1, <1>1 DEF At
    <2>2. CASE ~ Queued(i)
      <3>1. Positions(i) = {}
        BY <2>2 DEF Queued, Positions
      <3> QED
        BY <3>1, <2>2, <1>1, NoneCounted DEF At
    <2> QED
      BY <2>1, <2>2
  <1>5. Cardinality(PendingOn(i)) = IF w = "waits" THEN 1 ELSE 0
    <2>1. CASE Waits(i)
      <3>1. PICK n \in Node : i \in pending[n]
        BY <2>1 DEF Waits
      <3>2. n \in PendingOn(i) /\ \A m \in PendingOn(i) : m = n
        BY <3>1 DEF PendingOn, IInv, Placement, OneNode
      <3>3. Cardinality(PendingOn(i)) = 1
        BY <3>2, OneCounted
      <3> QED
        BY <3>3, <2>1, <1>1 DEF At
    <2>2. CASE ~ Waits(i)
      <3>1. PendingOn(i) = {}
        BY <2>2 DEF Waits, PendingOn
      <3> QED
        BY <3>1, <2>2, <1>1, NoneCounted DEF At
    <2> QED
      BY <2>1, <2>2
  <1>6. Cardinality(RunningOn(i)) = IF w = "runs" THEN 1 ELSE 0
    <2>1. CASE Runs(i)
      <3>1. PICK n \in Node : i \in running[n]
        BY <2>1 DEF Runs
      <3>2. n \in RunningOn(i) /\ \A m \in RunningOn(i) : m = n
        BY <3>1 DEF RunningOn, IInv, Placement, OneNode
      <3>3. Cardinality(RunningOn(i)) = 1
        BY <3>2, OneCounted
      <3> QED
        BY <3>3, <2>1, <1>1 DEF At
    <2>2. CASE ~ Runs(i)
      <3>1. RunningOn(i) = {}
        BY <2>2 DEF Runs, RunningOn
      <3> QED
        BY <3>1, <2>2, <1>1, NoneCounted DEF At
    <2> QED
      BY <2>1, <2>2
  <1>7. ASSUME NEW S PROVE Cardinality({i} \cap S) = IF i \in S THEN 1 ELSE 0
    <2>1. CASE i \in S
      <3>1. {i} \cap S = {i}
        BY <2>1
      <3> QED
        BY <3>1, <2>1, FS_Singleton
    <2>2. CASE i \notin S
      <3>1. {i} \cap S = {}
        BY <2>2
      <3> QED
        BY <3>1, <2>2, NoneCounted
    <2> QED
      BY <2>1, <2>2
  <1>8. Cardinality({i} \cap fresh) = IF w = "fresh" THEN 1 ELSE 0
    BY <1>1, <1>7 DEF At
  <1>9. Cardinality({i} \cap ended) = IF w = "ended" THEN 1 ELSE 0
    BY <1>1, <1>7 DEF At
  <1>10. Cardinality({i} \cap lost) = IF w = "lost" THEN 1 ELSE 0
    BY <1>1, <1>7 DEF At
  <1> QED
    BY <1>3, <1>4, <1>5, <1>6, <1>8, <1>9, <1>10 DEF Place

\* However many callers and delay threads take turns on the queue, and whatever
\* goes down or is killed between two of their steps, a dispatched run is in
\* exactly one place, and none is lost without a failure.
THEOREM RunsAreKept == Spec => []NothingLostOrDoubled
  <1>1. IInv => NothingLostOrDoubled
    BY RunCounted DEF NothingLostOrDoubled, IInv, Faultless
  <1> QED
    BY <1>1, SpecIInv, PTL

-----------------------------------------------------------------------------
(* Runs of a removed task.                                                 *)

\* A run whose task was removed before its row was read is past no reading of
\* the row: no thread is about to start or to push it.  Until the row is live
\* again no later reading lets it through.
Barred ==
    /\ doomed # {} => ~ live
    /\ \A i \in doomed : ~ Waits(i) /\ ~ Runs(i) /\ i \notin ended
    /\ \A c \in Thread : pc[c] \in {"push", "start"} => item[c] \notin doomed

LEMMA InitBarred == Init => Barred
  BY DEF Init, Barred

LEMMA CallBarred ==
  ASSUME IInv, Barred, NEW c \in Thread, Call(c) \/ Restart(c)
  PROVE  Barred'
  <1> USE DEF taskVars, nodeVars, cancelVars, Goto, Return, Raise
  <1>1. CASE ListRunning(c) \/ ListPending(c) \/ Push(c) \/ Fail(c) \/ Restart(c)
    BY <1>1 DEF ListRunning, ListPending, Push, Fail, Restart, Barred, Waits, Runs,
                IInv, TypeOK
  <1>2. CASE ReadTask(c)
    <2>1. doomed = {}
      BY <1>2 DEF ReadTask, Barred
    <2> QED
      BY <1>2, <2>1 DEF ReadTask, Barred
  <1>3. CASE Start(c)
    <2> USE <1>3 DEF Start
    <2>1. Target(c) \in Node /\ item[c] \notin doomed
      BY Targeted DEF Barred
    <2>2. pending' = [pending EXCEPT ![Target(c)] = @ \cup {item[c]}]
          /\ pending \in [Node -> SUBSET Run]
      BY DEF IInv, TypeOK
    <2>3. \A i \in doomed' : ~ Waits(i)' /\ ~ Runs(i)' /\ i \notin ended'
      BY <2>1, <2>2 DEF Barred, Waits, Runs
    <2> QED
      BY <2>3 DEF Barred, IInv, TypeOK
  <1> QED
    BY <1>1, <1>2, <1>3 DEF Call

LEMMA QueueBarred ==
  ASSUME IInv, Barred,
         \/ \E c \in Caller, i \in Run, n \in Node : Begin(c, i, n)
         \/ \E w \in Worker : Wake(w) \/ Look(w) \/ Pop(w) \/ PopNothing(w) \/ CheckHealth(w)
  PROVE  Barred'
  BY DEF Begin, Wake, Look, Pop, PopNothing, CheckHealth, Goto, Barred, Waits, Runs,
         taskVars, nodeVars, IInv, TypeOK, Thread

LEMMA NodesBarred ==
  ASSUME IInv, Barred, Scrapyd \/ Cancel
  PROVE  Barred'
  <1> USE DEF taskVars, nodeVars, callVars
  <1>1. ASSUME NEW n \in Node, NEW i \in Run, Launch(n, i) PROVE Barred'
    <2>1. /\ pending' = [pending EXCEPT ![n] = @ \ {i}] /\ pending \in [Node -> SUBSET Run]
          /\ running' = [running EXCEPT ![n] = @ \cup {i}] /\ running \in [Node -> SUBSET Run]
      BY <1>1 DEF Launch, IInv, TypeOK
    <2>2. i \notin doomed
      BY <1>1 DEF Launch, Barred, Waits
    <2> QED
      BY <1>1, <2>1, <2>2 DEF Launch, Barred, Waits, Runs
  <1>2. ASSUME NEW n \in Node, NEW i \in Run, Finish(n, i) PROVE Barred'
    <2>1. running' = [running EXCEPT ![n] = @ \ {i}] /\ running \in [Node -> SUBSET Run]
      BY <1>2 DEF Finish, IInv, TypeOK
    <2>2. i \notin doomed
      BY <1>2 DEF Finish, Barred, Runs
    <2> QED
      BY <1>2, <2>1, <2>2 DEF Finish, Barred, Waits, Runs
  <1>3. ASSUME NEW i \in Run, CancelOne(i) PROVE Barred'
    <2>1. PICK n \in Node : n = node[i]
      BY DEF IInv, TypeOK
    <2>2. /\ pending' = [pending EXCEPT ![n] = @ \ {i}] /\ pending \in [Node -> SUBSET Run]
          /\ running' = [running EXCEPT ![n] = @ \ {i}] /\ running \in [Node -> SUBSET Run]
      BY <1>3, <2>1 DEF CancelOne, IInv, TypeOK
    <2>3. i \notin doomed
      BY <1>3 DEF CancelOne, IInv, Targets, Barred
    <2> QED
      BY <1>3, <2>2, <2>3 DEF CancelOne, Barred, Waits, Runs
  <1>4. CASE \/ BeginCancel \/ NextNode \/ EndCancel \/ FailCancel
             \/ \E n \in Node : ListToCancel(n)
    BY <1>4 DEF BeginCancel, NextNode, EndCancel, FailCancel, ListToCancel, Barred,
                Waits, Runs
  <1> QED
    BY <1>1, <1>2, <1>3, <1>4 DEF Scrapyd, Cancel

LEMMA RemoveBarred ==
  ASSUME IInv, TaskRemove
  PROVE  Barred'
  <1> USE DEF TaskRemove, nodeVars, callVars
  <1>1. ASSUME NEW i \in doomed'
        PROVE  /\ i \in Run
               /\ i \in fresh \/ Queued(i) \/ Held(i)
               /\ \A c \in Thread : pc[c] \in {"push", "start"} => item[c] # i
    <2>1. CASE i \in fresh
      <3>1. i \in Run
        BY <2>1 DEF IInv, TypeOK
      <3>2. ~ Held(i)
        BY <2>1, <3>1 DEF IInv, Placement, Placed, At
      <3> QED
        BY <2>1, <3>1, <3>2 DEF Held
    <2>2. CASE \E k \in 1 .. Len(queue) : queue[k] = i
      <3>1. i \in Run /\ Queued(i)
        BY <2>2 DEF IInv, TypeOK, Queued
      <3>2. ~ Held(i)
        BY <3>1 DEF IInv, Placement, Placed, At
      <3> QED
        BY <3>1, <3>2 DEF Held
    <2>3. CASE \E d \in Thread : pc[d] \in {"health", "list1", "list2", "task"} /\ item[d] = i
      <3>1. PICK d \in Thread : pc[d] \in {"health", "list1", "list2", "task"} /\ item[d] = i
        BY <2>3
      <3>2. i \in Run
        BY <3>1, Targeted
      <3>3. \A c \in Thread : item[c] = i => c = d
        BY <3>1, <3>2, ConstantsAssumption DEF IInv, Placement, OneThread
      <3> QED
        BY <3>1, <3>2, <3>3 DEF Held
    <2> QED
      BY <1>1, <2>1, <2>2, <2>3
  <1>2. \A i \in doomed' : ~ Waits(i) /\ ~ Runs(i) /\ i \notin ended
    BY <1>1 DEF IInv, Placement, Placed, At
  <1> QED
    BY <1>1, <1>2 DEF Barred, Waits, Runs

LEMMA NextBarred == IInv /\ Barred /\ [Next]_vars => Barred'
  <1> SUFFICES ASSUME IInv, Barred, [Next]_vars PROVE Barred'
    OBVIOUS
  <1>1. ASSUME NEW c \in Caller, Call(c) PROVE Barred'
    BY <1>1, CallBarred DEF Thread
  <1>2. ASSUME NEW w \in Worker, Delay(w) PROVE Barred'
    BY <1>2, CallBarred, QueueBarred DEF Delay, Thread
  <1>3. CASE \/ \E n \in Node : NodeDown(n) \/ NodeUp(n)
             \/ \E ns \in SUBSET Node : SetHosts(ns)
             \/ TaskBack \/ UNCHANGED vars
    BY <1>3 DEF TaskBack, NodeDown, NodeUp, SetHosts, vars, taskVars, nodeVars, callVars,
                Barred, Waits, Runs
  <1> QED
    BY <1>1, <1>2, <1>3, CallBarred, QueueBarred, NodesBarred, RemoveBarred DEF Next

\* As long as a removed task stays removed, a run that waited on the delay queue,
\* or was in a thread's hands before schedule had read the task's row, when the
\* task went reaches no node.
THEOREM RemovalHolds == Spec => []RemovedTaskNeverStarts
  <1>1. Barred => RemovedTaskNeverStarts
    BY DEF Barred, RemovedTaskNeverStarts, OnNodes, Waits, Runs
  <1> QED
    BY <1>1, InitBarred, NextBarred, InitIInv, NextIInv, PTL DEF Spec

-----------------------------------------------------------------------------
(* The limit.                                                              *)

\* Threads whose count lets them start a run on n: those that have seen few
\* enough running, and of these the ones that have seen the waiting ones too.
Passing(n, ps) == {c \in Thread : pc[c] \in ps /\ Target(c) = n /\ count[c] <= Max}
Torn(n) == Passing(n, {"list2", "task", "start"})
Armed(n) == Passing(n, {"task", "start"})

Jobs(n) == pending[n] \cup running[n]
Waiting(n) == Cardinality(pending[n]) + Cardinality(Armed(n)) <= Max + Cardinality(Thread)
Loaded(n) == Cardinality(Jobs(n)) + Cardinality(Torn(n)) <= 2 * (Max + Cardinality(Thread))

\* A thread that starts has passed the comparison.
Passed == \A c \in Thread : pc[c] = "start" => count[c] <= Max

\* A thread is let through by a count no more than Max; what it adds is already
\* accounted for until it has.
Accounted == Passed /\ \A n \in Node : Waiting(n) /\ Loaded(n)

LEMMA SmallerSet ==
  ASSUME NEW T, IsFiniteSet(T), NEW S, S \subseteq T
  PROVE  /\ IsFiniteSet(S)
         /\ Cardinality(S) \in Nat /\ Cardinality(T) \in Nat
         /\ Cardinality(S) <= Cardinality(T)
  BY FS_Subset, FS_CardinalityType

LEMMA OneMore ==
  ASSUME NEW S, IsFiniteSet(S), NEW x
  PROVE  /\ Cardinality(S \cup {x}) \in Nat
         /\ Cardinality(S \cup {x}) <= Cardinality(S) + 1
  <1>1. /\ IsFiniteSet(S \cup {x})
        /\ Cardinality(S \cup {x}) = IF x \in S THEN Cardinality(S) ELSE Cardinality(S) + 1
    BY FS_AddElement
  <1> QED
    BY <1>1, FS_CardinalityType

LEMMA OneLess ==
  ASSUME NEW S, IsFiniteSet(S), NEW x \in S, NEW T, T \subseteq S \ {x}
  PROVE  /\ Cardinality(S) \in Nat /\ Cardinality(T) \in Nat
         /\ Cardinality(T) <= Cardinality(S) - 1
  <1>1. IsFiniteSet(S \ {x}) /\ Cardinality(S \ {x}) = Cardinality(S) - 1
    BY FS_RemoveElement
  <1> QED
    BY <1>1, SmallerSet, FS_CardinalityType

LEMMA ThreadsFinite ==
  /\ IsFiniteSet(Thread)
  /\ Cardinality(Thread) \in Nat
  /\ \A S : S \subseteq Thread => /\ IsFiniteSet(S) /\ Cardinality(S) \in Nat
                                  /\ Cardinality(S) <= Cardinality(Thread)
  <1>1. IsFiniteSet(Thread)
    BY ConstantsAssumption, FS_Union DEF Thread
  <1> QED
    BY <1>1, SmallerSet, FS_CardinalityType

LEMMA JobsFinite ==
  ASSUME IInv, NEW n \in Node
  PROVE  /\ IsFiniteSet(pending[n]) /\ IsFiniteSet(running[n]) /\ IsFiniteSet(Jobs(n))
         /\ Cardinality(pending[n]) \in Nat /\ Cardinality(running[n]) \in Nat
         /\ Cardinality(Jobs(n)) \in Nat
         /\ Cardinality(Jobs(n)) <= Cardinality(pending[n]) + Cardinality(running[n])
  <1>1. IsFiniteSet(pending[n]) /\ IsFiniteSet(running[n])
    BY DEF IInv, Finite
  <1>2. /\ IsFiniteSet(Jobs(n)) /\ IsFiniteSet(pending[n] \cap running[n])
        /\ Cardinality(Jobs(n)) = Cardinality(pending[n]) + Cardinality(running[n])
                                     - Cardinality(pending[n] \cap running[n])
    BY <1>1, FS_Union, FS_Intersection DEF Jobs
  <1> QED
    BY <1>1, <1>2, FS_CardinalityType

\* Steps that let no thread through and bring no run to node n.
LEMMA NotMore ==
  ASSUME IInv, NEW n \in Node, Waiting(n), Loaded(n),
         pending'[n] \subseteq pending[n], Jobs(n)' \subseteq Jobs(n),
         Armed(n)' \subseteq Armed(n), Torn(n)' \subseteq Torn(n)
  PROVE  Waiting(n)' /\ Loaded(n)'
  <1>1. Armed(n) \subseteq Thread /\ Torn(n) \subseteq Thread
    BY DEF Armed, Torn, Passing
  <1>2. /\ Cardinality(Armed(n)') \in Nat /\ Cardinality(Armed(n)) \in Nat
        /\ Cardinality(Armed(n)') <= Cardinality(Armed(n))
    BY <1>1, ThreadsFinite, SmallerSet
  <1>3. /\ Cardinality(Torn(n)') \in Nat /\ Cardinality(Torn(n)) \in Nat
        /\ Cardinality(Torn(n)') <= Cardinality(Torn(n))
    BY <1>1, ThreadsFinite, SmallerSet
  <1>4. /\ Cardinality(pending'[n]) \in Nat /\ Cardinality(pending[n]) \in Nat
        /\ Cardinality(pending'[n]) <= Cardinality(pending[n])
    BY JobsFinite, SmallerSet
  <1>5. /\ Cardinality(Jobs(n)') \in Nat /\ Cardinality(Jobs(n)) \in Nat
        /\ Cardinality(Jobs(n)') <= Cardinality(Jobs(n))
    BY JobsFinite, SmallerSet
  <1>6. Waiting(n)'
    BY <1>2, <1>4, ThreadsFinite, ConstantsAssumption DEF Waiting
  <1>7. Loaded(n)'
    BY <1>3, <1>5, ThreadsFinite, ConstantsAssumption DEF Loaded
  <1> QED
    BY <1>6, <1>7

LEMMA InitAccounted == Init => Accounted
  <1> SUFFICES ASSUME Init PROVE Accounted
    OBVIOUS
  <1> USE DEF Init
  <1>1. Passed
    BY DEF Passed
  <1>2. ASSUME NEW n \in Node PROVE Waiting(n) /\ Loaded(n)
    <2>1. pending[n] = {} /\ Jobs(n) = {} /\ Armed(n) = {} /\ Torn(n) = {}
      BY DEF Jobs, Armed, Torn, Passing
    <2> QED
      BY <2>1, NoneCounted, ThreadsFinite, ConstantsAssumption DEF Waiting, Loaded
  <1> QED
    BY <1>1, <1>2 DEF Accounted

\* The first listing, taken with at most Max running: what waits besides has
\* its own bound.
LEMMA ListRunningAccounted ==
  ASSUME IInv, Accounted, NEW c \in Thread, ListRunning(c)
  PROVE  Accounted'
  <1> USE DEF ListRunning, nodeVars
  <1>1. Passed'
    BY DEF Accounted, Passed, IInv, TypeOK
  <1>2. ASSUME NEW n \in Node PROVE Waiting(n)' /\ Loaded(n)'
    <2>1. pending' = pending /\ running' = running /\ Jobs(n)' = Jobs(n)
      BY DEF Jobs
    <2>2. Armed(n)' = Armed(n)
      BY DEF Armed, Passing, Target, IInv, TypeOK
    <2>3. CASE Target(c) = n /\ Cardinality(running[n]) <= Max
      <3>1. Torn(n)' \subseteq Thread /\ Armed(n) \subseteq Thread
        BY DEF Torn, Armed, Passing
      <3>2. /\ Cardinality(Torn(n)') \in Nat /\ Cardinality(Armed(n)) \in Nat
            /\ Cardinality(Torn(n)') <= Cardinality(Thread)
        BY <3>1, ThreadsFinite
      <3>3. Waiting(n)
        BY DEF Accounted
      <3>4. Cardinality(Jobs(n)) + Cardinality(Torn(n)') <= 2 * (Max + Cardinality(Thread))
        BY <2>3, <3>2, <3>3, JobsFinite, ThreadsFinite, ConstantsAssumption DEF Waiting
      <3> QED
        BY <2>1, <2>2, <3>3, <3>4 DEF Waiting, Loaded
    <2>4. CASE ~ (Target(c) = n /\ Cardinality(running[n]) <= Max)
      <3>1. Torn(n)' \subseteq Torn(n)
        BY <2>4 DEF Torn, Passing, Target, IInv, TypeOK
      <3> QED
        BY <2>1, <2>2, <3>1, NotMore DEF Accounted
    <2> QED
      BY <2>3, <2>4
  <1> QED
    BY <1>1, <1>2 DEF Accounted

\* The second listing lets through only when at most Max wait.
LEMMA ListPendingAccounted ==
  ASSUME IInv, Accounted, NEW c \in Thread, ListPending(c)
  PROVE  Accounted'
  <1> USE DEF ListPending, nodeVars
  <1>1. Passed'
    BY DEF Accounted, Passed, IInv, TypeOK
  <1>2. ASSUME NEW n \in Node PROVE Waiting(n)' /\ Loaded(n)'
    <2>1. pending' = pending /\ running' = running /\ Jobs(n)' = Jobs(n)
      BY DEF Jobs
    <2>2. Target(c) \in Node
      BY Targeted
    <2>3. /\ Cardinality(pending[Target(c)]) \in Nat /\ count[c] \in Nat
          /\ count'[c] = count[c] + Cardinality(pending[Target(c)])
      BY <2>2, JobsFinite DEF IInv, TypeOK
    <2>4. Torn(n)' \subseteq Torn(n)
      <3> SUFFICES ASSUME NEW d \in Torn(n)' PROVE d \in Torn(n)
        OBVIOUS
      <3>1. CASE d = c
        <4>1. count'[c] <= Max /\ Target(c)' = n /\ Target(c)' = Target(c)
          BY <3>1 DEF Torn, Passing, Target
        <4>2. count[c] <= Max
          BY <4>1, <2>3, ConstantsAssumption
        <4> QED
          BY <3>1, <4>1, <4>2 DEF Torn, Passing
      <3>2. CASE d # c
        BY <3>2 DEF Torn, Passing, Target, IInv, TypeOK
      <3> QED
        BY <3>1, <3>2
    <2>5. CASE Target(c) = n /\ Cardinality(pending[n]) <= Max
      <3>1. Armed(n)' \subseteq Thread
        BY DEF Armed, Passing
      <3>2. Cardinality(Armed(n)') \in Nat /\ Cardinality(Armed(n)') <= Cardinality(Thread)
        BY <3>1, ThreadsFinite
      <3>3. Waiting(n)'
        BY <2>1, <2>5, <3>2, JobsFinite, ThreadsFinite, ConstantsAssumption DEF Waiting
      <3>4. Torn(n) \subseteq Thread
        BY DEF Torn, Passing
      <3>5. /\ Cardinality(Torn(n)') \in Nat /\ Cardinality(Torn(n)) \in Nat
            /\ Cardinality(Torn(n)') <= Cardinality(Torn(n))
        BY <2>4, <3>4, ThreadsFinite, SmallerSet
      <3>6. Loaded(n)'
        BY <2>1, <3>5, JobsFinite, ThreadsFinite, ConstantsAssumption DEF Loaded, Accounted
      <3> QED
        BY <3>3, <3>6
    <2>6. CASE ~ (Target(c) = n /\ Cardinality(pending[n]) <= Max)
      <3>1. Armed(n)' \subseteq Armed(n)
        <4> SUFFICES ASSUME NEW d \in Armed(n)' PROVE d \in Armed(n)
          OBVIOUS
        <4>1. CASE d = c
          <5>1. count'[c] <= Max /\ Target(c)' = n /\ Target(c)' = Target(c)
            BY <4>1 DEF Armed, Passing, Target
          <5>2. Cardinality(pending[n]) <= Max
            BY <5>1, <2>3, ConstantsAssumption
          <5> QED
            BY <5>1, <5>2, <2>6
        <4>2. CASE d # c
          BY <4>2 DEF Armed, Passing, Target, IInv, TypeOK
        <4> QED
          BY <4>1, <4>2
      <3> QED
        BY <2>1, <2>4, <3>1, NotMore DEF Accounted
    <2> QED
      BY <2>5, <2>6
  <1> QED
    BY <1>1, <1>2 DEF Accounted

\* A start adds one run and takes its thread out of the account.
LEMMA StartAccounted ==
  ASSUME IInv, Accounted, NEW c \in Thread, Start(c)
  PROVE  Accounted'
  <1> USE DEF Start, Return
  <1>1. item[c] \in Run /\ Target(c) \in Node /\ count[c] <= Max
    BY Targeted DEF Accounted, Passed
  <1>2. Passed'
    BY DEF Accounted, Passed, IInv, TypeOK
  <1>3. ASSUME NEW n \in Node
        PROVE  Armed(n)' \subseteq Armed(n) \ {c} /\ Torn(n)' \subseteq Torn(n) \ {c}
    BY DEF Armed, Torn, Passing, Target, IInv, TypeOK
  <1>4. pending \in [Node -> SUBSET Run] /\ running' = running
    BY DEF IInv, TypeOK
  <1>5. ASSUME NEW n \in Node PROVE Waiting(n)' /\ Loaded(n)'
    <2>1. CASE n # Target(c)
      <3>1. pending'[n] = pending[n] /\ Jobs(n)' = Jobs(n)
        BY <2>1, <1>4 DEF Jobs
      <3> QED
        BY <3>1, <1>3, NotMore DEF Accounted
    <2>2. CASE n = Target(c)
      <3>1. c \in Armed(n) /\ c \in Torn(n) /\ Armed(n) \subseteq Thread /\ Torn(n) \subseteq Thread
        BY <2>2, <1>1 DEF Armed, Torn, Passing
      <3>2. pending'[n] = pending[n] \cup {item[c]} /\ Jobs(n)' = Jobs(n) \cup {item[c]}
        BY <2>2, <1>4 DEF Jobs
      <3>3. /\ Cardinality(pending'[n]) \in Nat
            /\ Cardinality(pending'[n]) <= Cardinality(pending[n]) + 1
        BY <3>2, JobsFinite, OneMore
      <3>4. /\ Cardinality(Jobs(n)') \in Nat
            /\ Cardinality(Jobs(n)') <= Cardinality(Jobs(n)) + 1
        BY <3>2, JobsFinite, OneMore
      <3>5. /\ Cardinality(Armed(n)) \in Nat /\ Cardinality(Armed(n)') \in Nat
            /\ Cardinality(Armed(n)') <= Cardinality(Armed(n)) - 1
        BY <3>1, <1>3, ThreadsFinite, OneLess
      <3>6. /\ Cardinality(Torn(n)) \in Nat /\ Cardinality(Torn(n)') \in Nat
            /\ Cardinality(Torn(n)') <= Cardinality(Torn(n)) - 1
        BY <3>1, <1>3, ThreadsFinite, OneLess
      <3>7. Waiting(n)'
        BY <3>3, <3>5, JobsFinite, ThreadsFinite, ConstantsAssumption DEF Waiting, Accounted
      <3>8. Loaded(n)'
        BY <3>4, <3>6, JobsFinite, ThreadsFinite, ConstantsAssumption DEF Loaded, Accounted
      <3> QED
        BY <3>7, <3>8
    <2> QED
      BY <2>1, <2>2
  <1> QED
    BY <1>2, <1>5 DEF Accounted

\* Every other step leaves the account, or takes threads or runs out of it.
LEMMA ThreadAccounted ==
  ASSUME IInv, Accounted, NEW c \in Thread,
         \/ ReadTask(c) \/ Push(c) \/ Fail(c) \/ Restart(c)
         \/ Wake(c) \/ Look(c) \/ Pop(c) \/ PopNothing(c) \/ CheckHealth(c)
  PROVE  Accounted'
  <1> USE DEF ReadTask, Push, Fail, Restart, Wake, Look, Pop, PopNothing, CheckHealth,
              Goto, Return, Raise, nodeVars
  <1>1. Passed'
    BY ConstantsAssumption DEF Accounted, Passed, IInv, TypeOK
  <1>2. ASSUME NEW n \in Node PROVE Waiting(n)' /\ Loaded(n)'
    <2>1. pending'[n] = pending[n] /\ Jobs(n)' = Jobs(n)
      BY DEF Jobs
    <2>2. Armed(n)' \subseteq Armed(n) /\ Torn(n)' \subseteq Torn(n)
      BY DEF Armed, Torn, Passing, Target, IInv, TypeOK
    <2> QED
      BY <2>1, <2>2, NotMore DEF Accounted
  <1> QED
    BY <1>1, <1>2 DEF Accounted

LEMMA BeginAccounted ==
  ASSUME IInv, Accounted, NEW c \in Caller, NEW i \in Run, NEW m \in Node, Begin(c, i, m)
  PROVE  Accounted'
  <1> USE DEF Begin, nodeVars
  <1>1. Passed'
    BY DEF Accounted, Passed, IInv, TypeOK
  <1>2. \A d \in Thread : item[d] # i
    BY DEF IInv, Placement, Placed, At, Held
  <1>3. ASSUME NEW d \in Thread, pc'[d] \in {"list2", "task", "start"}
        PROVE  pc[d] = pc'[d] /\ count'[d] = count[d] /\ Target(d)' = Target(d)
    <2>1. d # c /\ pc[d] = pc'[d] /\ item'[d] = item[d]
      BY <1>3 DEF IInv, TypeOK, Thread
    <2>2. item[d] \in Run
      BY <2>1, <1>3, Targeted
    <2> QED
      BY <2>1, <2>2, <1>2 DEF Target, IInv, TypeOK
  <1>4. ASSUME NEW n \in Node PROVE Waiting(n)' /\ Loaded(n)'
    <2>1. pending'[n] = pending[n] /\ Jobs(n)' = Jobs(n)
      BY DEF Jobs
    <2>2. Armed(n)' \subseteq Armed(n) /\ Torn(n)' \subseteq Torn(n)
      BY <1>3 DEF Armed, Torn, Passing
    <2> QED
      BY <2>1, <2>2, NotMore DEF Accounted
  <1> QED
    BY <1>1, <1>4 DEF Accounted

\* Requests, the nodes and the world do not touch the threads.
LEMMA RestAccounted ==
  ASSUME IInv, Accounted,
         \/ Scrapyd \/ Cancel \/ TaskRemove \/ TaskBack \/ UNCHANGED vars
         \/ \E n \in Node : NodeDown(n) \/ NodeUp(n)
         \/ \E ns \in SUBSET Node : SetHosts(ns)
  PROVE  Accounted'
  <1> USE DEF vars, nodeVars, callVars, taskVars
  <1>1. UNCHANGED callVars
    BY DEF Scrapyd, Launch, Finish, Cancel, BeginCancel, ListToCancel, CancelOne, NextNode,
           EndCancel, FailCancel, TaskRemove, TaskBack, NodeDown, NodeUp, SetHosts
  <1>2. ASSUME NEW n \in Node
        PROVE  pending'[n] \subseteq pending[n] /\ Jobs(n)' \subseteq Jobs(n)
    <2>1. CASE Scrapyd
      BY <2>1 DEF Scrapyd, Launch, Finish, Jobs, IInv, TypeOK
    <2>2. CASE Cancel
      <3>1. CASE \E i \in Run : CancelOne(i)
        <4>1. PICK i \in Run : CancelOne(i)
          BY <3>1
        <4>2. PICK m \in Node : m = node[i]
          BY DEF IInv, TypeOK
        <4>3. /\ pending' = [pending EXCEPT ![m] = @ \ {i}] /\ pending \in [Node -> SUBSET Run]
              /\ running' = [running EXCEPT ![m] = @ \ {i}] /\ running \in [Node -> SUBSET Run]
          BY <4>1, <4>2 DEF CancelOne, IInv, TypeOK
        <4> QED
          BY <4>3 DEF Jobs
      <3>2. CASE ~ \E i \in Run : CancelOne(i)
        BY <2>2, <3>2 DEF Cancel, BeginCancel, ListToCancel, NextNode, EndCancel, FailCancel,
                          Jobs
      <3> QED
        BY <3>1, <3>2
    <2>3. CASE \/ TaskRemove \/ TaskBack \/ UNCHANGED vars
               \/ \E m \in Node : NodeDown(m) \/ NodeUp(m)
               \/ \E ns \in SUBSET Node : SetHosts(ns)
      BY <2>3 DEF TaskRemove, TaskBack, NodeDown, NodeUp, SetHosts, Jobs
    <2> QED
      BY <2>1, <2>2, <2>3
  <1>3. ASSUME NEW n \in Node PROVE Armed(n)' = Armed(n) /\ Torn(n)' = Torn(n)
    BY <1>1 DEF Armed, Torn, Passing, Target
  <1>4. ASSUME NEW n \in Node PROVE Waiting(n)' /\ Loaded(n)'
    BY <1>2, <1>3, NotMore DEF Accounted
  <1>5. Passed'
    BY <1>1 DEF Passed, Accounted
  <1> QED
    BY <1>4, <1>5 DEF Accounted

LEMMA NextAccounted == IInv /\ Accounted /\ [Next]_vars => Accounted'
  <1> SUFFICES ASSUME IInv, Accounted, [Next]_vars PROVE Accounted'
    OBVIOUS
  <1>1. ASSUME NEW c \in Thread, Call(c) PROVE Accounted'
    BY <1>1, ListRunningAccounted, ListPendingAccounted, StartAccounted, ThreadAccounted
       DEF Call
  <1>2. ASSUME NEW w \in Worker, Delay(w) PROVE Accounted'
    <2>1. w \in Thread
      BY DEF Thread
    <2> QED
      BY <1>1, <1>2, <2>1, ThreadAccounted DEF Delay
  <1>3. ASSUME NEW c \in Caller, Call(c) PROVE Accounted'
    BY <1>1, <1>3 DEF Thread
  <1> QED
    BY <1>2, <1>3, BeginAccounted, ThreadAccounted, RestAccounted DEF Next

\* However many threads count the jobs of a node at the same time, and whatever
\* moves between the two listings of a count, what waits there passes the limit
\* by at most one start of each thread, and all there is by at most twice that.
THEOREM OvershootIsBounded == Spec => []OvershootBounded
  <1>1. IInv /\ Accounted => OvershootBounded
    <2> SUFFICES ASSUME IInv, Accounted, NEW n \in Node
                 PROVE  /\ Cardinality(pending[n]) <= Max + Cardinality(Thread)
                        /\ Cardinality(Jobs(n)) <= 2 * (Max + Cardinality(Thread))
      BY DEF OvershootBounded, Jobs
    <2>1. Armed(n) \subseteq Thread /\ Torn(n) \subseteq Thread
      BY DEF Armed, Torn, Passing
    <2>2. Cardinality(Armed(n)) \in Nat /\ Cardinality(Torn(n)) \in Nat
      BY <2>1, ThreadsFinite
    <2> QED
      BY <2>2, JobsFinite, ThreadsFinite, ConstantsAssumption DEF Accounted, Waiting, Loaded
  <1> QED
    BY <1>1, InitAccounted, NextAccounted, InitIInv, NextIInv, PTL DEF Spec

-----------------------------------------------------------------------------
(* The life of a run.                                                      *)

\* The mapping of RunLife's variables.
Lives == [i \in Run |-> Whereabouts(i)]
Hosts(i) == PendingOn(i) \cup RunningOn(i)
Engines == [i \in Run |-> Hosts(i)]

\* A thread has read the row for run i and found room.
Accepted(i) == \E c \in Thread : item[c] = i /\ pc[c] = "start"

Taken(i) == IF Accepted(i) THEN "accepted" ELSE "held"

\* The one place of a run is where RunLife has it, on its own node at most.
LivesFit ==
    \A i \in Run :
        /\ \A w \in Place \ {"held"} : At(i, w) => Whereabouts(i) = {w}
        /\ At(i, "held") => Whereabouts(i) = {Taken(i)}
        /\ Hosts(i) = IF Waits(i) \/ Runs(i) THEN {node[i]} ELSE {}

LEMMA LifeOfPlace == IInv => LivesFit
  <1> SUFFICES ASSUME IInv, NEW i \in Run
               PROVE  /\ \A w \in Place \ {"held"} : At(i, w) => Whereabouts(i) = {w}
                      /\ At(i, "held") => Whereabouts(i) = {Taken(i)}
                      /\ Hosts(i) = IF Waits(i) \/ Runs(i) THEN {node[i]} ELSE {}
    BY DEF LivesFit
  <1>1. /\ Held(i) <=> \E c \in Thread : c \in Holders(i)
        /\ Queued(i) <=> Positions(i) # {}
        /\ Waits(i) <=> PendingOn(i) # {}
        /\ Runs(i) <=> RunningOn(i) # {}
    BY DEF Held, Queued, Waits, Runs, Holders, Positions, PendingOn, RunningOn
  <1>2. ASSUME NEW w \in Place \ {"held"}, At(i, w) PROVE Whereabouts(i) = {w}
    BY <1>1, <1>2 DEF At, Place, Whereabouts, Holders
  <1>3. ASSUME At(i, "held") PROVE Whereabouts(i) = {Taken(i)}
    <2>1. PICK c \in Thread : item[c] = i
      BY <1>3 DEF At, Held
    <2>2. Holders(i) = {c}
      BY <2>1, ConstantsAssumption DEF Holders, IInv, Placement, OneThread
    <2>3. Accepted(i) <=> pc[c] = "start"
      BY <2>2 DEF Accepted, Holders
    <2> QED
      BY <1>1, <1>3, <2>2, <2>3 DEF At, Whereabouts, Taken
  <1>4. Hosts(i) = IF Waits(i) \/ Runs(i) THEN {node[i]} ELSE {}
    BY DEF Hosts, PendingOn, RunningOn, Waits, Runs, IInv, Placement, OneNode
  <1> QED
    BY <1>2, <1>3, <1>4

\* The threads still hold the other runs as they did, for the same nodes.
HandsOff(i) ==
    \A j \in Run \ {i} : (Accepted(j)' <=> Accepted(j)) /\ node'[j] = node[j]

\* A thread that has no run but i before and after its step.
LEMMA OneHand ==
  ASSUME IInv, IInv', NEW c \in Thread, NEW i \in Run, NEW p, NEW x,
         pc' = [pc EXCEPT ![c] = p], item' = [item EXCEPT ![c] = x],
         item[c] \in {i, NoRun}, x \in {i, NoRun},
         \A j \in Run \ {i} : node'[j] = node[j]
  PROVE  /\ HandsOff(i)
         /\ x = i => (Accepted(i)' <=> p = "start")
         /\ item[c] = i => (Accepted(i) <=> pc[c] = "start")
  <1>1. pc \in [Thread -> Places] /\ item \in [Thread -> Run \cup {NoRun}]
    BY DEF IInv, TypeOK
  <1>2. HandsOff(i)
    BY <1>1, ConstantsAssumption DEF HandsOff, Accepted
  <1>3. ASSUME x = i PROVE Accepted(i)' <=> p = "start"
    <2>1. \A d \in Thread : item'[d] = i => d = c
      BY <1>1, <1>3, ConstantsAssumption DEF IInv, Placement, OneThread
    <2> QED
      BY <1>1, <1>3, <2>1 DEF Accepted
  <1>4. ASSUME item[c] = i PROVE Accepted(i) <=> pc[c] = "start"
    BY <1>4, ConstantsAssumption DEF Accepted, IInv, Placement, OneThread
  <1> QED
    BY <1>2, <1>3, <1>4

\* Runs that stay where they are keep their life.
LEMMA LifeStays ==
  ASSUME IInv, IInv', NEW j \in Run, Same(j), Accepted(j)' <=> Accepted(j),
         node'[j] = node[j]
  PROVE  Whereabouts(j)' = Whereabouts(j) /\ Hosts(j)' = Hosts(j)
  <1>1. PICK w \in Place : At(j, w)
    BY DEF IInv, Placement, Placed
  <1>2. At(j, w)'
    BY <1>1 DEF At, Same
  <1>3. LivesFit /\ LivesFit'
    BY LifeOfPlace, PTL
  <1>4. Whereabouts(j) = {IF w = "held" THEN Taken(j) ELSE w}
    BY <1>1, <1>3 DEF LivesFit
  <1>5. Whereabouts(j)' = {IF w = "held" THEN Taken(j)' ELSE w}
    BY <1>2, <1>3 DEF LivesFit
  <1>6. Hosts(j)' = Hosts(j)
    BY <1>3 DEF LivesFit, Same
  <1> QED
    BY <1>4, <1>5, <1>6 DEF Taken

\* No run moves and no row is read.
LEMMA AllStay ==
  ASSUME IInv, IInv', UNCHANGED placeVars,
         \A j \in Run : Accepted(j)' <=> Accepted(j)
  PROVE  UNCHANGED <<Lives, Engines>>
  <1>1. \A j \in Run : Same(j) /\ node'[j] = node[j]
    BY DEF placeVars, Same, Held, Queued, Waits, Runs
  <1>2. \A j \in Run : Whereabouts(j)' = Whereabouts(j) /\ Hosts(j)' = Hosts(j)
    BY <1>1, LifeStays
  <1> QED
    BY <1>2 DEF Lives, Engines

LEMMA LifeMoves ==
  ASSUME IInv, IInv', NEW i \in Run, NEW v \in Place, NEW w \in Place,
         Moved(i, v, w), HandsOff(i)
  PROVE  /\ Lives[i] = {IF v = "held" THEN Taken(i) ELSE v}
         /\ Engines[i] = IF v \in {"waits", "runs"} THEN {node[i]} ELSE {}
         /\ Lives' = [Lives EXCEPT ![i] = {IF w = "held" THEN Taken(i)' ELSE w}]
         /\ Engines' = [Engines EXCEPT ![i] =
                           IF w \in {"waits", "runs"} THEN {node'[i]} ELSE {}]
  <1>1. LivesFit /\ LivesFit'
    BY LifeOfPlace, PTL
  <1>2. At(i, v) /\ At(i, w)'
    BY DEF Moved
  <1>3. \A j \in Run \ {i} : Whereabouts(j)' = Whereabouts(j) /\ Hosts(j)' = Hosts(j)
    BY LifeStays DEF Moved, HandsOff
  <1>4. /\ Whereabouts(i) = {IF v = "held" THEN Taken(i) ELSE v}
        /\ Hosts(i) = IF v \in {"waits", "runs"} THEN {node[i]} ELSE {}
    BY <1>1, <1>2 DEF LivesFit, At
  <1>5. /\ Whereabouts(i)' = {IF w = "held" THEN Taken(i)' ELSE w}
        /\ Hosts(i)' = IF w \in {"waits", "runs"} THEN {node'[i]} ELSE {}
    BY <1>1, <1>2 DEF LivesFit, At
  <1>6. Lives' = [Lives EXCEPT ![i] = {IF w = "held" THEN Taken(i)' ELSE w}]
    BY <1>3, <1>5 DEF Lives
  <1>7. Engines' = [Engines EXCEPT ![i] =
                      IF w \in {"waits", "runs"} THEN {node'[i]} ELSE {}]
    BY <1>3, <1>5 DEF Engines
  <1> QED
    BY <1>4, <1>6, <1>7 DEF Lives, Engines

LEMMA TroubleStays ==
  ASSUME faults' = faults
  PROVE  (faults > 0)' = (faults > 0)
  OBVIOUS

LEMMA BeginLife ==
  ASSUME IInv, IInv', NEW c \in Caller, NEW i \in Run, NEW n \in Node, Begin(c, i, n)
  PROVE  Life!Dispatch(i, n)
  <1>1. c \in Thread /\ item[c] = NoRun
    BY DEF Begin, Thread, IInv, Busy
  <1>2. Moved(i, "fresh", "held")
    BY BeginMoves
  <1>3. HandsOff(i) /\ ~ Accepted(i)'
    <2>1. pc' = [pc EXCEPT ![c] = "list1"] /\ item' = [item EXCEPT ![c] = i]
      BY DEF Begin
    <2>2. \A j \in Run \ {i} : node'[j] = node[j]
      BY DEF Begin, IInv, TypeOK
    <2>3. HandsOff(i) /\ (Accepted(i)' <=> "list1" = "start")
      BY <1>1, <2>1, <2>2, OneHand
    <2> QED
      BY <2>3
  <1>4. Lives[i] = {"fresh"} /\ Lives' = [Lives EXCEPT ![i] = {"held"}]
    BY <1>2, <1>3, LifeMoves DEF Place, Taken
  <1>5. Engines' = [Engines EXCEPT ![i] = {}] /\ Engines[i] = {}
    BY <1>2, <1>3, LifeMoves DEF Place
  <1>6. Engines' = Engines
    BY <1>5 DEF Engines
  <1> QED
    BY <1>4, <1>6, TroubleStays
    DEF Begin, Life!Dispatch, Life!Move, Lives, Engines, Hosts, taskVars

\* Reading the row with room left is acceptance; the other steps of a thread
\* that keeps what it has in hand are none of a run.
LEMMA GotoLife ==
  ASSUME IInv, IInv', NEW c \in Thread,
         \/ ListRunning(c) \/ ListPending(c) \/ ReadTask(c)
         \/ Wake(c) \/ Look(c) \/ PopNothing(c) \/ CheckHealth(c)
  PROVE  [Life!Next]_(Life!vars)
  <1>1. UNCHANGED <<placeVars, live, faults>>
    BY DEF ListRunning, ListPending, ReadTask, Wake, Look, PopNothing, CheckHealth,
           Goto, placeVars, taskVars, nodeVars
  <1>2. CASE ReadTask(c) /\ count[c] <= Max
    <2>1. PICK i \in Run : i = item[c]
      BY <1>2, Targeted DEF ReadTask
    <2>2. At(i, "held")
      BY <2>1, PlaceOf DEF IInv, Placement, Place, Held
    <2>3. Moved(i, "held", "held")
      BY <1>1, <2>2 DEF Moved, Same, At, Held, Queued, Waits, Runs, placeVars
    <2>4. /\ pc' = [pc EXCEPT ![c] = "start"] /\ item' = [item EXCEPT ![c] = i]
          /\ pc[c] = "task" /\ node' = node
      <3>1. count[c] \in Nat /\ item \in [Thread -> Run \cup {NoRun}]
        BY DEF IInv, TypeOK
      <3>2. ~ (count[c] > Max)
        BY <1>2, <3>1, ConstantsAssumption
      <3> QED
        BY <1>1, <1>2, <2>1, <3>1, <3>2 DEF ReadTask, Goto, placeVars
    <2>5. HandsOff(i) /\ Accepted(i)' /\ ~ Accepted(i)
      BY <2>1, <2>4, OneHand
    <2>6. Lives[i] = {"held"} /\ Lives' = [Lives EXCEPT ![i] = {"accepted"}]
      BY <2>3, <2>5, LifeMoves DEF Place, Taken
    <2>7. Engines' = [Engines EXCEPT ![i] = {}] /\ Engines[i] = {}
      BY <2>3, <2>5, LifeMoves DEF Place
    <2>8. Engines' = Engines
      BY <2>7 DEF Engines
    <2>9. Life!Accept(i)
      BY <1>1, <1>2, <2>4, <2>6, <2>8, TroubleStays
      DEF ReadTask, Life!Accept, Life!Move, Lives, Engines, Hosts
    <2> QED
      BY <2>9 DEF Life!Next
  <1>3. CASE ~ (ReadTask(c) /\ count[c] <= Max)
    <2>1. /\ \A d \in Thread : pc'[d] = "start" <=> pc[d] = "start"
          /\ item' = item
      <3>1. pc \in [Thread -> Places] /\ count[c] \in Nat
        BY DEF IInv, TypeOK
      <3> QED
        BY <1>1, <1>3, <3>1, ConstantsAssumption
        DEF ListRunning, ListPending, ReadTask, Wake, Look, PopNothing, CheckHealth,
            Goto, placeVars
    <2>2. Lives' = Lives /\ Engines' = Engines
      BY <1>1, <2>1, AllStay DEF Accepted
    <2> QED
      BY <1>1, <2>2, TroubleStays DEF Life!vars, Lives, Engines, Hosts, placeVars
  <1> QED
    BY <1>2, <1>3

LEMMA PushLife ==
  ASSUME IInv, IInv', NEW c \in Thread, Push(c)
  PROVE  \E i \in Run : Life!PutOff(i)
  <1>1. PICK i \in Run : i = item[c] /\ Moved(i, "held", "queued")
    BY PushMoves
  <1>2. HandsOff(i) /\ ~ Accepted(i)
    <2>1. pc' = [pc EXCEPT ![c] = IF c \in Worker THEN "look" ELSE "idle"]
      BY DEF Push, Return
    <2>2. item' = [item EXCEPT ![c] = NoRun] /\ pc[c] = "push" /\ node' = node
      BY DEF Push, Return
    <2> QED
      BY <1>1, <2>1, <2>2, OneHand
  <1>3. Lives[i] = {"held"} /\ Lives' = [Lives EXCEPT ![i] = {"queued"}]
    BY <1>1, <1>2, LifeMoves DEF Place, Taken
  <1>4. Engines' = [Engines EXCEPT ![i] = {}] /\ Engines[i] = {}
    BY <1>1, <1>2, LifeMoves DEF Place
  <1>5. Engines' = Engines
    BY <1>4 DEF Engines
  <1>6. Life!PutOff(i)
    BY <1>3, <1>5, TroubleStays
    DEF Push, Life!PutOff, Life!Move, Lives, Engines, Hosts, taskVars
  <1> QED
    BY <1>6

LEMMA PopLife ==
  ASSUME IInv, IInv', NEW w \in Thread, Pop(w)
  PROVE  \E i \in Run : Life!TakeUp(i)
  <1>1. PICK i \in Run : i = Head(queue) /\ Moved(i, "queued", "held")
    BY PopMoves
  <1>2. HandsOff(i) /\ ~ Accepted(i)'
    <2>1. pc' = [pc EXCEPT ![w] = "health"] /\ item' = [item EXCEPT ![w] = i]
      BY <1>1 DEF Pop
    <2>2. item[w] = NoRun /\ node' = node
      BY DEF Pop, IInv, Busy
    <2>3. HandsOff(i) /\ (Accepted(i)' <=> "health" = "start")
      BY <2>1, <2>2, OneHand
    <2> QED
      BY <2>3
  <1>3. Lives[i] = {"queued"} /\ Lives' = [Lives EXCEPT ![i] = {"held"}]
    BY <1>1, <1>2, LifeMoves DEF Place, Taken
  <1>4. Engines' = [Engines EXCEPT ![i] = {}] /\ Engines[i] = {}
    BY <1>1, <1>2, LifeMoves DEF Place
  <1>5. Engines' = Engines
    BY <1>4 DEF Engines
  <1>6. Life!TakeUp(i)
    BY <1>3, <1>5, TroubleStays
    DEF Pop, Life!TakeUp, Life!Move, Lives, Engines, Hosts, taskVars
  <1> QED
    BY <1>6

LEMMA StartLife ==
  ASSUME IInv, IInv', NEW c \in Thread, Start(c)
  PROVE  \E i \in Run : Life!Start(i)
  <1>1. PICK i \in Run : i = item[c] /\ Moved(i, "held", "waits")
    BY StartMoves
  <1>2. HandsOff(i) /\ Accepted(i)
    <2>1. pc' = [pc EXCEPT ![c] = IF c \in Worker THEN "look" ELSE "idle"]
      BY DEF Start, Return
    <2>2. item' = [item EXCEPT ![c] = NoRun] /\ pc[c] = "start" /\ node' = node
      BY DEF Start, Return
    <2> QED
      BY <1>1, <2>1, <2>2, OneHand
  <1>3. Lives[i] = {"accepted"} /\ Lives' = [Lives EXCEPT ![i] = {"waits"}]
    BY <1>1, <1>2, LifeMoves DEF Place, Taken
  <1>4. Engines' = [Engines EXCEPT ![i] = {node[i]}]
    BY <1>1, <1>2, LifeMoves DEF Place, Start
  <1>5. Life!Start(i)
    BY <1>3, <1>4, TroubleStays
    DEF Start, Life!Start, Life!Move, Lives, Engines, Hosts, taskVars
  <1> QED
    BY <1>5

LEMMA RaiseLife ==
  ASSUME IInv, IInv', NEW c \in Thread, Raise(c), faults' > 0,
         UNCHANGED <<taskVars, nodeVars, queue, fresh, node>>
  PROVE  Life!Next
  <1>0. /\ pc' = [pc EXCEPT ![c] = "idle"] /\ item' = [item EXCEPT ![c] = NoRun]
        /\ live' = live /\ node' = node
    BY DEF Raise, taskVars
  <1>1. CASE item[c] = NoRun
    <2>1. UNCHANGED placeVars
      BY <1>1 DEF Raise, placeVars, nodeVars, IInv, TypeOK
    <2>2. \A j \in Run : Accepted(j)' <=> Accepted(j)
      BY <1>0, <1>1, ConstantsAssumption DEF Accepted, IInv, TypeOK
    <2>3. Lives' = Lives /\ Engines' = Engines
      BY <2>1, <2>2, AllStay
    <2>4. Life!Disturb
      BY <1>0, <2>3 DEF Life!Disturb, Lives, Engines, Hosts
    <2> QED
      BY <2>4 DEF Life!Next
  <1>2. CASE item[c] # NoRun
    <2>1. PICK i \in Run : i = item[c] /\ Moved(i, "held", "lost")
      BY <1>2, RaiseMoves
    <2>2. HandsOff(i)
      BY <1>0, <2>1, OneHand
    <2>3. Lives[i] = {Taken(i)} /\ Lives' = [Lives EXCEPT ![i] = {"lost"}]
      BY <2>1, <2>2, LifeMoves DEF Place
    <2>4. Engines' = [Engines EXCEPT ![i] = {}] /\ Engines[i] = {}
      BY <2>1, <2>2, LifeMoves DEF Place
    <2>5. Engines' = Engines
      BY <2>4 DEF Engines
    <2>6. Life!Lose(i)
      BY <1>0, <2>3, <2>5 DEF Life!Lose, Life!Move, Lives, Engines, Hosts, Taken
    <2> QED
      BY <2>6 DEF Life!Next
  <1> QED
    BY <1>1, <1>2

LEMMA LaunchLife ==
  ASSUME IInv, IInv', NEW n \in Node, NEW i \in Run, Launch(n, i)
  PROVE  Life!Launch(i)
  <1>1. Moved(i, "waits", "runs")
    BY LaunchMoves
  <1>2. HandsOff(i) /\ node' = node
    BY DEF HandsOff, Accepted, Launch, callVars
  <1>3. Lives[i] = {"waits"} /\ Lives' = [Lives EXCEPT ![i] = {"runs"}]
    BY <1>1, <1>2, LifeMoves DEF Place
  <1>4. Engines' = [Engines EXCEPT ![i] = {node[i]}] /\ Engines[i] = {node[i]}
    BY <1>1, <1>2, LifeMoves DEF Place
  <1>5. Engines' = Engines
    BY <1>4 DEF Engines
  <1> QED
    BY <1>2, <1>3, <1>5, TroubleStays
    DEF Launch, Life!Launch, Life!Move, Lives, Engines, Hosts, taskVars

\* A run that has ended is left as it is by a cancel that comes too late.
LEMMA EndLife ==
  ASSUME IInv, IInv', NEW i \in Run, NEW v \in {"waits", "runs", "ended"},
         Moved(i, v, "ended"), UNCHANGED <<live, faults, node, pc, item>>
  PROVE  [Life!End(i)]_(Life!vars)
  <1>1. HandsOff(i)
    BY DEF HandsOff, Accepted
  <1>2. Lives[i] = {v} /\ Lives' = [Lives EXCEPT ![i] = {"ended"}]
    BY <1>1, LifeMoves DEF Place
  <1>3. Engines' = [Engines EXCEPT ![i] = {}] /\ (v = "ended" => Engines[i] = {})
    BY <1>1, LifeMoves DEF Place
  <1>4. CASE v = "ended"
    <2>1. Lives' = Lives /\ Engines' = Engines
      BY <1>2, <1>3, <1>4 DEF Lives, Engines
    <2> QED
      BY <2>1, TroubleStays DEF Life!vars, Lives, Engines, Hosts
  <1>5. CASE v # "ended"
    BY <1>2, <1>3, <1>5, TroubleStays
    DEF Life!End, Life!Move, Lives, Engines, Hosts
  <1> QED
    BY <1>4, <1>5

LEMMA ThreadLife ==
  ASSUME IInv, IInv', NEW c \in Thread, Call(c) \/ Restart(c)
  PROVE  [Life!Next]_(Life!vars)
  <1>1. CASE Fail(c)
    <2>1. faults' > 0
      <3>1. faults # 0
        BY <1>1, Targeted DEF Fail, IInv, Faultless
      <3> QED
        BY <1>1, <3>1, ConstantsAssumption DEF Fail, IInv, TypeOK
    <2> QED
      BY <1>1, <2>1, RaiseLife DEF Fail
  <1>2. CASE Restart(c)
    <2>1. faults' > 0
      BY <1>2 DEF Restart, IInv, TypeOK
    <2> QED
      BY <1>2, <2>1, RaiseLife DEF Restart
  <1> QED
    BY <1>1, <1>2, GotoLife, PushLife, StartLife DEF Call, Life!Next

LEMMA ScrapydLife ==
  ASSUME IInv, IInv', NEW i \in Run,
         CancelOne(i) \/ \E n \in Node : Launch(n, i) \/ Finish(n, i)
  PROVE  [Life!Next]_(Life!vars)
  <1>1. CASE \E n \in Node : Launch(n, i)
    BY <1>1, LaunchLife DEF Life!Next
  <1>2. ASSUME NEW n \in Node, Finish(n, i) PROVE [Life!Next]_(Life!vars)
    <2>1. n = node[i] /\ Runs(i)
      BY <1>2 DEF Finish, Runs, IInv, Placement, OneNode
    <2>2. i \notin pending[n]
      BY <2>1, PlaceOf DEF IInv, Placement, Place, At, Waits
    <2>3. \E v \in {"waits", "runs", "ended"} : Moved(i, v, "ended")
      BY <1>2, <2>1, <2>2, EndMoves DEF Finish, callVars
    <2> QED
      BY <1>2, <2>3, EndLife DEF Finish, callVars, taskVars, Life!Next
  <1>3. CASE CancelOne(i)
    <2>1. node[i] \in Node /\ (Waits(i) \/ Runs(i) \/ i \in ended)
      BY <1>3 DEF CancelOne, IInv, TypeOK, Targets
    <2>2. \E v \in {"waits", "runs", "ended"} : Moved(i, v, "ended")
      BY <1>3, <2>1, EndMoves DEF CancelOne, callVars
    <2> QED
      BY <1>3, <2>2, EndLife DEF CancelOne, callVars, taskVars, Life!Next
  <1> QED
    BY <1>1, <1>2, <1>3

\* Outages and the removal of the task disturb, its row can come back; the rest
\* is none of a run.
LEMMA WorldLife ==
  ASSUME IInv, IInv', UNCHANGED <<placeVars, pc>>,
         \/ UNCHANGED <<live, faults>>
         \/ live' \in {live, FALSE} /\ faults' = faults + 1
         \/ live' = TRUE /\ faults' = faults
  PROVE  [Life!Next]_(Life!vars)
  <1>1. UNCHANGED <<Lives, Engines, node>>
    BY AllStay DEF Accepted, placeVars
  <1>2. CASE UNCHANGED <<live, faults>>
    BY <1>1, <1>2, TroubleStays DEF Life!vars, Lives, Engines, Hosts
  <1>3. CASE live' \in {live, FALSE} /\ faults' = faults + 1
    <2>1. faults' > 0
      BY <1>3 DEF IInv, TypeOK
    <2>2. Life!Disturb
      BY <1>1, <1>3, <2>1 DEF Life!Disturb, Lives, Engines, Hosts
    <2> QED
      BY <2>2 DEF Life!Next
  <1>4. CASE live' = TRUE /\ faults' = faults
    <2>1. Life!Restore
      BY <1>1, <1>4, TroubleStays DEF Life!Restore, Lives, Engines, Hosts
    <2> QED
      BY <2>1 DEF Life!Next
  <1> QED
    BY <1>2, <1>3, <1>4

LEMMA StepRefines ==
  ASSUME IInv, IInv', [Next]_vars
  PROVE  [Life!Next]_(Life!vars)
  <1>1. ASSUME NEW c \in Caller, NEW i \in Run, NEW n \in Node, Begin(c, i, n)
        PROVE  Life!Next
    BY <1>1, BeginLife DEF Life!Next
  <1>2. ASSUME NEW c \in Caller, Call(c) PROVE [Life!Next]_(Life!vars)
    BY <1>2, ThreadLife DEF Thread
  <1>3. ASSUME NEW w \in Worker, Delay(w) PROVE [Life!Next]_(Life!vars)
    <2>1. w \in Thread
      BY DEF Thread
    <2> QED
      BY <1>3, <2>1, ThreadLife, GotoLife, PopLife DEF Delay, Life!Next
  <1>4. CASE \/ \E n \in Node : NodeDown(n) \/ NodeUp(n)
             \/ TaskRemove \/ TaskBack
             \/ \E ns \in SUBSET Node : SetHosts(ns)
             \/ BeginCancel \/ NextNode \/ EndCancel \/ FailCancel
             \/ \E n \in Node : ListToCancel(n)
             \/ UNCHANGED vars
    <2>1. /\ UNCHANGED <<placeVars, pc>>
          /\ \/ UNCHANGED <<live, faults>>
             \/ live' \in {live, FALSE} /\ faults' = faults + 1
             \/ live' = TRUE /\ faults' = faults
      BY <1>4 DEF NodeDown, NodeUp, TaskRemove, TaskBack, SetHosts, BeginCancel, NextNode,
                  EndCancel, FailCancel, ListToCancel, vars, placeVars, taskVars,
                  nodeVars, callVars, cancelVars
    <2> QED
      BY <2>1, WorldLife
  <1> QED
    BY <1>1, <1>2, <1>3, <1>4, ThreadLife, ScrapydLife DEF Next, Scrapyd, Cancel

\* Dispatching, the delay queue, scrapyd, outages and cancels together implement
\* the life of a run: every step that touches a run is one step of its life, the
\* row of its task is read each time before it is accepted, and it is lost only
\* with trouble.
THEOREM ImplementsRunLife == Spec => RunLifeSpec
  <1>1. Init => Life!Init
    <2> SUFFICES ASSUME Init PROVE Life!Init
      OBVIOUS
    <2>1. \A i \in Run : Whereabouts(i) = {"fresh"}
      BY ConstantsAssumption
      DEF Init, Whereabouts, Holders, Positions, PendingOn, RunningOn
    <2>2. \A i \in Run : PendingOn(i) \cup RunningOn(i) = {}
      BY DEF Init, PendingOn, RunningOn
    <2>3. live = TRUE /\ node \in [Run -> Node] /\ (faults > 0) = FALSE
      BY DEF Init
    <2> QED
      BY <2>1, <2>2, <2>3 DEF Life!Init
  <1>2. IInv /\ IInv' /\ [Next]_vars => [Life!Next]_(Life!vars)
    BY StepRefines
  <1> QED
    BY <1>1, <1>2, SpecIInv, PTL DEF Spec, RunLifeSpec, Life!Spec

=============================================================================
