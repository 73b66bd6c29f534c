---------------------------- MODULE TickLock_proofs ----------------------------
(***************************************************************************)
(* Proofs about TickLock, for any number of processes and nodes, any fire  *)
(* times and any timing: what the 30 second lock of work_func guarantees,  *)
(* and that with it the processes implement TickOwner.                     *)
(***************************************************************************)
EXTENDS TickLock, FiniteSets, FiniteSetTheorems, TLAPS

\* Nobody is more than late behind a fire time, and nobody is ahead of one.
OnTime ==
    /\ \A p \in Proc : \A t \in FireTime : last[p] < t => now <= t + late
    /\ \A p \in Proc : pc[p] = "queued" =>
          tick[p] <= now /\ now <= tick[p] + late

\* Each time the lock was got for a fire time has moved its end by a life.
Stacked ==
    \A t \in FireTime : claims[t] > 0 => t + claims[t] * TTL <= lockUntil

\* The lock belongs to a fire time it was got for.
Owed ==
    lockUntil = 0 \/
        \E t \in FireTime : /\ claims[t] > 0
                            /\ t <= now
                            /\ lockUntil <= t + late + TTL

\* The loops that have still to reach node n for fire time t.
Heading(t, n) == {p \in Proc : pc[p] = "loop" /\ tick[p] = t /\ n \in left[p]}

\* A dispatch made, or still to be made, is covered by a lock of its own.
Covered ==
    \A t \in FireTime : \A n \in Node :
        /\ IsFiniteSet(Heading(t, n))
        /\ sent[t][n] + Cardinality(Heading(t, n)) <= claims[t]

Timing == TypeOK /\ OnTime /\ Stacked /\ Owed

-----------------------------------------------------------------------------
\* One more life of the lock.
LEMMA OneMoreLife ==
  ASSUME NEW c \in Nat
  PROVE  (c + 1) * TTL = c * TTL + TTL /\ c * TTL \in Nat
  BY ConstantsAssumption, SMT

\* What is known of a queued run and its fire time.
LEMMA QueuedRun ==
  ASSUME Timing, NEW p \in Proc, pc[p] = "queued"
  PROVE  /\ tick[p] \in FireTime /\ tick[p] \in Nat
         /\ now \in Nat /\ lockUntil \in Nat /\ claims[tick[p]] \in Nat
         /\ late \in Nat
         /\ tick[p] <= now /\ now <= tick[p] + late
<1>1. tick[p] \in FireTime
  BY DEF Timing, TypeOK
<1>2. tick[p] \in Nat
  BY <1>1, ConstantsAssumption
<1>3. now \in Nat /\ lockUntil \in Nat /\ late \in Nat
  BY ConstantsAssumption DEF Timing, TypeOK
<1>4. claims[tick[p]] \in Nat
  BY <1>1 DEF Timing, TypeOK
<1>5. tick[p] <= now /\ now <= tick[p] + late
  BY DEF Timing, OnTime
<1>6. QED
  BY <1>1, <1>2, <1>3, <1>4, <1>5

\* The type invariant and the facts about times hold at the start.
LEMMA InitTiming == Init => Timing
  BY ConstantsAssumption
  DEF Init, history, Timing, TypeOK, OnTime, Stacked, Owed

\* Getting the lock, the step that uses all the facts about times.
LEMMA AcquireTiming ==
  ASSUME Timing, NEW p \in Proc, Acquire(p)
  PROVE  Timing' /\ tick[p] \in FireTime
<1> USE ConstantsAssumption
<1> DEFINE t == tick[p]
           c == claims[t]
<1>1. /\ t \in FireTime /\ t \in Nat /\ t <= now /\ now <= t + late
      /\ now \in Nat /\ c \in Nat /\ late \in Nat
  BY QueuedRun DEF Acquire
<1>2. /\ lockUntil <= now
      /\ lockUntil' = now + TTL
      /\ pc' = [pc EXCEPT ![p] = "loop"]
      /\ left' = [left EXCEPT ![p] = Node]
      /\ claims' = [claims EXCEPT ![t] = c + 1]
      /\ UNCHANGED <<late, now, up, last, tick, sent>>
  BY DEF Acquire
<1>3. claims \in [FireTime -> Nat] /\ lockUntil \in Nat /\ FireTime \subseteq Nat
  BY DEF Timing, TypeOK
<1>4. TypeOK'
  BY <1>1, <1>2 DEF Timing, TypeOK
<1>5. OnTime'
  BY <1>2 DEF Timing, TypeOK, OnTime
<1>6. Stacked'
  <2> SUFFICES ASSUME NEW u \in FireTime, claims'[u] > 0
               PROVE  u + claims'[u] * TTL <= lockUntil'
    BY DEF Stacked
  <2>1. CASE u = t
    <3>1. claims'[u] * TTL = c * TTL + TTL /\ c * TTL \in Nat
      BY <1>1, <1>2, <1>3, <2>1, OneMoreLife
    <3>2. t + c * TTL <= now
      <4>1. CASE c = 0
        BY <1>1, <4>1
      <4>2. CASE c > 0
        <5>1. t + c * TTL <= lockUntil
          BY <1>1, <4>2 DEF Timing, Stacked
        <5>2. QED
          BY <1>1, <1>2, <1>3, <3>1, <5>1
      <4>3. QED
        BY <1>1, <4>1, <4>2
    <3>3. QED
      BY <1>1, <1>2, <2>1, <3>1, <3>2
  <2>2. CASE u # t
    <3>1. claims'[u] = claims[u] /\ u \in Nat
      BY <1>2, <1>3, <2>2
    <3>2. u + claims[u] * TTL <= lockUntil /\ claims[u] * TTL \in Nat
      BY <1>3, <2>2, <3>1, OneMoreLife DEF Timing, Stacked
    <3>3. QED
      BY <1>1, <1>2, <1>3, <3>1, <3>2
  <2>3. QED
    BY <2>1, <2>2
<1>7. Owed'
  BY <1>1, <1>2, <1>3 DEF Owed
<1>8. QED
  BY <1>1, <1>4, <1>5, <1>6, <1>7 DEF Timing

\* Every step keeps the type invariant and the facts about times.
LEMMA NextTiming == Timing /\ [Next]_vars => Timing'
<1> SUFFICES ASSUME Timing, [Next]_vars PROVE Timing'
  OBVIOUS
<1> USE ConstantsAssumption
<1>1. ASSUME NEW p \in Proc, NEW t \in FireTime, Submit(p, t) PROVE Timing'
  BY <1>1 DEF Submit, IsDue, history, Timing, TypeOK, OnTime, Stacked, Owed
<1>2. ASSUME NEW p \in Proc, NEW t \in FireTime, SkipInstance(p, t) PROVE Timing'
  BY <1>2 DEF SkipInstance, IsDue, history, Timing, TypeOK, OnTime, Stacked,
              Owed
<1>3. ASSUME NEW p \in Proc, Misfire(p) \/ Locked(p) \/ EndLoop(p) PROVE Timing'
  BY <1>3 DEF Misfire, Locked, EndLoop, history, Timing, TypeOK, OnTime,
              Stacked, Owed
<1>4. ASSUME NEW p \in Proc, Acquire(p) PROVE Timing'
  BY <1>4, AcquireTiming
<1>5. ASSUME NEW p \in Proc, NEW n \in Node, Dispatch(p, n) PROVE Timing'
  <2>1. /\ pc[p] = "loop"
        /\ left' = [left EXCEPT ![p] = left[p] \ {n}]
        /\ sent' = [sent EXCEPT ![tick[p]] =
                       [sent[tick[p]] EXCEPT ![n] = sent[tick[p]][n] + 1]]
        /\ UNCHANGED <<late, now, lockUntil, up, last, pc, tick, claims>>
    BY <1>5 DEF Dispatch
  <2>2. sent' \in [FireTime -> [Node -> Nat]]
    <3>1. tick[p] \in FireTime /\ sent \in [FireTime -> [Node -> Nat]]
      BY <2>1 DEF Timing, TypeOK
    <3>2. sent[tick[p]] \in [Node -> Nat]
      BY <3>1
    <3>3. [sent[tick[p]] EXCEPT ![n] = sent[tick[p]][n] + 1] \in [Node -> Nat]
      BY <3>2
    <3>4. QED
      BY <2>1, <3>1, <3>3
  <2>3. TypeOK'
    BY <2>1, <2>2 DEF Timing, TypeOK
  <2>4. OnTime' /\ Stacked' /\ Owed'
    BY <2>1 DEF Timing, OnTime, Stacked, Owed
  <2>5. QED
    BY <2>3, <2>4 DEF Timing
<1>6. ASSUME NEW p \in Proc, NEW n \in Node, FailDispatch(p, n) PROVE Timing'
  BY <1>6 DEF FailDispatch, history, Timing, TypeOK, OnTime, Stacked, Owed
<1>7. ASSUME NEW p \in Proc, AbortLoop(p) PROVE Timing'
  BY <1>7 DEF AbortLoop, history, Timing, TypeOK, OnTime, Stacked, Owed
<1>8. ASSUME NEW p \in Proc, Restart(p) PROVE Timing'
  BY <1>8 DEF Restart, history, Timing, TypeOK, OnTime, Stacked, Owed
<1>9. ASSUME NEW n \in Node, NodeFlips(n) PROVE Timing'
  BY <1>9 DEF NodeFlips, history, Timing, TypeOK, OnTime, Stacked, Owed
<1>10. ASSUME Advance PROVE Timing'
  <2>1. /\ now' = now + 1 /\ now < Horizon
        /\ UNCHANGED <<late, lockUntil, up, last, pc, tick, left, claims, sent>>
    BY <1>10 DEF Advance, history
  <2>2. TypeOK' /\ Stacked' /\ Owed'
    BY <2>1 DEF Timing, TypeOK, Stacked, Owed
  <2>3. OnTime'
    <3>1. now \in Nat /\ late \in Nat /\ FireTime \subseteq Nat
      BY DEF Timing, TypeOK
    <3>2. ASSUME NEW p \in Proc, NEW t \in FireTime, last[p] < t
          PROVE  now + 1 <= t + late
      <4>1. t \in Nat /\ ~ (t + late <= now)
        BY <1>10, <3>1, <3>2 DEF Advance, Behind
      <4>2. QED
        BY <3>1, <4>1
    <3>3. ASSUME NEW p \in Proc, pc[p] = "queued"
          PROVE  tick[p] <= now + 1 /\ now + 1 <= tick[p] + late
      <4>1. ~ (tick[p] + late <= now)
        BY <1>10, <3>3 DEF Advance, Behind
      <4>2. QED
        BY <3>3, <4>1, QueuedRun
    <3>4. QED
      BY <2>1, <3>2, <3>3 DEF OnTime
  <2>4. QED
    BY <2>2, <2>3 DEF Timing
<1>11. CASE UNCHANGED vars
  BY <1>11 DEF vars, history, Timing, TypeOK, OnTime, Stacked, Owed
<1>12. QED
  BY <1>1, <1>2, <1>3, <1>4, <1>5, <1>6, <1>7, <1>8, <1>9, <1>10, <1>11
  DEF Next, Step

\* The type invariant and the facts about times hold in every reachable state.
LEMMA SpecTiming == Spec => []Timing
  BY InitTiming, NextTiming, PTL DEF Spec

\* Type correctness of the processes, the lock and the history.
THEOREM TypeCorrect == Spec => []TypeOK
  BY SpecTiming, PTL DEF Timing

-----------------------------------------------------------------------------
\* How often the lock can be got for one fire time, in a step.
LEMMA AcquireBounds ==
  ASSUME Timing, NEW p \in Proc, Acquire(p)
  PROVE  /\ claims[tick[p]] * TTL <= Grace
         /\ claims[tick[p]] * TTL <= late
<1> USE ConstantsAssumption
<1> DEFINE t == tick[p]
           c == claims[t]
<1>1. /\ t \in FireTime /\ t \in Nat /\ now <= t + late /\ now \in Nat
      /\ c \in Nat /\ lockUntil \in Nat /\ late \in Nat
      /\ lockUntil <= now /\ now <= t + Grace
  BY QueuedRun DEF Acquire, InGrace
<1>2. CASE c = 0
  BY <1>1, <1>2
<1>3. CASE c > 0
  <2>1. t + c * TTL <= lockUntil
    BY <1>1, <1>3 DEF Timing, Stacked
  <2>2. PICK d \in Nat : c = d + 1
    BY <1>1, <1>3
  <2>3. c * TTL = d * TTL + TTL /\ d * TTL \in Nat
    BY <2>2, OneMoreLife
  <2>4. QED
    BY <1>1, <2>1, <2>3
<1>4. QED
  BY <1>1, <1>2, <1>3

\* A step counts a lock only when it gets it.
LEMMA ClaimsChange ==
  ASSUME Timing, [Next]_vars,
         NEW t \in FireTime, claims'[t] # claims[t]
  PROVE  \E p \in Proc :
            Acquire(p) /\ t = tick[p] /\ claims'[t] = claims[t] + 1
  BY DEF Next, Step, vars, history, Submit, SkipInstance, Misfire, Acquire,
         Locked, Dispatch, FailDispatch, AbortLoop, EndLoop, Restart, NodeFlips,
         Advance, Timing, TypeOK

\* The delays of an execution do not change.
LEMMA LateStays == [Next]_vars => late' = late
  BY DEF Next, Step, vars, history, Submit, SkipInstance, Misfire, Acquire,
         Locked, Dispatch, FailDispatch, AbortLoop, EndLoop, Restart, NodeFlips,
         Advance

\* One fire time is taken at most once, and once more for every life of the lock
\* that fits both in the grace time and in the delays.
THEOREM BoundedClaims == Spec => []ClaimsPerTickBounded
<1>1. Init => ClaimsPerTickBounded
  BY DEF Init, ClaimsPerTickBounded
<1>2. Timing /\ ClaimsPerTickBounded /\ [Next]_vars => ClaimsPerTickBounded'
  <2> SUFFICES ASSUME Timing, ClaimsPerTickBounded, [Next]_vars,
                      NEW t \in FireTime, claims'[t] > 0
               PROVE  /\ (claims'[t] - 1) * TTL <= Grace
                      /\ (claims'[t] - 1) * TTL <= late'
    BY DEF ClaimsPerTickBounded
  <2>1. late' = late
    BY LateStays
  <2>2. CASE claims'[t] = claims[t]
    BY <2>1, <2>2 DEF ClaimsPerTickBounded
  <2>3. CASE claims'[t] # claims[t]
    <3>1. PICK p \in Proc : Acquire(p) /\ t = tick[p] /\ claims'[t] = claims[t] + 1
      BY <2>3, ClaimsChange
    <3>2. claims[t] \in Nat /\ claims[t] * TTL <= Grace /\ claims[t] * TTL <= late
      BY <3>1, AcquireBounds DEF Timing, TypeOK
    <3>3. claims'[t] - 1 = claims[t]
      BY <3>1, <3>2
    <3>4. QED
      BY <2>1, <3>2, <3>3
  <2>4. QED
    BY <2>2, <2>3
<1>3. QED
  BY <1>1, <1>2, SpecTiming, PTL DEF Spec

\* With fire times far enough apart, only a run of the same fire time can turn
\* another away.
THEOREM NoTickLostToAnother == Spec => LockedOnlyByOwnTick
<1>1. ASSUME Timing, Spaced, NEW p \in Proc, Locked(p)
      PROVE  claims[tick[p]] > 0
  <2>1. /\ tick[p] \in FireTime /\ tick[p] \in Nat
        /\ tick[p] <= now /\ now <= tick[p] + late
        /\ now < lockUntil /\ now \in Nat /\ lockUntil \in Nat /\ late \in Nat
    BY <1>1, QueuedRun DEF Locked
  <2>2. PICK t \in FireTime :
           claims[t] > 0 /\ t <= now /\ lockUntil <= t + late + TTL
    BY <1>1, <2>1 DEF Timing, Owed
  <2>3. t \in Nat
    BY ConstantsAssumption
  <2>4. ~ (t < tick[p])
    BY <1>1, <2>1, <2>2, <2>3, ConstantsAssumption DEF Spaced
  <2>5. ~ (tick[p] < t)
    BY <1>1, <2>1, <2>2, <2>3, ConstantsAssumption DEF Spaced
  <2>6. QED
    BY <2>1, <2>2, <2>3, <2>4, <2>5
<1>2. Timing /\ [Next]_vars =>
        [Spaced => \A p \in Proc : Locked(p) => claims[tick[p]] > 0]_vars
  BY <1>1
<1>3. QED
  BY <1>2, SpecTiming, PTL DEF Spec, LockedOnlyByOwnTick

-----------------------------------------------------------------------------
\* Adding a process to, and taking one from, the loops heading for a node.
LEMMA OneMoreHeading ==
  ASSUME NEW S, NEW p, IsFiniteSet(S)
  PROVE  /\ IsFiniteSet(S \cup {p})
         /\ Cardinality(S \cup {p}) <= Cardinality(S) + 1
<1>1. CASE p \in S
  <2>1. S \cup {p} = S /\ Cardinality(S) \in Nat
    BY <1>1, FS_CardinalityType
  <2>2. QED
    BY <2>1
<1>2. CASE p \notin S
  <2>1. /\ IsFiniteSet(S \cup {p})
        /\ Cardinality(S \cup {p}) = Cardinality(S) + 1
    BY <1>2, FS_AddElement
  <2>2. Cardinality(S) \in Nat
    BY FS_CardinalityType
  <2>3. QED
    BY <2>1, <2>2
<1>3. QED
  BY <1>1, <1>2

\* A process whose loop no longer heads for the node.
LEMMA OneLessHeading ==
  ASSUME NEW S, NEW p \in S, IsFiniteSet(S)
  PROVE  /\ IsFiniteSet(S \ {p})
         /\ Cardinality(S \ {p}) = Cardinality(S) - 1
         /\ Cardinality(S) \in Nat /\ Cardinality(S) > 0
<1>1. /\ IsFiniteSet(S \ {p}) /\ Cardinality(S \ {p}) = Cardinality(S) - 1
      /\ Cardinality(S) \in Nat /\ Cardinality(S \ {p}) \in Nat
  BY FS_RemoveElement, FS_CardinalityType
<1>2. QED
  BY <1>1

\* A step that sends nothing, counts nothing, and sends no loop anywhere new.
LEMMA FewerHeading ==
  ASSUME Timing, Covered, UNCHANGED <<claims, sent>>,
         \A t \in FireTime : \A n \in Node : Heading(t, n)' \subseteq Heading(t, n)
  PROVE  Covered'
<1> SUFFICES ASSUME NEW t \in FireTime, NEW n \in Node
             PROVE  /\ IsFiniteSet(Heading(t, n)')
                    /\ sent'[t][n] + Cardinality(Heading(t, n)') <= claims'[t]
  BY DEF Covered
<1> DEFINE H == Heading(t, n)
           K == Heading(t, n)'
<1>1. K \subseteq H /\ IsFiniteSet(H) /\ sent[t][n] + Cardinality(H) <= claims[t]
  BY DEF Covered
<1> HIDE DEF H, K
<1>2. /\ IsFiniteSet(K) /\ Cardinality(K) <= Cardinality(H)
      /\ Cardinality(K) \in Nat /\ Cardinality(H) \in Nat
  BY <1>1, FS_Subset, FS_CardinalityType
<1>3. sent[t][n] \in Nat /\ claims[t] \in Nat /\ sent' = sent /\ claims' = claims
  BY DEF Timing, TypeOK
<1>4. IsFiniteSet(K) /\ sent'[t][n] + Cardinality(K) <= claims'[t]
  BY <1>1, <1>2, <1>3
<1>5. QED
  BY <1>4 DEF K

\* The steps that matter: a lock covers one more loop, a dispatch uses up one.
LEMMA AcquireCovered ==
  ASSUME Timing, Covered, NEW p \in Proc, Acquire(p)
  PROVE  Covered'
<1> SUFFICES ASSUME NEW t \in FireTime, NEW n \in Node
             PROVE  /\ IsFiniteSet(Heading(t, n)')
                    /\ sent'[t][n] + Cardinality(Heading(t, n)') <= claims'[t]
  BY DEF Covered
<1> DEFINE H == Heading(t, n)
           K == Heading(t, n)'
<1>1. IsFiniteSet(H) /\ sent[t][n] + Cardinality(H) <= claims[t]
  BY DEF Covered
<1>2. /\ pc' = [pc EXCEPT ![p] = "loop"]
      /\ left' = [left EXCEPT ![p] = Node]
      /\ claims' = [claims EXCEPT ![tick[p]] = claims[tick[p]] + 1]
      /\ sent' = sent /\ tick' = tick
      /\ tick[p] \in FireTime
  BY DEF Acquire, Timing, TypeOK
<1>3. /\ pc \in [Proc -> {"idle", "queued", "loop"}]
      /\ left \in [Proc -> SUBSET Node]
      /\ claims \in [FireTime -> Nat] /\ sent[t][n] \in Nat
  BY DEF Timing, TypeOK
<1>4. CASE t = tick[p]
  <2>1. K = H \cup {p}
    BY <1>2, <1>3, <1>4 DEF Heading, Acquire
  <2> HIDE DEF H, K
  <2>2. IsFiniteSet(K) /\ Cardinality(K) <= Cardinality(H) + 1
    BY <1>1, <2>1, OneMoreHeading
  <2>3. Cardinality(K) \in Nat /\ Cardinality(H) \in Nat
    BY <1>1, <2>2, FS_CardinalityType
  <2>4. claims'[t] = claims[t] + 1 /\ claims[t] \in Nat /\ sent' = sent
    BY <1>2, <1>3, <1>4
  <2>5. IsFiniteSet(K) /\ sent'[t][n] + Cardinality(K) <= claims'[t]
    BY <1>1, <1>3, <2>2, <2>3, <2>4
  <2>6. QED
    BY <2>5 DEF K
<1>5. CASE t # tick[p]
  <2>1. K = H
    BY <1>2, <1>3, <1>5 DEF Heading, Acquire
  <2>2. claims'[t] = claims[t] /\ sent'[t][n] = sent[t][n]
    BY <1>2, <1>3, <1>5
  <2>3. QED
    BY <1>1, <2>1, <2>2
<1>6. QED
  BY <1>4, <1>5

\* A dispatch takes its process from the loops that head for the node.
LEMMA DispatchCovered ==
  ASSUME Timing, Covered, NEW p \in Proc, NEW m \in Node, Dispatch(p, m)
  PROVE  Covered'
<1> SUFFICES ASSUME NEW t \in FireTime, NEW n \in Node
             PROVE  /\ IsFiniteSet(Heading(t, n)')
                    /\ sent'[t][n] + Cardinality(Heading(t, n)') <= claims'[t]
  BY DEF Covered
<1> DEFINE H == Heading(t, n)
           K == Heading(t, n)'
<1>1. IsFiniteSet(H) /\ sent[t][n] + Cardinality(H) <= claims[t]
  BY DEF Covered
<1>2. /\ pc[p] = "loop" /\ m \in left[p]
      /\ left' = [left EXCEPT ![p] = left[p] \ {m}]
      /\ sent' = [sent EXCEPT ![tick[p]] =
                     [sent[tick[p]] EXCEPT ![m] = sent[tick[p]][m] + 1]]
      /\ pc' = pc /\ tick' = tick /\ claims' = claims
  BY DEF Dispatch
<1>3. /\ left \in [Proc -> SUBSET Node]
      /\ sent \in [FireTime -> [Node -> Nat]]
      /\ claims[t] \in Nat
  BY DEF Timing, TypeOK
<1>4. sent[t] \in [Node -> Nat] /\ sent[t][n] \in Nat
  BY <1>3
<1>5. CASE t = tick[p] /\ n = m
  <2>1. K = H \ {p} /\ p \in H
    BY <1>2, <1>3, <1>5 DEF Heading
  <2>2. sent'[t][n] = sent[t][n] + 1 /\ claims'[t] = claims[t]
    BY <1>2, <1>3, <1>4, <1>5
  <2> HIDE DEF H, K
  <2>3. /\ IsFiniteSet(K) /\ Cardinality(K) = Cardinality(H) - 1
        /\ Cardinality(H) \in Nat
    BY <1>1, <2>1, OneLessHeading
  <2>4. IsFiniteSet(K) /\ sent'[t][n] + Cardinality(K) <= claims'[t]
    BY <1>1, <1>3, <1>4, <2>2, <2>3
  <2>5. QED
    BY <2>4 DEF K
<1>6. CASE ~ (t = tick[p] /\ n = m)
  <2>1. K = H
    BY <1>2, <1>3, <1>6 DEF Heading
  <2>2. sent'[t][n] = sent[t][n] /\ claims'[t] = claims[t]
    BY <1>2, <1>3, <1>4, <1>6
  <2>3. QED
    BY <1>1, <2>1, <2>2
<1>7. QED
  BY <1>5, <1>6

\* Every step keeps the dispatches covered.
LEMMA NextCovered == Timing /\ Covered /\ [Next]_vars => Covered'
<1> SUFFICES ASSUME Timing, Covered, [Next]_vars PROVE Covered'
  OBVIOUS
<1>1. ASSUME NEW p \in Proc, NEW t \in FireTime, Submit(p, t) \/ SkipInstance(p, t)
      PROVE  Covered'
  <2>1. /\ UNCHANGED <<claims, sent>>
        /\ \A u \in FireTime : \A n \in Node :
              Heading(u, n)' \subseteq Heading(u, n)
    BY <1>1 DEF Submit, SkipInstance, history, Heading, Timing, TypeOK
  <2>2. QED
    BY <2>1, FewerHeading
<1>2. ASSUME NEW p \in Proc,
             Misfire(p) \/ Locked(p) \/ AbortLoop(p) \/ EndLoop(p) \/ Restart(p)
      PROVE  Covered'
  <2>1. /\ UNCHANGED <<claims, sent>>
        /\ \A u \in FireTime : \A n \in Node :
              Heading(u, n)' \subseteq Heading(u, n)
    BY <1>2 DEF Misfire, Locked, AbortLoop, EndLoop, Restart, history, Heading,
                Timing, TypeOK
  <2>2. QED
    BY <2>1, FewerHeading
<1>3. ASSUME NEW p \in Proc, NEW m \in Node, FailDispatch(p, m) PROVE Covered'
  <2>1. /\ UNCHANGED <<claims, sent>>
        /\ \A u \in FireTime : \A n \in Node :
              Heading(u, n)' \subseteq Heading(u, n)
    BY <1>3 DEF FailDispatch, history, Heading, Timing, TypeOK
  <2>2. QED
    BY <2>1, FewerHeading
<1>4. CASE Advance \/ UNCHANGED vars \/ \E m \in Node : NodeFlips(m)
  <2>1. /\ UNCHANGED <<claims, sent>>
        /\ \A u \in FireTime : \A n \in Node :
              Heading(u, n)' \subseteq Heading(u, n)
    BY <1>4 DEF Advance, NodeFlips, vars, history, Heading
  <2>2. QED
    BY <2>1, FewerHeading
<1>5. QED
  BY <1>1, <1>2, <1>3, <1>4, AcquireCovered, DispatchCovered DEF Next, Step

\* The dispatches are covered in every reachable state.
LEMMA SpecCovered == Spec => []Covered
<1>1. Init => Covered
  <2> SUFFICES ASSUME Init, NEW t \in FireTime, NEW n \in Node
               PROVE  /\ IsFiniteSet(Heading(t, n))
                      /\ sent[t][n] + Cardinality(Heading(t, n)) <= claims[t]
    BY DEF Covered
  <2>1. Heading(t, n) = {}
    BY DEF Init, Heading
  <2>2. sent[t][n] = 0 /\ claims[t] = 0
    BY DEF Init
  <2>3. QED
    BY <2>1, <2>2, FS_EmptySet
<1>2. QED
  BY <1>1, NextCovered, SpecTiming, PTL DEF Spec

-----------------------------------------------------------------------------
\* A step of the processes is a step of the ownership it implements.
LEMMA StepRefines ==
  ASSUME Timing, Covered, [Next]_vars
  PROVE  [Ownership!Next]_(Ownership!vars)
<1> DEFINE slack == IF late < Grace THEN late ELSE Grace
<1>1. slack' = slack
  BY LateStays
<1>2. ASSUME NEW p \in Proc, Acquire(p) PROVE Ownership!Next
  <2>1. /\ tick[p] \in FireTime
        /\ claims[tick[p]] * TTL <= Grace /\ claims[tick[p]] * TTL <= late
    BY <1>2, AcquireBounds, QueuedRun DEF Acquire
  <2>2. /\ claims' = [claims EXCEPT ![tick[p]] = claims[tick[p]] + 1]
        /\ sent' = sent
    BY <1>2 DEF Acquire
  <2>3. Ownership!Claim(tick[p])
    BY <1>1, <2>1, <2>2 DEF Ownership!Claim
  <2>4. QED
    BY <2>1, <2>3 DEF Ownership!Next
<1>3. ASSUME NEW p \in Proc, NEW n \in Node, Dispatch(p, n) PROVE Ownership!Next
  <2> DEFINE t == tick[p]
  <2>1. t \in FireTime /\ p \in Heading(t, n)
    BY <1>3 DEF Dispatch, Timing, TypeOK, Heading
  <2>2. sent[t][n] < claims[t]
    <3>1. sent[t][n] \in Nat /\ claims[t] \in Nat
      BY <2>1 DEF Timing, TypeOK
    <3>2. Cardinality(Heading(t, n)) \in Nat /\ Cardinality(Heading(t, n)) > 0
      BY <2>1, OneLessHeading DEF Covered
    <3>3. sent[t][n] + Cardinality(Heading(t, n)) <= claims[t]
      BY <2>1 DEF Covered
    <3>4. QED
      BY <3>1, <3>2, <3>3
  <2>3. /\ sent' = [sent EXCEPT ![t] = [sent[t] EXCEPT ![n] = sent[t][n] + 1]]
        /\ claims' = claims
    BY <1>3 DEF Dispatch
  <2>4. Ownership!Dispatch(t, n)
    BY <1>1, <2>1, <2>2, <2>3 DEF Ownership!Dispatch
  <2>5. QED
    BY <2>1, <2>4 DEF Ownership!Next
<1>4. ASSUME NEW p \in Proc, NEW t \in FireTime, Submit(p, t) \/ SkipInstance(p, t)
      PROVE  UNCHANGED <<claims, sent>>
  BY <1>4 DEF Submit, SkipInstance, history
<1>5. ASSUME NEW p \in Proc,
             Misfire(p) \/ Locked(p) \/ AbortLoop(p) \/ EndLoop(p) \/ Restart(p)
      PROVE  UNCHANGED <<claims, sent>>
  BY <1>5 DEF Misfire, Locked, AbortLoop, EndLoop, Restart, history
<1>6. ASSUME NEW p \in Proc, NEW n \in Node, FailDispatch(p, n)
      PROVE  UNCHANGED <<claims, sent>>
  BY <1>6 DEF FailDispatch, history
<1>7. CASE Advance \/ UNCHANGED vars \/ \E n \in Node : NodeFlips(n)
  <2>1. UNCHANGED <<claims, sent>>
    BY <1>7 DEF Advance, NodeFlips, vars, history
  <2>2. QED
    BY <1>1, <2>1 DEF Ownership!vars
<1>8. QED
  BY <1>1, <1>2, <1>3, <1>4, <1>5, <1>6, <1>7 DEF Next, Step, Ownership!vars

\* work_func and its lock implement the ownership of fire times: what takes a
\* fire time again is the slack left by delays and grace time, and every owner
\* reaches each node at most once.
THEOREM ImplementsOwnership == Spec => OwnershipSpec
<1>1. Init => Ownership!Init
  BY ConstantsAssumption DEF Init, Ownership!Init
<1>2. Timing /\ Covered /\ [Next]_vars => [Ownership!Next]_(Ownership!vars)
  BY StepRefines
<1>3. QED
  BY <1>1, <1>2, SpecTiming, SpecCovered, PTL
  DEF Spec, OwnershipSpec, Ownership!Spec
================================================================================
