---------------------------- MODULE WorkDir_proofs ----------------------------
(***************************************************************************)
(* Proofs about the working directory, for any projects, any number of     *)
(* debug runs and any bound, and where OneRequestAssumption is not cited,  *)
(* any number of requests at a time.                                       *)
(***************************************************************************)
EXTENDS WorkDir, TLAPS, SequenceTheorems, WellFoundedInduction

-----------------------------------------------------------------------------
(* What a thread is at, and what it has worked out by then.                *)

Dir == Seq(Project)
Files == {"empty", "copied", "placed", "whole", "gutted"}
DiskDir == [files : {"empty", "copied", "placed", "whole", "gutted"},
            setup : BOOLEAN, eggs : SUBSET Project]
Work == [op : DOMAIN Steps \cup {"none"}, project : Project \cup {Idle.project},
         at : Nat, saved : Dir, path : Dir, dir : Dir, used : Dir,
         disturbed : BOOLEAN]

\* r is between two steps of a request or run.
Within(r, op, from, to) == r.op = op /\ r.at \in from .. to

\* The process was moved to r.dir and has not been moved back by r.
Inside(r) ==
    \/ Within(r, "show", 3, 3) \/ Within(r, "scan", 4, 4) \/ Within(r, "debug", 4, 5)
    \/ Within(r, "build", 4, 7) \/ Within(r, "sync", 5, 8)

Writing(r) == Within(r, "build", 5, 7) \/ Within(r, "sync", 6, 8)
Packed(r) == Within(r, "build", 6, 7) \/ Within(r, "sync", 7, 8)
Opened(r) == Within(r, "deploy", 4, 5) \/ Within(r, "sync", 11, 11)
Filling(r) == Within(r, "create", 6, 7)

Places == DOMAIN disk \cup {Root}

WorkTypes(r) ==
    /\ r.saved \in Places
    /\ r.op # "none" =>
          /\ r.project \in Project
          /\ r.at \in 1 .. Len(Steps[r.op])
          /\ Inside(r) \/ Filling(r) => r.dir \in DOMAIN disk
          /\ Filling(r) => Front(r.dir) \in Places
          /\ Writing(r) => disk[r.dir].setup
          /\ Packed(r) => r.used \in DOMAIN disk
          /\ Opened(r) => r.used \in Dir \ {Root}

TypeInv ==
    /\ cwd \in Places
    /\ env \in Places
    /\ disk \in [DOMAIN disk -> DiskDir] /\ DOMAIN disk \subseteq Dir \ {Root}
    /\ \A d \in DOMAIN disk : disk[d].eggs # {} => disk[d].setup
    /\ shipped \subseteq Project \X Project
    /\ work \in [Thread -> Work]
    /\ \A t \in Thread : WorkTypes(work[t])
    /\ \A t \in Thread : work[t].op \in Requests => t \in Handler
    /\ begun \in 0 .. MaxWork
    /\ strayed \in BOOLEAN

-----------------------------------------------------------------------------
(* The way back.                                                           *)

\* r will move the process to the directory it noted.
Away(r) ==
    /\ r.op # "none"
    /\ \E k \in DOMAIN Steps[r.op] : k >= r.at /\ Steps[r.op][k] = "restore"
    /\ r.op = "scan" => r.at = 4 \/ (r.at = 5 /\ env # Root)

WayBack ==
    ~ strayed => /\ \A t \in Thread : work[t].saved = Root
                 /\ cwd # Root => \E t \in Thread : Away(work[t])

-----------------------------------------------------------------------------
(* A creation.                                                             *)

HasFiles(d, fs) == d \in DOMAIN disk /\ disk[d].files \in fs

\* What a creation has made so far, and that the work of one that nobody disturbs
\* is all in the directory it began with.
Creation(r) ==
    r.op = "create" =>
       /\ r.at <= 3 => r.used = Root
       /\ r.at <= 5 => r.dir = Root
       /\ r.at \in 4 .. 8 => r.used # Root
       /\ ~ r.disturbed =>
             /\ r.used \in {Root, Append(cwd, r.project)}
             /\ r.dir \in {Root, r.used}
             /\ r.at = 6 => HasFiles(r.dir, {"copied"})
             /\ r.at = 7 => HasFiles(r.dir, {"placed"})
             /\ r.at = 8 => HasFiles(r.dir, {"whole"})
             /\ r.at = 9 => \A d \in {r.used, r.dir} \ {Root} :
                               d \in halved \/ HasFiles(d, {"whole"})

CreateInv ==
    /\ \A t \in Thread : Creation(work[t])
    /\ HalfMadeOnlyIfBroken

-----------------------------------------------------------------------------
(* Whose project it is.                                                    *)

\* d was left half made, or will be.
Abandoned(d) ==
    \/ d \in halved
    \/ \E t \in Handler : work[t].op = "create" /\ work[t].disturbed
                             /\ d \in {work[t].used, work[t].dir}

\* r has not yet read or loaded what it is to show, scan or run, and has done so.
NotYet(r) == Within(r, "show", 1, 3) \/ Within(r, "scan", 1, 4) \/ Within(r, "debug", 1, 5)
Done(r) == Within(r, "show", 4, 4) \/ Within(r, "scan", 5, 5) \/ Within(r, "debug", 6, 6)

Own(r) ==
    r.op # "none" =>
       /\ r.dir # Root => Last(r.dir) = r.project
       /\ r.path # Root => Last(r.path) = r.project
       /\ Inside(r) /\ ~ r.disturbed => cwd = r.dir /\ env = Root
       /\ Packed(r) /\ ~ r.disturbed => r.used = r.dir
       /\ Opened(r) => Last(r.used) = r.project \/ r.project \in spoilt
       /\ NotYet(r) => r.used = Root
       /\ Done(r) => \/ r.used = Root \/ r.disturbed \/ Last(r.used) = r.project
                     \/ r.op # "show" /\ r.dir # Root /\ Abandoned(r.dir)

EggsOwn ==
    \A d \in DOMAIN disk : \A e \in disk[d].eggs : e # Last(d) => Last(d) \in spoilt

ShippedOwn == \A s \in shipped : s[1] # s[2] => s[1] \in spoilt

OwnInv ==
    /\ \A t \in Thread : Own(work[t])
    /\ EggsOwn
    /\ ShippedOwn

-----------------------------------------------------------------------------
(* The steps of the handlers, one by one.                                  *)

LEMMA Ops ==
  /\ DOMAIN Steps = {"look", "show", "scan", "create", "build", "deploy", "sync", "debug"}
  /\ "none" \notin DOMAIN Steps
  /\ Requests = DOMAIN Steps \ {"debug"}
  BY DEF Steps, Requests

LEMMA StepsOfLook ==
  /\ Len(Steps["look"]) = 2
  /\ DOMAIN Steps["look"] = 1 .. 2
  /\ Steps["look"][1] = "save" /\ Steps["look"][2] = "restore"
  BY DEF Steps

LEMMA StepsOfShow ==
  /\ Len(Steps["show"]) = 4
  /\ DOMAIN Steps["show"] = 1 .. 4
  /\ Steps["show"][1] = "save" /\ Steps["show"][2] = "enterHere"
  /\ Steps["show"][3] = "read" /\ Steps["show"][4] = "restore"
  BY DEF Steps

LEMMA StepsOfScan ==
  /\ Len(Steps["scan"]) = 5
  /\ DOMAIN Steps["scan"] = 1 .. 5
  /\ Steps["scan"][1] = "resolve" /\ Steps["scan"][2] = "save"
  /\ Steps["scan"][3] = "enter" /\ Steps["scan"][4] = "load"
  /\ Steps["scan"][5] = "restore"
  BY DEF Steps

LEMMA StepsOfCreate ==
  /\ Len(Steps["create"]) = 9
  /\ DOMAIN Steps["create"] = 1 .. 9
  /\ Steps["create"][1] = "save" /\ Steps["create"][2] = "query"
  /\ Steps["create"][3] = "mkdir" /\ Steps["create"][4] = "describe"
  /\ Steps["create"][5] = "copy" /\ Steps["create"][6] = "place"
  /\ Steps["create"][7] = "render" /\ Steps["create"][8] = "query"
  /\ Steps["create"][9] = "restore"
  BY DEF Steps, CreateSteps

LEMMA StepsOfBuild ==
  /\ Len(Steps["build"]) = 8
  /\ DOMAIN Steps["build"] = 1 .. 8
  /\ Steps["build"][1] = "save" /\ Steps["build"][2] = "resolve"
  /\ Steps["build"][3] = "enter" /\ Steps["build"][4] = "setup"
  /\ Steps["build"][5] = "pack" /\ Steps["build"][6] = "clear"
  /\ Steps["build"][7] = "moveIn" /\ Steps["build"][8] = "restore"
  BY DEF Steps

LEMMA StepsOfDeploy ==
  /\ Len(Steps["deploy"]) = 6
  /\ DOMAIN Steps["deploy"] = 1 .. 6
  /\ Steps["deploy"][1] = "save" /\ Steps["deploy"][2] = "note"
  /\ Steps["deploy"][3] = "openEgg" /\ Steps["deploy"][4] = "query"
  /\ Steps["deploy"][5] = "publish" /\ Steps["deploy"][6] = "restore"
  BY DEF Steps

LEMMA StepsOfSync ==
  /\ Len(Steps["sync"]) = 11
  /\ DOMAIN Steps["sync"] = 1 .. 11
  /\ Steps["sync"][1] = "note" /\ Steps["sync"][2] = "save"
  /\ Steps["sync"][3] = "resolve" /\ Steps["sync"][4] = "enter"
  /\ Steps["sync"][5] = "setup" /\ Steps["sync"][6] = "pack"
  /\ Steps["sync"][7] = "clear" /\ Steps["sync"][8] = "moveIn"
  /\ Steps["sync"][9] = "restore" /\ Steps["sync"][10] = "openEgg"
  /\ Steps["sync"][11] = "publish"
  BY DEF Steps

LEMMA StepsOfDebug ==
  /\ Len(Steps["debug"]) = 6
  /\ DOMAIN Steps["debug"] = 1 .. 6
  /\ Steps["debug"][1] = "save" /\ Steps["debug"][2] = "resolve"
  /\ Steps["debug"][3] = "enter" /\ Steps["debug"][4] = "query"
  /\ Steps["debug"][5] = "run" /\ Steps["debug"][6] = "restore"
  BY DEF Steps

OpAt(r, op, k) == r.op = op /\ r.at = k

\* Where r is, when it is about to take the step with a label.
LEMMA Positions ==
  ASSUME NEW r, r.op \in DOMAIN Steps, r.at \in 1 .. Len(Steps[r.op])
  PROVE  /\ Steps[r.op][r.at] = "save" =>
               \/ OpAt(r, "look", 1) \/ OpAt(r, "show", 1) \/ OpAt(r, "scan", 2)
               \/ OpAt(r, "create", 1) \/ OpAt(r, "build", 1) \/ OpAt(r, "deploy", 1)
               \/ OpAt(r, "sync", 2) \/ OpAt(r, "debug", 1)
         /\ Steps[r.op][r.at] = "restore" =>
               \/ OpAt(r, "look", 2) \/ OpAt(r, "show", 4) \/ OpAt(r, "scan", 5)
               \/ OpAt(r, "create", 9) \/ OpAt(r, "build", 8) \/ OpAt(r, "deploy", 6)
               \/ OpAt(r, "sync", 9) \/ OpAt(r, "debug", 6)
         /\ Steps[r.op][r.at] = "enterHere" =>
               OpAt(r, "show", 2)
         /\ Steps[r.op][r.at] = "read" =>
               OpAt(r, "show", 3)
         /\ Steps[r.op][r.at] = "resolve" =>
               \/ OpAt(r, "scan", 1) \/ OpAt(r, "build", 2) \/ OpAt(r, "sync", 3)
               \/ OpAt(r, "debug", 2)
         /\ Steps[r.op][r.at] = "enter" =>
               \/ OpAt(r, "scan", 3) \/ OpAt(r, "build", 3) \/ OpAt(r, "sync", 4)
               \/ OpAt(r, "debug", 3)
         /\ Steps[r.op][r.at] = "load" =>
               OpAt(r, "scan", 4)
         /\ Steps[r.op][r.at] = "query" =>
               \/ OpAt(r, "create", 2) \/ OpAt(r, "create", 8) \/ OpAt(r, "deploy", 4)
               \/ OpAt(r, "debug", 4)
         /\ Steps[r.op][r.at] = "mkdir" =>
               OpAt(r, "create", 3)
         /\ Steps[r.op][r.at] = "describe" =>
               OpAt(r, "create", 4)
         /\ Steps[r.op][r.at] = "copy" =>
               OpAt(r, "create", 5)
         /\ Steps[r.op][r.at] = "place" =>
               OpAt(r, "create", 6)
         /\ Steps[r.op][r.at] = "render" =>
               OpAt(r, "create", 7)
         /\ Steps[r.op][r.at] = "setup" =>
               OpAt(r, "build", 4) \/ OpAt(r, "sync", 5)
         /\ Steps[r.op][r.at] = "pack" =>
               OpAt(r, "build", 5) \/ OpAt(r, "sync", 6)
         /\ Steps[r.op][r.at] = "clear" =>
               OpAt(r, "build", 6) \/ OpAt(r, "sync", 7)
         /\ Steps[r.op][r.at] = "moveIn" =>
               OpAt(r, "build", 7) \/ OpAt(r, "sync", 8)
         /\ Steps[r.op][r.at] = "note" =>
               OpAt(r, "deploy", 2) \/ OpAt(r, "sync", 1)
         /\ Steps[r.op][r.at] = "openEgg" =>
               OpAt(r, "deploy", 3) \/ OpAt(r, "sync", 10)
         /\ Steps[r.op][r.at] = "publish" =>
               OpAt(r, "deploy", 5) \/ OpAt(r, "sync", 11)
         /\ Steps[r.op][r.at] = "run" =>
               OpAt(r, "debug", 5)
  <1>1. CASE r.op = "look"
    <2>1. r.at = 1 \/ r.at = 2
      BY <1>1, StepsOfLook
    <2> QED
      BY <1>1, <2>1, StepsOfLook DEF OpAt
  <1>2. CASE r.op = "show"
    <2>1. r.at = 1 \/ r.at = 2 \/ r.at = 3 \/ r.at = 4
      BY <1>2, StepsOfShow
    <2> QED
      BY <1>2, <2>1, StepsOfShow DEF OpAt
  <1>3. CASE r.op = "scan"
    <2>1. r.at = 1 \/ r.at = 2 \/ r.at = 3 \/ r.at = 4 \/ r.at = 5
      BY <1>3, StepsOfScan
    <2> QED
      BY <1>3, <2>1, StepsOfScan DEF OpAt
  <1>4. CASE r.op = "create"
    <2>1. \/ r.at = 1 \/ r.at = 2 \/ r.at = 3 \/ r.at = 4
          \/ r.at = 5 \/ r.at = 6 \/ r.at = 7 \/ r.at = 8
          \/ r.at = 9
      BY <1>4, StepsOfCreate
    <2> QED
      BY <1>4, <2>1, StepsOfCreate DEF OpAt
  <1>5. CASE r.op = "build"
    <2>1. \/ r.at = 1 \/ r.at = 2 \/ r.at = 3 \/ r.at = 4
          \/ r.at = 5 \/ r.at = 6 \/ r.at = 7 \/ r.at = 8
      BY <1>5, StepsOfBuild
    <2> QED
      BY <1>5, <2>1, StepsOfBuild DEF OpAt
  <1>6. CASE r.op = "deploy"
    <2>1. r.at = 1 \/ r.at = 2 \/ r.at = 3 \/ r.at = 4 \/ r.at = 5 \/ r.at = 6
      BY <1>6, StepsOfDeploy
    <2> QED
      BY <1>6, <2>1, StepsOfDeploy DEF OpAt
  <1>7. CASE r.op = "sync"
    <2>1. \/ r.at = 1 \/ r.at = 2 \/ r.at = 3 \/ r.at = 4
          \/ r.at = 5 \/ r.at = 6 \/ r.at = 7 \/ r.at = 8
          \/ r.at = 9 \/ r.at = 10 \/ r.at = 11
      BY <1>7, StepsOfSync
    <2> QED
      BY <1>7, <2>1, StepsOfSync DEF OpAt
  <1>8. CASE r.op = "debug"
    <2>1. r.at = 1 \/ r.at = 2 \/ r.at = 3 \/ r.at = 4 \/ r.at = 5 \/ r.at = 6
      BY <1>8, StepsOfDebug
    <2> QED
      BY <1>8, <2>1, StepsOfDebug DEF OpAt
  <1> QED
    BY Ops, <1>1, <1>2, <1>3, <1>4, <1>5, <1>6, <1>7, <1>8

RestoreAt == [look |-> 2, show |-> 4, scan |-> 5, create |-> 9, build |-> 8, deploy |-> 6,
              sync |-> 9, debug |-> 6]

\* An exception leads to the statement that restores the directory, once.
LEMMA Restores ==
  ASSUME NEW op \in DOMAIN Steps
  PROVE  /\ RestoreAt[op] \in 1 .. Len(Steps[op])
         /\ DOMAIN Steps[op] = 1 .. Len(Steps[op])
         /\ \A k \in DOMAIN Steps[op] : Steps[op][k] = "restore" <=> k = RestoreAt[op]
  <1>1. CASE op = "look"
    <2>1. ASSUME NEW k \in DOMAIN Steps["look"]
          PROVE  Steps["look"][k] = "restore" <=> k = 2
      <3>1. k = 1 \/ k = 2
        BY StepsOfLook
      <3> QED
        BY <3>1, StepsOfLook
    <2> QED
      BY <1>1, <2>1, StepsOfLook DEF RestoreAt
  <1>2. CASE op = "show"
    <2>1. ASSUME NEW k \in DOMAIN Steps["show"]
          PROVE  Steps["show"][k] = "restore" <=> k = 4
      <3>1. k = 1 \/ k = 2 \/ k = 3 \/ k = 4
        BY StepsOfShow
      <3> QED
        BY <3>1, StepsOfShow
    <2> QED
      BY <1>2, <2>1, StepsOfShow DEF RestoreAt
  <1>3. CASE op = "scan"
    <2>1. ASSUME NEW k \in DOMAIN Steps["scan"]
          PROVE  Steps["scan"][k] = "restore" <=> k = 5
      <3>1. k = 1 \/ k = 2 \/ k = 3 \/ k = 4 \/ k = 5
        BY StepsOfScan
      <3> QED
        BY <3>1, StepsOfScan
    <2> QED
      BY <1>3, <2>1, StepsOfScan DEF RestoreAt
  <1>4. CASE op = "create"
    <2>1. ASSUME NEW k \in DOMAIN Steps["create"]
          PROVE  Steps["create"][k] = "restore" <=> k = 9
      <3>1. k = 1 \/ k = 2 \/ k = 3 \/ k = 4 \/ k = 5 \/ k = 6 \/ k = 7 \/ k = 8 \/ k = 9
        BY StepsOfCreate
      <3> QED
        BY <3>1, StepsOfCreate
    <2> QED
      BY <1>4, <2>1, StepsOfCreate DEF RestoreAt
  <1>5. CASE op = "build"
    <2>1. ASSUME NEW k \in DOMAIN Steps["build"]
          PROVE  Steps["build"][k] = "restore" <=> k = 8
      <3>1. k = 1 \/ k = 2 \/ k = 3 \/ k = 4 \/ k = 5 \/ k = 6 \/ k = 7 \/ k = 8
        BY StepsOfBuild
      <3> QED
        BY <3>1, StepsOfBuild
    <2> QED
      BY <1>5, <2>1, StepsOfBuild DEF RestoreAt
  <1>6. CASE op = "deploy"
    <2>1. ASSUME NEW k \in DOMAIN Steps["deploy"]
          PROVE  Steps["deploy"][k] = "restore" <=> k = 6
      <3>1. k = 1 \/ k = 2 \/ k = 3 \/ k = 4 \/ k = 5 \/ k = 6
        BY StepsOfDeploy
      <3> QED
        BY <3>1, StepsOfDeploy
    <2> QED
      BY <1>6, <2>1, StepsOfDeploy DEF RestoreAt
  <1>7. CASE op = "sync"
    <2>1. ASSUME NEW k \in DOMAIN Steps["sync"]
          PROVE  Steps["sync"][k] = "restore" <=> k = 9
      <3>1. \/ k = 1 \/ k = 2 \/ k = 3 \/ k = 4
            \/ k = 5 \/ k = 6 \/ k = 7 \/ k = 8
            \/ k = 9 \/ k = 10 \/ k = 11
        BY StepsOfSync
      <3> QED
        BY <3>1, StepsOfSync
    <2> QED
      BY <1>7, <2>1, StepsOfSync DEF RestoreAt
  <1>8. CASE op = "debug"
    <2>1. ASSUME NEW k \in DOMAIN Steps["debug"]
          PROVE  Steps["debug"][k] = "restore" <=> k = 6
      <3>1. k = 1 \/ k = 2 \/ k = 3 \/ k = 4 \/ k = 5 \/ k = 6
        BY StepsOfDebug
      <3> QED
        BY <3>1, StepsOfDebug
    <2> QED
      BY <1>8, <2>1, StepsOfDebug DEF RestoreAt
  <1> QED
    BY Ops, <1>1, <1>2, <1>3, <1>4, <1>5, <1>6, <1>7, <1>8

-----------------------------------------------------------------------------
(* Directories.                                                            *)

LEMMA Below ==
  ASSUME NEW d \in Dir, NEW p \in Project
  PROVE  /\ Append(d, p) \in Dir \ {Root}
         /\ Last(Append(d, p)) = p
         /\ Front(Append(d, p)) = d
         /\ Append(d, p) # d
  <1> DEFINE e == Append(d, p)
  <1>1. e \in Dir /\ Len(e) = Len(d) + 1 /\ e[Len(e)] = p /\ e # Root
    BY DEF Dir, Root
  <1>2. \A i \in 1 .. Len(d) : e[i] = d[i]
    BY DEF Dir
  <1>3. Front(e) = SubSeq(e, 1, Len(d))
    BY <1>1 DEF Front, Dir
  <1>4. Front(e) \in Dir /\ Len(Front(e)) = Len(d)
    BY <1>1, <1>3 DEF Dir
  <1>5. \A i \in 1 .. Len(d) : Front(e)[i] = d[i]
    BY <1>1, <1>2, <1>3 DEF Dir
  <1>6. Front(e) = d
    BY <1>4, <1>5, SeqEqual DEF Dir
  <1>7. e # d
    BY <1>1 DEF Dir
  <1> QED
    BY <1>1, <1>6, <1>7 DEF Last

LEMMA LastIn ==
  ASSUME NEW d \in Dir \ {Root}
  PROVE  Last(d) \in Project
  BY EmptySeq DEF Last, Dir, Root

LEMMA Single ==
  ASSUME NEW p \in Project
  PROVE  <<p>> \in Dir \ {Root} /\ Last(<<p>>) = p
  BY DEF Last, Dir, Root

LEMMA Greatest ==
  ASSUME NEW n \in Nat, NEW T \in SUBSET (1 .. n), T # {}
  PROVE  \E k \in T : \A j \in T : j <= k
  <1> DEFINE U == {m \in Nat : n - m \in T}
             R == OpToRel(<, Nat)
  <1>1. U # {}
    <2>1. PICK k \in T : TRUE
      OBVIOUS
    <2>2. n - k \in Nat /\ n - (n - k) = k
      BY <2>1
    <2> QED
      BY <2>1, <2>2
  <1>2. PICK m \in U : \A j \in U : <<j, m>> \notin R
    BY <1>1, NatLessThanWellFounded, WFMin
  <1>3. \A j \in U : ~ (j < m)
    BY <1>2 DEF OpToRel
  <1>4. n - m \in T
    BY <1>2
  <1>5. ASSUME NEW j \in T
        PROVE  j <= n - m
    <2>1. n - j \in Nat /\ n - (n - j) = j
      OBVIOUS
    <2>2. n - j \in U
      BY <2>1
    <2>3. m \in Nat /\ ~ (n - j < m)
      BY <1>2, <1>3, <2>2
    <2>4. j \in Int /\ n \in Int
      OBVIOUS
    <2> HIDE DEF U
    <2> QED
      BY <2>3, <2>4
  <1> QED
    BY <1>4, <1>5

\* The nearest settings are those of a directory of the disk, if not the root, and
\* a directory that has settings goes by its own.
LEMMA NearestSettings ==
  ASSUME disk \in [DOMAIN disk -> DiskDir], NEW d \in Dir
  PROVE  /\ SettingsAt(d) \in Places
         /\ d \in DOMAIN disk /\ d # Root /\ disk[d].files # "empty" => SettingsAt(d) = d
  <1> DEFINE found == {k \in 1 .. Len(d) : /\ SubSeq(d, 1, k) \in DOMAIN disk
                                           /\ disk[SubSeq(d, 1, k)].files # "empty"}
             best == CHOOSE k \in found : \A j \in found : j <= k
  <1>1. SettingsAt(d) = IF found = {} THEN Root ELSE SubSeq(d, 1, best)
    BY Zenon DEF SettingsAt
  <1>2. Len(d) \in Nat /\ found \in SUBSET (1 .. Len(d))
    BY DEF Dir
  <1>3. ASSUME found # {}
        PROVE  best \in found /\ \A j \in found : j <= best
    <2>1. \E k \in found : \A j \in found : j <= k
      BY <1>2, <1>3, Greatest
    <2> QED
      BY <2>1
  <1>4. SettingsAt(d) \in Places
    BY <1>1, <1>3 DEF Places
  <1>5. ASSUME d \in DOMAIN disk, d # Root, disk[d].files # "empty"
        PROVE  SettingsAt(d) = d
    <2>1. SubSeq(d, 1, Len(d)) = d
      BY DEF Dir
    <2>2. Len(d) \in 1 .. Len(d)
      BY <1>5, EmptySeq DEF Dir, Root
    <2>3. Len(d) \in found
      BY <1>5, <2>1, <2>2
    <2>4. best = Len(d)
      BY <1>2, <1>3, <2>3
    <2> QED
      BY <1>1, <2>1, <2>3, <2>4
  <1> QED
    BY <1>4, <1>5

-----------------------------------------------------------------------------
(* What a step of one thread does to the others.                           *)

Left(r) == IF r.at < RestoreAt[r.op] THEN [r EXCEPT !.at = RestoreAt[r.op]] ELSE Idle

Noticed(u) ==
    \/ /\ work'[u] = work[u]
       /\ work[u].op = "none" \/ work[u].disturbed \/ (cwd' = cwd /\ env' \in {env, Root})
    \/ work'[u] = [work[u] EXCEPT !.disturbed = TRUE]

Becomes(t, r) ==
    /\ work' \in [Thread -> Work]
    /\ work'[t] = r
    /\ \A u \in Thread \ {t} : Noticed(u)

Grows ==
    /\ DOMAIN disk \subseteq DOMAIN disk'
    /\ \A d \in DOMAIN disk : disk[d].setup => disk'[d].setup

LEMMA IdleWork == Idle \in Work /\ Idle.op = "none" /\ Idle.saved = Root
                       /\ Idle.used = Root /\ Idle.dir = Root
  BY EmptySeq DEF Idle, Work, Dir, Root

LEMMA AtWork ==
  ASSUME TypeInv, NEW t \in Thread, work[t].op # "none"
  PROVE  /\ work[t] \in Work
         /\ work[t].op \in DOMAIN Steps
         /\ work[t].project \in Project
         /\ work[t].at \in 1 .. Len(Steps[work[t].op])
         /\ work[t].saved \in Places
  BY DEF TypeInv, WorkTypes, Work

LEMMA EndedWork ==
  ASSUME NEW r \in Work
  PROVE  /\ Ended(r) \in Work
         /\ Ended(r).op # "none" => r.at # Len(Steps[r.op]) /\ Ended(r) = [r EXCEPT !.at = r.at + 1]
         /\ r.op # "none" /\ r.at # Len(Steps[r.op]) => Ended(r).op # "none"
         /\ r.at = Len(Steps[r.op]) => Ended(r) = Idle
  BY IdleWork DEF Ended, Work

LEMMA AdvanceBecomes ==
  ASSUME TypeInv, NEW t \in Thread, NEW r \in Work, Advance(t, r),
         cwd' = cwd, env' = env
  PROVE  Becomes(t, Ended(r))
  <1>1. work' = [work EXCEPT ![t] = Ended(r)] /\ Ended(r) \in Work
    BY EndedWork DEF Advance
  <1> QED
    BY <1>1 DEF Becomes, Noticed, TypeInv

LEMMA LeaveBecomes ==
  ASSUME TypeInv, NEW t \in Thread, work[t].op # "none", Leave(t),
         cwd' = cwd, env' = env
  PROVE  Becomes(t, Left(work[t]))
  <1> DEFINE r == work[t]
             finally == {k \in DOMAIN Steps[r.op] : k > r.at /\ Steps[r.op][k] = "restore"}
             new == IF finally = {} THEN Idle
                    ELSE [r EXCEPT !.at = CHOOSE k \in finally : TRUE]
  <1>1. work' = [work EXCEPT ![t] = new]
    BY DEF Leave
  <1>2. /\ r \in Work /\ r.op \in DOMAIN Steps /\ r.at \in Nat
        /\ RestoreAt[r.op] \in Nat
    BY AtWork, Restores DEF Work
  <1>3. ASSUME r.at < RestoreAt[r.op]
        PROVE  new = Left(r)
    <2>1. finally = {RestoreAt[r.op]}
      BY <1>2, <1>3, Restores
    <2>2. new = [r EXCEPT !.at = RestoreAt[r.op]]
      BY <2>1
    <2> QED
      BY <1>2, <1>3, <2>2 DEF Left, Work
  <1>4. ASSUME ~ (r.at < RestoreAt[r.op])
        PROVE  new = Left(r)
    <2>1. finally = {}
      BY <1>2, <1>4, Restores
    <2> QED
      BY <1>4, <2>1 DEF Left
  <1>5. new = Left(r)
    BY <1>3, <1>4
  <1>6. new \in Work
    BY <1>2, <1>5, IdleWork DEF Left, Work
  <1> QED
    BY <1>1, <1>5, <1>6 DEF Becomes, Noticed, TypeInv

LEMMA MoveBecomes ==
  ASSUME TypeInv, NEW t \in Thread, NEW d \in Dir, NEW r \in Work, MoveTo(t, d, r),
         env' \in {env, Root}
  PROVE  Becomes(t, r) /\ cwd' = d
  <1>1. /\ cwd' = d
        /\ work' = [u \in Thread |->
                      IF u = t THEN r
                      ELSE [work[u] EXCEPT !.disturbed =
                               @ \/ (work[u].op # "none" /\ d # cwd)]]
    BY DEF MoveTo
  <1>2. ASSUME NEW u \in Thread, u # t
        PROVE  work'[u] \in Work /\ Noticed(u)
    <2>1. work[u] \in Work /\ work[u].disturbed \in BOOLEAN
      BY DEF TypeInv, Work
    <2>2. CASE work[u].op # "none" /\ d # cwd
      <3>1. work'[u] = [work[u] EXCEPT !.disturbed = TRUE]
        BY <1>1, <1>2, <2>1, <2>2
      <3> QED
        BY <2>1, <3>1 DEF Noticed, Work
    <2>3. CASE ~ (work[u].op # "none" /\ d # cwd)
      <3>1. work'[u] = [work[u] EXCEPT !.disturbed = work[u].disturbed]
        BY <1>1, <1>2, <2>1, <2>3
      <3>2. work'[u] = work[u]
        BY <2>1, <3>1 DEF Work
      <3> QED
        BY <1>1, <2>1, <2>3, <3>2 DEF Noticed
    <2> QED
      BY <2>2, <2>3
  <1> QED
    BY <1>1, <1>2 DEF Becomes

LEMMA OthersTypes ==
  ASSUME TypeInv, NEW u \in Thread, Noticed(u), Grows
  PROVE  /\ WorkTypes(work[u])'
         /\ (work[u].op \in Requests => u \in Handler)'
  <1>1. /\ work[u] \in Work /\ WorkTypes(work[u])
        /\ work[u].op \in Requests => u \in Handler
    BY DEF TypeInv
  <1>2. /\ work'[u].op = work[u].op /\ work'[u].at = work[u].at
        /\ work'[u].project = work[u].project /\ work'[u].saved = work[u].saved
        /\ work'[u].dir = work[u].dir /\ work'[u].used = work[u].used
    BY <1>1 DEF Noticed, Work
  <1> QED
    BY <1>1, <1>2 DEF WorkTypes, Grows, Places, Inside, Filling, Writing, Packed, Opened, Within

\* A step of t keeps the types if it leaves t and what it changes in order.
LEMMA TypesKept ==
  ASSUME TypeInv, NEW t \in Thread, NEW r, Becomes(t, r), Grows,
         WorkTypes(work[t])', (work[t].op \in Requests => t \in Handler)',
         (cwd \in Places)', (env \in Places)',
         disk' \in [DOMAIN disk' -> DiskDir], DOMAIN disk' \subseteq Dir \ {Root},
         \A d \in DOMAIN disk' : disk'[d].eggs # {} => disk'[d].setup,
         shipped' \subseteq Project \X Project,
         begun' \in 0 .. MaxWork, strayed' \in BOOLEAN
  PROVE  TypeInv'
  <1>1. ASSUME NEW u \in Thread
        PROVE  WorkTypes(work[u])' /\ (work[u].op \in Requests => u \in Handler)'
    <2>1. CASE u = t
      BY <2>1
    <2>2. CASE u # t
      BY <2>2, OthersTypes DEF Becomes
    <2> QED
      BY <2>1, <2>2
  <1>2. work' \in [Thread -> Work]
    BY DEF Becomes
  <1> QED
    BY <1>1, <1>2 DEF TypeInv

-----------------------------------------------------------------------------
(* What each step does to its own thread.                                  *)

LEMMA Lengths ==
  /\ Len(Steps["look"]) = 2 /\ Len(Steps["show"]) = 4 /\ Len(Steps["scan"]) = 5
  /\ Len(Steps["create"]) = 9 /\ Len(Steps["build"]) = 8 /\ Len(Steps["deploy"]) = 6
  /\ Len(Steps["sync"]) = 11 /\ Len(Steps["debug"]) = 6
  /\ RestoreAt["look"] = 2 /\ RestoreAt["show"] = 4 /\ RestoreAt["scan"] = 5
  /\ RestoreAt["create"] = 9 /\ RestoreAt["build"] = 8 /\ RestoreAt["deploy"] = 6
  /\ RestoreAt["sync"] = 9 /\ RestoreAt["debug"] = 6
  BY StepsOfLook, StepsOfShow, StepsOfScan, StepsOfCreate, StepsOfBuild, StepsOfDeploy,
     StepsOfSync, StepsOfDebug DEF RestoreAt

LEMMA PlacesDirs ==
  ASSUME TypeInv
  PROVE  Places \subseteq Dir /\ cwd \in Dir /\ env \in Dir
  BY EmptySeq DEF TypeInv, Places, Dir, Root

LEMMA NotLast ==
  ASSUME NEW op \in DOMAIN Steps, NEW k \in 1 .. Len(Steps[op]),
         Steps[op][k] \notin {"restore", "publish"}
  PROVE  k # Len(Steps[op])
  <1>1. CASE op = "look"
    BY <1>1, StepsOfLook
  <1>2. CASE op = "show"
    BY <1>2, StepsOfShow
  <1>3. CASE op = "scan"
    BY <1>3, StepsOfScan
  <1>4. CASE op = "create"
    BY <1>4, StepsOfCreate
  <1>5. CASE op = "build"
    BY <1>5, StepsOfBuild
  <1>6. CASE op = "deploy"
    BY <1>6, StepsOfDeploy
  <1>7. CASE op = "sync"
    BY <1>7, StepsOfSync
  <1>8. CASE op = "debug"
    BY <1>8, StepsOfDebug
  <1> QED
    BY Ops, <1>1, <1>2, <1>3, <1>4, <1>5, <1>6, <1>7, <1>8

LEMMA GoesOn ==
  ASSUME TypeInv, NEW t \in Thread, NEW label, At(t, label),
         label \notin {"restore", "publish"},
         NEW r \in Work, r.op = work[t].op, r.at = work[t].at, Advance(t, r),
         cwd' = cwd, env' = env
  PROVE  Becomes(t, [r EXCEPT !.at = work[t].at + 1])
  <1>1. r.op # "none" /\ r.op \in DOMAIN Steps /\ r.at # Len(Steps[r.op])
    BY AtWork, NotLast DEF At
  <1>2. Ended(r) = [r EXCEPT !.at = r.at + 1]
    BY <1>1, EndedWork
  <1> QED
    BY <1>2, AdvanceBecomes

LEMMA GoesBack ==
  ASSUME TypeInv, NEW t \in Thread, work[t].op # "none", Leave(t),
         work[t].at < RestoreAt[work[t].op], cwd' = cwd, env' = env
  PROVE  Becomes(t, [work[t] EXCEPT !.at = RestoreAt[work[t].op]])
  BY LeaveBecomes DEF Left

LEMMA SaveDoes ==
  ASSUME TypeInv, NEW t \in Thread, Save(t)
  PROVE  LET r == work[t] IN
         /\ \/ OpAt(r, "look", 1) \/ OpAt(r, "show", 1) \/ OpAt(r, "scan", 2)
            \/ OpAt(r, "create", 1) \/ OpAt(r, "build", 1) \/ OpAt(r, "deploy", 1)
            \/ OpAt(r, "sync", 2) \/ OpAt(r, "debug", 1)
         /\ Becomes(t, [r EXCEPT !.saved = cwd, !.disturbed = FALSE, !.at = r.at + 1])
  <1> DEFINE r == work[t]
             new == [r EXCEPT !.saved = cwd, !.disturbed = FALSE]
  <1>1. At(t, "save") /\ Advance(t, new) /\ cwd' = cwd /\ env' = env
    BY DEF Save
  <1>2. r.op # "none" /\ Steps[r.op][r.at] = "save" /\ r \in Work
    BY <1>1, AtWork DEF At
  <1>3. \/ OpAt(r, "look", 1) \/ OpAt(r, "show", 1) \/ OpAt(r, "scan", 2)
        \/ OpAt(r, "create", 1) \/ OpAt(r, "build", 1) \/ OpAt(r, "deploy", 1)
        \/ OpAt(r, "sync", 2) \/ OpAt(r, "debug", 1)
    BY <1>2, AtWork, Positions
  <1>4. new \in Work /\ new.op = r.op /\ new.at = r.at
    BY <1>2, PlacesDirs DEF Work
  <1>5. Becomes(t, [new EXCEPT !.at = r.at + 1])
    BY <1>1, <1>4, GoesOn
  <1> QED
    BY <1>3, <1>5

LEMMA ResolveDoes ==
  ASSUME TypeInv, NEW t \in Thread, Resolve(t)
  PROVE  LET r == work[t] IN
         \/ /\ \/ OpAt(r, "scan", 1) \/ OpAt(r, "build", 2) \/ OpAt(r, "sync", 3)
               \/ OpAt(r, "debug", 2)
            /\ Becomes(t, [r EXCEPT !.dir = Append(cwd, r.project), !.at = r.at + 1])
         \/ /\ OpAt(r, "deploy", 2) \/ OpAt(r, "sync", 1)
            /\ Becomes(t, [r EXCEPT !.path = Append(cwd, r.project), !.at = r.at + 1])
  <1> DEFINE r == work[t]
             d == Append(cwd, r.project)
  <1>1. /\ \/ At(t, "resolve") /\ Advance(t, [r EXCEPT !.dir = d])
           \/ At(t, "note") /\ Advance(t, [r EXCEPT !.path = d])
        /\ cwd' = cwd /\ env' = env
    BY DEF Resolve
  <1>2. r.op # "none" /\ r \in Work /\ d \in Dir
    BY <1>1, AtWork, PlacesDirs, Below DEF At
  <1>3. CASE At(t, "resolve") /\ Advance(t, [r EXCEPT !.dir = d])
    <2> DEFINE new == [r EXCEPT !.dir = d]
    <2>1. \/ OpAt(r, "scan", 1) \/ OpAt(r, "build", 2) \/ OpAt(r, "sync", 3)
          \/ OpAt(r, "debug", 2)
      BY <1>2, <1>3, AtWork, Positions DEF At
    <2>2. new \in Work /\ new.op = r.op /\ new.at = r.at
      BY <1>2 DEF Work
    <2>3. Becomes(t, [new EXCEPT !.at = r.at + 1])
      BY <1>1, <1>3, <2>2, GoesOn
    <2> QED
      BY <2>1, <2>3
  <1>4. CASE At(t, "note") /\ Advance(t, [r EXCEPT !.path = d])
    <2> DEFINE new == [r EXCEPT !.path = d]
    <2>1. OpAt(r, "deploy", 2) \/ OpAt(r, "sync", 1)
      BY <1>2, <1>4, AtWork, Positions DEF At
    <2>2. new \in Work /\ new.op = r.op /\ new.at = r.at
      BY <1>2 DEF Work
    <2>3. Becomes(t, [new EXCEPT !.at = r.at + 1])
      BY <1>1, <1>4, <2>2, GoesOn
    <2> QED
      BY <2>1, <2>3
  <1> QED
    BY <1>1, <1>3, <1>4


\* What making a directory, moving a module and moving an egg do to the disk.
Made(d) == disk' = [e \in DOMAIN disk \cup {d} |->
                       IF e = d THEN Fresh("empty") ELSE disk[e]]

Placed(from, to) ==
    /\ HasFiles(from, {"copied"})
    /\ disk' = [disk EXCEPT ![from].files = "gutted", ![to].files = "placed"]

Moved(r) ==
    /\ disk' = [disk EXCEPT ![r.dir].eggs = @ \cup {Last(r.used)}]
    /\ spoilt' = IF r.disturbed THEN spoilt \cup {r.project} ELSE spoilt

LEMMA SettingsIn ==
  ASSUME TypeInv
  PROVE  Settings \in Places /\ Settings \in Dir
  BY PlacesDirs, NearestSettings DEF Settings, TypeInv

LEMMA QueryDoes ==
  ASSUME TypeInv, NEW t \in Thread, Query(t)
  PROVE  LET r == work[t] IN
         /\ \/ OpAt(r, "create", 2) \/ OpAt(r, "create", 8)
            \/ OpAt(r, "deploy", 4) \/ OpAt(r, "debug", 4)
         /\ \/ Becomes(t, [r EXCEPT !.at = r.at + 1])
            \/ Becomes(t, [r EXCEPT !.at = RestoreAt[r.op]])
  <1> DEFINE r == work[t]
             new == r
  <1>1. /\ At(t, "query") /\ cwd' = cwd /\ env' = env
        /\ \/ Advance(t, new)
           \/ Leave(t)
    BY DEF Query
  <1>2. /\ r.op # "none" /\ r \in Work
        /\ \/ OpAt(r, "create", 2) \/ OpAt(r, "create", 8)
           \/ OpAt(r, "deploy", 4) \/ OpAt(r, "debug", 4)
    BY <1>1, AtWork, Positions DEF At
  <1>3. new \in Work /\ new.op = r.op /\ new.at = r.at
    BY <1>2
  <1>4. Advance(t, new) => Becomes(t, [new EXCEPT !.at = r.at + 1])
    BY <1>1, <1>3, GoesOn
  <1>5. r.at < RestoreAt[r.op]
    BY <1>2, Lengths DEF OpAt
  <1>6. Leave(t) => Becomes(t, [r EXCEPT !.at = RestoreAt[r.op]])
    BY <1>1, <1>2, <1>5, GoesBack
  <1> QED
    BY <1>1, <1>2, <1>4, <1>6

LEMMA ReadDebugDoes ==
  ASSUME TypeInv, NEW t \in Thread, ReadDebug(t)
  PROVE  LET r == work[t] IN
         /\ OpAt(r, "show", 3)
         /\ Becomes(t, [r EXCEPT !.used = cwd, !.at = r.at + 1])
  <1> DEFINE r == work[t]
             new == [r EXCEPT !.used = cwd]
  <1>1. /\ At(t, "read") /\ Advance(t, new) /\ cwd' = cwd /\ env' = env
    BY DEF ReadDebug
  <1>2. /\ r.op # "none" /\ r \in Work
        /\ OpAt(r, "show", 3)
    BY <1>1, AtWork, Positions DEF At
  <1>3. new \in Work /\ new.op = r.op /\ new.at = r.at
    BY <1>2, PlacesDirs DEF Work
  <1>4. Advance(t, new) => Becomes(t, [new EXCEPT !.at = r.at + 1])
    BY <1>1, <1>3, GoesOn
  <1> QED
    BY <1>1, <1>2, <1>4

LEMMA RunDoes ==
  ASSUME TypeInv, NEW t \in Thread, Run(t)
  PROVE  LET r == work[t] IN
         /\ OpAt(r, "debug", 5)
         /\ Becomes(t, [r EXCEPT !.used = Settings, !.at = r.at + 1])
  <1> DEFINE r == work[t]
             new == [r EXCEPT !.used = Settings]
  <1>1. /\ At(t, "run") /\ Advance(t, new) /\ cwd' = cwd /\ env' = env
    BY DEF Run
  <1>2. /\ r.op # "none" /\ r \in Work
        /\ OpAt(r, "debug", 5)
    BY <1>1, AtWork, Positions DEF At
  <1>3. new \in Work /\ new.op = r.op /\ new.at = r.at
    BY <1>2, SettingsIn DEF Work
  <1>4. Advance(t, new) => Becomes(t, [new EXCEPT !.at = r.at + 1])
    BY <1>1, <1>3, GoesOn
  <1> QED
    BY <1>1, <1>2, <1>4

LEMMA DescribeDoes ==
  ASSUME TypeInv, NEW t \in Thread, Describe(t)
  PROVE  LET r == work[t] IN
         /\ OpAt(r, "create", 4)
         /\ \/ halved' = halved /\ Becomes(t, [r EXCEPT !.at = r.at + 1])
            \/ halved' = halved \cup {r.used} /\ Becomes(t, [r EXCEPT !.at = RestoreAt[r.op]])
  <1> DEFINE r == work[t]
             new == r
  <1>1. /\ At(t, "describe") /\ cwd' = cwd /\ env' = env
        /\ \/ halved' = halved /\ Advance(t, new)
           \/ halved' = halved \cup {r.used} /\ Leave(t)
    BY DEF Describe
  <1>2. /\ r.op # "none" /\ r \in Work
        /\ OpAt(r, "create", 4)
    BY <1>1, AtWork, Positions DEF At
  <1>3. new \in Work /\ new.op = r.op /\ new.at = r.at
    BY <1>2
  <1>4. Advance(t, new) => Becomes(t, [new EXCEPT !.at = r.at + 1])
    BY <1>1, <1>3, GoesOn
  <1>5. r.at < RestoreAt[r.op]
    BY <1>2, Lengths DEF OpAt
  <1>6. Leave(t) => Becomes(t, [r EXCEPT !.at = RestoreAt[r.op]])
    BY <1>1, <1>2, <1>5, GoesBack
  <1> QED
    BY <1>1, <1>2, <1>4, <1>6

LEMMA CopyDoes ==
  ASSUME TypeInv, NEW t \in Thread, Copy(t)
  PROVE  LET r == work[t]
             d == Append(cwd, r.project)
         IN /\ OpAt(r, "create", 5)
            /\ \/ /\ disk' = Copied(d, "copied") /\ halved' = halved
                  /\ Becomes(t, [r EXCEPT !.dir = d, !.at = r.at + 1])
               \/ /\ disk' = disk \/ \E files \in Files : disk' = Copied(d, files)
                  /\ halved' = halved \cup {r.used, d}
                  /\ Becomes(t, [r EXCEPT !.at = RestoreAt[r.op]])
  <1> DEFINE r == work[t]
             d == Append(cwd, r.project)
             new == [r EXCEPT !.dir = d]
  <1>1. /\ At(t, "copy") /\ cwd' = cwd /\ env' = env
        /\ \/ disk' = Copied(d, "copied") /\ halved' = halved /\ Advance(t, new)
           \/ /\ disk' = disk \/ \E files \in PartOf(d) : disk' = Copied(d, files)
              /\ halved' = halved \cup {r.used, d} /\ Leave(t)
    BY DEF Copy
  <1>2. /\ r.op # "none" /\ r \in Work
        /\ OpAt(r, "create", 5)
    BY <1>1, AtWork, Positions DEF At
  <1>3. new \in Work /\ new.op = r.op /\ new.at = r.at
    BY <1>2, AtWork, PlacesDirs, Below DEF Work
  <1>4. Advance(t, new) => Becomes(t, [new EXCEPT !.at = r.at + 1])
    BY <1>1, <1>3, GoesOn
  <1>5. r.at < RestoreAt[r.op]
    BY <1>2, Lengths DEF OpAt
  <1>6. Leave(t) => Becomes(t, [r EXCEPT !.at = RestoreAt[r.op]])
    BY <1>1, <1>2, <1>5, GoesBack
  <1>7. PartOf(d) \subseteq Files
    BY DEF PartOf, Files
  <1> QED
    BY <1>1, <1>2, <1>4, <1>6, <1>7

LEMMA MakeDirDoes ==
  ASSUME TypeInv, NEW t \in Thread, MakeDir(t)
  PROVE  LET r == work[t] IN
         /\ OpAt(r, "create", 3)
         /\ \/ /\ Append(cwd, r.project) \notin DOMAIN disk /\ Made(Append(cwd, r.project))
               /\ Becomes(t, [r EXCEPT !.used = Append(cwd, r.project), !.at = r.at + 1])
            \/ disk' = disk /\ Becomes(t, [r EXCEPT !.at = RestoreAt[r.op]])
  <1> DEFINE r == work[t]
             new == [r EXCEPT !.used = Append(cwd, r.project)]
  <1>1. /\ At(t, "mkdir") /\ cwd' = cwd /\ env' = env
        /\ \/ /\ Append(cwd, r.project) \notin DOMAIN disk /\ Made(Append(cwd, r.project))
              /\ Advance(t, new)
           \/ disk' = disk /\ Leave(t)
    BY DEF MakeDir, Made
  <1>2. /\ r.op # "none" /\ r \in Work
        /\ OpAt(r, "create", 3)
    BY <1>1, AtWork, Positions DEF At
  <1>3. new \in Work /\ new.op = r.op /\ new.at = r.at
    BY <1>2, AtWork, PlacesDirs, Below DEF Work
  <1>4. Advance(t, new) => Becomes(t, [new EXCEPT !.at = r.at + 1])
    BY <1>1, <1>3, GoesOn
  <1>5. r.at < RestoreAt[r.op]
    BY <1>2, Lengths DEF OpAt
  <1>6. Leave(t) => Becomes(t, [r EXCEPT !.at = RestoreAt[r.op]])
    BY <1>1, <1>2, <1>5, GoesBack
  <1> QED
    BY <1>1, <1>2, <1>4, <1>6

LEMMA PlaceDoes ==
  ASSUME TypeInv, NEW t \in Thread, Place(t)
  PROVE  LET r == work[t] IN
         /\ OpAt(r, "create", 6)
         /\ \/ /\ Placed(Append(cwd, r.project), r.dir) /\ halved' = halved
               /\ Becomes(t, [r EXCEPT !.at = r.at + 1])
            \/ /\ disk' = disk /\ halved' = halved \cup {r.used, r.dir}
               /\ Becomes(t, [r EXCEPT !.at = RestoreAt[r.op]])
  <1> DEFINE r == work[t]
             new == r
  <1>1. /\ At(t, "place") /\ cwd' = cwd /\ env' = env
        /\ \/ Placed(Append(cwd, r.project), r.dir) /\ halved' = halved /\ Advance(t, new)
           \/ disk' = disk /\ halved' = halved \cup {r.used, r.dir} /\ Leave(t)
    BY DEF Place, Placed, HasFiles, BreakOff
  <1>2. /\ r.op # "none" /\ r \in Work
        /\ OpAt(r, "create", 6)
    BY <1>1, AtWork, Positions DEF At
  <1>3. new \in Work /\ new.op = r.op /\ new.at = r.at
    BY <1>2
  <1>4. Advance(t, new) => Becomes(t, [new EXCEPT !.at = r.at + 1])
    BY <1>1, <1>3, GoesOn
  <1>5. r.at < RestoreAt[r.op]
    BY <1>2, Lengths DEF OpAt
  <1>6. Leave(t) => Becomes(t, [r EXCEPT !.at = RestoreAt[r.op]])
    BY <1>1, <1>2, <1>5, GoesBack
  <1> QED
    BY <1>1, <1>2, <1>4, <1>6

LEMMA WriteSetupDoes ==
  ASSUME TypeInv, NEW t \in Thread, WriteSetup(t)
  PROVE  LET r == work[t] IN
         /\ OpAt(r, "build", 4) \/ OpAt(r, "sync", 5)
         /\ \/ disk' = [disk EXCEPT ![r.dir].setup = TRUE] /\ Becomes(t, [r EXCEPT !.at = r.at + 1])
            \/ disk' = disk /\ Becomes(t, [r EXCEPT !.at = RestoreAt[r.op]])
  <1> DEFINE r == work[t]
             new == r
  <1>1. /\ At(t, "setup") /\ cwd' = cwd /\ env' = env
        /\ \/ disk' = [disk EXCEPT ![r.dir].setup = TRUE] /\ Advance(t, new)
           \/ disk' = disk /\ Leave(t)
    BY DEF WriteSetup
  <1>2. /\ r.op # "none" /\ r \in Work
        /\ OpAt(r, "build", 4) \/ OpAt(r, "sync", 5)
    BY <1>1, AtWork, Positions DEF At
  <1>3. new \in Work /\ new.op = r.op /\ new.at = r.at
    BY <1>2
  <1>4. Advance(t, new) => Becomes(t, [new EXCEPT !.at = r.at + 1])
    BY <1>1, <1>3, GoesOn
  <1>5. r.at < RestoreAt[r.op]
    BY <1>2, Lengths DEF OpAt
  <1>6. Leave(t) => Becomes(t, [r EXCEPT !.at = RestoreAt[r.op]])
    BY <1>1, <1>2, <1>5, GoesBack
  <1> QED
    BY <1>1, <1>2, <1>4, <1>6

LEMMA PackDoes ==
  ASSUME TypeInv, NEW t \in Thread, Pack(t)
  PROVE  LET r == work[t] IN
         /\ OpAt(r, "build", 5) \/ OpAt(r, "sync", 6)
         /\ \/ cwd \in DOMAIN disk /\ Becomes(t, [r EXCEPT !.used = cwd, !.at = r.at + 1])
            \/ Becomes(t, [r EXCEPT !.at = RestoreAt[r.op]])
  <1> DEFINE r == work[t]
             new == [r EXCEPT !.used = cwd]
  <1>1. /\ At(t, "pack") /\ cwd' = cwd /\ env' = env
        /\ \/ cwd \in DOMAIN disk /\ Advance(t, new)
           \/ Leave(t)
    BY DEF Pack
  <1>2. /\ r.op # "none" /\ r \in Work
        /\ OpAt(r, "build", 5) \/ OpAt(r, "sync", 6)
    BY <1>1, AtWork, Positions DEF At
  <1>3. new \in Work /\ new.op = r.op /\ new.at = r.at
    BY <1>2, PlacesDirs DEF Work
  <1>4. Advance(t, new) => Becomes(t, [new EXCEPT !.at = r.at + 1])
    BY <1>1, <1>3, GoesOn
  <1>5. r.at < RestoreAt[r.op]
    BY <1>2, Lengths DEF OpAt
  <1>6. Leave(t) => Becomes(t, [r EXCEPT !.at = RestoreAt[r.op]])
    BY <1>1, <1>2, <1>5, GoesBack
  <1> QED
    BY <1>1, <1>2, <1>4, <1>6

LEMMA ClearEggDoes ==
  ASSUME TypeInv, NEW t \in Thread, ClearEgg(t)
  PROVE  LET r == work[t] IN
         /\ OpAt(r, "build", 6) \/ OpAt(r, "sync", 7)
         /\ Becomes(t, [r EXCEPT !.at = r.at + 1])
  <1> DEFINE r == work[t]
             new == r
  <1>1. /\ At(t, "clear") /\ Advance(t, new) /\ cwd' = cwd /\ env' = env
    BY DEF ClearEgg
  <1>2. /\ r.op # "none" /\ r \in Work
        /\ OpAt(r, "build", 6) \/ OpAt(r, "sync", 7)
    BY <1>1, AtWork, Positions DEF At
  <1>3. new \in Work /\ new.op = r.op /\ new.at = r.at
    BY <1>2
  <1>4. Advance(t, new) => Becomes(t, [new EXCEPT !.at = r.at + 1])
    BY <1>1, <1>3, GoesOn
  <1> QED
    BY <1>1, <1>2, <1>4

LEMMA MoveEggDoes ==
  ASSUME TypeInv, NEW t \in Thread, MoveEgg(t)
  PROVE  LET r == work[t] IN
         /\ OpAt(r, "build", 7) \/ OpAt(r, "sync", 8)
         /\ \/ Moved(r) /\ Becomes(t, [r EXCEPT !.at = r.at + 1])
            \/ disk' = disk /\ spoilt' = spoilt /\ Becomes(t, [r EXCEPT !.at = RestoreAt[r.op]])
  <1> DEFINE r == work[t]
             new == r
  <1>1. /\ At(t, "moveIn") /\ cwd' = cwd /\ env' = env
        /\ \/ Moved(r) /\ Advance(t, new)
           \/ disk' = disk /\ spoilt' = spoilt /\ Leave(t)
    BY DEF MoveEgg, Moved
  <1>2. /\ r.op # "none" /\ r \in Work
        /\ OpAt(r, "build", 7) \/ OpAt(r, "sync", 8)
    BY <1>1, AtWork, Positions DEF At
  <1>3. new \in Work /\ new.op = r.op /\ new.at = r.at
    BY <1>2
  <1>4. Advance(t, new) => Becomes(t, [new EXCEPT !.at = r.at + 1])
    BY <1>1, <1>3, GoesOn
  <1>5. r.at < RestoreAt[r.op]
    BY <1>2, Lengths DEF OpAt
  <1>6. Leave(t) => Becomes(t, [r EXCEPT !.at = RestoreAt[r.op]])
    BY <1>1, <1>2, <1>5, GoesBack
  <1> QED
    BY <1>1, <1>2, <1>4, <1>6

LEMMA BeginDoes ==
  ASSUME TypeInv, NEW t \in Thread, NEW op \in DOMAIN Steps, NEW p \in Project,
         Begin(t, op, p)
  PROVE  /\ work[t].op = "none"
         /\ Becomes(t, [Idle EXCEPT !.op = op, !.project = p, !.at = 1])
  <1> DEFINE new == [Idle EXCEPT !.op = op, !.project = p, !.at = 1]
  <1>1. /\ work[t].op = "none" /\ work' = [work EXCEPT ![t] = new]
        /\ cwd' = cwd /\ env' = env
    BY DEF Begin
  <1>2. new \in Work
    BY IdleWork DEF Work
  <1> QED
    BY <1>1, <1>2 DEF Becomes, Noticed, TypeInv

LEMMA EnterDoes ==
  ASSUME TypeInv, NEW t \in Thread, NEW label, NEW d,
         \/ label = "enter" /\ d = work[t].dir
         \/ label = "enterHere" /\ d = Append(cwd, work[t].project),
         Enter(t, label, d)
  PROVE  LET r == work[t] IN
         /\ \/ /\ label = "enter"
               /\ OpAt(r, "scan", 3) \/ OpAt(r, "build", 3) \/ OpAt(r, "sync", 4)
                     \/ OpAt(r, "debug", 3)
            \/ label = "enterHere" /\ OpAt(r, "show", 2)
         /\ \/ /\ d \in DOMAIN disk /\ cwd' = d
               /\ Becomes(t, [r EXCEPT !.dir = d, !.disturbed = env # Root,
                                       !.at = r.at + 1])
            \/ cwd' = cwd /\ Becomes(t, [r EXCEPT !.at = RestoreAt[r.op]])
  <1> DEFINE r == work[t]
             new == [r EXCEPT !.dir = d, !.disturbed = env # Root]
  <1>1. /\ At(t, label) /\ env' = env
        /\ \/ d \in DOMAIN disk /\ MoveTo(t, d, Ended(new))
           \/ Leave(t) /\ cwd' = cwd
    BY DEF Enter
  <1>2. /\ r.op # "none" /\ r \in Work /\ r.op \in DOMAIN Steps
        /\ r.at \in 1 .. Len(Steps[r.op]) /\ d \in Dir
        /\ Steps[r.op][r.at] = label
    BY <1>1, AtWork, PlacesDirs, Below DEF At, Work
  <1>3. \/ /\ label = "enter"
           /\ OpAt(r, "scan", 3) \/ OpAt(r, "build", 3) \/ OpAt(r, "sync", 4)
                 \/ OpAt(r, "debug", 3)
        \/ label = "enterHere" /\ OpAt(r, "show", 2)
    BY <1>2, Positions
  <1>4. ASSUME d \in DOMAIN disk, MoveTo(t, d, Ended(new))
        PROVE  cwd' = d /\ Becomes(t, [new EXCEPT !.at = r.at + 1])
    <2>1. new \in Work /\ new.op = r.op /\ new.at = r.at
      BY <1>2 DEF Work
    <2>2. r.at # Len(Steps[r.op])
      BY <1>2, NotLast
    <2>3. Ended(new) \in Work /\ Ended(new) = [new EXCEPT !.at = r.at + 1]
      BY <1>2, <2>1, <2>2, EndedWork
    <2>4. Becomes(t, Ended(new)) /\ cwd' = d
      BY <1>1, <1>2, <1>4, <2>3, MoveBecomes
    <2> QED
      BY <2>3, <2>4
  <1>5. ASSUME Leave(t), cwd' = cwd
        PROVE  Becomes(t, [r EXCEPT !.at = RestoreAt[r.op]])
    <2>1. r.at < RestoreAt[r.op]
      BY <1>3, Lengths DEF OpAt
    <2> QED
      BY <1>1, <1>2, <1>5, <2>1, GoesBack
  <1> QED
    BY <1>1, <1>3, <1>4, <1>5

LEMMA LoadDoes ==
  ASSUME TypeInv, NEW t \in Thread, Load(t)
  PROVE  /\ OpAt(work[t], "scan", 4)
         /\ Becomes(t, [work[t] EXCEPT !.used = Settings, !.at = 5])
  <1> DEFINE r == work[t]
             new == [r EXCEPT !.used = Settings]
  <1>1. /\ At(t, "load") /\ cwd' = cwd /\ env' = Settings
        /\ work' = [u \in Thread |->
                      IF u = t THEN Ended(new)
                      ELSE [work[u] EXCEPT !.disturbed =
                               @ \/ (work[u].op # "none" /\ env' # env)]]
    BY DEF Load
  <1>2. r.op # "none" /\ r \in Work /\ OpAt(r, "scan", 4)
    BY <1>1, AtWork, Positions DEF At
  <1>3. new \in Work /\ new.op = r.op /\ new.at = 4
    BY <1>2, SettingsIn DEF Work, OpAt
  <1>4. Ended(new) \in Work /\ Ended(new) = [new EXCEPT !.at = 5]
    <2>1. r.op = "scan" /\ r.at = 4 /\ Len(Steps["scan"]) = 5
      BY <1>2, Lengths DEF OpAt
    <2> HIDE DEF new
    <2>2. new.at # Len(Steps[new.op]) /\ new.at + 1 = 5
      BY <1>3, <2>1
    <2>3. Ended(new) = [new EXCEPT !.at = new.at + 1]
      BY <2>2 DEF Ended
    <2> QED
      BY <1>3, <2>2, <2>3, EndedWork
  <1>5. Ended(new) = [r EXCEPT !.used = Settings, !.at = 5]
    BY <1>2, <1>4 DEF Work
  <1>6. ASSUME NEW u \in Thread, u # t
        PROVE  work'[u] \in Work /\ Noticed(u)
    <2>1. work[u] \in Work /\ work[u].disturbed \in BOOLEAN
      BY DEF TypeInv, Work
    <2>2. CASE work[u].op # "none" /\ env' # env
      <3>1. work'[u] = [work[u] EXCEPT !.disturbed = TRUE]
        BY <1>1, <1>6, <2>1, <2>2
      <3> QED
        BY <2>1, <3>1 DEF Noticed, Work
    <2>3. CASE ~ (work[u].op # "none" /\ env' # env)
      <3>1. work'[u] = [work[u] EXCEPT !.disturbed = work[u].disturbed]
        BY <1>1, <1>6, <2>1, <2>3
      <3>2. work'[u] = work[u]
        BY <2>1, <3>1 DEF Work
      <3> QED
        BY <1>1, <2>1, <2>3, <3>2 DEF Noticed
    <2> QED
      BY <2>2, <2>3
  <1> QED
    BY <1>1, <1>2, <1>4, <1>5, <1>6 DEF Becomes

LEMMA RestoreDoes ==
  ASSUME TypeInv, NEW t \in Thread, Restore(t)
  PROVE  LET r == work[t] IN
         /\ \/ OpAt(r, "look", 2) \/ OpAt(r, "show", 4) \/ OpAt(r, "scan", 5)
            \/ OpAt(r, "create", 9) \/ OpAt(r, "build", 8) \/ OpAt(r, "deploy", 6)
            \/ OpAt(r, "sync", 9) \/ OpAt(r, "debug", 6)
         /\ Becomes(t, IF r.op = "sync" THEN [r EXCEPT !.at = 10] ELSE Idle)
         /\ IF r.op = "scan" /\ env = Root THEN cwd' = cwd ELSE cwd' = r.saved
         /\ env' \in {env, Root}
         /\ work[t].op = "scan" => env' = Root
  <1> DEFINE r == work[t]
  <1>1. /\ At(t, "restore")
        /\ IF r.op = "scan" /\ env = Root
           THEN Advance(t, r) /\ cwd' = cwd
           ELSE MoveTo(t, r.saved, Ended(r))
        /\ env' = IF r.op = "scan" THEN Root ELSE env
    BY DEF Restore
  <1>2. /\ r.op # "none" /\ r \in Work /\ r.saved \in Dir
        /\ \/ OpAt(r, "look", 2) \/ OpAt(r, "show", 4) \/ OpAt(r, "scan", 5)
           \/ OpAt(r, "create", 9) \/ OpAt(r, "build", 8) \/ OpAt(r, "deploy", 6)
           \/ OpAt(r, "sync", 9) \/ OpAt(r, "debug", 6)
    BY <1>1, AtWork, Positions DEF At, Work
  <1>3. Ended(r) = (IF r.op = "sync" THEN [r EXCEPT !.at = 10] ELSE Idle)
    <2>1. CASE OpAt(r, "sync", 9)
      BY <1>2, <2>1, Lengths DEF OpAt, Ended
    <2>2. CASE ~ OpAt(r, "sync", 9)
      <3>1. r.op # "sync" /\ r.at = Len(Steps[r.op])
        BY <1>2, <2>2, Lengths DEF OpAt
      <3> QED
        BY <3>1 DEF Ended
    <2> QED
      BY <2>1, <2>2
  <1>4. Ended(r) \in Work
    BY <1>2, EndedWork
  <1>5. CASE r.op = "scan" /\ env = Root
    <2>1. Becomes(t, Ended(r))
      BY <1>1, <1>2, <1>5, AdvanceBecomes
    <2> QED
      BY <1>1, <1>2, <1>3, <1>5, <2>1
  <1>6. CASE ~ (r.op = "scan" /\ env = Root)
    <2>1. Becomes(t, Ended(r)) /\ cwd' = r.saved
      BY <1>1, <1>2, <1>4, <1>6, MoveBecomes
    <2> QED
      BY <1>1, <1>2, <1>3, <1>6, <2>1
  <1> QED
    BY <1>5, <1>6

LEMMA RenderDoes ==
  ASSUME TypeInv, NEW t \in Thread, Render(t)
  PROVE  LET r == work[t]
             d == Append(cwd, r.project)
         IN /\ OpAt(r, "create", 7)
            /\ env' = env
            /\ \/ /\ HasFiles(d, {"placed", "whole"})
                  /\ disk' = [disk EXCEPT ![d].files = "whole"]
                  /\ cwd' = Front(r.dir) /\ halved' = halved
                  /\ Becomes(t, [r EXCEPT !.at = 8])
               \/ /\ disk' = disk /\ cwd' = cwd /\ halved' = halved \cup {r.used, r.dir}
                  /\ Becomes(t, [r EXCEPT !.at = 9])
  <1> DEFINE r == work[t]
             d == Append(cwd, r.project)
  <1>1. /\ At(t, "render") /\ env' = env
        /\ \/ /\ HasFiles(d, {"placed", "whole"})
              /\ disk' = [disk EXCEPT ![d].files = "whole"]
              /\ MoveTo(t, Front(r.dir), Ended(r)) /\ halved' = halved
           \/ /\ Leave(t) /\ halved' = halved \cup {r.used, r.dir}
              /\ disk' = disk /\ cwd' = cwd
    BY DEF Render, HasFiles, BreakOff
  <1>2. r.op # "none" /\ r \in Work /\ OpAt(r, "create", 7)
    BY <1>1, AtWork, Positions DEF At
  <1>3. Front(r.dir) \in Dir
    BY <1>2, PlacesDirs DEF TypeInv, WorkTypes, Filling, Within, OpAt
  <1>4. Ended(r) \in Work /\ Ended(r) = [r EXCEPT !.at = 8]
    <2>1. r.op = "create" /\ r.at = 7 /\ Len(Steps["create"]) = 9
      BY <1>2, Lengths DEF OpAt
    <2> HIDE DEF r
    <2>2. r.at # Len(Steps[r.op]) /\ r.at + 1 = 8
      BY <2>1
    <2>3. Ended(r) = [r EXCEPT !.at = r.at + 1]
      BY <2>2 DEF Ended
    <2> QED
      BY <1>2, <2>2, <2>3, EndedWork
  <1>5. MoveTo(t, Front(r.dir), Ended(r)) =>
           cwd' = Front(r.dir) /\ Becomes(t, [r EXCEPT !.at = 8])
    BY <1>1, <1>3, <1>4, MoveBecomes
  <1>6. Leave(t) /\ cwd' = cwd => Becomes(t, [r EXCEPT !.at = 9])
    <2>1. r.at < RestoreAt[r.op] /\ RestoreAt[r.op] = 9
      BY <1>2, Lengths DEF OpAt
    <2> QED
      BY <1>1, <1>2, <2>1, GoesBack
  <1> QED
    BY <1>1, <1>2, <1>5, <1>6

LEMMA OpenEggDoes ==
  ASSUME TypeInv, NEW t \in Thread, OpenEgg(t)
  PROVE  LET r == work[t] IN
         /\ OpAt(r, "deploy", 3) \/ OpAt(r, "sync", 10)
         /\ \/ /\ r.path \in DOMAIN disk
               /\ \E e \in disk[r.path].eggs :
                     Becomes(t, [r EXCEPT !.used = <<e>>, !.at = r.at + 1])
            \/ OpAt(r, "deploy", 3) /\ Becomes(t, [r EXCEPT !.at = 6])
            \/ OpAt(r, "sync", 10) /\ Becomes(t, Idle)
  <1> DEFINE r == work[t]
  <1>1. /\ At(t, "openEgg") /\ cwd' = cwd /\ env' = env
        /\ \/ /\ r.path \in DOMAIN disk
              /\ \E e \in disk[r.path].eggs : Advance(t, [r EXCEPT !.used = <<e>>])
           \/ Leave(t)
    BY DEF OpenEgg
  <1>2. /\ r.op # "none" /\ r \in Work
        /\ OpAt(r, "deploy", 3) \/ OpAt(r, "sync", 10)
    BY <1>1, AtWork, Positions DEF At
  <1>3. ASSUME r.path \in DOMAIN disk, NEW e \in disk[r.path].eggs,
               Advance(t, [r EXCEPT !.used = <<e>>])
        PROVE  Becomes(t, [r EXCEPT !.used = <<e>>, !.at = r.at + 1])
    <2> DEFINE new == [r EXCEPT !.used = <<e>>]
    <2>1. <<e>> \in Dir
      BY <1>3, Single DEF TypeInv, DiskDir
    <2>2. new \in Work /\ new.op = r.op /\ new.at = r.at
      BY <1>2, <2>1 DEF Work
    <2>3. Becomes(t, [new EXCEPT !.at = r.at + 1])
      BY <1>1, <1>3, <2>2, GoesOn
    <2> QED
      BY <2>3
  <1>4. Leave(t) => \/ OpAt(r, "deploy", 3) /\ Becomes(t, [r EXCEPT !.at = 6])
                    \/ OpAt(r, "sync", 10) /\ Becomes(t, Idle)
    <2>1. Leave(t) => Becomes(t, Left(r))
      BY <1>1, <1>2, LeaveBecomes
    <2>2. OpAt(r, "deploy", 3) => Left(r) = [r EXCEPT !.at = 6]
      BY Lengths DEF Left, OpAt
    <2>3. OpAt(r, "sync", 10) => Left(r) = Idle
      BY Lengths DEF Left, OpAt
    <2> QED
      BY <1>2, <2>1, <2>2, <2>3
  <1> QED
    BY <1>1, <1>2, <1>3, <1>4

LEMMA PublishDoes ==
  ASSUME TypeInv, NEW t \in Thread, Publish(t)
  PROVE  LET r == work[t] IN
         \/ OpAt(r, "deploy", 5) /\ Becomes(t, [r EXCEPT !.at = 6])
         \/ OpAt(r, "sync", 11) /\ Becomes(t, Idle)
  <1> DEFINE r == work[t]
  <1>1. At(t, "publish") /\ Advance(t, r) /\ cwd' = cwd /\ env' = env
    BY DEF Publish
  <1>2. /\ r.op # "none" /\ r \in Work
        /\ OpAt(r, "deploy", 5) \/ OpAt(r, "sync", 11)
    BY <1>1, AtWork, Positions DEF At
  <1>3. Becomes(t, Ended(r))
    BY <1>1, <1>2, AdvanceBecomes
  <1>4. OpAt(r, "deploy", 5) => Ended(r) = [r EXCEPT !.at = 6]
    BY Lengths DEF Ended, OpAt
  <1>5. OpAt(r, "sync", 11) => Ended(r) = Idle
    BY Lengths DEF Ended, OpAt
  <1> QED
    BY <1>2, <1>3, <1>4, <1>5

-----------------------------------------------------------------------------
(* Types are kept.                                                         *)

\* A step that leaves the disk alone keeps the types if t is left in order.
LEMMA DiskLeft ==
  ASSUME TypeInv, NEW t \in Thread, NEW r, Becomes(t, r), disk' = disk,
         WorkTypes(work[t])', (work[t].op \in Requests => t \in Handler)',
         cwd' \in Places, env' \in Places,
         shipped' \subseteq Project \X Project,
         begun' \in 0 .. MaxWork, strayed' \in BOOLEAN
  PROVE  TypeInv'
  <1>1. Grows /\ Places' = Places
    BY DEF Grows, Places
  <1> QED
    BY <1>1, TypesKept DEF TypeInv

LEMMA NextAt ==
  ASSUME TypeInv, NEW t \in Thread, NEW label, At(t, label),
         label \notin {"restore", "publish"}
  PROVE  work[t].at + 1 \in 1 .. Len(Steps[work[t].op])
  <1>1. /\ work[t].op # "none" /\ work[t].op \in DOMAIN Steps
        /\ work[t].at \in 1 .. Len(Steps[work[t].op])
        /\ work[t].at # Len(Steps[work[t].op])
    BY AtWork, NotLast DEF At
  <1>2. Len(Steps[work[t].op]) \in Nat
    BY <1>1, Ops, Lengths
  <1> QED
    BY <1>1, <1>2

\* A thread whose next step is to restore, and one that is done.
LEMMA BackTypes ==
  ASSUME TypeInv, NEW t \in Thread, work[t].op # "none",
         Becomes(t, [work[t] EXCEPT !.at = RestoreAt[work[t].op]]),
         disk' = disk, cwd' \in Places, env' \in Places, shipped' \subseteq Project \X Project,
         begun' \in 0 .. MaxWork, strayed' \in BOOLEAN
  PROVE  TypeInv'
  <1> DEFINE new == [work[t] EXCEPT !.at = RestoreAt[work[t].op]]
  <1>1. /\ work[t] \in Work /\ work[t].op \in DOMAIN Steps
        /\ work[t].project \in Project /\ work[t].saved \in Places
    BY AtWork
  <1>2. /\ new.op = work[t].op /\ new.at = RestoreAt[new.op]
        /\ new.project = work[t].project /\ new.saved = work[t].saved
    BY <1>1 DEF Work
  <1>3. work'[t] = new
    BY DEF Becomes
  <1> HIDE DEF new
  <1>4. new.at \in 1 .. Len(Steps[new.op])
    BY <1>1, <1>2, Restores
  <1>5. ~ Inside(new) /\ ~ Filling(new) /\ ~ Writing(new) /\ ~ Packed(new) /\ ~ Opened(new)
    BY <1>2, Lengths DEF Inside, Filling, Writing, Packed, Opened, Within
  <1>6. WorkTypes(work[t])'
    BY <1>1, <1>2, <1>3, <1>4, <1>5 DEF WorkTypes, Places
  <1>7. (work[t].op \in Requests => t \in Handler)'
    BY <1>2, <1>3 DEF TypeInv
  <1> QED
    BY <1>6, <1>7, DiskLeft

LEMMA IdleTypes ==
  ASSUME TypeInv, NEW t \in Thread, Becomes(t, Idle),
         disk' = disk, cwd' \in Places, env' \in Places, shipped' \subseteq Project \X Project,
         begun' \in 0 .. MaxWork, strayed' \in BOOLEAN
  PROVE  TypeInv'
  <1>1. work'[t] = Idle
    BY DEF Becomes
  <1>2. WorkTypes(work[t])' /\ (work[t].op \in Requests => t \in Handler)'
    BY <1>1, IdleWork, Ops DEF WorkTypes, Places
  <1> QED
    BY <1>2, DiskLeft

LEMMA SaveTypes ==
  ASSUME TypeInv, NEW t \in Thread, Save(t)
  PROVE  TypeInv'
  <1> DEFINE r == work[t]
             new == [r EXCEPT !.saved = cwd, !.disturbed = FALSE, !.at = r.at + 1]
  <1>1. /\ \/ OpAt(r, "look", 1) \/ OpAt(r, "show", 1) \/ OpAt(r, "scan", 2)
           \/ OpAt(r, "create", 1) \/ OpAt(r, "build", 1) \/ OpAt(r, "deploy", 1)
           \/ OpAt(r, "sync", 2) \/ OpAt(r, "debug", 1)
        /\ Becomes(t, new)
    BY SaveDoes
  <1>2. /\ At(t, "save") /\ disk' = disk /\ cwd' = cwd /\ env' = env
        /\ shipped' = shipped /\ begun' = begun /\ strayed' \in BOOLEAN
    BY DEF Save, TypeInv
  <1>3. /\ r.op # "none" /\ r \in Work /\ r.project \in Project
        /\ cwd \in Places /\ env \in Places /\ r.saved \in Places
    BY <1>1, AtWork, Ops DEF OpAt, TypeInv
  <1>4. CASE Becomes(t, new)
    <2>1. /\ new.at = r.at + 1
          /\ new.op = r.op /\ new.project = r.project /\ new.dir = r.dir /\ new.used = r.used
          /\ new.saved = cwd
      BY <1>3 DEF Work
    <2>2. work'[t] = new
      BY <1>4 DEF Becomes
    <2> HIDE DEF new
    <2>3. new.at \in 1 .. Len(Steps[new.op])
      BY <1>2, <2>1, NextAt
    <2>4. WorkTypes(work[t])'
      BY <1>1, <1>2, <1>3, <2>1, <2>2, <2>3
      DEF WorkTypes, Places, OpAt, Inside, Filling, Writing, Packed, Opened, Within, TypeInv
    <2>5. (work[t].op \in Requests => t \in Handler)'
      BY <2>1, <2>2 DEF TypeInv
    <2> QED
      BY <1>2, <1>3, <1>4, <2>4, <2>5, DiskLeft DEF TypeInv
  <1> QED
    BY <1>1, <1>4

LEMMA QueryTypes ==
  ASSUME TypeInv, NEW t \in Thread, Query(t)
  PROVE  TypeInv'
  <1> DEFINE r == work[t]
             new == [r EXCEPT !.at = r.at + 1]
  <1>1. /\ \/ OpAt(r, "create", 2) \/ OpAt(r, "create", 8) \/ OpAt(r, "deploy", 4)
           \/ OpAt(r, "debug", 4)
        /\ \/ Becomes(t, new)
           \/ Becomes(t, [r EXCEPT !.at = RestoreAt[r.op]])
    BY QueryDoes
  <1>2. /\ At(t, "query") /\ disk' = disk /\ cwd' = cwd /\ env' = env
        /\ shipped' = shipped /\ begun' = begun /\ strayed' \in BOOLEAN
    BY DEF Query, TypeInv
  <1>3. /\ r.op # "none" /\ r \in Work /\ r.project \in Project
        /\ cwd \in Places /\ env \in Places /\ r.saved \in Places
    BY <1>1, AtWork, Ops DEF OpAt, TypeInv
  <1>4. CASE Becomes(t, [r EXCEPT !.at = RestoreAt[r.op]])
    BY <1>2, <1>3, <1>4, BackTypes DEF TypeInv
  <1>5. CASE Becomes(t, new)
    <2>1. /\ new.at = r.at + 1
          /\ new.op = r.op /\ new.project = r.project /\ new.saved = r.saved
          /\ new.dir = r.dir /\ new.used = r.used
      BY <1>3 DEF Work
    <2>2. work'[t] = new
      BY <1>5 DEF Becomes
    <2> HIDE DEF new
    <2>3. new.at \in 1 .. Len(Steps[new.op])
      BY <1>2, <2>1, NextAt
    <2>4. WorkTypes(work[t])'
      BY <1>1, <1>2, <1>3, <2>1, <2>2, <2>3
      DEF WorkTypes, Places, OpAt, Inside, Filling, Writing, Packed, Opened, Within, TypeInv
    <2>5. (work[t].op \in Requests => t \in Handler)'
      BY <2>1, <2>2 DEF TypeInv
    <2> QED
      BY <1>2, <1>3, <1>5, <2>4, <2>5, DiskLeft DEF TypeInv
  <1> QED
    BY <1>1, <1>4, <1>5

LEMMA ReadDebugTypes ==
  ASSUME TypeInv, NEW t \in Thread, ReadDebug(t)
  PROVE  TypeInv'
  <1> DEFINE r == work[t]
             new == [r EXCEPT !.used = cwd, !.at = r.at + 1]
  <1>1. /\ OpAt(r, "show", 3)
        /\ Becomes(t, new)
    BY ReadDebugDoes
  <1>2. /\ At(t, "read") /\ disk' = disk /\ cwd' = cwd /\ env' = env
        /\ shipped' = shipped /\ begun' = begun /\ strayed' \in BOOLEAN
    BY DEF ReadDebug, TypeInv
  <1>3. /\ r.op # "none" /\ r \in Work /\ r.project \in Project
        /\ cwd \in Places /\ env \in Places /\ r.saved \in Places
    BY <1>1, AtWork, Ops DEF OpAt, TypeInv
  <1>4. CASE Becomes(t, new)
    <2>1. /\ new.at = r.at + 1
          /\ new.op = r.op /\ new.project = r.project /\ new.saved = r.saved
          /\ new.dir = r.dir
          /\ new.used = cwd
      BY <1>3 DEF Work
    <2>2. work'[t] = new
      BY <1>4 DEF Becomes
    <2> HIDE DEF new
    <2>3. new.at \in 1 .. Len(Steps[new.op])
      BY <1>2, <2>1, NextAt
    <2>4. WorkTypes(work[t])'
      BY <1>1, <1>2, <1>3, <2>1, <2>2, <2>3
      DEF WorkTypes, Places, OpAt, Inside, Filling, Writing, Packed, Opened, Within, TypeInv
    <2>5. (work[t].op \in Requests => t \in Handler)'
      BY <2>1, <2>2 DEF TypeInv
    <2> QED
      BY <1>2, <1>3, <1>4, <2>4, <2>5, DiskLeft DEF TypeInv
  <1> QED
    BY <1>1, <1>4

LEMMA RunTypes ==
  ASSUME TypeInv, NEW t \in Thread, Run(t)
  PROVE  TypeInv'
  <1> DEFINE r == work[t]
             new == [r EXCEPT !.used = Settings, !.at = r.at + 1]
  <1>1. /\ OpAt(r, "debug", 5)
        /\ Becomes(t, new)
    BY RunDoes
  <1>2. /\ At(t, "run") /\ disk' = disk /\ cwd' = cwd /\ env' = env
        /\ shipped' = shipped /\ begun' = begun /\ strayed' \in BOOLEAN
    BY DEF Run, TypeInv
  <1>3. /\ r.op # "none" /\ r \in Work /\ r.project \in Project
        /\ cwd \in Places /\ env \in Places /\ r.saved \in Places
    BY <1>1, AtWork, Ops DEF OpAt, TypeInv
  <1>4. CASE Becomes(t, new)
    <2>1. /\ new.at = r.at + 1
          /\ new.op = r.op /\ new.project = r.project /\ new.saved = r.saved
          /\ new.dir = r.dir
          /\ new.used = Settings
      BY <1>3 DEF Work
    <2>2. work'[t] = new
      BY <1>4 DEF Becomes
    <2> HIDE DEF new
    <2>3. new.at \in 1 .. Len(Steps[new.op])
      BY <1>2, <2>1, NextAt
    <2>4. WorkTypes(work[t])'
      BY <1>1, <1>2, <1>3, <2>1, <2>2, <2>3
      DEF WorkTypes, Places, OpAt, Inside, Filling, Writing, Packed, Opened, Within, TypeInv
    <2>5. (work[t].op \in Requests => t \in Handler)'
      BY <2>1, <2>2 DEF TypeInv
    <2> QED
      BY <1>2, <1>3, <1>4, <2>4, <2>5, DiskLeft DEF TypeInv
  <1> QED
    BY <1>1, <1>4

LEMMA DescribeTypes ==
  ASSUME TypeInv, NEW t \in Thread, Describe(t)
  PROVE  TypeInv'
  <1> DEFINE r == work[t]
             new == [r EXCEPT !.at = r.at + 1]
  <1>1. /\ OpAt(r, "create", 4)
        /\ \/ Becomes(t, new)
           \/ Becomes(t, [r EXCEPT !.at = RestoreAt[r.op]])
    BY DescribeDoes
  <1>2. /\ At(t, "describe") /\ disk' = disk /\ cwd' = cwd /\ env' = env
        /\ shipped' = shipped /\ begun' = begun /\ strayed' \in BOOLEAN
    BY DEF Describe, TypeInv
  <1>3. /\ r.op # "none" /\ r \in Work /\ r.project \in Project
        /\ cwd \in Places /\ env \in Places /\ r.saved \in Places
    BY <1>1, AtWork, Ops DEF OpAt, TypeInv
  <1>4. CASE Becomes(t, [r EXCEPT !.at = RestoreAt[r.op]])
    BY <1>2, <1>3, <1>4, BackTypes DEF TypeInv
  <1>5. CASE Becomes(t, new)
    <2>1. /\ new.at = r.at + 1
          /\ new.op = r.op /\ new.project = r.project /\ new.saved = r.saved
          /\ new.dir = r.dir /\ new.used = r.used
      BY <1>3 DEF Work
    <2>2. work'[t] = new
      BY <1>5 DEF Becomes
    <2> HIDE DEF new
    <2>3. new.at \in 1 .. Len(Steps[new.op])
      BY <1>2, <2>1, NextAt
    <2>4. WorkTypes(work[t])'
      BY <1>1, <1>2, <1>3, <2>1, <2>2, <2>3
      DEF WorkTypes, Places, OpAt, Inside, Filling, Writing, Packed, Opened, Within, TypeInv
    <2>5. (work[t].op \in Requests => t \in Handler)'
      BY <2>1, <2>2 DEF TypeInv
    <2> QED
      BY <1>2, <1>3, <1>5, <2>4, <2>5, DiskLeft DEF TypeInv
  <1> QED
    BY <1>1, <1>4, <1>5

LEMMA PackTypes ==
  ASSUME TypeInv, NEW t \in Thread, Pack(t)
  PROVE  TypeInv'
  <1> DEFINE r == work[t]
             new == [r EXCEPT !.used = cwd, !.at = r.at + 1]
  <1>1. /\ \/ OpAt(r, "build", 5) \/ OpAt(r, "sync", 6)
        /\ \/ Becomes(t, new) /\ cwd \in DOMAIN disk
           \/ Becomes(t, [r EXCEPT !.at = RestoreAt[r.op]])
    BY PackDoes
  <1>2. /\ At(t, "pack") /\ disk' = disk /\ cwd' = cwd /\ env' = env
        /\ shipped' = shipped /\ begun' = begun /\ strayed' \in BOOLEAN
    BY DEF Pack, TypeInv
  <1>3. /\ r.op # "none" /\ r \in Work /\ r.project \in Project
        /\ cwd \in Places /\ env \in Places /\ r.saved \in Places
    BY <1>1, AtWork, Ops DEF OpAt, TypeInv
  <1>4. CASE Becomes(t, [r EXCEPT !.at = RestoreAt[r.op]])
    BY <1>2, <1>3, <1>4, BackTypes DEF TypeInv
  <1>5. CASE Becomes(t, new) /\ cwd \in DOMAIN disk
    <2>1. /\ new.at = r.at + 1
          /\ new.op = r.op /\ new.project = r.project /\ new.saved = r.saved
          /\ new.dir = r.dir
          /\ new.used = cwd
      BY <1>3 DEF Work
    <2>2. work'[t] = new
      BY <1>5 DEF Becomes
    <2> HIDE DEF new
    <2>3. new.at \in 1 .. Len(Steps[new.op])
      BY <1>2, <2>1, NextAt
    <2>4. WorkTypes(work[t])'
      BY <1>1, <1>2, <1>3, <1>5, <2>1, <2>2, <2>3
      DEF WorkTypes, Places, OpAt, Inside, Filling, Writing, Packed, Opened, Within, TypeInv
    <2>5. (work[t].op \in Requests => t \in Handler)'
      BY <2>1, <2>2 DEF TypeInv
    <2> QED
      BY <1>2, <1>3, <1>5, <2>4, <2>5, DiskLeft DEF TypeInv
  <1> QED
    BY <1>1, <1>4, <1>5

LEMMA ResolveTypes ==
  ASSUME TypeInv, NEW t \in Thread, Resolve(t)
  PROVE  TypeInv'
  <1> DEFINE r == work[t]
             d == Append(cwd, r.project)
  <1>1. PICK new \in {[r EXCEPT !.dir = d, !.at = r.at + 1],
                      [r EXCEPT !.path = d, !.at = r.at + 1]} :
           /\ \/ OpAt(r, "scan", 1) \/ OpAt(r, "build", 2) \/ OpAt(r, "sync", 3)
              \/ OpAt(r, "debug", 2) \/ OpAt(r, "deploy", 2) \/ OpAt(r, "sync", 1)
           /\ Becomes(t, new)
    BY ResolveDoes
  <1>2. /\ disk' = disk /\ cwd' = cwd /\ env' = env
        /\ shipped' = shipped /\ begun' = begun /\ strayed' \in BOOLEAN
        /\ At(t, "resolve") \/ At(t, "note")
    BY DEF Resolve, TypeInv
  <1>3. /\ r.op # "none" /\ r \in Work /\ r.project \in Project
        /\ cwd \in Places /\ env \in Places /\ r.saved \in Places
    BY <1>1, AtWork, Ops DEF OpAt, TypeInv
  <1>4. /\ new.at = r.at + 1 /\ new.op = r.op /\ new.project = r.project
        /\ new.saved = r.saved
    BY <1>1, <1>3 DEF Work
  <1>5. work'[t] = new
    BY <1>1 DEF Becomes
  <1>6. new.at \in 1 .. Len(Steps[new.op])
    BY <1>2, <1>4, NextAt
  <1>7. WorkTypes(work[t])'
    BY <1>1, <1>2, <1>3, <1>4, <1>5, <1>6
    DEF WorkTypes, Places, OpAt, Inside, Filling, Writing, Packed, Opened, Within
  <1>8. (work[t].op \in Requests => t \in Handler)'
    BY <1>4, <1>5 DEF TypeInv
  <1> QED
    BY <1>1, <1>2, <1>3, <1>7, <1>8, DiskLeft DEF TypeInv

LEMMA EnterTypes ==
  ASSUME TypeInv, NEW t \in Thread, NEW label, NEW d,
         \/ label = "enter" /\ d = work[t].dir
         \/ label = "enterHere" /\ d = Append(cwd, work[t].project),
         Enter(t, label, d)
  PROVE  TypeInv'
  <1> DEFINE r == work[t]
             new == [r EXCEPT !.dir = d, !.disturbed = env # Root, !.at = r.at + 1]
  <1>1. /\ \/ OpAt(r, "scan", 3) \/ OpAt(r, "build", 3) \/ OpAt(r, "sync", 4)
           \/ OpAt(r, "debug", 3) \/ OpAt(r, "show", 2)
        /\ \/ d \in DOMAIN disk /\ cwd' = d /\ Becomes(t, new)
           \/ cwd' = cwd /\ Becomes(t, [r EXCEPT !.at = RestoreAt[r.op]])
    BY EnterDoes
  <1>2. /\ disk' = disk /\ env' = env /\ At(t, label)
        /\ shipped' = shipped /\ begun' = begun /\ strayed' \in BOOLEAN
    BY DEF Enter, TypeInv
  <1>3. /\ r.op # "none" /\ r \in Work /\ r.project \in Project
        /\ cwd \in Places /\ env \in Places /\ r.saved \in Places
    BY <1>1, AtWork, Ops DEF OpAt, TypeInv
  <1>4. CASE cwd' = cwd /\ Becomes(t, [r EXCEPT !.at = RestoreAt[r.op]])
    BY <1>2, <1>3, <1>4, BackTypes DEF TypeInv
  <1>5. CASE d \in DOMAIN disk /\ cwd' = d /\ Becomes(t, new)
    <2>1. /\ new.at = r.at + 1 /\ new.op = r.op /\ new.project = r.project
          /\ new.saved = r.saved /\ new.dir = d
      BY <1>3 DEF Work
    <2>2. work'[t] = new
      BY <1>5 DEF Becomes
    <2> HIDE DEF new
    <2>3. new.at \in 1 .. Len(Steps[new.op])
      BY <1>2, <2>1, NextAt
    <2>4. WorkTypes(work[t])'
      BY <1>1, <1>2, <1>3, <1>5, <2>1, <2>2, <2>3
      DEF WorkTypes, Places, OpAt, Inside, Filling, Writing, Packed, Opened, Within
    <2>5. (work[t].op \in Requests => t \in Handler)'
      BY <2>1, <2>2 DEF TypeInv
    <2>6. cwd' \in Places
      BY <1>5 DEF Places
    <2> QED
      BY <1>2, <1>3, <1>5, <2>4, <2>5, <2>6, DiskLeft DEF TypeInv
  <1> QED
    BY <1>1, <1>4, <1>5

LEMMA LoadTypes ==
  ASSUME TypeInv, NEW t \in Thread, Load(t)
  PROVE  TypeInv'
  <1> DEFINE r == work[t]
             new == [r EXCEPT !.used = Settings, !.at = 5]
  <1>1. OpAt(r, "scan", 4) /\ Becomes(t, new)
    BY LoadDoes
  <1>2. /\ disk' = disk /\ cwd' = cwd /\ env' \in Places
        /\ shipped' = shipped /\ begun' = begun /\ strayed' \in BOOLEAN
    BY SettingsIn DEF Load, TypeInv
  <1>3. /\ r \in Work /\ r.project \in Project /\ r.saved \in Places
    BY <1>1, AtWork, Ops DEF OpAt
  <1>4. new.op = "scan" /\ new.at = 5 /\ new.project = r.project /\ new.saved = r.saved
    BY <1>1, <1>3 DEF Work, OpAt
  <1>5. work'[t] = new
    BY <1>1 DEF Becomes
  <1> HIDE DEF new
  <1>6. WorkTypes(work[t])'
    BY <1>2, <1>3, <1>4, <1>5, StepsOfScan
    DEF WorkTypes, Places, Inside, Filling, Writing, Packed, Opened, Within
  <1>7. (work[t].op \in Requests => t \in Handler)'
    BY <1>1, <1>4, <1>5 DEF TypeInv, OpAt
  <1> QED
    BY <1>1, <1>2, <1>6, <1>7, DiskLeft DEF TypeInv

LEMMA RestoreTypes ==
  ASSUME TypeInv, NEW t \in Thread, Restore(t)
  PROVE  TypeInv'
  <1> DEFINE r == work[t]
             new == [r EXCEPT !.at = 10]
  <1>1. /\ \/ OpAt(r, "look", 2) \/ OpAt(r, "show", 4) \/ OpAt(r, "scan", 5)
           \/ OpAt(r, "create", 9) \/ OpAt(r, "build", 8) \/ OpAt(r, "deploy", 6)
           \/ OpAt(r, "sync", 9) \/ OpAt(r, "debug", 6)
        /\ Becomes(t, IF r.op = "sync" THEN new ELSE Idle)
        /\ cwd' \in {cwd, r.saved} /\ env' \in {env, Root}
    BY RestoreDoes
  <1>2. /\ disk' = disk /\ shipped' = shipped /\ begun' = begun /\ strayed' \in BOOLEAN
    BY DEF Restore, TypeInv
  <1>3. r \in Work /\ r.project \in Project /\ r.saved \in Places
    BY <1>1, AtWork, Ops DEF OpAt
  <1>4. cwd' \in Places /\ env' \in Places
    BY <1>1, <1>3 DEF Places, TypeInv
  <1>5. CASE r.op # "sync"
    BY <1>1, <1>2, <1>4, <1>5, IdleTypes DEF TypeInv
  <1>6. CASE r.op = "sync"
    <2>1. new.op = "sync" /\ new.at = 10 /\ new.project = r.project /\ new.saved = r.saved
      BY <1>3, <1>6 DEF Work
    <2>2. work'[t] = new /\ Becomes(t, new)
      BY <1>1, <1>6 DEF Becomes
    <2> HIDE DEF new
    <2>5. 10 \in 1 .. Len(Steps["sync"])
      BY StepsOfSync
    <2>6. new.at \in 1 .. Len(Steps[new.op])
      BY <2>1, <2>5
    <2>3. WorkTypes(work[t])'
      BY <1>2, <1>3, <2>1, <2>2, <2>6
      DEF WorkTypes, Places, Inside, Filling, Writing, Packed, Opened, Within
    <2>4. (work[t].op \in Requests => t \in Handler)'
      BY <1>6, <2>1, <2>2 DEF TypeInv
    <2> QED
      BY <1>2, <1>4, <2>2, <2>3, <2>4, DiskLeft DEF TypeInv
  <1> QED
    BY <1>5, <1>6

LEMMA OpenEggTypes ==
  ASSUME TypeInv, NEW t \in Thread, OpenEgg(t)
  PROVE  TypeInv'
  <1> DEFINE r == work[t]
  <1>1. /\ OpAt(r, "deploy", 3) \/ OpAt(r, "sync", 10)
        /\ \/ /\ r.path \in DOMAIN disk
              /\ \E e \in disk[r.path].eggs :
                    Becomes(t, [r EXCEPT !.used = <<e>>, !.at = r.at + 1])
           \/ OpAt(r, "deploy", 3) /\ Becomes(t, [r EXCEPT !.at = 6])
           \/ OpAt(r, "sync", 10) /\ Becomes(t, Idle)
    BY OpenEggDoes
  <1>2. /\ disk' = disk /\ cwd' = cwd /\ env' = env /\ At(t, "openEgg")
        /\ shipped' = shipped /\ begun' = begun /\ strayed' \in BOOLEAN
    BY DEF OpenEgg, TypeInv
  <1>3. /\ r.op # "none" /\ r \in Work /\ r.project \in Project
        /\ cwd \in Places /\ env \in Places /\ r.saved \in Places
    BY <1>1, AtWork, Ops DEF OpAt, TypeInv
  <1>4. ASSUME r.path \in DOMAIN disk, NEW e \in disk[r.path].eggs,
               Becomes(t, [r EXCEPT !.used = <<e>>, !.at = r.at + 1])
        PROVE  TypeInv'
    <2> DEFINE new == [r EXCEPT !.used = <<e>>, !.at = r.at + 1]
    <2>4. <<e>> \in Dir \ {Root}
      BY <1>4, Single DEF TypeInv, DiskDir
    <2>1. /\ new.at = r.at + 1 /\ new.op = r.op /\ new.project = r.project
          /\ new.saved = r.saved /\ new.used \in Dir \ {Root}
      BY <1>3, <2>4 DEF Work
    <2>2. work'[t] = new /\ Becomes(t, new)
      BY <1>4 DEF Becomes
    <2> HIDE DEF new
    <2>3. new.at \in 1 .. Len(Steps[new.op])
      BY <1>2, <2>1, NextAt
    <2>7. OpAt(r, "deploy", 3) \/ OpAt(r, "sync", 10)
      BY <1>1
    <2>8. ~ Inside(new) /\ ~ Filling(new) /\ ~ Writing(new) /\ ~ Packed(new)
      BY <2>1, <2>7 DEF OpAt, Inside, Filling, Writing, Packed, Within
    <2>5. WorkTypes(work[t])'
      BY <1>2, <1>3, <2>1, <2>2, <2>3, <2>8 DEF WorkTypes, Places
    <2>6. (work[t].op \in Requests => t \in Handler)'
      BY <2>1, <2>2 DEF TypeInv
    <2> QED
      BY <1>2, <1>3, <2>2, <2>5, <2>6, DiskLeft DEF TypeInv
  <1>5. CASE OpAt(r, "deploy", 3) /\ Becomes(t, [r EXCEPT !.at = 6])
    <2>1. RestoreAt[r.op] = 6
      BY <1>5, Lengths DEF OpAt
    <2> QED
      BY <1>2, <1>3, <1>5, <2>1, BackTypes DEF TypeInv
  <1>6. CASE OpAt(r, "sync", 10) /\ Becomes(t, Idle)
    BY <1>2, <1>3, <1>6, IdleTypes DEF TypeInv
  <1> QED
    BY <1>1, <1>4, <1>5, <1>6

LEMMA PublishTypes ==
  ASSUME TypeInv, NEW t \in Thread, Publish(t)
  PROVE  TypeInv'
  <1> DEFINE r == work[t]
  <1>1. \/ OpAt(r, "deploy", 5) /\ Becomes(t, [r EXCEPT !.at = 6])
        \/ OpAt(r, "sync", 11) /\ Becomes(t, Idle)
    BY PublishDoes
  <1>2. /\ disk' = disk /\ cwd' = cwd /\ env' = env
        /\ shipped' = shipped \cup {<<r.project, Last(r.used)>>}
        /\ begun' = begun /\ strayed' \in BOOLEAN
    BY DEF Publish, TypeInv
  <1>3. r.op # "none" /\ r.project \in Project
    BY <1>1, AtWork, Ops DEF OpAt
  <1>4. r.used \in Dir \ {Root}
    BY <1>1, <1>3 DEF TypeInv, WorkTypes, Opened, Within, OpAt
  <1>5. shipped' \subseteq Project \X Project
    BY <1>2, <1>3, <1>4, LastIn DEF TypeInv
  <1>6. CASE OpAt(r, "deploy", 5) /\ Becomes(t, [r EXCEPT !.at = 6])
    <2>1. RestoreAt[r.op] = 6
      BY <1>6, Lengths DEF OpAt
    <2> QED
      BY <1>2, <1>3, <1>5, <1>6, <2>1, BackTypes DEF TypeInv
  <1>7. CASE OpAt(r, "sync", 11) /\ Becomes(t, Idle)
    BY <1>2, <1>5, <1>7, IdleTypes DEF TypeInv
  <1> QED
    BY <1>1, <1>6, <1>7

LEMMA BeginTypes ==
  ASSUME TypeInv, NEW t \in Thread, NEW op \in DOMAIN Steps, NEW p \in Project,
         Begin(t, op, p), op \in Requests => t \in Handler
  PROVE  TypeInv'
  <1> DEFINE new == [Idle EXCEPT !.op = op, !.project = p, !.at = 1]
  <1>1. Becomes(t, new)
    BY BeginDoes
  <1>2. /\ disk' = disk /\ cwd' = cwd /\ env' = env /\ shipped' = shipped
        /\ begun < MaxWork /\ begun' = begun + 1 /\ strayed' \in BOOLEAN
    BY DEF Begin, TypeInv
  <1>3. begun' \in 0 .. MaxWork
    BY <1>2, MaxWorkAssumption DEF TypeInv
  <1>4. new.op = op /\ new.at = 1 /\ new.project = p /\ new.saved = Root
    BY IdleWork DEF Work
  <1>5. work'[t] = new
    BY <1>1 DEF Becomes
  <1> HIDE DEF new
  <1>6. 1 \in 1 .. Len(Steps[op])
    <2>1. RestoreAt[op] \in 1 .. Len(Steps[op])
      BY Restores
    <2> QED
      BY <2>1
  <1>7. WorkTypes(work[t])'
    BY <1>2, <1>4, <1>5, <1>6
    DEF WorkTypes, Places, Inside, Filling, Writing, Packed, Opened, Within
  <1>8. (work[t].op \in Requests => t \in Handler)'
    BY <1>4, <1>5
  <1> QED
    BY <1>1, <1>2, <1>3, <1>7, <1>8, DiskLeft DEF TypeInv

DiskOK ==
    /\ disk \in [DOMAIN disk -> DiskDir] /\ DOMAIN disk \subseteq Dir \ {Root}
    /\ \A d \in DOMAIN disk : disk[d].eggs # {} => disk[d].setup

\* A directory is changed, or made.
LEMMA DiskChanged ==
  ASSUME TypeInv, NEW d \in DOMAIN disk, NEW v \in DiskDir,
         disk' = [disk EXCEPT ![d] = v],
         disk[d].setup => v.setup, v.eggs # {} => v.setup
  PROVE  DiskOK' /\ Grows /\ DOMAIN disk' = DOMAIN disk
  BY DEF DiskOK, Grows, TypeInv

LEMMA DiskMade ==
  ASSUME TypeInv, NEW d \in Dir \ {Root}, d \notin DOMAIN disk, NEW v \in DiskDir,
         disk' = [e \in DOMAIN disk \cup {d} |-> IF e = d THEN v ELSE disk[e]],
         v.eggs = {}
  PROVE  DiskOK' /\ Grows
  BY DEF DiskOK, Grows, TypeInv

LEMMA FreshDir ==
  ASSUME NEW files \in {"empty", "copied", "placed", "whole", "gutted"}
  PROVE  Fresh(files) \in DiskDir /\ Fresh(files).eggs = {} /\ Fresh(files).files = files
  BY DEF Fresh, DiskDir

\* What is said of files only leaves the rest as it was.
LEMMA FilesDir ==
  ASSUME NEW v \in DiskDir, NEW files \in {"empty", "copied", "placed", "whole", "gutted"}
  PROVE  /\ [v EXCEPT !.files = files] \in DiskDir
         /\ [v EXCEPT !.files = files].files = files
         /\ [v EXCEPT !.files = files].setup = v.setup
         /\ [v EXCEPT !.files = files].eggs = v.eggs
  BY DEF DiskDir

LEMMA CopyDisk ==
  ASSUME TypeInv, NEW t \in Thread, work[t].op # "none", NEW files \in Files,
         disk' = Copied(Append(cwd, work[t].project), files)
  PROVE  LET d == Append(cwd, work[t].project)
         IN /\ d \in Dir \ {Root} /\ Front(d) = cwd
            /\ DOMAIN disk' = DOMAIN disk \cup {d}
            /\ disk'[d].files = files
            /\ d \in DOMAIN disk => disk'[d].eggs = disk[d].eggs
            /\ d \notin DOMAIN disk => disk'[d].eggs = {}
            /\ \A e \in DOMAIN disk \ {d} : disk'[e] = disk[e]
            /\ DiskOK' /\ Grows
  <1> DEFINE d == Append(cwd, work[t].project)
  <1>1. work[t].project \in Project
    BY AtWork
  <1>2. d \in Dir \ {Root} /\ Front(d) = cwd
    BY <1>1, PlacesDirs, Below
  <1>3. disk' = [e \in DOMAIN disk \cup {d} |->
                   IF e \notin DOMAIN disk THEN Fresh(files)
                   ELSE IF e = d THEN [disk[e] EXCEPT !.files = files] ELSE disk[e]]
    BY DEF Copied
  <1> HIDE DEF d
  <1>4. CASE d \in DOMAIN disk
    <2>1. disk[d] \in DiskDir
      BY <1>4 DEF TypeInv
    <2>2. PICK v : v = [disk[d] EXCEPT !.files = files]
      OBVIOUS
    <2>3. v \in DiskDir /\ v.files = files /\ v.setup = disk[d].setup /\ v.eggs = disk[d].eggs
      BY <2>1, <2>2, FilesDir DEF Files
    <2>4. disk' = [disk EXCEPT ![d] = v]
      BY <1>3, <1>4, <2>2 DEF TypeInv
    <2>5. DiskOK' /\ Grows /\ DOMAIN disk' = DOMAIN disk
      BY <1>4, <2>3, <2>4, DiskChanged DEF TypeInv
    <2>6. disk'[d] = v /\ \A e \in DOMAIN disk \ {d} : disk'[e] = disk[e]
      BY <1>4, <2>4 DEF TypeInv
    <2> QED
      BY <1>2, <1>4, <2>3, <2>5, <2>6 DEF d
  <1>5. CASE d \notin DOMAIN disk
    <2>1. PICK v : v = Fresh(files)
      OBVIOUS
    <2>2. v \in DiskDir /\ v.eggs = {} /\ v.files = files
      BY <2>1, FreshDir DEF Files
    <2>3. disk' = [e \in DOMAIN disk \cup {d} |-> IF e = d THEN v ELSE disk[e]]
      BY <1>3, <1>5, <2>1 DEF TypeInv
    <2>4. DiskOK' /\ Grows
      BY <1>2, <1>5, <2>2, <2>3, DiskMade
    <2> QED
      BY <1>2, <1>5, <2>2, <2>3, <2>4 DEF d
  <1> QED
    BY <1>4, <1>5

LEMMA MakeDirDisk ==
  ASSUME TypeInv, NEW d \in Dir \ {Root}, d \notin DOMAIN disk, Made(d)
  PROVE  /\ DOMAIN disk' = DOMAIN disk \cup {d}
         /\ disk'[d].eggs = {}
         /\ \A e \in DOMAIN disk : disk'[e] = disk[e]
         /\ DiskOK' /\ Grows
  <1>1. PICK v : v = Fresh("empty")
    OBVIOUS
  <1>2. v \in DiskDir /\ v.eggs = {}
    BY <1>1, FreshDir
  <1>3. disk' = [e \in DOMAIN disk \cup {d} |-> IF e = d THEN v ELSE disk[e]]
    BY <1>1 DEF Made
  <1>4. DiskOK' /\ Grows
    BY <1>2, <1>3, DiskMade
  <1> QED
    BY <1>2, <1>3, <1>4

\* Both directories are there.
LEMMA PlaceDisk ==
  ASSUME TypeInv, NEW from, NEW to \in DOMAIN disk, Placed(from, to)
  PROVE  /\ from \in DOMAIN disk /\ disk[from].files = "copied"
         /\ DOMAIN disk' = DOMAIN disk
         /\ disk'[to].files = "placed"
         /\ \A e \in DOMAIN disk \ {from, to} : disk'[e] = disk[e]
         /\ \A e \in DOMAIN disk : disk'[e].eggs = disk[e].eggs
         /\ DiskOK' /\ Grows
  <1>1. /\ from \in DOMAIN disk /\ disk[from].files = "copied"
        /\ disk' = [disk EXCEPT ![from].files = "gutted", ![to].files = "placed"]
    BY DEF Placed, HasFiles
  <1>2. PICK mid : mid = [disk EXCEPT ![from].files = "gutted"]
    OBVIOUS
  <1>3. disk \in [DOMAIN disk -> DiskDir]
    BY DEF TypeInv
  <1>4. /\ mid \in [DOMAIN disk -> DiskDir]
        /\ \A e \in DOMAIN disk : mid[e].setup = disk[e].setup /\ mid[e].eggs = disk[e].eggs
        /\ \A e \in DOMAIN disk \ {from} : mid[e] = disk[e]
    <2>1. PICK v : v = [disk[from] EXCEPT !.files = "gutted"]
      OBVIOUS
    <2>2. v \in DiskDir /\ v.setup = disk[from].setup /\ v.eggs = disk[from].eggs
      BY <1>1, <1>3, <2>1, FilesDir
    <2>3. mid = [disk EXCEPT ![from] = v]
      BY <1>2, <2>1
    <2> QED
      BY <1>1, <1>3, <2>2, <2>3
  <1>5. disk' = [mid EXCEPT ![to].files = "placed"]
    BY <1>1, <1>2
  <1>6. /\ disk' \in [DOMAIN disk -> DiskDir]
        /\ \A e \in DOMAIN disk : disk'[e].setup = mid[e].setup /\ disk'[e].eggs = mid[e].eggs
        /\ \A e \in DOMAIN disk \ {to} : disk'[e] = mid[e]
        /\ disk'[to].files = "placed"
    <2>1. PICK v : v = [mid[to] EXCEPT !.files = "placed"]
      OBVIOUS
    <2>2. v \in DiskDir /\ v.setup = mid[to].setup /\ v.eggs = mid[to].eggs /\ v.files = "placed"
      BY <1>4, <2>1, FilesDir
    <2>3. disk' = [mid EXCEPT ![to] = v]
      BY <1>5, <2>1
    <2> QED
      BY <1>4, <2>2, <2>3
  <1>7. DOMAIN disk' = DOMAIN disk
    BY <1>6
  <1>8. DiskOK' /\ Grows
    BY <1>4, <1>6, <1>7 DEF DiskOK, Grows, TypeInv
  <1> QED
    BY <1>1, <1>4, <1>6, <1>7, <1>8

LEMMA RenderDisk ==
  ASSUME TypeInv, NEW d \in DOMAIN disk, disk' = [disk EXCEPT ![d].files = "whole"]
  PROVE  /\ DOMAIN disk' = DOMAIN disk
         /\ disk'[d].files = "whole"
         /\ \A e \in DOMAIN disk \ {d} : disk'[e] = disk[e]
         /\ \A e \in DOMAIN disk : disk'[e].eggs = disk[e].eggs
         /\ DiskOK' /\ Grows
  <1>1. disk \in [DOMAIN disk -> DiskDir] /\ disk[d] \in DiskDir
    BY DEF TypeInv
  <1>2. PICK v : v = [disk[d] EXCEPT !.files = "whole"]
    OBVIOUS
  <1>3. v \in DiskDir /\ v.setup = disk[d].setup /\ v.eggs = disk[d].eggs /\ v.files = "whole"
    BY <1>1, <1>2, FilesDir
  <1>4. disk' = [disk EXCEPT ![d] = v]
    BY <1>2
  <1>6. (disk[d].setup => v.setup) /\ (v.eggs # {} => v.setup)
    BY <1>3 DEF TypeInv
  <1>5. DiskOK' /\ Grows /\ DOMAIN disk' = DOMAIN disk
    BY <1>3, <1>4, <1>6, DiskChanged
  <1> QED
    BY <1>1, <1>3, <1>4, <1>5

\* setup.py is written, an egg is removed or moved in: files stay.
LEMMA BuildDisk ==
  ASSUME TypeInv, NEW d \in DOMAIN disk, NEW v \in DiskDir, disk' = [disk EXCEPT ![d] = v],
         v.files = disk[d].files, disk[d].setup => v.setup, v.eggs # {} => v.setup
  PROVE  /\ DOMAIN disk' = DOMAIN disk /\ disk'[d] = v
         /\ \A e \in DOMAIN disk : disk'[e].files = disk[e].files
         /\ \A e \in DOMAIN disk \ {d} : disk'[e] = disk[e]
         /\ DiskOK' /\ Grows
  <1>1. DiskOK' /\ Grows /\ DOMAIN disk' = DOMAIN disk
    BY DiskChanged
  <1> QED
    BY <1>1 DEF TypeInv

\* A step that changes the disk keeps the types if t is left in order.
LEMMA DiskTypes ==
  ASSUME TypeInv, NEW t \in Thread, NEW r, Becomes(t, r), DiskOK', Grows,
         WorkTypes(work[t])', (work[t].op \in Requests => t \in Handler)',
         (cwd \in Places)', env' = env,
         shipped' = shipped, begun' = begun, strayed' = strayed
  PROVE  TypeInv'
  <1>1. Places \subseteq Places' /\ env' \in Places'
    BY DEF Grows, Places, TypeInv
  <1> QED
    BY <1>1, TypesKept DEF TypeInv, DiskOK

LEMMA ClearEggDisk ==
  ASSUME TypeInv, NEW t \in Thread, ClearEgg(t), NEW d, d = work[t].dir, d \in DOMAIN disk
  PROVE  \E v \in DiskDir : /\ v.files = disk[d].files /\ v.setup = disk[d].setup
                           /\ v.eggs \subseteq disk[d].eggs
                           /\ disk' = [disk EXCEPT ![d] = v]
  <1>1. disk[d] \in DiskDir /\ disk \in [DOMAIN disk -> DiskDir]
    BY DEF TypeInv
  <1>2. CASE disk' = disk
    BY <1>1, <1>2
  <1>3. ASSUME NEW e \in disk[d].eggs, disk' = [disk EXCEPT ![d].eggs = @ \ {e}]
        PROVE  \E v \in DiskDir : /\ v.files = disk[d].files /\ v.setup = disk[d].setup
                                 /\ v.eggs \subseteq disk[d].eggs
                                 /\ disk' = [disk EXCEPT ![d] = v]
    <2>1. PICK v : v = [disk[d] EXCEPT !.eggs = @ \ {e}]
      OBVIOUS
    <2>2. /\ v \in DiskDir /\ v.files = disk[d].files /\ v.setup = disk[d].setup
          /\ v.eggs \subseteq disk[d].eggs
      BY <1>1, <2>1 DEF DiskDir
    <2>3. disk' = [disk EXCEPT ![d] = v]
      BY <1>3, <2>1
    <2> QED
      BY <2>2, <2>3
  <1> QED
    BY <1>2, <1>3 DEF ClearEgg

LEMMA MakeDirTypes ==
  ASSUME TypeInv, NEW t \in Thread, MakeDir(t)
  PROVE  TypeInv'
  <1> DEFINE r == work[t]
             d == Append(cwd, r.project)
             new == [r EXCEPT !.used = d, !.at = r.at + 1]
  <1>1. /\ OpAt(r, "create", 3)
        /\ \/ d \notin DOMAIN disk /\ Made(d) /\ Becomes(t, new)
           \/ disk' = disk /\ Becomes(t, [r EXCEPT !.at = RestoreAt[r.op]])
    BY MakeDirDoes
  <1>2. /\ At(t, "mkdir") /\ cwd' = cwd /\ env' = env
        /\ shipped' = shipped /\ begun' = begun /\ strayed' = strayed
    BY DEF MakeDir
  <1>3. /\ r.op # "none" /\ r \in Work /\ r.project \in Project
        /\ cwd \in Places /\ r.saved \in Places /\ strayed \in BOOLEAN
    BY <1>1, AtWork, Ops DEF OpAt, TypeInv
  <1>4. CASE disk' = disk /\ Becomes(t, [r EXCEPT !.at = RestoreAt[r.op]])
    BY <1>2, <1>3, <1>4, BackTypes DEF TypeInv
  <1>5. CASE d \notin DOMAIN disk /\ Made(d) /\ Becomes(t, new)
    <2>1. /\ new.at = r.at + 1
          /\ new.op = r.op /\ new.project = r.project /\ new.saved = r.saved
          /\ new.dir = r.dir /\ new.used = d
      BY <1>3 DEF Work
    <2>2. work'[t] = new /\ Becomes(t, new)
      BY <1>5 DEF Becomes
    <2> HIDE DEF new
    <2>3. new.at \in 1 .. Len(Steps[new.op])
      BY <1>2, <2>1, NextAt
    <2>4. DiskOK' /\ Grows /\ d \in Dir
      BY <1>3, <1>5, PlacesDirs, Below, MakeDirDisk
    <2>5. (cwd \in Places)' /\ (r.saved \in Places)'
      BY <1>2, <1>3, <2>2, <2>1, <2>4 DEF Places, Grows
    <2>6. WorkTypes(work[t])'
      BY <1>1, <1>2, <1>3, <1>5, <2>1, <2>2, <2>3, <2>4, <2>5
      DEF WorkTypes, Places, Grows, OpAt, Inside, Filling, Writing, Packed, Opened, Within, TypeInv
    <2>7. (work[t].op \in Requests => t \in Handler)'
      BY <2>1, <2>2 DEF TypeInv
    <2> QED
      BY <1>2, <2>2, <2>4, <2>5, <2>6, <2>7, DiskTypes
  <1> QED
    BY <1>1, <1>4, <1>5

\* A thread that has made something, and whose next step is to restore.
LEMMA BackMade ==
  ASSUME TypeInv, NEW t \in Thread, work[t].op # "none",
         Becomes(t, [work[t] EXCEPT !.at = RestoreAt[work[t].op]]), DiskOK', Grows,
         cwd' = cwd, env' = env,
         shipped' = shipped, begun' = begun, strayed' = strayed
  PROVE  TypeInv'
  <1> DEFINE new == [work[t] EXCEPT !.at = RestoreAt[work[t].op]]
  <1>1. /\ work[t] \in Work /\ work[t].op \in DOMAIN Steps
        /\ work[t].project \in Project /\ work[t].saved \in Places
    BY AtWork
  <1>2. /\ new.op = work[t].op /\ new.at = RestoreAt[new.op]
        /\ new.project = work[t].project /\ new.saved = work[t].saved
    BY <1>1 DEF Work
  <1>3. work'[t] = new
    BY DEF Becomes
  <1> HIDE DEF new
  <1>4. new.at \in 1 .. Len(Steps[new.op])
    BY <1>1, <1>2, Restores
  <1>5. ~ Inside(new) /\ ~ Filling(new) /\ ~ Writing(new) /\ ~ Packed(new) /\ ~ Opened(new)
    BY <1>2, Lengths DEF Inside, Filling, Writing, Packed, Opened, Within
  <1>6. (cwd \in Places)' /\ (work[t].saved \in Places)'
    BY <1>1, <1>2, <1>3 DEF Places, Grows, TypeInv
  <1>7. WorkTypes(work[t])'
    BY <1>1, <1>2, <1>3, <1>4, <1>5, <1>6 DEF WorkTypes
  <1>8. (work[t].op \in Requests => t \in Handler)'
    BY <1>2, <1>3 DEF TypeInv
  <1> QED
    BY <1>3, <1>6, <1>7, <1>8, DiskTypes

LEMMA CopyTypes ==
  ASSUME TypeInv, NEW t \in Thread, Copy(t)
  PROVE  TypeInv'
  <1> DEFINE r == work[t]
             d == Append(cwd, r.project)
             new == [r EXCEPT !.dir = d, !.at = r.at + 1]
  <1>1. /\ OpAt(r, "create", 5)
        /\ \/ disk' = Copied(d, "copied") /\ Becomes(t, new)
           \/ /\ disk' = disk \/ \E files \in Files : disk' = Copied(d, files)
              /\ Becomes(t, [r EXCEPT !.at = RestoreAt[r.op]])
    BY CopyDoes
  <1>2. /\ At(t, "copy") /\ cwd' = cwd /\ env' = env
        /\ shipped' = shipped /\ begun' = begun /\ strayed' = strayed
    BY DEF Copy
  <1>3. /\ r.op # "none" /\ r \in Work /\ r.project \in Project
        /\ cwd \in Places /\ r.saved \in Places /\ strayed \in BOOLEAN
    BY <1>1, AtWork, Ops DEF OpAt, TypeInv
  <1>4. CASE /\ disk' = disk \/ \E files \in Files : disk' = Copied(d, files)
             /\ Becomes(t, [r EXCEPT !.at = RestoreAt[r.op]])
    <2>1. CASE disk' = disk
      BY <1>2, <1>3, <1>4, <2>1, BackTypes DEF TypeInv
    <2>2. ASSUME NEW files \in Files, disk' = Copied(d, files)
          PROVE  TypeInv'
      <3>1. DiskOK' /\ Grows
        BY <1>3, <2>2, CopyDisk
      <3> QED
        BY <1>2, <1>3, <1>4, <3>1, BackMade
    <2> QED
      BY <1>4, <2>1, <2>2
  <1>5. CASE disk' = Copied(d, "copied") /\ Becomes(t, new)
    <2>1. /\ new.at = r.at + 1
          /\ new.op = r.op /\ new.project = r.project /\ new.saved = r.saved
          /\ new.dir = d /\ new.used = r.used
      BY <1>3 DEF Work
    <2>2. work'[t] = new /\ Becomes(t, new)
      BY <1>5 DEF Becomes
    <2> HIDE DEF new
    <2>3. new.at \in 1 .. Len(Steps[new.op])
      BY <1>2, <2>1, NextAt
    <2>4. DiskOK' /\ Grows /\ d \in DOMAIN disk' /\ Front(d) = cwd
      BY <1>3, <1>5, CopyDisk DEF Files
    <2>5. (cwd \in Places)' /\ (r.saved \in Places)'
      BY <1>2, <1>3, <2>2, <2>1, <2>4 DEF Places, Grows
    <2>6. WorkTypes(work[t])'
      BY <1>1, <1>2, <1>3, <1>5, <2>1, <2>2, <2>3, <2>4, <2>5
      DEF WorkTypes, Places, Grows, OpAt, Inside, Filling, Writing, Packed, Opened, Within, TypeInv
    <2>7. (work[t].op \in Requests => t \in Handler)'
      BY <2>1, <2>2 DEF TypeInv
    <2> QED
      BY <1>2, <2>2, <2>4, <2>5, <2>6, <2>7, DiskTypes
  <1> QED
    BY <1>1, <1>4, <1>5

LEMMA PlaceTypes ==
  ASSUME TypeInv, NEW t \in Thread, Place(t)
  PROVE  TypeInv'
  <1> DEFINE r == work[t]
             d == Append(cwd, r.project)
             new == [r EXCEPT !.at = r.at + 1]
  <1>1. /\ OpAt(r, "create", 6)
        /\ \/ Placed(d, r.dir) /\ Becomes(t, new)
           \/ disk' = disk /\ Becomes(t, [r EXCEPT !.at = RestoreAt[r.op]])
    BY PlaceDoes
  <1>2. /\ At(t, "place") /\ cwd' = cwd /\ env' = env
        /\ shipped' = shipped /\ begun' = begun /\ strayed' = strayed
    BY DEF Place
  <1>3. /\ r.op # "none" /\ r \in Work /\ r.project \in Project
        /\ cwd \in Places /\ r.saved \in Places /\ strayed \in BOOLEAN
    BY <1>1, AtWork, Ops DEF OpAt, TypeInv
  <1>4. CASE disk' = disk /\ Becomes(t, [r EXCEPT !.at = RestoreAt[r.op]])
    BY <1>2, <1>3, <1>4, BackTypes DEF TypeInv
  <1>5. CASE Placed(d, r.dir) /\ Becomes(t, new)
    <2>1. /\ new.at = r.at + 1
          /\ new.op = r.op /\ new.project = r.project /\ new.saved = r.saved
          /\ new.dir = r.dir /\ new.used = r.used
      BY <1>3 DEF Work
    <2>2. work'[t] = new /\ Becomes(t, new)
      BY <1>5 DEF Becomes
    <2> HIDE DEF new
    <2>3. new.at \in 1 .. Len(Steps[new.op])
      BY <1>2, <2>1, NextAt
    <2>8. r.dir \in DOMAIN disk
      BY <1>1, <1>3 DEF TypeInv, WorkTypes, Filling, Within, OpAt
    <2>4. DiskOK' /\ Grows
      BY <1>5, <2>8, PlaceDisk
    <2>5. (cwd \in Places)' /\ (r.saved \in Places)'
      BY <1>2, <1>3, <2>2, <2>1, <2>4 DEF Places, Grows
    <2>6. WorkTypes(work[t])'
      BY <1>1, <1>2, <1>3, <1>5, <2>1, <2>2, <2>3, <2>4, <2>5
      DEF WorkTypes, Places, Grows, OpAt, Inside, Filling, Writing, Packed, Opened, Within, TypeInv
    <2>7. (work[t].op \in Requests => t \in Handler)'
      BY <2>1, <2>2 DEF TypeInv
    <2> QED
      BY <1>2, <2>2, <2>4, <2>5, <2>6, <2>7, DiskTypes
  <1> QED
    BY <1>1, <1>4, <1>5

LEMMA WriteSetupTypes ==
  ASSUME TypeInv, NEW t \in Thread, WriteSetup(t)
  PROVE  TypeInv'
  <1> DEFINE r == work[t]
             d == r.dir
             new == [r EXCEPT !.at = r.at + 1]
  <1>1. /\ OpAt(r, "build", 4) \/ OpAt(r, "sync", 5)
        /\ \/ disk' = [disk EXCEPT ![d].setup = TRUE] /\ Becomes(t, new)
           \/ disk' = disk /\ Becomes(t, [r EXCEPT !.at = RestoreAt[r.op]])
    BY WriteSetupDoes
  <1>2. /\ At(t, "setup") /\ cwd' = cwd /\ env' = env
        /\ shipped' = shipped /\ begun' = begun /\ strayed' = strayed
    BY DEF WriteSetup
  <1>3. /\ r.op # "none" /\ r \in Work /\ r.project \in Project
        /\ cwd \in Places /\ r.saved \in Places /\ strayed \in BOOLEAN
    BY <1>1, AtWork, Ops DEF OpAt, TypeInv
  <1>4. CASE disk' = disk /\ Becomes(t, [r EXCEPT !.at = RestoreAt[r.op]])
    BY <1>2, <1>3, <1>4, BackTypes DEF TypeInv
  <1>5. CASE disk' = [disk EXCEPT ![d].setup = TRUE] /\ Becomes(t, new)
    <2>1. /\ new.at = r.at + 1
          /\ new.op = r.op /\ new.project = r.project /\ new.saved = r.saved
          /\ new.dir = r.dir /\ new.used = r.used
      BY <1>3 DEF Work
    <2>2. work'[t] = new /\ Becomes(t, new)
      BY <1>5 DEF Becomes
    <2> HIDE DEF new
    <2>3. new.at \in 1 .. Len(Steps[new.op])
      BY <1>2, <2>1, NextAt
    <2>8. r.dir \in DOMAIN disk
      BY <1>1, <1>3 DEF TypeInv, WorkTypes, Inside, Writing, Packed, Within, OpAt
    <2>9. disk \in [DOMAIN disk -> DiskDir]
      BY DEF TypeInv
    <2>10. PICK v : v = [disk[d] EXCEPT !.setup = TRUE]
      OBVIOUS
    <2>11. v \in DiskDir /\ v.setup /\ v.files = disk[d].files
      BY <2>8, <2>9, <2>10 DEF DiskDir
    <2>12. disk' = [disk EXCEPT ![d] = v]
      BY <1>5, <2>10
    <2>4. DiskOK' /\ Grows /\ disk'[d].setup
      BY <2>8, <2>11, <2>12, BuildDisk
    <2>5. (cwd \in Places)' /\ (r.saved \in Places)'
      BY <1>2, <1>3, <2>2, <2>1, <2>4 DEF Places, Grows
    <2>6. WorkTypes(work[t])'
      BY <1>1, <1>2, <1>3, <1>5, <2>1, <2>2, <2>3, <2>4, <2>5
      DEF WorkTypes, Places, Grows, OpAt, Inside, Filling, Writing, Packed, Opened, Within, TypeInv
    <2>7. (work[t].op \in Requests => t \in Handler)'
      BY <2>1, <2>2 DEF TypeInv
    <2> QED
      BY <1>2, <2>2, <2>4, <2>5, <2>6, <2>7, DiskTypes
  <1> QED
    BY <1>1, <1>4, <1>5

LEMMA ClearEggTypes ==
  ASSUME TypeInv, NEW t \in Thread, ClearEgg(t)
  PROVE  TypeInv'
  <1> DEFINE r == work[t]
             d == r.dir
             new == [r EXCEPT !.at = r.at + 1]
  <1>1. /\ OpAt(r, "build", 6) \/ OpAt(r, "sync", 7)
        /\ Becomes(t, new)
    BY ClearEggDoes
  <1>2. /\ At(t, "clear") /\ cwd' = cwd /\ env' = env
        /\ shipped' = shipped /\ begun' = begun /\ strayed' = strayed
    BY DEF ClearEgg
  <1>3. /\ r.op # "none" /\ r \in Work /\ r.project \in Project
        /\ cwd \in Places /\ r.saved \in Places /\ strayed \in BOOLEAN
    BY <1>1, AtWork, Ops DEF OpAt, TypeInv
  <1>5. CASE Becomes(t, new)
    <2>1. /\ new.at = r.at + 1
          /\ new.op = r.op /\ new.project = r.project /\ new.saved = r.saved
          /\ new.dir = r.dir /\ new.used = r.used
      BY <1>3 DEF Work
    <2>2. work'[t] = new /\ Becomes(t, new)
      BY <1>5 DEF Becomes
    <2> HIDE DEF new
    <2>3. new.at \in 1 .. Len(Steps[new.op])
      BY <1>2, <2>1, NextAt
    <2>8. r.dir \in DOMAIN disk /\ disk[r.dir].setup /\ r.used \in DOMAIN disk
      BY <1>1, <1>3 DEF TypeInv, WorkTypes, Inside, Writing, Packed, Within, OpAt
    <2>9. disk \in [DOMAIN disk -> DiskDir]
      BY DEF TypeInv
    <2>10. PICK v \in DiskDir : /\ v.files = disk[d].files /\ v.setup = disk[d].setup
                                /\ v.eggs \subseteq disk[d].eggs
                                /\ disk' = [disk EXCEPT ![d] = v]
      BY <2>8, ClearEggDisk
    <2>4. DiskOK' /\ Grows
      BY <2>8, <2>10, BuildDisk
    <2>5. (cwd \in Places)' /\ (r.saved \in Places)'
      BY <1>2, <1>3, <2>2, <2>1, <2>4 DEF Places, Grows
    <2>6. WorkTypes(work[t])'
      BY <1>1, <1>2, <1>3, <1>5, <2>1, <2>2, <2>3, <2>4, <2>5
      DEF WorkTypes, Places, Grows, OpAt, Inside, Filling, Writing, Packed, Opened, Within, TypeInv
    <2>7. (work[t].op \in Requests => t \in Handler)'
      BY <2>1, <2>2 DEF TypeInv
    <2> QED
      BY <1>2, <2>2, <2>4, <2>5, <2>6, <2>7, DiskTypes
  <1> QED
    BY <1>1, <1>5

LEMMA MoveEggTypes ==
  ASSUME TypeInv, NEW t \in Thread, MoveEgg(t)
  PROVE  TypeInv'
  <1> DEFINE r == work[t]
             d == r.dir
             new == [r EXCEPT !.at = r.at + 1]
  <1>1. /\ OpAt(r, "build", 7) \/ OpAt(r, "sync", 8)
        /\ \/ Moved(r) /\ Becomes(t, new)
           \/ disk' = disk /\ Becomes(t, [r EXCEPT !.at = RestoreAt[r.op]])
    BY MoveEggDoes
  <1>2. /\ At(t, "moveIn") /\ cwd' = cwd /\ env' = env
        /\ shipped' = shipped /\ begun' = begun /\ strayed' = strayed
    BY DEF MoveEgg
  <1>3. /\ r.op # "none" /\ r \in Work /\ r.project \in Project
        /\ cwd \in Places /\ r.saved \in Places /\ strayed \in BOOLEAN
    BY <1>1, AtWork, Ops DEF OpAt, TypeInv
  <1>4. CASE disk' = disk /\ Becomes(t, [r EXCEPT !.at = RestoreAt[r.op]])
    BY <1>2, <1>3, <1>4, BackTypes DEF TypeInv
  <1>5. CASE Moved(r) /\ Becomes(t, new)
    <2>1. /\ new.at = r.at + 1
          /\ new.op = r.op /\ new.project = r.project /\ new.saved = r.saved
          /\ new.dir = r.dir /\ new.used = r.used
      BY <1>3 DEF Work
    <2>2. work'[t] = new /\ Becomes(t, new)
      BY <1>5 DEF Becomes
    <2> HIDE DEF new
    <2>3. new.at \in 1 .. Len(Steps[new.op])
      BY <1>2, <2>1, NextAt
    <2>8. r.dir \in DOMAIN disk /\ disk[r.dir].setup /\ r.used \in DOMAIN disk
      BY <1>1, <1>3 DEF TypeInv, WorkTypes, Inside, Writing, Packed, Within, OpAt
    <2>9. disk \in [DOMAIN disk -> DiskDir]
      BY DEF TypeInv
    <2>10. PICK v : v = [disk[d] EXCEPT !.eggs = @ \cup {Last(r.used)}]
      OBVIOUS
    <2>11. Last(r.used) \in Project
      BY <2>8, LastIn DEF TypeInv
    <2>12. v \in DiskDir /\ v.setup /\ v.files = disk[d].files
      BY <2>8, <2>9, <2>10, <2>11 DEF DiskDir
    <2>13. disk' = [disk EXCEPT ![d] = v]
      BY <1>5, <2>10 DEF Moved
    <2>4. DiskOK' /\ Grows
      BY <2>8, <2>12, <2>13, BuildDisk
    <2>5. (cwd \in Places)' /\ (r.saved \in Places)'
      BY <1>2, <1>3, <2>2, <2>1, <2>4 DEF Places, Grows
    <2>6. WorkTypes(work[t])'
      BY <1>1, <1>2, <1>3, <1>5, <2>1, <2>2, <2>3, <2>4, <2>5
      DEF WorkTypes, Places, Grows, OpAt, Inside, Filling, Writing, Packed, Opened, Within, TypeInv
    <2>7. (work[t].op \in Requests => t \in Handler)'
      BY <2>1, <2>2 DEF TypeInv
    <2> QED
      BY <1>2, <2>2, <2>4, <2>5, <2>6, <2>7, DiskTypes
  <1> QED
    BY <1>1, <1>4, <1>5

LEMMA RenderTypes ==
  ASSUME TypeInv, NEW t \in Thread, Render(t)
  PROVE  TypeInv'
  <1> DEFINE r == work[t]
             d == Append(cwd, r.project)
             new == [r EXCEPT !.at = 8]
  <1>1. /\ OpAt(r, "create", 7)
        /\ env' = env
        /\ \/ /\ HasFiles(d, {"placed", "whole"})
              /\ disk' = [disk EXCEPT ![d].files = "whole"]
              /\ cwd' = Front(r.dir)
              /\ Becomes(t, new)
           \/ disk' = disk /\ cwd' = cwd /\ Becomes(t, [r EXCEPT !.at = 9])
    BY RenderDoes
  <1>2. shipped' = shipped /\ begun' = begun /\ strayed' = strayed
    BY DEF Render
  <1>3. /\ r.op # "none" /\ r \in Work /\ r.project \in Project /\ r.saved \in Places
    BY <1>1, AtWork, Ops DEF OpAt
  <1>4. CASE disk' = disk /\ cwd' = cwd /\ Becomes(t, [r EXCEPT !.at = 9])
    <2>1. RestoreAt[r.op] = 9
      BY <1>1, Lengths DEF OpAt
    <2> QED
      BY <1>1, <1>2, <1>3, <1>4, <2>1, BackTypes DEF TypeInv
  <1>5. CASE /\ HasFiles(d, {"placed", "whole"}) /\ disk' = [disk EXCEPT ![d].files = "whole"]
             /\ cwd' = Front(r.dir) /\ Becomes(t, new)
    <2>1. new.op = "create" /\ new.at = 8 /\ new.project = r.project /\ new.saved = r.saved
      BY <1>1, <1>3 DEF Work, OpAt
    <2>2. work'[t] = new /\ Becomes(t, new)
      BY <1>5 DEF Becomes
    <2> HIDE DEF new
    <2>3. DiskOK' /\ Grows
      BY <1>5, RenderDisk DEF HasFiles
    <2>4. Front(r.dir) \in Places
      BY <1>1, <1>3 DEF TypeInv, WorkTypes, Filling, Within, OpAt
    <2>5. (cwd \in Places)' /\ (r.saved \in Places)'
      BY <1>3, <1>5, <2>1, <2>2, <2>3, <2>4 DEF Places, Grows
    <2>6. 8 \in 1 .. Len(Steps["create"])
      BY StepsOfCreate
    <2>7. WorkTypes(work[t])'
      BY <1>3, <2>1, <2>2, <2>5, <2>6
      DEF WorkTypes, Inside, Filling, Writing, Packed, Opened, Within
    <2>8. (work[t].op \in Requests => t \in Handler)'
      BY <1>1, <2>1, <2>2 DEF TypeInv, OpAt
    <2> QED
      BY <1>1, <1>2, <2>2, <2>3, <2>5, <2>7, <2>8, DiskTypes
  <1> QED
    BY <1>1, <1>4, <1>5

LEMMA InitTypes == Init => TypeInv
  <1> SUFFICES ASSUME Init PROVE TypeInv
    OBVIOUS
  <1>1. PICK made \in SUBSET Project :
           disk = [d \in {<<p>> : p \in made} |-> Fresh("whole")]
    BY DEF Init
  <1>2. Fresh("whole") \in DiskDir /\ Fresh("whole").eggs = {}
    BY FreshDir
  <1>3. /\ disk \in [DOMAIN disk -> DiskDir]
        /\ \A d \in DOMAIN disk : disk[d].eggs = {} /\ d \in Dir \ {Root}
    BY <1>1, <1>2, Single
  <1>4. \A t \in Thread : work[t] = Idle
    BY DEF Init
  <1>5. \A t \in Thread : WorkTypes(work[t]) /\ (work[t].op \in Requests => t \in Handler)
    BY <1>4, IdleWork, Ops DEF WorkTypes, Places
  <1>6. work \in [Thread -> Work]
    BY IdleWork DEF Init
  <1>7. /\ cwd \in Places /\ env \in Places /\ shipped \subseteq Project \X Project
        /\ begun \in 0 .. MaxWork /\ strayed \in BOOLEAN
    <2>1. shipped = {} /\ begun = 0 /\ strayed = FALSE /\ cwd = Root /\ env = Root
      BY DEF Init
    <2>2. 0 \in 0 .. MaxWork
      BY MaxWorkAssumption
    <2> QED
      BY <2>1, <2>2 DEF Places
  <1> QED
    BY <1>3, <1>5, <1>6, <1>7 DEF TypeInv

LEMMA StepTypes ==
  ASSUME TypeInv, NEW t \in Thread, Step(t)
  PROVE  TypeInv'
  <1>1. CASE Enter(t, "enter", work[t].dir)
    BY <1>1, EnterTypes
  <1>2. CASE Enter(t, "enterHere", Append(cwd, work[t].project))
    BY <1>2, EnterTypes
  <1> QED
    BY <1>1, <1>2, SaveTypes, ResolveTypes, QueryTypes, RestoreTypes, ReadDebugTypes,
       LoadTypes, RunTypes, MakeDirTypes, DescribeTypes, CopyTypes, PlaceTypes,
       RenderTypes, WriteSetupTypes, PackTypes, ClearEggTypes, MoveEggTypes,
       OpenEggTypes, PublishTypes
    DEF Step

\* The process is killed: all threads are at rest, and the disk stays as it is.
LEMMA KillTypes == TypeInv /\ Kill => TypeInv'
  <1> SUFFICES ASSUME TypeInv, Kill PROVE TypeInv'
    OBVIOUS
  <1>1. \A t \in Thread : work'[t] = Idle
    BY DEF Kill
  <1>2. /\ cwd' = Root /\ env' = Root /\ strayed' = FALSE
        /\ disk' = disk /\ shipped' = shipped
    BY DEF Kill
  <1>3. begun' \in 0 .. MaxWork
    BY MaxWorkAssumption DEF Kill, TypeInv
  <1>4. work' \in [Thread -> Work]
    BY IdleWork DEF Kill
  <1>5. \A t \in Thread : WorkTypes(work[t])' /\ (work[t].op \in Requests => t \in Handler)'
    BY <1>1, IdleWork, Ops DEF WorkTypes, Places
  <1>6. (cwd \in Places)' /\ (env \in Places)' /\ (strayed \in BOOLEAN)'
    BY <1>2 DEF Places
  <1> QED
    BY <1>2, <1>3, <1>4, <1>5, <1>6 DEF TypeInv

LEMMA NextTypes == TypeInv /\ [Next]_workVars => TypeInv'
  <1> SUFFICES ASSUME TypeInv, [Next]_workVars PROVE TypeInv'
    OBVIOUS
  <1>1. ASSUME NEW t \in Handler, NEW op \in Requests, NEW p \in Project, Begin(t, op, p)
        PROVE  TypeInv'
    BY <1>1, Ops, BeginTypes DEF Thread
  <1>2. ASSUME NEW t \in Debugger, NEW p \in Project, Begin(t, "debug", p)
        PROVE  TypeInv'
    BY <1>2, Ops, BeginTypes DEF Thread
  <1>3. ASSUME NEW t \in Thread, Step(t)
        PROVE  TypeInv'
    BY <1>3, StepTypes
  <1>4. CASE UNCHANGED workVars
    <2>1. Places' = Places
      BY <1>4 DEF workVars, Places
    <2>2. ASSUME NEW t \in Thread
          PROVE  WorkTypes(work[t])'
      BY <1>4, <2>1, <2>2 DEF workVars, TypeInv, WorkTypes, Inside, Filling, Writing, Packed,
                              Opened, Within
    <2> QED
      BY <1>4, <2>1, <2>2 DEF workVars, TypeInv
  <1> QED
    BY <1>1, <1>2, <1>3, <1>4, KillTypes DEF Next

\* Every thread is at a statement of its handler, and has the directories, the setup.py
\* and the egg that the statements before it left it with.
THEOREM TypeInvHolds == Spec => []TypeInv
  BY InitTypes, NextTypes, PTL DEF Spec

\* The process is in a directory that exists or in the root, eggs are only where a
\* setup.py was written, and what was shipped are projects.
THEOREM TypeOKHolds == Spec => []TypeOK
  <1>1. TypeInv => TypeOK
    <2> SUFFICES ASSUME TypeInv PROVE TypeOK
      OBVIOUS
    <2>1. \A d \in DOMAIN disk : disk[d] \in DiskDir /\ d \in Seq(Project) \ {Root}
      BY DEF TypeInv, Dir
    <2>2. ASSUME NEW t \in Thread
          PROVE  work[t].op \in DOMAIN Steps \cup {"none"} /\ work[t].saved \in Places
      BY DEF TypeInv, WorkTypes, Work
    <2> QED
      BY <2>1, <2>2 DEF TypeInv, TypeOK, Places, DiskDir
  <1> QED
    BY <1>1, TypeInvHolds, PTL

-----------------------------------------------------------------------------
(* The way back to the root is kept.                                       *)

LEMMA AwayIs ==
  ASSUME NEW r, r.op \in DOMAIN Steps, r.at \in 1 .. Len(Steps[r.op])
  PROVE  Away(r) <=> /\ r.at <= RestoreAt[r.op]
                     /\ r.op = "scan" => r.at = 4 \/ (r.at = 5 /\ env # Root)
  <1>1. /\ RestoreAt[r.op] \in DOMAIN Steps[r.op]
        /\ \A k \in DOMAIN Steps[r.op] : Steps[r.op][k] = "restore" <=> k = RestoreAt[r.op]
    BY Restores
  <1>2. r.op # "none"
    BY Ops
  <1>3. (\E k \in DOMAIN Steps[r.op] : k >= r.at /\ Steps[r.op][k] = "restore")
           <=> RestoreAt[r.op] >= r.at
    BY <1>1
  <1>4. RestoreAt[r.op] \in Int /\ r.at \in Int
    BY Restores
  <1>5. RestoreAt[r.op] >= r.at <=> r.at <= RestoreAt[r.op]
    BY <1>4
  <1> QED
    BY <1>2, <1>3, <1>5 DEF Away

\* A step keeps the way back if t goes back, or stays where it was and keeps its own.
LEMMA WayKept ==
  ASSUME TypeInv, WayBack, NEW t \in Thread, NEW r, Becomes(t, r),
         strayed => strayed', strayed' \in BOOLEAN,
         ~ strayed' => r.saved = Root,
         ~ strayed' /\ cwd' # Root =>
            \/ Away(work[t])'
            \/ cwd' = cwd /\ (Away(work[t]) => Away(work[t])') /\ (env # Root => env' # Root)
  PROVE  WayBack'
  <1> SUFFICES ASSUME ~ strayed'
               PROVE  /\ \A u \in Thread : work'[u].saved = Root
                      /\ cwd' # Root => \E u \in Thread : Away(work[u])'
    BY DEF WayBack
  <1>1. /\ \A u \in Thread : work[u].saved = Root
        /\ cwd # Root => \E u \in Thread : Away(work[u])
    BY DEF WayBack
  <1>2. ASSUME NEW u \in Thread, u # t
        PROVE  /\ work'[u].op = work[u].op /\ work'[u].at = work[u].at
               /\ work'[u].saved = work[u].saved
    <2>1. work[u] \in Work /\ Noticed(u)
      BY <1>2 DEF Becomes, TypeInv
    <2> QED
      BY <2>1 DEF Noticed, Work
  <1>3. ASSUME NEW u \in Thread
        PROVE  work'[u].saved = Root
    BY <1>1, <1>2, <1>3 DEF Becomes
  <1>4. ASSUME cwd' # Root
        PROVE  \E u \in Thread : Away(work[u])'
    <2>1. CASE Away(work[t])'
      BY <2>1
    <2>2. CASE cwd' = cwd /\ (Away(work[t]) => Away(work[t])') /\ (env # Root => env' # Root)
      <3>1. PICK u \in Thread : Away(work[u])
        BY <1>1, <1>4, <2>2
      <3>2. CASE u = t
        BY <2>2, <3>1, <3>2
      <3>3. CASE u # t
        <4>1. Away(work[u])'
          BY <1>2, <2>2, <3>1, <3>3 DEF Away
        <4> QED
          BY <4>1
      <3> QED
        BY <3>2, <3>3
    <2> QED
      BY <1>4, <2>1, <2>2
  <1> QED
    BY <1>3, <1>4

\* A step that goes on, or on to what is to be done at the end, where the process is.
LEMMA OnTheWay ==
  ASSUME TypeInv, WayBack, NEW t \in Thread, NEW r, Becomes(t, r), work[t].op # "none",
         r.op = work[t].op, r.saved = work[t].saved,
         r.at \in {work[t].at + 1, RestoreAt[work[t].op]},
         work[t].at # RestoreAt[work[t].op], work[t].op = "scan" => work[t].at < 4,
         cwd' = cwd, env' = env, strayed' = strayed
  PROVE  WayBack'
  <1>1. /\ work[t].op \in DOMAIN Steps
        /\ work[t].at \in 1 .. Len(Steps[work[t].op])
        /\ RestoreAt[r.op] \in 1 .. Len(Steps[r.op])
    BY AtWork, Restores
  <1>2. Len(Steps[r.op]) \in Nat
    BY <1>1, Ops, Lengths
  <1>3. ASSUME Away(work[t])
        PROVE  Away(work[t])'
    <2>1. /\ work[t].at <= RestoreAt[work[t].op]
          /\ work[t].op = "scan" => work[t].at = 4 \/ work[t].at = 5
      BY <1>1, <1>3, AwayIs
    <2>2. r.op # "scan"
      BY <2>1
    <2>3. r.at \in 1 .. Len(Steps[r.op]) /\ r.at <= RestoreAt[r.op]
      BY <1>1, <1>2, <2>1
    <2>4. Away(r)
      BY <1>1, <2>2, <2>3, AwayIs
    <2>5. work'[t] = r
      BY DEF Becomes
    <2> QED
      BY <2>4, <2>5 DEF Away
  <1>4. /\ strayed => strayed'
        /\ strayed' \in BOOLEAN
        /\ ~ strayed' => r.saved = Root
    BY DEF TypeInv, WayBack
  <1> QED
    BY <1>3, <1>4, WayKept

LEMMA SaveWay ==
  ASSUME TypeInv, WayBack, NEW t \in Thread, Save(t)
  PROVE  WayBack'
  <1> DEFINE r == work[t]
             new == [r EXCEPT !.saved = cwd, !.disturbed = FALSE, !.at = r.at + 1]
  <1>1. Becomes(t, new)
    BY SaveDoes
  <1>2. /\ cwd' = cwd /\ strayed' = (strayed \/ cwd # Root)
        /\ r \in Work
    BY DEF Save, TypeInv
  <1>3. new.saved = cwd
    BY <1>2 DEF Work
  <1> HIDE DEF new
  <1>4. /\ strayed => strayed'
        /\ strayed' \in BOOLEAN
        /\ ~ strayed' => new.saved = Root
        /\ ~ strayed' => cwd' = Root
    BY <1>2, <1>3 DEF TypeInv
  <1> QED
    BY <1>1, <1>4, WayKept

LEMMA ResolveWay ==
  ASSUME TypeInv, WayBack, NEW t \in Thread, Resolve(t)
  PROVE  WayBack'
  <1> DEFINE r == work[t]
             d == Append(cwd, r.project)
  <1>1. PICK new \in {[r EXCEPT !.dir = d, !.at = r.at + 1],
                      [r EXCEPT !.path = d, !.at = r.at + 1]} :
           /\ \/ OpAt(r, "scan", 1) \/ OpAt(r, "build", 2) \/ OpAt(r, "sync", 3)
              \/ OpAt(r, "debug", 2) \/ OpAt(r, "deploy", 2) \/ OpAt(r, "sync", 1)
           /\ Becomes(t, new)
    BY ResolveDoes
  <1>2. r.op # "none" /\ r \in Work
    BY <1>1, AtWork, Ops DEF OpAt
  <1>3. new.op = r.op /\ new.saved = r.saved /\ new.at = r.at + 1
    BY <1>1, <1>2 DEF Work
  <1>4. r.at # RestoreAt[r.op] /\ (r.op = "scan" => r.at < 4)
    BY <1>1, Lengths DEF OpAt
  <1> QED
    BY <1>1, <1>2, <1>3, <1>4, OnTheWay DEF Resolve

LEMMA QueryWay ==
  ASSUME TypeInv, WayBack, NEW t \in Thread, Query(t)
  PROVE  WayBack'
  <1> DEFINE r == work[t]
  <1>1. PICK new \in {[r EXCEPT !.at = r.at + 1],
                      [r EXCEPT !.at = RestoreAt[r.op]]} :
           /\ \/ OpAt(r, "create", 2) \/ OpAt(r, "create", 8)
              \/ OpAt(r, "deploy", 4) \/ OpAt(r, "debug", 4)
           /\ Becomes(t, new)
    BY QueryDoes
  <1>2. r.op # "none" /\ r \in Work
    BY <1>1, AtWork, Ops DEF OpAt
  <1>3. new.op = r.op /\ new.saved = r.saved /\ new.at \in {r.at + 1, RestoreAt[r.op]}
    BY <1>1, <1>2 DEF Work
  <1>4. r.at # RestoreAt[r.op] /\ r.op # "scan"
    BY <1>1, Lengths DEF OpAt
  <1> QED
    BY <1>1, <1>2, <1>3, <1>4, OnTheWay DEF Query

LEMMA ReadDebugWay ==
  ASSUME TypeInv, WayBack, NEW t \in Thread, ReadDebug(t)
  PROVE  WayBack'
  <1> DEFINE r == work[t]
  <1>1. PICK new \in {[r EXCEPT !.used = cwd, !.at = r.at + 1]} :
           /\ OpAt(r, "show", 3)
           /\ Becomes(t, new)
    BY ReadDebugDoes
  <1>2. r.op # "none" /\ r \in Work
    BY <1>1, AtWork, Ops DEF OpAt
  <1>3. new.op = r.op /\ new.saved = r.saved /\ new.at = r.at + 1
    BY <1>1, <1>2 DEF Work
  <1>4. r.at # RestoreAt[r.op] /\ r.op # "scan"
    BY <1>1, Lengths DEF OpAt
  <1> QED
    BY <1>1, <1>2, <1>3, <1>4, OnTheWay DEF ReadDebug

LEMMA RunWay ==
  ASSUME TypeInv, WayBack, NEW t \in Thread, Run(t)
  PROVE  WayBack'
  <1> DEFINE r == work[t]
  <1>1. PICK new \in {[r EXCEPT !.used = Settings, !.at = r.at + 1]} :
           /\ OpAt(r, "debug", 5)
           /\ Becomes(t, new)
    BY RunDoes
  <1>2. r.op # "none" /\ r \in Work
    BY <1>1, AtWork, Ops DEF OpAt
  <1>3. new.op = r.op /\ new.saved = r.saved /\ new.at = r.at + 1
    BY <1>1, <1>2 DEF Work
  <1>4. r.at # RestoreAt[r.op] /\ r.op # "scan"
    BY <1>1, Lengths DEF OpAt
  <1> QED
    BY <1>1, <1>2, <1>3, <1>4, OnTheWay DEF Run

LEMMA MakeDirWay ==
  ASSUME TypeInv, WayBack, NEW t \in Thread, MakeDir(t)
  PROVE  WayBack'
  <1> DEFINE r == work[t]
  <1>1. PICK new \in {[r EXCEPT !.used = Append(cwd, r.project), !.at = r.at + 1],
                      [r EXCEPT !.at = RestoreAt[r.op]]} :
           /\ OpAt(r, "create", 3)
           /\ Becomes(t, new)
    BY MakeDirDoes
  <1>2. r.op # "none" /\ r \in Work
    BY <1>1, AtWork, Ops DEF OpAt
  <1>3. new.op = r.op /\ new.saved = r.saved /\ new.at \in {r.at + 1, RestoreAt[r.op]}
    BY <1>1, <1>2 DEF Work
  <1>4. r.at # RestoreAt[r.op] /\ r.op # "scan"
    BY <1>1, Lengths DEF OpAt
  <1> QED
    BY <1>1, <1>2, <1>3, <1>4, OnTheWay DEF MakeDir

LEMMA DescribeWay ==
  ASSUME TypeInv, WayBack, NEW t \in Thread, Describe(t)
  PROVE  WayBack'
  <1> DEFINE r == work[t]
  <1>1. PICK new \in {[r EXCEPT !.at = r.at + 1],
                      [r EXCEPT !.at = RestoreAt[r.op]]} :
           /\ OpAt(r, "create", 4)
           /\ Becomes(t, new)
    BY DescribeDoes
  <1>2. r.op # "none" /\ r \in Work
    BY <1>1, AtWork, Ops DEF OpAt
  <1>3. new.op = r.op /\ new.saved = r.saved /\ new.at \in {r.at + 1, RestoreAt[r.op]}
    BY <1>1, <1>2 DEF Work
  <1>4. r.at # RestoreAt[r.op] /\ r.op # "scan"
    BY <1>1, Lengths DEF OpAt
  <1> QED
    BY <1>1, <1>2, <1>3, <1>4, OnTheWay DEF Describe

LEMMA CopyWay ==
  ASSUME TypeInv, WayBack, NEW t \in Thread, Copy(t)
  PROVE  WayBack'
  <1> DEFINE r == work[t]
  <1>1. PICK new \in {[r EXCEPT !.dir = Append(cwd, r.project), !.at = r.at + 1],
                      [r EXCEPT !.at = RestoreAt[r.op]]} :
           /\ OpAt(r, "create", 5)
           /\ Becomes(t, new)
    BY CopyDoes
  <1>2. r.op # "none" /\ r \in Work
    BY <1>1, AtWork, Ops DEF OpAt
  <1>3. new.op = r.op /\ new.saved = r.saved /\ new.at \in {r.at + 1, RestoreAt[r.op]}
    BY <1>1, <1>2 DEF Work
  <1>4. r.at # RestoreAt[r.op] /\ r.op # "scan"
    BY <1>1, Lengths DEF OpAt
  <1> QED
    BY <1>1, <1>2, <1>3, <1>4, OnTheWay DEF Copy

LEMMA PlaceWay ==
  ASSUME TypeInv, WayBack, NEW t \in Thread, Place(t)
  PROVE  WayBack'
  <1> DEFINE r == work[t]
  <1>1. PICK new \in {[r EXCEPT !.at = r.at + 1],
                      [r EXCEPT !.at = RestoreAt[r.op]]} :
           /\ OpAt(r, "create", 6)
           /\ Becomes(t, new)
    BY PlaceDoes
  <1>2. r.op # "none" /\ r \in Work
    BY <1>1, AtWork, Ops DEF OpAt
  <1>3. new.op = r.op /\ new.saved = r.saved /\ new.at \in {r.at + 1, RestoreAt[r.op]}
    BY <1>1, <1>2 DEF Work
  <1>4. r.at # RestoreAt[r.op] /\ r.op # "scan"
    BY <1>1, Lengths DEF OpAt
  <1> QED
    BY <1>1, <1>2, <1>3, <1>4, OnTheWay DEF Place

LEMMA WriteSetupWay ==
  ASSUME TypeInv, WayBack, NEW t \in Thread, WriteSetup(t)
  PROVE  WayBack'
  <1> DEFINE r == work[t]
  <1>1. PICK new \in {[r EXCEPT !.at = r.at + 1],
                      [r EXCEPT !.at = RestoreAt[r.op]]} :
           /\ OpAt(r, "build", 4) \/ OpAt(r, "sync", 5)
           /\ Becomes(t, new)
    BY WriteSetupDoes
  <1>2. r.op # "none" /\ r \in Work
    BY <1>1, AtWork, Ops DEF OpAt
  <1>3. new.op = r.op /\ new.saved = r.saved /\ new.at \in {r.at + 1, RestoreAt[r.op]}
    BY <1>1, <1>2 DEF Work
  <1>4. r.at # RestoreAt[r.op] /\ r.op # "scan"
    BY <1>1, Lengths DEF OpAt
  <1> QED
    BY <1>1, <1>2, <1>3, <1>4, OnTheWay DEF WriteSetup

LEMMA PackWay ==
  ASSUME TypeInv, WayBack, NEW t \in Thread, Pack(t)
  PROVE  WayBack'
  <1> DEFINE r == work[t]
  <1>1. PICK new \in {[r EXCEPT !.used = cwd, !.at = r.at + 1],
                      [r EXCEPT !.at = RestoreAt[r.op]]} :
           /\ OpAt(r, "build", 5) \/ OpAt(r, "sync", 6)
           /\ Becomes(t, new)
    BY PackDoes
  <1>2. r.op # "none" /\ r \in Work
    BY <1>1, AtWork, Ops DEF OpAt
  <1>3. new.op = r.op /\ new.saved = r.saved /\ new.at \in {r.at + 1, RestoreAt[r.op]}
    BY <1>1, <1>2 DEF Work
  <1>4. r.at # RestoreAt[r.op] /\ r.op # "scan"
    BY <1>1, Lengths DEF OpAt
  <1> QED
    BY <1>1, <1>2, <1>3, <1>4, OnTheWay DEF Pack

LEMMA ClearEggWay ==
  ASSUME TypeInv, WayBack, NEW t \in Thread, ClearEgg(t)
  PROVE  WayBack'
  <1> DEFINE r == work[t]
  <1>1. PICK new \in {[r EXCEPT !.at = r.at + 1]} :
           /\ OpAt(r, "build", 6) \/ OpAt(r, "sync", 7)
           /\ Becomes(t, new)
    BY ClearEggDoes
  <1>2. r.op # "none" /\ r \in Work
    BY <1>1, AtWork, Ops DEF OpAt
  <1>3. new.op = r.op /\ new.saved = r.saved /\ new.at = r.at + 1
    BY <1>1, <1>2 DEF Work
  <1>4. r.at # RestoreAt[r.op] /\ r.op # "scan"
    BY <1>1, Lengths DEF OpAt
  <1> QED
    BY <1>1, <1>2, <1>3, <1>4, OnTheWay DEF ClearEgg

LEMMA MoveEggWay ==
  ASSUME TypeInv, WayBack, NEW t \in Thread, MoveEgg(t)
  PROVE  WayBack'
  <1> DEFINE r == work[t]
  <1>1. PICK new \in {[r EXCEPT !.at = r.at + 1],
                      [r EXCEPT !.at = RestoreAt[r.op]]} :
           /\ OpAt(r, "build", 7) \/ OpAt(r, "sync", 8)
           /\ Becomes(t, new)
    BY MoveEggDoes
  <1>2. r.op # "none" /\ r \in Work
    BY <1>1, AtWork, Ops DEF OpAt
  <1>3. new.op = r.op /\ new.saved = r.saved /\ new.at \in {r.at + 1, RestoreAt[r.op]}
    BY <1>1, <1>2 DEF Work
  <1>4. r.at # RestoreAt[r.op] /\ r.op # "scan"
    BY <1>1, Lengths DEF OpAt
  <1> QED
    BY <1>1, <1>2, <1>3, <1>4, OnTheWay DEF MoveEgg

LEMMA EnterWay ==
  ASSUME TypeInv, WayBack, NEW t \in Thread, NEW label, NEW d,
         \/ label = "enter" /\ d = work[t].dir
         \/ label = "enterHere" /\ d = Append(cwd, work[t].project),
         Enter(t, label, d)
  PROVE  WayBack'
  <1> DEFINE r == work[t]
             new == [r EXCEPT !.dir = d, !.disturbed = env # Root, !.at = r.at + 1]
             back == [r EXCEPT !.at = RestoreAt[r.op]]
  <1>1. /\ \/ OpAt(r, "scan", 3) \/ OpAt(r, "build", 3) \/ OpAt(r, "sync", 4)
           \/ OpAt(r, "debug", 3) \/ OpAt(r, "show", 2)
        /\ \/ d \in DOMAIN disk /\ cwd' = d /\ Becomes(t, new)
           \/ cwd' = cwd /\ Becomes(t, back)
    BY EnterDoes
  <1>2. /\ env' = env /\ strayed' = strayed /\ strayed \in BOOLEAN
        /\ r.op # "none" /\ r \in Work
    BY <1>1, AtWork, Ops DEF OpAt, Enter, TypeInv
  <1>3. CASE cwd' = cwd /\ Becomes(t, back)
    <2>1. back.op = r.op /\ back.saved = r.saved /\ back.at = RestoreAt[r.op]
      BY <1>2 DEF Work
    <2>2. r.at # RestoreAt[r.op] /\ (r.op = "scan" => r.at < 4)
      BY <1>1, Lengths DEF OpAt
    <2> HIDE DEF back
    <2> QED
      BY <1>2, <1>3, <2>1, <2>2, OnTheWay
  <1>4. CASE cwd' = d /\ Becomes(t, new)
    <2>1. new.op = r.op /\ new.saved = r.saved /\ new.at = r.at + 1
      BY <1>2 DEF Work
    <2>2. work'[t] = new
      BY <1>4 DEF Becomes
    <2> HIDE DEF new
    <2>3. new.op \in DOMAIN Steps /\ r.at + 1 \in 1 .. Len(Steps[r.op])
      BY <1>2, <2>1, AtWork, NextAt DEF Enter
    <2>4. new.at <= RestoreAt[new.op] /\ (new.op = "scan" => new.at = 4)
      BY <1>1, <2>1, Lengths DEF OpAt
    <2>5. Away(new)
      BY <2>1, <2>3, <2>4, AwayIs
    <2>6. Away(work[t])'
      BY <1>2, <2>2, <2>5 DEF Away
    <2>7. ~ strayed' => new.saved = Root
      BY <1>2, <2>1 DEF WayBack
    <2> QED
      BY <1>2, <1>4, <2>6, <2>7, WayKept
  <1> QED
    BY <1>1, <1>3, <1>4

LEMMA LoadWay ==
  ASSUME TypeInv, WayBack, NEW t \in Thread, Load(t)
  PROVE  WayBack'
  <1> DEFINE r == work[t]
             new == [r EXCEPT !.used = Settings, !.at = 5]
  <1>1. OpAt(r, "scan", 4) /\ Becomes(t, new)
    BY LoadDoes
  <1>2. /\ cwd' = cwd /\ strayed' = (strayed \/ env' = Root) /\ strayed \in BOOLEAN
        /\ r \in Work
    BY DEF Load, TypeInv
  <1>3. new.op = "scan" /\ new.saved = r.saved /\ new.at = 5 /\ work'[t] = new
    BY <1>1, <1>2 DEF Work, OpAt, Becomes
  <1> HIDE DEF new
  <1>4. ASSUME ~ strayed'
        PROVE  Away(work[t])'
    <2>1. env' # Root
      BY <1>2, <1>4
    <2>2. 5 \in DOMAIN Steps["scan"] /\ Steps["scan"][5] = "restore"
      BY StepsOfScan
    <2> QED
      BY <1>3, <2>1, <2>2 DEF Away
  <1>5. ~ strayed' => new.saved = Root
    BY <1>2, <1>3 DEF WayBack
  <1>6. (strayed => strayed') /\ strayed' \in BOOLEAN
    BY <1>2
  <1> QED
    BY <1>1, <1>4, <1>5, <1>6, WayKept

LEMMA RestoreWay ==
  ASSUME TypeInv, WayBack, NEW t \in Thread, Restore(t)
  PROVE  WayBack'
  <1> DEFINE r == work[t]
  <1>1. PICK new \in {[r EXCEPT !.at = 10], Idle} : Becomes(t, new)
    BY RestoreDoes
  <1>2. /\ IF r.op = "scan" /\ env = Root THEN cwd' = cwd ELSE cwd' = r.saved
        /\ r.op = "scan" => OpAt(r, "scan", 5)
        /\ r.op \in DOMAIN Steps /\ r.at \in 1 .. Len(Steps[r.op])
    BY RestoreDoes, AtWork, Ops DEF OpAt
  <1>3. /\ strayed' = strayed /\ strayed \in BOOLEAN /\ r \in Work
        /\ env' = IF r.op = "scan" THEN Root ELSE env
    BY DEF Restore, TypeInv
  <1>4. ~ strayed' => r.saved = Root /\ new.saved = Root
    BY <1>1, <1>3, IdleWork DEF WayBack, Work
  <1>5. CASE r.op = "scan" /\ env = Root
    <2>1. ~ Away(r)
      BY <1>2, <1>5, AwayIs DEF OpAt
    <2> QED
      BY <1>1, <1>2, <1>3, <1>4, <1>5, <2>1, WayKept
  <1>6. CASE ~ (r.op = "scan" /\ env = Root)
    <2>1. ~ strayed' => cwd' = Root
      BY <1>2, <1>4, <1>6
    <2> QED
      BY <1>1, <1>3, <1>4, <2>1, WayKept
  <1> QED
    BY <1>5, <1>6

LEMMA RenderWay ==
  ASSUME TypeInv, WayBack, NEW t \in Thread, Render(t)
  PROVE  WayBack'
  <1> DEFINE r == work[t]
  <1>1. OpAt(r, "create", 7) /\ env' = env
    BY RenderDoes
  <1>2. PICK new \in {[r EXCEPT !.at = 8], [r EXCEPT !.at = 9]} : Becomes(t, new)
    BY RenderDoes
  <1>3. /\ strayed' = strayed /\ strayed \in BOOLEAN /\ r \in Work
    BY DEF Render, TypeInv
  <1>4. new.op = "create" /\ new.saved = r.saved /\ new.at \in {8, 9} /\ work'[t] = new
    BY <1>1, <1>2, <1>3 DEF Work, OpAt, Becomes
  <1>5. Away(work[t])'
    <2>1. 9 \in DOMAIN Steps["create"] /\ Steps["create"][9] = "restore"
      BY StepsOfCreate
    <2>2. 9 >= new.at
      BY <1>4
    <2> QED
      BY <1>4, <2>1, <2>2 DEF Away
  <1>6. ~ strayed' => new.saved = Root
    BY <1>3, <1>4 DEF WayBack
  <1> QED
    BY <1>2, <1>3, <1>5, <1>6, WayKept

\* The end of a thread that has been back already.
LEMMA DoneWay ==
  ASSUME TypeInv, WayBack, NEW t \in Thread, Becomes(t, Idle), work[t].op = "sync",
         work[t].at \in {10, 11}, cwd' = cwd, env' = env, strayed' = strayed
  PROVE  WayBack'
  <1>1. ~ Away(work[t])
    <2>1. /\ work[t].op \in DOMAIN Steps
          /\ work[t].at \in 1 .. Len(Steps[work[t].op])
      BY AtWork, Ops
    <2>2. RestoreAt[work[t].op] = 9
      BY Lengths
    <2> QED
      BY <2>1, <2>2, AwayIs
  <1>2. Idle.saved = Root /\ strayed \in BOOLEAN
    BY IdleWork DEF TypeInv
  <1> QED
    BY <1>1, <1>2, WayKept

\* At its last steps a thread is not away any more, or goes on to restore.
LEMMA OpenEggWay ==
  ASSUME TypeInv, WayBack, NEW t \in Thread, OpenEgg(t)
  PROVE  WayBack'
  <1> DEFINE r == work[t]
  <1>1. /\ OpAt(r, "deploy", 3) \/ OpAt(r, "sync", 10)
        /\ \/ \E e \in Project : Becomes(t, [r EXCEPT !.used = <<e>>, !.at = r.at + 1])
           \/ OpAt(r, "deploy", 3) /\ Becomes(t, [r EXCEPT !.at = 6])
           \/ OpAt(r, "sync", 10) /\ Becomes(t, Idle)
    BY OpenEggDoes DEF TypeInv, DiskDir
  <1>2. r.op # "none" /\ r \in Work
    BY <1>1, AtWork, Ops DEF OpAt
  <1>3. r.at # RestoreAt[r.op] /\ r.op # "scan" /\ RestoreAt["deploy"] = 6
    <2>1. OpAt(r, "deploy", 3) \/ OpAt(r, "sync", 10)
      BY <1>1
    <2>2. r.op = "deploy" => r.at # RestoreAt[r.op]
      BY <2>1, Lengths DEF OpAt
    <2>3. r.op = "sync" => r.at # RestoreAt[r.op]
      BY <2>1, Lengths DEF OpAt
    <2> QED
      BY <2>1, <2>2, <2>3, Lengths DEF OpAt
  <1>4. ASSUME NEW e \in Project, Becomes(t, [r EXCEPT !.used = <<e>>, !.at = r.at + 1])
        PROVE  WayBack'
    <2>1. PICK new : new = [r EXCEPT !.used = <<e>>, !.at = r.at + 1]
      OBVIOUS
    <2>2. new.op = r.op /\ new.saved = r.saved /\ new.at = r.at + 1
      BY <1>2, <2>1 DEF Work
    <2> QED
      BY <1>2, <1>3, <1>4, <2>1, <2>2, OnTheWay DEF OpenEgg
  <1>5. CASE OpAt(r, "deploy", 3) /\ Becomes(t, [r EXCEPT !.at = 6])
    <2>1. PICK new : new = [r EXCEPT !.at = 6]
      OBVIOUS
    <2>2. new.op = r.op /\ new.saved = r.saved /\ new.at = RestoreAt[r.op]
      BY <1>2, <1>3, <1>5, <2>1 DEF Work, OpAt
    <2> QED
      BY <1>2, <1>3, <1>5, <2>1, <2>2, OnTheWay DEF OpenEgg
  <1>6. CASE OpAt(r, "sync", 10) /\ Becomes(t, Idle)
    BY <1>6, DoneWay DEF OpenEgg, OpAt
  <1> QED
    BY <1>1, <1>4, <1>5, <1>6

LEMMA PublishWay ==
  ASSUME TypeInv, WayBack, NEW t \in Thread, Publish(t)
  PROVE  WayBack'
  <1> DEFINE r == work[t]
  <1>1. \/ OpAt(r, "deploy", 5) /\ Becomes(t, [r EXCEPT !.at = 6])
        \/ OpAt(r, "sync", 11) /\ Becomes(t, Idle)
    BY PublishDoes
  <1>2. r.op # "none" /\ r \in Work
    BY <1>1, AtWork, Ops DEF OpAt
  <1>3. CASE OpAt(r, "deploy", 5) /\ Becomes(t, [r EXCEPT !.at = 6])
    <2>1. PICK new : new = [r EXCEPT !.at = 6]
      OBVIOUS
    <2>2. RestoreAt[r.op] = 6 /\ r.at # RestoreAt[r.op] /\ r.op # "scan"
      BY <1>3, Lengths DEF OpAt
    <2>3. new.op = r.op /\ new.saved = r.saved /\ new.at = RestoreAt[r.op]
      BY <1>2, <2>1, <2>2 DEF Work
    <2> QED
      BY <1>2, <1>3, <2>1, <2>2, <2>3, OnTheWay DEF Publish
  <1>4. CASE OpAt(r, "sync", 11) /\ Becomes(t, Idle)
    BY <1>4, DoneWay DEF Publish, OpAt
  <1> QED
    BY <1>1, <1>3, <1>4

LEMMA BeginWay ==
  ASSUME TypeInv, WayBack, NEW t \in Thread, NEW op \in DOMAIN Steps, NEW p \in Project,
         Begin(t, op, p)
  PROVE  WayBack'
  <1>1. PICK new : new = [Idle EXCEPT !.op = op, !.project = p, !.at = 1]
    OBVIOUS
  <1>2. work[t].op = "none" /\ Becomes(t, new) /\ new.saved = Root
    BY <1>1, BeginDoes, IdleWork DEF Work
  <1>3. cwd' = cwd /\ env' = env /\ strayed' = strayed /\ strayed \in BOOLEAN
    BY DEF Begin, TypeInv
  <1>4. ~ Away(work[t])
    BY <1>2 DEF Away
  <1> QED
    BY <1>2, <1>3, <1>4, WayKept

LEMMA InitWay == Init => WayBack
  BY IdleWork DEF Init, WayBack

LEMMA StepWay ==
  ASSUME TypeInv, WayBack, NEW t \in Thread, Step(t)
  PROVE  WayBack'
  <1>1. CASE Enter(t, "enter", work[t].dir)
    BY <1>1, EnterWay
  <1>2. CASE Enter(t, "enterHere", Append(cwd, work[t].project))
    BY <1>2, EnterWay
  <1> QED
    BY <1>1, <1>2, SaveWay, ResolveWay, QueryWay, RestoreWay, ReadDebugWay, LoadWay, RunWay,
       MakeDirWay, DescribeWay, CopyWay, PlaceWay, RenderWay, WriteSetupWay, PackWay,
       ClearEggWay, MoveEggWay, OpenEggWay, PublishWay
    DEF Step

LEMMA KillWay == Kill => WayBack'
  BY IdleWork DEF Kill, WayBack

LEMMA NextWay == TypeInv /\ WayBack /\ [Next]_workVars => WayBack'
  <1> SUFFICES ASSUME TypeInv, WayBack, [Next]_workVars PROVE WayBack'
    OBVIOUS
  <1>1. ASSUME NEW t \in Handler, NEW op \in Requests, NEW p \in Project, Begin(t, op, p)
        PROVE  WayBack'
    BY <1>1, Ops, BeginWay DEF Thread
  <1>2. ASSUME NEW t \in Debugger, NEW p \in Project, Begin(t, "debug", p)
        PROVE  WayBack'
    BY <1>2, Ops, BeginWay DEF Thread
  <1>3. ASSUME NEW t \in Thread, Step(t)
        PROVE  WayBack'
    BY <1>3, StepWay
  <1>4. CASE UNCHANGED workVars
    BY <1>4 DEF workVars, WayBack, Away
  <1> QED
    BY <1>1, <1>2, <1>3, <1>4, KillWay DEF Next

\* However the comings and goings overlap, a quiet process is back in the root, unless
\* somebody began while another was away or a scan met a directory without settings.
THEOREM QuietAtRootHolds == Spec => []QuietAtRoot
  <1>1. WayBack => QuietAtRoot
    BY DEF WayBack, QuietAtRoot, Away
  <1>2. Spec => [](TypeInv /\ WayBack)
    BY InitTypes, NextTypes, InitWay, NextWay, PTL DEF Spec
  <1> QED
    BY <1>1, <1>2, PTL

-----------------------------------------------------------------------------
(* Creations: nobody but the one request changes the disk.                 *)

LEMMA OthersSame ==
  ASSUME TypeInv, NEW t \in Thread, NEW r, Becomes(t, r), NEW u \in Thread, u # t
  PROVE  /\ work'[u].op = work[u].op /\ work'[u].at = work[u].at
         /\ work'[u].project = work[u].project /\ work'[u].saved = work[u].saved
         /\ work'[u].path = work[u].path /\ work'[u].dir = work[u].dir
         /\ work'[u].used = work[u].used
         /\ work[u].op # "none" /\ ~ work'[u].disturbed =>
               ~ work[u].disturbed /\ cwd' = cwd /\ env' \in {env, Root}
         /\ work[u].disturbed => work'[u].disturbed
  <1>1. work[u] \in Work /\ Noticed(u)
    BY DEF Becomes, TypeInv
  <1> QED
    BY <1>1 DEF Noticed, Work

LEMMA OthersCreation ==
  ASSUME TypeInv, NEW t \in Thread, NEW r, Becomes(t, r), NEW u \in Thread, u # t,
         Creation(work[u]), t \in Handler \/ (disk' = disk /\ halved' = halved)
  PROVE  Creation(work[u])'
  <1>1. CASE work[u].op # "create"
    BY <1>1, OthersSame DEF Creation
  <1>2. CASE work[u].op = "create"
    <2>1. u \in Handler
      BY <1>2, Ops DEF TypeInv
    <2>2. disk' = disk /\ halved' = halved
      BY <2>1, OneRequestAssumption
    <2>3. HasFiles(work[u].dir, {"copied"})' <=> HasFiles(work[u].dir, {"copied"})
      BY <2>2, OthersSame DEF HasFiles
    <2> QED
      BY <1>2, <2>2, Ops, OthersSame DEF Creation, HasFiles
  <1> QED
    BY <1>1, <1>2

\* A step keeps what is said of creations if t keeps it and the disk is in order.
LEMMA CreateKept ==
  ASSUME TypeInv, CreateInv, NEW t \in Thread, NEW r, Becomes(t, r),
         t \in Handler \/ (disk' = disk /\ halved' = halved),
         Creation(work[t])', HalfMadeOnlyIfBroken'
  PROVE  CreateInv'
  <1>1. ASSUME NEW u \in Thread
        PROVE  Creation(work[u])'
    <2>1. CASE u = t
      BY <2>1
    <2>2. CASE u # t
      BY <2>2, OthersCreation DEF CreateInv
    <2> QED
      BY <2>1, <2>2
  <1> QED
    BY <1>1 DEF CreateInv

\* A directory stays half made while the creation goes on.
LEMMA HalfKept ==
  ASSUME TypeInv, NEW t \in Thread, NEW r, Becomes(t, r), halved \subseteq halved',
         work[t].op = "create" =>
            r.op = "create" /\ {work[t].used, work[t].dir} \ {Root} \subseteq {r.used, r.dir},
         NEW d, d # Root, HalfMade(d)
  PROVE  HalfMade(d)'
  <1>1. CASE d \in halved
    BY <1>1 DEF HalfMade
  <1>2. ASSUME NEW u \in Handler, work[u].op = "create", d \in {work[u].used, work[u].dir}
        PROVE  HalfMade(d)'
    <2>1. u \in Thread
      BY DEF Thread
    <2>2. CASE u = t
      <3>1. work'[t] = r
        BY DEF Becomes
      <3> QED
        BY <1>2, <2>2, <3>1 DEF HalfMade
    <2>3. CASE u # t
      BY <1>2, <2>1, <2>3, OthersSame DEF HalfMade
    <2> QED
      BY <2>2, <2>3
  <1> QED
    BY <1>1, <1>2 DEF HalfMade

FilesSame == DOMAIN disk' = DOMAIN disk /\ \A d \in DOMAIN disk : disk'[d].files = disk[d].files

\* The steps of other handlers and of debug runs.
LEMMA NotCreating ==
  ASSUME TypeInv, CreateInv, NEW t \in Thread, NEW r, Becomes(t, r),
         work[t].op # "create", r.op # "create", FilesSame, halved' = halved,
         t \in Handler \/ disk' = disk
  PROVE  CreateInv'
  <1>1. Creation(work[t])'
    BY DEF Becomes, Creation
  <1>2. ASSUME NEW d \in DOMAIN disk', disk'[d].files # "whole"
        PROVE  HalfMade(d)'
    <2>1. d \in DOMAIN disk /\ disk[d].files # "whole" /\ d # Root
      BY <1>2 DEF FilesSame, TypeInv
    <2> QED
      BY <2>1, HalfKept DEF CreateInv, HalfMadeOnlyIfBroken
  <1>3. HalfMadeOnlyIfBroken'
    BY <1>2 DEF HalfMadeOnlyIfBroken
  <1> QED
    BY <1>1, <1>3, CreateKept

\* A step of a creation that changes no files.
LEMMA Creating ==
  ASSUME TypeInv, CreateInv, NEW t \in Thread, NEW r, Becomes(t, r),
         work[t].op = "create", r.op = "create", FilesSame, halved \subseteq halved',
         {work[t].used, work[t].dir} \ {Root} \subseteq {r.used, r.dir},
         Creation(work[t])'
  PROVE  CreateInv'
  <1>1. ASSUME NEW d \in DOMAIN disk', disk'[d].files # "whole"
        PROVE  HalfMade(d)'
    <2>1. d \in DOMAIN disk /\ disk[d].files # "whole" /\ d # Root
      BY <1>1 DEF FilesSame, TypeInv
    <2> QED
      BY <2>1, HalfKept DEF CreateInv, HalfMadeOnlyIfBroken
  <1>2. HalfMadeOnlyIfBroken'
    BY <1>1 DEF HalfMadeOnlyIfBroken
  <1>3. t \in Handler
    BY Ops DEF TypeInv
  <1> QED
    BY <1>2, <1>3, CreateKept

LEMMA SaveCreate ==
  ASSUME TypeInv, CreateInv, NEW t \in Thread, Save(t)
  PROVE  CreateInv'
  <1> DEFINE r == work[t]
  <1>1. PICK new : /\ new = [r EXCEPT !.saved = cwd, !.disturbed = FALSE, !.at = r.at + 1]
                   /\ Becomes(t, new)
    BY SaveDoes
  <1>2. /\ disk' = disk /\ halved' = halved /\ cwd' = cwd /\ r \in Work
        /\ r.op = "create" => r.at = 1
    BY SaveDoes DEF Save, TypeInv, OpAt
  <1>3. new.op = r.op /\ new.at = r.at + 1 /\ new.used = r.used /\ new.dir = r.dir
    BY <1>1, <1>2 DEF Work
  <1>4. FilesSame
    BY <1>2 DEF FilesSame
  <1>5. CASE r.op # "create"
    BY <1>1, <1>2, <1>3, <1>4, <1>5, NotCreating
  <1>6. CASE r.op = "create"
    <2>1. r.used = Root /\ r.dir = Root
      BY <1>2, <1>6 DEF CreateInv, Creation
    <2>2. Creation(work[t])'
      BY <1>1, <1>2, <1>3, <1>6, <2>1 DEF Creation, Becomes
    <2> QED
      BY <1>1, <1>2, <1>3, <1>4, <1>6, <2>1, <2>2, Creating
  <1> QED
    BY <1>5, <1>6

LEMMA QueryCreate ==
  ASSUME TypeInv, CreateInv, NEW t \in Thread, Query(t)
  PROVE  CreateInv'
  <1> DEFINE r == work[t]
  <1>1. PICK new \in {[r EXCEPT !.at = r.at + 1], [r EXCEPT !.at = RestoreAt[r.op]]} :
           Becomes(t, new)
    BY QueryDoes
  <1>2. /\ disk' = disk /\ halved' = halved /\ cwd' = cwd /\ r \in Work
        /\ r.op = "create" => r.at \in {2, 8}
    BY QueryDoes DEF Query, TypeInv, OpAt
  <1>3. /\ new.op = r.op /\ new.at \in {r.at + 1, RestoreAt[r.op]} /\ new.project = r.project
        /\ new.used = r.used /\ new.dir = r.dir /\ new.disturbed = r.disturbed
    BY <1>1, <1>2 DEF Work
  <1>4. FilesSame
    BY <1>2 DEF FilesSame
  <1>5. CASE r.op # "create"
    BY <1>1, <1>2, <1>3, <1>4, <1>5, NotCreating
  <1>6. CASE r.op = "create"
    <2>1. Creation(r) /\ work'[t] = new /\ RestoreAt[r.op] = 9
      BY <1>1, <1>6, Lengths DEF CreateInv, Becomes
    <2>2. Creation(work[t])'
      <3>1. CASE r.at = 2
        <4>1. r.used = Root /\ r.dir = Root /\ new.at \in {3, 9}
          BY <1>3, <1>6, <2>1, <3>1 DEF Creation
        <4> QED
          BY <1>3, <1>6, <2>1, <4>1 DEF Creation
      <3>2. CASE r.at = 8
        <4>1. new.at = 9
          BY <1>3, <2>1, <3>2
        <4>2. ~ r.disturbed => /\ r.used \in {Root, Append(cwd, r.project)}
                               /\ r.dir \in {Root, r.used} /\ HasFiles(r.dir, {"whole"})
          BY <1>6, <2>1, <3>2 DEF Creation
        <4>3. ~ r.disturbed => r.dir = r.used
          BY <4>2 DEF HasFiles, TypeInv
        <4> QED
          BY <1>2, <1>3, <1>6, <2>1, <4>1, <4>2, <4>3 DEF Creation, HasFiles
      <3> QED
        BY <1>2, <1>6, <3>1, <3>2
    <2> QED
      BY <1>1, <1>2, <1>3, <1>4, <1>6, <2>2, Creating
  <1> QED
    BY <1>5, <1>6

LEMMA DescribeCreate ==
  ASSUME TypeInv, CreateInv, NEW t \in Thread, Describe(t)
  PROVE  CreateInv'
  <1> DEFINE r == work[t]
  <1>1. PICK new \in {[r EXCEPT !.at = r.at + 1], [r EXCEPT !.at = RestoreAt[r.op]]} :
           /\ Becomes(t, new)
           /\ \/ new.at = r.at + 1 /\ halved' = halved
              \/ new.at = RestoreAt[r.op] /\ halved' = halved \cup {r.used}
    <2>1. r \in Work
      BY DEF TypeInv
    <2>2. /\ [r EXCEPT !.at = r.at + 1].at = r.at + 1
          /\ [r EXCEPT !.at = RestoreAt[r.op]].at = RestoreAt[r.op]
      BY <2>1 DEF Work
    <2> QED
      BY <2>2, DescribeDoes
  <1>2. /\ disk' = disk /\ cwd' = cwd /\ r \in Work /\ OpAt(r, "create", 4)
    BY DescribeDoes DEF Describe, TypeInv
  <1>3. /\ new.op = r.op /\ new.project = r.project
        /\ new.used = r.used /\ new.dir = r.dir /\ new.disturbed = r.disturbed
    BY <1>1, <1>2 DEF Work
  <1>4. FilesSame /\ halved \subseteq halved'
    BY <1>1, <1>2 DEF FilesSame
  <1>5. Creation(r) /\ work'[t] = new /\ RestoreAt[r.op] = 9
    BY <1>1, <1>2, Lengths DEF CreateInv, Becomes, OpAt
  <1>6. r.dir = Root /\ r.used # Root
    BY <1>2, <1>5 DEF Creation, OpAt
  <1>7. Creation(work[t])'
    <2>1. CASE new.at = 5
      BY <1>2, <1>3, <1>5, <1>6, <2>1 DEF Creation, OpAt
    <2>2. CASE new.at = 9 /\ halved' = halved \cup {r.used}
      BY <1>2, <1>3, <1>5, <1>6, <2>2 DEF Creation, OpAt
    <2> QED
      BY <1>1, <1>2, <1>5, <2>1, <2>2 DEF OpAt
  <1> QED
    BY <1>1, <1>2, <1>3, <1>4, <1>7, Creating DEF OpAt

LEMMA MakeDirCreate ==
  ASSUME TypeInv, CreateInv, NEW t \in Thread, MakeDir(t)
  PROVE  CreateInv'
  <1> DEFINE r == work[t]
  <1>0. PICK d : d = Append(cwd, r.project)
    OBVIOUS
  <1> DEFINE new == [r EXCEPT !.used = d, !.at = r.at + 1]
             back == [r EXCEPT !.at = RestoreAt[r.op]]
  <1>1. /\ OpAt(r, "create", 3)
        /\ \/ d \notin DOMAIN disk /\ Made(d) /\ Becomes(t, new)
           \/ disk' = disk /\ Becomes(t, back)
    BY <1>0, MakeDirDoes
  <1>2. /\ halved' = halved /\ cwd' = cwd /\ r \in Work /\ d \in Dir \ {Root}
        /\ t \in Handler
    BY <1>0, <1>1, AtWork, PlacesDirs, Below, Ops DEF MakeDir, TypeInv, OpAt
  <1>3. r.op = "create" /\ r.at = 3 /\ r.used = Root /\ r.dir = Root
    BY <1>0, <1>1 DEF CreateInv, Creation, OpAt
  <1>4. CASE disk' = disk /\ Becomes(t, back)
    <2>1. /\ back.op = "create" /\ back.at = 9 /\ back.project = r.project
          /\ back.used = Root /\ back.dir = Root /\ back.disturbed = r.disturbed
      BY <1>2, <1>3, Lengths DEF Work
    <2>2. work'[t] = back
      BY <1>4 DEF Becomes
    <2> HIDE DEF back
    <2>3. Creation(work[t])'
      BY <2>1, <2>2 DEF Creation
    <2>4. FilesSame
      BY <1>4 DEF FilesSame
    <2> QED
      BY <1>2, <1>3, <1>4, <2>1, <2>3, <2>4, Creating
  <1>5. CASE d \notin DOMAIN disk /\ Made(d) /\ Becomes(t, new)
    <2>1. /\ new.op = "create" /\ new.at = 4 /\ new.project = r.project
          /\ new.used = d /\ new.dir = Root /\ new.disturbed = r.disturbed
      BY <1>2, <1>3 DEF Work
    <2>2. work'[t] = new /\ Becomes(t, new)
      BY <1>5 DEF Becomes
    <2> HIDE DEF new
    <2>3. Creation(work[t])'
      BY <1>0, <1>2, <2>1, <2>2 DEF Creation
    <2>4. /\ DOMAIN disk' = DOMAIN disk \cup {d}
          /\ \A e \in DOMAIN disk : disk'[e] = disk[e]
      BY <1>2, <1>5, MakeDirDisk
    <2>5. HalfMade(d)'
      BY <1>2, <2>1, <2>2 DEF HalfMade
    <2>6. ASSUME NEW e \in DOMAIN disk', disk'[e].files # "whole", e # d
          PROVE  HalfMade(e)'
      <3>1. e \in DOMAIN disk /\ disk[e].files # "whole" /\ e # Root
        BY <2>4, <2>6 DEF TypeInv
      <3> QED
        BY <1>2, <1>3, <2>1, <2>2, <3>1, HalfKept DEF CreateInv, HalfMadeOnlyIfBroken
    <2>7. HalfMadeOnlyIfBroken'
      BY <2>5, <2>6 DEF HalfMadeOnlyIfBroken
    <2> QED
      BY <1>2, <2>2, <2>3, <2>7, CreateKept
  <1> QED
    BY <1>1, <1>4, <1>5

LEMMA CopyCreate ==
  ASSUME TypeInv, CreateInv, NEW t \in Thread, Copy(t)
  PROVE  CreateInv'
  <1> DEFINE r == work[t]
  <1>0. PICK d : d = Append(cwd, r.project)
    OBVIOUS
  <1> DEFINE new == [r EXCEPT !.dir = d, !.at = r.at + 1]
             back == [r EXCEPT !.at = RestoreAt[r.op]]
  <1>1. /\ OpAt(r, "create", 5)
        /\ \/ disk' = Copied(d, "copied") /\ halved' = halved /\ Becomes(t, new)
           \/ /\ disk' = disk \/ \E files \in Files : disk' = Copied(d, files)
              /\ halved' = halved \cup {r.used, d} /\ Becomes(t, back)
    BY <1>0, CopyDoes
  <1>2. /\ cwd' = cwd /\ r \in Work /\ d \in Dir \ {Root} /\ t \in Handler
        /\ r.op # "none"
    BY <1>0, <1>1, AtWork, PlacesDirs, Below, Ops DEF Copy, TypeInv, OpAt
  <1>3. /\ r.op = "create" /\ r.at = 5 /\ r.used # Root /\ r.dir = Root
        /\ ~ r.disturbed => r.used = d
    BY <1>0, <1>1 DEF CreateInv, Creation, OpAt
  <1>4. CASE disk' = Copied(d, "copied") /\ halved' = halved /\ Becomes(t, new)
    <2>1. /\ new.op = "create" /\ new.at = 6 /\ new.project = r.project
          /\ new.used = r.used /\ new.dir = d /\ new.disturbed = r.disturbed
      BY <1>2, <1>3 DEF Work
    <2>2. work'[t] = new /\ Becomes(t, new)
      BY <1>4 DEF Becomes
    <2> HIDE DEF new
    <2>3. /\ DOMAIN disk' = DOMAIN disk \cup {d} /\ disk'[d].files = "copied"
          /\ \A e \in DOMAIN disk \ {d} : disk'[e] = disk[e]
      BY <1>0, <1>2, <1>4, CopyDisk DEF Files
    <2>4. Creation(work[t])'
      <3>1. HasFiles(d, {"copied"})'
        BY <2>3 DEF HasFiles
      <3>2. /\ ~ new.disturbed => new.used = d
            /\ Append(cwd', new.project) = d
        BY <1>0, <1>2, <1>3, <2>1
      <3> QED
        BY <1>3, <2>1, <2>2, <3>1, <3>2 DEF Creation
    <2>5. HalfMade(d)'
      BY <1>2, <2>1, <2>2 DEF HalfMade
    <2>6. ASSUME NEW e \in DOMAIN disk', disk'[e].files # "whole", e # d
          PROVE  HalfMade(e)'
      <3>1. e \in DOMAIN disk /\ disk[e].files # "whole" /\ e # Root
        BY <2>3, <2>6 DEF TypeInv
      <3> QED
        BY <1>2, <1>3, <1>4, <2>1, <2>2, <3>1, HalfKept DEF CreateInv, HalfMadeOnlyIfBroken
    <2>7. HalfMadeOnlyIfBroken'
      BY <2>5, <2>6 DEF HalfMadeOnlyIfBroken
    <2> QED
      BY <1>2, <2>2, <2>4, <2>7, CreateKept
  <1>5. CASE /\ disk' = disk \/ \E files \in Files : disk' = Copied(d, files)
             /\ halved' = halved \cup {r.used, d} /\ Becomes(t, back)
    <2>1. /\ back.op = "create" /\ back.at = 9 /\ back.project = r.project
          /\ back.used = r.used /\ back.dir = Root /\ back.disturbed = r.disturbed
      BY <1>2, <1>3, Lengths DEF Work
    <2>2. work'[t] = back /\ Becomes(t, back)
      BY <1>5 DEF Becomes
    <2> HIDE DEF back
    <2>3. DOMAIN disk' \subseteq DOMAIN disk \cup {d}
          /\ \A e \in DOMAIN disk \ {d} : e \in DOMAIN disk' /\ disk'[e] = disk[e]
      <3>1. CASE disk' = disk
        BY <3>1
      <3>2. ASSUME NEW files \in Files, disk' = Copied(d, files)
            PROVE  /\ DOMAIN disk' = DOMAIN disk \cup {d}
                   /\ \A e \in DOMAIN disk \ {d} : disk'[e] = disk[e]
        BY <1>0, <1>2, <3>2, CopyDisk
      <3> QED
        BY <1>5, <3>1, <3>2
    <2>4. Creation(work[t])'
      <3>1. r.used \in halved' /\ d \in halved'
        BY <1>5
      <3>2. ~ back.disturbed => back.used = Append(cwd', back.project)
        BY <1>0, <1>2, <1>3, <2>1
      <3> QED
        BY <2>1, <2>2, <3>1, <3>2 DEF Creation
    <2>5. HalfMade(d)'
      BY <1>5 DEF HalfMade
    <2>6. ASSUME NEW e \in DOMAIN disk', disk'[e].files # "whole", e # d
          PROVE  HalfMade(e)'
      <3>1. e \in DOMAIN disk /\ disk[e].files # "whole" /\ e # Root
        BY <2>3, <2>6 DEF TypeInv
      <3> QED
        BY <1>2, <1>3, <1>5, <2>1, <2>2, <3>1, HalfKept DEF CreateInv, HalfMadeOnlyIfBroken
    <2>7. HalfMadeOnlyIfBroken'
      BY <2>5, <2>6 DEF HalfMadeOnlyIfBroken
    <2> QED
      BY <1>2, <2>2, <2>4, <2>7, CreateKept
  <1> QED
    BY <1>1, <1>4, <1>5

LEMMA PlaceCreate ==
  ASSUME TypeInv, CreateInv, NEW t \in Thread, Place(t)
  PROVE  CreateInv'
  <1> DEFINE r == work[t]
             new == [r EXCEPT !.at = r.at + 1]
             back == [r EXCEPT !.at = RestoreAt[r.op]]
  <1>1. PICK from, to : from = Append(cwd, r.project) /\ to = r.dir
    OBVIOUS
  <1>2. /\ OpAt(r, "create", 6)
        /\ \/ Placed(from, to) /\ halved' = halved /\ Becomes(t, new)
           \/ disk' = disk /\ halved' = halved \cup {r.used, to} /\ Becomes(t, back)
    BY <1>1, PlaceDoes
  <1>3. /\ cwd' = cwd /\ r \in Work /\ t \in Handler
        /\ to \in DOMAIN disk /\ to # Root
    BY <1>1, <1>2, Ops DEF Place, TypeInv, WorkTypes, Filling, Within, OpAt
  <1>4. /\ r.op = "create" /\ r.at = 6 /\ r.used # Root
        /\ ~ r.disturbed => r.used = from /\ to = from /\ HasFiles(from, {"copied"})
    <2>1. r.op = "create" /\ r.at = 6
      BY <1>2 DEF OpAt
    <2>2. Creation(r)
      BY DEF CreateInv
    <2>3. r.used # Root
      BY <2>1, <2>2 DEF Creation
    <2>4. ASSUME ~ r.disturbed
          PROVE  r.used = from /\ to = from /\ HasFiles(to, {"copied"})
      <3>1. /\ r.used \in {Root, from} /\ to \in {Root, r.used} /\ HasFiles(to, {"copied"})
        BY <1>1, <2>1, <2>2, <2>4 DEF Creation
      <3> QED
        BY <1>3, <2>3, <3>1
    <2> QED
      BY <2>1, <2>3, <2>4
  <1>5. CASE disk' = disk /\ halved' = halved \cup {r.used, to} /\ Becomes(t, back)
    <2>1. /\ back.op = "create" /\ back.at = 9 /\ back.project = r.project
          /\ back.used = r.used /\ back.dir = to /\ back.disturbed = r.disturbed
      BY <1>1, <1>3, <1>4, Lengths DEF Work
    <2>2. work'[t] = back
      BY <1>5 DEF Becomes
    <2> HIDE DEF back
    <2>3. /\ r.used \in halved' /\ to \in halved'
          /\ ~ back.disturbed => back.used = Append(cwd', back.project) /\ to = back.used
      BY <1>1, <1>3, <1>4, <1>5, <2>1
    <2>4. Creation(work[t])'
      BY <2>1, <2>2, <2>3 DEF Creation
    <2>5. FilesSame
      BY <1>5 DEF FilesSame
    <2> QED
      BY <1>1, <1>3, <1>4, <1>5, <2>1, <2>4, <2>5, Creating
  <1>6. CASE Placed(from, to) /\ halved' = halved /\ Becomes(t, new)
    <2>1. /\ new.op = "create" /\ new.at = 7 /\ new.project = r.project
          /\ new.used = r.used /\ new.dir = to /\ new.disturbed = r.disturbed
      BY <1>1, <1>3, <1>4 DEF Work
    <2>2. work'[t] = new /\ Becomes(t, new)
      BY <1>6 DEF Becomes
    <2> HIDE DEF new
    <2>3. /\ from \in DOMAIN disk /\ disk[from].files = "copied"
          /\ DOMAIN disk' = DOMAIN disk /\ disk'[to].files = "placed"
          /\ \A e \in DOMAIN disk \ {from, to} : disk'[e] = disk[e]
      BY <1>3, <1>6, PlaceDisk
    <2>4. Creation(work[t])'
      <3>1. HasFiles(to, {"placed"})'
        BY <1>3, <2>3 DEF HasFiles
      <3>2. ~ new.disturbed => new.used = Append(cwd', new.project) /\ to = new.used
        BY <1>1, <1>3, <1>4, <2>1
      <3> QED
        BY <1>4, <2>1, <2>2, <3>1, <3>2 DEF Creation
    <2>5. ASSUME NEW e \in DOMAIN disk', disk'[e].files # "whole"
          PROVE  HalfMade(e)'
      <3>1. CASE e = to
        BY <1>3, <2>1, <2>2, <3>1 DEF HalfMade
      <3>2. CASE e # to
        <4>1. e \in DOMAIN disk /\ disk[e].files # "whole" /\ e # Root
          BY <2>3, <2>5, <3>2 DEF TypeInv
        <4> QED
          BY <1>1, <1>3, <1>4, <1>6, <2>1, <2>2, <4>1, HalfKept DEF CreateInv, HalfMadeOnlyIfBroken
      <3> QED
        BY <3>1, <3>2
    <2>6. HalfMadeOnlyIfBroken'
      BY <2>5 DEF HalfMadeOnlyIfBroken
    <2> QED
      BY <1>3, <1>6, <2>2, <2>4, <2>6, CreateKept
  <1> QED
    BY <1>2, <1>5, <1>6

LEMMA RenderCreate ==
  ASSUME TypeInv, CreateInv, NEW t \in Thread, Render(t)
  PROVE  CreateInv'
  <1> DEFINE r == work[t]
             new == [r EXCEPT !.at = 8]
             back == [r EXCEPT !.at = 9]
  <1>1. PICK d, to : d = Append(cwd, r.project) /\ to = r.dir
    OBVIOUS
  <1>2. /\ OpAt(r, "create", 7)
        /\ \/ /\ HasFiles(d, {"placed", "whole"})
              /\ disk' = [disk EXCEPT ![d].files = "whole"]
              /\ cwd' = Front(to) /\ halved' = halved /\ Becomes(t, new)
           \/ /\ disk' = disk /\ cwd' = cwd /\ halved' = halved \cup {r.used, to}
              /\ Becomes(t, back)
    BY <1>1, RenderDoes
  <1>3. /\ r \in Work /\ t \in Handler
        /\ to \in DOMAIN disk /\ to # Root /\ Front(d) = cwd
    <2>1. r.project \in Project
      BY <1>2, AtWork, Ops DEF OpAt
    <2>2. Front(d) = cwd
      BY <1>1, <2>1, PlacesDirs, Below
    <2> QED
      BY <1>1, <1>2, <2>2, Ops DEF Render, TypeInv, WorkTypes, Filling, Within, OpAt
  <1>4. /\ r.op = "create" /\ r.at = 7 /\ r.used # Root
        /\ ~ r.disturbed => r.used = d /\ to = d /\ HasFiles(d, {"placed"})
    <2>1. r.op = "create" /\ r.at = 7
      BY <1>2 DEF OpAt
    <2>2. Creation(r)
      BY DEF CreateInv
    <2>3. r.used # Root
      BY <2>1, <2>2 DEF Creation
    <2>4. ASSUME ~ r.disturbed
          PROVE  r.used = d /\ to = d /\ HasFiles(to, {"placed"})
      <3>1. /\ r.used \in {Root, d} /\ to \in {Root, r.used} /\ HasFiles(to, {"placed"})
        BY <1>1, <2>1, <2>2, <2>4 DEF Creation
      <3> QED
        BY <1>3, <2>3, <3>1
    <2> QED
      BY <2>1, <2>3, <2>4
  <1>5. CASE /\ disk' = disk /\ cwd' = cwd /\ halved' = halved \cup {r.used, to}
             /\ Becomes(t, back)
    <2>1. /\ back.op = "create" /\ back.at = 9 /\ back.project = r.project
          /\ back.used = r.used /\ back.dir = to /\ back.disturbed = r.disturbed
      BY <1>1, <1>3, <1>4 DEF Work
    <2>2. work'[t] = back
      BY <1>5 DEF Becomes
    <2> HIDE DEF back
    <2>3. /\ r.used \in halved' /\ to \in halved'
          /\ ~ back.disturbed => back.used = Append(cwd', back.project) /\ to = back.used
      BY <1>1, <1>4, <1>5, <2>1
    <2>4. Creation(work[t])'
      BY <2>1, <2>2, <2>3 DEF Creation
    <2>5. FilesSame
      BY <1>5 DEF FilesSame
    <2> QED
      BY <1>1, <1>3, <1>4, <1>5, <2>1, <2>4, <2>5, Creating
  <1>6. CASE /\ HasFiles(d, {"placed", "whole"})
             /\ disk' = [disk EXCEPT ![d].files = "whole"]
             /\ cwd' = Front(to) /\ halved' = halved /\ Becomes(t, new)
    <2>1. /\ new.op = "create" /\ new.at = 8 /\ new.project = r.project
          /\ new.used = r.used /\ new.dir = to /\ new.disturbed = r.disturbed
      BY <1>1, <1>3, <1>4 DEF Work
    <2>2. work'[t] = new /\ Becomes(t, new)
      BY <1>6 DEF Becomes
    <2> HIDE DEF new
    <2>3. d \in DOMAIN disk
      BY <1>6 DEF HasFiles
    <2>4. /\ DOMAIN disk' = DOMAIN disk /\ disk'[d].files = "whole"
          /\ \A e \in DOMAIN disk \ {d} : disk'[e] = disk[e]
      BY <1>6, <2>3, RenderDisk
    <2>5. Creation(work[t])'
      <3>1. HasFiles(d, {"whole"})'
        BY <2>3, <2>4 DEF HasFiles
      <3>2. ~ new.disturbed => new.used = Append(cwd', new.project) /\ new.dir = d /\ d = new.used
        BY <1>1, <1>3, <1>4, <1>6, <2>1
      <3> QED
        BY <1>4, <2>1, <2>2, <3>1, <3>2 DEF Creation
    <2>6. ASSUME NEW e \in DOMAIN disk', disk'[e].files # "whole"
          PROVE  HalfMade(e)'
      <3>1. e \in DOMAIN disk /\ disk[e].files # "whole" /\ e # Root
        BY <2>4, <2>6 DEF TypeInv
      <3> QED
        BY <1>1, <1>3, <1>4, <1>6, <2>1, <2>2, <3>1, HalfKept DEF CreateInv, HalfMadeOnlyIfBroken
    <2>7. HalfMadeOnlyIfBroken'
      BY <2>6 DEF HalfMadeOnlyIfBroken
    <2> QED
      BY <1>3, <2>2, <2>5, <2>7, CreateKept
  <1> QED
    BY <1>2, <1>5, <1>6

\* What a creation that nobody disturbed leaves when it ends is whole, or was conceded.
LEMMA RestoreCreate ==
  ASSUME TypeInv, CreateInv, NEW t \in Thread, Restore(t)
  PROVE  CreateInv'
  <1> DEFINE r == work[t]
  <1>1. PICK new : new = (IF r.op = "sync" THEN [r EXCEPT !.at = 10] ELSE Idle) /\ Becomes(t, new)
    BY RestoreDoes
  <1>2. /\ disk' = disk /\ r \in Work /\ r.op # "none"
        /\ halved' = IF r.op = "create" /\ r.disturbed
                     THEN halved \cup {r.used, r.dir} ELSE halved
        /\ r.op = "create" => r.at = 9
    BY RestoreDoes, Ops DEF Restore, TypeInv, OpAt, At
  <1>3. FilesSame
    BY <1>2 DEF FilesSame
  <1>4. new.op # "create"
    BY <1>1, <1>2, IdleWork DEF Work
  <1>5. CASE r.op # "create"
    BY <1>1, <1>2, <1>3, <1>4, <1>5, NotCreating
  <1>6. CASE r.op = "create"
    <2>1. t \in Handler
      BY <1>6, Ops DEF TypeInv
    <2>2. Creation(work[t])'
      BY <1>1, <1>4 DEF Creation, Becomes
    <2>3. ASSUME NEW d \in DOMAIN disk', disk'[d].files # "whole"
          PROVE  HalfMade(d)'
      <3>1. d \in DOMAIN disk /\ d # Root /\ disk[d].files # "whole" /\ HalfMade(d)
        BY <1>2, <2>3 DEF TypeInv, CreateInv, HalfMadeOnlyIfBroken
      <3>2. CASE d \in halved
        BY <1>2, <3>2 DEF HalfMade
      <3>3. ASSUME NEW u \in Handler, work[u].op = "create", d \in {work[u].used, work[u].dir}
            PROVE  HalfMade(d)'
        <4>1. u = t
          BY <2>1, OneRequestAssumption
        <4>2. CASE r.disturbed
          BY <1>2, <1>6, <3>3, <4>1, <4>2 DEF HalfMade
        <4>3. CASE ~ r.disturbed
          <5>1. d \in halved \/ HasFiles(d, {"whole"})
            BY <1>2, <1>6, <3>1, <3>3, <4>1, <4>3 DEF CreateInv, Creation
          <5> QED
            BY <1>2, <3>1, <5>1 DEF HalfMade, HasFiles
        <4> QED
          BY <4>2, <4>3
      <3> QED
        BY <3>1, <3>2, <3>3 DEF HalfMade
    <2>4. HalfMadeOnlyIfBroken'
      BY <2>3 DEF HalfMadeOnlyIfBroken
    <2> QED
      BY <1>1, <2>1, <2>2, <2>4, CreateKept
  <1> QED
    BY <1>5, <1>6

LEMMA BeginCreate ==
  ASSUME TypeInv, CreateInv, NEW t \in Thread, NEW op \in DOMAIN Steps, NEW p \in Project,
         Begin(t, op, p)
  PROVE  CreateInv'
  <1>1. PICK new : new = [Idle EXCEPT !.op = op, !.project = p, !.at = 1] /\ Becomes(t, new)
    BY BeginDoes
  <1>2. /\ new.at = 1 /\ new.used = Root /\ new.dir = Root
        /\ work'[t] = new /\ work[t].op = "none"
    BY <1>1, BeginDoes, IdleWork DEF Work, Becomes
  <1>3. disk' = disk /\ halved' = halved
    BY DEF Begin
  <1>4. Creation(work[t])'
    BY <1>2 DEF Creation
  <1>5. ASSUME NEW d \in DOMAIN disk', disk'[d].files # "whole"
        PROVE  HalfMade(d)'
    <2>1. d \in DOMAIN disk /\ disk[d].files # "whole" /\ d # Root
      BY <1>3, <1>5 DEF TypeInv
    <2> QED
      BY <1>1, <1>2, <1>3, <2>1, HalfKept DEF CreateInv, HalfMadeOnlyIfBroken
  <1>6. HalfMadeOnlyIfBroken'
    BY <1>5 DEF HalfMadeOnlyIfBroken
  <1> QED
    BY <1>1, <1>3, <1>4, <1>6, CreateKept

LEMMA ReadDebugCreate ==
  ASSUME TypeInv, CreateInv, NEW t \in Thread, ReadDebug(t)
  PROVE  CreateInv'
  <1> DEFINE r == work[t]
  <1>1. PICK new \in {[r EXCEPT !.used = cwd, !.at = r.at + 1]} :
           (OpAt(r, "show", 3)) /\ Becomes(t, new)
    BY ReadDebugDoes
  <1>2. r \in Work /\ disk' = disk /\ halved' = halved
    BY DEF ReadDebug, TypeInv
  <1>3. r.op # "create" /\ new.op = r.op
    BY <1>1, <1>2 DEF OpAt, Work
  <1>4. FilesSame
    BY <1>2 DEF FilesSame
  <1> QED
    BY <1>1, <1>2, <1>3, <1>4, NotCreating

LEMMA RunCreate ==
  ASSUME TypeInv, CreateInv, NEW t \in Thread, Run(t)
  PROVE  CreateInv'
  <1> DEFINE r == work[t]
  <1>1. PICK new \in {[r EXCEPT !.used = Settings, !.at = r.at + 1]} :
           (OpAt(r, "debug", 5)) /\ Becomes(t, new)
    BY RunDoes
  <1>2. r \in Work /\ disk' = disk /\ halved' = halved
    BY DEF Run, TypeInv
  <1>3. r.op # "create" /\ new.op = r.op
    BY <1>1, <1>2 DEF OpAt, Work
  <1>4. FilesSame
    BY <1>2 DEF FilesSame
  <1> QED
    BY <1>1, <1>2, <1>3, <1>4, NotCreating

LEMMA PackCreate ==
  ASSUME TypeInv, CreateInv, NEW t \in Thread, Pack(t)
  PROVE  CreateInv'
  <1> DEFINE r == work[t]
  <1>1. PICK new \in {[r EXCEPT !.used = cwd, !.at = r.at + 1],
                      [r EXCEPT !.at = RestoreAt[r.op]]} :
           (OpAt(r, "build", 5) \/ OpAt(r, "sync", 6)) /\ Becomes(t, new)
    BY PackDoes
  <1>2. r \in Work /\ disk' = disk /\ halved' = halved
    BY DEF Pack, TypeInv
  <1>3. r.op # "create" /\ new.op = r.op
    BY <1>1, <1>2 DEF OpAt, Work
  <1>4. FilesSame
    BY <1>2 DEF FilesSame
  <1> QED
    BY <1>1, <1>2, <1>3, <1>4, NotCreating

LEMMA WriteSetupCreate ==
  ASSUME TypeInv, CreateInv, NEW t \in Thread, WriteSetup(t)
  PROVE  CreateInv'
  <1> DEFINE r == work[t]
  <1>1. PICK new \in {[r EXCEPT !.at = r.at + 1], [r EXCEPT !.at = RestoreAt[r.op]]} :
           (OpAt(r, "build", 4) \/ OpAt(r, "sync", 5)) /\ Becomes(t, new)
    BY WriteSetupDoes
  <1>2. r \in Work /\ halved' = halved
    BY DEF WriteSetup, TypeInv
  <1>3. r.op # "create" /\ new.op = r.op /\ t \in Handler
    BY <1>1, <1>2, Ops DEF OpAt, Work, TypeInv
  <1>4. PICK d : d = r.dir
    OBVIOUS
  <1>5. d \in DOMAIN disk /\ disk \in [DOMAIN disk -> DiskDir]
    BY <1>1, <1>4 DEF TypeInv, WorkTypes, Inside, Within, OpAt
  <1>6. FilesSame
    <2>1. disk' = disk \/ disk' = [disk EXCEPT ![d].setup = TRUE]
      BY <1>4, WriteSetupDoes
    <2>2. PICK v : v = [disk[d] EXCEPT !.setup = TRUE]
      OBVIOUS
    <2>3. v.files = disk[d].files
      BY <1>5, <2>2 DEF DiskDir
    <2>4. disk' = disk \/ disk' = [disk EXCEPT ![d] = v]
      BY <2>1, <2>2
    <2> QED
      BY <1>5, <2>3, <2>4 DEF FilesSame
  <1> QED
    BY <1>1, <1>2, <1>3, <1>6, NotCreating

LEMMA ClearEggCreate ==
  ASSUME TypeInv, CreateInv, NEW t \in Thread, ClearEgg(t)
  PROVE  CreateInv'
  <1> DEFINE r == work[t]
  <1>1. PICK new \in {[r EXCEPT !.at = r.at + 1]} :
           (OpAt(r, "build", 6) \/ OpAt(r, "sync", 7)) /\ Becomes(t, new)
    BY ClearEggDoes
  <1>2. r \in Work /\ halved' = halved
    BY DEF ClearEgg, TypeInv
  <1>3. r.op # "create" /\ new.op = r.op /\ t \in Handler
    BY <1>1, <1>2, Ops DEF OpAt, Work, TypeInv
  <1>4. PICK d : d = r.dir
    OBVIOUS
  <1>5. d \in DOMAIN disk /\ disk \in [DOMAIN disk -> DiskDir]
    BY <1>1, <1>4 DEF TypeInv, WorkTypes, Inside, Within, OpAt
  <1>6. FilesSame
    <2>1. PICK v \in DiskDir : v.files = disk[d].files /\ disk' = [disk EXCEPT ![d] = v]
      BY <1>4, <1>5, ClearEggDisk
    <2> QED
      BY <1>5, <2>1 DEF FilesSame
  <1> QED
    BY <1>1, <1>2, <1>3, <1>6, NotCreating

LEMMA MoveEggCreate ==
  ASSUME TypeInv, CreateInv, NEW t \in Thread, MoveEgg(t)
  PROVE  CreateInv'
  <1> DEFINE r == work[t]
  <1>1. PICK new \in {[r EXCEPT !.at = r.at + 1], [r EXCEPT !.at = RestoreAt[r.op]]} :
           (OpAt(r, "build", 7) \/ OpAt(r, "sync", 8)) /\ Becomes(t, new)
    BY MoveEggDoes
  <1>2. r \in Work /\ halved' = halved
    BY DEF MoveEgg, TypeInv
  <1>3. r.op # "create" /\ new.op = r.op /\ t \in Handler
    BY <1>1, <1>2, Ops DEF OpAt, Work, TypeInv
  <1>4. PICK d : d = r.dir
    OBVIOUS
  <1>5. d \in DOMAIN disk /\ disk \in [DOMAIN disk -> DiskDir]
    BY <1>1, <1>4 DEF TypeInv, WorkTypes, Inside, Within, OpAt
  <1>6. FilesSame
    <2>1. disk' = disk \/ disk' = [disk EXCEPT ![d].eggs = @ \cup {Last(r.used)}]
      BY <1>4, MoveEggDoes DEF Moved
    <2>2. PICK v : v = [disk[d] EXCEPT !.eggs = @ \cup {Last(r.used)}]
      OBVIOUS
    <2>3. v.files = disk[d].files
      BY <1>5, <2>2 DEF DiskDir
    <2>4. disk' = disk \/ disk' = [disk EXCEPT ![d] = v]
      BY <2>1, <2>2
    <2> QED
      BY <1>5, <2>3, <2>4 DEF FilesSame
  <1> QED
    BY <1>1, <1>2, <1>3, <1>6, NotCreating

LEMMA ResolveCreate ==
  ASSUME TypeInv, CreateInv, NEW t \in Thread, Resolve(t)
  PROVE  CreateInv'
  <1> DEFINE r == work[t]
             d == Append(cwd, r.project)
  <1>1. PICK new \in {[r EXCEPT !.dir = d, !.at = r.at + 1],
                      [r EXCEPT !.path = d, !.at = r.at + 1]} :
           /\ \/ OpAt(r, "scan", 1) \/ OpAt(r, "build", 2) \/ OpAt(r, "sync", 3)
              \/ OpAt(r, "debug", 2) \/ OpAt(r, "deploy", 2) \/ OpAt(r, "sync", 1)
           /\ Becomes(t, new)
    BY ResolveDoes
  <1>2. r \in Work /\ disk' = disk /\ halved' = halved
    BY DEF Resolve, TypeInv
  <1>3. r.op # "create" /\ new.op = r.op
    BY <1>1, <1>2 DEF OpAt, Work
  <1>4. FilesSame
    BY <1>2 DEF FilesSame
  <1> QED
    BY <1>1, <1>2, <1>3, <1>4, NotCreating

LEMMA EnterCreate ==
  ASSUME TypeInv, CreateInv, NEW t \in Thread, NEW label, NEW d,
         \/ label = "enter" /\ d = work[t].dir
         \/ label = "enterHere" /\ d = Append(cwd, work[t].project),
         Enter(t, label, d)
  PROVE  CreateInv'
  <1> DEFINE r == work[t]
  <1>1. PICK new \in {[r EXCEPT !.dir = d, !.disturbed = env # Root, !.at = r.at + 1],
                      [r EXCEPT !.at = RestoreAt[r.op]]} : Becomes(t, new)
    BY EnterDoes
  <1>2. r \in Work /\ disk' = disk /\ halved' = halved /\ r.op # "create"
    BY EnterDoes DEF Enter, TypeInv, OpAt
  <1>3. new.op = r.op
    BY <1>1, <1>2 DEF Work
  <1>4. FilesSame
    BY <1>2 DEF FilesSame
  <1> QED
    BY <1>1, <1>2, <1>3, <1>4, NotCreating

LEMMA LoadCreate ==
  ASSUME TypeInv, CreateInv, NEW t \in Thread, Load(t)
  PROVE  CreateInv'
  <1>1. PICK new : new = [work[t] EXCEPT !.used = Settings, !.at = 5] /\ Becomes(t, new)
    BY LoadDoes
  <1>2. /\ work[t] \in Work /\ disk' = disk /\ halved' = halved
        /\ work[t].op = "scan"
    BY LoadDoes DEF Load, TypeInv, OpAt
  <1>3. new.op = "scan"
    BY <1>1, <1>2 DEF Work
  <1>4. FilesSame
    BY <1>2 DEF FilesSame
  <1> QED
    BY <1>1, <1>2, <1>3, <1>4, NotCreating

LEMMA OpenEggCreate ==
  ASSUME TypeInv, CreateInv, NEW t \in Thread, OpenEgg(t)
  PROVE  CreateInv'
  <1> DEFINE r == work[t]
  <1>1. /\ r \in Work /\ disk' = disk /\ halved' = halved
        /\ r.op \in {"deploy", "sync"}
    BY OpenEggDoes DEF OpenEgg, TypeInv, OpAt
  <1>2. PICK new : Becomes(t, new) /\ new.op # "create"
    <2>1. \A e : [r EXCEPT !.used = <<e>>, !.at = r.at + 1].op = r.op
      BY <1>1 DEF Work
    <2>2. [r EXCEPT !.at = 6].op = r.op
      BY <1>1 DEF Work
    <2> QED
      BY <1>1, <2>1, <2>2, IdleWork, OpenEggDoes
  <1>3. FilesSame
    BY <1>1 DEF FilesSame
  <1> QED
    BY <1>1, <1>2, <1>3, NotCreating

LEMMA PublishCreate ==
  ASSUME TypeInv, CreateInv, NEW t \in Thread, Publish(t)
  PROVE  CreateInv'
  <1> DEFINE r == work[t]
  <1>1. /\ r \in Work /\ disk' = disk /\ halved' = halved
        /\ r.op \in {"deploy", "sync"}
    BY PublishDoes DEF Publish, TypeInv, OpAt
  <1>2. PICK new : Becomes(t, new) /\ new.op # "create"
    <2>1. [r EXCEPT !.at = 6].op = r.op
      BY <1>1 DEF Work
    <2> QED
      BY <1>1, <2>1, IdleWork, PublishDoes
  <1>3. FilesSame
    BY <1>1 DEF FilesSame
  <1> QED
    BY <1>1, <1>2, <1>3, NotCreating

LEMMA InitCreate == Init => CreateInv
  <1> SUFFICES ASSUME Init PROVE CreateInv
    OBVIOUS
  <1>1. \A t \in Thread : Creation(work[t])
    BY IdleWork DEF Init, Creation
  <1>2. \A d \in DOMAIN disk : disk[d].files = "whole"
    BY FreshDir DEF Init
  <1> QED
    BY <1>1, <1>2 DEF CreateInv, HalfMadeOnlyIfBroken

LEMMA StepCreate ==
  ASSUME TypeInv, CreateInv, NEW t \in Thread, Step(t)
  PROVE  CreateInv'
  <1>1. CASE Enter(t, "enter", work[t].dir)
    BY <1>1, EnterCreate
  <1>2. CASE Enter(t, "enterHere", Append(cwd, work[t].project))
    BY <1>2, EnterCreate
  <1> QED
    BY <1>1, <1>2, SaveCreate, ResolveCreate, QueryCreate, RestoreCreate, ReadDebugCreate,
       LoadCreate, RunCreate, MakeDirCreate, DescribeCreate, CopyCreate, PlaceCreate,
       RenderCreate, WriteSetupCreate, PackCreate, ClearEggCreate, MoveEggCreate,
       OpenEggCreate, PublishCreate
    DEF Step

LEMMA KillCreate == TypeInv /\ CreateInv /\ Kill => CreateInv'
  <1> SUFFICES ASSUME TypeInv, CreateInv, Kill PROVE CreateInv'
    OBVIOUS
  <1>1. \A t \in Thread : work'[t].op = "none"
    BY IdleWork DEF Kill
  <1>2. \A t \in Thread : Creation(work[t])'
    BY <1>1 DEF Creation
  <1>3. ASSUME NEW d \in DOMAIN disk', disk'[d].files # "whole"
        PROVE  HalfMade(d)'
    <2>1. HalfMade(d)
      BY <1>3 DEF Kill, CreateInv, HalfMadeOnlyIfBroken
    <2>2. d \in halved'
      <3>1. CASE d \in halved
        BY <3>1 DEF Kill
      <3>2. ASSUME NEW u \in Handler, work[u].op = "create", d \in {work[u].used, work[u].dir}
            PROVE  d \in halved'
        BY <3>2 DEF Kill, Thread
      <3> QED
        BY <2>1, <3>1, <3>2 DEF HalfMade
    <2> QED
      BY <2>2 DEF HalfMade
  <1> QED
    BY <1>2, <1>3 DEF CreateInv, HalfMadeOnlyIfBroken

LEMMA NextCreate == TypeInv /\ CreateInv /\ [Next]_workVars => CreateInv'
  <1> SUFFICES ASSUME TypeInv, CreateInv, [Next]_workVars PROVE CreateInv'
    OBVIOUS
  <1>1. ASSUME NEW t \in Handler, NEW op \in Requests, NEW p \in Project, Begin(t, op, p)
        PROVE  CreateInv'
    BY <1>1, Ops, BeginCreate DEF Thread
  <1>2. ASSUME NEW t \in Debugger, NEW p \in Project, Begin(t, "debug", p)
        PROVE  CreateInv'
    BY <1>2, Ops, BeginCreate DEF Thread
  <1>3. ASSUME NEW t \in Thread, Step(t)
        PROVE  CreateInv'
    BY <1>3, StepCreate
  <1>4. CASE UNCHANGED workVars
    BY <1>4 DEF workVars, CreateInv, Creation, HasFiles, HalfMadeOnlyIfBroken, HalfMade
  <1> QED
    BY <1>1, <1>2, <1>3, <1>4, KillCreate DEF Next

\* With one request at a time, only a creation that a debug run disturbed, that came
\* without a description, that raised while it made the files or that died with its
\* process leaves a directory that is not a whole project.
THEOREM HalfMadeOnlyIfBrokenHolds == Spec => []HalfMadeOnlyIfBroken
  <1>1. Spec => [](TypeInv /\ CreateInv)
    BY InitTypes, NextTypes, InitCreate, NextCreate, PTL DEF Spec
  <1>2. CreateInv => HalfMadeOnlyIfBroken
    BY DEF CreateInv
  <1> QED
    BY <1>1, <1>2, PTL

-----------------------------------------------------------------------------
(* Whose project it is: what becomes of the others.                        *)

\* A creation that was disturbed goes on with what it has made, or owns up to it.
Keeps(t, r) ==
    /\ halved \subseteq halved'
    /\ work[t].op = "create" /\ work[t].disturbed =>
          \/ /\ r.op = "create" /\ r.disturbed
             /\ {work[t].used, work[t].dir} \ {Root} \subseteq {r.used, r.dir}
          \/ {work[t].used, work[t].dir} \ {Root} \subseteq halved'

LEMMA AbandonedKept ==
  ASSUME TypeInv, NEW t \in Thread, NEW r, Becomes(t, r), Keeps(t, r),
         NEW d, d # Root, Abandoned(d)
  PROVE  Abandoned(d)'
  <1>1. CASE d \in halved
    BY <1>1 DEF Abandoned, Keeps
  <1>2. ASSUME NEW u \in Handler, work[u].op = "create", work[u].disturbed,
               d \in {work[u].used, work[u].dir}
        PROVE  Abandoned(d)'
    <2>1. u \in Thread
      BY DEF Thread
    <2>2. CASE u = t
      <3>1. work'[t] = r
        BY DEF Becomes
      <3> QED
        BY <1>2, <2>2, <3>1 DEF Abandoned, Keeps
    <2>3. CASE u # t
      BY <1>2, <2>1, <2>3, OthersSame DEF Abandoned
    <2> QED
      BY <2>2, <2>3
  <1> QED
    BY <1>1, <1>2 DEF Abandoned

LEMMA OthersOwn ==
  ASSUME TypeInv, NEW t \in Thread, NEW r, Becomes(t, r), Keeps(t, r), spoilt \subseteq spoilt',
         NEW u \in Thread, u # t, Own(work[u])
  PROVE  Own(work[u])'
  <1> DEFINE q == work[u]
  <1>1. /\ q'.op = q.op /\ q'.at = q.at /\ q'.project = q.project
        /\ q'.path = q.path /\ q'.dir = q.dir /\ q'.used = q.used
        /\ q.op # "none" /\ ~ q'.disturbed => ~ q.disturbed /\ cwd' = cwd /\ env' \in {env, Root}
        /\ q.disturbed => q'.disturbed
    BY OthersSame
  <1>2. CASE q.op = "none"
    BY <1>1, <1>2 DEF Own
  <1>3. CASE q.op # "none"
    <2>1. /\ q'.dir # Root => Last(q'.dir) = q'.project
          /\ q'.path # Root => Last(q'.path) = q'.project
      BY <1>1, <1>3 DEF Own
    <2>2. Inside(q') /\ ~ q'.disturbed => cwd' = q'.dir /\ env' = Root
      BY <1>1, <1>3 DEF Own, Inside, Within
    <2>3. Packed(q') /\ ~ q'.disturbed => q'.used = q'.dir
      BY <1>1, <1>3 DEF Own, Packed, Within
    <2>4. Opened(q') => Last(q'.used) = q'.project \/ q'.project \in spoilt'
      BY <1>1, <1>3 DEF Own, Opened, Within
    <2>5. NotYet(q') => q'.used = Root
      BY <1>1, <1>3 DEF Own, NotYet, Within
    <2>6. q.dir # Root /\ Abandoned(q.dir) => Abandoned(q.dir)'
      <3>1. PICK d : d = q.dir
        OBVIOUS
      <3>2. d # Root /\ Abandoned(d) => Abandoned(d)'
        BY AbandonedKept
      <3> QED
        BY <1>1, <3>1, <3>2 DEF Abandoned
    <2>7. Done(q') => \/ q'.used = Root \/ q'.disturbed \/ Last(q'.used) = q'.project
                      \/ q'.op # "show" /\ q'.dir # Root /\ Abandoned(q.dir)'
      BY <1>1, <1>3, <2>6 DEF Own, Done, Within
    <2> QED
      BY <2>1, <2>2, <2>3, <2>4, <2>5, <2>7
      DEF Own, Inside, Packed, Opened, NotYet, Done, Within
  <1> QED
    BY <1>2, <1>3

\* A step keeps all this if it keeps it of t, of the eggs, and of what is shipped.
LEMMA OwnKept ==
  ASSUME TypeInv, OwnInv, NEW t \in Thread, NEW r, Becomes(t, r), Keeps(t, r),
         spoilt \subseteq spoilt', Own(work[t])', EggsOwn', ShippedOwn'
  PROVE  OwnInv'
  <1>1. ASSUME NEW u \in Thread
        PROVE  Own(work[u])'
    <2>1. CASE u = t
      BY <2>1
    <2>2. CASE u # t
      BY <2>2, OthersOwn DEF OwnInv
    <2> QED
      BY <2>1, <2>2
  <1> QED
    BY <1>1 DEF OwnInv

\* Most steps add no egg and ship nothing.
LEMMA OwnPlain ==
  ASSUME TypeInv, OwnInv, NEW t \in Thread, NEW r, Becomes(t, r), Keeps(t, r),
         spoilt' = spoilt, shipped' = shipped, Own(work[t])',
         \A d \in DOMAIN disk' : \/ disk'[d].eggs = {}
                                 \/ d \in DOMAIN disk /\ disk'[d].eggs \subseteq disk[d].eggs
  PROVE  OwnInv'
  <1>1. EggsOwn'
    BY DEF OwnInv, EggsOwn
  <1>2. ShippedOwn'
    BY DEF OwnInv, ShippedOwn
  <1> QED
    BY <1>1, <1>2, OwnKept

\* The directory the process is in is not the work of a creation under way there.
LEMMA AbandonedHere ==
  ASSUME TypeInv, CreateInv, cwd \in DOMAIN disk, disk[cwd].files # "whole"
  PROVE  Abandoned(cwd)
  <1>1. HalfMade(cwd) /\ cwd # Root
    BY DEF CreateInv, HalfMadeOnlyIfBroken, TypeInv
  <1>2. ASSUME NEW u \in Handler, work[u].op = "create", cwd \in {work[u].used, work[u].dir}
        PROVE  work[u].disturbed
    <2>1. u \in Thread
      BY DEF Thread
    <2>2. work[u].project \in Project
      BY <1>2, <2>1, AtWork, Ops
    <2>3. Append(cwd, work[u].project) # cwd
      BY <2>2, PlacesDirs, Below
    <2> QED
      BY <1>1, <1>2, <2>1, <2>3 DEF CreateInv, Creation
  <1> QED
    BY <1>1, <1>2 DEF HalfMade, Abandoned

\* What a thread works with that goes by the settings where it is.
LEMMA SettingsOwn ==
  ASSUME TypeInv, CreateInv, NEW r, r.dir = cwd, cwd \in DOMAIN disk, env = Root,
         Last(r.dir) = r.project
  PROVE  Settings = Root \/ Last(Settings) = r.project \/ Abandoned(cwd)
  <1>1. Settings = SettingsAt(cwd)
    BY DEF Settings
  <1>2. CASE disk[cwd].files = "empty"
    BY <1>2, AbandonedHere
  <1>3. CASE disk[cwd].files # "empty"
    <2>1. SettingsAt(cwd) = cwd
      BY <1>3, PlacesDirs, NearestSettings DEF TypeInv
    <2> QED
      BY <1>1, <2>1
  <1> QED
    BY <1>2, <1>3

-----------------------------------------------------------------------------
(* Whose project it is: step by step.                                      *)

\* t only goes on to another statement.
LEMMA OwnStays ==
  ASSUME TypeInv, OwnInv, NEW t \in Thread, NEW r, Becomes(t, r), work[t].op # "none",
         r.op = work[t].op, r.project = work[t].project, r.dir = work[t].dir,
         r.path = work[t].path, r.used = work[t].used, r.disturbed = work[t].disturbed,
         cwd' = cwd, env' = env, halved \subseteq halved', spoilt \subseteq spoilt',
         Inside(r) => Inside(work[t]), Packed(r) => Packed(work[t]),
         Opened(r) => Opened(work[t]), NotYet(r) => NotYet(work[t]),
         Done(r) => NotYet(work[t])
  PROVE  Own(work[t])' /\ Keeps(t, r)
  <1>1. Own(work[t]) /\ work'[t] = r
    BY DEF OwnInv, Becomes
  <1>2. Keeps(t, r)
    BY DEF Keeps
  <1>3. Done(r) => r.used = Root
    BY <1>1 DEF Own
  <1>4. /\ r.dir # Root => Last(r.dir) = r.project
        /\ r.path # Root => Last(r.path) = r.project
        /\ Inside(r) /\ ~ r.disturbed => cwd' = r.dir /\ env' = Root
        /\ Packed(r) /\ ~ r.disturbed => r.used = r.dir
        /\ Opened(r) => Last(r.used) = r.project \/ r.project \in spoilt'
        /\ NotYet(r) => r.used = Root
    BY <1>1 DEF Own
  <1>5. /\ Inside(work[t])' = Inside(r) /\ Packed(work[t])' = Packed(r)
        /\ Opened(work[t])' = Opened(r) /\ NotYet(work[t])' = NotYet(r)
        /\ Done(work[t])' = Done(r)
    BY <1>1 DEF Inside, Packed, Opened, NotYet, Done, Within
  <1>6. Own(work[t])'
    BY <1>1, <1>3, <1>4, <1>5 DEF Own
  <1> QED
    BY <1>2, <1>6

\* What is to be shown of t after a step.
LEMMA OwnAs ==
  ASSUME NEW t \in Thread, NEW r, Becomes(t, r),
         r.dir # Root => Last(r.dir) = r.project,
         r.path # Root => Last(r.path) = r.project,
         Inside(r) /\ ~ r.disturbed => cwd' = r.dir /\ env' = Root,
         Packed(r) /\ ~ r.disturbed => r.used = r.dir,
         Opened(r) => Last(r.used) = r.project \/ r.project \in spoilt',
         NotYet(r) => r.used = Root,
         Done(r) => \/ r.used = Root \/ r.disturbed \/ Last(r.used) = r.project
                    \/ r.op # "show" /\ r.dir # Root /\ Abandoned(r.dir)'
  PROVE  Own(work[t])'
  <1>1. work'[t] = r
    BY DEF Becomes
  <1>2. /\ Inside(work[t])' = Inside(r) /\ Packed(work[t])' = Packed(r)
        /\ Opened(work[t])' = Opened(r) /\ NotYet(work[t])' = NotYet(r)
        /\ Done(work[t])' = Done(r)
    BY <1>1 DEF Inside, Packed, Opened, NotYet, Done, Within
  <1>3. Abandoned(work[t].dir)' <=> Abandoned(r.dir)'
    BY <1>1 DEF Abandoned
  <1> QED
    BY <1>1, <1>2, <1>3 DEF Own

\* When t is not in the middle of anything, little is.
LEMMA OwnSpare ==
  ASSUME NEW t \in Thread, NEW r, Becomes(t, r),
         ~ Inside(r), ~ Packed(r), ~ Opened(r), ~ Done(r), NotYet(r) => r.used = Root,
         r.dir # Root => Last(r.dir) = r.project, r.path # Root => Last(r.path) = r.project
  PROVE  Own(work[t])'
  BY OwnAs

LEMMA OwnDone ==
  ASSUME NEW t \in Thread, Becomes(t, Idle)
  PROVE  Own(work[t])'
  BY IdleWork DEF Becomes, Own

\* A step that leaves the disk and what is shipped alone.
LEMMA OwnQuiet ==
  ASSUME TypeInv, OwnInv, NEW t \in Thread, NEW r, Becomes(t, r), Keeps(t, r),
         spoilt' = spoilt, shipped' = shipped, disk' = disk, Own(work[t])'
  PROVE  OwnInv'
  <1>1. \A d \in DOMAIN disk' : \/ disk'[d].eggs = {}
                                \/ d \in DOMAIN disk /\ disk'[d].eggs \subseteq disk[d].eggs
    OBVIOUS
  <1> QED
    BY <1>1, OwnPlain

LEMMA SaveOwn ==
  ASSUME TypeInv, CreateInv, OwnInv, NEW t \in Thread, Save(t)
  PROVE  OwnInv'
  <1> DEFINE r == work[t]
  <1>1. PICK new : /\ new = [r EXCEPT !.saved = cwd, !.disturbed = FALSE, !.at = r.at + 1]
                   /\ Becomes(t, new)
    BY SaveDoes
  <1>2. /\ disk' = disk /\ halved' = halved /\ spoilt' = spoilt /\ shipped' = shipped
        /\ r \in Work
    BY DEF Save, TypeInv
  <1>3. \/ OpAt(r, "look", 1) \/ OpAt(r, "show", 1) \/ OpAt(r, "scan", 2)
        \/ OpAt(r, "create", 1) \/ OpAt(r, "build", 1) \/ OpAt(r, "deploy", 1)
        \/ OpAt(r, "sync", 2) \/ OpAt(r, "debug", 1)
    BY SaveDoes
  <1>4. /\ new.op = r.op /\ new.at = r.at + 1 /\ new.project = r.project
        /\ new.used = r.used /\ new.dir = r.dir /\ new.path = r.path
    BY <1>1, <1>2 DEF Work
  <1>5. Own(r) /\ Creation(r)
    BY DEF OwnInv, CreateInv
  <1>6. Keeps(t, new)
    BY <1>2, <1>3, <1>5 DEF Keeps, Creation, OpAt
  <1>7. \/ OpAt(new, "look", 2) \/ OpAt(new, "show", 2)
        \/ OpAt(new, "scan", 3) \/ OpAt(new, "create", 2)
        \/ OpAt(new, "build", 2) \/ OpAt(new, "deploy", 2)
        \/ OpAt(new, "sync", 3) \/ OpAt(new, "debug", 2)
    BY <1>3, <1>4 DEF OpAt
  <1>8. ~ Inside(new) /\ ~ Packed(new) /\ ~ Opened(new) /\ ~ Done(new)
    BY <1>7 DEF OpAt, Inside, Packed, Opened, Done, Within
  <1>9. /\ r.op # "none"
        /\ NotYet(new) => NotYet(r)
    BY <1>3, <1>7, <1>4, Ops DEF NotYet, Within, OpAt
  <1>10. /\ NotYet(new) => new.used = Root
         /\ new.dir # Root => Last(new.dir) = new.project
         /\ new.path # Root => Last(new.path) = new.project
    BY <1>4, <1>5, <1>9 DEF Own
  <1>11. Own(work[t])'
    BY <1>1, <1>8, <1>10, OwnSpare
  <1> QED
    BY <1>1, <1>2, <1>6, <1>11, OwnQuiet

LEMMA ResolveOwn ==
  ASSUME TypeInv, CreateInv, OwnInv, NEW t \in Thread, Resolve(t)
  PROVE  OwnInv'
  <1> DEFINE r == work[t]
  <1>1. PICK d : d = Append(cwd, r.project)
    OBVIOUS
  <1>2. PICK new \in {[r EXCEPT !.dir = d, !.at = r.at + 1],
                      [r EXCEPT !.path = d, !.at = r.at + 1]} :
           /\ \/ OpAt(r, "scan", 1) \/ OpAt(r, "build", 2) \/ OpAt(r, "sync", 3)
              \/ OpAt(r, "debug", 2) \/ OpAt(r, "deploy", 2) \/ OpAt(r, "sync", 1)
           /\ Becomes(t, new)
    BY <1>1, ResolveDoes
  <1>3. /\ disk' = disk /\ halved' = halved /\ spoilt' = spoilt /\ shipped' = shipped
        /\ r \in Work /\ r.op # "none"
    BY <1>2, Ops DEF Resolve, TypeInv, OpAt
  <1>4. Last(d) = r.project
    BY <1>1, <1>3, AtWork, PlacesDirs, Below
  <1>5. /\ new.op = r.op /\ new.at = r.at + 1 /\ new.project = r.project
        /\ new.used = r.used /\ new.dir \in {d, r.dir} /\ new.path \in {d, r.path}
    BY <1>2, <1>3 DEF Work
  <1>6. Own(r)
    BY DEF OwnInv
  <1>7. Keeps(t, new)
    BY <1>2, <1>3 DEF Keeps, OpAt
  <1>8. \/ OpAt(new, "scan", 2) \/ OpAt(new, "build", 3)
        \/ OpAt(new, "sync", 4) \/ OpAt(new, "debug", 3)
        \/ OpAt(new, "deploy", 3) \/ OpAt(new, "sync", 2)
    BY <1>2, <1>5 DEF OpAt
  <1>9. ~ Inside(new) /\ ~ Packed(new) /\ ~ Opened(new) /\ ~ Done(new)
    BY <1>8 DEF OpAt, Inside, Packed, Opened, Done, Within
  <1>10. NotYet(new) => NotYet(r)
    BY <1>2, <1>5, <1>8 DEF NotYet, Within, OpAt
  <1>11. Own(work[t])'
    BY <1>2, <1>3, <1>4, <1>5, <1>6, <1>9, <1>10, OwnSpare DEF Own
  <1> QED
    BY <1>2, <1>3, <1>7, <1>11, OwnQuiet

LEMMA QueryOwn ==
  ASSUME TypeInv, CreateInv, OwnInv, NEW t \in Thread, Query(t)
  PROVE  OwnInv'
  <1> DEFINE r == work[t]
  <1>1. PICK new \in {[r EXCEPT !.at = r.at + 1], [r EXCEPT !.at = RestoreAt[r.op]]} :
           /\ \/ OpAt(r, "create", 2) \/ OpAt(r, "create", 8) \/ OpAt(r, "deploy", 4)
              \/ OpAt(r, "debug", 4)
           /\ Becomes(t, new)
    BY QueryDoes
  <1>2. /\ disk' = disk /\ halved' = halved /\ spoilt' = spoilt /\ shipped' = shipped
        /\ cwd' = cwd /\ env' = env /\ r \in Work /\ r.op # "none"
    BY <1>1, Ops DEF Query, TypeInv, OpAt
  <1>3. /\ new.op = r.op /\ new.at \in {r.at + 1, RestoreAt[r.op]} /\ new.project = r.project
        /\ new.used = r.used /\ new.dir = r.dir /\ new.path = r.path
        /\ new.disturbed = r.disturbed
    BY <1>1, <1>2 DEF Work
  <1>4. \/ new.op = "create"
        \/ OpAt(r, "deploy", 4) /\ new.at \in {5, 6}
        \/ OpAt(r, "debug", 4) /\ new.at \in {5, 6}
    BY <1>1, <1>3, Lengths DEF OpAt
  <1>5. /\ Inside(new) => Inside(r)
        /\ Packed(new) => Packed(r)
        /\ Opened(new) => Opened(r)
        /\ NotYet(new) => NotYet(r)
        /\ Done(new) => NotYet(r)
    BY <1>3, <1>4 DEF OpAt, Inside, Packed, Opened, NotYet, Done, Within
  <1>6. Own(work[t])' /\ Keeps(t, new)
    BY <1>1, <1>2, <1>3, <1>5, OwnStays
  <1> QED
    BY <1>1, <1>2, <1>6, OwnQuiet

LEMMA DescribeOwn ==
  ASSUME TypeInv, CreateInv, OwnInv, NEW t \in Thread, Describe(t)
  PROVE  OwnInv'
  <1> DEFINE r == work[t]
  <1>1. PICK new \in {[r EXCEPT !.at = r.at + 1], [r EXCEPT !.at = RestoreAt[r.op]]} :
           Becomes(t, new)
    BY DescribeDoes
  <1>2. /\ disk' = disk /\ halved \subseteq halved' /\ spoilt' = spoilt
        /\ shipped' = shipped /\ cwd' = cwd /\ env' = env /\ r \in Work /\ r.op = "create"
    BY DescribeDoes DEF Describe, TypeInv, OpAt
  <1>3. /\ new.op = "create" /\ new.project = r.project
        /\ new.used = r.used /\ new.dir = r.dir /\ new.path = r.path
        /\ new.disturbed = r.disturbed
    BY <1>1, <1>2 DEF Work
  <1>4. ~ Inside(new) /\ ~ Packed(new) /\ ~ Opened(new) /\ ~ Done(new) /\ ~ NotYet(new)
    BY <1>3 DEF Inside, Packed, Opened, NotYet, Done, Within
  <1>5. Own(work[t])' /\ Keeps(t, new)
    BY <1>1, <1>2, <1>3, <1>4, Ops, OwnStays
  <1> QED
    BY <1>1, <1>2, <1>5, OwnQuiet

\* A step of a creation: where a creation is, nothing is shown, scanned, built or run.
LEMMA OwnCreation ==
  ASSUME TypeInv, OwnInv, NEW t \in Thread, NEW r, Becomes(t, r),
         work[t].op = "create", r.op = "create", r.path = work[t].path,
         r.disturbed = work[t].disturbed,
         {work[t].used, work[t].dir} \ {Root} \subseteq {r.used, r.dir},
         r.dir # Root => Last(r.dir) = r.project, r.project = work[t].project,
         halved \subseteq halved', spoilt' = spoilt, shipped' = shipped,
         \A d \in DOMAIN disk' : \/ disk'[d].eggs = {}
                                 \/ d \in DOMAIN disk /\ disk'[d].eggs \subseteq disk[d].eggs
  PROVE  OwnInv'
  <1>1. ~ Inside(r) /\ ~ Packed(r) /\ ~ Opened(r) /\ ~ Done(r) /\ ~ NotYet(r)
    BY DEF Inside, Packed, Opened, NotYet, Done, Within
  <1>2. r.path # Root => Last(r.path) = r.project
    BY Ops DEF OwnInv, Own
  <1>3. Own(work[t])'
    BY <1>1, <1>2, OwnSpare
  <1>4. Keeps(t, r)
    BY DEF Keeps
  <1> QED
    BY <1>3, <1>4, OwnPlain

LEMMA MakeDirOwn ==
  ASSUME TypeInv, CreateInv, OwnInv, NEW t \in Thread, MakeDir(t)
  PROVE  OwnInv'
  <1> DEFINE r == work[t]
  <1>1. PICK d : d = Append(cwd, r.project)
    OBVIOUS
  <1>2. PICK new \in {[r EXCEPT !.used = d, !.at = r.at + 1], [r EXCEPT !.at = RestoreAt[r.op]]} :
           /\ OpAt(r, "create", 3) /\ Becomes(t, new)
           /\ disk' = disk \/ (d \notin DOMAIN disk /\ Made(d))
    BY <1>1, MakeDirDoes
  <1>3. /\ halved' = halved /\ spoilt' = spoilt /\ shipped' = shipped
        /\ r \in Work /\ d \in Dir \ {Root}
    BY <1>1, <1>2, AtWork, PlacesDirs, Below, Ops DEF MakeDir, TypeInv, OpAt
  <1>4. /\ r.op = "create" /\ r.used = Root /\ r.dir = Root
        /\ r.dir # Root => Last(r.dir) = r.project
    BY <1>2, Ops DEF CreateInv, Creation, OwnInv, Own, OpAt
  <1>5. /\ new.op = "create" /\ new.project = r.project /\ new.dir = r.dir
        /\ new.path = r.path /\ new.disturbed = r.disturbed
    BY <1>2, <1>3, <1>4 DEF Work
  <1>6. \A e \in DOMAIN disk' : \/ disk'[e].eggs = {}
                                \/ e \in DOMAIN disk /\ disk'[e].eggs \subseteq disk[e].eggs
    <2>1. CASE disk' = disk
      BY <2>1
    <2>2. CASE d \notin DOMAIN disk /\ Made(d)
      BY <1>3, <2>2, MakeDirDisk
    <2> QED
      BY <1>2, <2>1, <2>2
  <1>7. {r.used, r.dir} \ {Root} \subseteq {new.used, new.dir}
    BY <1>4
  <1> QED
    BY <1>2, <1>3, <1>4, <1>5, <1>6, <1>7, OwnCreation

LEMMA CopyOwn ==
  ASSUME TypeInv, CreateInv, OwnInv, NEW t \in Thread, Copy(t)
  PROVE  OwnInv'
  <1> DEFINE r == work[t]
  <1>1. PICK d : d = Append(cwd, r.project)
    OBVIOUS
  <1>2. PICK new \in {[r EXCEPT !.dir = d, !.at = r.at + 1], [r EXCEPT !.at = RestoreAt[r.op]]} :
           /\ OpAt(r, "create", 5) /\ Becomes(t, new) /\ halved \subseteq halved'
           /\ disk' = disk \/ \E files \in Files : disk' = Copied(d, files)
    BY <1>1, CopyDoes DEF Files
  <1>3. /\ spoilt' = spoilt /\ shipped' = shipped /\ r \in Work
        /\ r.op = "create" /\ r.dir = Root
    <2>1. r.op = "create" /\ r.at = 5 /\ Creation(r)
      BY <1>2 DEF CreateInv, OpAt
    <2> QED
      BY <2>1 DEF Copy, TypeInv, Creation
  <1>4. Last(d) = r.project
    BY <1>1, <1>3, AtWork, Ops, PlacesDirs, Below
  <1>5. /\ new.op = "create" /\ new.project = r.project /\ new.dir \in {d, Root}
        /\ new.used = r.used /\ new.path = r.path /\ new.disturbed = r.disturbed
    BY <1>2, <1>3 DEF Work
  <1>6. \A e \in DOMAIN disk' : \/ disk'[e].eggs = {}
                                \/ e \in DOMAIN disk /\ disk'[e].eggs \subseteq disk[e].eggs
    <2>1. CASE disk' = disk
      BY <2>1
    <2>2. ASSUME NEW files \in Files, disk' = Copied(d, files)
          PROVE  /\ DOMAIN disk' = DOMAIN disk \cup {d}
                 /\ d \in DOMAIN disk => disk'[d].eggs = disk[d].eggs
                 /\ d \notin DOMAIN disk => disk'[d].eggs = {}
                 /\ \A e \in DOMAIN disk \ {d} : disk'[e] = disk[e]
      BY <1>1, <1>3, <2>2, Ops, CopyDisk
    <2> QED
      BY <1>2, <2>1, <2>2
  <1>7. {r.used, r.dir} \ {Root} \subseteq {new.used, new.dir}
    BY <1>3, <1>5
  <1> QED
    BY <1>2, <1>3, <1>4, <1>5, <1>6, <1>7, OwnCreation

LEMMA PlaceOwn ==
  ASSUME TypeInv, CreateInv, OwnInv, NEW t \in Thread, Place(t)
  PROVE  OwnInv'
  <1> DEFINE r == work[t]
  <1>1. PICK from, to : from = Append(cwd, r.project) /\ to = r.dir
    OBVIOUS
  <1>2. PICK new \in {[r EXCEPT !.at = r.at + 1], [r EXCEPT !.at = RestoreAt[r.op]]} :
           /\ OpAt(r, "create", 6) /\ Becomes(t, new) /\ halved \subseteq halved'
           /\ disk' = disk \/ Placed(from, to)
    BY <1>1, PlaceDoes
  <1>3. /\ spoilt' = spoilt /\ shipped' = shipped /\ r \in Work
        /\ r.op = "create" /\ to \in DOMAIN disk
    BY <1>1, <1>2, Ops DEF Place, TypeInv, WorkTypes, Filling, Within, OpAt
  <1>4. r.dir # Root => Last(r.dir) = r.project
    BY <1>3, Ops DEF OwnInv, Own
  <1>5. /\ new.op = "create" /\ new.project = r.project /\ new.dir = r.dir
        /\ new.used = r.used /\ new.path = r.path /\ new.disturbed = r.disturbed
    BY <1>2, <1>3 DEF Work
  <1>6. \A e \in DOMAIN disk' : \/ disk'[e].eggs = {}
                                \/ e \in DOMAIN disk /\ disk'[e].eggs \subseteq disk[e].eggs
    <2>1. CASE disk' = disk
      BY <2>1
    <2>2. CASE Placed(from, to)
      BY <1>3, <2>2, PlaceDisk
    <2> QED
      BY <1>2, <2>1, <2>2
  <1> QED
    BY <1>2, <1>3, <1>4, <1>5, <1>6, OwnCreation

LEMMA RenderOwn ==
  ASSUME TypeInv, CreateInv, OwnInv, NEW t \in Thread, Render(t)
  PROVE  OwnInv'
  <1> DEFINE r == work[t]
  <1>1. PICK d : d = Append(cwd, r.project)
    OBVIOUS
  <1>2. PICK new \in {[r EXCEPT !.at = 8], [r EXCEPT !.at = 9]} :
           /\ OpAt(r, "create", 7) /\ Becomes(t, new) /\ halved \subseteq halved'
           /\ \/ disk' = disk
              \/ HasFiles(d, {"placed", "whole"}) /\ disk' = [disk EXCEPT ![d].files = "whole"]
    BY <1>1, RenderDoes
  <1>3. /\ spoilt' = spoilt /\ shipped' = shipped /\ r \in Work
        /\ r.op = "create"
    BY <1>2 DEF Render, TypeInv, OpAt
  <1>4. r.dir # Root => Last(r.dir) = r.project
    BY <1>3, Ops DEF OwnInv, Own
  <1>5. /\ new.op = "create" /\ new.project = r.project /\ new.dir = r.dir
        /\ new.used = r.used /\ new.path = r.path /\ new.disturbed = r.disturbed
    BY <1>2, <1>3 DEF Work
  <1>6. \A e \in DOMAIN disk' : \/ disk'[e].eggs = {}
                                \/ e \in DOMAIN disk /\ disk'[e].eggs \subseteq disk[e].eggs
    <2>1. CASE disk' = disk
      BY <2>1
    <2>2. CASE HasFiles(d, {"placed", "whole"}) /\ disk' = [disk EXCEPT ![d].files = "whole"]
      <3>1. d \in DOMAIN disk
        BY <2>2 DEF HasFiles
      <3> QED
        BY <2>2, <3>1, RenderDisk
    <2> QED
      BY <1>2, <2>1, <2>2
  <1> QED
    BY <1>2, <1>3, <1>4, <1>5, <1>6, OwnCreation

LEMMA WriteSetupOwn ==
  ASSUME TypeInv, CreateInv, OwnInv, NEW t \in Thread, WriteSetup(t)
  PROVE  OwnInv'
  <1> DEFINE r == work[t]
  <1>1. PICK d : d = r.dir
    OBVIOUS
  <1>2. PICK new \in {[r EXCEPT !.at = r.at + 1], [r EXCEPT !.at = RestoreAt[r.op]]} :
           /\ OpAt(r, "build", 4) \/ OpAt(r, "sync", 5)
           /\ Becomes(t, new)
           /\ disk' = disk \/ disk' = [disk EXCEPT ![d].setup = TRUE]
    BY <1>1, WriteSetupDoes
  <1>3. /\ halved' = halved /\ spoilt' = spoilt /\ shipped' = shipped
        /\ cwd' = cwd /\ env' = env /\ r \in Work /\ r.op # "none"
        /\ d \in DOMAIN disk /\ disk \in [DOMAIN disk -> DiskDir]
    BY <1>1, <1>2, Ops DEF WriteSetup, TypeInv, WorkTypes, Inside, Within, OpAt
  <1>4. /\ new.op = r.op /\ new.at \in {r.at + 1, RestoreAt[r.op]} /\ new.project = r.project
        /\ new.used = r.used /\ new.dir = r.dir /\ new.path = r.path
        /\ new.disturbed = r.disturbed
    BY <1>2, <1>3 DEF Work
  <1>5. \/ OpAt(r, "build", 4) /\ new.at \in {5, 8}
        \/ OpAt(r, "sync", 5) /\ new.at \in {6, 9}
    BY <1>2, <1>4, Lengths DEF OpAt
  <1>6. /\ Inside(new) => Inside(r)
        /\ ~ Packed(new) /\ ~ Opened(new) /\ ~ NotYet(new) /\ ~ Done(new)
    BY <1>4, <1>5 DEF OpAt, Inside, Packed, Opened, NotYet, Done, Within
  <1>7. Own(work[t])' /\ Keeps(t, new)
    BY <1>2, <1>3, <1>4, <1>6, OwnStays
  <1>8. \A e \in DOMAIN disk' : \/ disk'[e].eggs = {}
                                \/ e \in DOMAIN disk /\ disk'[e].eggs \subseteq disk[e].eggs
    <2>1. PICK v : v = [disk[d] EXCEPT !.setup = TRUE]
      OBVIOUS
    <2>2. v.eggs = disk[d].eggs
      BY <1>3, <2>1 DEF DiskDir
    <2>3. disk' = disk \/ disk' = [disk EXCEPT ![d] = v]
      BY <1>2, <2>1
    <2> QED
      BY <1>3, <2>2, <2>3
  <1> QED
    BY <1>2, <1>3, <1>7, <1>8, OwnPlain

LEMMA ClearEggOwn ==
  ASSUME TypeInv, CreateInv, OwnInv, NEW t \in Thread, ClearEgg(t)
  PROVE  OwnInv'
  <1> DEFINE r == work[t]
  <1>1. PICK d : d = r.dir
    OBVIOUS
  <1>2. PICK new : /\ new = [r EXCEPT !.at = r.at + 1]
                   /\ OpAt(r, "build", 6) \/ OpAt(r, "sync", 7)
                   /\ Becomes(t, new)
    BY ClearEggDoes
  <1>3. /\ halved' = halved /\ spoilt' = spoilt /\ shipped' = shipped
        /\ cwd' = cwd /\ env' = env /\ r \in Work /\ r.op # "none"
        /\ d \in DOMAIN disk /\ disk \in [DOMAIN disk -> DiskDir]
    BY <1>1, <1>2, Ops DEF ClearEgg, TypeInv, WorkTypes, Inside, Within, OpAt
  <1>4. /\ new.op = r.op /\ new.at = r.at + 1 /\ new.project = r.project
        /\ new.used = r.used /\ new.dir = r.dir /\ new.path = r.path
        /\ new.disturbed = r.disturbed
    BY <1>2, <1>3 DEF Work
  <1>5. \/ OpAt(r, "build", 6) /\ new.at = 7
        \/ OpAt(r, "sync", 7) /\ new.at = 8
    BY <1>2, <1>4 DEF OpAt
  <1>6. /\ Inside(r) /\ Packed(r)
        /\ ~ Opened(new) /\ ~ NotYet(new) /\ ~ Done(new)
    BY <1>4, <1>5 DEF OpAt, Inside, Packed, Opened, NotYet, Done, Within
  <1>7. Own(work[t])' /\ Keeps(t, new)
    BY <1>2, <1>3, <1>4, <1>6, OwnStays
  <1>8. \A e \in DOMAIN disk' : \/ disk'[e].eggs = {}
                                \/ e \in DOMAIN disk /\ disk'[e].eggs \subseteq disk[e].eggs
    <2>1. PICK v \in DiskDir : v.eggs \subseteq disk[d].eggs /\ disk' = [disk EXCEPT ![d] = v]
      BY <1>1, <1>3, ClearEggDisk
    <2> QED
      BY <1>3, <2>1
  <1> QED
    BY <1>2, <1>3, <1>7, <1>8, OwnPlain

LEMMA ReadDebugOwn ==
  ASSUME TypeInv, CreateInv, OwnInv, NEW t \in Thread, ReadDebug(t)
  PROVE  OwnInv'
  <1> DEFINE r == work[t]
  <1>1. PICK new, d : /\ d = cwd /\ new = [r EXCEPT !.used = d, !.at = r.at + 1]
                      /\ OpAt(r, "show", 3) /\ Becomes(t, new)
    BY ReadDebugDoes
  <1>2. /\ disk' = disk /\ halved' = halved /\ spoilt' = spoilt /\ shipped' = shipped
        /\ r \in Work /\ r.op # "none"
    BY <1>1, Ops DEF ReadDebug, TypeInv, OpAt
  <1>3. /\ OpAt(new, "show", 4) /\ new.project = r.project
        /\ new.used = d /\ new.dir = r.dir /\ new.path = r.path
        /\ new.disturbed = r.disturbed
    BY <1>1, <1>2 DEF Work, OpAt
  <1>4. ~ Inside(new) /\ ~ Packed(new) /\ ~ Opened(new) /\ ~ NotYet(new) /\ Inside(r)
    BY <1>1, <1>3 DEF OpAt, Inside, Packed, Opened, NotYet, Within
  <1>5. Own(r) /\ r.dir \in DOMAIN disk /\ r.dir # Root
    BY <1>2, <1>4 DEF OwnInv, TypeInv, WorkTypes
  <1>6. new.disturbed \/ Last(new.used) = new.project
    BY <1>1, <1>2, <1>3, <1>4, <1>5 DEF Own
  <1>7. /\ new.dir # Root => Last(new.dir) = new.project
        /\ new.path # Root => Last(new.path) = new.project
    BY <1>2, <1>3, <1>5 DEF Own
  <1>8. Own(work[t])'
    BY <1>1, <1>4, <1>6, <1>7, OwnAs
  <1>9. Keeps(t, new)
    BY <1>1, <1>2 DEF Keeps, OpAt
  <1> QED
    BY <1>1, <1>2, <1>8, <1>9, OwnQuiet

LEMMA LoadOwn ==
  ASSUME TypeInv, CreateInv, OwnInv, NEW t \in Thread, Load(t)
  PROVE  OwnInv'
  <1> DEFINE r == work[t]
  <1>1. PICK new, d, s : /\ d = cwd /\ s = Settings /\ new = [r EXCEPT !.used = s, !.at = 5]
                         /\ OpAt(r, "scan", 4) /\ Becomes(t, new)
    BY LoadDoes
  <1>2. /\ disk' = disk /\ halved' = halved /\ spoilt' = spoilt /\ shipped' = shipped
        /\ r \in Work /\ r.op # "none"
    BY <1>1, Ops DEF Load, TypeInv, OpAt
  <1>3. /\ OpAt(new, "scan", 5) /\ new.project = r.project
        /\ new.used = s /\ new.dir = r.dir /\ new.path = r.path
        /\ new.disturbed = r.disturbed
    BY <1>1, <1>2 DEF Work, OpAt
  <1>4. ~ Inside(new) /\ ~ Packed(new) /\ ~ Opened(new) /\ ~ NotYet(new) /\ Inside(r)
    BY <1>1, <1>3 DEF OpAt, Inside, Packed, Opened, NotYet, Within
  <1>5. Own(r) /\ r.dir \in DOMAIN disk /\ r.dir # Root
    BY <1>2, <1>4 DEF OwnInv, TypeInv, WorkTypes
  <1>6. Keeps(t, new)
    BY <1>1, <1>2 DEF Keeps, OpAt
  <1>7. \/ new.used = Root \/ new.disturbed \/ Last(new.used) = new.project
        \/ new.op # "show" /\ new.dir # Root /\ Abandoned(new.dir)'
    <2>1. CASE r.disturbed
      BY <1>3, <2>1
    <2>2. CASE ~ r.disturbed
      <3>1. r.dir = cwd /\ env = Root /\ Last(r.dir) = r.project
        BY <1>2, <1>4, <1>5, <2>2 DEF Own
      <3>2. s = Root \/ Last(s) = r.project \/ Abandoned(d)
        BY <1>1, <1>5, <3>1, SettingsOwn
      <3>3. d = new.dir /\ d # Root
        BY <1>1, <1>3, <1>5, <3>1
      <3>4. Abandoned(d) => Abandoned(d)'
        BY <1>1, <1>6, <3>3, AbandonedKept
      <3> QED
        BY <1>3, <3>2, <3>3, <3>4 DEF OpAt
    <2> QED
      BY <2>1, <2>2
  <1>8. /\ new.dir # Root => Last(new.dir) = new.project
        /\ new.path # Root => Last(new.path) = new.project
    BY <1>2, <1>3, <1>5 DEF Own
  <1>9. Own(work[t])'
    BY <1>1, <1>4, <1>7, <1>8, OwnAs
  <1> QED
    BY <1>1, <1>2, <1>6, <1>9, OwnQuiet

LEMMA RunOwn ==
  ASSUME TypeInv, CreateInv, OwnInv, NEW t \in Thread, Run(t)
  PROVE  OwnInv'
  <1> DEFINE r == work[t]
  <1>1. PICK new, d, s : /\ d = cwd /\ s = Settings
                         /\ new = [r EXCEPT !.used = s, !.at = r.at + 1]
                         /\ OpAt(r, "debug", 5) /\ Becomes(t, new)
    BY RunDoes
  <1>2. /\ disk' = disk /\ halved' = halved /\ spoilt' = spoilt /\ shipped' = shipped
        /\ r \in Work /\ r.op # "none"
    BY <1>1, Ops DEF Run, TypeInv, OpAt
  <1>3. /\ OpAt(new, "debug", 6) /\ new.project = r.project
        /\ new.used = s /\ new.dir = r.dir /\ new.path = r.path
        /\ new.disturbed = r.disturbed
    BY <1>1, <1>2 DEF Work, OpAt
  <1>4. ~ Inside(new) /\ ~ Packed(new) /\ ~ Opened(new) /\ ~ NotYet(new) /\ Inside(r)
    BY <1>1, <1>3 DEF OpAt, Inside, Packed, Opened, NotYet, Within
  <1>5. Own(r) /\ r.dir \in DOMAIN disk /\ r.dir # Root
    BY <1>2, <1>4 DEF OwnInv, TypeInv, WorkTypes
  <1>6. Keeps(t, new)
    BY <1>1, <1>2 DEF Keeps, OpAt
  <1>7. \/ new.used = Root \/ new.disturbed \/ Last(new.used) = new.project
        \/ new.op # "show" /\ new.dir # Root /\ Abandoned(new.dir)'
    <2>1. CASE r.disturbed
      BY <1>3, <2>1
    <2>2. CASE ~ r.disturbed
      <3>1. r.dir = cwd /\ env = Root /\ Last(r.dir) = r.project
        BY <1>2, <1>4, <1>5, <2>2 DEF Own
      <3>2. s = Root \/ Last(s) = r.project \/ Abandoned(d)
        BY <1>1, <1>5, <3>1, SettingsOwn
      <3>3. d = new.dir /\ d # Root
        BY <1>1, <1>3, <1>5, <3>1
      <3>4. Abandoned(d) => Abandoned(d)'
        BY <1>1, <1>6, <3>3, AbandonedKept
      <3> QED
        BY <1>3, <3>2, <3>3, <3>4 DEF OpAt
    <2> QED
      BY <2>1, <2>2
  <1>8. /\ new.dir # Root => Last(new.dir) = new.project
        /\ new.path # Root => Last(new.path) = new.project
    BY <1>2, <1>3, <1>5 DEF Own
  <1>9. Own(work[t])'
    BY <1>1, <1>4, <1>7, <1>8, OwnAs
  <1> QED
    BY <1>1, <1>2, <1>6, <1>9, OwnQuiet

LEMMA EnterOwn ==
  ASSUME TypeInv, CreateInv, OwnInv, NEW t \in Thread, NEW label, NEW d,
         \/ label = "enter" /\ d = work[t].dir
         \/ label = "enterHere" /\ d = Append(cwd, work[t].project),
         Enter(t, label, d)
  PROVE  OwnInv'
  <1> DEFINE r == work[t]
  <1>1. /\ \/ label = "enter" /\ d = r.dir
           \/ d = Append(cwd, r.project)
        /\ \/ OpAt(r, "scan", 3) \/ OpAt(r, "build", 3) \/ OpAt(r, "sync", 4)
           \/ OpAt(r, "debug", 3) \/ OpAt(r, "show", 2)
    BY EnterDoes
  <1>2. /\ disk' = disk /\ halved' = halved /\ spoilt' = spoilt /\ shipped' = shipped
        /\ env' = env /\ r \in Work /\ r.op # "none"
    BY <1>1, Ops DEF Enter, TypeInv, OpAt
  <1>3. Own(r)
    BY DEF OwnInv
  <1>4. CASE cwd' = cwd /\ Becomes(t, [r EXCEPT !.at = RestoreAt[r.op]])
    <2>1. PICK new : new = [r EXCEPT !.at = RestoreAt[r.op]] /\ Becomes(t, new)
      BY <1>4
    <2>2. /\ new.op = r.op /\ new.at = RestoreAt[r.op] /\ new.project = r.project
          /\ new.used = r.used /\ new.dir = r.dir /\ new.path = r.path
          /\ new.disturbed = r.disturbed
      BY <1>2, <2>1 DEF Work
    <2>3. ~ Inside(new) /\ ~ Packed(new) /\ ~ Opened(new) /\ ~ NotYet(new)
      BY <1>1, <2>2, Lengths DEF OpAt, Inside, Packed, Opened, NotYet, Within
    <2>4. Done(new) => NotYet(r)
      BY <1>1, <2>2 DEF OpAt, NotYet, Done, Within
    <2>5. Own(work[t])' /\ Keeps(t, new)
      BY <1>2, <1>4, <2>1, <2>2, <2>3, <2>4, OwnStays
    <2> QED
      BY <1>2, <2>1, <2>5, OwnQuiet
  <1>5. CASE /\ d \in DOMAIN disk /\ cwd' = d
             /\ Becomes(t, [r EXCEPT !.dir = d, !.disturbed = env # Root, !.at = r.at + 1])
    <2>1. PICK new, b : /\ b \in BOOLEAN /\ (b <=> env # Root)
                        /\ new = [r EXCEPT !.dir = d, !.disturbed = b, !.at = r.at + 1]
                        /\ Becomes(t, new)
      BY <1>5
    <2>2. /\ new.op = r.op /\ new.at = r.at + 1 /\ new.project = r.project
          /\ new.used = r.used /\ new.dir = d /\ new.path = r.path
          /\ ~ new.disturbed => env = Root
      BY <1>2, <2>1 DEF Work
    <2>3. \/ OpAt(new, "scan", 4) \/ OpAt(new, "build", 4) \/ OpAt(new, "sync", 5)
          \/ OpAt(new, "debug", 4) \/ OpAt(new, "show", 3)
      BY <1>1, <2>2 DEF OpAt
    <2>4. ~ Packed(new) /\ ~ Opened(new) /\ ~ Done(new)
      BY <2>3 DEF OpAt, Packed, Opened, Done, Within
    <2>5. NotYet(new) => NotYet(r)
      BY <1>1, <2>2, <2>3 DEF OpAt, NotYet, Within
    <2>6. Last(d) = r.project
      <3>1. CASE d = r.dir
        BY <1>2, <1>3, <1>5, <3>1 DEF Own, TypeInv
      <3>2. CASE d = Append(cwd, r.project)
        BY <1>2, <3>2, AtWork, PlacesDirs, Below
      <3> QED
        BY <1>1, <3>1, <3>2
    <2>7. /\ NotYet(new) => new.used = Root
          /\ new.path # Root => Last(new.path) = new.project
      BY <1>2, <1>3, <2>2, <2>5 DEF Own
    <2>8. Inside(new) /\ ~ new.disturbed => cwd' = new.dir /\ env' = Root
      BY <1>2, <1>5, <2>2
    <2>9. Own(work[t])'
      BY <2>1, <2>2, <2>4, <2>6, <2>7, <2>8, OwnAs
    <2>10. Keeps(t, new)
      BY <1>1, <1>2 DEF Keeps, OpAt
    <2> QED
      BY <1>2, <2>1, <2>9, <2>10, OwnQuiet
  <1> QED
    BY <1>4, <1>5, EnterDoes

LEMMA BeginOwn ==
  ASSUME TypeInv, CreateInv, OwnInv, NEW t \in Thread, NEW op \in DOMAIN Steps,
         NEW p \in Project, Begin(t, op, p)
  PROVE  OwnInv'
  <1>1. PICK new : new = [Idle EXCEPT !.op = op, !.project = p, !.at = 1] /\ Becomes(t, new)
    BY BeginDoes
  <1>2. /\ disk' = disk /\ halved' = halved /\ spoilt' = spoilt /\ shipped' = shipped
        /\ work[t].op = "none"
    BY DEF Begin
  <1>3. new.at = 1 /\ new.used = Root /\ new.dir = Root /\ new.path = Root
    BY <1>1, IdleWork DEF Work, Idle
  <1>4. ~ Inside(new) /\ ~ Packed(new) /\ ~ Opened(new) /\ ~ Done(new)
    BY <1>3 DEF Inside, Packed, Opened, Done, Within
  <1>5. Own(work[t])'
    BY <1>1, <1>3, <1>4, OwnSpare
  <1>6. Keeps(t, new)
    BY <1>2 DEF Keeps
  <1> QED
    BY <1>1, <1>2, <1>5, <1>6, OwnQuiet

LEMMA RestoreOwn ==
  ASSUME TypeInv, CreateInv, OwnInv, NEW t \in Thread, Restore(t)
  PROVE  OwnInv'
  <1> DEFINE r == work[t]
  <1>1. PICK new : new = (IF r.op = "sync" THEN [r EXCEPT !.at = 10] ELSE Idle) /\ Becomes(t, new)
    BY RestoreDoes
  <1>2. /\ disk' = disk /\ spoilt' = spoilt /\ shipped' = shipped
        /\ r \in Work /\ r.op # "none"
        /\ halved' = IF r.op = "create" /\ r.disturbed
                     THEN halved \cup {r.used, r.dir} ELSE halved
    BY Ops DEF Restore, TypeInv, At
  <1>3. Keeps(t, new)
    BY <1>2 DEF Keeps
  <1>4. CASE r.op # "sync"
    <2>1. Own(work[t])'
      BY <1>1, <1>4, OwnDone
    <2> QED
      BY <1>1, <1>2, <1>3, <2>1, OwnQuiet
  <1>5. CASE r.op = "sync"
    <2>1. /\ OpAt(new, "sync", 10) /\ new.project = r.project
          /\ new.dir = r.dir /\ new.path = r.path
      BY <1>1, <1>2, <1>5 DEF Work, OpAt
    <2>2. ~ Inside(new) /\ ~ Packed(new) /\ ~ Opened(new) /\ ~ NotYet(new) /\ ~ Done(new)
      BY <2>1 DEF OpAt, Inside, Packed, Opened, NotYet, Done, Within
    <2>3. /\ new.dir # Root => Last(new.dir) = new.project
          /\ new.path # Root => Last(new.path) = new.project
      BY <1>2, <2>1 DEF OwnInv, Own
    <2>4. Own(work[t])'
      BY <1>1, <2>2, <2>3, OwnSpare
    <2> QED
      BY <1>1, <1>2, <1>3, <2>4, OwnQuiet
  <1> QED
    BY <1>4, <1>5

LEMMA PackOwn ==
  ASSUME TypeInv, CreateInv, OwnInv, NEW t \in Thread, Pack(t)
  PROVE  OwnInv'
  <1> DEFINE r == work[t]
  <1>1. OpAt(r, "build", 5) \/ OpAt(r, "sync", 6)
    BY PackDoes
  <1>2. /\ disk' = disk /\ halved' = halved /\ spoilt' = spoilt /\ shipped' = shipped
        /\ cwd' = cwd /\ env' = env /\ r \in Work /\ r.op # "none"
    BY <1>1, Ops DEF Pack, TypeInv, OpAt
  <1>3. Inside(r) /\ Own(r)
    BY <1>1 DEF OpAt, Inside, Within, OwnInv
  <1>4. CASE Becomes(t, [r EXCEPT !.at = RestoreAt[r.op]])
    <2>1. PICK new : new = [r EXCEPT !.at = RestoreAt[r.op]] /\ Becomes(t, new)
      BY <1>4
    <2>2. /\ new.op = r.op /\ new.at = RestoreAt[r.op] /\ new.project = r.project
          /\ new.used = r.used /\ new.dir = r.dir /\ new.path = r.path
          /\ new.disturbed = r.disturbed
      BY <1>2, <2>1 DEF Work
    <2>3. ~ Packed(new) /\ ~ Opened(new) /\ ~ NotYet(new) /\ ~ Done(new)
      BY <1>1, <2>2, Lengths DEF OpAt, Packed, Opened, NotYet, Done, Within
    <2>4. Own(work[t])' /\ Keeps(t, new)
      BY <1>2, <1>3, <2>1, <2>2, <2>3, OwnStays
    <2> QED
      BY <1>2, <2>1, <2>4, OwnQuiet
  <1>5. CASE Becomes(t, [r EXCEPT !.used = cwd, !.at = r.at + 1])
    <2>1. PICK new, d : /\ d = cwd /\ new = [r EXCEPT !.used = d, !.at = r.at + 1]
                        /\ Becomes(t, new)
      BY <1>5
    <2>2. /\ new.op = r.op /\ new.at = r.at + 1 /\ new.project = r.project
          /\ new.used = d /\ new.dir = r.dir /\ new.path = r.path
          /\ new.disturbed = r.disturbed
      BY <1>2, <2>1 DEF Work
    <2>3. ~ Opened(new) /\ ~ NotYet(new) /\ ~ Done(new)
      BY <1>1, <2>2 DEF OpAt, Opened, NotYet, Done, Within
    <2>4. ~ r.disturbed => cwd = r.dir /\ env = Root
      BY <1>2, <1>3 DEF Own
    <2>5. /\ new.dir # Root => Last(new.dir) = new.project
          /\ new.path # Root => Last(new.path) = new.project
      BY <1>2, <1>3, <2>2 DEF Own
    <2>6. Own(work[t])'
      BY <1>2, <2>1, <2>2, <2>3, <2>4, <2>5, OwnAs
    <2>7. Keeps(t, new)
      BY <1>1, <1>2 DEF Keeps, OpAt
    <2> QED
      BY <1>2, <2>1, <2>6, <2>7, OwnQuiet
  <1> QED
    BY <1>4, <1>5, PackDoes

\* The egg that is moved into a directory is of the project the directory is for, or
\* it was packed while disturbed.
LEMMA MoveEggOwn ==
  ASSUME TypeInv, CreateInv, OwnInv, NEW t \in Thread, MoveEgg(t)
  PROVE  OwnInv'
  <1> DEFINE r == work[t]
  <1>1. PICK new \in {[r EXCEPT !.at = r.at + 1], [r EXCEPT !.at = RestoreAt[r.op]]} :
           /\ OpAt(r, "build", 7) \/ OpAt(r, "sync", 8)
           /\ Becomes(t, new)
           /\ Moved(r) \/ (disk' = disk /\ spoilt' = spoilt)
    BY MoveEggDoes
  <1>2. /\ halved' = halved /\ shipped' = shipped
        /\ cwd' = cwd /\ env' = env /\ r \in Work /\ r.op # "none"
    BY <1>1, Ops DEF MoveEgg, TypeInv, OpAt
  <1>3. Inside(r) /\ Packed(r) /\ Own(r)
    BY <1>1 DEF OpAt, Inside, Packed, Within, OwnInv
  <1>4. /\ new.op = r.op /\ new.at \in {r.at + 1, RestoreAt[r.op]} /\ new.project = r.project
        /\ new.used = r.used /\ new.dir = r.dir /\ new.path = r.path
        /\ new.disturbed = r.disturbed
    BY <1>1, <1>2 DEF Work
  <1>5. OpAt(new, "build", 8) \/ OpAt(new, "sync", 9)
    BY <1>1, <1>4, Lengths DEF OpAt
  <1>6. ~ Inside(new) /\ ~ Packed(new) /\ ~ Opened(new) /\ ~ NotYet(new) /\ ~ Done(new)
    BY <1>5 DEF OpAt, Inside, Packed, Opened, NotYet, Done, Within
  <1>7. spoilt \subseteq spoilt'
    BY <1>1 DEF Moved
  <1>8. Own(work[t])' /\ Keeps(t, new)
    BY <1>1, <1>2, <1>4, <1>6, <1>7, OwnStays
  <1>9. CASE disk' = disk /\ spoilt' = spoilt
    BY <1>1, <1>2, <1>8, <1>9, OwnQuiet
  <1>10. CASE Moved(r)
    <2>1. PICK d, e : d = r.dir /\ e = Last(r.used)
      OBVIOUS
    <2>2. /\ d \in DOMAIN disk /\ d # Root /\ disk \in [DOMAIN disk -> DiskDir]
          /\ Last(d) = r.project
      BY <1>2, <1>3, <2>1 DEF TypeInv, WorkTypes, Own
    <2>3. e # Last(d) => Last(d) \in spoilt'
      BY <1>2, <1>3, <1>10, <2>1, <2>2 DEF Own, Moved
    <2>4. PICK v : v = [disk[d] EXCEPT !.eggs = @ \cup {e}]
      OBVIOUS
    <2>5. v.eggs = disk[d].eggs \cup {e}
      BY <2>2, <2>4 DEF DiskDir
    <2>6. disk' = [disk EXCEPT ![d] = v]
      BY <1>10, <2>1, <2>4 DEF Moved
    <2>7. EggsOwn'
      BY <1>7, <2>2, <2>3, <2>5, <2>6 DEF OwnInv, EggsOwn
    <2>8. ShippedOwn'
      BY <1>2, <1>7 DEF OwnInv, ShippedOwn
    <2> QED
      BY <1>1, <1>7, <1>8, <2>7, <2>8, OwnKept
  <1> QED
    BY <1>1, <1>9, <1>10

LEMMA OpenEggOwn ==
  ASSUME TypeInv, CreateInv, OwnInv, NEW t \in Thread, OpenEgg(t)
  PROVE  OwnInv'
  <1> DEFINE r == work[t]
  <1>1. OpAt(r, "deploy", 3) \/ OpAt(r, "sync", 10)
    BY OpenEggDoes
  <1>2. /\ disk' = disk /\ halved' = halved /\ spoilt' = spoilt /\ shipped' = shipped
        /\ cwd' = cwd /\ env' = env /\ r \in Work /\ r.op # "none"
    BY <1>1, Ops DEF OpenEgg, TypeInv, OpAt
  <1>3. Own(r)
    BY DEF OwnInv
  <1>4. ASSUME NEW e, r.path \in DOMAIN disk, e \in disk[r.path].eggs,
               Becomes(t, [r EXCEPT !.used = <<e>>, !.at = r.at + 1])
        PROVE  OwnInv'
    <2>1. PICK new, d : /\ d = <<e>> /\ new = [r EXCEPT !.used = d, !.at = r.at + 1]
                        /\ Becomes(t, new)
      BY <1>4
    <2>2. /\ new.op = r.op /\ new.at = r.at + 1 /\ new.project = r.project
          /\ new.used = d /\ new.dir = r.dir /\ new.path = r.path
      BY <1>2, <2>1 DEF Work
    <2>3. OpAt(new, "deploy", 4) \/ OpAt(new, "sync", 11)
      BY <1>1, <2>2 DEF OpAt
    <2>4. ~ Inside(new) /\ ~ Packed(new) /\ ~ NotYet(new) /\ ~ Done(new)
      BY <2>3 DEF OpAt, Inside, Packed, NotYet, Done, Within
    <2>5. Last(d) = e
      BY <1>4, <2>1, Single DEF TypeInv, DiskDir
    <2>6. r.path # Root /\ Last(r.path) = r.project
      BY <1>2, <1>3, <1>4 DEF Own, TypeInv
    <2>7. Last(new.used) = new.project \/ new.project \in spoilt'
      BY <1>2, <1>4, <2>2, <2>5, <2>6 DEF OwnInv, EggsOwn
    <2>8. /\ new.dir # Root => Last(new.dir) = new.project
          /\ new.path # Root => Last(new.path) = new.project
      BY <1>2, <1>3, <2>2 DEF Own
    <2>9. Own(work[t])'
      BY <2>1, <2>4, <2>7, <2>8, OwnAs
    <2>10. Keeps(t, new)
      BY <1>1, <1>2 DEF Keeps, OpAt
    <2> QED
      BY <1>2, <2>1, <2>9, <2>10, OwnQuiet
  <1>5. CASE OpAt(r, "deploy", 3) /\ Becomes(t, [r EXCEPT !.at = 6])
    <2>1. PICK new : new = [r EXCEPT !.at = 6] /\ Becomes(t, new)
      BY <1>5
    <2>2. /\ OpAt(new, "deploy", 6) /\ new.op = r.op /\ new.project = r.project
          /\ new.used = r.used /\ new.dir = r.dir /\ new.path = r.path
          /\ new.disturbed = r.disturbed
      BY <1>2, <1>5, <2>1 DEF Work, OpAt
    <2>3. ~ Inside(new) /\ ~ Packed(new) /\ ~ Opened(new) /\ ~ NotYet(new) /\ ~ Done(new)
      BY <2>2 DEF OpAt, Inside, Packed, Opened, NotYet, Done, Within
    <2>4. Own(work[t])' /\ Keeps(t, new)
      BY <1>2, <2>1, <2>2, <2>3, OwnStays
    <2> QED
      BY <1>2, <2>1, <2>4, OwnQuiet
  <1>6. CASE OpAt(r, "sync", 10) /\ Becomes(t, Idle)
    <2>1. Own(work[t])' /\ Keeps(t, Idle)
      BY <1>2, <1>6, OwnDone DEF Keeps, OpAt
    <2> QED
      BY <1>2, <1>6, <2>1, OwnQuiet
  <1> QED
    BY <1>4, <1>5, <1>6, OpenEggDoes

LEMMA PublishOwn ==
  ASSUME TypeInv, CreateInv, OwnInv, NEW t \in Thread, Publish(t)
  PROVE  OwnInv'
  <1> DEFINE r == work[t]
  <1>1. OpAt(r, "deploy", 5) \/ OpAt(r, "sync", 11)
    BY PublishDoes
  <1>2. /\ disk' = disk /\ halved' = halved /\ spoilt' = spoilt
        /\ shipped' = shipped \cup {<<r.project, Last(r.used)>>}
        /\ cwd' = cwd /\ env' = env /\ r \in Work /\ r.op # "none"
    BY <1>1, Ops DEF Publish, TypeInv, OpAt
  <1>3. Own(r) /\ Opened(r)
    BY <1>1 DEF OwnInv, OpAt, Opened, Within
  <1>4. EggsOwn'
    BY <1>2 DEF OwnInv, EggsOwn
  <1>5. ShippedOwn'
    <2>1. Last(r.used) = r.project \/ r.project \in spoilt
      BY <1>2, <1>3 DEF Own
    <2>2. ASSUME NEW s \in shipped', s[1] # s[2]
          PROVE  s[1] \in spoilt
      BY <1>2, <2>1, <2>2 DEF OwnInv, ShippedOwn
    <2> QED
      BY <1>2, <2>2 DEF ShippedOwn
  <1>6. CASE OpAt(r, "deploy", 5) /\ Becomes(t, [r EXCEPT !.at = 6])
    <2>1. PICK new : new = [r EXCEPT !.at = 6] /\ Becomes(t, new)
      BY <1>6
    <2>2. /\ OpAt(new, "deploy", 6) /\ new.op = r.op /\ new.project = r.project
          /\ new.used = r.used /\ new.dir = r.dir /\ new.path = r.path
          /\ new.disturbed = r.disturbed
      BY <1>2, <1>6, <2>1 DEF Work, OpAt
    <2>3. ~ Inside(new) /\ ~ Packed(new) /\ ~ Opened(new) /\ ~ NotYet(new) /\ ~ Done(new)
      BY <2>2 DEF OpAt, Inside, Packed, Opened, NotYet, Done, Within
    <2>4. Own(work[t])' /\ Keeps(t, new)
      BY <1>2, <2>1, <2>2, <2>3, OwnStays
    <2> QED
      BY <1>2, <1>4, <1>5, <2>1, <2>4, OwnKept
  <1>7. CASE OpAt(r, "sync", 11) /\ Becomes(t, Idle)
    <2>1. Own(work[t])' /\ Keeps(t, Idle)
      BY <1>2, <1>7, OwnDone DEF Keeps, OpAt
    <2> QED
      BY <1>2, <1>4, <1>5, <1>7, <2>1, OwnKept
  <1> QED
    BY <1>6, <1>7, PublishDoes

LEMMA InitOwn == Init => OwnInv
  <1> SUFFICES ASSUME Init PROVE OwnInv
    OBVIOUS
  <1>1. \A t \in Thread : Own(work[t])
    BY IdleWork DEF Init, Own
  <1>2. EggsOwn
    BY FreshDir DEF Init, EggsOwn
  <1>3. ShippedOwn
    BY DEF Init, ShippedOwn
  <1> QED
    BY <1>1, <1>2, <1>3 DEF OwnInv

LEMMA StepOwn ==
  ASSUME TypeInv, CreateInv, OwnInv, NEW t \in Thread, Step(t)
  PROVE  OwnInv'
  <1>1. CASE Enter(t, "enter", work[t].dir)
    BY <1>1, EnterOwn
  <1>2. CASE Enter(t, "enterHere", Append(cwd, work[t].project))
    BY <1>2, EnterOwn
  <1> QED
    BY <1>1, <1>2, SaveOwn, ResolveOwn, QueryOwn, RestoreOwn, ReadDebugOwn, LoadOwn, RunOwn,
       MakeDirOwn, DescribeOwn, CopyOwn, PlaceOwn, RenderOwn, WriteSetupOwn, PackOwn,
       ClearEggOwn, MoveEggOwn, OpenEggOwn, PublishOwn
    DEF Step

LEMMA KillOwn == OwnInv /\ Kill => OwnInv'
  <1> SUFFICES ASSUME OwnInv, Kill PROVE OwnInv'
    OBVIOUS
  <1>1. \A t \in Thread : Own(work[t])'
    BY IdleWork DEF Kill, Own
  <1> QED
    BY <1>1 DEF Kill, OwnInv, EggsOwn, ShippedOwn

LEMMA NextOwn == TypeInv /\ CreateInv /\ OwnInv /\ [Next]_workVars => OwnInv'
  <1> SUFFICES ASSUME TypeInv, CreateInv, OwnInv, [Next]_workVars PROVE OwnInv'
    OBVIOUS
  <1>1. ASSUME NEW t \in Handler, NEW op \in Requests, NEW p \in Project, Begin(t, op, p)
        PROVE  OwnInv'
    BY <1>1, Ops, BeginOwn DEF Thread
  <1>2. ASSUME NEW t \in Debugger, NEW p \in Project, Begin(t, "debug", p)
        PROVE  OwnInv'
    BY <1>2, Ops, BeginOwn DEF Thread
  <1>3. ASSUME NEW t \in Thread, Step(t)
        PROVE  OwnInv'
    BY <1>3, StepOwn
  <1>4. CASE UNCHANGED workVars
    <2>1. ASSUME NEW t \in Thread
          PROVE  Own(work[t])'
      BY <1>4 DEF workVars, OwnInv, Own, Inside, Packed, Opened, NotYet, Done, Within, Abandoned
    <2> QED
      BY <1>4, <2>1 DEF workVars, OwnInv, EggsOwn, ShippedOwn
  <1> QED
    BY <1>1, <1>2, <1>3, <1>4, KillOwn DEF Next

\* A spider list, a debug result, a debug run or an egg is of the project that was asked
\* for, unless another thread moved the process meanwhile, or the directory is one that a
\* creation left without settings.
THEOREM OwnUnlessDisturbedHolds == Spec => []OwnUnlessDisturbed
  <1>1. Spec => [](TypeInv /\ CreateInv /\ OwnInv)
    BY InitTypes, NextTypes, InitCreate, NextCreate, InitOwn, NextOwn, PTL DEF Spec
  <1>2. ASSUME TypeInv, OwnInv
        PROVE  OwnUnlessDisturbed
    <2>1. ASSUME NEW t \in Thread, At(t, "restore"), work[t].op \in {"show", "scan", "debug"},
                 work[t].used # Root, ~ work[t].disturbed
          PROVE  \/ Last(work[t].used) = work[t].project
                 \/ work[t].op # "show" /\ HalfMade(work[t].dir)
      <3>1. work[t].op # "none" /\ Own(work[t])
        BY <1>2, <2>1 DEF OwnInv
      <3>2. \/ OpAt(work[t], "show", 4) \/ OpAt(work[t], "scan", 5)
            \/ OpAt(work[t], "debug", 6)
        BY <1>2, <2>1, <3>1, AtWork, Positions DEF At, OpAt
      <3>3. Done(work[t])
        BY <3>2 DEF Done, Within, OpAt
      <3>4. \/ Last(work[t].used) = work[t].project
            \/ work[t].op # "show" /\ Abandoned(work[t].dir)
        BY <2>1, <3>1, <3>3 DEF Own
      <3> QED
        BY <3>4 DEF Abandoned, HalfMade
    <2>2. EggsOwn /\ ShippedOwn
      BY <1>2 DEF OwnInv
    <2> QED
      BY <2>1, <2>2 DEF OwnUnlessDisturbed, EggsOwn, ShippedOwn
  <1>3. TypeInv /\ OwnInv => OwnUnlessDisturbed
    BY <1>2
  <1> QED
    BY <1>1, <1>3, PTL
=============================================================================
