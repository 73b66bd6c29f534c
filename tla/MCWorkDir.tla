----------------------------- MODULE MCWorkDir -----------------------------
(***************************************************************************)
(* Two bounds in one run: three requests, debug runs and kills of any kind *)
(* over two projects, and five over three where all but one debug run are  *)
(* creations, scans of spiders and builds, and none leaves a directory     *)
(* behind that has some of its files.  The second is deep enough for a     *)
(* creation below another project that is refused for want of a            *)
(* description, and a later use of the empty directory that it leaves.     *)
(***************************************************************************)
EXTENDS WorkDir, TLC

CONSTANTS p1, p3

Busy(ts) == {t \in ts : work[t].op # "none"}

Wide == begun <= 3 /\ \A t \in Busy(Thread) : work[t].project # p3

Deep ==
    /\ \A t \in Busy(Handler) : /\ work[t].op \in {"create", "scan", "build"}
                                /\ work[t].project # p1
    /\ Cardinality(Busy(Debugger)) <= 1
    /\ \A t \in Busy(Debugger) : work[t].project = p1
    /\ \A d \in DOMAIN disk :
          \/ disk[d].files \in {"empty", "whole"}
          \/ \E t \in Busy(Handler) : d \in {work[t].used, work[t].dir}

MCSpec == (Init /\ <<p3>> \notin DOMAIN disk) /\ [][Next /\ (Wide \/ Deep)']_workVars

Symmetry == Permutations(Debugger)
=============================================================================
