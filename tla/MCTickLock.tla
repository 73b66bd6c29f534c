----------------------------- MODULE MCTickLock -----------------------------
(* Small instances of TickLock for TLC. *)
EXTENDS TickLock, TLC

\* Processes are interchangeable, and so are nodes.
Symmetry == Permutations(Proc) \cup Permutations(Node)
=============================================================================
