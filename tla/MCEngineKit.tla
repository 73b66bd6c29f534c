----------------------------- MODULE MCEngineKit -----------------------------
(* Small instances of EngineKit for TLC. *)
EXTENDS EngineKit, TLC

RunSymmetry == Permutations(Run)
=============================================================================
