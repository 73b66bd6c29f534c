--------------------------- MODULE MCScriptReports ---------------------------
(* Small instances of ScriptReports for TLC.                                   *)
EXTENDS ScriptReports, TLC

\* No definition singles out a script or a handler.
Symmetry == Permutations(Script) \cup Permutations(Handler)
=============================================================================
