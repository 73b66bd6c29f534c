---------------------------- MODULE MCJobRefresh ----------------------------
(* Small instances of JobRefresh for TLC.  The sets of model values, the       *)
(* clock's bound and the number of table changes are in the .cfg files.        *)
EXTENDS JobRefresh, TLC
=============================================================================
