----------------------------- MODULE MCBackfill -----------------------------
(* Small instances of Backfill for TLC. *)
EXTENDS Backfill, TLC

Jan(y) == FirstDay[12 * y]
Feb(y) == FirstDay[12 * y + 1]

\* Days; weeks that end with a window and on the first day of one; months over
\* the Februaries of 2000 and 2001, from the first and from the end of a month;
\* a day, and no windows at all.
Ranges ==
    {[type |-> t, start |-> s, end |-> e] : <<t, s, e>> \in
        { <<1, 1, 3>>, <<1, 1, 4>>, <<1, 5, 5>>, <<1, 5, 4>>,
          <<2, 1, 14>>, <<2, 1, 15>>, <<2, 1, 16>>, <<0, 1, 14>>,
          <<3, Jan(2000), Jan(2000) + 90>>, <<3, Jan(2001) + 30, Jan(2001) + 80>>,
          <<3, Feb(2001), Feb(2001) + 80>> }}
=============================================================================
