------------------------------ MODULE ParseDate ------------------------------
(***************************************************************************)
(* parse_date (apps/crawl/scheduler/scheduler.py): the windows a back-fill *)
(* cuts a date range into, by days (fix_type 1), weeks (2) or months (3).  *)
(* Dates are the days of the calendar, counted from 0; months are counted  *)
(* from year 0.                                                            *)
(***************************************************************************)
EXTENDS Integers, Sequences

CONSTANTS FirstYear, LastYear   \* the calendar goes up to the first of LastYear

ASSUME CalendarAssumption ==
    FirstYear \in Nat /\ LastYear \in Nat /\ FirstYear < LastYear

FirstMonth == 12 * FirstYear
LastMonth == 12 * LastYear

YearOf(i) == i \div 12
InYear(i) == (i % 12) + 1     \* start.month

\* The calendar of the datetime library, apart from the table in the code.
CalendarDays(i) ==
    LET m == InYear(i)
        y == YearOf(i)
        leap == (y % 4 = 0) # ((y % 100 = 0) # (y % 400 = 0))
    IN 28 + ((m + (m \div 8)) % 2) + (2 % m) + 2 * (1 \div m)
          + (IF m = 2 /\ leap THEN 1 ELSE 0)

FirstDay[i \in FirstMonth .. LastMonth] ==
    IF i = FirstMonth THEN 0 ELSE FirstDay[i - 1] + CalendarDays(i - 1)

Date == 0 .. FirstDay[LastMonth] - 1

MonthOf(d) ==
    CHOOSE i \in FirstMonth .. LastMonth - 1 :
        FirstDay[i] <= d /\ d < FirstDay[i + 1]

\* Fault variant: without the rule of 400 years.
OneMonthPlain(i) ==
    LET y == YearOf(i) IN
    IF InYear(i) \in {1, 3, 5, 7, 8, 10, 12} THEN 31
    ELSE IF InYear(i) \in {4, 6, 9, 11} THEN 30
    ELSE IF y % 4 = 0 /\ y % 100 # 0 THEN 29 ELSE 28

\* timedelta of the month a window starts in.
OneMonth(i) ==
    LET y == YearOf(i) IN
    IF InYear(i) \in {1, 3, 5, 7, 8, 10, 12} THEN 31
    ELSE IF InYear(i) \in {4, 6, 9, 11} THEN 30
    ELSE IF (y % 4 = 0 /\ y % 100 # 0) \/ y % 400 = 0 THEN 29 ELSE 28

Length(type, d) ==
    CASE type = 1 -> 1 [] type = 2 -> 7 [] type = 3 -> OneMonth(MonthOf(d))

\* The condition of the loop: a range by days includes its end.
More(type, d, end) ==
    CASE type = 1 -> d <= end [] type \in {2, 3} -> d < end [] OTHER -> FALSE

\* date_list of a range [type, start, end].
Windows(r) ==
    LET cut[d \in r.start .. r.end + 31] ==
            IF ~ More(r.type, d, r.end) THEN <<>>
            ELSE LET n == d + Length(r.type, d)
                 IN <<[first |-> d, last |-> n - 1]>> \o cut[n]
    IN IF r.end < r.start THEN <<>> ELSE cut[r.start]
=============================================================================
