---------------------------- MODULE Backfill_proofs ----------------------------
(***************************************************************************)
(* Proofs about Backfill, for any number of processes, any range and any   *)
(* calendar: what parse_date cuts, type correctness, the order of the      *)
(* windows, that a process starts each window at most once, that the       *)
(* windows run cover the range, and that the back-fill goes on.            *)
(***************************************************************************)
EXTENDS Backfill, TLAPS, NaturalsInduction, WellFoundedInduction

\* A set of naturals with a member has a least one.
LEMMA LeastNat ==
  ASSUME NEW T \in SUBSET Nat, T # {}
  PROVE  \E x \in T : \A y \in T : x <= y
  <1> DEFINE Less == OpToRel(<, Nat)
  <1>1. PICK x \in T : \A y \in T : <<y, x>> \notin Less
    BY NatLessThanWellFounded, WFMin
  <1>2. \A y \in T : ~ (y < x)
    BY <1>1 DEF OpToRel
  <1> QED
    BY <1>2

-----------------------------------------------------------------------------
(* The calendar.                                                           *)

\* The table in the code is the calendar's, leap years included.
LEMMA OneMonthIsCalendars ==
  ASSUME NEW i \in Nat
  PROVE  /\ OneMonth(i) = CalendarDays(i)
         /\ OneMonth(i) \in 28 .. 31
  <1> DEFINE m == InYear(i)
             y == YearOf(i)
             leap == (y % 4 = 0) # ((y % 100 = 0) # (y % 400 = 0))
             Days(k, l) == 28 + ((k + (k \div 8)) % 2) + (2 % k) + 2 * (1 \div k)
                             + (IF k = 2 /\ l THEN 1 ELSE 0)
  <1>1. m \in 1 .. 12 /\ y \in Nat
    BY DEF InYear, YearOf
  <1>2. y % 100 = 0 => y % 4 = 0
    BY <1>1
  <1>3. y % 400 = 0 => y % 100 = 0
    BY <1>1
  <1>4. leap <=> (y % 4 = 0 /\ y % 100 # 0) \/ y % 400 = 0
    BY <1>2, <1>3
  <1>5. CalendarDays(i) = Days(m, leap)
    BY DEF CalendarDays
  <1>6. OneMonth(i) = IF m \in {1, 3, 5, 7, 8, 10, 12} THEN 31
                      ELSE IF m \in {4, 6, 9, 11} THEN 30
                      ELSE IF leap THEN 29 ELSE 28
    BY <1>4 DEF OneMonth
  <1> HIDE DEF m, leap
  <1>7. \A l \in BOOLEAN :
           /\ Days(1, l) = 31 /\ Days(2, l) = (IF l THEN 29 ELSE 28)
           /\ Days(3, l) = 31 /\ Days(4, l) = 30 /\ Days(5, l) = 31
           /\ Days(6, l) = 30 /\ Days(7, l) = 31 /\ Days(8, l) = 31
           /\ Days(9, l) = 30 /\ Days(10, l) = 31 /\ Days(11, l) = 30
           /\ Days(12, l) = 31
    OBVIOUS
  <1>8. leap \in BOOLEAN
    BY DEF leap
  <1> HIDE DEF Days
  <1> QED
    BY <1>1, <1>5, <1>6, <1>7, <1>8

\* The recursive definition of the calendar does define it.
LEMMA FirstDayDefined ==
  FirstDay = [i \in FirstMonth .. LastMonth |->
                 IF i = FirstMonth THEN 0 ELSE FirstDay[i - 1] + CalendarDays(i - 1)]
  <1> DEFINE Upto(n, g) ==
               g = [i \in FirstMonth .. n |->
                       IF i = FirstMonth THEN 0 ELSE g[i - 1] + CalendarDays(i - 1)]
             T == {n \in Nat : n \in FirstMonth .. LastMonth /\ ~ \E g : Upto(n, g)}
  <1>0. FirstMonth \in Nat /\ LastMonth \in Nat /\ FirstMonth < LastMonth
    BY CalendarAssumption DEF FirstMonth, LastMonth
  <1>1. T = {}
    <2> SUFFICES ASSUME T # {} PROVE FALSE
      OBVIOUS
    <2>1. PICK n \in T : \A k \in T : n <= k
      BY LeastNat
    <2>2. CASE n = FirstMonth
      <3>1. Upto(n, [i \in FirstMonth .. n |-> 0])
        BY <1>0, <2>2
      <3> QED
        BY <2>1, <3>1
    <2>3. CASE n # FirstMonth
      <3>1. n - 1 \in Nat /\ n - 1 \in FirstMonth .. LastMonth /\ n - 1 \notin T
        BY <1>0, <2>1, <2>3
      <3>2. PICK g : Upto(n - 1, g)
        BY <3>1
      <3> DEFINE h == [i \in FirstMonth .. n |->
                         IF i = n THEN g[n - 1] + CalendarDays(n - 1) ELSE g[i]]
      <3>3. \A i \in FirstMonth .. n : i # n => i \in FirstMonth .. n - 1
        BY <1>0, <2>1
      <3>4. \A i \in FirstMonth .. n : i # FirstMonth =>
                i - 1 \in FirstMonth .. n - 1 /\ h[i - 1] = g[i - 1]
        BY <1>0, <2>1
      <3>5. \A i \in FirstMonth .. n :
               h[i] = IF i = FirstMonth THEN 0 ELSE h[i - 1] + CalendarDays(i - 1)
        <4> TAKE i \in FirstMonth .. n
        <4>1. CASE i = n
          BY <2>3, <3>4, <4>1
        <4>2. CASE i # n
          <5>1. h[i] = g[i]
            BY <4>2
          <5>2. g[i] = IF i = FirstMonth THEN 0 ELSE g[i - 1] + CalendarDays(i - 1)
            BY <3>2, <3>3, <4>2
          <5> QED
            BY <3>4, <5>1, <5>2
        <4> QED
          BY <4>1, <4>2
      <3> DEFINE e == [i \in FirstMonth .. n |->
                        IF i = FirstMonth THEN 0 ELSE h[i - 1] + CalendarDays(i - 1)]
      <3>6. h = e
        BY <3>5
      <3> HIDE DEF h
      <3>7. Upto(n, h)
        BY <3>6
      <3> QED
        BY <2>1, <3>7
    <2> QED
      BY <2>2, <2>3
  <1>2. \E g : Upto(LastMonth, g)
    BY <1>0, <1>1
  <1> QED
    BY <1>2 DEF FirstDay

\* Months follow one another.
LEMMA FirstDaySteps ==
  /\ FirstMonth \in Nat /\ LastMonth \in Nat /\ FirstMonth < LastMonth
  /\ FirstDay[FirstMonth] = 0
  /\ \A i \in FirstMonth .. LastMonth - 1 :
        FirstDay[i + 1] = FirstDay[i] + OneMonth(i)
  <1>0. FirstMonth \in Nat /\ LastMonth \in Nat /\ FirstMonth < LastMonth
    BY CalendarAssumption DEF FirstMonth, LastMonth
  <1>1. FirstDay[FirstMonth] = 0
    BY <1>0, FirstDayDefined
  <1>2. ASSUME NEW i \in FirstMonth .. LastMonth - 1
        PROVE  FirstDay[i + 1] = FirstDay[i] + OneMonth(i)
    <2>1. i \in Nat /\ i + 1 \in FirstMonth .. LastMonth /\ i + 1 # FirstMonth
          /\ (i + 1) - 1 = i
      BY <1>0
    <2>2. FirstDay[i + 1] = FirstDay[(i + 1) - 1] + CalendarDays((i + 1) - 1)
      BY <2>1, FirstDayDefined
    <2> QED
      BY <2>1, <2>2, OneMonthIsCalendars
  <1> QED
    BY <1>0, <1>1, <1>2

LEMMA FirstDayNat == \A i \in FirstMonth .. LastMonth : FirstDay[i] \in Nat
  <1> DEFINE T == {i \in Nat : i \in FirstMonth .. LastMonth /\ FirstDay[i] \notin Nat}
  <1>1. T = {}
    <2> SUFFICES ASSUME T # {} PROVE FALSE
      OBVIOUS
    <2>1. PICK i \in T : \A k \in T : i <= k
      BY LeastNat
    <2>2. i # FirstMonth
      BY <2>1, FirstDaySteps
    <2>3. /\ i - 1 \in Nat /\ i - 1 \in FirstMonth .. LastMonth - 1
          /\ (i - 1) + 1 = i /\ i - 1 \notin T
      BY <2>1, <2>2, FirstDaySteps
    <2>4. FirstDay[i - 1] \in Nat
      BY <2>3, FirstDaySteps
    <2>5. FirstDay[(i - 1) + 1] = FirstDay[i - 1] + OneMonth(i - 1)
      BY <2>3, FirstDaySteps
    <2>6. OneMonth(i - 1) \in 28 .. 31
      BY <2>3, OneMonthIsCalendars
    <2> QED
      BY <2>1, <2>3, <2>4, <2>5, <2>6
  <1> QED
    BY <1>1, FirstDaySteps

\* And they grow.
LEMMA FirstDayGrows ==
  ASSUME NEW i \in FirstMonth .. LastMonth, NEW j \in FirstMonth .. LastMonth, i < j
  PROVE  FirstDay[i] < FirstDay[j]
  <1> DEFINE T == {k \in Nat : k \in i + 1 .. LastMonth /\ ~ (FirstDay[i] < FirstDay[k])}
  <1>1. T = {}
    <2> SUFFICES ASSUME T # {} PROVE FALSE
      OBVIOUS
    <2>1. PICK k \in T : \A l \in T : k <= l
      BY LeastNat
    <2>2. /\ k - 1 \in Nat /\ k - 1 \in FirstMonth .. LastMonth - 1
          /\ (k - 1) + 1 = k /\ k - 1 \notin T
      BY <2>1, FirstDaySteps
    <2>3. FirstDay[(k - 1) + 1] = FirstDay[k - 1] + OneMonth(k - 1)
      BY <2>2, FirstDaySteps
    <2>4. OneMonth(k - 1) \in 28 .. 31
      BY <2>2, OneMonthIsCalendars
    <2>5. FirstDay[i] \in Nat /\ FirstDay[k - 1] \in Nat /\ FirstDay[k] \in Nat
      BY <2>1, <2>2, FirstDayNat, FirstDaySteps
    <2>6. i = k - 1 \/ FirstDay[i] < FirstDay[k - 1]
      BY <2>1, <2>2, FirstDaySteps
    <2> QED
      BY <2>1, <2>2, <2>3, <2>4, <2>5, <2>6
  <1> QED
    BY <1>1, FirstDaySteps

\* The month of its first day.
LEMMA MonthOfFirstDay ==
  ASSUME NEW i \in FirstMonth .. LastMonth - 1
  PROVE  MonthOf(FirstDay[i]) = i
  <1>1. /\ i \in FirstMonth .. LastMonth /\ i + 1 \in FirstMonth .. LastMonth
        /\ i < i + 1
    BY FirstDaySteps
  <1>2. FirstDay[i] <= FirstDay[i] /\ FirstDay[i] < FirstDay[i + 1]
    BY <1>1, FirstDayNat, FirstDayGrows
  <1>3. ASSUME NEW j \in FirstMonth .. LastMonth - 1,
               FirstDay[j] <= FirstDay[i], FirstDay[i] < FirstDay[j + 1]
        PROVE  j = i
    <2>1. /\ j \in FirstMonth .. LastMonth /\ j + 1 \in FirstMonth .. LastMonth
      BY FirstDaySteps
    <2>2. /\ FirstDay[i] \in Nat /\ FirstDay[j] \in Nat /\ FirstDay[j + 1] \in Nat
          /\ i \in Nat /\ j \in Nat
      BY <1>1, <2>1, FirstDayNat, FirstDaySteps
    <2>3. ~ (i < j)
      BY <1>1, <1>3, <2>1, <2>2, FirstDayGrows
    <2>4. ~ (j + 1 < i)
      BY <1>1, <1>3, <2>1, <2>2, FirstDayGrows
    <2>5. j + 1 # i
      BY <1>3, <2>2
    <2> QED
      BY <2>2, <2>3, <2>4, <2>5
  <1> QED
    BY <1>2, <1>3 DEF MonthOf

-----------------------------------------------------------------------------
(* The windows of a range.                                                 *)

\* What parse_date cuts from day d of range r on, when f[n] is what it cuts from
\* day n on.
CutAt(r, d, f) ==
    IF ~ More(r.type, d, r.end) THEN <<>>
    ELSE LET n == d + Length(r.type, d)
         IN <<[first |-> d, last |-> n - 1]>> \o f[n]

\* f is what is cut from each day on, e the first of them.
Cuts(r, e, f) == f = [d \in e .. r.end + 31 |-> CutAt(r, d, f)]

\* A window is a day or more, and starts in the range.
LEMMA LengthBounds ==
  ASSUME NEW type, NEW d \in Int, NEW end \in Int, More(type, d, end)
  PROVE  /\ type \in 1 .. 3
         /\ Length(type, d) \in 1 .. 31
         /\ d + Length(type, d) \in d + 1 .. end + 31
  <1>1. type \in {1, 2, 3} /\ d <= end /\ (type # 1 => d < end)
    BY DEF More
  <1>2. OneMonth(MonthOf(d)) \in {28, 29, 30, 31}
    BY DEF OneMonth
  <1>3. Length(type, d) \in {1, 7, 28, 29, 30, 31} /\ (type = 1 => Length(type, d) = 1)
    BY <1>1, <1>2 DEF Length
  <1> QED
    BY <1>1, <1>3

\* The recursive definition of the windows does define them.
LEMMA CutsExist ==
  ASSUME NEW r, r.start \in Int, r.end \in Int, r.start <= r.end
  PROVE  \E f : Cuts(r, r.start, f)
  <1> DEFINE L == r.end + 31
             T == {m \in Nat : m <= L - r.start /\ ~ \E f : Cuts(r, L - m, f)}
  <1>1. T = {}
    <2> SUFFICES ASSUME T # {} PROVE FALSE
      OBVIOUS
    <2>1. PICK m \in T : \A k \in T : m <= k
      BY LeastNat
    <2> DEFINE e == L - m
    <2>2. e \in Int /\ m \in Nat /\ e <= L
      BY <2>1
    <2>3. CASE m = 0
      <3> DEFINE f == [d \in e .. L |-> <<>>]
      <3>1. \A d \in e .. L : ~ More(r.type, d, r.end)
        BY <2>2, <2>3 DEF More
      <3>2. f = [d \in e .. L |-> CutAt(r, d, f)]
        BY <3>1 DEF CutAt
      <3> QED
        BY <2>1, <3>2 DEF Cuts
    <2>4. CASE m # 0
      <3>1. m - 1 \in Nat /\ m - 1 \notin T /\ m - 1 <= L - r.start /\ L - (m - 1) = e + 1
        BY <2>1, <2>2, <2>4
      <3>2. PICK g : Cuts(r, e + 1, g)
        BY <3>1
      <3> DEFINE h == [d \in e .. L |-> IF d = e THEN CutAt(r, e, g) ELSE g[d]]
      <3>3. ASSUME NEW d \in e .. L PROVE CutAt(r, d, h) = CutAt(r, d, g)
        <4>1. CASE ~ More(r.type, d, r.end)
          BY <4>1 DEF CutAt
        <4>2. CASE More(r.type, d, r.end)
          <5> DEFINE n == d + Length(r.type, d)
          <5>1. d \in Int
            BY <2>2
          <5>2. n \in d + 1 .. L
            BY <4>2, <5>1, LengthBounds
          <5> HIDE DEF n
          <5>3. n \in e .. L /\ n # e
            BY <2>2, <5>1, <5>2
          <5>4. h[n] = g[n]
            BY <5>3
          <5> QED
            BY <5>4 DEF CutAt, n
        <4> QED
          BY <4>1, <4>2
      <3>4. ASSUME NEW d \in e .. L PROVE h[d] = CutAt(r, d, h)
        <4>1. CASE d = e
          BY <3>3, <4>1
        <4>2. CASE d # e
          <5>1. d \in e + 1 .. L
            BY <2>2, <4>2
          <5>2. g[d] = CutAt(r, d, g)
            BY <3>2, <5>1 DEF Cuts
          <5>3. h[d] = g[d]
            BY <4>2
          <5> QED
            BY <3>3, <5>2, <5>3
        <4> QED
          BY <4>1, <4>2
      <3> DEFINE k == [d \in e .. L |-> CutAt(r, d, h)]
      <3>5. h = k
        BY <3>4
      <3> HIDE DEF h
      <3>6. Cuts(r, e, h)
        BY <3>5 DEF Cuts
      <3> QED
        BY <2>1, <3>6
    <2> QED
      BY <2>3, <2>4
  <1>2. L - r.start \in Nat /\ L - (L - r.start) = r.start /\ L - r.start \notin T
    BY <1>1
  <1> QED
    BY <1>2

LEMMA WindowsAreCut ==
  ASSUME NEW r, r.start \in Int, r.end \in Int, r.start <= r.end
  PROVE  \E f : Cuts(r, r.start, f) /\ Windows(r) = f[r.start]
  <1> DEFINE cut == CHOOSE f : Cuts(r, r.start, f)
  <1>1. Cuts(r, r.start, cut)
    BY CutsExist
  <1>2. ~ (r.end < r.start)
    OBVIOUS
  <1>3. Windows(r) = cut[r.start]
    BY <1>2 DEF Windows, Cuts, CutAt
  <1> QED
    BY <1>1, <1>3

LEMMA Prepend ==
  ASSUME NEW S, NEW w \in S, NEW t \in Seq(S)
  PROVE  LET s == <<w>> \o t IN
         /\ s \in Seq(S) /\ Len(s) = Len(t) + 1 /\ Len(t) \in Nat
         /\ s[1] = w
         /\ \A k \in 1 .. Len(t) : t[k] \in S /\ s[k + 1] = t[k]
         /\ \A k \in 1 .. Len(s) : k = 1 \/ (k - 1 \in 1 .. Len(t) /\ s[k] = t[k - 1])
  OBVIOUS

\* A month from its first day to its last.
WholeMonth(w) ==
    LET i == MonthOf(w.first) IN w.first = FirstDay[i] /\ w.last + 1 = FirstDay[i + 1]

\* Windows s of range r cover it from day d on: one after the other, without
\* overlap, all days but an end that is left out.
Tiling(r, d, s) ==
    /\ s \in DateList
    /\ \A k \in 1 .. Len(s) : d <= s[k].first
    /\ \A j, k \in 1 .. Len(s) : j < k => s[j].last < s[k].first
    /\ \A x \in d .. r.end : More(r.type, x, r.end) =>
          \E k \in 1 .. Len(s) : s[k].first <= x /\ x <= s[k].last
    /\ (r.type = 3 /\ \E i \in FirstMonth .. LastMonth : d = FirstDay[i]) =>
          \A k \in 1 .. Len(s) : WholeMonth(s[k])

\* A window before windows that cover the rest.
LEMMA TilingExtends ==
  ASSUME NEW r, NEW d \in Int, r.end \in Date, More(r.type, d, r.end),
         NEW n, n = d + Length(r.type, d), NEW t, Tiling(r, n, t)
  PROVE  Tiling(r, d, <<[first |-> d, last |-> n - 1]>> \o t)
  <1> DEFINE w == [first |-> d, last |-> n - 1]
             s == <<w>> \o t
             W == [first : Int, last : Int]
  <1>1. r.end \in Int /\ n \in Int /\ d < n
    BY LengthBounds, FirstDayNat, FirstDaySteps DEF Date
  <1>2. w \in W /\ w.first = d /\ w.last = n - 1
    BY <1>1
  <1>3. t \in Seq(W)
    BY DEF Tiling, DateList
  <1>4. \A v \in W : v.first \in Int /\ v.last \in Int
    OBVIOUS
  <1> HIDE DEF w, W
  <1>5. /\ s \in Seq(W)
        /\ Len(s) = Len(t) + 1 /\ Len(t) \in Nat
        /\ s[1] = w
        /\ \A k \in 1 .. Len(t) : t[k] \in W /\ s[k + 1] = t[k]
        /\ \A k \in 1 .. Len(s) : k = 1 \/ (k - 1 \in 1 .. Len(t) /\ s[k] = t[k - 1])
    BY <1>2, <1>3, Prepend
  <1> HIDE DEF s
  <1>6. ASSUME NEW k \in 1 .. Len(t)
        PROVE  t[k].first \in Int /\ t[k].last \in Int /\ n <= t[k].first
    BY <1>4, <1>5 DEF Tiling
  <1>7. ASSUME NEW k \in 1 .. Len(s)
        PROVE  d <= s[k].first
    <2>1. CASE k = 1
      BY <1>2, <1>5, <2>1
    <2>2. CASE k # 1
      BY <1>1, <1>5, <1>6, <2>2
    <2> QED
      BY <2>1, <2>2
  <1>8. ASSUME NEW j \in 1 .. Len(s), NEW k \in 1 .. Len(s), j < k
        PROVE  s[j].last < s[k].first
    <2>1. k - 1 \in 1 .. Len(t) /\ s[k] = t[k - 1] /\ n <= t[k - 1].first
      BY <1>5, <1>8 DEF Tiling
    <2>2. CASE j = 1
      BY <1>1, <1>2, <1>5, <1>6, <2>1, <2>2
    <2>3. CASE j # 1
      <3>1. j - 1 \in 1 .. Len(t) /\ s[j] = t[j - 1] /\ j - 1 < k - 1
        BY <1>5, <1>8, <2>3
      <3> QED
        BY <2>1, <3>1 DEF Tiling
    <2> QED
      BY <2>2, <2>3
  <1>9. ASSUME NEW x \in d .. r.end, More(r.type, x, r.end)
        PROVE  \E k \in 1 .. Len(s) : s[k].first <= x /\ x <= s[k].last
    <2>1. CASE x < n
      <3>1. 1 \in 1 .. Len(s) /\ s[1].first <= x /\ x <= s[1].last
        BY <1>1, <1>2, <1>5, <2>1
      <3> QED
        BY <3>1
    <2>2. CASE ~ (x < n)
      <3>1. x \in n .. r.end
        BY <1>1, <2>2
      <3>2. PICK k \in 1 .. Len(t) : t[k].first <= x /\ x <= t[k].last
        BY <1>9, <3>1 DEF Tiling
      <3>3. k + 1 \in 1 .. Len(s) /\ s[k + 1] = t[k]
        BY <1>5
      <3> QED
        BY <3>2, <3>3
    <2> QED
      BY <2>1, <2>2
  <1>10. ASSUME r.type = 3, NEW i \in FirstMonth .. LastMonth, d = FirstDay[i],
               NEW k \in 1 .. Len(s)
        PROVE  WholeMonth(s[k])
    <2>1. d < r.end
      BY <1>10 DEF More
    <2>2. i # LastMonth
      BY <1>1, <1>10, <2>1, FirstDayNat, FirstDaySteps DEF Date
    <2>3. /\ i \in FirstMonth .. LastMonth - 1
          /\ i + 1 \in FirstMonth .. LastMonth
      BY <2>2, FirstDaySteps
    <2>4. MonthOf(d) = i
      BY <1>10, <2>3, MonthOfFirstDay
    <2>5. n = FirstDay[i + 1]
      <3>1. Length(r.type, d) = OneMonth(MonthOf(d))
        BY <1>10 DEF Length
      <3> QED
        BY <1>10, <2>3, <2>4, <3>1, FirstDaySteps
    <2>6. CASE k = 1
      BY <1>1, <1>2, <1>5, <1>10, <2>4, <2>5, <2>6 DEF WholeMonth
    <2>7. CASE k # 1
      <3>1. k - 1 \in 1 .. Len(t) /\ s[k] = t[k - 1]
        BY <1>5, <2>7
      <3> QED
        BY <1>10, <2>3, <2>5, <3>1 DEF Tiling
    <2> QED
      BY <2>6, <2>7
  <1>11. Tiling(r, d, s)
    BY <1>5, <1>7, <1>8, <1>9, <1>10 DEF Tiling, DateList, W
  <1> QED
    BY <1>11 DEF s, w

\* The windows of a range cover it.
LEMMA WindowsTile ==
  ASSUME NEW r, r.start \in Date, r.end \in Date
  PROVE  Tiling(r, r.start, Windows(r))
  <1>1. r.start \in Int /\ r.end \in Int
    BY FirstDayNat, FirstDaySteps DEF Date
  <1>2. ASSUME NEW d \in Int, ~ More(r.type, d, r.end)
        PROVE  Tiling(r, d, <<>>)
    <2>1. \A x \in d .. r.end : ~ More(r.type, x, r.end)
      BY <1>1, <1>2 DEF More
    <2> QED
      BY <2>1 DEF Tiling, DateList
  <1>3. CASE r.end < r.start
    <2>1. ~ More(r.type, r.start, r.end)
      BY <1>1, <1>3 DEF More
    <2>2. Windows(r) = <<>>
      BY <1>3 DEF Windows
    <2> QED
      BY <1>1, <1>2, <2>1, <2>2
  <1>4. CASE r.start <= r.end
    <2>1. PICK f : Cuts(r, r.start, f) /\ Windows(r) = f[r.start]
      BY <1>1, <1>4, WindowsAreCut
    <2> DEFINE L == r.end + 31
               T == {m \in Nat : m <= L - r.start /\ ~ Tiling(r, L - m, f[L - m])}
    <2>2. T = {}
      <3> SUFFICES ASSUME T # {} PROVE FALSE
        OBVIOUS
      <3>1. PICK m \in T : \A k \in T : m <= k
        BY LeastNat
      <3> DEFINE d == L - m
      <3>2. d \in Int /\ d \in r.start .. L /\ m \in Nat
        BY <1>1, <3>1
      <3>3. f[d] = CutAt(r, d, f)
        BY <2>1, <3>2 DEF Cuts
      <3>4. CASE ~ More(r.type, d, r.end)
        <4>1. f[d] = <<>>
          BY <3>3, <3>4 DEF CutAt
        <4> QED
          BY <1>2, <3>1, <3>2, <3>4, <4>1
      <3>5. CASE More(r.type, d, r.end)
        <4> DEFINE n == d + Length(r.type, d)
        <4>1. n \in d + 1 .. L
          BY <1>1, <3>2, <3>5, LengthBounds
        <4>2. f[d] = <<[first |-> d, last |-> n - 1]>> \o f[n]
          BY <3>3, <3>5 DEF CutAt
        <4> HIDE DEF n
        <4>3. L - n \in Nat /\ L - n < m /\ L - n <= L - r.start /\ L - (L - n) = n
          BY <1>1, <3>1, <3>2, <4>1
        <4>4. L - n \notin T
          BY <3>1, <3>2, <4>3
        <4>5. Tiling(r, n, f[n])
          BY <4>3, <4>4
        <4>6. Tiling(r, d, f[d])
          BY <3>2, <3>5, <4>2, <4>5, TilingExtends DEF n
        <4> QED
          BY <3>1, <4>6
      <3> QED
        BY <3>4, <3>5
    <2>3. L - r.start \in Nat /\ L - (L - r.start) = r.start /\ L - r.start \notin T
      BY <1>1, <1>4, <2>2
    <2> QED
      BY <2>1, <2>3
  <1> QED
    BY <1>1, <1>3, <1>4

-----------------------------------------------------------------------------
(* The loop.                                                               *)

\* Where a process stands with its windows.  One that waits has windows left,
\* and waits for the window it started last or for the one it was refused.
Places ==
    \A p \in Proc :
        /\ pc[p] = "due" => index[p] = 0
        /\ pc[p] = "wait" => index[p] < N /\ last[p] \in {index[p], index[p] + 1}
        /\ pc[p] = "locked" => last[p] = index[p]

\* What a process has been told is true.
Heard ==
    \A p \in Proc : \A i \in 1 .. Len(inbox[p]) : inbox[p][i] \in finished

\* The window before the one a process is about to start, or is waiting for a
\* second time, has been reported; so has the one before any window started.
Cleared(k) == k \in finished \/ k = 0

Order ==
    /\ \A p \in Proc :
          /\ (pc[p] = "wait" /\ last[p] = index[p] + 1) => Cleared(index[p])
          /\ pc[p] = "locked" => Cleared(index[p] - 1)
    /\ WindowAfterPredecessor

\* A process has started no window it has not gone past, nor the one it holds
\* the lock for and has not started yet.
Once ==
    \A p \in Proc : \A k \in Window :
        p \in ran[k] => k < index[p] \/ (k = index[p] /\ pc[p] # "locked")

IInv == TypeOK /\ Places /\ Heard /\ Order /\ Once

-----------------------------------------------------------------------------
LEMMA FaultsBounded == MaxFaults \in Nat
  BY ConstantsAssumption

\* How many windows there are.
LEMMA WindowCount == dates \in DateList => N \in Nat
  BY DEF DateList, N

\* The range and its windows stay what they are.
LEMMA AskedStays ==
  [Next]_vars => asked' = asked /\ N' = N /\ Window' = Window
<1>1. [Next]_vars => asked' = asked
  BY DEF Next, Step, First, Receive, StartRun, Finish, Expire, Die, RunDies,
         vars, asked
<1>2. asked' = asked => N' = N /\ Window' = Window
  BY DEF asked, N, Window
<1>3. QED
  BY <1>1, <1>2

\* The inductive invariant holds at the start.
LEMMA InitIInv == Init => IInv
<1> SUFFICES ASSUME Init PROVE IInv
  OBVIOUS
<1>1. range \in Range /\ dates \in DateList /\ N \in Nat
  BY ConstantsAssumption, WindowsTile, WindowCount DEF Init, Tiling
<1>2. QED
  BY <1>1, FaultsBounded, SMT
  DEF Init, IInv, TypeOK, Places, Heard, Order, Cleared, Once, Window,
      WindowAfterPredecessor

\* Going for the next window keeps the invariant, when the window before it is
\* over.
LEMMA GoForKeeps ==
  ASSUME IInv, NEW p \in Proc, GoFor(p),
         index[p] < N, Cleared(index[p]),
         pc[p] \in {"due", "wait"},
         UNCHANGED <<asked, active, ran, finished, faults>>,
         inbox' \in [Proc -> Seq(Window)],
         \A q \in Proc : \A i \in 1 .. Len(inbox'[q]) : inbox'[q][i] \in finished
  PROVE  IInv'
<1> DEFINE k == index[p] + 1
<1>0. /\ N \in Nat /\ N' = N /\ Window' = Window
      /\ dates' = dates /\ range' = range
  BY WindowCount DEF IInv, TypeOK, asked, N, Window
<1> USE <1>0
<1>1. k \in Window /\ k \in 0 .. N /\ index[p] \in 0 .. N
  BY FaultsBounded DEF IInv, TypeOK, Window
<1>2. last' = [last EXCEPT ![p] = k]
  BY DEF GoFor
<1>3. \/ /\ pc' = [pc EXCEPT ![p] = "wait"]
         /\ UNCHANGED <<index, held>>
      \/ /\ pc' = [pc EXCEPT ![p] = "locked"]
         /\ index' = [index EXCEPT ![p] = k]
         /\ held' = held \cup {k}
  BY DEF GoFor
<1> HIDE DEF k
<1>4. TypeOK'
  BY <1>1, <1>2, <1>3 DEF IInv, TypeOK, Window
<1>5. Places'
  BY <1>1, <1>2, <1>3, FaultsBounded DEF IInv, TypeOK, Places, k
<1>6. Heard'
  BY DEF Heard
<1>7. Order'
  BY <1>1, <1>2, <1>3, FaultsBounded
  DEF IInv, TypeOK, Order, Cleared, WindowAfterPredecessor, k
<1>8. Once'
  BY <1>1, <1>2, <1>3, FaultsBounded DEF IInv, TypeOK, Once, Window, k
<1>9. QED
  BY <1>4, <1>5, <1>6, <1>7, <1>8 DEF IInv

\* Every step keeps the inductive invariant.
LEMMA NextIInv == IInv /\ [Next]_vars => IInv'
<1> SUFFICES ASSUME IInv, [Next]_vars PROVE IInv'
  OBVIOUS
<1>0. /\ N \in Nat /\ N' = N /\ Window' = Window
      /\ asked' = asked /\ dates' = dates /\ range' = range
  BY WindowCount, AskedStays DEF IInv, TypeOK, asked
<1> USE FaultsBounded, <1>0
<1>1. ASSUME NEW p \in Proc, First(p) PROVE IInv'
  <2>1. CASE N = 0
    <3>1. /\ pc' = [pc EXCEPT ![p] = "end"]
          /\ UNCHANGED <<index, last, held, inbox, active, ran, finished, faults>>
      BY <1>1, <2>1 DEF First
    <3>2. QED
      BY <3>1 DEF IInv, TypeOK, Places, Heard, Order, Cleared, Once, Window,
                  WindowAfterPredecessor
  <2>2. CASE N # 0
    <3>1. /\ GoFor(p)
          /\ UNCHANGED <<inbox, active, ran, finished, faults>>
          /\ pc[p] = "due"
      BY <1>1, <2>2 DEF First
    <3>2. index[p] = 0 /\ Cleared(index[p])
      BY <3>1 DEF IInv, Places, Cleared
    <3>3. /\ inbox' \in [Proc -> Seq(Window)]
          /\ \A q \in Proc : \A i \in 1 .. Len(inbox'[q]) :
                inbox'[q][i] \in finished
      BY <3>1 DEF IInv, TypeOK, Heard
    <3>4. QED
      BY <2>2, <3>1, <3>2, <3>3, GoForKeeps
  <2>3. QED
    BY <2>1, <2>2
<1>2. ASSUME NEW p \in Proc, Receive(p) PROVE IInv'
  <2>1. /\ pc[p] = "wait"
        /\ inbox[p] # <<>>
        /\ inbox' = [inbox EXCEPT ![p] = Tail(inbox[p])]
        /\ UNCHANGED <<active, ran, finished, faults>>
    BY <1>2 DEF Receive
  <2>2. inbox \in [Proc -> Seq(Window)] /\ inbox[p] \in Seq(Window)
    BY DEF IInv, TypeOK
  <2>3. inbox' \in [Proc -> Seq(Window)]
    BY <2>1, <2>2
  <2>4. /\ Head(inbox[p]) \in finished
        /\ \A i \in 1 .. Len(Tail(inbox[p])) : Tail(inbox[p])[i] \in finished
    BY <2>1, <2>2 DEF IInv, Heard
  <2>5. \A q \in Proc : \A i \in 1 .. Len(inbox'[q]) : inbox'[q][i] \in finished
    BY <2>1, <2>2, <2>4 DEF IInv, Heard
  <2>6. CASE Head(inbox[p]) = last[p]
    <3>1. GoFor(p)
      BY <1>2, <2>6 DEF Receive
    <3>2. Cleared(index[p])
      BY <2>1, <2>4, <2>6 DEF IInv, TypeOK, Places, Order, Cleared
    <3>3. index[p] < N
      BY <2>1 DEF IInv, Places
    <3>4. QED
      BY <2>1, <2>3, <2>5, <3>1, <3>2, <3>3, GoForKeeps
  <2>7. CASE Head(inbox[p]) # last[p]
    <3>1. UNCHANGED <<pc, index, last, held>>
      BY <1>2, <2>7 DEF Receive
    <3>2. QED
      BY <2>1, <2>3, <2>5, <3>1
      DEF IInv, TypeOK, Places, Heard, Order, Cleared, Once, Window,
          WindowAfterPredecessor
  <2>8. QED
    BY <2>6, <2>7
<1>3. ASSUME NEW p \in Proc, StartRun(p) PROVE IInv'
  <2> DEFINE k == index[p]
  <2>1. /\ pc[p] = "locked"
        /\ active' = [active EXCEPT ![k] = active[k] \cup {p}]
        /\ ran' = [ran EXCEPT ![k] = ran[k] \cup {p}]
        /\ pc' = [pc EXCEPT ![p] = IF k = N THEN "end" ELSE "wait"]
        /\ UNCHANGED <<index, last, inbox, held, finished, faults>>
    BY <1>3 DEF StartRun
  <2>2. k \in Window /\ last[p] = k
    BY <2>1 DEF IInv, TypeOK, Places
  <2>3. TypeOK'
    BY <2>1, <2>2 DEF IInv, TypeOK, Window
  <2>4. Places' /\ Heard'
    BY <2>1, <2>2 DEF IInv, TypeOK, Places, Heard, Window
  <2>5. Order'
    <3>1. ASSUME NEW q \in Proc
          PROVE  /\ (pc'[q] = "wait" /\ last'[q] = index'[q] + 1) =>
                       Cleared(index[q])
                 /\ pc'[q] = "locked" => Cleared(index[q] - 1)
      BY <2>1, <2>2 DEF IInv, TypeOK, Order, Window
    <3>2. ASSUME NEW j \in Window, j > 1, ran'[j] # {}
          PROVE  j - 1 \in finished
      <4>1. CASE j = k
        BY <2>1, <3>2, <4>1 DEF IInv, Order, Cleared, Window
      <4>2. CASE j # k
        BY <2>1, <2>2, <3>2, <4>2 DEF IInv, TypeOK, Order, WindowAfterPredecessor
      <4>3. QED
        BY <4>1, <4>2
    <3>3. QED
      BY <2>1, <3>1, <3>2 DEF Order, Cleared, WindowAfterPredecessor, Window
  <2>6. Once'
    BY <2>1, <2>2 DEF IInv, TypeOK, Once, Window
  <2>7. QED
    BY <2>3, <2>4, <2>5, <2>6 DEF IInv
<1>4. ASSUME NEW p \in Proc, Die(p) PROVE IInv'
  BY <1>4 DEF Die, IInv, TypeOK, Places, Heard, Order, Cleared, Once, Window,
              WindowAfterPredecessor
<1>5. ASSUME NEW j \in Window, Expire(j) PROVE IInv'
  BY <1>5 DEF Expire, IInv, TypeOK, Places, Heard, Order, Cleared, Once, Window,
              WindowAfterPredecessor
<1>6. ASSUME NEW j \in Window, NEW p \in Proc, Finish(j, p) PROVE IInv'
  <2>1. /\ active' = [active EXCEPT ![j] = active[j] \ {p}]
        /\ finished' = finished \cup {j}
        /\ inbox' = [q \in Proc |-> IF Subscribed(q) THEN Append(inbox[q], j)
                                                     ELSE inbox[q]]
        /\ UNCHANGED <<pc, index, last, held, ran, faults>>
    BY <1>6 DEF Finish
  <2>2. inbox' \in [Proc -> Seq(Window)] /\ Heard'
    <3>1. \A q \in Proc : inbox[q] \in Seq(Window)
      BY DEF IInv, TypeOK
    <3>2. QED
      BY <2>1, <3>1 DEF IInv, Heard
  <2>3. TypeOK'
    BY <2>1, <2>2 DEF IInv, TypeOK
  <2>4. Places' /\ Order' /\ Once'
    BY <2>1 DEF IInv, Places, Order, Cleared, Once, Window,
                WindowAfterPredecessor
  <2>5. QED
    BY <2>2, <2>3, <2>4 DEF IInv
<1>7. ASSUME NEW j \in Window, NEW p \in Proc, RunDies(j, p) PROVE IInv'
  BY <1>7 DEF RunDies, IInv, TypeOK, Places, Heard, Order, Cleared, Once, Window,
              WindowAfterPredecessor
<1>8. CASE UNCHANGED vars
  BY <1>8 DEF vars, IInv, TypeOK, Places, Heard, Order, Cleared, Once, Window,
              WindowAfterPredecessor
<1>9. QED
  BY <1>1, <1>2, <1>3, <1>4, <1>5, <1>6, <1>7, <1>8 DEF Next, Step

\* The inductive invariant holds in every reachable state.
LEMMA SpecIInv == Spec => []IInv
  BY InitIInv, NextIInv, PTL DEF Spec

\* Type correctness of the back-fill loop: no process goes past the last window.
THEOREM TypeCorrect == Spec => []TypeOK
  BY SpecIInv, PTL DEF IInv

\* No process, however many there are and whatever fails, starts a window before
\* a run of the window before it has reported its end.
THEOREM WindowsInOrder == Spec => []WindowAfterPredecessor
  BY SpecIInv, PTL DEF IInv, Order

\* A process never starts a window it has started before.
THEOREM EachWindowOnce == Spec => StartsOnce
<1>1. ASSUME IInv, Next,
             NEW p \in Proc, NEW k \in Window, p \in active'[k], p \notin active[k]
      PROVE  p \notin ran[k]
  <2>1. ASSUME NEW q \in Proc, StartRun(q) PROVE p \notin ran[k]
    BY <1>1, <2>1 DEF StartRun, IInv, TypeOK, Once
  <2>2. ASSUME NEW q \in Proc, First(q) \/ Receive(q) \/ Die(q) PROVE FALSE
    BY <1>1, <2>2 DEF First, Receive, Die
  <2>3. ASSUME NEW j \in Window, Expire(j) PROVE FALSE
    BY <1>1, <2>3 DEF Expire
  <2>4. ASSUME NEW j \in Window, NEW q \in Proc, Finish(j, q) \/ RunDies(j, q)
        PROVE  FALSE
    BY <1>1, <2>4 DEF Finish, RunDies, IInv, TypeOK
  <2>5. QED
    BY <1>1, <2>1, <2>2, <2>3, <2>4 DEF Next, Step
<1>2. IInv /\ [Next]_vars =>
        [\A p \in Proc : \A k \in Window :
            (p \in active'[k] /\ p \notin active[k]) => p \notin ran[k]]_vars
  BY <1>1
<1>3. QED
  BY <1>2, SpecIInv, PTL DEF Spec, StartsOnce

-----------------------------------------------------------------------------
\* What is so when p is the only process: only windows it has gone past are
\* locked, reported or running, what runs is the newest of them and not
\* reported, and nothing runs while it holds the lock of one it has not started.
Keeps(p) ==
    /\ held \subseteq 1 .. index[p]
    /\ finished \subseteq 1 .. index[p]
    /\ \A k \in Window :
          active[k] # {} => k = index[p] /\ k \notin finished /\ pc[p] # "locked"
    /\ pc[p] = "locked" => index[p] \notin finished

Solitary ==
    \A p \in Proc :
        IF pc[p] = "off" THEN \A k \in Window : p \notin active[k] ELSE Keeps(p)

\* A process that is down stays down, and so does one that is up stay up.
LEMMA OffStays ==
  ASSUME IInv, [Next]_vars, NEW p \in Proc
  PROVE  pc'[p] = "off" <=> pc[p] = "off"
  BY DEF IInv, TypeOK, Next, Step, First, Receive, GoFor, StartRun, Finish,
         Expire, Die, RunDies, vars

\* A step of the process that is up is one nobody else takes part in.
LEMMA StepAlone ==
  ASSUME Alone, Solitary, IInv, [Next]_vars, NEW p \in Proc, pc[p] # "off",
         \A q \in Proc : q # p =>
             \A k \in Window : q \in active'[k] => q \in active[k],
         Keeps(p)'
  PROVE  Solitary'
<1>1. Window' = Window
  BY AskedStays
<1>2. \A q \in Proc : q # p => pc[q] = "off"
  BY DEF Alone
<1>3. \A q \in Proc : q # p => pc'[q] = "off" /\ \A k \in Window : q \notin active'[k]
  BY <1>2, OffStays DEF Solitary
<1>4. pc'[p] # "off"
  BY OffStays
<1>5. QED
  BY <1>1, <1>3, <1>4 DEF Solitary

\* A process on its own that goes for a window leaves none running behind it.
LEMMA GoForAlone ==
  ASSUME Alone, IInv, Solitary, [Next]_vars, NEW p \in Proc, GoFor(p),
         index[p] < N, Cleared(index[p]), pc[p] \in {"due", "wait"},
         UNCHANGED <<active, finished>>
  PROVE  Solitary'
<1> DEFINE k == index[p] + 1
<1>0. /\ N \in Nat /\ Window' = Window
  BY WindowCount, AskedStays DEF IInv, TypeOK
<1>1. /\ index[p] \in 0 .. N
      /\ index \in [Proc -> 0 .. N]
      /\ pc \in [Proc -> {"off", "due", "wait", "locked", "end", "dead"}]
      /\ held \subseteq 1 .. index[p] /\ finished \subseteq 1 .. index[p]
  BY <1>0 DEF IInv, TypeOK, Solitary, Keeps
<1>2. /\ pc' = [pc EXCEPT ![p] = "locked"]
      /\ index' = [index EXCEPT ![p] = k]
      /\ held' = held \cup {k}
  BY <1>0, <1>1 DEF GoFor
<1>3. \A j \in Window : active[j] = {}
  BY <1>0, <1>1 DEF Solitary, Keeps, Cleared, Window
<1>4. /\ held' \subseteq 1 .. index'[p]
      /\ finished' \subseteq 1 .. index'[p]
      /\ index'[p] \notin finished'
  <2>1. index'[p] = index[p] + 1 /\ finished' = finished
    BY <1>1, <1>2
  <2> HIDE DEF k
  <2>2. \A j \in held' : j \in held \/ j = index[p] + 1
    BY <1>2 DEF k
  <2>3. index[p] \in Nat
    BY <1>0, <1>1
  <2>4. 1 .. index[p] \subseteq 1 .. index'[p] /\ index'[p] \notin 1 .. index[p]
    BY <2>1, <2>3
  <2>5. index[p] + 1 \in 1 .. index'[p]
    BY <2>1, <2>3
  <2>6. QED
    BY <1>1, <2>1, <2>2, <2>4, <2>5, Zenon
<1>5. Keeps(p)'
  BY <1>0, <1>3, <1>4 DEF Keeps
<1>6. QED
  BY <1>5, StepAlone

\* Every step of a process on its own keeps that nothing else runs.
LEMMA NextAlone == Alone /\ IInv /\ Solitary /\ [Next]_vars => Solitary'
<1> SUFFICES ASSUME Alone, IInv, Solitary, [Next]_vars PROVE Solitary'
  OBVIOUS
<1>0. /\ N \in Nat /\ N' = N /\ Window' = Window
      /\ \A q \in Proc : pc'[q] = "off" <=> pc[q] = "off"
  BY WindowCount, AskedStays, OffStays DEF IInv, TypeOK
<1> USE FaultsBounded, <1>0
<1>1. ASSUME NEW p \in Proc, First(p) PROVE Solitary'
  <2>1. CASE N = 0
    BY <1>1, <2>1 DEF First, Solitary, Keeps, IInv, TypeOK
  <2>2. CASE N # 0
    BY <1>1, <2>2, GoForAlone DEF First, IInv, Places, Cleared
  <2>3. QED
    BY <2>1, <2>2
<1>2. ASSUME NEW p \in Proc, Receive(p) PROVE Solitary'
  <2>1. CASE Head(inbox[p]) = last[p]
    <3>1. /\ GoFor(p) /\ pc[p] = "wait"
          /\ UNCHANGED <<active, finished>>
      BY <1>2, <2>1 DEF Receive
    <3>2. Head(inbox[p]) \in finished
      BY <1>2 DEF Receive, IInv, TypeOK, Heard
    <3>3. Cleared(index[p]) /\ index[p] < N
      BY <2>1, <3>1, <3>2 DEF IInv, Places, Order, Cleared
    <3>4. QED
      BY <3>1, <3>3, GoForAlone
  <2>2. CASE Head(inbox[p]) # last[p]
    BY <1>2, <2>2 DEF Receive, Solitary, Keeps
  <2>3. QED
    BY <2>1, <2>2
<1>3. ASSUME NEW p \in Proc, StartRun(p) PROVE Solitary'
  <2>1. /\ pc[p] = "locked"
        /\ active' = [active EXCEPT ![index[p]] = active[index[p]] \cup {p}]
        /\ pc' = [pc EXCEPT ![p] = IF index[p] = N THEN "end" ELSE "wait"]
        /\ UNCHANGED <<index, held, finished>>
    BY <1>3 DEF StartRun
  <2>2. /\ Keeps(p) /\ pc \in [Proc -> {"off", "due", "wait", "locked", "end", "dead"}]
        /\ active \in [Window -> SUBSET Proc]
    BY <2>1 DEF Solitary, IInv, TypeOK
  <2>3. pc'[p] # "locked" /\ index[p] \notin finished
    BY <2>1, <2>2 DEF Keeps
  <2>4. \A k \in Window : active'[k] # {} => k = index[p]
    BY <2>1, <2>2 DEF Keeps
  <2>5. Keeps(p)'
    BY <2>1, <2>2, <2>3, <2>4 DEF Keeps
  <2>6. QED
    BY <2>1, <2>2, <2>5, StepAlone
<1>4. ASSUME NEW p \in Proc, Die(p) PROVE Solitary'
  BY <1>4 DEF Die, Solitary, Keeps, IInv, TypeOK
<1>5. ASSUME NEW j \in Window, Expire(j) PROVE Solitary'
  BY <1>5 DEF Expire, Solitary, Keeps
<1>6. ASSUME NEW j \in Window, NEW p \in Proc, Finish(j, p) PROVE Solitary'
  <2>1. /\ p \in active[j]
        /\ active' = [active EXCEPT ![j] = active[j] \ {p}]
        /\ finished' = finished \cup {j}
        /\ UNCHANGED <<pc, index, held>>
    BY <1>6 DEF Finish
  <2>2. active \in [Window -> SUBSET Proc]
    BY DEF IInv, TypeOK
  <2>3. pc[p] # "off" /\ Keeps(p)
    BY <2>1 DEF Solitary
  <2>4. \A q \in Proc : q # p => q \notin active[j]
    BY <2>3 DEF Alone, Solitary
  <2>5. active'[j] = {} /\ \A k \in Window \ {j} : active'[k] = active[k]
    BY <2>1, <2>2, <2>4
  <2>6. j = index[p] /\ j \in 1 .. index[p] /\ pc[p] # "locked"
    BY <2>1, <2>3 DEF Keeps, Window
  <2>7. Keeps(p)'
    BY <2>1, <2>3, <2>5, <2>6 DEF Keeps
  <2>8. QED
    BY <2>2, <2>3, <2>5, <2>7, StepAlone
<1>7. ASSUME NEW j \in Window, NEW p \in Proc, RunDies(j, p) PROVE Solitary'
  <2>1. \A k \in Window : active'[k] \subseteq active[k]
    BY <1>7 DEF RunDies, IInv, TypeOK
  <2>2. UNCHANGED <<pc, index, held, finished>>
    BY <1>7 DEF RunDies
  <2>3. QED
    BY <2>1, <2>2 DEF Solitary, Keeps
<1>8. CASE UNCHANGED vars
  BY <1>8 DEF vars, Solitary, Keeps
<1>9. QED
  BY <1>1, <1>2, <1>3, <1>4, <1>5, <1>6, <1>7, <1>8 DEF Next, Step

\* With one process up two windows never run at the same time, whatever fails.
THEOREM OneAtATime == Spec => []OneWindowAtATime
<1>1. Init => Solitary
  BY DEF Init, Solitary, Keeps, Window
<1>2. (Alone => Solitary) /\ IInv /\ [Next]_vars => (Alone => Solitary)'
  BY NextAlone, OffStays DEF Alone
<1>3. (Alone => Solitary) /\ IInv => OneWindowAtATime
  <2> SUFFICES ASSUME Alone, Solitary, IInv,
                      NEW j \in Window, NEW k \in Window,
                      active[j] # {}, active[k] # {}
               PROVE  j = k
    BY DEF OneWindowAtATime
  <2>1. PICK p \in Proc : p \in active[j]
    BY DEF IInv, TypeOK
  <2>2. pc[p] # "off" /\ Keeps(p)
    BY <2>1 DEF Solitary
  <2>3. QED
    BY <2>2 DEF Keeps
<1>4. QED
  BY <1>1, <1>2, <1>3, SpecIInv, PTL DEF Spec

-----------------------------------------------------------------------------
(* The windows of the range are run.                                       *)

\* A run that goes on or has reported was started, and so was the last window
\* when a process has come to its end.
Started ==
    /\ \A k \in Window : active[k] \subseteq ran[k]
    /\ \A k \in finished : ran[k] # {}
    /\ \A p \in Proc : pc[p] = "end" => N = 0 \/ ran[N] # {}

Asked == range \in Range /\ dates = Windows(range)

LEMMA NextStarted == IInv /\ Started /\ Asked /\ [Next]_vars => Started' /\ Asked'
<1> SUFFICES ASSUME IInv, Started, Asked, [Next]_vars PROVE Started' /\ Asked'
  OBVIOUS
<1>0. N \in Nat /\ N' = N /\ Window' = Window /\ asked' = asked
  BY WindowCount, AskedStays DEF IInv, TypeOK
<1>1. Asked'
  BY <1>0 DEF Asked, asked
<1> USE <1>0
<1>2. ASSUME NEW p \in Proc, First(p) \/ Receive(p)
      PROVE  Started'
  <2>1. /\ UNCHANGED <<active, ran, finished>>
        /\ \A q \in Proc : pc'[q] = "end" => pc[q] = "end" \/ N = 0
    BY <1>2 DEF First, Receive, GoFor, IInv, TypeOK
  <2> QED
    BY <2>1 DEF Started
<1>3. ASSUME NEW p \in Proc, StartRun(p)
      PROVE  Started'
  <2>1. /\ pc[p] = "locked"
        /\ active' = [active EXCEPT ![index[p]] = active[index[p]] \cup {p}]
        /\ ran' = [ran EXCEPT ![index[p]] = ran[index[p]] \cup {p}]
        /\ pc' = [pc EXCEPT ![p] = IF index[p] = N THEN "end" ELSE "wait"]
        /\ UNCHANGED <<index, finished>>
    BY <1>3 DEF StartRun
  <2>2. /\ index[p] \in Window /\ active \in [Window -> SUBSET Proc]
        /\ ran \in [Window -> SUBSET Proc] /\ finished \subseteq Window
        /\ pc \in [Proc -> {"off", "due", "wait", "locked", "end", "dead"}]
    BY <2>1 DEF IInv, TypeOK
  <2>3. \A k \in Window : active'[k] \subseteq ran'[k] /\ ran[k] \subseteq ran'[k]
    BY <2>1, <2>2 DEF Started
  <2>4. \A k \in finished : ran'[k] # {}
    BY <2>2, <2>3 DEF Started
  <2>5. ASSUME NEW q \in Proc, pc'[q] = "end" PROVE N = 0 \/ ran'[N] # {}
    BY <2>1, <2>2, <2>3, <2>5 DEF Started, Window
  <2> QED
    BY <2>1, <2>3, <2>4, <2>5 DEF Started
<1>4. ASSUME NEW p \in Proc, Die(p)
      PROVE  Started'
  BY <1>4 DEF Die, Started, IInv, TypeOK
<1>5. ASSUME NEW k \in Window, Expire(k)
      PROVE  Started'
  BY <1>5 DEF Expire, Started
<1>6. ASSUME NEW k \in Window, NEW p \in Proc, Finish(k, p) \/ RunDies(k, p)
      PROVE  Started'
  BY <1>6 DEF Finish, RunDies, Started, IInv, TypeOK
<1>7. CASE UNCHANGED vars
  <2>1. UNCHANGED <<active, ran, finished, pc>>
    BY <1>7 DEF vars
  <2> QED
    BY <1>1, <2>1 DEF Started
<1> QED
  BY <1>1, <1>2, <1>3, <1>4, <1>5, <1>6, <1>7 DEF Next, Step

LEMMA SpecStarted == Spec => [](Started /\ Asked)
<1>1. Init => Started /\ Asked
  BY DEF Init, Started, Asked, Window
<1> QED
  BY <1>1, NextStarted, SpecIInv, PTL DEF Spec

\* When the last window has been run, all have.
LEMMA AllRan ==
  ASSUME IInv, Started, N # 0, ran[N] # {}
  PROVE  \A k \in Window : ran[k] # {}
<1>0. N \in Nat
  BY WindowCount DEF IInv, TypeOK
<1> DEFINE T == {m \in Nat : m < N /\ ran[N - m] = {}}
<1>1. T = {}
  <2> SUFFICES ASSUME T # {} PROVE FALSE
    OBVIOUS
  <2>1. PICK m \in T : \A j \in T : m <= j
    BY LeastNat
  <2>2. m # 0
    BY <1>0, <2>1
  <2>3. /\ m - 1 \in Nat /\ m - 1 < N /\ m - 1 \notin T
        /\ N - m \in Window /\ N - (m - 1) \in Window
        /\ N - (m - 1) > 1 /\ (N - (m - 1)) - 1 = N - m
    BY <1>0, <2>1, <2>2 DEF Window
  <2>4. ran[N - (m - 1)] # {}
    BY <2>3
  <2>5. N - m \in finished
    BY <2>3, <2>4 DEF IInv, Order, WindowAfterPredecessor
  <2> QED
    BY <2>1, <2>5 DEF Started
<1>2. ASSUME NEW k \in Window PROVE ran[k] # {}
  <2>1. N - k \in Nat /\ N - k < N /\ N - (N - k) = k /\ N - k \notin T
    BY <1>0, <1>1 DEF Window
  <2> QED
    BY <2>1
<1> QED
  BY <1>2

\* When a process has come to the end of its loop, the windows that have been run
\* cover the range, each day in one of them, whatever the range and the calendar.
THEOREM RangeIsTiled == Spec => []RunsTileRange
<1>1. ASSUME IInv, Started, Asked PROVE RunsTileRange
  <2> SUFFICES ASSUME NEW p \in Proc, pc[p] = "end"
               PROVE  /\ \A d \in range.start .. range.end :
                           /\ \A j, k \in On(d) : j = k
                           /\ \/ \E k \in On(d) : ran[k] # {}
                              \/ range.type \notin 1 .. 3
                              \/ range.type # 1 /\ d = range.end
                      /\ (range.type = 3 /\ \E i \in DOMAIN FirstDay :
                              range.start = FirstDay[i]) =>
                            \A k \in Window : WholeMonth(dates[k])
    BY DEF RunsTileRange, WholeMonth
  <2>1. /\ Tiling(range, range.start, dates)
        /\ range.start \in Int /\ range.end \in Int
    BY <1>1, ConstantsAssumption, WindowsTile, FirstDayNat, FirstDaySteps
    DEF Asked, Date
  <2>2. N \in Nat /\ N = Len(dates) /\ Window = 1 .. N
    BY <1>1, WindowCount DEF IInv, TypeOK, N, Window
  <2>3. \A k \in Window : ran[k] # {}
    <3>1. N = 0 \/ ran[N] # {}
      BY <1>1 DEF Started
    <3> QED
      BY <1>1, <2>2, <3>1, AllRan
  <2>4. ASSUME NEW k \in Window
        PROVE  dates[k].first \in Int /\ dates[k].last \in Int
    <3> DEFINE W == [first : Int, last : Int]
    <3>1. \A w \in W : w.first \in Int /\ w.last \in Int
      OBVIOUS
    <3>2. dates \in Seq(W)
      BY <1>1 DEF IInv, TypeOK, DateList
    <3> HIDE DEF W
    <3>3. dates[k] \in W
      BY <2>2, <3>2
    <3> QED
      BY <3>1, <3>3
  <2>5. ASSUME NEW d \in range.start .. range.end, NEW j \in On(d), NEW k \in On(d)
        PROVE  j = k
    <3>1. /\ j \in Window /\ dates[j].first <= d /\ d <= dates[j].last
          /\ k \in Window /\ dates[k].first <= d /\ d <= dates[k].last
      BY DEF On
    <3>2. ~ (j < k) /\ ~ (k < j)
      BY <2>1, <2>2, <2>4, <3>1 DEF Tiling
    <3> QED
      BY <2>2, <3>1, <3>2
  <2>6. ASSUME NEW d \in range.start .. range.end, range.type \in 1 .. 3,
               ~ (range.type # 1 /\ d = range.end)
        PROVE  \E k \in On(d) : ran[k] # {}
    <3>1. More(range.type, d, range.end)
      <4>1. d \in Int /\ d <= range.end /\ range.type \in {1, 2, 3}
            /\ (range.type # 1 => d < range.end)
        BY <2>1, <2>6
      <4> QED
        BY <4>1 DEF More
    <3>2. PICK k \in 1 .. Len(dates) : dates[k].first <= d /\ d <= dates[k].last
      BY <2>1, <3>1 DEF Tiling
    <3> QED
      BY <2>2, <2>3, <3>2 DEF On
  <2>7. ASSUME range.type = 3, NEW i \in DOMAIN FirstDay, range.start = FirstDay[i],
               NEW k \in Window
        PROVE  WholeMonth(dates[k])
    <3>1. i \in FirstMonth .. LastMonth
      BY FirstDayDefined
    <3> QED
      BY <2>1, <2>2, <2>7, <3>1 DEF Tiling
  <2> QED
    BY <2>5, <2>6, <2>7
<1> QED
  BY <1>1, SpecIInv, SpecStarted, PTL

-----------------------------------------------------------------------------
(* The back-fill goes on.                                                  *)

\* How far processes can be: those that are down or dead, and those at the end;
\* what a process has gone past has been reported.
Ends ==
    \A p \in Proc :
        /\ pc[p] = "off" => index[p] = 0
        /\ pc[p] = "end" => index[p] = N
        /\ pc[p] = "dead" => faults > 0

Past == \A p \in Proc : \A j \in Window : j < index[p] => j \in finished

\* Without failures a lock is held for a window that is started, or about to be,
\* and a window that is started runs or has reported.
Taken ==
    \A k \in held : ran[k] # {} \/ \E p \in Proc : pc[p] = "locked" /\ index[p] = k

Outcome == \A k \in Window : ran[k] # {} => active[k] # {} \/ k \in finished

\* What NeverStandsStill says of window k.
Pursued(k) ==
    (k \notin finished /\ (k = 1 \/ k - 1 \in finished)) =>
        active[k] # {} \/ \E p \in Proc : Heading(p, k)

Going ==
    /\ Ends
    /\ Past
    /\ faults = 0 => Taken /\ Outcome /\ \A k \in Window : Pursued(k)

LEMMA InitGoing == Init => Going
<1> SUFFICES ASSUME Init PROVE Going
  OBVIOUS
<1>1. \E p \in Proc : pc[p] = "due"
  BY DEF Init
<1>2. N \in Nat
  BY InitIInv, WindowCount DEF IInv, TypeOK
<1>3. Ends /\ Past /\ Taken /\ Outcome
  BY <1>2 DEF Init, Ends, Past, Taken, Outcome, Window
<1>4. ASSUME NEW k \in Window PROVE Pursued(k)
  BY <1>1, <1>2 DEF Init, Pursued, Heading, Window
<1> QED
  BY <1>3, <1>4 DEF Going

\* Going for a window keeps it pursued: either the process gets its lock, or who
\* has the lock is at the window, or the window is over.
LEMMA GoForGoing ==
  ASSUME IInv, Going, NEW p \in Proc, GoFor(p),
         index[p] < N, Cleared(index[p]), pc[p] \in {"due", "wait"},
         UNCHANGED <<asked, active, ran, finished, faults>>,
         \A q \in Proc \ {p} : inbox'[q] = inbox[q],
         \A k \in Window : Heading(p, k) => k = index[p] + 1
  PROVE  Going'
<1> DEFINE g == index[p] + 1
<1>0. /\ N \in Nat /\ N' = N /\ Window' = Window
      /\ index[p] \in 0 .. N /\ g \in Window
      /\ index \in [Proc -> 0 .. N] /\ last \in [Proc -> 0 .. N]
      /\ pc \in [Proc -> {"off", "due", "wait", "locked", "end", "dead"}]
  BY WindowCount DEF IInv, TypeOK, asked, N, Window
<1> USE <1>0
<1>1. /\ last' = [last EXCEPT ![p] = g]
      /\ \/ /\ g \in held
            /\ pc' = [pc EXCEPT ![p] = "wait"]
            /\ UNCHANGED <<index, held>>
         \/ /\ pc' = [pc EXCEPT ![p] = "locked"]
            /\ index' = [index EXCEPT ![p] = g]
            /\ held' = held \cup {g}
  BY DEF GoFor
<1>2. Ends'
  BY <1>1 DEF Ends, Going
<1>3. Past'
  <2> SUFFICES ASSUME NEW q \in Proc, NEW j \in Window, j < index'[q]
               PROVE  j \in finished
    BY DEF Past
  <2>1. CASE q = p /\ j = index[p]
    BY <2>1 DEF Cleared, Window
  <2>2. CASE ~ (q = p /\ j = index[p])
    <3>1. j < index[q]
      BY <1>1, <2>2 DEF Window
    <3> QED
      BY <3>1 DEF Past, Going
  <2> QED
    BY <2>1, <2>2
<1>4. ASSUME faults = 0 PROVE Taken'
  <2> SUFFICES ASSUME NEW k \in held', ran[k] = {}
               PROVE  \E q \in Proc : pc'[q] = "locked" /\ index'[q] = k
    BY DEF Taken
  <2>1. CASE k \in held
    <3>1. PICK q \in Proc : pc[q] = "locked" /\ index[q] = k
      BY <1>4, <2>1 DEF Taken, Going
    <3>2. q # p
      BY <3>1
    <3> QED
      BY <1>1, <3>1, <3>2
  <2>2. CASE k \notin held
    <3>1. k = g /\ pc'[p] = "locked" /\ index'[p] = g
      BY <1>1, <2>2
    <3> QED
      BY <3>1
  <2> QED
    BY <2>1, <2>2
<1>5. ASSUME faults = 0 PROVE Outcome'
  BY <1>5 DEF Outcome, Going
<1>6. ASSUME faults = 0, NEW k \in Window PROVE Pursued(k)'
  <2> SUFFICES ASSUME k \notin finished, k = 1 \/ k - 1 \in finished, active[k] = {}
               PROVE  \E q \in Proc : Heading(q, k)'
    BY DEF Pursued
  <2>1. PICK q \in Proc : Heading(q, k)
    BY <1>6 DEF Going, Pursued
  <2>2. CASE q # p
    <3>1. /\ pc'[q] = pc[q] /\ index'[q] = index[q] /\ last'[q] = last[q]
          /\ inbox'[q] = inbox[q]
      BY <1>1, <2>2
    <3> QED
      BY <2>1, <3>1 DEF Heading
  <2>3. CASE q = p
    <3>1. k = g
      BY <2>1, <2>3
    <3>2. CASE g \in held
      <4>1. ran[g] = {}
        BY <1>6, <3>1 DEF Going, Outcome
      <4>2. PICK s \in Proc : pc[s] = "locked" /\ index[s] = g
        BY <1>6, <3>2, <4>1 DEF Going, Taken
      <4>3. pc'[s] = "locked" /\ index'[s] = g
        BY <1>1, <4>2
      <4> QED
        BY <3>1, <4>3 DEF Heading
    <3>3. CASE g \notin held
      <4>1. pc'[p] = "locked" /\ index'[p] = g
        BY <1>1, <3>3
      <4> QED
        BY <3>1, <4>1 DEF Heading
    <3> QED
      BY <3>2, <3>3
  <2> QED
    BY <2>2, <2>3
<1> QED
  BY <1>2, <1>3, <1>4, <1>5, <1>6 DEF Going

LEMMA NextGoing == IInv /\ Started /\ Going /\ [Next]_vars => Going'
<1> SUFFICES ASSUME IInv, Started, Going, [Next]_vars PROVE Going'
  OBVIOUS
<1>0. /\ N \in Nat /\ N' = N /\ Window' = Window
      /\ index \in [Proc -> 0 .. N] /\ last \in [Proc -> 0 .. N]
      /\ pc \in [Proc -> {"off", "due", "wait", "locked", "end", "dead"}]
      /\ inbox \in [Proc -> Seq(Window)]
      /\ active \in [Window -> SUBSET Proc] /\ ran \in [Window -> SUBSET Proc]
      /\ finished \subseteq Window /\ faults \in Nat
  BY WindowCount, AskedStays, FaultsBounded DEF IInv, TypeOK
<1> USE <1>0
<1>1. ASSUME NEW p \in Proc, First(p) PROVE Going'
  <2>1. CASE N = 0
    <3>1. /\ pc' = [pc EXCEPT ![p] = "end"] /\ pc[p] = "due"
          /\ UNCHANGED <<index, held, active, ran, finished, faults>>
          /\ Window = {}
      BY <1>1, <2>1 DEF First, Window
    <3>2. index[p] = 0 /\ held = {}
      BY <3>1 DEF IInv, Places, TypeOK
    <3> QED
      BY <2>1, <3>1, <3>2 DEF Going, Ends, Past, Taken, Outcome
  <2>2. CASE N # 0
    <3>1. /\ GoFor(p) /\ pc[p] = "due"
          /\ UNCHANGED <<asked, inbox, active, ran, finished, faults>>
      BY <1>1, <2>2 DEF First
    <3>2. index[p] = 0
      BY <3>1 DEF IInv, Places
    <3>3. Cleared(index[p]) /\ index[p] < N
      BY <2>2, <3>2 DEF Cleared
    <3>4. \A k \in Window : Heading(p, k) => k = index[p] + 1
      BY <3>1, <3>2 DEF Heading
    <3> QED
      BY <3>1, <3>3, <3>4, GoForGoing
  <2> QED
    BY <2>1, <2>2
<1>2. ASSUME NEW p \in Proc, Receive(p) PROVE Going'
  <2>1. /\ pc[p] = "wait" /\ inbox[p] # <<>> /\ inbox[p] \in Seq(Window)
        /\ inbox' = [inbox EXCEPT ![p] = Tail(inbox[p])]
        /\ UNCHANGED <<asked, active, ran, finished, faults>>
    BY <1>2 DEF Receive
  <2>2. CASE Head(inbox[p]) = last[p]
    <3>1. GoFor(p)
      BY <1>2, <2>2 DEF Receive
    <3>2. Head(inbox[p]) \in finished
      BY <2>1 DEF IInv, Heard
    <3>3. Cleared(index[p]) /\ index[p] < N
      BY <2>1, <2>2, <3>2 DEF IInv, Places, Order, Cleared
    <3>4. \A k \in Window : Heading(p, k) => k = index[p] + 1
      BY <2>1 DEF Heading, Window
    <3>5. \A q \in Proc \ {p} : inbox'[q] = inbox[q]
      BY <2>1
    <3> QED
      BY <2>1, <3>1, <3>3, <3>4, <3>5, GoForGoing
  <2>3. CASE Head(inbox[p]) # last[p]
    <3>1. UNCHANGED <<pc, index, last, held>>
      BY <1>2, <2>3 DEF Receive
    <3>2. ASSUME NEW q \in Proc, NEW k \in Window, Heading(q, k)
          PROVE  Heading(q, k)'
      <4>1. CASE q # p
        <5>1. inbox'[q] = inbox[q]
          BY <2>1, <4>1
        <5> QED
          BY <3>1, <3>2, <5>1 DEF Heading
      <4>2. CASE q = p
        <5>1. last[p] = k - 1 /\ index[p] = k - 1
          BY <2>1, <3>2, <4>2 DEF Heading
        <5>2. PICK i \in 1 .. Len(inbox[p]) : inbox[p][i] = k - 1
          BY <2>1, <3>2, <4>2 DEF Heading
        <5>3. i # 1
          BY <2>1, <2>3, <5>1, <5>2
        <5>4. i - 1 \in 1 .. Len(Tail(inbox[p])) /\ Tail(inbox[p])[i - 1] = k - 1
          BY <2>1, <5>2, <5>3
        <5>5. inbox'[p] = Tail(inbox[p])
          BY <2>1
        <5> QED
          BY <2>1, <3>1, <4>2, <5>1, <5>4, <5>5 DEF Heading
      <4> QED
        BY <4>1, <4>2
    <3>3. ASSUME NEW k \in Window, Pursued(k) PROVE Pursued(k)'
      BY <2>1, <3>2, <3>3 DEF Pursued
    <3>4. Ends' /\ Past' /\ (Taken => Taken') /\ (Outcome => Outcome')
      BY <2>1, <3>1 DEF Going, Ends, Past, Taken, Outcome
    <3> QED
      BY <2>1, <3>3, <3>4 DEF Going
  <2> QED
    BY <2>2, <2>3
<1>3. ASSUME NEW p \in Proc, StartRun(p) PROVE Going'
  <2> DEFINE g == index[p]
  <2>1. /\ pc[p] = "locked"
        /\ active' = [active EXCEPT ![g] = active[g] \cup {p}]
        /\ ran' = [ran EXCEPT ![g] = ran[g] \cup {p}]
        /\ pc' = [pc EXCEPT ![p] = IF g = N THEN "end" ELSE "wait"]
        /\ UNCHANGED <<index, last, inbox, held, finished, faults>>
    BY <1>3 DEF StartRun
  <2>2. g \in Window
    BY <2>1 DEF IInv, TypeOK
  <2>3. /\ \A k \in Window : active[k] \subseteq active'[k] /\ ran[k] \subseteq ran'[k]
        /\ active'[g] # {} /\ ran'[g] # {}
        /\ \A k \in Window : k # g => ran'[k] = ran[k]
    BY <2>1, <2>2
  <2>4. Ends' /\ Past'
    BY <2>1 DEF Going, Ends, Past
  <2>5. Outcome => Outcome'
    BY <2>1, <2>3 DEF Outcome
  <2>6. Taken => Taken'
    <3> SUFFICES ASSUME Taken, NEW k \in held, ran'[k] = {}
                 PROVE  \E q \in Proc : pc'[q] = "locked" /\ index'[q] = k
      BY <2>1 DEF Taken
    <3>1. k \in Window /\ k # g /\ ran[k] = {}
      BY <2>3 DEF IInv, TypeOK
    <3>2. PICK q \in Proc : pc[q] = "locked" /\ index[q] = k
      BY <3>1 DEF Taken
    <3>3. q # p
      BY <3>1, <3>2
    <3> QED
      BY <2>1, <3>2, <3>3
  <2>7. ASSUME NEW k \in Window, Pursued(k) PROVE Pursued(k)'
    <3> SUFFICES ASSUME k \notin finished, k = 1 \/ k - 1 \in finished,
                        active'[k] = {}
                 PROVE  \E q \in Proc : Heading(q, k)'
      BY <2>1 DEF Pursued
    <3>1. k # g /\ active[k] = {}
      BY <2>3
    <3>2. PICK q \in Proc : Heading(q, k)
      BY <2>7, <3>1 DEF Pursued
    <3>3. q # p
      BY <2>1, <3>1, <3>2 DEF Heading
    <3>4. pc'[q] = pc[q]
      BY <2>1, <3>3
    <3> QED
      BY <2>1, <3>2, <3>4 DEF Heading
  <2> QED
    BY <2>1, <2>4, <2>5, <2>6, <2>7 DEF Going
<1>4. ASSUME NEW p \in Proc, Die(p) PROVE Going'
  <2>1. /\ faults' = faults + 1 /\ faults' # 0 /\ faults' > 0
        /\ pc' = [pc EXCEPT ![p] = "dead"]
        /\ UNCHANGED <<index, finished>>
    BY <1>4 DEF Die
  <2> QED
    BY <2>1 DEF Going, Ends, Past
<1>5. ASSUME NEW j \in Window, Expire(j) PROVE Going'
  <2>1. /\ held' \subseteq held
        /\ UNCHANGED <<pc, index, last, inbox, active, ran, finished, faults>>
    BY <1>5 DEF Expire
  <2>2. \A k \in Window : Pursued(k) => Pursued(k)'
    BY <2>1 DEF Pursued, Heading
  <2>3. Ends' /\ Past' /\ (Taken => Taken') /\ (Outcome => Outcome')
    BY <2>1 DEF Going, Ends, Past, Taken, Outcome
  <2> QED
    BY <2>1, <2>2, <2>3 DEF Going
<1>6. ASSUME NEW j \in Window, NEW p \in Proc, Finish(j, p) PROVE Going'
  <2>1. /\ p \in active[j]
        /\ active' = [active EXCEPT ![j] = active[j] \ {p}]
        /\ finished' = finished \cup {j}
        /\ inbox' = [q \in Proc |-> IF Subscribed(q) THEN Append(inbox[q], j)
                                                     ELSE inbox[q]]
        /\ UNCHANGED <<pc, index, last, held, ran, faults>>
    BY <1>6 DEF Finish
  <2>2. \A k \in Window : k # j => active'[k] = active[k]
    BY <2>1
  <2>3. Ends' /\ Past' /\ (Taken => Taken') /\ (Outcome => Outcome')
    BY <2>1, <2>2 DEF Going, Ends, Past, Taken, Outcome
  <2>4. ASSUME NEW q \in Proc
        PROVE  /\ Len(inbox[q]) \in Nat /\ Len(inbox'[q]) \in Nat
               /\ Len(inbox[q]) <= Len(inbox'[q])
               /\ \A i \in 1 .. Len(inbox[q]) : inbox'[q][i] = inbox[q][i]
               /\ pc[q] = "wait" =>
                     \E i \in 1 .. Len(inbox'[q]) : inbox'[q][i] = j
    <3>1. inbox[q] \in Seq(Window)
      OBVIOUS
    <3>2. CASE Subscribed(q)
      <4>1. inbox'[q] = Append(inbox[q], j)
        BY <2>1, <3>2
      <4>2. /\ Len(Append(inbox[q], j)) = Len(inbox[q]) + 1
            /\ Append(inbox[q], j)[Len(inbox[q]) + 1] = j
        BY <3>1
      <4> QED
        BY <3>1, <4>1, <4>2
    <3>3. CASE ~ Subscribed(q)
      <4>1. inbox'[q] = inbox[q] /\ pc[q] # "wait"
        BY <2>1, <3>3 DEF Subscribed
      <4> QED
        BY <3>1, <4>1
    <3> QED
      BY <3>2, <3>3
  <2>5. ASSUME NEW q \in Proc, NEW k \in Window, Heading(q, k)
        PROVE  Heading(q, k)'
    <3>1. CASE pc[q] # "wait"
      BY <2>1, <2>5, <3>1 DEF Heading
    <3>2. CASE pc[q] = "wait"
      <4>1. /\ index[q] = k - 1 /\ last[q] = k - 1
            /\ \E i \in 1 .. Len(inbox[q]) : inbox[q][i] = k - 1
        BY <2>5, <3>2 DEF Heading
      <4>2. \E i \in 1 .. Len(inbox'[q]) : inbox'[q][i] = k - 1
        BY <2>4, <4>1
      <4> QED
        BY <2>1, <3>2, <4>1, <4>2 DEF Heading
    <3> QED
      BY <3>1, <3>2
  <2>6. ASSUME faults = 0, NEW k \in Window PROVE Pursued(k)'
    <3> SUFFICES ASSUME k \notin finished', k = 1 \/ k - 1 \in finished',
                        active'[k] = {}
                 PROVE  \E q \in Proc : Heading(q, k)'
      BY DEF Pursued
    <3>1. k # j /\ k \notin finished /\ active[k] = {}
      BY <2>1, <2>2
    <3>2. CASE k = 1 \/ k - 1 \in finished
      <4>1. PICK q \in Proc : Heading(q, k)
        BY <2>6, <3>1, <3>2 DEF Going, Pursued
      <4> QED
        BY <2>5, <4>1
    <3>3. CASE ~ (k = 1 \/ k - 1 \in finished)
      <4>1. j = k - 1 /\ j \notin finished
        BY <2>1, <3>3
      <4>2. p \in ran[j]
        BY <2>1 DEF Started
      <4>3. ~ (j < index[p])
        BY <4>1 DEF Going, Past
      <4>4. j = index[p] /\ pc[p] # "locked"
        BY <4>2, <4>3 DEF IInv, Once
      <4>5. pc[p] = "wait"
        <5>1. j # 0 /\ j # N
          BY <4>1 DEF Window
        <5>2. pc[p] # "off" /\ pc[p] # "end" /\ pc[p] # "dead"
          BY <2>6, <4>4, <5>1 DEF Going, Ends
        <5>3. pc[p] # "due"
          BY <4>4, <5>1 DEF IInv, Places
        <5> QED
          BY <4>4, <5>2, <5>3
      <4>6. last[p] = j
        BY <4>1, <4>4, <4>5 DEF IInv, Places, Order, Cleared, Window
      <4>7. /\ pc'[p] = "wait" /\ index'[p] = k - 1 /\ last'[p] = k - 1
            /\ \E i \in 1 .. Len(inbox'[p]) : inbox'[p][i] = k - 1
        BY <2>1, <2>4, <4>1, <4>4, <4>5, <4>6
      <4>8. Heading(p, k)'
        BY <4>7 DEF Heading
      <4> QED
        BY <4>8
    <3> QED
      BY <3>2, <3>3
  <2> QED
    BY <2>1, <2>3, <2>6 DEF Going
<1>7. ASSUME NEW j \in Window, NEW p \in Proc, RunDies(j, p) PROVE Going'
  <2>1. /\ faults' = faults + 1 /\ faults' # 0 /\ faults' > 0
        /\ UNCHANGED <<pc, index, finished>>
    BY <1>7 DEF RunDies
  <2> QED
    BY <2>1 DEF Going, Ends, Past
<1>8. CASE UNCHANGED vars
  <2>1. UNCHANGED <<pc, index, last, inbox, held, active, ran, finished, faults>>
    BY <1>8 DEF vars
  <2>2. \A k \in Window : Pursued(k) => Pursued(k)'
    BY <2>1 DEF Pursued, Heading
  <2>3. Ends' /\ Past' /\ (Taken => Taken') /\ (Outcome => Outcome')
    BY <2>1 DEF Going, Ends, Past, Taken, Outcome
  <2> QED
    BY <2>1, <2>2, <2>3 DEF Going
<1> QED
  BY <1>1, <1>2, <1>3, <1>4, <1>5, <1>6, <1>7, <1>8 DEF Next, Step

\* Without failures somebody is always at the next window: what BackfillCompletes
\* owes to the code, apart from the fairness of its threads.
THEOREM GoesOn == Spec => []NeverStandsStill
<1>1. Going => NeverStandsStill
  BY DEF Going, Pursued, NeverStandsStill
<1>2. Spec => []Going
  BY InitGoing, NextGoing, SpecIInv, SpecStarted, PTL DEF Spec
<1> QED
  BY <1>1, <1>2, PTL
================================================================================
