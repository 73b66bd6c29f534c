------------------------------- MODULE Backfill -------------------------------
(***************************************************************************)
(* schedule_fix_data (apps/crawl/scheduler/scheduler.py): a back-fill runs *)
(* a spider once for each window of a date range, one window after the     *)
(* other, on the first node of the script.                                 *)
(*                                                                         *)
(* Every web process fires the date job and runs the loop.  It subscribes  *)
(* to the job's Redis channel before it starts the first window; a run     *)
(* reports the end of its window by publishing the window's batch id.  On  *)
(* the batch id it waits for, a process goes for its next window: it takes *)
(* the 30 second lock of that window's batch, which is never released, and *)
(* starts the run, or, if the lock is taken, waits for that same batch.    *)
(*                                                                         *)
(* Windows are numbered from 1; parse_date cuts them from a range.  Each   *)
(* turn of the loop subscribes again and takes one reply; turns that take  *)
(* a confirmation change nothing, so only the messages are kept here.      *)
(***************************************************************************)
EXTENDS ParseDate

CONSTANTS
    Proc,       \* web processes
    Range,      \* ranges a back-fill may ask for: [type, start, end]
    MaxFaults   \* bound on failures

ASSUME ConstantsAssumption ==
    /\ \A r \in Range : r.start \in Date /\ r.end \in Date
    /\ MaxFaults \in Nat

DateList == Seq([first : Int, last : Int])

VARIABLES
    range,      \* start_date, end_date and fix_type of the script's args
    dates,      \* date_list
    pc,         \* pc[p]: "off", "due", "wait", "locked", "end" or "dead"
    index,      \* index[p]: windows p has gone past
    last,       \* last[p]: last_batch_id, 0 for ''
    inbox,      \* inbox[p]: messages on p's subscription not read yet
    held,       \* windows whose lock has not run out
    active,     \* active[k]: processes whose run of window k goes on
    ran,        \* ran[k]: processes that have started window k (history)
    finished,   \* windows some run has reported (history)
    faults      \* failures so far (bound)

asked == <<range, dates>>
vars == <<asked, pc, index, last, inbox, held, active, ran, finished, faults>>

N == Len(dates)
Window == 1 .. N

-----------------------------------------------------------------------------
\* A process that is down at the run date, "off", does not fire the job.
Init ==
    /\ range \in Range
    /\ dates = Windows(range)
    /\ pc \in {f \in [Proc -> {"due", "off"}] : \E p \in Proc : f[p] = "due"}
    /\ index = [p \in Proc |-> 0]
    /\ last = [p \in Proc |-> 0]
    /\ inbox = [p \in Proc |-> <<>>]
    /\ held = {}
    /\ active = [k \in Window |-> {}]
    /\ ran = [k \in Window |-> {}]
    /\ finished = {}
    /\ faults = 0

\* Fault variant: the batch to wait for is set only when the lock is taken.
GoForElse(p) ==
    LET k == index[p] + 1 IN
    IF k \in held
    THEN /\ last' = [last EXCEPT ![p] = k]
         /\ pc' = [pc EXCEPT ![p] = "wait"]
         /\ UNCHANGED <<index, held>>
    ELSE /\ pc' = [pc EXCEPT ![p] = "locked"]
         /\ index' = [index EXCEPT ![p] = k]
         /\ held' = held \cup {k}
         /\ UNCHANGED last

\* The next window's batch becomes the one to wait for, whether or not the lock
\* is got; index moves on only with the lock.
GoFor(p) ==
    LET k == index[p] + 1 IN
    /\ last' = [last EXCEPT ![p] = k]
    /\ IF k \in held
       THEN /\ pc' = [pc EXCEPT ![p] = "wait"]
            /\ UNCHANGED <<index, held>>
       ELSE /\ pc' = [pc EXCEPT ![p] = "locked"]
            /\ index' = [index EXCEPT ![p] = k]
            /\ held' = held \cup {k}

\* The first turn: subscribed, is_first.
First(p) ==
    /\ pc[p] = "due"
    /\ IF N = 0 THEN /\ pc' = [pc EXCEPT ![p] = "end"]
                     /\ UNCHANGED <<index, last, held>>
                ELSE GoFor(p)
    /\ UNCHANGED <<asked, inbox, active, ran, finished, faults>>

\* Fault variant: confirmations of the subscription let the process go on too.
ReceiveConfirmation(p) ==
    /\ pc[p] = "wait"
    /\ GoFor(p)
    /\ UNCHANGED <<asked, inbox, active, ran, finished, faults>>

\* Fault variant: any message lets the process go on.
ReceiveAny(p) ==
    /\ pc[p] = "wait"
    /\ inbox[p] # <<>>
    /\ inbox' = [inbox EXCEPT ![p] = Tail(@)]
    /\ GoFor(p)
    /\ UNCHANGED <<asked, active, ran, finished, faults>>

\* A turn that takes a message.
Receive(p) ==
    /\ pc[p] = "wait"
    /\ inbox[p] # <<>>
    /\ inbox' = [inbox EXCEPT ![p] = Tail(@)]
    /\ IF Head(inbox[p]) = last[p] THEN GoFor(p)
                                   ELSE UNCHANGED <<pc, index, last, held>>
    /\ UNCHANGED <<asked, active, ran, finished, faults>>

\* Fault variant: the loop runs while index <= len(date_list).
StartRunNoEnd(p) ==
    LET k == index[p] IN
    /\ pc[p] = "locked"
    /\ active' = [active EXCEPT ![k] = @ \cup {p}]
    /\ ran' = [ran EXCEPT ![k] = @ \cup {p}]
    /\ pc' = [pc EXCEPT ![p] = "wait"]
    /\ UNCHANGED <<asked, index, last, inbox, held, finished, faults>>

\* Fault variant: index is not moved on.
StartRunStays(p) ==
    LET k == index[p] IN
    /\ pc[p] = "locked"
    /\ active' = [active EXCEPT ![k] = @ \cup {p}]
    /\ ran' = [ran EXCEPT ![k] = @ \cup {p}]
    /\ pc' = [pc EXCEPT ![p] = "wait"]
    /\ index' = [index EXCEPT ![p] = k - 1]
    /\ UNCHANGED <<asked, last, inbox, held, finished, faults>>

\* args#batch is set and scrapyd takes the run; the loop ends with the last
\* window started, without waiting for it.
StartRun(p) ==
    LET k == index[p] IN
    /\ pc[p] = "locked"
    /\ active' = [active EXCEPT ![k] = @ \cup {p}]
    /\ ran' = [ran EXCEPT ![k] = @ \cup {p}]
    /\ pc' = [pc EXCEPT ![p] = IF k = N THEN "end" ELSE "wait"]
    /\ UNCHANGED <<asked, index, last, inbox, held, finished, faults>>

\* Processes that are subscribed to the channel.
Subscribed(q) == pc[q] \in {"wait", "locked"}

\* The run of window k that p started ends and publishes the batch id.
Finish(k, p) ==
    /\ p \in active[k]
    /\ active' = [active EXCEPT ![k] = @ \ {p}]
    /\ finished' = finished \cup {k}
    /\ inbox' = [q \in Proc |-> IF Subscribed(q) THEN Append(inbox[q], k)
                                                 ELSE inbox[q]]
    /\ UNCHANGED <<asked, pc, index, last, held, ran, faults>>

\* Thirty seconds after it was taken.
Expire(k) ==
    /\ k \in held
    /\ held' = held \ {k}
    /\ UNCHANGED <<asked, pc, index, last, inbox, active, ran, finished, faults>>

\* The process stops, or scrapyd or the database raises: nothing in the function
\* catches it, and the date job has left the job store.
Die(p) ==
    /\ faults < MaxFaults
    /\ pc[p] \in {"due", "wait", "locked"}
    /\ faults' = faults + 1
    /\ pc' = [pc EXCEPT ![p] = "dead"]
    /\ UNCHANGED <<asked, index, last, inbox, held, active, ran, finished>>

\* A run ends without publishing.
RunDies(k, p) ==
    /\ faults < MaxFaults
    /\ p \in active[k]
    /\ faults' = faults + 1
    /\ active' = [active EXCEPT ![k] = @ \ {p}]
    /\ UNCHANGED <<asked, pc, index, last, inbox, held, ran, finished>>

Step(p) == First(p) \/ Receive(p) \/ StartRun(p)

Next ==
    \/ \E p \in Proc : Step(p) \/ Die(p)
    \/ \E k \in Window : Expire(k)
    \/ \E k \in Window, p \in Proc : Finish(k, p) \/ RunDies(k, p)

Spec == Init /\ [][Next]_vars

\* The pool thread spins through its loop, and runs end.
FairSpec ==
    /\ Spec
    /\ \A p \in Proc : WF_vars(Step(p))
    /\ \A p \in Proc : WF_vars(\E k \in Window : Finish(k, p))

-----------------------------------------------------------------------------
TypeOK ==
    /\ range \in Range
    /\ dates \in DateList
    /\ pc \in [Proc -> {"off", "due", "wait", "locked", "end", "dead"}]
    /\ index \in [Proc -> 0 .. N]
    /\ last \in [Proc -> 0 .. N]
    /\ inbox \in [Proc -> Seq(Window)]
    /\ held \subseteq Window
    /\ active \in [Window -> SUBSET Proc]
    /\ ran \in [Window -> SUBSET Proc]
    /\ finished \subseteq Window
    /\ faults \in 0 .. MaxFaults
    /\ \A p \in Proc : pc[p] = "locked" => index[p] \in Window

\* No window is started, by any process, before some run of the window before
\* it has reported its end: late, repeated and other windows' messages never
\* let a process run ahead.
WindowAfterPredecessor ==
    \A k \in Window : (k > 1 /\ ran[k] # {}) => (k - 1) \in finished

\* A process starts a window at most once, so a window runs at most once for
\* each web process, although its lock may run out while it waits.
StartsOnce ==
    [][\A p \in Proc : \A k \in Window :
          (p \in active'[k] /\ p \notin active[k]) => p \notin ran[k]]_vars

\* With one process up, two windows never run at the same time.
Alone == \A p, q \in Proc : pc[p] # "off" /\ pc[q] # "off" => p = q

OneWindowAtATime ==
    Alone => \A j, k \in Window : active[j] # {} /\ active[k] # {} => j = k

\* The windows that take in day d.
On(d) == {k \in Window : dates[k].first <= d /\ d <= dates[k].last}

\* Once a process has come to the end of its loop, each day of the range has been
\* run by exactly one window, up to the end: a range by weeks or months leaves
\* out an end that falls on the first day of a window.  Months asked for from
\* their first day are whole months.
RunsTileRange ==
    (\E p \in Proc : pc[p] = "end") =>
        /\ \A d \in range.start .. range.end :
              /\ \A j, k \in On(d) : j = k
              /\ \/ \E k \in On(d) : ran[k] # {}
                 \/ range.type \notin 1 .. 3
                 \/ range.type # 1 /\ d = range.end
        /\ (range.type = 3 /\ \E i \in DOMAIN FirstDay : range.start = FirstDay[i]) =>
              \A k \in Window :
                 /\ dates[k].first = FirstDay[MonthOf(dates[k].first)]
                 /\ dates[k].last + 1 = FirstDay[MonthOf(dates[k].first) + 1]

\* Process p is about to start window k, or has been sent the message that lets
\* it go for k.
Heading(p, k) ==
    \/ k = 1 /\ pc[p] = "due"
    \/ pc[p] = "locked" /\ index[p] = k
    \/ /\ pc[p] = "wait" /\ index[p] = k - 1 /\ last[p] = k - 1
       /\ \E i \in 1 .. Len(inbox[p]) : inbox[p][i] = k - 1

\* Without failures the back-fill is never at a standstill: the window after the
\* last reported one runs, or some process is heading for it, although locks run
\* out, messages are lost on those not subscribed and the losers of a lock wait
\* for others.
NeverStandsStill ==
    faults = 0 =>
        \A k \in Window \ finished : (k = 1 \/ k - 1 \in finished) =>
            active[k] # {} \/ \E p \in Proc : Heading(p, k)

\* Without failures every window is run and reports, however the processes
\* race for the locks and however early these run out.
BackfillCompletes == <>(faults > 0 \/ finished = Window)

\* With a single process up and no failures the thread comes to its end.
ThreadEnds ==
    Alone => <>(faults > 0 \/ \A p \in Proc : pc[p] \in {"off", "end"})
=============================================================================
