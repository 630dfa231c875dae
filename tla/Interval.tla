------------------------------ MODULE Interval ------------------------------
(***************************************************************************)
(* The interval list of atmotube-interval.c: averaging windows keyed by    *)
(* (device_id, label, fmt), each of which turns the notifications of one   *)
(* characteristic into one callback per period.                            *)
(*                                                                         *)
(* intervalList is one GSList.  Every operation but interval_log works on  *)
(* the first node with the given key (find_in_list) and interval_log works *)
(* on all of them, so only the order among nodes of one key can be told    *)
(* apart: the list is kept as a sequence of nodes per key.                 *)
(*                                                                         *)
(* Time is the wall clock of gettimeofday, which may be set back.  The     *)
(* fields since, sum, lo and hi of a node are history: when the window was *)
(* opened, and the sum, least and greatest of the samples taken in it.     *)
(* current_ts is left out: nothing but interval_dump reads it.             *)
(***************************************************************************)
EXTENDS RollingAverage, Sequences, FiniteSets

CONSTANTS
    Keys,        \* the (device_id, label, fmt) triples
    UlongKeys,   \* those whose fmt is format_ld; the others are format_fl
    Periods,     \* the values of interval_ms
    Samples,     \* the values notifications carry
    MaxCopies,   \* bound: nodes of one key in the list
    MaxTimes,    \* bound: samples in an open window
    MaxClock,    \* bound: last instant of the run
    MaxSlips     \* bound: how often the wall clock is set back

ASSUME IntervalAssumption ==
    /\ UlongKeys \subseteq Keys
    /\ Periods \subseteq Nat
    /\ Samples \subseteq Nat
    /\ {MaxCopies, MaxTimes, MaxClock, MaxSlips} \subseteq Nat

VARIABLES
    intervals,  \* key -> its nodes of intervalList, in list order
    clock,      \* what getTimeStamp () returns
    slips,      \* how often the clock was set back
    reports     \* the callbacks made by the last step

vars == <<intervals, clock, slips, reports>>

Node == [started : BOOLEAN, time_interval : Nat, max_ts : Nat, times : Nat,
         current : Nat, callback : BOOLEAN,
         since : Nat, sum : Nat, lo : Nat, hi : Nat]

Report == [key : Keys, copy : Nat, ts : Nat, value : Nat, n : Nat,
           since : Nat, period : Nat, sum : Nat, lo : Nat, hi : Nat]

Found(k) == intervals[k] # <<>>

first(k) == Head(intervals[k])

-----------------------------------------------------------------------------
(* What one sample does to one node.                                       *)

\* Bug: the sample that arrives exactly at the deadline does not close.
WindowClosedLate(i, ts) == ts > i.max_ts

WindowClosed(i, ts) == ts >= i.max_ts

\* Bug: re-arm relative to the missed deadline instead of the sample's time.
RearmFromDeadline(i, ts) ==
    IF WindowClosed(i, ts)
    THEN [i EXCEPT !.max_ts = i.max_ts + i.time_interval, !.since = ts]
    ELSE i

\* A closing window is opened anew before the sample is averaged.
Rearm(i, ts) ==
    IF WindowClosed(i, ts)
    THEN [i EXCEPT !.max_ts = ts + i.time_interval, !.since = ts]
    ELSE i

\* Bug: the difference is added with the wrong sign.
AveragedWrongSign(k, i, x) ==
    IF i.times = 0 THEN x
    ELSE i.current + (i.current - x) \div (i.times + 1)

\* Bug: times is incremented after the average instead of before it.
AveragedBeforeCount(k, i, x) ==
    IF i.times = 0 THEN x
    ELSE IF k \in UlongKeys
         THEN appr_rolling_average(i.current, x, i.times)
         ELSE i.current + x

\* current of an unsigned long node is the truncated average; the double of a
\* float node is exact here and represented by times * current.d.
Averaged(k, i, x) ==
    IF i.times = 0 THEN x
    ELSE IF k \in UlongKeys
         THEN appr_rolling_average(i.current, x, i.times + 1)
         ELSE i.current + x

Least(i, x) == IF i.times = 0 \/ x < i.lo THEN x ELSE i.lo

Greatest(i, x) == IF i.times = 0 \/ x > i.hi THEN x ELSE i.hi

Take(k, i, x) ==
    [i EXCEPT !.times = i.times + 1, !.current = Averaged(k, i, x),
              !.sum = i.sum + x, !.lo = Least(i, x), !.hi = Greatest(i, x)]

\* Bug: a closing window does not reset times.
EmptiedKeepsTimes(i) == [i EXCEPT !.sum = 0, !.lo = 0, !.hi = 0]

Emptied(i) == [i EXCEPT !.times = 0, !.sum = 0, !.lo = 0, !.hi = 0]

\* Bug: every sample of the window pushes the deadline back.
LoggedPostpones(k, i, x, ts) ==
    IF ~i.started THEN i
    ELSE IF WindowClosed(i, ts) THEN Emptied(Take(k, Rearm(i, ts), x))
    ELSE [Take(k, i, x) EXCEPT !.max_ts = ts + i.time_interval]

\* Bug: an early return at the deadline when no callback is set.
LoggedNeedsCallback(k, i, x, ts) ==
    IF ~i.started \/ (WindowClosed(i, ts) /\ ~i.callback) THEN i
    ELSE IF WindowClosed(i, ts) THEN Emptied(Take(k, Rearm(i, ts), x))
    ELSE Take(k, i, x)

\* interval_log_impl on a node whose key matches.
Logged(k, i, x, ts) ==
    IF ~i.started THEN i
    ELSE IF WindowClosed(i, ts) THEN Emptied(Take(k, Rearm(i, ts), x))
    ELSE Take(k, i, x)

Due(i, ts) == i.started /\ WindowClosed(i, ts)

\* The callbacks interval_log makes: one per due node that has one.
Callbacks(k, x, ts) ==
    {[key |-> k, copy |-> j, ts |-> ts,
      value |-> Take(k, intervals[k][j], x).current,
      n |-> Take(k, intervals[k][j], x).times,
      since |-> intervals[k][j].since,
      period |-> intervals[k][j].time_interval,
      sum |-> Take(k, intervals[k][j], x).sum,
      lo |-> Take(k, intervals[k][j], x).lo,
      hi |-> Take(k, intervals[k][j], x).hi] :
        j \in {c \in DOMAIN intervals[k] : /\ Due(intervals[k][c], ts)
                                           /\ intervals[k][c].callback}}

-----------------------------------------------------------------------------

NewNode == [started |-> FALSE, time_interval |-> 1, max_ts |-> 0, times |-> 0,
            current |-> 0, callback |-> FALSE,
            since |-> 0, sum |-> 0, lo |-> 0, hi |-> 0]

\* The effect of an operation that replaces the first node of k by `node`.
SetFirst(k, node) ==
    /\ Found(k)
    /\ intervals' = [intervals EXCEPT ![k] = [@ EXCEPT ![1] = node]]
    /\ reports' = {}
    /\ UNCHANGED <<clock, slips>>

Init ==
    /\ intervals = [k \in Keys |-> <<>>]
    /\ clock = 0
    /\ slips = 0
    /\ reports = {}

\* interval_add appends without looking for a node of the same key.
Add(k) ==
    /\ Len(intervals[k]) < MaxCopies
    /\ intervals' = [intervals EXCEPT ![k] = Append(@, NewNode)]
    /\ reports' = {}
    /\ UNCHANGED <<clock, slips>>

\* interval_add_ulong_callback and interval_add_float_callback.
AddCallback(k) == SetFirst(k, [first(k) EXCEPT !.callback = TRUE])

RemoveCallbacks(k) == SetFirst(k, [first(k) EXCEPT !.callback = FALSE])

Start(k, interval_ms) ==
    SetFirst(k, [first(k) EXCEPT !.time_interval = interval_ms,
                                 !.max_ts = clock + interval_ms,
                                 !.started = TRUE,
                                 !.since = clock])

\* interval_stop leaves times and current as they are.
Stop(k) ==
    SetFirst(k, [first(k) EXCEPT !.time_interval = 0,
                                 !.max_ts = 0,
                                 !.started = FALSE])

Remove(k) ==
    /\ Found(k)
    /\ intervals' = [intervals EXCEPT ![k] = Tail(@)]
    /\ reports' = {}
    /\ UNCHANGED <<clock, slips>>

\* interval_log applies interval_log_impl to every node of the list.  Each node
\* reads the clock for itself; here all read the same instant, which leaves out
\* no history of any one node.
Log(k, x) ==
    /\ \A j \in DOMAIN intervals[k] :
          \/ intervals[k][j].times < MaxTimes
          \/ Due(intervals[k][j], clock)
    /\ intervals' = [intervals EXCEPT
                        ![k] = [j \in DOMAIN @ |-> Logged(k, @[j], x, clock)]]
    /\ reports' = Callbacks(k, x, clock)
    /\ UNCHANGED <<clock, slips>>

Tick ==
    /\ clock < MaxClock
    /\ clock' = clock + 1
    /\ reports' = {}
    /\ UNCHANGED <<intervals, slips>>

\* The wall clock is set back (by hand, or by a time daemon).
SetBack ==
    /\ slips < MaxSlips
    /\ clock' \in 0 .. clock - 1
    /\ slips' = slips + 1
    /\ reports' = {}
    /\ UNCHANGED intervals

Next ==
    \/ \E k \in Keys :
          \/ Add(k)
          \/ AddCallback(k)
          \/ RemoveCallbacks(k)
          \/ \E p \in Periods : Start(k, p)
          \/ Stop(k)
          \/ Remove(k)
          \/ \E x \in Samples : Log(k, x)
    \/ Tick
    \/ SetBack

Spec == Init /\ [][Next]_vars

\* Time passes and the sensor keeps notifying; calls of the owner of the list
\* are under no obligation.
Fairness ==
    /\ WF_vars(Tick)
    /\ \A k \in Keys : WF_vars(\E x \in Samples : Log(k, x))

FairSpec == Spec /\ Fairness

-----------------------------------------------------------------------------
(* Properties.                                                             *)

TypeOK ==
    /\ intervals \in [Keys -> Seq(Node)]
    /\ clock \in Nat
    /\ slips \in Nat
    /\ reports \subseteq Report

\* The state behind the reports: an open window's count, average and deadline
\* always belong together.  The average of an unsigned long node stays between
\* its samples and behind their mean, that of a float node is their mean, and
\* the deadline is one period after the opening, whatever calls of
\* interval_stop, interval_start and interval_log came in between.
Consistent(k, i) ==
    /\ i.times = 0 => i.sum = 0
    /\ i.times > 0 =>
          /\ i.lo <= i.hi
          /\ IF k \in UlongKeys
             THEN /\ i.lo <= i.current /\ i.current <= i.hi
                  /\ i.times * i.current <= i.sum
                  /\ 2 * (i.sum - i.times * i.current) <= i.times * (i.times + 1)
             ELSE /\ i.times * i.lo <= i.current
                  /\ i.current <= i.times * i.hi
    /\ i.started => i.max_ts = i.since + i.time_interval

WindowsConsistent ==
    \A k \in Keys : \A j \in DOMAIN intervals[k] : Consistent(k, intervals[k][j])

\* Every value handed to a callback lies between the least and the greatest of
\* the samples of its own window: truncation and the rounding of the double
\* arithmetic in appr_rolling_average never carry the average outside, and no
\* sample of an earlier window is left in it.
ReportWithinWindow ==
    \A r \in reports :
        IF r.key \in UlongKeys
        THEN r.lo <= r.value /\ r.value <= r.hi
        ELSE r.n * r.lo <= r.value /\ r.value <= r.n * r.hi

\* The average of an unsigned long window is never above the mean of its
\* samples, and truncating at every sample loses at most (n+1)/2 units: the
\* integer arithmetic of interval_log_impl drifts in one direction only.
AverageLagsMean ==
    \A r \in reports : r.key \in UlongKeys =>
        LET lag == r.sum - r.n * r.value IN
            0 <= lag /\ 2 * lag <= r.n * (r.n + 1)

\* A callback comes at least one full period after its window was opened, by
\* interval_start or by the callback before it, also when notifications come
\* late and when the wall clock is set back in between.
ReportsSpaced ==
    \A r \in reports : r.ts - r.since >= r.period

\* The deadline of a window moves only when the window is closed by a sample or
\* (re)started by interval_start: a sample inside the window never postpones
\* its report, however many arrive.
DeadlineFixed ==
    [][\A k \in Keys :
          \A j \in DOMAIN intervals[k] \cap DOMAIN intervals'[k] :
             (/\ Len(intervals'[k]) = Len(intervals[k])
              /\ intervals[k][j].started
              /\ intervals'[k][j].started
              /\ intervals'[k][j].max_ts # intervals[k][j].max_ts)
             => \/ intervals'[k][j].times = 0
                \/ \E p \in Periods : Start(k, p)]_vars

\* Samples of an open window are not forgotten: unless its owner stops, restarts
\* or removes the interval, a window that holds a sample and whose deadline the
\* clock can reach is closed.
Pending(k, d) ==
    Found(k) /\ first(k).started /\ first(k).times > 0 /\ first(k).max_ts = d

WindowCloses ==
    \A k \in Keys : \A d \in 0 .. MaxClock : Pending(k, d) ~> ~Pending(k, d)

\* The window that a node stands for, and what a report delivers.
Abstracted(i) ==
    [present |-> TRUE,
     open |-> i.started,
     opened |-> IF i.started THEN i.max_ts - i.time_interval ELSE 0,
     period |-> IF i.started THEN i.time_interval ELSE 0,
     subscribed |-> i.callback,
     n |-> i.times, lo |-> i.lo, hi |-> i.hi]

WindowOf(k) == IF Found(k) THEN Abstracted(first(k)) ELSE [present |-> FALSE]

Delivery(r) ==
    [key |-> r.key, at |-> r.ts,
     total |-> IF r.key \in UlongKeys THEN r.n * r.value ELSE r.value]

\* One interval per key (MaxCopies = 1) implements the abstract windows, with
\* the deadline, the average and the list hidden.
Window == INSTANCE SampleWindow WITH
    window <- [k \in Keys |-> WindowOf(k)],
    delivered <- {Delivery(r) : r \in reports}

ImplementsWindows == Window!Spec

=============================================================================
