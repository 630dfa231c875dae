--------------------------- MODULE IntervalProofs ---------------------------
(***************************************************************************)
(* Proofs about Interval: the inductive invariant of a node and of the     *)
(* reports, the theorems about them, and the abstract windows implemented. *)
(***************************************************************************)
EXTENDS Interval, AverageProofs

(* One sample on one node.                                                 *)

USE IntervalAssumption

LEMMA TakeFields ==
    ASSUME NEW k \in Keys, NEW i \in Node, NEW x \in Nat,
           Averaged(k, i, x) \in Nat
    PROVE  /\ Take(k, i, x) \in Node
           /\ Take(k, i, x).times = i.times + 1
           /\ Take(k, i, x).current = Averaged(k, i, x)
           /\ Take(k, i, x).sum = i.sum + x
           /\ Take(k, i, x).lo = Least(i, x)
           /\ Take(k, i, x).hi = Greatest(i, x)
           /\ Take(k, i, x).started = i.started
           /\ Take(k, i, x).max_ts = i.max_ts
           /\ Take(k, i, x).since = i.since
           /\ Take(k, i, x).time_interval = i.time_interval
  <1>1. Least(i, x) \in Nat /\ Greatest(i, x) \in Nat
    BY DEF Least, Greatest, Node
  <1>2. i.times + 1 \in Nat /\ i.sum + x \in Nat
    BY DEF Node
  <1>3. Take(k, i, x) \in Node
    BY <1>1, <1>2 DEF Take, Node
  <1>4. QED
    BY <1>3 DEF Take, Node

LEMMA Bounds ==
    ASSUME NEW i \in Node, NEW x \in Nat, i.times > 0 => i.lo <= i.hi
    PROVE  /\ Least(i, x) \in Nat /\ Greatest(i, x) \in Nat
           /\ Least(i, x) <= x /\ x <= Greatest(i, x)
           /\ i.times > 0 => Least(i, x) <= i.lo /\ i.hi <= Greatest(i, x)
  BY DEF Least, Greatest, Node

\* The first sample of a window is its average.
LEMMA TakeFirst ==
    ASSUME NEW k \in Keys, NEW i \in Node, NEW x \in Nat,
           Consistent(k, i), i.times = 0
    PROVE  Take(k, i, x) \in Node /\ Consistent(k, Take(k, i, x))
  <1> DEFINE t == Take(k, i, x)
  <1>1. Averaged(k, i, x) = x
    BY DEF Averaged
  <1>2. Least(i, x) = x /\ Greatest(i, x) = x
    BY DEF Least, Greatest
  <1>3. /\ t \in Node /\ t.times = 1 /\ t.current = x /\ t.sum = x
        /\ t.lo = x /\ t.hi = x
        /\ t.started = i.started /\ t.max_ts = i.max_ts /\ t.since = i.since
        /\ t.time_interval = i.time_interval
    BY <1>1, <1>2, TakeFields DEF Consistent
  <1> HIDE DEF t
  <1>4. Consistent(k, t)
    BY <1>3 DEF Consistent
  <1>5. QED
    BY <1>3, <1>4 DEF t

\* A further sample of an unsigned long window: the average follows the bounds
\* by AverageWithin, and falls behind the sum by at most times + 1 more.
LEMMA TakeUlong ==
    ASSUME NEW k \in UlongKeys, NEW i \in Node, NEW x \in Nat,
           Consistent(k, i), i.times # 0
    PROVE  Take(k, i, x) \in Node /\ Consistent(k, Take(k, i, x))
  <1> DEFINE t == Take(k, i, x)
             n == i.times + 1
             avg == appr_rolling_average(i.current, x, n)
             lo == Least(i, x)
             hi == Greatest(i, x)
  <1>1. /\ i.times \in Nat /\ i.current \in Nat /\ i.sum \in Nat
        /\ i.lo \in Nat /\ i.hi \in Nat /\ n \in Nat /\ n >= 2
    BY DEF Node
  <1>2. /\ i.lo <= i.current /\ i.current <= i.hi /\ i.lo <= i.hi
        /\ i.times * i.current <= i.sum
        /\ 2 * (i.sum - i.times * i.current) <= i.times * (i.times + 1)
        /\ i.started => i.max_ts = i.since + i.time_interval
    BY <1>1 DEF Consistent
  <1>3. /\ lo \in Nat /\ hi \in Nat
        /\ lo <= i.current /\ i.current <= hi
        /\ lo <= x /\ x <= hi /\ lo <= hi
    BY <1>1, <1>2, Bounds
  <1>4. /\ ExactAverage(i.current, x, n) >= RoundingError(i.current, x, n)
        /\ lo <= avg /\ avg <= hi
    BY <1>1, <1>3, AverageWithin
  <1>5. /\ avg \in Nat
        /\ n * avg <= (n - 1) * i.current + x
        /\ (n - 1) * i.current + x <= n * avg + n
    BY <1>1, <1>4, AverageLoss
  <1>6. /\ n * avg <= i.sum + x
        /\ 2 * (i.sum + x - n * avg) <= n * (n + 1)
    <2>1. n - 1 = i.times
      BY <1>1
    <2>2. n * (n + 1) = i.times * (i.times + 1) + 2 * n
      BY <1>1, Z3
    <2>3. n * avg \in Nat /\ i.times * i.current \in Nat
      BY <1>1, <1>5, Distribute
    <2>4. i.times * (i.times + 1) \in Nat
      BY <1>1, Distribute
    <2> HIDE DEF n, avg, t
    <2>5. QED
      BY <1>1, <1>2, <1>5, <2>1, <2>2, <2>3, <2>4
  <1>7. Averaged(k, i, x) = avg
    BY DEF Averaged
  <1>8. /\ t \in Node /\ t.times = n /\ t.current = avg /\ t.sum = i.sum + x
        /\ t.lo = lo /\ t.hi = hi
        /\ t.started = i.started /\ t.max_ts = i.max_ts /\ t.since = i.since
        /\ t.time_interval = i.time_interval
    BY <1>5, <1>7, TakeFields
  <1> HIDE DEF t, n, avg, lo, hi
  <1>9. /\ t.times * t.current <= t.sum
        /\ 2 * (t.sum - t.times * t.current) <= t.times * (t.times + 1)
    <2>1. t.times * t.current = n * avg /\ t.times * (t.times + 1) = n * (n + 1)
      BY <1>8, Zenon
    <2>2. n * avg \in Nat /\ n * (n + 1) \in Nat
      BY <1>1, <1>5, Distribute
    <2>3. QED
      BY <1>1, <1>6, <1>8, <2>1, <2>2
  <1>10. /\ t.times # 0 /\ t.lo <= t.hi
         /\ t.lo <= t.current /\ t.current <= t.hi
         /\ t.started => t.max_ts = t.since + t.time_interval
    BY <1>1, <1>2, <1>3, <1>4, <1>8
  <1>11. Consistent(k, t)
    BY <1>9, <1>10, Zenon DEF Consistent
  <1>12. QED
    BY <1>8, <1>11 DEF t

\* A further sample of a float window adds to its total.
LEMMA TakeFloat ==
    ASSUME NEW k \in Keys, k \notin UlongKeys, NEW i \in Node, NEW x \in Nat,
           Consistent(k, i), i.times # 0
    PROVE  Take(k, i, x) \in Node /\ Consistent(k, Take(k, i, x))
  <1> DEFINE t == Take(k, i, x)
             lo == Least(i, x)
             hi == Greatest(i, x)
  <1>1. /\ i.times \in Nat /\ i.current \in Nat /\ i.sum \in Nat
        /\ i.lo \in Nat /\ i.hi \in Nat /\ i.times > 0
    BY DEF Node
  <1>2. /\ i.times * i.lo <= i.current /\ i.current <= i.times * i.hi
        /\ i.lo <= i.hi
        /\ i.started => i.max_ts = i.since + i.time_interval
    BY <1>1 DEF Consistent
  <1>3. /\ lo \in Nat /\ hi \in Nat /\ lo <= i.lo /\ i.hi <= hi
        /\ lo <= x /\ x <= hi /\ lo <= hi
    BY <1>1, <1>2, Bounds
  <1>4. Averaged(k, i, x) = i.current + x /\ i.current + x \in Nat
    BY <1>1 DEF Averaged
  <1>5. /\ t \in Node /\ t.times = i.times + 1 /\ t.current = i.current + x
        /\ t.lo = lo /\ t.hi = hi
        /\ t.started = i.started /\ t.max_ts = i.max_ts /\ t.since = i.since
        /\ t.time_interval = i.time_interval
    BY <1>4, TakeFields
  <1>6. i.times * lo <= i.times * i.lo /\ i.times * i.hi <= i.times * hi
    BY <1>1, <1>3, Scale
  <1>7. /\ (i.times + 1) * lo = i.times * lo + lo
        /\ (i.times + 1) * hi = i.times * hi + hi
    BY <1>1, <1>3, DistributeLeft
  <1>8. /\ i.times * i.lo \in Nat /\ i.times * i.hi \in Nat
        /\ i.times * lo \in Nat /\ i.times * hi \in Nat
    BY <1>1, <1>3, Distribute
  <1> HIDE DEF t, lo, hi
  <1>9. /\ t.times * t.lo <= t.current
        /\ t.current <= t.times * t.hi
    BY <1>1, <1>2, <1>3, <1>5, <1>6, <1>7, <1>8
  <1>10. Consistent(k, t)
    BY <1>1, <1>2, <1>3, <1>5, <1>9 DEF Consistent
  <1>11. QED
    BY <1>5, <1>10 DEF t

LEMMA TakeConsistent ==
    ASSUME NEW k \in Keys, NEW i \in Node, NEW x \in Nat, Consistent(k, i)
    PROVE  /\ Take(k, i, x) \in Node
           /\ Consistent(k, Take(k, i, x))
           /\ Take(k, i, x).times > 0
  <1>1. Take(k, i, x) \in Node /\ Consistent(k, Take(k, i, x))
    BY TakeFirst, TakeUlong, TakeFloat
  <1>2. Take(k, i, x).times > 0
    BY DEF Take, Node
  <1>3. QED
    BY <1>1, <1>2

LEMMA RearmConsistent ==
    ASSUME NEW k \in Keys, NEW i \in Node, NEW ts \in Nat, Consistent(k, i),
           WindowClosed(i, ts)
    PROVE  Rearm(i, ts) \in Node /\ Consistent(k, Rearm(i, ts))
  <1> DEFINE r == Rearm(i, ts)
  <1>1. ts + i.time_interval \in Nat
    BY DEF Node
  <1>2. r \in Node
    BY <1>1 DEF Rearm, Node
  <1>3. /\ r.times = i.times /\ r.sum = i.sum /\ r.current = i.current
        /\ r.lo = i.lo /\ r.hi = i.hi
        /\ r.max_ts = ts + i.time_interval /\ r.since = ts
        /\ r.time_interval = i.time_interval
    BY DEF Rearm, Node
  <1> HIDE DEF r
  <1>4. Consistent(k, r)
    BY <1>3 DEF Consistent
  <1>5. QED
    BY <1>2, <1>4 DEF r

LEMMA EmptiedConsistent ==
    ASSUME NEW k \in Keys, NEW i \in Node, Consistent(k, i)
    PROVE  Emptied(i) \in Node /\ Consistent(k, Emptied(i))
  <1> DEFINE e == Emptied(i)
  <1>1. e \in Node
    BY DEF Emptied, Node
  <1>2. /\ e.times = 0 /\ e.sum = 0
        /\ e.started = i.started /\ e.max_ts = i.max_ts /\ e.since = i.since
        /\ e.time_interval = i.time_interval
    BY DEF Emptied, Node
  <1> HIDE DEF e
  <1>3. Consistent(k, e)
    BY <1>2 DEF Consistent
  <1>4. QED
    BY <1>1, <1>3 DEF e

LEMMA LoggedConsistent ==
    ASSUME NEW k \in Keys, NEW i \in Node, NEW x \in Nat, NEW ts \in Nat,
           Consistent(k, i)
    PROVE  Logged(k, i, x, ts) \in Node /\ Consistent(k, Logged(k, i, x, ts))
  <1> DEFINE r == Rearm(i, ts)
  <1>1. CASE ~i.started
    BY <1>1 DEF Logged
  <1>2. CASE i.started /\ ~WindowClosed(i, ts)
    BY <1>2, TakeConsistent DEF Logged
  <1>3. CASE i.started /\ WindowClosed(i, ts)
    <2>1. r \in Node /\ Consistent(k, r)
      BY <1>3, RearmConsistent
    <2>2. Take(k, r, x) \in Node /\ Consistent(k, Take(k, r, x))
      BY <2>1, TakeConsistent
    <2>3. QED
      BY <1>3, <2>2, EmptiedConsistent DEF Logged
  <1>4. QED
    BY <1>1, <1>2, <1>3

-----------------------------------------------------------------------------
(* One operation on the list of one key.                                   *)

GoodList(k, s) ==
    /\ s \in Seq(Node)
    /\ \A j \in 1 .. Len(s) : Consistent(k, s[j])

GoodLists == intervals \in [Keys -> Seq(Node)] /\ WindowsConsistent

LEMMA GoodListOfKey ==
    ASSUME GoodLists, NEW k \in Keys
    PROVE  GoodList(k, intervals[k])
  <1>1. intervals[k] \in Seq(Node)
    BY DEF GoodLists
  <1>2. DOMAIN intervals[k] = 1 .. Len(intervals[k])
    BY <1>1, LenProperties
  <1>3. QED
    BY <1>1, <1>2 DEF GoodLists, WindowsConsistent, GoodList

LEMMA Replaced ==
    ASSUME GoodLists, NEW k \in Keys, NEW s, GoodList(k, s),
           intervals' = [intervals EXCEPT ![k] = s]
    PROVE  GoodLists'
  <1>1. intervals' \in [Keys -> Seq(Node)]
    BY DEF GoodLists, GoodList
  <1>2. ASSUME NEW q \in Keys
        PROVE  GoodList(q, intervals'[q])
    <2>1. CASE q = k
      BY <2>1 DEF GoodLists
    <2>2. CASE q # k
      BY <2>2, GoodListOfKey DEF GoodLists
    <2>3. QED
      BY <2>1, <2>2
  <1>3. ASSUME NEW q \in Keys, NEW j \in DOMAIN intervals'[q]
        PROVE  Consistent(q, intervals'[q][j])
    <2>1. intervals'[q] \in Seq(Node)
      BY <1>1
    <2>2. DOMAIN intervals'[q] = 1 .. Len(intervals'[q])
      BY <2>1, LenProperties
    <2>3. QED
      BY <1>2, <2>2 DEF GoodList
  <1>4. WindowsConsistent'
    BY <1>3 DEF WindowsConsistent
  <1>5. QED
    BY <1>1, <1>4 DEF GoodLists

LEMMA HeadInList ==
    ASSUME GoodLists, NEW k \in Keys, Found(k)
    PROVE  /\ first(k) \in Node
           /\ Consistent(k, first(k))
           /\ 1 \in 1 .. Len(intervals[k])
  <1>1. GoodList(k, intervals[k])
    BY GoodListOfKey
  <1>2. Len(intervals[k]) \in Nat \ {0}
    BY <1>1, EmptySeq DEF Found, GoodList
  <1>3. first(k) = intervals[k][1] /\ first(k) \in Node
    BY <1>1, <1>2 DEF first, GoodList
  <1>4. QED
    BY <1>1, <1>2, <1>3 DEF GoodList

\* Operations on the first node of a key.
LEMMA SetFirstGood ==
    ASSUME GoodLists, NEW k \in Keys, NEW i \in Node, Consistent(k, i),
           SetFirst(k, i)
    PROVE  GoodLists'
  <1> DEFINE s == [intervals[k] EXCEPT ![1] = i]
  <1>1. GoodList(k, intervals[k]) /\ 1 \in 1 .. Len(intervals[k])
    BY GoodListOfKey, HeadInList DEF SetFirst
  <1>2. /\ s \in Seq(Node) /\ Len(s) = Len(intervals[k])
        /\ \A j \in 1 .. Len(s) : s[j] = IF j = 1 THEN i ELSE intervals[k][j]
    BY <1>1, ExceptSeq DEF GoodList
  <1>3. GoodList(k, s)
    BY <1>1, <1>2 DEF GoodList
  <1>4. intervals' = [intervals EXCEPT ![k] = s]
    BY DEF SetFirst
  <1> HIDE DEF s
  <1>5. QED
    BY <1>3, <1>4, Replaced

LEMMA AddGood ==
    ASSUME GoodLists, NEW k \in Keys, Add(k)
    PROVE  GoodLists'
  <1> DEFINE s == Append(intervals[k], NewNode)
  <1>1. NewNode \in Node /\ Consistent(k, NewNode)
    BY DEF NewNode, Node, Consistent
  <1>2. GoodList(k, intervals[k])
    BY GoodListOfKey
  <1>3. /\ s \in Seq(Node) /\ Len(s) = Len(intervals[k]) + 1
        /\ \A j \in 1 .. Len(intervals[k]) : s[j] = intervals[k][j]
        /\ s[Len(intervals[k]) + 1] = NewNode
    BY <1>1, <1>2, AppendProperties DEF GoodList
  <1>4. Len(intervals[k]) \in Nat
    BY <1>2, LenProperties DEF GoodList
  <1>5. GoodList(k, s)
    BY <1>1, <1>2, <1>3, <1>4 DEF GoodList
  <1>6. intervals' = [intervals EXCEPT ![k] = s]
    BY DEF Add
  <1> HIDE DEF s
  <1>7. QED
    BY <1>5, <1>6, Replaced

LEMMA RemoveGood ==
    ASSUME GoodLists, NEW k \in Keys, Remove(k)
    PROVE  GoodLists'
  <1> DEFINE s == Tail(intervals[k])
  <1>1. GoodList(k, intervals[k]) /\ intervals[k] # <<>>
    BY GoodListOfKey DEF Remove, Found
  <1>2. /\ s \in Seq(Node) /\ Len(s) = Len(intervals[k]) - 1
        /\ \A j \in 1 .. Len(s) : s[j] = intervals[k][j + 1]
    BY <1>1, HeadTailProperties DEF GoodList
  <1>3. Len(intervals[k]) \in Nat
    BY <1>1, LenProperties DEF GoodList
  <1>4. GoodList(k, s)
    BY <1>1, <1>2, <1>3 DEF GoodList
  <1>5. intervals' = [intervals EXCEPT ![k] = s]
    BY DEF Remove
  <1> HIDE DEF s
  <1>6. QED
    BY <1>4, <1>5, Replaced

LEMMA LogGood ==
    ASSUME GoodLists, clock \in Nat, NEW k \in Keys, NEW x \in Samples, Log(k, x)
    PROVE  GoodLists'
  <1> DEFINE s == [j \in DOMAIN intervals[k] |-> Logged(k, intervals[k][j], x, clock)]
             n == Len(intervals[k])
  <1>1. GoodList(k, intervals[k])
    BY GoodListOfKey
  <1>2. n \in Nat /\ DOMAIN intervals[k] = 1 .. n
    BY <1>1, LenProperties DEF GoodList
  <1>3. \A j \in 1 .. n : intervals[k][j] \in Node
    BY <1>1, ElementOfSeq DEF GoodList
  <1>4. \A j \in 1 .. n : s[j] \in Node /\ Consistent(k, s[j])
    BY <1>1, <1>2, <1>3, LoggedConsistent DEF GoodList
  <1>5. s \in [1 .. n -> Node]
    BY <1>2, <1>4
  <1>6. s \in Seq(Node) /\ Len(s) = n
    BY <1>2, <1>5, SeqDef
  <1>7. GoodList(k, s)
    BY <1>4, <1>6 DEF GoodList
  <1>8. intervals' = [intervals EXCEPT ![k] = s]
    BY DEF Log
  <1> HIDE DEF s
  <1>9. QED
    BY <1>7, <1>8, Replaced

-----------------------------------------------------------------------------
(* The callbacks of one interval_log.                                      *)

GoodReport(r) ==
    /\ r \in Report
    /\ IF r.key \in UlongKeys
       THEN r.lo <= r.value /\ r.value <= r.hi
       ELSE r.n * r.lo <= r.value /\ r.value <= r.n * r.hi
    /\ r.key \in UlongKeys =>
          /\ r.n * r.value <= r.sum
          /\ 2 * (r.sum - r.n * r.value) <= r.n * (r.n + 1)
    /\ r.ts - r.since >= r.period

\* A report copies the fields of the window it closes, so what Consistent says
\* of the window holds of the report; the deadline of a due window has passed.
LEMMA CallbackGood ==
    ASSUME NEW k \in Keys, NEW i \in Node, Consistent(k, i), NEW x \in Samples,
           NEW ts \in Nat, Due(i, ts), NEW j \in Nat
    PROVE  GoodReport([key |-> k, copy |-> j, ts |-> ts,
                       value |-> Take(k, i, x).current,
                       n |-> Take(k, i, x).times,
                       since |-> i.since,
                       period |-> i.time_interval,
                       sum |-> Take(k, i, x).sum,
                       lo |-> Take(k, i, x).lo,
                       hi |-> Take(k, i, x).hi])
  <1> DEFINE t == Take(k, i, x)
  <1>1. t \in Node /\ Consistent(k, t) /\ t.times > 0
    BY TakeConsistent
  <1>2. /\ t.current \in Nat /\ t.times \in Nat /\ t.sum \in Nat
        /\ t.lo \in Nat /\ t.hi \in Nat
        /\ i.since \in Nat /\ i.time_interval \in Nat /\ i.max_ts \in Nat
    BY <1>1 DEF Node
  <1>3. ts - i.since >= i.time_interval
    BY <1>2 DEF Due, WindowClosed, Consistent
  <1> HIDE DEF t
  <1>4. t.times # 0
    BY <1>1, <1>2
  <1>5. /\ IF k \in UlongKeys
           THEN t.lo <= t.current /\ t.current <= t.hi
           ELSE t.times * t.lo <= t.current /\ t.current <= t.times * t.hi
        /\ k \in UlongKeys =>
              /\ t.times * t.current <= t.sum
              /\ 2 * (t.sum - t.times * t.current) <= t.times * (t.times + 1)
    BY <1>1, <1>2, <1>4 DEF Consistent
  <1> DEFINE r == [key |-> k, copy |-> j, ts |-> ts, value |-> t.current,
                   n |-> t.times, since |-> i.since,
                   period |-> i.time_interval,
                   sum |-> t.sum, lo |-> t.lo, hi |-> t.hi]
  <1>6. r \in Report
    BY <1>2 DEF Report
  <1>7. /\ r.key = k /\ r.ts = ts /\ r.value = t.current /\ r.n = t.times
        /\ r.since = i.since /\ r.period = i.time_interval
        /\ r.sum = t.sum /\ r.lo = t.lo /\ r.hi = t.hi
    OBVIOUS
  <1> HIDE DEF r
  <1>8. GoodReport(r)
    BY <1>3, <1>5, <1>6, <1>7 DEF GoodReport
  <1>9. QED
    BY <1>8 DEF r, t

LEMMA CallbacksGood ==
    ASSUME GoodLists, clock \in Nat, NEW k \in Keys, NEW x \in Samples
    PROVE  \A r \in Callbacks(k, x, clock) : GoodReport(r)
  <1>1. GoodList(k, intervals[k]) /\ clock \in Nat
    BY GoodListOfKey
  <1>2. DOMAIN intervals[k] = 1 .. Len(intervals[k]) /\ Len(intervals[k]) \in Nat
    BY <1>1, LenProperties DEF GoodList
  <1>3. ASSUME NEW j \in DOMAIN intervals[k]
        PROVE  j \in Nat /\ intervals[k][j] \in Node /\ Consistent(k, intervals[k][j])
    BY <1>1, <1>2, ElementOfSeq DEF GoodList
  <1>4. QED
    BY <1>1, <1>3, CallbackGood DEF Callbacks

-----------------------------------------------------------------------------
(* The inductive invariant and the theorems.                               *)

Inv ==
    /\ GoodLists
    /\ clock \in Nat
    /\ slips \in Nat
    /\ \A r \in reports : GoodReport(r)

LEMMA InitInv == Init => Inv
  <1> SUFFICES ASSUME Init PROVE Inv
    OBVIOUS
  <1>1. <<>> \in Seq(Node) /\ DOMAIN <<>> = {}
    BY EmptySeq
  <1>2. GoodLists
    BY <1>1 DEF Init, GoodLists, WindowsConsistent
  <1>3. QED
    BY <1>2 DEF Init, Inv

\* The step that replaces the first node of a key, for any good replacement.
LEMMA SetFirstInv ==
    ASSUME Inv, NEW k \in Keys, NEW i \in Node, Consistent(k, i), SetFirst(k, i)
    PROVE  Inv'
  BY SetFirstGood DEF Inv, SetFirst

LEMMA NextInv == Inv /\ [Next]_vars => Inv'
  <1> SUFFICES ASSUME Inv, [Next]_vars PROVE Inv'
    OBVIOUS
  <1>1. ASSUME NEW k \in Keys, Add(k) PROVE Inv'
    BY <1>1, AddGood DEF Inv, Add
  <1>2. ASSUME NEW k \in Keys, AddCallback(k) PROVE Inv'
    <2> DEFINE i == [first(k) EXCEPT !.callback = TRUE]
    <2>1. first(k) \in Node /\ Consistent(k, first(k))
      BY <1>2, HeadInList DEF Inv, AddCallback, SetFirst
    <2>2. i \in Node /\ Consistent(k, i)
      BY <2>1 DEF Node, Consistent
    <2>3. SetFirst(k, i)
      BY <1>2 DEF AddCallback
    <2> HIDE DEF i
    <2>4. QED
      BY <2>2, <2>3, SetFirstInv
  <1>3. ASSUME NEW k \in Keys, RemoveCallbacks(k) PROVE Inv'
    <2> DEFINE i == [first(k) EXCEPT !.callback = FALSE]
    <2>1. first(k) \in Node /\ Consistent(k, first(k))
      BY <1>3, HeadInList DEF Inv, RemoveCallbacks, SetFirst
    <2>2. i \in Node /\ Consistent(k, i)
      BY <2>1 DEF Node, Consistent
    <2>3. SetFirst(k, i)
      BY <1>3 DEF RemoveCallbacks
    <2> HIDE DEF i
    <2>4. QED
      BY <2>2, <2>3, SetFirstInv
  <1>4. ASSUME NEW k \in Keys, NEW p \in Periods, Start(k, p) PROVE Inv'
    <2> DEFINE i == [first(k) EXCEPT !.time_interval = p, !.max_ts = clock + p,
                                     !.started = TRUE, !.since = clock]
    <2>1. first(k) \in Node /\ Consistent(k, first(k))
      BY <1>4, HeadInList DEF Inv, Start, SetFirst
    <2>2. clock \in Nat /\ p \in Nat
      BY IntervalAssumption DEF Inv
    <2>3. clock + p \in Nat
      BY <2>2
    <2>4. i \in Node
      BY <2>1, <2>2, <2>3 DEF Node
    <2>5. /\ i.times = first(k).times /\ i.sum = first(k).sum
          /\ i.current = first(k).current
          /\ i.lo = first(k).lo /\ i.hi = first(k).hi
          /\ i.max_ts = clock + p /\ i.since = clock /\ i.time_interval = p
      BY <2>1 DEF Node
    <2>6. SetFirst(k, i)
      BY <1>4 DEF Start
    <2> HIDE DEF i
    <2>7. Consistent(k, i)
      BY <2>1, <2>5 DEF Consistent
    <2>8. QED
      BY <2>4, <2>6, <2>7, SetFirstInv
  <1>5. ASSUME NEW k \in Keys, Stop(k) PROVE Inv'
    <2> DEFINE i == [first(k) EXCEPT !.time_interval = 0, !.max_ts = 0,
                                     !.started = FALSE]
    <2>1. first(k) \in Node /\ Consistent(k, first(k))
      BY <1>5, HeadInList DEF Inv, Stop, SetFirst
    <2>2. i \in Node
      BY <2>1 DEF Node
    <2>3. /\ i.times = first(k).times /\ i.sum = first(k).sum
          /\ i.current = first(k).current
          /\ i.lo = first(k).lo /\ i.hi = first(k).hi /\ i.started = FALSE
      BY <2>1 DEF Node
    <2>4. SetFirst(k, i)
      BY <1>5 DEF Stop
    <2> HIDE DEF i
    <2>5. Consistent(k, i)
      BY <2>1, <2>3 DEF Consistent
    <2>6. QED
      BY <2>2, <2>4, <2>5, SetFirstInv
  <1>6. ASSUME NEW k \in Keys, Remove(k) PROVE Inv'
    BY <1>6, RemoveGood DEF Inv, Remove
  <1>7. ASSUME NEW k \in Keys, NEW x \in Samples, Log(k, x) PROVE Inv'
    <2>1. GoodLists'
      BY <1>7, LogGood DEF Inv
    <2>2. \A r \in Callbacks(k, x, clock) : GoodReport(r)
      BY CallbacksGood DEF Inv
    <2>3. \A r \in reports' : GoodReport(r)
      BY <1>7, <2>2 DEF Log
    <2>4. QED
      BY <1>7, <2>1, <2>3 DEF Inv, Log
  <1>8. ASSUME clock' \in Nat, slips' \in Nat, UNCHANGED intervals, reports' = {}
        PROVE  Inv'
    BY <1>8 DEF Inv, GoodLists, WindowsConsistent
  <1>9. CASE Tick
    BY <1>8, <1>9 DEF Tick, Inv
  <1>10. CASE SetBack
    BY <1>8, <1>10 DEF SetBack, Inv
  <1>11. CASE UNCHANGED vars
    BY <1>11 DEF vars, Inv, GoodLists, WindowsConsistent
  <1>12. QED
    BY <1>1, <1>2, <1>3, <1>4, <1>5, <1>6, <1>7, <1>9, <1>10, <1>11 DEF Next

LEMMA Invariance == Spec => []Inv
  BY InitInv, NextInv, PTL DEF Spec

\* The variables keep their types for every key set, period, sample value and
\* bound.
THEOREM Typing == Spec => []TypeOK
  <1>1. Inv => TypeOK
    BY DEF Inv, GoodLists, GoodReport, TypeOK
  <1>2. QED
    BY <1>1, Invariance, PTL

\* The count, average, bounds and deadline of every node belong together, in
\* lists of any length.
THEOREM Windows == Spec => []WindowsConsistent
  <1>1. Inv => WindowsConsistent
    BY DEF Inv, GoodLists
  <1>2. QED
    BY <1>1, Invariance, PTL

\* Every callback gets a value between the samples of its window.
THEOREM WithinWindow == Spec => []ReportWithinWindow
  <1>1. Inv => ReportWithinWindow
    BY DEF Inv, GoodReport, ReportWithinWindow
  <1>2. QED
    BY <1>1, Invariance, PTL

\* The integer average never exceeds the mean, and the truncations of n samples
\* cost at most (n + 1) / 2.
THEOREM LagsMean == Spec => []AverageLagsMean
  <1>1. ASSUME NEW r, GoodReport(r), r.key \in UlongKeys
        PROVE  LET lag == r.sum - r.n * r.value IN
                  0 <= lag /\ 2 * lag <= r.n * (r.n + 1)
    <2>1. /\ r.n * r.value <= r.sum
          /\ 2 * (r.sum - r.n * r.value) <= r.n * (r.n + 1)
      BY <1>1 DEF GoodReport
    <2>2. r.sum \in Nat /\ r.n \in Nat /\ r.value \in Nat
      BY <1>1 DEF GoodReport, Report
    <2>3. r.n * r.value \in Nat
      BY <2>2, Distribute
    <2>4. QED
      BY <2>1, <2>2, <2>3
  <1>2. Inv => AverageLagsMean
    BY <1>1 DEF Inv, AverageLagsMean
  <1>3. QED
    BY <1>2, Invariance, PTL

\* Two callbacks of a window are at least one period apart.
THEOREM Spacing == Spec => []ReportsSpaced
  <1>1. Inv => ReportsSpaced
    BY DEF Inv, GoodReport, ReportsSpaced
  <1>2. QED
    BY <1>1, Invariance, PTL

-----------------------------------------------------------------------------
(* What a step does to deadlines.                                          *)

\* No node of k moves its deadline but by closing its window.
KeepsDeadline(k) ==
    \A j \in DOMAIN intervals[k] \cap DOMAIN intervals'[k] :
       (/\ Len(intervals'[k]) = Len(intervals[k])
        /\ intervals[k][j].started
        /\ intervals'[k][j].started
        /\ intervals'[k][j].max_ts # intervals[k][j].max_ts)
       => intervals'[k][j].times = 0

LEMMA OthersKeep ==
    ASSUME Inv, NEW q \in Keys, NEW k \in Keys, k # q, NEW s,
           intervals' = [intervals EXCEPT ![q] = s]
    PROVE  KeepsDeadline(k)
  <1>1. intervals'[k] = intervals[k]
    BY DEF Inv, GoodLists
  <1>2. QED
    BY <1>1 DEF KeepsDeadline

\* Replacing the first node by one of the same deadline, or by a stopped one.
LEMMA SetFirstKeeps ==
    ASSUME Inv, NEW q \in Keys, NEW k \in Keys, NEW i \in Node, SetFirst(q, i),
           ~i.started \/ i.max_ts = first(q).max_ts
    PROVE  KeepsDeadline(k)
  <1>1. intervals' = [intervals EXCEPT ![q] = [intervals[q] EXCEPT ![1] = i]]
    BY DEF SetFirst
  <1>2. CASE k # q
    BY <1>1, <1>2, OthersKeep
  <1>3. CASE k = q
    <2>1. intervals'[k] = [intervals[k] EXCEPT ![1] = i]
      BY <1>1, <1>3 DEF Inv, GoodLists
    <2>2. first(k) = intervals[k][1]
      <3>1. intervals[k] \in Seq(Node) /\ intervals[k] # <<>>
        BY <1>3, GoodListOfKey DEF Inv, SetFirst, Found, GoodList
      <3>2. QED
        BY <3>1 DEF first
    <2>3. ASSUME NEW j \in DOMAIN intervals[k], j # 1
          PROVE  intervals'[k][j] = intervals[k][j]
      BY <2>1, <2>3
    <2>4. ASSUME 1 \in DOMAIN intervals[k]
          PROVE  intervals'[k][1] = i
      BY <2>1, <2>4
    <2>5. QED
      BY <1>3, <2>2, <2>3, <2>4 DEF KeepsDeadline
  <1>4. QED
    BY <1>2, <1>3

LEMMA LoggedKeeps ==
    ASSUME NEW k \in Keys, NEW i \in Node, NEW x \in Nat, NEW ts \in Nat,
           Consistent(k, i), Logged(k, i, x, ts).max_ts # i.max_ts
    PROVE  Logged(k, i, x, ts).times = 0
  <1> DEFINE r == Rearm(i, ts)
             t == Take(k, r, x)
  <1>1. i.started /\ WindowClosed(i, ts)
    <2>1. Averaged(k, i, x) \in Nat
      <3>1. Take(k, i, x) \in Node
        BY TakeConsistent
      <3>2. Take(k, i, x).current = Averaged(k, i, x)
        BY DEF Take, Node
      <3>3. QED
        BY <3>1, <3>2 DEF Node
    <2>2. Take(k, i, x).max_ts = i.max_ts
      BY <2>1, TakeFields
    <2>3. QED
      BY <2>2 DEF Logged
  <1>2. r \in Node /\ Consistent(k, r)
    BY <1>1, RearmConsistent
  <1>3. t \in Node
    BY <1>2, TakeConsistent
  <1> HIDE DEF r, t
  <1>4. Emptied(t).times = 0
    BY <1>3 DEF Emptied, Node
  <1>5. QED
    BY <1>1, <1>4 DEF Logged, r, t

LEMMA LogKeeps ==
    ASSUME Inv, NEW q \in Keys, NEW k \in Keys, NEW x \in Samples, Log(q, x)
    PROVE  KeepsDeadline(k)
  <1>1. intervals' = [intervals EXCEPT ![q] =
                         [j \in DOMAIN intervals[q] |->
                             Logged(q, intervals[q][j], x, clock)]]
    BY DEF Log
  <1>2. CASE k # q
    BY <1>1, <1>2, OthersKeep
  <1>3. CASE k = q
    <2>1. intervals'[k] = [j \in DOMAIN intervals[k] |->
                              Logged(k, intervals[k][j], x, clock)]
      BY <1>1, <1>3 DEF Inv, GoodLists
    <2>2. ASSUME NEW j \in DOMAIN intervals[k]
          PROVE  intervals[k][j] \in Node /\ Consistent(k, intervals[k][j])
      <3>1. GoodList(k, intervals[k])
        BY GoodListOfKey DEF Inv
      <3>2. DOMAIN intervals[k] = 1 .. Len(intervals[k])
        BY <3>1, LenProperties DEF GoodList
      <3>3. QED
        BY <3>1, <3>2, ElementOfSeq DEF GoodList
    <2>3. x \in Nat /\ clock \in Nat
      BY IntervalAssumption DEF Inv
    <2>4. \A j \in DOMAIN intervals[k] :
             intervals'[k][j].max_ts # intervals[k][j].max_ts
                => intervals'[k][j].times = 0
      BY <2>1, <2>2, <2>3, LoggedKeeps
    <2>5. QED
      BY <2>4 DEF KeepsDeadline
  <1>4. QED
    BY <1>2, <1>3

LEMMA StepKeeps ==
    ASSUME Inv, Next, NEW k \in Keys, ~\E p \in Periods : Start(k, p)
    PROVE  KeepsDeadline(k)
  <1>1. ASSUME NEW q \in Keys, Add(q) PROVE KeepsDeadline(k)
    <2>1. CASE k # q
      BY <1>1, <2>1, OthersKeep DEF Add
    <2>2. CASE k = q
      <3>1. intervals'[k] = Append(intervals[k], NewNode)
        BY <1>1, <2>2 DEF Add, Inv, GoodLists
      <3>2. intervals[k] \in Seq(Node) /\ NewNode \in Node
        BY GoodListOfKey DEF Inv, GoodList, NewNode, Node
      <3>3. Len(intervals'[k]) = Len(intervals[k]) + 1 /\ Len(intervals[k]) \in Nat
        BY <3>1, <3>2, AppendProperties, LenProperties
      <3>4. QED
        BY <3>3 DEF KeepsDeadline
    <2>3. QED
      BY <2>1, <2>2
  <1>2. ASSUME NEW q \in Keys, AddCallback(q) \/ RemoveCallbacks(q) \/ Stop(q)
        PROVE  KeepsDeadline(k)
    <2>1. first(q) \in Node
      BY <1>2, HeadInList DEF Inv, AddCallback, RemoveCallbacks, Stop, SetFirst
    <2>2. PICK b \in BOOLEAN : \/ SetFirst(q, [first(q) EXCEPT !.callback = b])
                               \/ Stop(q)
      BY <1>2 DEF AddCallback, RemoveCallbacks
    <2>3. CASE SetFirst(q, [first(q) EXCEPT !.callback = b])
      <3> DEFINE i == [first(q) EXCEPT !.callback = b]
      <3>1. i \in Node /\ i.max_ts = first(q).max_ts /\ SetFirst(q, i)
        BY <2>1, <2>3 DEF Node
      <3> HIDE DEF i
      <3>2. QED
        BY <3>1, SetFirstKeeps
    <2>4. CASE Stop(q)
      <3> DEFINE i == [first(q) EXCEPT !.time_interval = 0, !.max_ts = 0,
                                       !.started = FALSE]
      <3>1. i \in Node /\ ~i.started /\ SetFirst(q, i)
        BY <2>1, <2>4 DEF Node, Stop
      <3> HIDE DEF i
      <3>2. QED
        BY <3>1, SetFirstKeeps
    <2>5. QED
      BY <2>2, <2>3, <2>4
  <1>3. ASSUME NEW q \in Keys, NEW p \in Periods, Start(q, p)
        PROVE  KeepsDeadline(k)
    <2>1. k # q
      BY <1>3
    <2>2. QED
      BY <1>3, <2>1, OthersKeep DEF Start, SetFirst
  <1>4. ASSUME NEW q \in Keys, Remove(q) PROVE KeepsDeadline(k)
    <2>1. CASE k # q
      BY <1>4, <2>1, OthersKeep DEF Remove
    <2>2. CASE k = q
      <3>1. intervals'[k] = Tail(intervals[k])
        BY <1>4, <2>2 DEF Remove, Inv, GoodLists
      <3>2. intervals[k] \in Seq(Node) /\ intervals[k] # <<>>
        BY <1>4, <2>2, GoodListOfKey DEF Inv, GoodList, Remove, Found
      <3>3. Len(intervals'[k]) = Len(intervals[k]) - 1 /\ Len(intervals[k]) \in Nat
        BY <3>1, <3>2, HeadTailProperties, LenProperties
      <3>4. QED
        BY <3>3 DEF KeepsDeadline
    <2>3. QED
      BY <2>1, <2>2
  <1>5. ASSUME NEW q \in Keys, NEW x \in Samples, Log(q, x)
        PROVE  KeepsDeadline(k)
    BY <1>5, LogKeeps
  <1>6. CASE Tick \/ SetBack
    BY <1>6 DEF Tick, SetBack, KeepsDeadline
  <1>7. QED
    BY <1>1, <1>2, <1>3, <1>4, <1>5, <1>6 DEF Next

\* A sample inside a window never moves its deadline, in lists of any length.
THEOREM Deadlines == Spec => DeadlineFixed
  <1> DEFINE Fixed ==
          \A k \in Keys :
             \A j \in DOMAIN intervals[k] \cap DOMAIN intervals'[k] :
                (/\ Len(intervals'[k]) = Len(intervals[k])
                 /\ intervals[k][j].started
                 /\ intervals'[k][j].started
                 /\ intervals'[k][j].max_ts # intervals[k][j].max_ts)
                => \/ intervals'[k][j].times = 0
                   \/ \E p \in Periods : Start(k, p)
  <1>1. Inv /\ [Next]_vars => [Fixed]_vars
    BY StepKeeps DEF KeepsDeadline
  <1>2. QED
    BY <1>1, Invariance, PTL DEF Spec, DeadlineFixed

-----------------------------------------------------------------------------
(* One node per key implements the windows of SampleWindow.                *)

\* A key has no more nodes than MaxCopies.
Short == \A k \in Keys : Len(intervals[k]) <= MaxCopies

Delivered == {Delivery(r) : r \in reports}

Refined == [Window!Next]_(Window!vars)

LEMMA ShortStep ==
    ASSUME Inv, Short, [Next]_vars
    PROVE  Short'
  <1>1. ASSUME NEW k \in Keys
        PROVE  intervals[k] \in Seq(Node) /\ Len(intervals[k]) \in Nat
    BY GoodListOfKey, LenProperties DEF Inv, GoodList
  <1>2. ASSUME NEW q \in Keys, NEW s, Len(s) <= MaxCopies,
               intervals' = [intervals EXCEPT ![q] = s]
        PROVE  Short'
    BY <1>2 DEF Short, Inv, GoodLists
  <1>3. ASSUME NEW q \in Keys, Add(q) PROVE Short'
    <2>1. NewNode \in Node
      BY DEF NewNode, Node
    <2>2. /\ Len(Append(intervals[q], NewNode)) = Len(intervals[q]) + 1
          /\ Len(intervals[q]) < MaxCopies /\ MaxCopies \in Nat
      BY <1>1, <1>3, <2>1, AppendProperties DEF Add
    <2>3. Len(Append(intervals[q], NewNode)) <= MaxCopies
      BY <1>1, <2>2
    <2>4. QED
      BY <1>2, <1>3, <2>3 DEF Add
  <1>4. ASSUME NEW q \in Keys, NEW i, SetFirst(q, i) PROVE Short'
    <2>1. Len([intervals[q] EXCEPT ![1] = i]) = Len(intervals[q])
      BY <1>1
    <2>2. QED
      BY <1>2, <1>4, <2>1 DEF SetFirst, Short
  <1>5. ASSUME NEW q \in Keys, Remove(q) PROVE Short'
    <2>1. intervals[q] # <<>>
      BY <1>5 DEF Remove, Found
    <2>2. Len(Tail(intervals[q])) = Len(intervals[q]) - 1
      BY <1>1, <2>1, HeadTailProperties
    <2>3. Len(Tail(intervals[q])) <= MaxCopies
      BY <1>1, <2>2 DEF Short
    <2>4. QED
      BY <1>2, <1>5, <2>3 DEF Remove
  <1>6. ASSUME NEW q \in Keys, NEW x \in Samples, Log(q, x) PROVE Short'
    <2> DEFINE s == [j \in DOMAIN intervals[q] |-> Logged(q, intervals[q][j], x, clock)]
    <2>1. DOMAIN intervals[q] = 1 .. Len(intervals[q])
      BY <1>1, LenProperties
    <2>2. Len(s) = Len(intervals[q])
      BY <1>1, <2>1
    <2>3. intervals' = [intervals EXCEPT ![q] = s]
      BY <1>6 DEF Log
    <2> HIDE DEF s
    <2>4. QED
      BY <1>2, <2>2, <2>3 DEF Short
  <1>7. CASE UNCHANGED intervals
    BY <1>7 DEF Short
  <1>8. QED
    BY <1>3, <1>4, <1>5, <1>6, <1>7
       DEF Next, vars, AddCallback, RemoveCallbacks, Start, Stop, Tick, SetBack

LEMMA OnlyNode ==
    ASSUME Inv, Short, MaxCopies = 1, NEW k \in Keys, Found(k)
    PROVE  /\ intervals[k] = <<first(k)>>
           /\ first(k) \in Node /\ Consistent(k, first(k))
  <1>1. first(k) \in Node /\ Consistent(k, first(k)) /\ 1 \in 1 .. Len(intervals[k])
    BY HeadInList DEF Inv
  <1>2. intervals[k] \in Seq(Node)
    BY DEF Inv, GoodLists
  <1>3. Len(intervals[k]) = 1
    <2>1. Len(intervals[k]) \in Nat
      BY <1>2, LenProperties
    <2>2. Len(intervals[k]) <= 1
      BY DEF Short
    <2> DEFINE n == Len(intervals[k])
    <2>3. n \in Nat /\ n <= 1 /\ 1 \in 1 .. n
      BY <1>1, <2>1, <2>2
    <2> HIDE DEF n
    <2>4. n = 1
      BY <2>3
    <2>5. QED
      BY <2>4 DEF n
  <1>4. first(k) = intervals[k][1]
    BY <1>2, <1>3 DEF first
  <1>5. QED
    BY <1>1, <1>2, <1>3, <1>4

LEMMA WindowOfNode ==
    ASSUME NEW k \in Keys, NEW i, intervals[k] = <<i>>
    PROVE  WindowOf(k) = Abstracted(i)
  BY DEF WindowOf, Found, first

\* A step that changes the nodes of one key changes one window.
LEMMA OneWindow ==
    ASSUME Inv, NEW q \in Keys, NEW s, intervals' = [intervals EXCEPT ![q] = s]
    PROVE  /\ [k \in Keys |-> WindowOf(k)]'
                 = [[k \in Keys |-> WindowOf(k)] EXCEPT ![q] = WindowOf(q)']
           /\ intervals'[q] = s
  <1>1. intervals'[q] = s /\ \A k \in Keys : k # q => intervals'[k] = intervals[k]
    BY DEF Inv, GoodLists
  <1>2. \A k \in Keys : k # q => WindowOf(k)' = WindowOf(k)
    BY <1>1 DEF WindowOf, Found, first
  <1>3. QED
    BY <1>1, <1>2

\* The owner's operations replace the node of a key and report nothing.
LEMMA OwnerStep ==
    ASSUME Inv, Short, MaxCopies = 1, NEW k \in Keys, NEW i, SetFirst(k, i)
    PROVE  Window!Set(k, Abstracted(i))
  <1>1. Found(k) /\ intervals[k] = <<first(k)>>
    BY OnlyNode DEF SetFirst
  <1>2. intervals' = [intervals EXCEPT ![k] = <<i>>]
    <2>1. [<<first(k)>> EXCEPT ![1] = i] = <<i>>
      OBVIOUS
    <2>2. QED
      BY <1>1, <2>1 DEF SetFirst
  <1>3. intervals'[k] = <<i>>
    BY <1>2, OneWindow
  <1>4. WindowOf(k)' = Abstracted(i)
    BY <1>3 DEF WindowOf, Found, first
  <1>5. WindowOf(k).present
    BY <1>1 DEF WindowOf, Abstracted
  <1>6. reports' = {} /\ clock' = clock
    BY DEF SetFirst
  <1>7. [q \in Keys |-> WindowOf(q)]'
           = [[q \in Keys |-> WindowOf(q)] EXCEPT ![k] = WindowOf(k)']
    BY <1>2, OneWindow
  <1>8. Delivered' = {}
    BY <1>6 DEF Delivered
  <1>9. QED
    BY <1>4, <1>5, <1>6, <1>7, <1>8 DEF Window!Set, Delivered

LEMMA IdleStep ==
    ASSUME UNCHANGED intervals, clock' \in Nat, reports' = {}
    PROVE  Window!Idle
  BY DEF Window!Idle, WindowOf, Found, first

LEMMA CollectedIs ==
    ASSUME NEW i, NEW x
    PROVE  Window!Collected(Abstracted(i), x) =
              [present |-> TRUE, open |-> i.started,
               opened |-> IF i.started THEN i.max_ts - i.time_interval ELSE 0,
               period |-> IF i.started THEN i.time_interval ELSE 0,
               subscribed |-> i.callback, n |-> i.times + 1,
               lo |-> Least(i, x), hi |-> Greatest(i, x)]
  <1> DEFINE w == Abstracted(i)
             opened == IF i.started THEN i.max_ts - i.time_interval ELSE 0
             period == IF i.started THEN i.time_interval ELSE 0
  <1>1. w = [present |-> TRUE, open |-> i.started, opened |-> opened,
             period |-> period, subscribed |-> i.callback,
             n |-> i.times, lo |-> i.lo, hi |-> i.hi]
    BY DEF Abstracted
  <1> HIDE DEF w, opened, period
  <1>2. w.n = i.times /\ w.lo = i.lo /\ w.hi = i.hi
    BY <1>1
  <1> DEFINE lo == IF i.times = 0 \/ x < i.lo THEN x ELSE i.lo
             hi == IF i.times = 0 \/ x > i.hi THEN x ELSE i.hi
  <1>3. Window!Collected(w, x) = [w EXCEPT !.n = i.times + 1, !.lo = lo, !.hi = hi]
    BY <1>2 DEF Window!Collected
  <1> HIDE DEF lo, hi
  <1>4. Window!Collected(w, x) =
           [present |-> TRUE, open |-> i.started, opened |-> opened,
            period |-> period, subscribed |-> i.callback,
            n |-> i.times + 1, lo |-> lo, hi |-> hi]
    BY <1>1, <1>3
  <1>5. QED
    BY <1>4 DEF w, opened, period, lo, hi, Least, Greatest

\* A sample is collected, and at the deadline the window opens anew at the
\* time of the sample.
LEMMA AbstractTake ==
    ASSUME NEW k \in Keys, NEW i \in Node, NEW x \in Nat, Consistent(k, i)
    PROVE  Abstracted(Take(k, i, x)) = Window!Collected(Abstracted(i), x)
  <1> DEFINE t == Take(k, i, x)
  <1>1. t \in Node
    BY TakeConsistent
  <1>2. /\ t.times = i.times + 1 /\ t.lo = Least(i, x) /\ t.hi = Greatest(i, x)
        /\ t.started = i.started /\ t.max_ts = i.max_ts
        /\ t.time_interval = i.time_interval /\ t.callback = i.callback
    BY DEF Take, Node
  <1> HIDE DEF t
  <1>3. Abstracted(t) =
           [present |-> TRUE, open |-> i.started,
            opened |-> IF i.started THEN i.max_ts - i.time_interval ELSE 0,
            period |-> IF i.started THEN i.time_interval ELSE 0,
            subscribed |-> i.callback, n |-> i.times + 1,
            lo |-> Least(i, x), hi |-> Greatest(i, x)]
    BY <1>2 DEF Abstracted
  <1>4. QED
    BY <1>3, CollectedIs DEF t

Reopened(w, ts) == [w EXCEPT !.opened = ts, !.n = 0, !.lo = 0, !.hi = 0]

LEMMA AbstractClose ==
    ASSUME NEW k \in Keys, NEW i \in Node, NEW x \in Nat, NEW ts \in Nat,
           Consistent(k, i), i.started, WindowClosed(i, ts)
    PROVE  Abstracted(Emptied(Take(k, Rearm(i, ts), x)))
              = Reopened(Window!Collected(Abstracted(i), x), ts)
  <1> DEFINE r == Rearm(i, ts)
             t == Take(k, r, x)
             e == Emptied(t)
  <1>1. r \in Node /\ Consistent(k, r)
    BY RearmConsistent
  <1>2. r.started /\ r.time_interval = i.time_interval /\ r.callback = i.callback
        /\ r.max_ts = ts + i.time_interval
    BY DEF Rearm, Node
  <1>3. t \in Node
    BY <1>1, TakeConsistent
  <1>4. /\ t.started = r.started /\ t.time_interval = r.time_interval
        /\ t.callback = r.callback /\ t.max_ts = r.max_ts
    <2> HIDE DEF r
    <2> QED BY <1>1 DEF Take, Node
  <1>5. /\ e.started = t.started /\ e.time_interval = t.time_interval
        /\ e.callback = t.callback /\ e.max_ts = t.max_ts
        /\ e.times = 0 /\ e.lo = 0 /\ e.hi = 0
    <2> HIDE DEF t
    <2> QED BY <1>3 DEF Emptied, Node
  <1>6. /\ e.started /\ e.time_interval = i.time_interval
        /\ e.callback = i.callback /\ e.max_ts - e.time_interval = ts
    <2>1. (ts + i.time_interval) - i.time_interval = ts
      BY DEF Node
    <2> HIDE DEF e, t, r
    <2>2. QED
      BY <1>2, <1>4, <1>5, <2>1
  <1> HIDE DEF e, t, r
  <1>7. Abstracted(e) =
           [present |-> TRUE, open |-> TRUE, opened |-> ts,
            period |-> i.time_interval, subscribed |-> i.callback,
            n |-> 0, lo |-> 0, hi |-> 0]
    <2>1. e.started = TRUE
      BY <1>2, <1>4, <1>5 DEF Rearm, Node, r
    <2>2. QED
      BY <1>5, <1>6, <2>1 DEF Abstracted
  <1>8. i.started = TRUE
    BY DEF Node
  <1> DEFINE c == Window!Collected(Abstracted(i), x)
             d == [c EXCEPT !.opened = ts, !.n = 0, !.lo = 0, !.hi = 0]
  <1>9. PICK opened, n, lo, hi :
           c = [present |-> TRUE, open |-> TRUE, opened |-> opened,
                period |-> i.time_interval, subscribed |-> i.callback,
                n |-> n, lo |-> lo, hi |-> hi]
    BY <1>8, CollectedIs
  <1>10. d = Abstracted(e)
    <2>1. d = [c EXCEPT !.opened = ts, !.n = 0, !.lo = 0, !.hi = 0]
      OBVIOUS
    <2> HIDE DEF c, d
    <2>2. d = [present |-> TRUE, open |-> TRUE, opened |-> ts,
               period |-> i.time_interval, subscribed |-> i.callback,
               n |-> 0, lo |-> 0, hi |-> 0]
      BY <1>9, <2>1
    <2>3. QED
      BY <1>7, <2>2
  <1>11. d = Reopened(c, ts)
    <2> HIDE DEF c
    <2> QED BY DEF Reopened
  <1> HIDE DEF d
  <1>12. QED
    BY <1>10, <1>11 DEF c, e, t, r

\* interval_log on the one node of a key.
LEMMA LogOnly ==
    ASSUME Inv, Short, MaxCopies = 1, NEW k \in Keys, Found(k),
           NEW x \in Samples, Log(k, x)
    PROVE  /\ intervals' = [intervals EXCEPT ![k] = <<Logged(k, first(k), x, clock)>>]
           /\ WindowOf(k) = Abstracted(first(k))
           /\ WindowOf(k)' = Abstracted(Logged(k, first(k), x, clock))
           /\ [q \in Keys |-> WindowOf(q)]'
                 = [[q \in Keys |-> WindowOf(q)] EXCEPT ![k] = WindowOf(k)']
           /\ {j \in DOMAIN intervals[k] : /\ Due(intervals[k][j], clock)
                                           /\ intervals[k][j].callback}
                 = IF Due(first(k), clock) /\ first(k).callback THEN {1} ELSE {}
           /\ intervals[k][1] = first(k)
  <1> DEFINE i == first(k)
             node == Logged(k, i, x, clock)
  <1>1. intervals[k] = <<i>>
    BY OnlyNode
  <1>2. DOMAIN intervals[k] = {1} /\ intervals[k][1] = i
    BY <1>1
  <1>3. [j \in DOMAIN intervals[k] |-> Logged(k, intervals[k][j], x, clock)] = <<node>>
    BY <1>2
  <1>4. intervals' = [intervals EXCEPT ![k] = <<node>>]
    BY <1>3 DEF Log
  <1>5. intervals'[k] = <<node>>
    BY <1>4, OneWindow
  <1>6. WindowOf(k)' = Abstracted(node)
    <2> HIDE DEF node
    <2> QED BY <1>5 DEF WindowOf, Found, first
  <1>7. [q \in Keys |-> WindowOf(q)]'
           = [[q \in Keys |-> WindowOf(q)] EXCEPT ![k] = WindowOf(k)']
    BY <1>4, OneWindow
  <1> HIDE DEF i, node
  <1>8. {j \in DOMAIN intervals[k] : /\ Due(intervals[k][j], clock)
                                     /\ intervals[k][j].callback}
           = IF Due(i, clock) /\ i.callback THEN {1} ELSE {}
    BY <1>2
  <1>9. WindowOf(k) = Abstracted(i)
    BY DEF WindowOf, i
  <1>10. QED
    BY <1>2, <1>4, <1>6, <1>7, <1>8, <1>9 DEF i, node

LEMMA CollectStep ==
    ASSUME Inv, Short, MaxCopies = 1, NEW k \in Keys, Found(k),
           NEW x \in Samples, Log(k, x),
           first(k).started, ~WindowClosed(first(k), clock)
    PROVE  Window!Collect(k, x)
  <1> DEFINE i == first(k)
  <1>1. i \in Node /\ Consistent(k, i) /\ x \in Nat
    BY OnlyNode
  <1>2. Logged(k, i, x, clock) = Take(k, i, x)
    BY DEF Logged
  <1>3. Abstracted(Take(k, i, x)) = Window!Collected(Abstracted(i), x)
    BY <1>1, AbstractTake
  <1>4. /\ WindowOf(k) = Abstracted(i)
        /\ WindowOf(k)' = Window!Collected(WindowOf(k), x)
        /\ [q \in Keys |-> WindowOf(q)]'
              = [[q \in Keys |-> WindowOf(q)] EXCEPT ![k] = WindowOf(k)']
    BY <1>2, <1>3, LogOnly
  <1>5. Delivered' = {} /\ clock' = clock
    <2>1. ~Due(i, clock)
      BY DEF Due
    <2>2. reports' = {}
      BY <2>1, LogOnly DEF Log, Callbacks
    <2>3. QED
      BY <2>2 DEF Delivered, Log
  <1>6. /\ WindowOf(k).present /\ WindowOf(k).open
        /\ ~Window!Expired(WindowOf(k))
    <2>1. clock \in Nat /\ i.max_ts \in Nat /\ i.time_interval \in Nat
      BY <1>1 DEF Node, Inv
    <2>2. /\ Abstracted(i).present /\ Abstracted(i).open
          /\ Abstracted(i).opened = i.max_ts - i.time_interval
          /\ Abstracted(i).period = i.time_interval
      BY DEF Abstracted
    <2>3. ~(clock >= i.max_ts)
      BY DEF WindowClosed
    <2> HIDE DEF i
    <2>4. QED
      BY <1>4, <2>1, <2>2, <2>3 DEF Window!Expired
  <1>7. QED
    BY <1>4, <1>5, <1>6 DEF Window!Collect, Window!Set, Delivered

LEMMA DeliverStep ==
    ASSUME Inv, Short, MaxCopies = 1, NEW k \in Keys, Found(k),
           NEW x \in Samples, Log(k, x),
           first(k).started, WindowClosed(first(k), clock)
    PROVE  Window!Deliver(k, x)
  <1> DEFINE i == first(k)
             t == Take(k, i, x)
             w == Window!Collected(WindowOf(k), x)
  <1>1. i \in Node /\ Consistent(k, i) /\ x \in Nat /\ clock \in Nat
    BY OnlyNode DEF Inv
  <1>2. Logged(k, i, x, clock) = Emptied(Take(k, Rearm(i, clock), x))
    BY DEF Logged
  <1>3. w = Abstracted(t) /\ WindowOf(k) = Abstracted(i)
    <2>1. WindowOf(k) = Abstracted(i)
      BY LogOnly
    <2>2. Abstracted(t) = Window!Collected(Abstracted(i), x)
      BY <1>1, AbstractTake
    <2>3. QED
      BY <2>1, <2>2
  <1>4. WindowOf(k)' = [w EXCEPT !.opened = clock, !.n = 0, !.lo = 0, !.hi = 0]
    <2>1. WindowOf(k)' = Abstracted(Logged(k, i, x, clock))
      BY LogOnly
    <2>2. Abstracted(Emptied(Take(k, Rearm(i, clock), x)))
             = Reopened(Window!Collected(Abstracted(i), x), clock)
      <3> HIDE DEF i
      <3>1. i.started /\ WindowClosed(i, clock)
        BY DEF i
      <3>2. QED
        BY <1>1, <3>1, AbstractClose
    <2>3. Reopened(Window!Collected(Abstracted(i), x), clock) = Reopened(w, clock)
      BY <1>3
    <2>4. Reopened(w, clock)
             = [w EXCEPT !.opened = clock, !.n = 0, !.lo = 0, !.hi = 0]
      <3> HIDE DEF w
      <3> QED BY DEF Reopened
    <2> HIDE DEF w
    <2>5. QED
      BY <1>2, <2>1, <2>2, <2>3, <2>4
  <1>5. /\ [q \in Keys |-> WindowOf(q)]'
              = [[q \in Keys |-> WindowOf(q)] EXCEPT ![k] = WindowOf(k)']
        /\ clock' = clock
    BY LogOnly DEF Log
  <1>6. /\ WindowOf(k).present /\ WindowOf(k).open
        /\ Window!Expired(WindowOf(k))
    <2>1. i.max_ts \in Nat /\ i.time_interval \in Nat
      BY <1>1 DEF Node
    <2>2. /\ Abstracted(i).present /\ Abstracted(i).open
          /\ Abstracted(i).opened = i.max_ts - i.time_interval
          /\ Abstracted(i).period = i.time_interval
      BY DEF Abstracted
    <2>3. clock >= i.max_ts
      BY DEF WindowClosed
    <2> HIDE DEF i
    <2>4. QED
      BY <1>1, <1>3, <2>1, <2>2, <2>3 DEF Window!Expired
  <1>7. /\ t \in Node /\ t.callback = i.callback
        /\ w.subscribed = i.callback /\ w.n = t.times /\ w.lo = t.lo /\ w.hi = t.hi
    <2>1. t \in Node
      BY <1>1, TakeConsistent
    <2>2. t.callback = i.callback
      BY <1>1 DEF Take, Node
    <2> HIDE DEF w, t, i
    <2>3. QED
      BY <1>3, <2>1, <2>2 DEF Abstracted
  <1>8. CASE i.callback
    <2> DEFINE r == [key |-> k, copy |-> 1, ts |-> clock, value |-> t.current,
                     n |-> t.times, since |-> i.since, period |-> i.time_interval,
                     sum |-> t.sum, lo |-> t.lo, hi |-> t.hi]
               total == IF k \in UlongKeys THEN t.times * t.current ELSE t.current
    <2>1. reports' = {r}
      <3>1. {j \in DOMAIN intervals[k] : /\ Due(intervals[k][j], clock)
                                         /\ intervals[k][j].callback} = {1}
        BY <1>8, LogOnly DEF Due
      <3>2. intervals[k][1] = i
        BY LogOnly
      <3>3. reports' = Callbacks(k, x, clock)
        BY DEF Log
      <3>4. QED
        BY <3>1, <3>2, <3>3 DEF Callbacks
    <2>2. Delivery(r) = [key |-> k, at |-> clock, total |-> total]
      BY DEF Delivery
    <2>3. Delivered' = {[key |-> k, at |-> clock, total |-> total]}
      <3> HIDE DEF r, total
      <3>1. Delivered' = {Delivery(r)}
        BY <2>1 DEF Delivered
      <3>2. QED
        BY <2>2, <3>1
    <2>4. total \in w.n * w.lo .. w.n * w.hi
      <3>1. /\ t.current \in Nat /\ t.times \in Nat /\ t.lo \in Nat /\ t.hi \in Nat
        BY <1>7 DEF Node
      <3>2. Consistent(k, t) /\ t.times > 0
        BY <1>1, TakeConsistent
      <3>3. t.times # 0
        BY <3>1, <3>2
      <3> HIDE DEF t, w
      <3>4. /\ t.times * t.lo \in Nat /\ t.times * t.hi \in Nat
            /\ t.times * t.current \in Nat
        BY <3>1, Distribute
      <3>5. CASE k \in UlongKeys
        <4>1. t.lo <= t.current /\ t.current <= t.hi
          BY <3>2, <3>3, <3>5 DEF Consistent
        <4>2. /\ t.times * t.lo <= t.times * t.current
              /\ t.times * t.current <= t.times * t.hi
          BY <3>1, <4>1, Scale
        <4>3. QED
          BY <1>7, <3>4, <3>5, <4>2
      <3>6. CASE k \notin UlongKeys
        <4>1. t.times * t.lo <= t.current /\ t.current <= t.times * t.hi
          BY <3>2, <3>3, <3>6 DEF Consistent
        <4>2. QED
          BY <1>7, <3>1, <3>4, <3>6, <4>1
      <3>7. QED
        BY <3>5, <3>6
    <2>5. w.subscribed
      BY <1>7, <1>8
    <2> HIDE DEF w, total
    <2>6. QED
      BY <1>4, <1>5, <1>6, <2>3, <2>4, <2>5 DEF Window!Deliver, Delivered, w
  <1>9. CASE ~i.callback
    <2>1. reports' = {}
      BY <1>9, LogOnly DEF Log, Callbacks
    <2>2. Delivered' = {} /\ ~w.subscribed
      BY <1>7, <1>9, <2>1 DEF Delivered
    <2>3. QED
      BY <1>4, <1>5, <1>6, <2>2 DEF Window!Deliver, Delivered
  <1>10. QED
    BY <1>8, <1>9

LEMMA LogStep ==
    ASSUME Inv, Short, MaxCopies = 1, NEW k \in Keys, NEW x \in Samples, Log(k, x)
    PROVE  Refined
  <1>1. CASE ~Found(k)
    <2>1. intervals[k] = <<>>
      BY <1>1 DEF Found
    <2>2. [j \in DOMAIN intervals[k] |-> Logged(k, intervals[k][j], x, clock)] = <<>>
      BY <2>1
    <2>3. intervals' = intervals
      BY <2>1, <2>2 DEF Log, Inv, GoodLists
    <2>4. reports' = {}
      BY <2>1 DEF Log, Callbacks
    <2>5. clock' \in Nat
      BY DEF Log, Inv
    <2>6. Window!Idle
      BY <2>3, <2>4, <2>5, IdleStep
    <2>7. QED
      BY <2>6 DEF Refined, Window!Next
  <1>2. CASE Found(k) /\ ~first(k).started
    <2> DEFINE i == first(k)
    <2>1. Logged(k, i, x, clock) = i /\ ~Due(i, clock)
      BY <1>2 DEF Logged, Due
    <2>2. intervals[k] = <<i>>
      BY <1>2, OnlyNode
    <2>3. intervals' = [intervals EXCEPT ![k] = <<i>>] /\ reports' = {}
      <3>1. intervals' = [intervals EXCEPT ![k] = <<Logged(k, i, x, clock)>>]
        BY <1>2, LogOnly
      <3>2. {j \in DOMAIN intervals[k] : /\ Due(intervals[k][j], clock)
                                         /\ intervals[k][j].callback} = {}
        BY <1>2, <2>1, LogOnly
      <3>3. reports' = {}
        BY <3>2 DEF Log, Callbacks
      <3>4. QED
        BY <2>1, <3>1, <3>3
    <2> HIDE DEF i
    <2>4. intervals' = intervals
      BY <2>2, <2>3 DEF Inv, GoodLists
    <2>5. clock' \in Nat
      BY DEF Log, Inv
    <2>6. Window!Idle
      BY <2>3, <2>4, <2>5, IdleStep
    <2>7. QED
      BY <2>6 DEF Refined, Window!Next
  <1>3. CASE Found(k) /\ first(k).started /\ ~WindowClosed(first(k), clock)
    <2>1. Window!Collect(k, x)
      BY <1>3, CollectStep
    <2>2. QED
      BY <2>1 DEF Refined, Window!Next
  <1>4. CASE Found(k) /\ first(k).started /\ WindowClosed(first(k), clock)
    <2>1. Window!Deliver(k, x)
      BY <1>4, DeliverStep
    <2>2. QED
      BY <2>1 DEF Refined, Window!Next
  <1>5. QED
    BY <1>1, <1>2, <1>3, <1>4

LEMMA AddStep ==
    ASSUME Inv, Short, MaxCopies = 1, NEW k \in Keys, Add(k)
    PROVE  Window!Appear(k)
  <1>1. intervals[k] = <<>>
    <2>1. intervals[k] \in Seq(Node) /\ Len(intervals[k]) < 1
      BY DEF Add, Inv, GoodLists
    <2>2. QED
      BY <2>1, EmptySeq, LenProperties
  <1>2. intervals' = [intervals EXCEPT ![k] = <<NewNode>>]
    <2>1. Append(<<>>, NewNode) = <<NewNode>>
      OBVIOUS
    <2>2. QED
      BY <1>1, <2>1 DEF Add
  <1>3. /\ [q \in Keys |-> WindowOf(q)]'
              = [[q \in Keys |-> WindowOf(q)] EXCEPT ![k] = WindowOf(k)']
        /\ intervals'[k] = <<NewNode>>
    BY <1>2, OneWindow
  <1>4. WindowOf(k)' = Abstracted(NewNode)
    BY <1>3 DEF WindowOf, Found, first
  <1>5. Abstracted(NewNode) = Window!Fresh
    BY DEF Abstracted, NewNode, Window!Fresh
  <1>6. ~WindowOf(k).present
    BY <1>1 DEF WindowOf, Found
  <1>7. Delivered' = {} /\ clock' = clock
    BY DEF Add, Delivered
  <1>8. QED
    BY <1>3, <1>4, <1>5, <1>6, <1>7 DEF Window!Appear, Delivered

LEMMA RemoveStep ==
    ASSUME Inv, Short, MaxCopies = 1, NEW k \in Keys, Remove(k)
    PROVE  Window!Forget(k)
  <1>1. Found(k) /\ intervals[k] = <<first(k)>>
    BY OnlyNode DEF Remove
  <1>2. intervals' = [intervals EXCEPT ![k] = <<>>]
    <2>1. Tail(<<first(k)>>) = <<>>
      OBVIOUS
    <2>2. QED
      BY <1>1, <2>1 DEF Remove
  <1>3. /\ [q \in Keys |-> WindowOf(q)]'
              = [[q \in Keys |-> WindowOf(q)] EXCEPT ![k] = WindowOf(k)']
        /\ intervals'[k] = <<>>
    BY <1>2, OneWindow
  <1>4. WindowOf(k)' = Window!Absent
    BY <1>3 DEF WindowOf, Found, Window!Absent
  <1>5. WindowOf(k).present
    BY <1>1 DEF WindowOf, Abstracted
  <1>6. Delivered' = {} /\ clock' = clock
    BY DEF Remove, Delivered
  <1>7. QED
    BY <1>3, <1>4, <1>5, <1>6 DEF Window!Forget, Window!Set, Delivered

LEMMA SubscribeStep ==
    ASSUME Inv, Short, MaxCopies = 1, NEW k \in Keys, NEW b \in BOOLEAN,
           SetFirst(k, [first(k) EXCEPT !.callback = b])
    PROVE  Window!Subscribe(k, b)
  <1> DEFINE i == first(k)
             s == [i EXCEPT !.callback = b]
  <1>1. Found(k) /\ i \in Node
    BY OnlyNode DEF SetFirst
  <1>2. WindowOf(k) = Abstracted(i)
    BY <1>1 DEF WindowOf
  <1>3. Window!Set(k, Abstracted(s))
    BY OwnerStep
  <1> HIDE DEF i
  <1>4. Abstracted(s) = [Abstracted(i) EXCEPT !.subscribed = b]
    <2>1. /\ s.started = i.started /\ s.max_ts = i.max_ts
          /\ s.time_interval = i.time_interval /\ s.callback = b
          /\ s.times = i.times /\ s.lo = i.lo /\ s.hi = i.hi
      BY <1>1 DEF Node
    <2> HIDE DEF s
    <2> DEFINE o == IF i.started THEN i.max_ts - i.time_interval ELSE 0
               p == IF i.started THEN i.time_interval ELSE 0
    <2>2. Abstracted(s) = [present |-> TRUE, open |-> i.started, opened |-> o,
                           period |-> p, subscribed |-> b,
                           n |-> i.times, lo |-> i.lo, hi |-> i.hi]
      BY <2>1 DEF Abstracted
    <2>3. Abstracted(i) = [present |-> TRUE, open |-> i.started, opened |-> o,
                           period |-> p, subscribed |-> i.callback,
                           n |-> i.times, lo |-> i.lo, hi |-> i.hi]
      BY DEF Abstracted
    <2> DEFINE w == Abstracted(i)
               d == [w EXCEPT !.subscribed = b]
    <2>4. w = [present |-> TRUE, open |-> i.started, opened |-> o,
               period |-> p, subscribed |-> i.callback,
               n |-> i.times, lo |-> i.lo, hi |-> i.hi]
      BY <2>3
    <2>5. d = [w EXCEPT !.subscribed = b]
      OBVIOUS
    <2> HIDE DEF o, p, w, d
    <2>6. d = [present |-> TRUE, open |-> i.started, opened |-> o,
               period |-> p, subscribed |-> b,
               n |-> i.times, lo |-> i.lo, hi |-> i.hi]
      BY <2>4, <2>5
    <2>7. Abstracted(s) = d
      BY <2>2, <2>6
    <2>8. QED
      BY <2>7 DEF d, w
  <1> HIDE DEF s
  <1>5. Window!Set(k, [WindowOf(k) EXCEPT !.subscribed = b])
    BY <1>2, <1>3, <1>4
  <1>6. QED
    BY <1>5 DEF Window!Subscribe

LEMMA StartStep ==
    ASSUME Inv, Short, MaxCopies = 1, NEW k \in Keys, NEW p \in Periods, Start(k, p)
    PROVE  Window!Open(k, p)
  <1> DEFINE i == first(k)
             s == [i EXCEPT !.time_interval = p, !.max_ts = clock + p,
                            !.started = TRUE, !.since = clock]
  <1>1. Found(k) /\ i \in Node
    BY OnlyNode DEF Start, SetFirst
  <1>2. WindowOf(k) = Abstracted(i)
    BY <1>1 DEF WindowOf
  <1>3. Window!Set(k, Abstracted(s))
    BY OwnerStep DEF Start
  <1> HIDE DEF i
  <1>4. Abstracted(s) = [Abstracted(i) EXCEPT !.open = TRUE, !.opened = clock,
                                              !.period = p]
    <2>1. /\ s.started = TRUE /\ s.max_ts = clock + p /\ s.time_interval = p
          /\ s.callback = i.callback /\ s.times = i.times
          /\ s.lo = i.lo /\ s.hi = i.hi
      BY <1>1 DEF Node
    <2>2. (clock + p) - p = clock
      BY IntervalAssumption DEF Inv
    <2> HIDE DEF s
    <2> DEFINE a == Abstracted(s)
    <2>3. a = [present |-> TRUE, open |-> TRUE, opened |-> clock,
               period |-> p, subscribed |-> i.callback,
               n |-> i.times, lo |-> i.lo, hi |-> i.hi]
      BY <2>1, <2>2 DEF Abstracted
    <2> DEFINE w == Abstracted(i)
               d == [w EXCEPT !.open = TRUE, !.opened = clock, !.period = p]
    <2>4. PICK o, c, q :
             w = [present |-> TRUE, open |-> c, opened |-> o, period |-> q,
                  subscribed |-> i.callback,
                  n |-> i.times, lo |-> i.lo, hi |-> i.hi]
      BY DEF Abstracted
    <2>5. d = [w EXCEPT !.open = TRUE, !.opened = clock, !.period = p]
      OBVIOUS
    <2> HIDE DEF a, w, d
    <2>6. d = [present |-> TRUE, open |-> TRUE, opened |-> clock,
               period |-> p, subscribed |-> i.callback,
               n |-> i.times, lo |-> i.lo, hi |-> i.hi]
      BY <2>4, <2>5
    <2>7. a = d
      BY <2>3, <2>6
    <2>8. QED
      BY <2>7 DEF a, d, w
  <1> HIDE DEF s
  <1>5. Window!Set(k, [WindowOf(k) EXCEPT !.open = TRUE, !.opened = clock,
                                          !.period = p])
    BY <1>2, <1>3, <1>4
  <1>6. QED
    BY <1>5 DEF Window!Open

LEMMA StopStep ==
    ASSUME Inv, Short, MaxCopies = 1, NEW k \in Keys, Stop(k)
    PROVE  Window!Shut(k)
  <1> DEFINE i == first(k)
             s == [i EXCEPT !.time_interval = 0, !.max_ts = 0, !.started = FALSE]
  <1>1. Found(k) /\ i \in Node
    BY OnlyNode DEF Stop, SetFirst
  <1>2. WindowOf(k) = Abstracted(i)
    BY <1>1 DEF WindowOf
  <1>3. Window!Set(k, Abstracted(s))
    BY OwnerStep DEF Stop
  <1> HIDE DEF i
  <1>4. Abstracted(s) = [Abstracted(i) EXCEPT !.open = FALSE, !.opened = 0,
                                              !.period = 0]
    <2>1. /\ s.started = FALSE /\ s.callback = i.callback /\ s.times = i.times
          /\ s.lo = i.lo /\ s.hi = i.hi
      BY <1>1 DEF Node
    <2> HIDE DEF s
    <2> DEFINE a == Abstracted(s)
    <2>2. a = [present |-> TRUE, open |-> FALSE, opened |-> 0,
               period |-> 0, subscribed |-> i.callback,
               n |-> i.times, lo |-> i.lo, hi |-> i.hi]
      BY <2>1 DEF Abstracted
    <2> DEFINE w == Abstracted(i)
               d == [w EXCEPT !.open = FALSE, !.opened = 0, !.period = 0]
    <2>3. PICK o, c, q :
             w = [present |-> TRUE, open |-> c, opened |-> o, period |-> q,
                  subscribed |-> i.callback,
                  n |-> i.times, lo |-> i.lo, hi |-> i.hi]
      BY DEF Abstracted
    <2>4. d = [w EXCEPT !.open = FALSE, !.opened = 0, !.period = 0]
      OBVIOUS
    <2> HIDE DEF a, w, d
    <2>5. d = [present |-> TRUE, open |-> FALSE, opened |-> 0,
               period |-> 0, subscribed |-> i.callback,
               n |-> i.times, lo |-> i.lo, hi |-> i.hi]
      BY <2>3, <2>4
    <2>6. a = d
      BY <2>2, <2>5
    <2>7. QED
      BY <2>6 DEF a, d, w
  <1> HIDE DEF s
  <1>5. Window!Set(k, [WindowOf(k) EXCEPT !.open = FALSE, !.opened = 0,
                                          !.period = 0])
    BY <1>2, <1>3, <1>4
  <1>6. QED
    BY <1>5 DEF Window!Shut

LEMMA RefinedStep ==
    ASSUME Inv, Short, MaxCopies = 1, [Next]_vars
    PROVE  Refined
  <1>1. ASSUME NEW k \in Keys, Add(k) PROVE Refined
    BY <1>1, AddStep DEF Refined, Window!Next
  <1>2. ASSUME NEW k \in Keys, AddCallback(k) PROVE Refined
    <2>1. Window!Subscribe(k, TRUE)
      BY <1>2, SubscribeStep DEF AddCallback
    <2>2. QED
      BY <2>1 DEF Refined, Window!Next
  <1>3. ASSUME NEW k \in Keys, RemoveCallbacks(k) PROVE Refined
    <2>1. Window!Subscribe(k, FALSE)
      BY <1>3, SubscribeStep DEF RemoveCallbacks
    <2>2. QED
      BY <2>1 DEF Refined, Window!Next
  <1>4. ASSUME NEW k \in Keys, NEW p \in Periods, Start(k, p) PROVE Refined
    BY <1>4, StartStep DEF Refined, Window!Next
  <1>5. ASSUME NEW k \in Keys, Stop(k) PROVE Refined
    BY <1>5, StopStep DEF Refined, Window!Next
  <1>6. ASSUME NEW k \in Keys, Remove(k) PROVE Refined
    BY <1>6, RemoveStep DEF Refined, Window!Next
  <1>7. ASSUME NEW k \in Keys, NEW x \in Samples, Log(k, x) PROVE Refined
    BY <1>7, LogStep
  <1>8. ASSUME Tick \/ SetBack PROVE Refined
    <2>1. clock' \in Nat
      BY <1>8 DEF Tick, SetBack, Inv
    <2>2. UNCHANGED intervals /\ reports' = {}
      BY <1>8 DEF Tick, SetBack
    <2>3. Window!Idle
      BY <2>1, <2>2, IdleStep
    <2>4. QED
      BY <2>3 DEF Refined, Window!Next
  <1>9. ASSUME UNCHANGED vars PROVE Refined
    BY <1>9 DEF vars, Refined, Window!vars, WindowOf, Found, first
  <1>10. QED
    BY <1>1, <1>2, <1>3, <1>4, <1>5, <1>6, <1>7, <1>8, <1>9 DEF Next

LEMMA RefinedInit ==
    ASSUME Init
    PROVE  Window!Init
  <1>1. \A k \in Keys : WindowOf(k) = Window!Absent
    BY DEF Init, WindowOf, Found, Window!Absent
  <1>2. QED
    BY <1>1 DEF Init, Window!Init

\* The list of atmotube-interval.c, as long as no key is added twice, is an
\* implementation of the abstract windows of SampleWindow: each operation of the
\* list is the operation of the same meaning on one window, and interval_log on a
\* key is Collect inside the period, Deliver at or after its end (one delivery,
\* to a subscriber only, of a value between the least and the greatest sample of
\* this window), and nothing when the interval is absent or stopped.
THEOREM Refinement ==
    ASSUME MaxCopies = 1
    PROVE  Spec => ImplementsWindows
  <1>1. Init => Short
    BY IntervalAssumption DEF Init, Short
  <1>2. Short /\ Inv /\ [Next]_vars => Short'
    BY ShortStep
  <1>3. Short /\ Inv /\ [Next]_vars => [Window!Next]_(Window!vars)
    BY RefinedStep DEF Refined
  <1>4. Init => Window!Init
    BY RefinedInit
  <1>5. QED
    BY <1>1, <1>2, <1>3, <1>4, Invariance, PTL
       DEF Spec, ImplementsWindows, Window!Spec

=============================================================================
