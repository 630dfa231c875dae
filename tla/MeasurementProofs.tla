------------------------- MODULE MeasurementProofs -------------------------
(***************************************************************************)
(* Proofs about Measurement: a whole notification is read as it was sent,  *)
(* every value given to an output is the average of what was sent since    *)
(* the one before, and outputs come at the pace of their device.           *)
(***************************************************************************)
EXTENDS Measurement, AverageProofs

LEMMA Periods == PeriodOf \in [Devices -> Nat]
  BY MeasurementAssumption

LEMMA Bound == MaxReceived \in Nat
  BY MeasurementAssumption

LEMMA Sent ==
    ASSUME NEW c \in Characteristics, NEW q \in Quantities[c]
    PROVE  q \in Word /\ q \in Nat
  <1>1. q \in Word
    BY MeasurementAssumption
  <1>2. QED
    BY <1>1 DEF Word

LEMMA WordsAreNat == Word \subseteq Nat /\ Seq(Word) \subseteq Seq(Nat)
  <1>1. Word \subseteq Nat
    BY DEF Word
  <1>2. QED
    BY <1>1, SeqMonotonic

-----------------------------------------------------------------------------
(* Reading a notification.                                                 *)

LEMMA Bytes ==
    ASSUME NEW q \in Nat
    PROVE  /\ q \div 256 \in Nat /\ q % 256 \in Nat
           /\ (q \div 256) * 256 + (q % 256) = q
  BY Z3

LEMMA Extended ==
    ASSUME NEW s \in Seq(Nat), NEW x \in Nat
    PROVE  /\ Len(Append(s, x)) = Len(s) + 1
           /\ \A j \in 1 .. Len(s) : Append(s, x)[j] = s[j]
  BY AppendProperties

LEMMA Lengths ==
    ASSUME NEW c \in Measured, NEW q \in Quantities[c], NEW data \in Payloads(c, q)
    PROVE  /\ LongEnough(c, data) <=> Len(data) >= Len(Encoded(c, q))
           /\ LongEnough(c, data) => Decoded(c, data) = q
  <1>1. q \in Nat
    BY Sent DEF Characteristics
  <1>2. CASE c = "VOC"
    <2>1. Encoded(c, q) = <<q \div 256, q % 256>>
      BY <1>2 DEF Encoded
    <2>2. /\ Encoded(c, q) \in Seq(Nat) /\ Len(Encoded(c, q)) = 2
          /\ Encoded(c, q)[1] = q \div 256 /\ Encoded(c, q)[2] = q % 256
      BY <1>1, <2>1, Bytes
    <2>3. CASE data = Encoded(c, q)
      BY <1>1, <1>2, <2>2, <2>3, Bytes DEF LongEnough, Decoded
    <2>4. CASE data = Front(Encoded(c, q))
      <3>1. Len(data) = 1
        BY <2>2, <2>4 DEF Front
      <3>2. QED
        BY <1>2, <2>2, <3>1 DEF LongEnough
    <2>5. CASE data = Append(Encoded(c, q), 255)
      <3>1. Len(data) = 3 /\ data[1] = q \div 256 /\ data[2] = q % 256
        <4>1. /\ 255 \in Nat /\ 1 \in 1 .. Len(Encoded(c, q))
              /\ 2 \in 1 .. Len(Encoded(c, q))
          BY <2>2
        <4> DEFINE s == Encoded(c, q)
        <4>2. s \in Seq(Nat) /\ data = Append(s, 255)
          BY <2>2, <2>5
        <4>3. s[1] = q \div 256 /\ s[2] = q % 256 /\ Len(s) = 2
          BY <2>2
        <4> HIDE DEF s
        <4>4. /\ Len(data) = Len(s) + 1
              /\ \A j \in 1 .. Len(s) : data[j] = s[j]
          BY <4>1, <4>2, Extended
        <4>5. data[1] = s[1] /\ data[2] = s[2]
          BY <4>1, <4>4 DEF s
        <4>6. QED
          BY <4>3, <4>4, <4>5
      <3>2. QED
        BY <1>1, <1>2, <2>2, <3>1, Bytes DEF LongEnough, Decoded
    <2>6. QED
      BY <2>3, <2>4, <2>5 DEF Payloads
  <1>3. CASE c # "VOC"
    <2>1. /\ Encoded(c, q) \in Seq(Nat) /\ Len(Encoded(c, q)) = 1
          /\ Encoded(c, q)[1] = q
      BY <1>1, <1>3 DEF Encoded
    <2>2. CASE data = Encoded(c, q)
      BY <1>3, <2>1, <2>2 DEF LongEnough, Decoded
    <2>3. CASE data = Front(Encoded(c, q))
      <3>1. Len(data) = 0
        BY <2>1, <2>3 DEF Front
      <3>2. QED
        BY <1>3, <2>1, <3>1 DEF LongEnough
    <2>4. CASE data = Append(Encoded(c, q), 255)
      <3>1. Len(data) = 2 /\ data[1] = q
        <4>1. 255 \in Nat /\ 1 \in 1 .. Len(Encoded(c, q))
          BY <2>1
        <4>2. Len(data) = Len(Encoded(c, q)) + 1 /\ data[1] = Encoded(c, q)[1]
          BY <2>1, <2>4, <4>1, Extended
        <4>3. QED
          BY <2>1, <4>2
      <3>2. QED
        BY <1>3, <2>1, <3>1 DEF LongEnough, Decoded
    <2>5. QED
      BY <2>2, <2>3, <2>4 DEF Payloads
  <1>4. QED
    BY <1>2, <1>3

-----------------------------------------------------------------------------
(* One sample on the node of a key.                                        *)

\* What is known of a node that modify_intervals set up.
NodeOf(k, i) ==
    /\ i \in I!Node
    /\ i.started = TRUE
    /\ i.callback = TRUE
    /\ i.time_interval = PeriodOf[k[1]]
    /\ i.max_ts = i.since + PeriodOf[k[1]]

\* v is what the node of k holds after the samples s: for VOC their sum, for
\* the others a value between two of them.
AverageOf(k, v, s) ==
    IF k[2] = "VOC"
    THEN /\ v = SumFunction(s)
         /\ \E q \in ToSet(s) : Len(s) * q <= v
         /\ \E q \in ToSet(s) : v <= Len(s) * q
    ELSE /\ \E q \in ToSet(s) : q <= v
         /\ \E q \in ToSet(s) : v <= q

\* The node has taken the samples s since it was set up or last reported.
Collected(k, i, s) ==
    /\ i.times = Len(s)
    /\ i.times # 0 => AverageOf(k, i.current, s)

LEMMA PeriodOfKey == ASSUME NEW k \in Keys PROVE PeriodOf[k[1]] \in Nat
  BY Periods DEF Keys

LEMMA Grown ==
    ASSUME NEW s \in Seq(Nat), NEW x \in Nat
    PROVE  /\ Append(s, x) \in Seq(Nat)
           /\ Len(s) \in Nat /\ Len(Append(s, x)) = Len(s) + 1
           /\ x \in ToSet(Append(s, x))
           /\ ToSet(s) \subseteq ToSet(Append(s, x))
           /\ ToSet(s) \subseteq Nat
  <1> DEFINE t == Append(s, x)
  <1>1. /\ t \in Seq(Nat) /\ Len(t) = Len(s) + 1 /\ t[Len(s) + 1] = x
        /\ \A j \in 1 .. Len(s) : t[j] = s[j]
    BY AppendProperties
  <1>2. Len(s) \in Nat /\ DOMAIN s = 1 .. Len(s) /\ DOMAIN t = 1 .. Len(s) + 1
    BY <1>1, LenProperties
  <1>3. \A j \in 1 .. Len(s) : s[j] \in Nat
    BY ElementOfSeq
  <1> HIDE DEF t
  <1>4. ToSet(s) \subseteq ToSet(t) /\ x \in ToSet(t) /\ ToSet(s) \subseteq Nat
    BY <1>1, <1>2, <1>3 DEF ToSet
  <1>5. QED
    BY <1>1, <1>2, <1>4 DEF t

LEMMA NoSample == ASSUME NEW s \in Seq(Nat), Len(s) = 0 PROVE s = <<>>
  BY EmptySeq

\* The first sample of a window is its average.
LEMMA AverageFirst ==
    ASSUME NEW k \in Keys, NEW i \in I!Node, NEW s \in Seq(Nat), NEW x \in Nat,
           Collected(k, i, s), i.times = 0
    PROVE  I!Averaged(k, i, x) \in Nat /\ AverageOf(k, I!Averaged(k, i, x), Append(s, x))
  <1> DEFINE t == Append(s, x)
  <1>1. Len(s) = 0
    BY DEF Collected
  <1>2. Len(t) = 1 /\ x \in ToSet(t)
    <2>1. Len(t) = Len(s) + 1 /\ x \in ToSet(t)
      BY Grown
    <2> HIDE DEF t
    <2>2. QED
      BY <1>1, <2>1
  <1>3. SumFunction(t) = x
    <2>1. SumFunction(t) = SumFunction(s) + x /\ SumFunction(s) = 0
      BY <1>1, NoSample, SumAppend
    <2>2. QED
      BY <2>1
  <1>4. I!Averaged(k, i, x) = x
    BY DEF I!Averaged
  <1> HIDE DEF t
  <1>5. Len(t) * x = x
    BY <1>2
  <1>6. AverageOf(k, x, t)
    BY <1>2, <1>3, <1>5 DEF AverageOf
  <1>7. QED
    BY <1>4, <1>6 DEF t

\* A further sample of VOC is added to the sum.
LEMMA AverageVoc ==
    ASSUME NEW k \in Keys, k[2] = "VOC", NEW i \in I!Node, NEW s \in Seq(Nat),
           NEW x \in Nat, Collected(k, i, s), i.times # 0
    PROVE  I!Averaged(k, i, x) \in Nat /\ AverageOf(k, I!Averaged(k, i, x), Append(s, x))
  <1> DEFINE t == Append(s, x)
             n == Len(s)
             v == i.current
  <1>1. n \in Nat /\ v \in Nat /\ i.times = n
    BY Grown DEF Collected, I!Node
  <1>2. I!Averaged(k, i, x) = v + x
    BY DEF I!Averaged
  <1>3. /\ Len(t) = n + 1 /\ x \in ToSet(t)
        /\ ToSet(s) \subseteq ToSet(t) /\ ToSet(s) \subseteq Nat
    BY Grown
  <1>4. AverageOf(k, v, s)
    BY DEF Collected
  <1>5. SumFunction(t) = v + x
    BY <1>4, SumAppend DEF AverageOf
  <1>6. PICK a \in ToSet(s) : n * a <= v
    BY <1>4 DEF AverageOf
  <1>7. PICK b \in ToSet(s) : v <= n * b
    BY <1>4 DEF AverageOf
  <1>8. a \in Nat /\ b \in Nat /\ a \in ToSet(t) /\ b \in ToSet(t)
    BY <1>3
  <1> HIDE DEF t, n, v
  <1>9. \E q \in ToSet(t) : (n + 1) * q <= v + x
    <2> DEFINE q == IF a <= x THEN a ELSE x
    <2>1. q \in Nat /\ q \in ToSet(t) /\ q <= a /\ q <= x
      BY <1>3, <1>8
    <2> HIDE DEF q
    <2>2. n * q <= n * a /\ (n + 1) * q = n * q + q
      BY <1>1, <1>8, <2>1, Scale, DistributeLeft
    <2>3. n * q \in Nat /\ n * a \in Nat
      BY <1>1, <1>8, <2>1, Distribute
    <2>4. (n + 1) * q <= v + x
      BY <1>1, <1>6, <2>1, <2>2, <2>3
    <2>5. QED
      BY <2>1, <2>4
  <1>10. \E q \in ToSet(t) : v + x <= (n + 1) * q
    <2> DEFINE q == IF b <= x THEN x ELSE b
    <2>1. q \in Nat /\ q \in ToSet(t) /\ b <= q /\ x <= q
      BY <1>3, <1>8
    <2> HIDE DEF q
    <2>2. n * b <= n * q /\ (n + 1) * q = n * q + q
      BY <1>1, <1>8, <2>1, Scale, DistributeLeft
    <2>3. n * q \in Nat /\ n * b \in Nat
      BY <1>1, <1>8, <2>1, Distribute
    <2>4. v + x <= (n + 1) * q
      BY <1>1, <1>7, <2>1, <2>2, <2>3
    <2>5. QED
      BY <2>1, <2>4
  <1>11. AverageOf(k, v + x, t)
    BY <1>3, <1>5, <1>9, <1>10 DEF AverageOf
  <1>12. QED
    BY <1>1, <1>2, <1>11 DEF t

\* A further sample of the others is averaged, and the average stays between
\* the samples.
LEMMA AverageUlong ==
    ASSUME NEW k \in Keys, k[2] # "VOC", NEW i \in I!Node, NEW s \in Seq(Nat),
           NEW x \in Nat, Collected(k, i, s), i.times # 0
    PROVE  I!Averaged(k, i, x) \in Nat /\ AverageOf(k, I!Averaged(k, i, x), Append(s, x))
  <1> DEFINE t == Append(s, x)
             n == i.times + 1
             v == i.current
             avg == appr_rolling_average(v, x, n)
  <1>1. i.times \in Nat /\ n \in Nat /\ n >= 2 /\ v \in Nat
    BY DEF I!Node
  <1>2. I!Averaged(k, i, x) = avg
    BY DEF I!Averaged, I!appr_rolling_average, I!ExactAverage, I!RoundingError,
           appr_rolling_average, ExactAverage, RoundingError
  <1>3. x \in ToSet(t) /\ ToSet(s) \subseteq ToSet(t) /\ ToSet(s) \subseteq Nat
    BY Grown
  <1>4. AverageOf(k, v, s)
    BY DEF Collected
  <1>5. PICK a \in ToSet(s) : a <= v
    BY <1>4 DEF AverageOf
  <1>6. PICK b \in ToSet(s) : v <= b
    BY <1>4 DEF AverageOf
  <1> DEFINE lo == IF a <= x THEN a ELSE x
             hi == IF b <= x THEN x ELSE b
  <1>7. /\ lo \in Nat /\ lo \in ToSet(t) /\ lo <= v /\ lo <= x
        /\ hi \in Nat /\ hi \in ToSet(t) /\ v <= hi /\ x <= hi
    BY <1>1, <1>3, <1>5, <1>6
  <1> HIDE DEF t, n, v, lo, hi
  <1>8. /\ ExactAverage(v, x, n) >= RoundingError(v, x, n)
        /\ lo <= avg /\ avg <= hi
    BY <1>1, <1>7, AverageWithin
  <1>9. avg \in Nat
    BY <1>1, <1>8, AverageLoss
  <1> HIDE DEF avg
  <1>10. AverageOf(k, avg, t)
    BY <1>7, <1>8 DEF AverageOf
  <1>11. QED
    BY <1>2, <1>9, <1>10 DEF t

LEMMA ArmedIsNode ==
    ASSUME NEW k \in Keys, clock \in Nat
    PROVE  NodeOf(k, Armed(k[1])) /\ Collected(k, Armed(k[1]), <<>>)
  <1>1. PeriodOf[k[1]] \in Nat /\ clock + PeriodOf[k[1]] \in Nat
    BY PeriodOfKey
  <1>2. Len(<<>>) = 0
    OBVIOUS
  <1>3. QED
    BY <1>1, <1>2 DEF NodeOf, Collected, Armed, I!NewNode, I!Node

LEMMA TakenIsNode ==
    ASSUME NEW k \in Keys, NEW i, NEW s \in Seq(Nat), NEW x \in Nat,
           NodeOf(k, i), Collected(k, i, s)
    PROVE  LET t == I!Take(k, i, x) IN
           /\ NodeOf(k, t)
           /\ Collected(k, t, Append(s, x))
           /\ AverageOf(k, t.current, Append(s, x))
           /\ t.times = Len(Append(s, x))
  <1> DEFINE t == I!Take(k, i, x)
             v == I!Averaged(k, i, x)
  <1>1. i \in I!Node
    BY DEF NodeOf
  <1>2. v \in Nat /\ AverageOf(k, v, Append(s, x))
    BY <1>1, AverageFirst, AverageVoc, AverageUlong
  <1>3. /\ i.times + 1 \in Nat /\ i.sum + x \in Nat
        /\ I!Least(i, x) \in Nat /\ I!Greatest(i, x) \in Nat
    BY <1>1 DEF I!Least, I!Greatest, I!Node
  <1>4. t \in I!Node /\ t.current = v /\ t.times = i.times + 1
        /\ t.started = i.started /\ t.callback = i.callback
        /\ t.time_interval = i.time_interval
        /\ t.max_ts = i.max_ts /\ t.since = i.since
    <2> HIDE DEF v
    <2>1. v \in Nat /\ v = I!Averaged(k, i, x)
      BY <1>2 DEF v
    <2>2. QED
      BY <1>1, <1>3, <2>1 DEF I!Take, I!Node
  <1>5. Len(Append(s, x)) = i.times + 1
    BY Grown DEF Collected
  <1> HIDE DEF t, v
  <1>6. NodeOf(k, t) /\ Collected(k, t, Append(s, x))
    BY <1>2, <1>4, <1>5 DEF NodeOf, Collected
  <1>7. QED
    BY <1>2, <1>4, <1>5, <1>6 DEF t

LEMMA RearmedIsNode ==
    ASSUME NEW k \in Keys, NEW i, NEW s, NEW ts \in Nat,
           NodeOf(k, i), Collected(k, i, s)
    PROVE  NodeOf(k, I!Rearm(i, ts)) /\ Collected(k, I!Rearm(i, ts), s)
  <1>1. PeriodOf[k[1]] \in Nat /\ ts + PeriodOf[k[1]] \in Nat
    BY PeriodOfKey
  <1>2. QED
    BY <1>1 DEF NodeOf, Collected, I!Rearm, I!Node

LEMMA EmptiedIsNode ==
    ASSUME NEW k \in Keys, NEW i, NodeOf(k, i)
    PROVE  NodeOf(k, I!Emptied(i)) /\ Collected(k, I!Emptied(i), <<>>)
  <1>1. Len(<<>>) = 0
    OBVIOUS
  <1>2. QED
    BY <1>1 DEF NodeOf, Collected, I!Emptied, I!Node

LEMMA LoggedIsNode ==
    ASSUME NEW k \in Keys, NEW i, NEW s \in Seq(Nat), NEW x \in Nat, NEW ts \in Nat,
           NodeOf(k, i), Collected(k, i, s)
    PROVE  /\ NodeOf(k, I!Logged(k, i, x, ts))
           /\ Collected(k, I!Logged(k, i, x, ts),
                        IF I!WindowClosed(i, ts) THEN <<>> ELSE Append(s, x))
  <1>1. i.started = TRUE
    BY DEF NodeOf
  <1>2. CASE I!WindowClosed(i, ts)
    <2>1. NodeOf(k, I!Rearm(i, ts)) /\ Collected(k, I!Rearm(i, ts), s)
      BY RearmedIsNode
    <2>2. NodeOf(k, I!Take(k, I!Rearm(i, ts), x))
      BY <2>1, TakenIsNode
    <2>3. QED
      BY <1>1, <1>2, <2>2, EmptiedIsNode DEF I!Logged
  <1>3. CASE ~I!WindowClosed(i, ts)
    BY <1>1, <1>3, TakenIsNode DEF I!Logged
  <1>4. QED
    BY <1>2, <1>3

-----------------------------------------------------------------------------
(* The inductive invariant.                                                *)

\* A key has one node or none.
OneNode ==
    /\ intervals = [k \in Keys |-> intervals[k]]
    /\ \A k \in Keys :
          \/ intervals[k] = <<>>
          \/ intervals[k] = <<intervals[k][1]>> /\ NodeOf(k, intervals[k][1])

\* A device has all its intervals or none of them.
AllOrNone ==
    \A d \in Devices : \A b, c \in Measured :
        intervals[<<d, b>>] = <<>> <=> intervals[<<d, c>>] = <<>>

\* What was sent since the key was registered or last reported.
InWindow(k) == IF k \in complete THEN <<>> ELSE heard[k]

\* A node has taken what was sent in its window, all of it and nothing else.
Counted ==
    \A k \in Keys :
        IF intervals[k] = <<>> THEN heard[k] = <<>> /\ k \notin complete
        ELSE Collected(k, intervals[k][1], InWindow(k))

GoodReport(r, sent) ==
    /\ r \in I!Report
    /\ r.n = Len(sent)
    /\ AverageOf(r.key, r.value, sent)
    /\ r.ts - r.since >= PeriodOf[r.key[1]]

ReportsGood == \A r \in reports : GoodReport(r, heard[r.key])

Inv ==
    /\ clock \in Nat /\ slips \in Nat
    /\ heard \in [Keys -> Seq(Word)]
    /\ complete \subseteq Keys
    /\ received \in 0 .. MaxReceived
    /\ OneNode
    /\ AllOrNone
    /\ Counted
    /\ ReportsGood

LEMMA KeyOf ==
    ASSUME NEW d \in Devices, NEW c \in Measured
    PROVE  /\ <<d, c>> \in Keys
           /\ <<d, c>>[1] = d
  BY DEF Keys

LEMMA RegisteredIs ==
    ASSUME AllOrNone, NEW d \in Devices, NEW c \in Measured
    PROVE  Registered(d) <=> intervals[<<d, c>>] # <<>>
  BY DEF AllOrNone, Registered, I!Found

LEMMA InWindowIs ==
    ASSUME Inv, NEW k \in Keys
    PROVE  InWindow(k) \in Seq(Word) /\ InWindow(k) \in Seq(Nat)
  <1>1. <<>> \in Seq(Word)
    BY EmptySeq
  <1>2. heard[k] \in Seq(Word)
    BY DEF Inv
  <1>3. InWindow(k) \in Seq(Word)
    BY <1>1, <1>2 DEF InWindow
  <1>4. QED
    BY <1>3, WordsAreNat

LEMMA InitInv == Init => Inv
  <1> SUFFICES ASSUME Init PROVE Inv
    OBVIOUS
  <1>1. /\ intervals = [k \in Keys |-> <<>>] /\ clock = 0 /\ reports = {}
        /\ slips = 0
        /\ heard = [k \in Keys |-> <<>>] /\ complete = {} /\ received = 0
    BY DEF Init, I!Init
  <1>2. <<>> \in Seq(Word)
    BY EmptySeq
  <1>3. heard \in [Keys -> Seq(Word)]
    BY <1>1, <1>2
  <1>4. OneNode /\ AllOrNone /\ Counted /\ ReportsGood
    BY <1>1, KeyOf DEF OneNode, AllOrNone, Counted, ReportsGood
  <1>5. received \in 0 .. MaxReceived
    BY <1>1, Bound
  <1>6. QED
    BY <1>1, <1>3, <1>4, <1>5 DEF Inv

LEMMA RegisterInv ==
    ASSUME Inv, NEW d \in Devices, Register(d)
    PROVE  Inv'
  <1>1. /\ intervals' = [k \in Keys |-> IF k \in KeysOf(d) THEN <<Armed(d)>>
                                                          ELSE intervals[k]]
        /\ reports' = {} /\ clock' = clock /\ heard' = heard /\ slips' = slips
        /\ complete' = complete /\ received' = received
    BY DEF Register
  <1>2. \A k \in Keys : k \in KeysOf(d) <=> k[1] = d
    BY DEF KeysOf
  <1>3. \A k \in Keys : k[1] = d => intervals[k] = <<>>
    BY DEF Register, Keys, I!Found
  <1>4. ASSUME NEW k \in Keys, k[1] = d
        PROVE  /\ intervals'[k] = <<Armed(d)>> /\ intervals'[k][1] = Armed(d)
               /\ NodeOf(k, Armed(d)) /\ Collected(k, Armed(d), <<>>)
    BY <1>1, <1>2, <1>4, ArmedIsNode DEF Inv
  <1>5. ASSUME NEW k \in Keys, k[1] # d
        PROVE  intervals'[k] = intervals[k]
    BY <1>1, <1>2, <1>5
  <1>6. OneNode'
    <2>1. intervals' = [k \in Keys |-> intervals'[k]]
      BY <1>1
    <2>2. ASSUME NEW k \in Keys
          PROVE  \/ intervals'[k] = <<>>
                 \/ intervals'[k] = <<intervals'[k][1]>> /\ NodeOf(k, intervals'[k][1])
      <3>1. CASE k[1] = d
        BY <1>4, <3>1
      <3>2. CASE k[1] # d
        BY <1>5, <3>2 DEF Inv, OneNode
      <3>3. QED
        BY <3>1, <3>2
    <2>3. QED
      BY <2>1, <2>2 DEF OneNode
  <1>7. AllOrNone'
    <2>1. ASSUME NEW e \in Devices, NEW b \in Measured, NEW c \in Measured
          PROVE  intervals'[<<e, b>>] = <<>> <=> intervals'[<<e, c>>] = <<>>
      <3>1. /\ <<e, b>> \in Keys /\ <<e, c>> \in Keys
            /\ <<e, b>>[1] = e /\ <<e, c>>[1] = e
        BY KeyOf
      <3>2. CASE e = d
        BY <1>4, <3>1, <3>2
      <3>3. CASE e # d
        BY <1>5, <3>1, <3>3 DEF Inv, AllOrNone
      <3>4. QED
        BY <3>2, <3>3
    <2>2. QED
      BY <2>1 DEF AllOrNone
  <1>8. Counted'
    <2>1. ASSUME NEW k \in Keys
          PROVE  IF intervals'[k] = <<>> THEN heard[k] = <<>> /\ k \notin complete
                 ELSE Collected(k, intervals'[k][1], InWindow(k))
      <3>1. CASE k[1] = d
        <4>1. heard[k] = <<>> /\ k \notin complete /\ InWindow(k) = <<>>
          BY <1>3, <3>1 DEF Inv, Counted, InWindow
        <4>2. QED
          BY <1>4, <3>1, <4>1
      <3>2. CASE k[1] # d
        BY <1>5, <3>2 DEF Inv, Counted
      <3>3. QED
        BY <3>1, <3>2
    <2>2. QED
      BY <1>1, <2>1 DEF Counted, InWindow
  <1>9. ReportsGood'
    BY <1>1 DEF ReportsGood
  <1>10. QED
    BY <1>1, <1>6, <1>7, <1>8, <1>9 DEF Inv

LEMMA UnregisterInv ==
    ASSUME Inv, NEW d \in Devices, Unregister(d)
    PROVE  Inv'
  <1>1. /\ intervals' = [k \in Keys |-> IF k \in KeysOf(d) THEN Tail(intervals[k])
                                                          ELSE intervals[k]]
        /\ reports' = {} /\ clock' = clock /\ received' = received
        /\ slips' = slips
        /\ heard' = [k \in Keys |-> IF k[1] = d THEN <<>> ELSE heard[k]]
        /\ complete' = {k \in complete : k[1] # d}
    BY DEF Unregister
  <1>2. \A k \in Keys : k \in KeysOf(d) <=> k[1] = d
    BY DEF KeysOf
  <1>3. ASSUME NEW k \in Keys, k[1] = d
        PROVE  intervals'[k] = <<>> /\ heard'[k] = <<>> /\ k \notin complete'
    <2>1. intervals[k] # <<>>
      BY <1>3 DEF Unregister, Registered, Keys, I!Found
    <2>2. intervals[k] = <<intervals[k][1]>>
      BY <2>1 DEF Inv, OneNode
    <2>3. Tail(intervals[k]) = <<>>
      <3> DEFINE i == intervals[k][1]
                 s == <<i>>
      <3>1. s \in Seq({i}) /\ Len(s) = 1 /\ s # <<>>
        OBVIOUS
      <3> HIDE DEF s
      <3>2. Tail(s) \in Seq({i}) /\ Len(Tail(s)) = 0
        BY <3>1, HeadTailProperties
      <3>3. Tail(s) = <<>>
        BY <3>2, EmptySeq
      <3>4. QED
        BY <2>2, <3>3 DEF s
    <2>4. QED
      BY <1>1, <1>2, <1>3, <2>3
  <1>4. ASSUME NEW k \in Keys, k[1] # d
        PROVE  /\ intervals'[k] = intervals[k] /\ heard'[k] = heard[k]
               /\ k \in complete' <=> k \in complete
    BY <1>1, <1>2, <1>4
  <1>5. OneNode'
    <2>1. intervals' = [k \in Keys |-> intervals'[k]]
      BY <1>1
    <2>2. ASSUME NEW k \in Keys
          PROVE  \/ intervals'[k] = <<>>
                 \/ intervals'[k] = <<intervals'[k][1]>> /\ NodeOf(k, intervals'[k][1])
      BY <1>3, <1>4 DEF Inv, OneNode
    <2>3. QED
      BY <2>1, <2>2 DEF OneNode
  <1>6. AllOrNone'
    <2>1. ASSUME NEW e \in Devices, NEW b \in Measured, NEW c \in Measured
          PROVE  intervals'[<<e, b>>] = <<>> <=> intervals'[<<e, c>>] = <<>>
      <3>1. /\ <<e, b>> \in Keys /\ <<e, c>> \in Keys
            /\ <<e, b>>[1] = e /\ <<e, c>>[1] = e
        BY KeyOf
      <3>2. CASE e = d
        BY <1>3, <3>1, <3>2
      <3>3. CASE e # d
        BY <1>4, <3>1, <3>3 DEF Inv, AllOrNone
      <3>4. QED
        BY <3>2, <3>3
    <2>2. QED
      BY <2>1 DEF AllOrNone
  <1>7. Counted'
    <2>1. ASSUME NEW k \in Keys
          PROVE  IF intervals'[k] = <<>> THEN heard'[k] = <<>> /\ k \notin complete'
                 ELSE Collected(k, intervals'[k][1], InWindow(k)')
      BY <1>3, <1>4 DEF Inv, Counted, InWindow
    <2>2. QED
      BY <2>1 DEF Counted
  <1>8. heard' \in [Keys -> Seq(Word)] /\ complete' \subseteq Keys
    BY <1>1, EmptySeq DEF Inv
  <1>9. ReportsGood'
    BY <1>1 DEF ReportsGood
  <1>10. QED
    BY <1>1, <1>5, <1>6, <1>7, <1>8, <1>9 DEF Inv

\* interval_log on the node of a key: one callback if the sample closes the
\* window, none otherwise.
LEMMA LogOne ==
    ASSUME Inv, NEW k \in Keys, NEW x \in Nat, I!Log(k, x), intervals[k] # <<>>
    PROVE  LET i == intervals[k][1] IN
           /\ intervals'[k] = <<I!Logged(k, i, x, clock)>>
           /\ \A l \in Keys : l # k => intervals'[l] = intervals[l]
           /\ intervals' = [l \in Keys |-> intervals'[l]]
           /\ clock' = clock /\ slips' = slips
           /\ I!WindowClosed(i, clock) <=> reports' # {}
           /\ \A r \in reports' : r.key = k /\ GoodReport(r, Append(InWindow(k), x))
  <1> DEFINE i == intervals[k][1]
             s == InWindow(k)
             t == I!Take(k, i, x)
  <1>1. intervals[k] = <<i>> /\ NodeOf(k, i) /\ Collected(k, i, s) /\ s \in Seq(Nat)
    BY InWindowIs DEF Inv, OneNode, Counted
  <1>2. DOMAIN intervals[k] = {1} /\ intervals[k][1] = i
    BY <1>1
  <1>3. /\ intervals' = [intervals EXCEPT ![k] =
              [j \in DOMAIN intervals[k] |-> I!Logged(k, intervals[k][j], x, clock)]]
        /\ reports' = I!Callbacks(k, x, clock) /\ clock' = clock /\ slips' = slips
    BY DEF I!Log
  <1>4. [j \in DOMAIN intervals[k] |-> I!Logged(k, intervals[k][j], x, clock)]
           = <<I!Logged(k, i, x, clock)>>
    BY <1>2
  <1>5. intervals = [l \in Keys |-> intervals[l]]
    BY DEF Inv, OneNode
  <1>6. intervals' = [intervals EXCEPT ![k] = <<I!Logged(k, i, x, clock)>>]
    BY <1>3, <1>4
  <1>7. /\ intervals'[k] = <<I!Logged(k, i, x, clock)>>
        /\ \A l \in Keys : l # k => intervals'[l] = intervals[l]
        /\ intervals' = [l \in Keys |-> intervals'[l]]
    <2> DEFINE node == <<I!Logged(k, i, x, clock)>>
    <2>1. intervals' = [intervals EXCEPT ![k] = node]
      BY <1>6
    <2> HIDE DEF node
    <2>2. QED
      BY <1>5, <2>1 DEF node
  <1>8. {c \in DOMAIN intervals[k] : /\ I!Due(intervals[k][c], clock)
                                     /\ intervals[k][c].callback}
           = IF I!WindowClosed(i, clock) THEN {1} ELSE {}
    BY <1>1, <1>2 DEF I!Due, NodeOf
  <1>9. /\ NodeOf(k, t) /\ AverageOf(k, t.current, Append(s, x))
        /\ t.times = Len(Append(s, x))
    BY <1>1, TakenIsNode
  <1>10. CASE I!WindowClosed(i, clock)
    <2> DEFINE report == [key |-> k, copy |-> 1, ts |-> clock, value |-> t.current,
                          n |-> t.times, since |-> i.since,
                          period |-> i.time_interval,
                          sum |-> t.sum, lo |-> t.lo, hi |-> t.hi]
    <2>1. reports' = {report}
      <3>1. {c \in DOMAIN intervals[k] : /\ I!Due(intervals[k][c], clock)
                                         /\ intervals[k][c].callback} = {1}
        BY <1>8, <1>10
      <3>2. QED
        BY <1>3, <3>1 DEF I!Callbacks
    <2>2. /\ t \in I!Node /\ i \in I!Node /\ clock \in Nat
      BY <1>1, <1>9 DEF NodeOf, Inv
    <2>3. report \in I!Report
      <3> HIDE DEF t, i
      <3> QED BY <2>2 DEF I!Report, I!Node
    <2>4. clock - i.since >= PeriodOf[k[1]]
      <3>1. clock >= i.max_ts /\ i.max_ts = i.since + PeriodOf[k[1]]
        BY <1>1, <1>10 DEF I!WindowClosed, NodeOf
      <3>2. i.since \in Nat /\ clock \in Nat /\ PeriodOf[k[1]] \in Nat
        BY <2>2, PeriodOfKey DEF I!Node
      <3> HIDE DEF i
      <3>3. QED
        BY <3>1, <3>2
    <2>5. GoodReport(report, Append(s, x))
      <3>1. /\ report.key = k /\ report.n = t.times /\ report.value = t.current
            /\ report.ts = clock /\ report.since = i.since
        OBVIOUS
      <3> HIDE DEF report
      <3>2. QED
        BY <1>9, <2>3, <2>4, <3>1 DEF GoodReport
    <2>6. report.key = k
      OBVIOUS
    <2> HIDE DEF report
    <2>7. reports' # {} /\ \A r \in reports' : r.key = k /\ GoodReport(r, Append(s, x))
      BY <2>1, <2>5, <2>6
    <2>8. QED
      BY <1>3, <1>7, <1>10, <2>7
  <1>11. CASE ~I!WindowClosed(i, clock)
    <2>1. reports' = {}
      BY <1>3, <1>8, <1>11 DEF I!Callbacks
    <2>2. QED
      BY <1>3, <1>7, <1>11, <2>1
  <1>12. QED
    BY <1>10, <1>11

\* A whole notification of a registered device.
LEMMA SampleInv ==
    ASSUME Inv, NEW d \in Devices, NEW c \in Measured, NEW q \in Word,
           intervals[<<d, c>>] # <<>>,
           I!Log(<<d, c>>, q),
           received < MaxReceived,
           received' = received + 1,
           heard' = [heard EXCEPT ![<<d, c>>] =
                        IF <<d, c>> \in complete THEN <<q>> ELSE Append(@, q)],
           complete' = IF reports' = {} THEN complete \ {<<d, c>>}
                                        ELSE complete \cup {<<d, c>>}
    PROVE  Inv'
  <1> DEFINE k == <<d, c>>
             i == intervals[k][1]
             node == I!Logged(k, i, q, clock)
             s == InWindow(k)
  <1>1. k \in Keys /\ k[1] = d /\ q \in Nat
    BY KeyOf, WordsAreNat
  <1>2. /\ intervals'[k] = <<node>> /\ intervals'[k][1] = node
        /\ \A l \in Keys : l # k => intervals'[l] = intervals[l]
        /\ intervals' = [l \in Keys |-> intervals'[l]]
        /\ clock' = clock /\ slips' = slips
        /\ I!WindowClosed(i, clock) <=> reports' # {}
        /\ \A r \in reports' : r.key = k /\ GoodReport(r, Append(s, q))
    BY <1>1, LogOne
  <1>3. /\ NodeOf(k, i) /\ Collected(k, i, s)
        /\ s \in Seq(Word) /\ s \in Seq(Nat) /\ clock \in Nat /\ slips \in Nat
    BY <1>1, InWindowIs DEF Inv, OneNode, Counted
  <1>4. /\ NodeOf(k, node)
        /\ Collected(k, node, IF I!WindowClosed(i, clock) THEN <<>> ELSE Append(s, q))
    BY <1>1, <1>3, LoggedIsNode
  <1>5. /\ heard \in [Keys -> Seq(Word)]
        /\ complete \subseteq Keys
    BY DEF Inv
  <1>6. /\ heard'[k] = Append(s, q)
        /\ \A l \in Keys : l # k => heard'[l] = heard[l]
        /\ heard' \in [Keys -> Seq(Word)]
    <2>1. heard' = [heard EXCEPT ![k] = Append(s, q)]
      <3>1. <<q>> = Append(<<>>, q)
        OBVIOUS
      <3>2. (IF k \in complete THEN <<q>> ELSE Append(heard[k], q)) = Append(s, q)
        BY <3>1 DEF InWindow
      <3>3. QED
        BY <3>2
    <2>2. Append(s, q) \in Seq(Word)
      BY <1>3, AppendProperties
    <2> DEFINE t == Append(s, q)
    <2> HIDE DEF t, k
    <2>3. heard' = [heard EXCEPT ![k] = t] /\ t \in Seq(Word)
      BY <2>1, <2>2 DEF t
    <2>4. QED
      BY <1>1, <1>5, <2>3 DEF t
  <1>7. /\ k \in complete' <=> I!WindowClosed(i, clock)
        /\ \A l \in Keys : l # k => (l \in complete' <=> l \in complete)
        /\ complete' \subseteq Keys
    BY <1>1, <1>2, <1>5
  <1>8. InWindow(k)' = IF I!WindowClosed(i, clock) THEN <<>> ELSE Append(s, q)
    BY <1>6, <1>7 DEF InWindow
  <1>9. \A l \in Keys : l # k => InWindow(l)' = InWindow(l)
    BY <1>6, <1>7 DEF InWindow
  <1> HIDE DEF k, i, node, s
  <1>10. OneNode'
    <2>1. ASSUME NEW l \in Keys
          PROVE  \/ intervals'[l] = <<>>
                 \/ intervals'[l] = <<intervals'[l][1]>> /\ NodeOf(l, intervals'[l][1])
      <3>1. CASE l = k
        BY <1>2, <1>4, <3>1
      <3>2. CASE l # k
        BY <1>2, <3>2 DEF Inv, OneNode
      <3>3. QED
        BY <3>1, <3>2
    <2>2. QED
      BY <1>2, <2>1 DEF OneNode
  <1>11. AllOrNone'
    <2>1. \A l \in Keys : intervals'[l] = <<>> <=> intervals[l] = <<>>
      <3>1. intervals'[k] # <<>> /\ intervals[k] # <<>>
        BY <1>2 DEF k
      <3>2. QED
        BY <1>2, <3>1
    <2>2. QED
      BY <2>1, KeyOf DEF Inv, AllOrNone
  <1>12. Counted'
    <2>1. ASSUME NEW l \in Keys
          PROVE  IF intervals'[l] = <<>> THEN heard'[l] = <<>> /\ l \notin complete'
                 ELSE Collected(l, intervals'[l][1], InWindow(l)')
      <3>1. CASE l = k
        <4>1. intervals'[k] # <<>> /\ Collected(k, node, InWindow(k)')
          BY <1>2, <1>4, <1>8
        <4>2. QED
          BY <1>2, <3>1, <4>1
      <3>2. CASE l # k
        BY <1>2, <1>6, <1>7, <1>9, <3>2 DEF Inv, Counted
      <3>3. QED
        BY <3>1, <3>2
    <2>2. QED
      BY <2>1 DEF Counted
  <1>13. ReportsGood'
    BY <1>2, <1>6 DEF ReportsGood
  <1>14. received' \in 0 .. MaxReceived
    BY Bound DEF Inv
  <1>15. QED
    BY <1>2, <1>3, <1>6, <1>7, <1>10, <1>11, <1>12, <1>13, <1>14 DEF Inv

\* A step that leaves the intervals alone and reports nothing.
LEMMA IdleInv ==
    ASSUME Inv, UNCHANGED <<heard, complete, received>>,
           UNCHANGED <<intervals, slips>>, clock' \in Nat, reports' = {}
    PROVE  Inv'
  BY DEF Inv, OneNode, AllOrNone, Counted, InWindow, ReportsGood

LEMMA NotifyInv ==
    ASSUME Inv, NEW d \in Devices, NEW c \in Characteristics,
           NEW q \in Quantities[c], NEW data \in Payloads(c, q),
           Notify(d, c, q, data)
    PROVE  Inv'
  <1>1. CASE LongEnough(c, data) /\ Registered(d)
    <2>1. c \in Measured /\ Len(data) >= Len(Encoded(c, q))
      BY <1>1, Lengths DEF LongEnough
    <2>2. intervals[<<d, c>>] # <<>>
      BY <1>1, <2>1, RegisteredIs DEF Inv
    <2>3. q \in Word /\ Decoded(c, data) = q
      BY <1>1, <2>1, Sent, Lengths
    <2>4. QED
      BY <1>1, <2>1, <2>2, <2>3, SampleInv DEF Notify
  <1>2. CASE LongEnough(c, data) /\ ~Registered(d)
    <2>1. c \in Measured /\ UNCHANGED <<heard, complete, received>>
      BY <1>2 DEF Notify, LongEnough
    <2>2. <<d, c>> \in Keys /\ intervals[<<d, c>>] = <<>>
      BY <1>2, <2>1, RegisteredIs, KeyOf DEF Inv
    <2>3. I!Log(<<d, c>>, Decoded(c, data))
      BY <1>2 DEF Notify
    <2>4. DOMAIN intervals[<<d, c>>] = {}
      BY <2>2
    <2>5. reports' = {}
      BY <2>3, <2>4 DEF I!Log, I!Callbacks
    <2>6. [j \in DOMAIN intervals[<<d, c>>] |->
              I!Logged(<<d, c>>, intervals[<<d, c>>][j], Decoded(c, data), clock)] = <<>>
      BY <2>4
    <2>7. UNCHANGED <<intervals, clock, slips>>
      <3>1. intervals' = [intervals EXCEPT ![<<d, c>>] =
               [j \in DOMAIN intervals[<<d, c>>] |->
                  I!Logged(<<d, c>>, intervals[<<d, c>>][j], Decoded(c, data), clock)]]
        BY <2>3 DEF I!Log
      <3>2. intervals' = [intervals EXCEPT ![<<d, c>>] = <<>>]
        BY <2>6, <3>1
      <3>3. intervals = [k \in Keys |-> intervals[k]]
        BY DEF Inv, OneNode
      <3>4. QED
        BY <2>2, <2>3, <3>2, <3>3 DEF I!Log
    <2>8. QED
      BY <2>1, <2>5, <2>7, IdleInv DEF Inv
  <1>3. CASE ~LongEnough(c, data)
    <2>1. reports' = {} /\ UNCHANGED <<intervals, clock, slips>>
      BY <1>3 DEF Notify
    <2>2. ~(Registered(d) /\ c \in Measured /\ Len(data) >= Len(Encoded(c, q)))
      BY <1>3, Lengths
    <2>3. UNCHANGED <<heard, complete, received>>
      BY <2>2 DEF Notify
    <2>4. QED
      BY <2>1, <2>3, IdleInv DEF Inv
  <1>4. QED
    BY <1>1, <1>2, <1>3

LEMMA NextInv == Inv /\ [Next]_vars => Inv'
  <1> SUFFICES ASSUME Inv, [Next]_vars PROVE Inv'
    OBVIOUS
  <1>1. CASE Tick
    <2>1. clock' \in Nat /\ reports' = {} /\ UNCHANGED <<intervals, slips>>
      BY <1>1 DEF Tick, I!Tick, Inv
    <2>2. QED
      BY <1>1, <2>1, IdleInv DEF Tick
  <1>2. CASE UNCHANGED vars
    BY <1>2 DEF vars, Inv, OneNode, AllOrNone, Counted, InWindow, ReportsGood
  <1>3. QED
    BY <1>1, <1>2, RegisterInv, UnregisterInv, NotifyInv DEF Next

LEMMA Invariance == Spec => []Inv
  BY InitInv, NextInv, PTL DEF Spec

-----------------------------------------------------------------------------

\* A notification that is long enough is read as the quantity the sensor sent,
\* short by a byte or with one more.
THEOREM ReadAsSent ==
    ASSUME NEW c \in Measured, NEW q \in Quantities[c], NEW data \in Payloads(c, q),
           LongEnough(c, data)
    PROVE  Decoded(c, data) = q
  BY Lengths

\* The variables keep their types for any devices, quantities and periods, and
\* a device has all its intervals or none.
THEOREM Typing == Spec => []TypeOK
  <1>1. ASSUME Inv PROVE TypeOK
    <2>1. intervals \in [Keys -> Seq(I!Node)]
      <3>1. ASSUME NEW k \in Keys PROVE intervals[k] \in Seq(I!Node)
        <4>1. CASE intervals[k] = <<>>
          BY <4>1, EmptySeq
        <4>2. CASE intervals[k] = <<intervals[k][1]>> /\ NodeOf(k, intervals[k][1])
          <5> DEFINE i == intervals[k][1]
          <5>1. i \in I!Node
            BY <4>2 DEF NodeOf
          <5> HIDE DEF i
          <5>2. <<i>> \in Seq(I!Node)
            BY <5>1
          <5>3. QED
            BY <4>2, <5>2 DEF i
        <4>3. QED
          BY <1>1, <4>1, <4>2 DEF Inv, OneNode
      <3>2. QED
        BY <1>1, <3>1 DEF Inv, OneNode
    <2>2. reports \subseteq I!Report
      BY <1>1 DEF Inv, ReportsGood, GoodReport
    <2>3. I!TypeOK
      BY <1>1, <2>1, <2>2 DEF I!TypeOK, Inv
    <2>4. \A d \in Devices : Registered(d) \/ \A c \in Measured : ~I!Found(<<d, c>>)
      BY <1>1 DEF Inv, AllOrNone, Registered, I!Found
    <2>5. QED
      BY <1>1, <2>3, <2>4 DEF TypeOK, Inv
  <1>2. QED
    BY <1>1, Invariance, PTL

\* Every value given to an output is an average of what its sensor sent for its
\* characteristic since the output before: of all of it and nothing else, read
\* right, not outside the samples, and for VOC their exact mean.
THEOREM Averages == Spec => []OutputIsMeasured
  <1>1. ASSUME Inv, NEW r \in reports
        PROVE  LET sent == heard[<<r.key[1], Callback(r.key[2])>>]
                   total == IF r.key \in {k \in Keys : k[2] # "VOC"}
                            THEN r.n * r.value ELSE r.value IN
               /\ r.n = Len(sent)
               /\ \E q \in ToSet(sent) : r.n * q <= total
               /\ \E q \in ToSet(sent) : total <= r.n * q
               /\ Callback(r.key[2]) = "VOC" => total = SumFunction(sent)
    <2> DEFINE k == r.key
               s == heard[k]
               n == r.n
    <2>1. k \in Keys /\ r.value \in Nat /\ n = Len(s) /\ AverageOf(k, r.value, s)
      BY <1>1 DEF Inv, ReportsGood, GoodReport, I!Report
    <2>2. k = <<k[1], k[2]>> /\ Callback(k[2]) = k[2]
      BY <2>1 DEF Keys, Callback
    <2>3. s \in Seq(Nat) /\ n \in Nat /\ ToSet(s) \subseteq Nat
      <3>1. s \in Seq(Word)
        BY <1>1, <2>1 DEF Inv
      <3>2. s \in Seq(Nat)
        BY <3>1, WordsAreNat
      <3>3. QED
        BY <2>1, <3>2, Grown
    <2>4. heard[<<r.key[1], Callback(r.key[2])>>] = s
      BY <2>2
    <2>5. CASE k[2] = "VOC"
      <3> HIDE DEF k, s, n
      <3>1. /\ r.value = SumFunction(s)
            /\ \E q \in ToSet(s) : n * q <= r.value
            /\ \E q \in ToSet(s) : r.value <= n * q
        BY <2>1, <2>5 DEF AverageOf
      <3>2. QED
        BY <2>1, <2>2, <2>4, <2>5, <3>1 DEF k, n
    <2>6. CASE k[2] # "VOC"
      <3> HIDE DEF k, s, n
      <3>1. PICK a \in ToSet(s) : a <= r.value
        BY <2>1, <2>6 DEF AverageOf
      <3>2. PICK b \in ToSet(s) : r.value <= b
        BY <2>1, <2>6 DEF AverageOf
      <3>3. n * a <= n * r.value /\ n * r.value <= n * b
        BY <2>1, <2>3, <3>1, <3>2, Scale
      <3>4. \E q \in ToSet(s) : n * q <= n * r.value
        BY <3>3
      <3>5. \E q \in ToSet(s) : n * r.value <= n * q
        BY <3>3
      <3>6. QED
        BY <2>1, <2>2, <2>4, <2>6, <3>4, <3>5 DEF k, n
    <2>7. QED
      BY <2>5, <2>6
  <1>2. Inv => OutputIsMeasured
    BY <1>1 DEF OutputIsMeasured, Outputs
  <1>3. QED
    BY <1>2, Invariance, PTL

\* The outputs of a device are a period of that device apart, for any periods.
THEOREM Paced == Spec => []OutputPaced
  <1>1. Inv => OutputPaced
    BY DEF Inv, ReportsGood, GoodReport, OutputPaced, Outputs
  <1>2. QED
    BY <1>1, Invariance, PTL

=============================================================================
