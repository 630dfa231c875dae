--------------------------- MODULE AverageProofs ---------------------------
(***************************************************************************)
(* What the proofs about averages rest on: induction over finite sets, the *)
(* sum of a sequence that grows by one sample, and the arithmetic of one   *)
(* step of the rolling average.                                            *)
(*                                                                         *)
(* The induction theorems of the library have an operator as a parameter,  *)
(* which no prover here can instantiate.  Those about well-founded         *)
(* relations speak of sets alone, and give induction over sets instead: a  *)
(* set P has a member if it has every one whose predecessors it has.       *)
(***************************************************************************)
EXTENDS RollingAverage, SequenceTheorems, FiniteSetTheorems, TLAPS

(* Induction.                                                              *)

\* P has every subset of a finite set S if it has each one all of whose proper
\* subsets it has.
LEMMA SubsetInduction ==
    ASSUME NEW S, IsFiniteSet(S), NEW P,
           \A T \in SUBSET S : (\A U \in SUBSET T : U # T => U \in P) => T \in P
    PROVE  SUBSET S \subseteq P
  <1> DEFINE B == {T \in SUBSET S : T \notin P}
  <1> SUFFICES ASSUME B # {} PROVE FALSE
    OBVIOUS
  <1>1. B \subseteq FiniteSubsetsOf(S)
    BY FS_FiniteSubsetsOfFinite
  <1>2. PICK T \in B : \A U \in B : <<U, T>> \notin StrictSubsetOrdering(S)
    <2> HIDE DEF B
    <2> QED BY <1>1, FS_StrictSubsetOrderingWellFounded, WFMin
  <1>3. \A U \in SUBSET T : U # T => U \in P
    BY <1>2 DEF StrictSubsetOrdering
  <1>4. QED
    BY <1>2, <1>3

-----------------------------------------------------------------------------

(* The sum of a function, and of a sequence.                               *)

Pick(T) == CHOOSE x \in T : TRUE

LEMMA PickIn == ASSUME NEW T, T # {} PROVE Pick(T) \in T
  BY DEF Pick

\* The function that SumFunction chooses: it[T] is the sum of f over T.
Adds(f, S, it) ==
    it = [T \in SUBSET S |-> IF T = {} THEN 0 ELSE f[Pick(T)] + it[T \ {Pick(T)}]]

LEMMA SumIs ==
    ASSUME NEW s
    PROVE  SumFunction(s) = (CHOOSE it : Adds(s, DOMAIN s, it))[DOMAIN s]
  BY DEF SumFunction, SumFunctionOnSet, Adds, Pick, FoldFunctionOnSet, MapThenFoldSet

LEMMA AddsIn ==
    ASSUME NEW S, NEW f, NEW it, Adds(f, S, it), NEW T \in SUBSET S
    PROVE  /\ T = {} => it[T] = 0
           /\ T # {} => it[T] = f[Pick(T)] + it[T \ {Pick(T)}]
  BY DEF Adds

\* Two such functions agree where they are both defined.
LEMMA AddsAgree ==
    ASSUME NEW R, NEW S, NEW T, IsFiniteSet(T), T \subseteq R, T \subseteq S, NEW f, NEW g,
           \A x \in T : f[x] = g[x],
           NEW it, NEW jt, Adds(f, R, it), Adds(g, S, jt)
    PROVE  it[T] = jt[T]
  <1> DEFINE P == {U \in SUBSET T : it[U] = jt[U]}
  <1>1. ASSUME NEW U \in SUBSET T, \A V \in SUBSET U : V # U => V \in P
        PROVE  U \in P
    <2>1. U \in SUBSET R /\ U \in SUBSET S
      OBVIOUS
    <2>2. /\ U = {} => it[U] = 0
          /\ U # {} => it[U] = f[Pick(U)] + it[U \ {Pick(U)}]
      <3> HIDE DEF P
      <3> QED BY <2>1, AddsIn
    <2>3. /\ U = {} => jt[U] = 0
          /\ U # {} => jt[U] = g[Pick(U)] + jt[U \ {Pick(U)}]
      <3> HIDE DEF P
      <3> QED BY <2>1, AddsIn
    <2>4. CASE U = {}
      BY <2>4, <2>2, <2>3
    <2>5. CASE U # {}
      <3>1. Pick(U) \in U
        BY <2>5, PickIn
      <3>2. it[U \ {Pick(U)}] = jt[U \ {Pick(U)}]
        BY <1>1, <3>1
      <3>3. f[Pick(U)] = g[Pick(U)]
        BY <3>1
      <3>4. it[U] = f[Pick(U)] + it[U \ {Pick(U)}] /\ jt[U] = g[Pick(U)] + jt[U \ {Pick(U)}]
        BY <2>5, <2>2, <2>3
      <3>5. QED
        BY <3>2, <3>3, <3>4
    <2>6. QED
      BY <2>4, <2>5
  <1>2. SUBSET T \subseteq P
    <2> HIDE DEF P
    <2> QED BY <1>1, SubsetInduction
  <1>3. QED
    BY <1>2

\* By induction there is one.
LEMMA AddsExists ==
    ASSUME NEW S, IsFiniteSet(S), NEW f
    PROVE  \E it : Adds(f, S, it)
  <1> DEFINE P == {T \in SUBSET S : \E it : Adds(f, T, it)}
             It(T) == CHOOSE it : Adds(f, T, it)
  <1>1. ASSUME NEW T \in SUBSET S, \A U \in SUBSET T : U # T => U \in P
        PROVE  T \in P
    <2> DEFINE Below(U) == IF U = {} THEN 0 ELSE f[Pick(U)] + It(U \ {Pick(U)})[U \ {Pick(U)}]
               it == [U \in SUBSET T |-> Below(U)]
    <2>1. ASSUME NEW U \in SUBSET T, U # T PROVE Adds(f, U, It(U))
      BY <1>1, <2>1
    <2>2. ASSUME NEW U \in SUBSET T, U # T PROVE it[U] = It(U)[U]
      <3>1. CASE U = {}
        <4>1. Adds(f, U, It(U)) /\ U \in SUBSET U
          BY <2>1, <2>2
        <4> DEFINE jt == It(U)
        <4>2. jt[U] = 0
          <5>1. Adds(f, U, jt) /\ U \in SUBSET U
            BY <4>1
          <5> HIDE DEF P, It, Below, it, jt
          <5>2. U = {} => jt[U] = 0
            BY <5>1, AddsIn
          <5>3. QED
            BY <3>1, <5>2
        <4>3. QED
          BY <3>1, <4>2
      <3>2. CASE U # {}
        <4> DEFINE V == U \ {Pick(U)}
        <4>1. Pick(U) \in U /\ V \in SUBSET T /\ V # T /\ V \subseteq U
          BY <2>2, <3>2, PickIn
        <4>2. IsFiniteSet(V)
          BY <4>1, FS_Subset
        <4>3. It(U)[V] = It(V)[V]
          <5>1. Adds(f, U, It(U)) /\ Adds(f, V, It(V))
            BY <2>1, <2>2, <4>1
          <5> HIDE DEF V, It
          <5>2. QED
            BY <4>1, <4>2, <5>1, AddsAgree
        <4>4. It(U)[U] = f[Pick(U)] + It(U)[V]
          <5>1. Adds(f, U, It(U))
            BY <2>1, <2>2
          <5> HIDE DEF It
          <5>2. QED
            BY <3>2, <5>1, AddsIn
        <4>5. it[U] = f[Pick(U)] + It(V)[V]
          BY <3>2
        <4>6. QED
          BY <4>3, <4>4, <4>5
      <3>3. QED
        BY <3>1, <3>2
    <2>3. ASSUME NEW U \in SUBSET T
          PROVE  it[U] = IF U = {} THEN 0 ELSE f[Pick(U)] + it[U \ {Pick(U)}]
      <3>1. CASE U = {}
        BY <3>1
      <3>2. CASE U # {}
        <4> DEFINE V == U \ {Pick(U)}
        <4>1. V \in SUBSET T /\ V # T
          BY <3>2, PickIn
        <4>2. it[V] = It(V)[V]
          BY <2>2, <4>1
        <4>3. it[U] = f[Pick(U)] + It(V)[V]
          BY <3>2
        <4>4. QED
          BY <3>2, <4>2, <4>3
      <3>3. QED
        BY <3>1, <3>2
    <2>4. Adds(f, T, it)
      <3>1. it = [U \in SUBSET T |-> it[U]]
        OBVIOUS
      <3> HIDE DEF it
      <3>2. QED
        BY <2>3, <3>1 DEF Adds
    <2>5. QED
      BY <2>4
  <1>2. SUBSET S \subseteq P
    <2> HIDE DEF P
    <2> QED BY <1>1, SubsetInduction
  <1>3. QED
    BY <1>2

LEMMA AddsTyped ==
    ASSUME NEW S, IsFiniteSet(S), NEW f, \A x \in S : f[x] \in Nat,
           NEW it, Adds(f, S, it)
    PROVE  \A T \in SUBSET S : it[T] \in Nat
  <1> DEFINE P == {T \in SUBSET S : it[T] \in Nat}
  <1>1. ASSUME NEW T \in SUBSET S, \A U \in SUBSET T : U # T => U \in P
        PROVE  T \in P
    <2>1. CASE T = {}
      BY <2>1, AddsIn
    <2>2. CASE T # {}
      <3>1. Pick(T) \in T
        BY <2>2, PickIn
      <3>2. it[T \ {Pick(T)}] \in Nat /\ f[Pick(T)] \in Nat
        BY <1>1, <3>1
      <3>3. it[T] = f[Pick(T)] + it[T \ {Pick(T)}]
        <4> HIDE DEF P
        <4> QED BY <2>2, AddsIn
      <3>4. QED
        BY <3>2, <3>3
    <2>3. QED
      BY <2>1, <2>2
  <1>2. SUBSET S \subseteq P
    <2> HIDE DEF P
    <2> QED BY <1>1, SubsetInduction
  <1>3. QED
    BY <1>2

\* Which element is taken first does not matter.
LEMMA AddsAny ==
    ASSUME NEW S, IsFiniteSet(S), NEW f, \A x \in S : f[x] \in Nat,
           NEW it, Adds(f, S, it), NEW x \in S
    PROVE  it[S] = f[x] + it[S \ {x}]
  <1> DEFINE P == {T \in SUBSET S : \A y \in T : it[T] = f[y] + it[T \ {y}]}
  <1>1. ASSUME NEW T \in SUBSET S, \A U \in SUBSET T : U # T => U \in P
        PROVE  T \in P
    <2> SUFFICES ASSUME NEW y \in T PROVE it[T] = f[y] + it[T \ {y}]
      OBVIOUS
    <2> DEFINE p == Pick(T)
    <2>1. p \in T
      BY PickIn
    <2>2. it[T] = f[p] + it[T \ {p}]
      BY AddsIn
    <2>3. CASE y = p
      BY <2>2, <2>3
    <2>4. CASE y # p
      <3>1. it[T \ {p}] = f[y] + it[(T \ {p}) \ {y}]
        <4>1. T \ {p} \in P
          BY <1>1, <2>1
        <4>2. QED
          BY <2>4, <4>1
      <3>2. it[T \ {y}] = f[p] + it[(T \ {y}) \ {p}]
        <4>1. T \ {y} \in P
          BY <1>1
        <4>2. QED
          BY <2>1, <2>4, <4>1
      <3>3. (T \ {p}) \ {y} = (T \ {y}) \ {p}
        OBVIOUS
      <3>4. f[p] \in Nat /\ f[y] \in Nat /\ it[(T \ {p}) \ {y}] \in Nat
        BY <2>1, AddsTyped
      <3> DEFINE rest == it[(T \ {p}) \ {y}]
      <3>5. /\ it[T] = f[p] + (f[y] + rest)
            /\ it[T \ {y}] = f[p] + rest
        BY <2>2, <3>1, <3>2, <3>3
      <3>6. f[p] + (f[y] + rest) = f[y] + (f[p] + rest)
        <4> HIDE DEF p, rest
        <4> SUFFICES ASSUME NEW a \in Nat, NEW b \in Nat, NEW c \in Nat
                     PROVE  a + (b + c) = b + (a + c)
          BY <3>4 DEF rest
        <4> QED OBVIOUS
      <3>7. QED
        BY <3>5, <3>6
    <2>5. QED
      BY <2>3, <2>4
  <1>2. SUBSET S \subseteq P
    <2> HIDE DEF P
    <2> QED BY <1>1, SubsetInduction
  <1>3. QED
    BY <1>2

\* A sample more.
LEMMA SumAppend ==
    ASSUME NEW s \in Seq(Nat), NEW q \in Nat
    PROVE  /\ SumFunction(<<>>) = 0
           /\ SumFunction(s) \in Nat
           /\ SumFunction(Append(s, q)) = SumFunction(s) + q
  <1> DEFINE t == Append(s, q)
             it(u) == CHOOSE i : Adds(u, DOMAIN u, i)
  <1>1. ASSUME NEW u \in Seq(Nat)
        PROVE  /\ IsFiniteSet(DOMAIN u)
               /\ Adds(u, DOMAIN u, it(u))
               /\ SumFunction(u) = it(u)[DOMAIN u]
               /\ \A x \in DOMAIN u : u[x] \in Nat
               /\ SumFunction(u) \in Nat
    <2>1. IsFiniteSet(DOMAIN u)
      BY LenProperties, FS_Interval
    <2>2. Adds(u, DOMAIN u, it(u))
      BY <2>1, AddsExists
    <2>3. SumFunction(u) = it(u)[DOMAIN u]
      BY SumIs
    <2>4. \A x \in DOMAIN u : u[x] \in Nat
      BY ElementOfSeq, LenProperties
    <2> HIDE DEF it
    <2>5. SumFunction(u) \in Nat
      BY <2>1, <2>2, <2>3, <2>4, AddsTyped
    <2>6. QED
      BY <2>1, <2>2, <2>3, <2>4, <2>5
  <1>2. t \in Seq(Nat) /\ Len(t) = Len(s) + 1 /\ t[Len(s) + 1] = q
        /\ \A j \in 1 .. Len(s) : t[j] = s[j]
    BY AppendProperties
  <1>3. Len(s) \in Nat /\ DOMAIN s = 1 .. Len(s) /\ DOMAIN t = 1 .. Len(s) + 1
    BY <1>2, LenProperties
  <1>4. <<>> \in Seq(Nat) /\ DOMAIN <<>> = {}
    BY EmptySeq
  <1>5. SumFunction(<<>>) = 0
    <2>1. Adds(<<>>, {}, it(<<>>)) /\ SumFunction(<<>>) = it(<<>>)[{}]
      BY <1>1, <1>4
    <2> HIDE DEF it
    <2>2. QED
      BY <2>1, AddsIn
  <1>6. SumFunction(t) = t[Len(s) + 1] + it(t)[DOMAIN t \ {Len(s) + 1}]
    <2>1. Len(s) + 1 \in DOMAIN t
      BY <1>3
    <2>2. /\ IsFiniteSet(DOMAIN t) /\ Adds(t, DOMAIN t, it(t))
          /\ SumFunction(t) = it(t)[DOMAIN t] /\ \A x \in DOMAIN t : t[x] \in Nat
      BY <1>1, <1>2
    <2> DEFINE D == DOMAIN t
               jt == it(t)
    <2>3. jt[D] = t[Len(s) + 1] + jt[D \ {Len(s) + 1}]
      <3> HIDE DEF it, t, D, jt
      <3>1. /\ IsFiniteSet(D) /\ Adds(t, D, jt) /\ Len(s) + 1 \in D
            /\ \A x \in D : t[x] \in Nat
        BY <2>1, <2>2 DEF D, jt
      <3>2. QED
        BY <3>1, AddsAny
    <2>4. QED
      BY <2>2, <2>3
  <1>7. DOMAIN t \ {Len(s) + 1} = DOMAIN s
    BY <1>3
  <1>8. it(t)[DOMAIN s] = it(s)[DOMAIN s]
    <2>1. Adds(t, DOMAIN t, it(t)) /\ Adds(s, DOMAIN s, it(s)) /\ IsFiniteSet(DOMAIN s)
      BY <1>1, <1>2
    <2>2. \A x \in DOMAIN s : t[x] = s[x]
      BY <1>2, <1>3
    <2>3. DOMAIN s \subseteq DOMAIN t
      BY <1>3
    <2> DEFINE R == DOMAIN t
               D == DOMAIN s
               jt == it(t)
               kt == it(s)
    <2>4. /\ Adds(t, R, jt) /\ Adds(s, D, kt) /\ IsFiniteSet(D)
          /\ D \subseteq R /\ D \subseteq D /\ \A x \in D : t[x] = s[x]
      BY <2>1, <2>2, <2>3
    <2>5. jt[D] = kt[D]
      <3> HIDE DEF it, t, R, D, jt, kt
      <3> QED BY <2>4, AddsAgree
    <2>6. QED
      BY <2>5
  <1>9. SumFunction(s) \in Nat /\ SumFunction(s) = it(s)[DOMAIN s]
    BY <1>1
  <1> HIDE DEF it, t
  <1>10. SumFunction(t) = SumFunction(s) + q
    BY <1>2, <1>6, <1>7, <1>8, <1>9
  <1>11. QED
    BY <1>5, <1>9, <1>10 DEF t

-----------------------------------------------------------------------------
(* One step of the rolling average.                                        *)

LEMMA Division ==
    ASSUME NEW m \in Nat, NEW n \in Nat \ {0}
    PROVE  /\ m \div n \in Nat
           /\ n * (m \div n) <= m
           /\ m < n * (m \div n) + n
  BY Z3

LEMMA Divisible ==
    ASSUME NEW m \in Nat, NEW n \in Nat \ {0}, m % n = 0
    PROVE  n * (m \div n) = m
  BY Z3

LEMMA Cancel ==
    ASSUME NEW n \in Nat \ {0}, NEW a \in Int, NEW b \in Int, n * a < n * b
    PROVE  a < b
  BY Z3

LEMMA Scale ==
    ASSUME NEW n \in Nat, NEW a \in Int, NEW b \in Int, a <= b
    PROVE  n * a <= n * b
  BY Z3

LEMMA Distribute ==
    ASSUME NEW n \in Nat, NEW a \in Nat
    PROVE  /\ n * a \in Nat
           /\ (n - 1) * a = n * a - a
           /\ n * (a + 1) = n * a + n
           /\ n * (a - 1) = n * a - n
  BY Z3

LEMMA DistributeLeft ==
    ASSUME NEW n \in Nat, NEW a \in Nat
    PROVE  (n + 1) * a = n * a + a
  BY Z3

\* One step of appr_rolling_average loses less than one unit of the sum, or
\* exactly n of them where the doubles round below an integer.
LEMMA AverageLoss ==
    ASSUME NEW avg \in Nat, NEW x \in Nat, NEW n \in Nat, n >= 2,
           ExactAverage(avg, x, n) >= RoundingError(avg, x, n)
    PROVE  /\ appr_rolling_average(avg, x, n) \in Nat
           /\ n * appr_rolling_average(avg, x, n) <= (n - 1) * avg + x
           /\ (n - 1) * avg + x <= n * appr_rolling_average(avg, x, n) + n
  <1> DEFINE m == (n - 1) * avg + x
             q == m \div n
  <1>1. m \in Nat
    BY Distribute, Z3
  <1>2. q \in Nat /\ n * q <= m /\ m < n * q + n
    BY <1>1, Division
  <1>3. CASE <<avg, x, n>> \in RoundsLow
    <2>1. n * q = m
      BY <1>1, <1>3, RoundsLowAssumption, Divisible
    <2>2. appr_rolling_average(avg, x, n) = q - 1 /\ q >= 1
      BY <1>2, <1>3 DEF appr_rolling_average, ExactAverage, RoundingError
    <2>3. n * (q - 1) = n * q - n
      BY <1>2, Distribute
    <2> HIDE DEF m, q
    <2>4. q - 1 \in Nat /\ n * (q - 1) <= m /\ m <= n * (q - 1) + n
      BY <1>1, <1>2, <2>1, <2>2, <2>3
    <2>5. QED
      BY <2>2, <2>4 DEF m
  <1>4. CASE <<avg, x, n>> \notin RoundsLow
    <2>1. appr_rolling_average(avg, x, n) = q
      BY <1>2, <1>4 DEF appr_rolling_average, ExactAverage, RoundingError
    <2> HIDE DEF m, q
    <2>2. q \in Nat /\ n * q <= m /\ m <= n * q + n
      BY <1>1, <1>2, Distribute
    <2>3. QED
      BY <2>1, <2>2 DEF m
  <1>5. QED
    BY <1>3, <1>4

\* The average of an average and a sample stays between bounds of the two, also
\* when the doubles round low.
LEMMA AverageWithin ==
    ASSUME NEW avg \in Nat, NEW x \in Nat, NEW n \in Nat, n >= 2,
           NEW lo \in Nat, NEW hi \in Nat,
           lo <= avg, avg <= hi, lo <= x, x <= hi
    PROVE  /\ ExactAverage(avg, x, n) >= RoundingError(avg, x, n)
           /\ lo <= appr_rolling_average(avg, x, n)
           /\ appr_rolling_average(avg, x, n) <= hi
  <1> DEFINE m == (n - 1) * avg + x
             q == m \div n
  <1>1. m \in Nat /\ m = n * avg - avg + x /\ n * avg \in Nat
    BY Distribute, Z3
  <1>2. q \in Nat /\ n * q <= m /\ m < n * q + n
    BY <1>1, Division
  <1>3. /\ (n - 1) * lo <= (n - 1) * avg
        /\ (n - 1) * avg <= (n - 1) * hi
    BY Scale
  <1>4. /\ (n - 1) * lo = n * lo - lo
        /\ (n - 1) * hi = n * hi - hi
        /\ n * lo \in Nat /\ n * hi \in Nat
        /\ n * (hi + 1) = n * hi + n /\ n * (q + 1) = n * q + n
        /\ n * q \in Nat
    BY <1>2, Distribute
  <1>5. n * lo <= m /\ m <= n * hi
    BY <1>1, <1>3, <1>4
  <1>6. n * lo < n * (q + 1) /\ n * q < n * (hi + 1)
    <2> HIDE DEF m, q
    <2> QED BY <1>1, <1>2, <1>4, <1>5
  <1>7. lo <= q /\ q <= hi
    <2>1. lo < q + 1
      BY <1>2, <1>6, Cancel
    <2>2. q < hi + 1
      BY <1>2, <1>6, Cancel
    <2> HIDE DEF m, q
    <2> QED BY <1>2, <2>1, <2>2
  <1>8. CASE <<avg, x, n>> \in RoundsLow
    <2>1. avg # x /\ n * q = m
      BY <1>1, <1>8, RoundsLowAssumption, Divisible
    <2>2. n * lo < m
      <3>1. CASE x > lo
        BY <1>1, <1>3, <1>4, <3>1
      <3>2. CASE avg > lo
        <4>1. (n - 1) * (lo + 1) <= (n - 1) * avg
          BY <3>2, Scale
        <4>2. (n - 1) * (lo + 1) = (n - 1) * lo + (n - 1)
          BY Distribute
        <4>3. QED
          BY <1>1, <1>4, <4>1, <4>2
      <3>3. QED
        BY <2>1, <3>1, <3>2
    <2>3. lo < q
      BY <1>2, <2>1, <2>2, Cancel
    <2>4. appr_rolling_average(avg, x, n) = q - 1
      BY <1>8 DEF appr_rolling_average, ExactAverage, RoundingError
    <2>5. ExactAverage(avg, x, n) = q /\ RoundingError(avg, x, n) = 1
      BY <1>8 DEF ExactAverage, RoundingError
    <2> HIDE DEF m, q
    <2>6. QED
      BY <1>2, <1>7, <2>3, <2>4, <2>5
  <1>9. CASE <<avg, x, n>> \notin RoundsLow
    <2>1. appr_rolling_average(avg, x, n) = q - 0
      BY <1>9 DEF appr_rolling_average, ExactAverage, RoundingError
    <2>2. ExactAverage(avg, x, n) = q /\ RoundingError(avg, x, n) = 0
      BY <1>9 DEF ExactAverage, RoundingError
    <2> HIDE DEF m, q
    <2>3. QED
      BY <1>2, <1>7, <2>1, <2>2
  <1>10. QED
    BY <1>8, <1>9

=============================================================================
