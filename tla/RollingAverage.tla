--------------------------- MODULE RollingAverage ---------------------------
(***************************************************************************)
(* The arithmetic of one averaging window (atmotube-interval.c).           *)
(*                                                                         *)
(* An unsigned long interval keeps an integer `current`.  Each sample      *)
(* replaces it by appr_rolling_average(current, sample, times), computed   *)
(* in double and truncated back to unsigned long.  In exact arithmetic the *)
(* result would be ((times - 1) * current + sample) \div times.  The two   *)
(* divisions of the C expression round, and when the exact result is an    *)
(* integer the sum can land just below it, so that truncation gives one    *)
(* less.  RoundsLow is the set of triples for which the build does that:   *)
(* a parameter, because the set is a fact of IEEE arithmetic, with the     *)
(* assumption that states all that is used of it.                          *)
(***************************************************************************)
EXTENDS Integers

CONSTANT RoundsLow  \* triples <<avg, new_sample, N>> rounded below an integer

\* Rounding shows only where the exact result is an integer, only for three
\* samples or more (halving is exact), and never when the sample repeats the
\* average (avg - avg/N + avg/N gives avg back).
ASSUME RoundsLowAssumption ==
    /\ RoundsLow \subseteq Nat \X Nat \X Nat
    /\ \A r \in RoundsLow :
          /\ r[3] > 2
          /\ r[1] # r[2]
          /\ ((r[3] - 1) * r[1] + r[2]) % r[3] = 0

ExactAverage(avg, new_sample, N) == ((N - 1) * avg + new_sample) \div N

RoundingError(avg, new_sample, N) ==
    IF <<avg, new_sample, N>> \in RoundsLow THEN 1 ELSE 0

\* What (unsigned long) appr_rolling_average (avg, new_sample, N) yields.
appr_rolling_average(avg, new_sample, N) ==
    ExactAverage(avg, new_sample, N) - RoundingError(avg, new_sample, N)

=============================================================================
