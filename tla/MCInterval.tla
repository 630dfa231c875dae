----------------------------- MODULE MCInterval -----------------------------
(***************************************************************************)
(* Instances of Interval for TLC.                                          *)
(***************************************************************************)
EXTENDS Interval

\* The triples below 9 for which the double arithmetic of the build rounds
\* below an exact integer (all avg, new_sample < 9 and N < 6 were tried).
MCRoundsLow == {<<5, 2, 3>>, <<7, 1, 3>>, <<7, 4, 3>>}

=============================================================================
