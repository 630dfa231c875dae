--------------------------- MODULE MCMeasurement ---------------------------
(***************************************************************************)
(* Two sensors of different period.  258 has both bytes and they differ.   *)
(* The average of 7, 7 and 4 is one that the doubles round below 6.        *)
(***************************************************************************)
EXTENDS Measurement

MCQuantities ==
    [c \in Characteristics |-> IF c = "VOC" THEN {1, 258}
                               ELSE IF c = "HUMIDITY" THEN {4, 7}
                               ELSE {3}]

MCRoundsLow == {<<7, 4, 3>>}

MCPeriodOf == [d \in Devices |-> d]

=============================================================================
