---------------------------- MODULE Measurement ----------------------------
(***************************************************************************)
(* From a notification to an output: atmotube-handler.c decodes the bytes  *)
(* a sensor sends, logs the quantity in the interval of that device and    *)
(* characteristic (module Interval), and the callback modify_intervals set *)
(* there hands the average to the output of the device.                    *)
(*                                                                         *)
(* A quantity of VOC is in hundredths, as on the air: the handler divides  *)
(* by 100.0, and nothing here depends on the unit.  device_id stands for   *)
(* the device: module Config has when the two are one to one.              *)
(***************************************************************************)
EXTENDS RollingAverage, SequencesExt

CONSTANTS
    Devices,
    Quantities,   \* characteristic -> the quantities its sensor may send
    PeriodOf,     \* device -> the period of its intervals
    MaxTimes,     \* bound: samples in an open window
    MaxReceived,  \* bound: samples in all
    MaxClock      \* bound: last instant of the run

\* The characteristics that have a format, and so an interval.
Measured == {"VOC", "HUMIDITY", "TEMPERATURE"}
Characteristics == Measured \cup {"STATUS", "OTHER"}

\* What a notification carries: two bytes for VOC, one for the others.
Word == 0 .. 2^16 - 1
Byte == 0 .. 2^8 - 1

ASSUME MeasurementAssumption ==
    /\ PeriodOf \in [Devices -> Nat]
    /\ {MaxTimes, MaxReceived, MaxClock} \subseteq Nat
    /\ Quantities \in [Characteristics -> SUBSET Word]
    /\ \A c \in Characteristics : c # "VOC" => Quantities[c] \subseteq Byte

Keys == Devices \X Measured

VARIABLES
    intervals, clock, slips, reports,   \* those of Interval
    heard,    \* history: key -> the quantities sent for its window
    complete, \* history: the keys whose last window is closed
    received  \* history: how many samples came

I == INSTANCE Interval WITH
        UlongKeys <- {k \in Keys : k[2] # "VOC"},
        Periods <- {PeriodOf[d] : d \in Devices},
        Samples <- Word,
        MaxCopies <- 1,
        MaxSlips <- 0

vars == <<intervals, clock, slips, reports, heard, complete, received>>

-----------------------------------------------------------------------------
(* The sensor's bytes, and the handler's reading of them.                  *)

\* What the sensor sends: VOC has two bytes, the high one first.
Encoded(c, q) == IF c = "VOC" THEN <<q \div 256, q % 256>> ELSE <<q>>

\* The notification may be short of a byte, or carry one more.
Payloads(c, q) ==
    {Encoded(c, q), Front(Encoded(c, q)), Append(Encoded(c, q), 255)}

LongEnough(c, data) ==
    /\ c \in Measured
    /\ Len(data) >= IF c = "VOC" THEN 2 ELSE 1

\* Bug: the bytes of VOC are taken low one first.
DecodedLowFirst(c, data) ==
    IF c = "VOC" THEN data[2] * 256 + data[1] ELSE data[1]

Decoded(c, data) ==
    IF c = "VOC" THEN data[1] * 256 + data[2] ELSE data[1]

\* Bug: the loop of modify_intervals ends one characteristic early.
KeysOfFirstTwo(d) == {k \in Keys : k[1] = d /\ k[2] # "TEMPERATURE"}

KeysOf(d) == {k \in Keys : k[1] = d}

Registered(d) == \A c \in Measured : I!Found(<<d, c>>)

\* Bug: all devices get the shortest period.
ArmedShortest(d) ==
    LET least == CHOOSE p \in Range(PeriodOf) :
                    \A other \in Range(PeriodOf) : p <= other IN
    [I!NewNode EXCEPT !.time_interval = least, !.max_ts = clock + least,
                      !.started = TRUE, !.since = clock, !.callback = TRUE]

\* interval_add, interval_start and the callback, for a key that had no node.
Armed(d) ==
    [I!NewNode EXCEPT !.time_interval = PeriodOf[d],
                      !.max_ts = clock + PeriodOf[d],
                      !.started = TRUE, !.since = clock, !.callback = TRUE]

-----------------------------------------------------------------------------

Init ==
    /\ I!Init
    /\ heard = [k \in Keys |-> <<>>]
    /\ complete = {}
    /\ received = 0

\* modify_intervals (d, true): atmotube_register does it once per device.
Register(d) ==
    /\ \A c \in Measured : ~I!Found(<<d, c>>)
    /\ intervals' = [k \in Keys |-> IF k \in KeysOf(d) THEN <<Armed(d)>>
                                                          ELSE intervals[k]]
    /\ reports' = {}
    /\ UNCHANGED <<clock, slips, heard, complete, received>>

\* modify_intervals (d, false).
Unregister(d) ==
    /\ Registered(d)
    /\ intervals' = [k \in Keys |-> IF k \in KeysOf(d) THEN Tail(intervals[k])
                                                          ELSE intervals[k]]
    /\ reports' = {}
    /\ heard' = [k \in Keys |-> IF k[1] = d THEN <<>> ELSE heard[k]]
    /\ complete' = {k \in complete : k[1] # d}
    /\ UNCHANGED <<clock, slips, received>>

\* atmotube_handle_notification.  A device without intervals may still be
\* notifying: what it sends is decoded and logged nowhere.
Notify(d, c, q, data) ==
    /\ IF LongEnough(c, data) THEN I!Log(<<d, c>>, Decoded(c, data))
       ELSE reports' = {} /\ UNCHANGED <<intervals, clock, slips>>
    /\ IF Registered(d) /\ c \in Measured /\ Len(data) >= Len(Encoded(c, q))
       THEN /\ received < MaxReceived
            /\ received' = received + 1
            /\ heard' = [heard EXCEPT ![<<d, c>>] =
                            IF <<d, c>> \in complete THEN <<q>> ELSE Append(@, q)]
            /\ complete' = IF reports' = {} THEN complete \ {<<d, c>>}
                                            ELSE complete \cup {<<d, c>>}
       ELSE UNCHANGED <<heard, complete, received>>

Tick == I!Tick /\ UNCHANGED <<heard, complete, received>>

Next ==
    \/ \E d \in Devices :
          \/ Register(d)
          \/ Unregister(d)
          \/ \E c \in Characteristics : \E q \in Quantities[c] :
                \E data \in Payloads(c, q) : Notify(d, c, q, data)
    \/ Tick

Spec == Init /\ [][Next]_vars

-----------------------------------------------------------------------------
(* What reaches the outputs.                                               *)

\* Bug: the callbacks of humidity and temperature are exchanged.
CallbackExchanged(c) ==
    CASE c = "HUMIDITY" -> "TEMPERATURE"
      [] c = "TEMPERATURE" -> "HUMIDITY"
      [] OTHER -> c

\* output_voc, output_humidity, output_temperature.
Callback(c) == c

\* The calls of plugin functions the last step made: for the user data of the
\* callback, that is the device, with an average of n samples.
Outputs ==
    {[device |-> r.key[1], kind |-> Callback(r.key[2]), n |-> r.n,
      total |-> IF r.key \in {k \in Keys : k[2] # "VOC"} THEN r.n * r.value
                                                         ELSE r.value,
      ts |-> r.ts, since |-> r.since] : r \in reports}

TypeOK ==
    /\ I!TypeOK
    /\ heard \in [Keys -> Seq(Word)]
    /\ complete \subseteq Keys
    /\ received \in 0 .. MaxReceived
    /\ \A d \in Devices : Registered(d) \/ \A c \in Measured : ~I!Found(<<d, c>>)

\* Every value given to an output is an average of quantities that sensor sent
\* for that characteristic, all those since the output before it and no others:
\* as many samples as whole notifications came, none between them from another
\* device, another characteristic or an earlier registration, and none misread.
OutputIsMeasured ==
    \A o \in Outputs :
        LET sent == heard[<<o.device, o.kind>>] IN
        /\ o.n = Len(sent)
        /\ \E q \in ToSet(sent) : o.n * q <= o.total
        /\ \E q \in ToSet(sent) : o.total <= o.n * q
        /\ o.kind = "VOC" => o.total = SumFunction(sent)

\* An output of a device comes no earlier than the period of that device after
\* the one before, or after its registration, while others have other periods.
OutputPaced ==
    \A o \in Outputs : o.ts - o.since >= PeriodOf[o.device]

=============================================================================
