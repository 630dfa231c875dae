--------------------------- MODULE MeasurementLog ---------------------------
(***************************************************************************)
(* What the outputs promise a device that has its output type to itself:   *)
(* once its output was started, every measurement made of it is recorded,  *)
(* in the order the measurements are made and for good.  A file takes all  *)
(* of them; a database refuses one only if it has recorded another of the  *)
(* same kind at the same instant already, and never one of VOC.  A device  *)
(* whose output was not started has nothing recorded.  Nothing is said of  *)
(* devices that share a shared object: they have no store of their own.    *)
(***************************************************************************)
EXTENDS Naturals, Sequences

CONSTANTS Kinds, Times

VARIABLES
    phase,  \* "setup", "measuring", "ended"
    store,  \* device -> its own store: "none" (yet), "file" or "table"
    made,   \* the measurements in the order they were made
    log     \* the numbers of those recorded in the store of their device

vars == <<phase, store, made, log>>

Init ==
    /\ phase = "setup"
    /\ store = <<>>
    /\ made = <<>>
    /\ log = {}

Configure ==
    /\ phase = "setup"
    /\ store = <<>>
    /\ \A d \in DOMAIN store' : store'[d] = "none"
    /\ UNCHANGED <<phase, made, log>>

\* The set-up of a device; measurements begin with the set-up of the last one.
Attach(d, s) ==
    /\ phase = "setup"
    /\ store' = [store EXCEPT ![d] = s]
    /\ phase' \in {"setup", "measuring"}
    /\ UNCHANGED <<made, log>>

\* The table holds one humidity, or one temperature, at a time.
Refused(m) ==
    /\ m.kind # "voc"
    /\ \E n \in log : made[n] = m

Recorded(m) ==
    \/ store[m.device] = "file"
    \/ store[m.device] = "table" /\ ~Refused(m)

Record(m) ==
    /\ phase = "measuring"
    /\ made' = Append(made, m)
    /\ log' = IF Recorded(m) THEN log \cup {Len(made) + 1} ELSE log
    /\ UNCHANGED <<phase, store>>

End ==
    /\ phase' = "ended"
    /\ store' = <<>>
    /\ UNCHANGED <<made, log>>

Next ==
    \/ Configure
    \/ \E d \in DOMAIN store, s \in {"none", "file", "table"} : Attach(d, s)
    \/ \E d \in DOMAIN store, k \in Kinds, ts \in Times :
          Record([device |-> d, kind |-> k, ts |-> ts])
    \/ End

Spec == Init /\ [][Next]_vars

=============================================================================
