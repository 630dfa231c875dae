---------------------------- MODULE DeviceSession ----------------------------
(***************************************************************************)
(* What the reader does with its devices, seen from outside: every device  *)
(* has at most one session.  It is linked, then streams, then is closed    *)
(* for good, and its measurements reach its output only while it streams.  *)
(* No device streams before every device that is wanted is linked; then    *)
(* they are started one by one, and the first streams while the others are *)
(* only linked; when all have been started or closed none is any more.     *)
(***************************************************************************)
CONSTANT Devices

VARIABLES phase, session, delivered

vars == <<phase, session, delivered>>

Init ==
    /\ phase = "linking"
    /\ session = [d \in Devices |-> "idle"]
    /\ delivered = {}

\* The devices outside D are not wanted.
Choose(D) ==
    /\ phase = "linking"
    /\ \A d \in Devices : session[d] = "idle"
    /\ session' = [d \in Devices |-> IF d \in D THEN "idle" ELSE "closed"]
    /\ UNCHANGED <<phase, delivered>>

Link(d) ==
    /\ phase = "linking"
    /\ session[d] = "idle"
    /\ session' = [session EXCEPT ![d] = "linked"]
    /\ UNCHANGED <<phase, delivered>>

\* Every device that is wanted is linked.
Begin ==
    /\ phase = "linking"
    /\ \A d \in Devices : session[d] # "idle"
    /\ phase' = "starting"
    /\ UNCHANGED <<session, delivered>>

Stream(d) ==
    /\ phase = "starting"
    /\ session[d] = "linked"
    /\ session' = [session EXCEPT ![d] = "streaming"]
    /\ UNCHANGED <<phase, delivered>>

\* While they are started only a device that did stream is closed.
Close(d) ==
    /\ session[d] = "streaming" \/ (session[d] = "linked" /\ phase = "over")
    /\ session' = [session EXCEPT ![d] = "closed"]
    /\ UNCHANGED <<phase, delivered>>

\* No device is left to be started.
Started ==
    /\ phase = "starting"
    /\ \A d \in Devices : session[d] \in {"streaming", "closed"}
    /\ phase' = "over"
    /\ UNCHANGED <<session, delivered>>

\* Linking is given up; the devices that are linked are still to be closed.
GiveUp ==
    /\ phase = "linking"
    /\ phase' = "over"
    /\ session' = [d \in Devices |-> IF session[d] = "idle" THEN "closed"
                                                            ELSE session[d]]
    /\ UNCHANGED delivered

Deliver(d) ==
    /\ session[d] = "streaming"
    /\ delivered' = delivered \cup {d}
    /\ UNCHANGED <<phase, session>>

Next ==
    \/ \E D \in SUBSET Devices : Choose(D)
    \/ \E d \in Devices : Link(d) \/ Stream(d) \/ Close(d) \/ Deliver(d)
    \/ Begin \/ Started \/ GiveUp

Spec == Init /\ [][Next]_vars

=============================================================================
