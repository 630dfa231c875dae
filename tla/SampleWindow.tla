---------------------------- MODULE SampleWindow ----------------------------
(***************************************************************************)
(* What the interval list promises its user, for one interval per key: a   *)
(* window that is open collects samples; the first sample at or after      *)
(* `opened + period` closes it, is its last one, yields one delivery if    *)
(* somebody subscribed, and opens the next window.  How the average is     *)
(* computed is left open: the delivered value is any value between the     *)
(* least and the greatest sample of the window (scaled by their number,    *)
(* so that averages of reals need no fractions).                           *)
(*                                                                         *)
(* A window that is shut keeps what it has collected for the next Open.    *)
(***************************************************************************)
EXTENDS Integers

CONSTANTS Keys, Periods, Samples

VARIABLES window, clock, delivered

vars == <<window, clock, delivered>>

Absent == [present |-> FALSE]

Fresh == [present |-> TRUE, open |-> FALSE, opened |-> 0, period |-> 0,
          subscribed |-> FALSE, n |-> 0, lo |-> 0, hi |-> 0]

Expired(w) == clock >= w.opened + w.period

Collected(w, x) ==
    [w EXCEPT !.n = @ + 1,
              !.lo = IF w.n = 0 \/ x < @ THEN x ELSE @,
              !.hi = IF w.n = 0 \/ x > @ THEN x ELSE @]

Init ==
    /\ window = [k \in Keys |-> Absent]
    /\ clock \in Nat
    /\ delivered = {}

\* The owner of the windows changes one of them; nothing is delivered.
Set(k, w) ==
    /\ window[k].present
    /\ window' = [window EXCEPT ![k] = w]
    /\ delivered' = {}
    /\ UNCHANGED clock

Appear(k) ==
    /\ ~window[k].present
    /\ window' = [window EXCEPT ![k] = Fresh]
    /\ delivered' = {}
    /\ UNCHANGED clock

Forget(k) == Set(k, Absent)

Subscribe(k, b) == Set(k, [window[k] EXCEPT !.subscribed = b])

Open(k, p) ==
    Set(k, [window[k] EXCEPT !.open = TRUE, !.opened = clock, !.period = p])

Shut(k) ==
    Set(k, [window[k] EXCEPT !.open = FALSE, !.opened = 0, !.period = 0])

\* A sample inside the window.
Collect(k, x) ==
    /\ window[k].present
    /\ window[k].open
    /\ ~Expired(window[k])
    /\ Set(k, Collected(window[k], x))

\* The sample that closes the window.
Deliver(k, x) ==
    /\ window[k].present
    /\ window[k].open
    /\ Expired(window[k])
    /\ LET w == Collected(window[k], x) IN
          /\ window' = [window EXCEPT
                           ![k] = [w EXCEPT !.opened = clock, !.n = 0,
                                            !.lo = 0, !.hi = 0]]
          /\ IF w.subscribed
             THEN \E total \in w.n * w.lo .. w.n * w.hi :
                     delivered' = {[key |-> k, at |-> clock, total |-> total]}
             ELSE delivered' = {}
    /\ UNCHANGED clock

\* The clock moves, in either direction, or a sample meets no open window.
Idle ==
    /\ clock' \in Nat
    /\ delivered' = {}
    /\ UNCHANGED window

Next ==
    \/ \E k \in Keys :
          \/ Appear(k)
          \/ Forget(k)
          \/ \E b \in BOOLEAN : Subscribe(k, b)
          \/ \E p \in Periods : Open(k, p)
          \/ Shut(k)
          \/ \E x \in Samples : Collect(k, x) \/ Deliver(k, x)
    \/ Idle

Spec == Init /\ [][Next]_vars

=============================================================================
