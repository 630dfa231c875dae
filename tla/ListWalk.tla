------------------------------ MODULE ListWalk ------------------------------
(***************************************************************************)
(* The interval list under two threads.  Where gattlib dispatches from a   *)
(* thread of its own, interval_log walks intervalList (g_slist_foreach)    *)
(* while main adds nodes to it or removes them, and nothing locks it.      *)
(* Module Interval has each operation in one step; here they are taken     *)
(* apart into the reads and writes of shared memory, in the order of the   *)
(* source, and main does what register_impl, the main loop and             *)
(* atmotube_end do with the list.                                          *)
(*                                                                         *)
(* gattlib has one dispatching thread, so there is one walk at a time.     *)
(* A registered node is named by its key: main adds each key once.  A link *)
(* of the list lives as long as it is in the list.  The averages are left  *)
(* out (module Interval), and so are plugins and outputs (module Reader).  *)
(***************************************************************************)
EXTENDS Naturals, SequencesExt

CONSTANTS
    NumDevices,   \* connectableDevices, all of them connected
    NumMeasured,  \* the characteristics with a fmt; STATUS comes after them
    Null

Devices == 1 .. NumDevices
STATUS == NumMeasured + 1
Keys == Devices \X (1 .. NumMeasured)

ASSUME ListWalkAssumption ==
    /\ NumDevices \in Nat \ {0}
    /\ NumMeasured \in Nat \ {0}
    /\ Null \notin Keys

VARIABLES
    \* main
    pc,            \* what main does next
    device,        \* the device g_slist_foreach is at
    character_id,
    connected,     \* the devices whose `connected` is set
    looped,        \* main was in its loop
    \* the list
    intervalList,  \* the keys of the links, in order
    node,          \* key -> the Interval
    \* gattlib
    enabled,       \* the (device, characteristic) pairs that notify
    \* interval_log
    step,          \* what the walk does next, "idle" when there is none
    key,           \* the device and characteristic of the sample
    here, next,    \* the link the walk is at, and the one after it
    taken,         \* history: the sample was averaged
    \* history
    refused,       \* the devices one of whose notifications was not enabled
    abandoned,     \* those gattlib_disconnect failed for
    outlived,      \* those a walk of which was on when they were disconnected
    torndown,      \* atmotube_end has disconnected the devices
    fault          \* the first undefined behaviour

where == <<pc, device, character_id>>
list == <<intervalList, node>>
radio == <<connected, enabled, refused, abandoned, outlived>>
phase == <<looped, torndown>>
walk == <<step, key, here, next, taken, fault>>
vars == <<where, list, radio, phase, walk>>

Absent == [memory |-> "none", started |-> FALSE, callback_set |-> FALSE,
           cb |-> FALSE, data_ptr |-> FALSE]

Init ==
    /\ pc = "add" /\ device = 1 /\ character_id = 1
    /\ connected = Devices /\ looped = FALSE
    /\ intervalList = <<>> /\ node = [k \in Keys |-> Absent]
    /\ enabled = {}
    /\ step = "idle" /\ key = Null /\ here = Null /\ next = Null
    /\ taken = FALSE
    /\ refused = {} /\ abandoned = {} /\ outlived = {} /\ torndown = FALSE
    /\ fault = "none"

-----------------------------------------------------------------------------
(* main.                                                                   *)

this == <<device, character_id>>

\* Bug: `<=` in the loop over the characteristics.
OneCharacterMore(last, l, m) ==
    IF character_id <= last
    THEN pc' = l /\ character_id' = character_id + 1
    ELSE pc' = m /\ character_id' = 1

\* The loops over the characteristics and over the devices: on at l, or at m
\* when it was the last.
NextCharacter(last, l, m) ==
    IF character_id < last
    THEN pc' = l /\ character_id' = character_id + 1
    ELSE pc' = m /\ character_id' = 1

NextDevice(l, m) ==
    IF device < NumDevices
    THEN pc' = l /\ device' = device + 1
    ELSE pc' = m /\ device' = 1

Write(i) == node' = [node EXCEPT ![this] = i]

\* One store of main to the node it works on.
Store(from, to, i) ==
    /\ pc = from /\ pc' = to
    /\ Write(i)
    /\ UNCHANGED <<device, character_id, intervalList, radio, phase, walk>>

\* interval_add.  The node is complete before it is appended.
Add ==
    /\ pc = "add" /\ pc' = "start"
    /\ Write([Absent EXCEPT !.memory = "live"])
    /\ intervalList' = Append(intervalList, this)
    /\ UNCHANGED <<device, character_id, radio, phase, walk>>

Start == Store("start", "cb", [node[this] EXCEPT !.started = TRUE])

\* interval_add_ulong_callback and interval_add_float_callback.
SetCb == Store("cb", "set", [node[this] EXCEPT !.cb = TRUE])

SetCallback == Store("set", "data", [node[this] EXCEPT !.callback_set = TRUE])

SetData ==
    /\ pc = "data"
    /\ Write([node[this] EXCEPT !.data_ptr = TRUE])
    /\ NextCharacter(NumMeasured, "add", "notify")
    /\ UNCHANGED <<device, intervalList, radio, phase, walk>>

\* gattlib_notification_start; all characteristics are tried.
NotifyOn ==
    /\ pc = "notify"
    /\ \/ enabled' = enabled \cup {this} /\ UNCHANGED refused
       \/ refused' = refused \cup {device} /\ UNCHANGED enabled
    /\ NextCharacter(STATUS, "notify", "registered")
    /\ UNCHANGED <<device, connected, abandoned, outlived, list, phase, walk>>

\* main calls atmotube_end if any device failed, and enters its loop.
AfterRegister == IF refused = {} THEN "loop" ELSE "disconnect"

Registered ==
    /\ pc = "registered"
    /\ IF device \in refused THEN pc' = "unset" /\ UNCHANGED device
                             ELSE NextDevice("add", AfterRegister)
    /\ UNCHANGED <<character_id, list, radio, phase, walk>>

\* gattlib_disconnect.  Whether it waits for a handler of the device that runs
\* is up to gattlib.
Disconnected ==
    /\ connected' = connected \ {device}
    /\ UNCHANGED refused
    /\ \/ /\ enabled' = {n \in enabled : n[1] # device}
          /\ outlived' = IF step # "idle" /\ key[1] = device
                         THEN outlived \cup {device} ELSE outlived
          /\ UNCHANGED abandoned
       \/ /\ abandoned' = abandoned \cup {device}
          /\ UNCHANGED <<enabled, outlived>>

\* register_impl disconnects a device it could not register.
Drop ==
    /\ pc = "drop"
    /\ Disconnected
    /\ NextDevice("add", AfterRegister)
    /\ UNCHANGED <<character_id, list, phase, walk>>

\* Bug: atmotube_end takes the intervals down before it disconnects.
QuitUnregisters ==
    /\ pc = "loop" /\ pc' = "unset"
    /\ looped' = TRUE /\ torndown' = TRUE
    /\ UNCHANGED <<device, character_id, list, radio, walk>>

\* SIGINT ends the main loop.
Quit ==
    /\ pc = "loop" /\ pc' = "disconnect"
    /\ looped' = TRUE
    /\ UNCHANGED <<device, character_id, list, radio, torndown, walk>>

\* atmotube_disconnect, the first call of atmotube_end.
Disconnect ==
    /\ pc = "disconnect"
    /\ IF device \in connected THEN Disconnected ELSE UNCHANGED radio
    /\ NextDevice("disconnect", "unset")
    /\ torndown' = (torndown \/ device = NumDevices)
    /\ UNCHANGED <<character_id, list, looped, walk>>

\* modify_intervals without intervals to remove (find_in_list finds none), and
\* with: interval_remove_callbacks, interval_stop and interval_remove.
Missing == this \notin ToSet(intervalList)

AfterRemoval ==
    IF ~torndown THEN NextCharacter(NumMeasured, "unset", "drop") /\ UNCHANGED device
    ELSE IF character_id < NumMeasured
         THEN NextCharacter(NumMeasured, "unset", "unset") /\ UNCHANGED device
         ELSE /\ character_id' = 1
              /\ NextDevice("unset", IF looped THEN "done" ELSE "loop")

NothingToRemove ==
    /\ pc = "unset" /\ Missing
    /\ AfterRemoval
    /\ UNCHANGED <<list, radio, phase, walk>>

Unset ==
    /\ ~Missing
    /\ Store("unset", "nodata", [node[this] EXCEPT !.callback_set = FALSE])

ClearData == Store("nodata", "nocb", [node[this] EXCEPT !.data_ptr = FALSE])

ClearCb == Store("nocb", "stop", [node[this] EXCEPT !.cb = FALSE])

Stop == Store("stop", "free", [node[this] EXCEPT !.started = FALSE])

Free == Store("free", "unlink", [node[this] EXCEPT !.memory = "freed"])

Position(k) == CHOOSE i \in DOMAIN intervalList : intervalList[i] = k

\* g_slist_remove takes the link out and frees it.
Unlink ==
    /\ pc = "unlink"
    /\ intervalList' = RemoveAt(intervalList, Position(this))
    /\ AfterRemoval
    /\ UNCHANGED <<node, radio, phase, walk>>

main ==
    \/ Add \/ Start \/ SetCb \/ SetCallback \/ SetData \/ NotifyOn
    \/ Registered \/ Drop \/ Quit \/ Disconnect
    \/ NothingToRemove \/ Unset \/ ClearData \/ ClearCb \/ Stop \/ Free
    \/ Unlink

-----------------------------------------------------------------------------
(* interval_log.                                                           *)

Goto(s) == step' = s /\ UNCHANGED <<next, fault>>

Fault(cause) == fault' = cause /\ UNCHANGED <<step, here, next, taken>>

head == IF intervalList = <<>> THEN Null ELSE Head(intervalList)

\* The link after that of k.
Successor(k) ==
    IF Position(k) = Len(intervalList) THEN Null
    ELSE intervalList[Position(k) + 1]

\* A notification of a measured characteristic begins a walk.
Log ==
    /\ step = "idle"
    /\ \E k \in enabled \cap Keys : key' = k
    /\ step' = "link"
    /\ here' = head /\ next' = Null
    /\ taken' = FALSE
    /\ UNCHANGED fault

\* The round is over.
Advance ==
    /\ here' = next
    /\ step' = "link"
    /\ UNCHANGED <<next, fault>>

\* g_slist_foreach reads the next link before it calls interval_log_impl.
ReadLink ==
    /\ step = "link" /\ here # Null
    /\ IF here \in ToSet(intervalList)
       THEN /\ next' = Successor(here)
            /\ step' = "match"
            /\ UNCHANGED <<here, taken, fault>>
       ELSE Fault("freed")
    /\ UNCHANGED key

\* The node, unless its memory is gone.
Reads(s) == step = s /\ UNCHANGED key

Freed == node[here].memory = "freed"

\* Bug: only the first node of the characteristic is logged to, whatever its
\* device.
MatchFirst ==
    /\ Reads("match")
    /\ \/ Freed /\ Fault("freed")
       \/ ~Freed /\ here[2] # key[2] /\ Advance /\ UNCHANGED taken
       \/ /\ ~Freed /\ here[2] = key[2]
          /\ taken' = (here = key)
          /\ here' = Null /\ step' = "link" /\ UNCHANGED <<next, fault>>

\* A node of another key, or a stopped one, is passed over.  The sample that
\* closes the window goes on to the callback.
Match ==
    /\ Reads("match")
    /\ \/ Freed /\ Fault("freed")
       \/ ~Freed /\ (here # key \/ ~node[here].started) /\ Advance /\ UNCHANGED taken
       \/ /\ ~Freed /\ here = key /\ node[here].started
          /\ taken' = TRUE
          /\ Advance \/ (Goto("callback") /\ UNCHANGED here)

TestCallback ==
    /\ Reads("callback")
    /\ \/ Freed /\ Fault("freed")
       \/ ~Freed /\ ~node[here].callback_set /\ Advance /\ UNCHANGED taken
       \/ ~Freed /\ node[here].callback_set /\ Goto("call") /\ UNCHANGED <<here, taken>>

\* A null function is called, or output_voc and the like get a null device.
Call ==
    /\ Reads("call")
    /\ \/ Freed /\ Fault("freed")
       \/ ~Freed /\ ~(node[here].cb /\ node[here].data_ptr) /\ Fault("callback")
       \/ ~Freed /\ node[here].cb /\ node[here].data_ptr /\ Advance /\ UNCHANGED taken

Finish ==
    /\ step = "link" /\ here = Null
    /\ step' = "idle"
    /\ UNCHANGED <<key, here, next, taken, fault>>

interval_log ==
    /\ Log \/ ReadLink \/ Match \/ TestCallback \/ Call \/ Finish
    /\ UNCHANGED <<where, list, radio, phase>>

\* Undefined behaviour is followed no further.
Next == fault = "none" /\ (main \/ interval_log)

Spec == Init /\ [][Next]_vars

-----------------------------------------------------------------------------
(* Properties.                                                             *)

Node == [memory : {"none", "live", "freed"}, started : BOOLEAN,
         callback_set : BOOLEAN, cb : BOOLEAN, data_ptr : BOOLEAN]

TypeOK ==
    /\ pc \in {"add", "start", "cb", "set", "data", "notify", "registered",
               "drop", "loop", "disconnect", "unset", "nodata", "nocb", "stop",
               "free", "unlink", "done"}
    /\ device \in Devices
    /\ character_id \in 1 .. STATUS
    /\ pc # "notify" => character_id \in 1 .. NumMeasured
    /\ connected \subseteq Devices
    /\ looped \in BOOLEAN
    /\ intervalList \in Seq(Keys)
    /\ node \in [Keys -> Node]
    /\ enabled \subseteq Devices \X (1 .. STATUS)
    /\ step \in {"idle", "link", "match", "callback", "call"}
    /\ key \in Keys \cup {Null}
    /\ {here, next} \subseteq Keys \cup {Null}
    /\ taken \in BOOLEAN
    /\ refused \subseteq Devices
    /\ abandoned \subseteq Devices
    /\ outlived \subseteq Devices
    /\ torndown \in BOOLEAN
    /\ fault \in {"none", "freed", "callback"}

\* The devices that may still log when main takes their intervals down.
Late == abandoned \cup outlived

\* interval_log reaches freed memory only where a registration was undone while
\* some device notifies, or when it logs for a device that gattlib did not, or
\* not at once, disconnect; and it calls a null callback or passes a null device
\* only for a device of these itself.  Adding intervals for one device while
\* others log, and an atmotube_end that finds all links closed, never get there.
RaceExplained ==
    /\ fault = "freed" => refused # {} \/ key[1] \in Late
    /\ fault = "callback" => key[1] \in refused \cup Late

\* A walk that ends has averaged the sample if the interval is still there and
\* started, whatever nodes were appended or removed around it meanwhile.
SampleTaken ==
    [][ Finish /\ key \in ToSet(intervalList) /\ node[key].started => taken ]_vars

=============================================================================
