--------------------------- MODULE ListWalkProofs ---------------------------
(***************************************************************************)
(* Proofs about ListWalk, for any number of devices and characteristics:   *)
(* type correctness, that no walk meets freed memory or a half set         *)
(* callback except after the failures RaceExplained names, and that no     *)
(* walk misses the interval of its sample.                                 *)
(*                                                                         *)
(* The invariant: what may be walking (Active) at each position of main,   *)
(* that the intervals of an active device are complete unless it is one    *)
(* of those failures, and that before the first refusal and the first      *)
(* teardown nothing is freed and no walk is off the list.                  *)
(***************************************************************************)
EXTENDS ListWalk, SequenceTheorems, TLAPS

USE ListWalkAssumption

\* The positions of main in the loop that adds intervals, in registration, and
\* where an interval is being removed.
Adding == {"add", "start", "cb", "set", "data"}
Removing == {"nodata", "nocb", "stop", "free", "unlink"}
Registering == Adding \cup {"notify", "registered"}
Undoing == Removing \cup {"unset", "drop"}

\* Where the walk is.
Walking ==
    /\ step # "idle" => key \in Keys
    /\ step \in {"match", "callback", "call"} => here \in Keys
    /\ step \in {"callback", "call"} => here = key

Active(e) ==
    \/ step # "idle" /\ key[1] = e
    \/ \E n \in enabled : n[1] = e

Guilty == refused \cup Late

Ready(i) == i.memory = "live" /\ i.cb /\ i.data_ptr

\* Devices are set up in order, and a device notifies only once its turn to
\* enable notifications has come.
InOrder ==
    /\ pc \in Adding => \A e \in Devices : Active(e) => e < device
    /\ pc \in Registering \/ (pc \in Undoing /\ ~torndown) =>
          \A e \in Devices : Active(e) => e <= device

\* A device is connected until it is dropped or atmotube_end comes, which takes
\* intervals down only when every link was given up.
Closing ==
    /\ pc \in Registering \/ (pc \in Undoing /\ ~torndown) =>
          \A e \in Devices : e >= device => e \in connected
    /\ \A e \in Devices \ connected : Active(e) => e \in Late
    /\ pc = "disconnect" => \A e \in connected : e >= device
    /\ torndown => connected = {}
    /\ pc \in Registering \cup {"drop"} => ~torndown
    /\ pc = "loop" => device = 1

\* Intervals are removed by atmotube_end, or for a device that was refused.
Removal ==
    /\ pc \in Undoing /\ ~torndown => device \in refused
    /\ pc \in Removing => this \in ToSet(intervalList)

\* The intervals of a device are complete while it may log.
Wired ==
    /\ \A e \in Devices \ Guilty : Active(e) =>
          \A c \in 1 .. NumMeasured : Ready(node[<<e, c>>])
    /\ pc \in Adding => \A c \in 1 .. character_id - 1 : Ready(node[<<device, c>>])
    /\ pc = "notify" => \A c \in 1 .. NumMeasured : Ready(node[<<device, c>>])
    /\ pc \in Adding \ {"add"} => node[this].memory = "live"
    /\ pc \in {"set", "data"} => node[this].cb
    /\ pc \in {"registered", "drop"} => character_id = 1

\* Up to the first refusal and the teardown the list only grows.
Intact ==
    refused = {} /\ ~torndown =>
       /\ \A k \in Keys : node[k].memory # "freed"
       /\ step # "idle" => {here, next} \subseteq ToSet(intervalList) \cup {Null}

Inv ==
    /\ TypeOK
    /\ Walking
    /\ InOrder
    /\ Closing
    /\ Removal
    /\ Wired
    /\ Intact
    /\ RaceExplained

-----------------------------------------------------------------------------
(* Helpers.                                                                *)

LEMMA ThisIsKey == TypeOK /\ pc # "notify" => this \in Keys
  BY DEF TypeOK, this, Keys

LEMMA AppendToSet ==
    ASSUME NEW S, NEW s \in Seq(S), NEW e
    PROVE  ToSet(s) \subseteq ToSet(Append(s, e))
  BY DEF ToSet

\* The position of a link, and what is behind it.
LEMMA PositionIn ==
    ASSUME TypeOK, NEW k \in ToSet(intervalList)
    PROVE  Position(k) \in 1 .. Len(intervalList)
  <1>1. \E i \in DOMAIN intervalList : intervalList[i] = k
    BY DEF ToSet
  <1>2. Position(k) \in DOMAIN intervalList
    BY <1>1 DEF Position
  <1>3. QED
    BY <1>2 DEF TypeOK

LEMMA SuccessorIn ==
    ASSUME TypeOK, NEW k \in ToSet(intervalList)
    PROVE  Successor(k) \in (ToSet(intervalList) \cup {Null}) \cap (Keys \cup {Null})
  <1>1. Position(k) \in 1 .. Len(intervalList)
    BY PositionIn
  <1>2. CASE Position(k) = Len(intervalList)
    BY <1>2 DEF Successor
  <1>3. CASE Position(k) # Len(intervalList)
    <2>1. Len(intervalList) \in Nat
      BY DEF TypeOK
    <2>2. Position(k) + 1 \in 1 .. Len(intervalList)
      BY <1>1, <1>3, <2>1
    <2>3. intervalList[Position(k) + 1] \in Keys
      BY <2>2 DEF TypeOK
    <2>4. intervalList[Position(k) + 1] \in ToSet(intervalList)
      BY <2>2 DEF TypeOK, ToSet
    <2>5. QED
      BY <1>3, <2>3, <2>4 DEF Successor
  <1>4. QED
    BY <1>2, <1>3

LEMMA HeadIn ==
    TypeOK => head \in (ToSet(intervalList) \cup {Null}) \cap (Keys \cup {Null})
  <1> SUFFICES ASSUME TypeOK, intervalList # <<>>
               PROVE  head \in ToSet(intervalList) /\ head \in Keys
    BY DEF head
  <1>1. 1 \in DOMAIN intervalList /\ head = intervalList[1]
    BY DEF TypeOK, head
  <1>2. QED
    BY <1>1 DEF TypeOK, ToSet

LEMMA UnlinkedIn ==
    ASSUME TypeOK, NEW k \in ToSet(intervalList)
    PROVE  RemoveAt(intervalList, Position(k)) \in Seq(Keys)
  <1>1. Position(k) \in 1 .. Len(intervalList)
    BY PositionIn
  <1>2. QED
    BY <1>1 DEF TypeOK, RemoveAt

-----------------------------------------------------------------------------
(* Type correctness.                                                       *)

\* The loops keep their indices in range.
LEMMA NextCharacterType ==
    ASSUME TypeOK, NEW last \in {NumMeasured, STATUS}, NEW l, NEW m,
           NextCharacter(last, l, m), l # "notify" => last = NumMeasured
    PROVE  /\ pc' \in {l, m}
           /\ character_id' \in 1 .. STATUS
           /\ pc' # "notify" => character_id' \in 1 .. NumMeasured
  BY DEF TypeOK, NextCharacter, STATUS

LEMMA NextDeviceType ==
    ASSUME TypeOK, NEW l, NEW m, NextDevice(l, m)
    PROVE  device' \in Devices /\ pc' \in {l, m}
  BY DEF TypeOK, NextDevice, Devices

LEMMA AfterRemovalType ==
    ASSUME TypeOK, pc # "notify", AfterRemoval
    PROVE  /\ pc' \in {"unset", "drop", "loop", "done"}
           /\ device' \in Devices
           /\ character_id' \in 1 .. STATUS
           /\ character_id' \in 1 .. NumMeasured
  BY DEF TypeOK, AfterRemoval, NextCharacter, NextDevice, Devices, STATUS

LEMMA StoreType ==
    ASSUME TypeOK, NEW from, NEW to, NEW i \in Node, Store(from, to, i),
           from # "notify", to # "notify",
           to \in {"cb", "set", "data", "nodata", "nocb", "stop", "free", "unlink"}
    PROVE  TypeOK'
  BY DEF TypeOK, Store, Write, radio, phase, walk

LEMMA DisconnectedType ==
    ASSUME TypeOK, Disconnected
    PROVE  /\ connected' \subseteq Devices
           /\ refused' \subseteq Devices
           /\ abandoned' \subseteq Devices
           /\ outlived' \subseteq Devices
           /\ enabled' \subseteq Devices \X (1 .. STATUS)
  BY DEF TypeOK, Disconnected

\* A step of main keeps the types.  Walking and Removal say that a link main
\* takes out is in the list.
LEMMA MainType ==
    ASSUME TypeOK, Removal, main
    PROVE  TypeOK'
  <1> USE DEF radio, phase, walk, list
  <1>1. CASE Add
    <2>1. this \in Keys
      BY <1>1, ThisIsKey DEF Add
    <2>2. intervalList' \in Seq(Keys)
      BY <1>1, <2>1 DEF Add, TypeOK
    <2>3. node' \in [Keys -> Node]
      BY <1>1 DEF Add, Write, TypeOK, Absent, Node
    <2>4. QED
      BY <1>1, <2>2, <2>3 DEF Add, TypeOK
  <1>2. ASSUME pc # "notify"
        PROVE  /\ [node[this] EXCEPT !.started = TRUE] \in Node
               /\ [node[this] EXCEPT !.cb = TRUE] \in Node
               /\ [node[this] EXCEPT !.callback_set = TRUE] \in Node
               /\ [node[this] EXCEPT !.callback_set = FALSE] \in Node
               /\ [node[this] EXCEPT !.data_ptr = FALSE] \in Node
               /\ [node[this] EXCEPT !.cb = FALSE] \in Node
               /\ [node[this] EXCEPT !.started = FALSE] \in Node
               /\ [node[this] EXCEPT !.memory = "freed"] \in Node
    <2>1. node[this] \in Node
      BY <1>2, ThisIsKey DEF TypeOK
    <2>2. QED
      BY <2>1 DEF Node
  <1>3. CASE Start
    <2>1. pc # "notify"
      BY <1>3 DEF Start, Store
    <2>2. QED
      BY <1>2, <1>3, <2>1, StoreType DEF Start
  <1>4. CASE SetCb
    <2>1. pc # "notify"
      BY <1>4 DEF SetCb, Store
    <2>2. QED
      BY <1>2, <1>4, <2>1, StoreType DEF SetCb
  <1>5. CASE SetCallback
    <2>1. pc # "notify"
      BY <1>5 DEF SetCallback, Store
    <2>2. QED
      BY <1>2, <1>5, <2>1, StoreType DEF SetCallback
  <1>6. CASE SetData
    <2>1. [node[this] EXCEPT !.data_ptr = TRUE] \in Node
      BY <1>2, <1>6 DEF SetData, Node
    <2>2. node' \in [Keys -> Node]
      BY <1>6, <2>1 DEF SetData, Write, TypeOK
    <2>3. /\ pc' \in {"add", "notify"}
          /\ character_id' \in 1 .. STATUS
          /\ pc' # "notify" => character_id' \in 1 .. NumMeasured
      BY <1>6, NextCharacterType DEF SetData
    <2>4. QED
      BY <1>6, <2>2, <2>3 DEF SetData, TypeOK
  <1>7. CASE NotifyOn
    <2>1. /\ pc' \in {"notify", "registered"}
          /\ character_id' \in 1 .. STATUS
          /\ pc' # "notify" => character_id' \in 1 .. NumMeasured
      BY <1>7 DEF NotifyOn, NextCharacter, TypeOK, STATUS
    <2>2. enabled' \subseteq Devices \X (1 .. STATUS) /\ refused' \subseteq Devices
      BY <1>7 DEF NotifyOn, TypeOK, this
    <2>3. QED
      BY <1>7, <2>1, <2>2 DEF NotifyOn, TypeOK
  <1>8. CASE Registered
    <2>1. device' \in Devices /\ pc' \in {"unset", "add", "loop", "disconnect"}
      BY <1>8, NextDeviceType DEF Registered, AfterRegister, TypeOK
    <2>2. QED
      BY <1>8, <2>1 DEF Registered, TypeOK
  <1>9. CASE Drop
    <2>1. device' \in Devices /\ pc' \in {"add", "loop", "disconnect"}
      BY <1>9, NextDeviceType DEF Drop, AfterRegister
    <2>2. QED
      BY <1>9, <2>1, DisconnectedType DEF Drop, TypeOK
  <1>10. CASE Quit
    BY <1>10 DEF Quit, TypeOK
  <1>11. CASE Disconnect
    <2>1. device' \in Devices /\ pc' \in {"disconnect", "unset"}
      BY <1>11, NextDeviceType DEF Disconnect
    <2>2. torndown' \in BOOLEAN
      BY <1>11 DEF Disconnect
    <2>3. /\ connected' \subseteq Devices
          /\ refused' \subseteq Devices
          /\ abandoned' \subseteq Devices
          /\ outlived' \subseteq Devices
          /\ enabled' \subseteq Devices \X (1 .. STATUS)
      BY <1>11, DisconnectedType DEF Disconnect, TypeOK
    <2>4. QED
      BY <1>11, <2>1, <2>2, <2>3 DEF Disconnect, TypeOK
  <1>12. CASE NothingToRemove
    BY <1>12, AfterRemovalType DEF NothingToRemove, TypeOK
  <1>13. CASE Unset
    <2>1. pc # "notify"
      BY <1>13 DEF Unset, Store
    <2>2. QED
      BY <1>2, <1>13, <2>1, StoreType DEF Unset
  <1>14. CASE ClearData
    <2>1. pc # "notify"
      BY <1>14 DEF ClearData, Store
    <2>2. QED
      BY <1>2, <1>14, <2>1, StoreType DEF ClearData
  <1>15. CASE ClearCb
    <2>1. pc # "notify"
      BY <1>15 DEF ClearCb, Store
    <2>2. QED
      BY <1>2, <1>15, <2>1, StoreType DEF ClearCb
  <1>16. CASE Stop
    <2>1. pc # "notify"
      BY <1>16 DEF Stop, Store
    <2>2. QED
      BY <1>2, <1>16, <2>1, StoreType DEF Stop
  <1>17. CASE Free
    <2>1. pc # "notify"
      BY <1>17 DEF Free, Store
    <2>2. QED
      BY <1>2, <1>17, <2>1, StoreType DEF Free
  <1>18. CASE Unlink
    <2>1. intervalList' \in Seq(Keys)
      BY <1>18, UnlinkedIn DEF Unlink, Removal, Removing
    <2>2. QED
      BY <1>18, <2>1, AfterRemovalType DEF Unlink, TypeOK
  <1>19. QED
    BY <1>1, <1>3, <1>4, <1>5, <1>6, <1>7, <1>8, <1>9, <1>10, <1>11, <1>12,
       <1>13, <1>14, <1>15, <1>16, <1>17, <1>18 DEF main

\* A step of the walk keeps the types and Walking.
LEMMA WalkType ==
    ASSUME TypeOK, Walking, interval_log
    PROVE  TypeOK' /\ Walking'
  <1> USE DEF where, list, radio, phase
  <1>1. CASE Log
    <2>1. here' \in Keys \cup {Null}
      BY <1>1, HeadIn DEF Log
    <2>2. QED
      BY <1>1, <2>1 DEF interval_log, Log, TypeOK, Walking
  <1>2. CASE ReadLink
    <2>1. here \in ToSet(intervalList) => Successor(here) \in Keys \cup {Null}
      BY SuccessorIn
    <2>2. QED
      BY <1>2, <2>1 DEF interval_log, ReadLink, Fault, TypeOK, Walking
  <1>3. CASE Match
    BY <1>3 DEF interval_log, Match, Reads, Fault, Advance, Goto, TypeOK, Walking
  <1>4. CASE TestCallback
    BY <1>4 DEF interval_log, TestCallback, Reads, Fault, Advance, Goto, TypeOK,
                Walking
  <1>5. CASE Call
    BY <1>5 DEF interval_log, Call, Reads, Fault, Advance, TypeOK, Walking
  <1>6. CASE Finish
    BY <1>6 DEF interval_log, Finish, TypeOK, Walking
  <1>7. QED
    BY <1>1, <1>2, <1>3, <1>4, <1>5, <1>6 DEF interval_log

-----------------------------------------------------------------------------
(* A step of the walk.                                                     *)

\* A walk is of a device that was allowed to notify.
LEMMA WalkActive ==
    ASSUME TypeOK, interval_log, NEW e, Active(e)'
    PROVE  Active(e)
  <1> USE DEF radio
  <1>1. UNCHANGED enabled
    BY DEF interval_log
  <1>2. CASE Log
    BY <1>1, <1>2 DEF Log, Active
  <1>3. CASE ReadLink \/ Match \/ TestCallback \/ Call
    <2>1. step # "idle" /\ key' = key
      BY <1>3 DEF ReadLink, Match, TestCallback, Call, Reads
    <2>2. QED
      BY <1>1, <2>1 DEF Active
  <1>4. CASE Finish
    BY <1>1, <1>4 DEF Finish, Active
  <1>5. QED
    BY <1>2, <1>3, <1>4 DEF interval_log

\* A walk of an innocent device meets no freed memory: before the first
\* refusal and the teardown there is none, and after the teardown such a device
\* does not walk.
LEMMA WalkIntact ==
    ASSUME Inv, step # "idle", refused = {}, key[1] \notin Late
    PROVE  /\ \A k \in Keys : node[k].memory # "freed"
           /\ {here, next} \subseteq ToSet(intervalList) \cup {Null}
  <1>1. key[1] \in Devices /\ Active(key[1])
    BY DEF Inv, Walking, Keys, Active
  <1>2. key[1] \in connected
    BY <1>1 DEF Inv, Closing
  <1>3. ~torndown
    BY <1>2 DEF Inv, Closing
  <1>4. QED
    BY <1>3 DEF Inv, Intact

LEMMA WalkFault ==
    ASSUME Inv, interval_log, fault = "none"
    PROVE  RaceExplained'
  <1> USE DEF where, list, radio, phase
  <1>1. SUFFICES ASSUME fault' # "none" PROVE RaceExplained'
    BY DEF RaceExplained
  <1>2. UNCHANGED <<refused, abandoned, outlived>>
    BY DEF interval_log
  <1>3. CASE ReadLink
    <2>1. here \notin ToSet(intervalList) /\ here # Null /\ step # "idle"
          /\ fault' = "freed" /\ key' = key
      BY <1>1, <1>3 DEF ReadLink, Fault
    <2>2. refused # {} \/ key[1] \in Late
      BY <2>1, WalkIntact
    <2>3. QED
      BY <1>2, <2>1, <2>2 DEF RaceExplained, Late
  <1>4. CASE (Match \/ TestCallback \/ Call) /\ fault' = "freed"
    <2>1. Freed /\ here \in Keys /\ step # "idle" /\ key' = key
      BY <1>4 DEF Inv, Walking, Match, TestCallback, Call, Reads, Fault, Advance, Goto
    <2>2. refused # {} \/ key[1] \in Late
      BY <2>1, WalkIntact DEF Freed
    <2>3. QED
      BY <1>2, <1>4, <2>1, <2>2 DEF RaceExplained, Late
  <1>5. CASE Call /\ fault' = "callback"
    <2>1. /\ step = "call" /\ key' = key /\ here = key /\ key \in Keys
          /\ ~(node[here].cb /\ node[here].data_ptr)
      BY <1>5 DEF Inv, Walking, Call, Reads, Fault, Advance
    <2>2. /\ key[1] \in Devices /\ key[2] \in 1 .. NumMeasured
          /\ key = <<key[1], key[2]>> /\ Active(key[1])
      BY <2>1 DEF Keys, Active
    <2>3. key[1] \in Guilty
      BY <2>1, <2>2 DEF Inv, Wired, Ready
    <2>4. QED
      BY <1>2, <1>5, <2>1, <2>3 DEF RaceExplained, Guilty, Late
  <1>6. QED
    BY <1>1, <1>3, <1>4, <1>5
       DEF interval_log, Log, Match, TestCallback, Call, Finish, Fault, Advance, Goto

\* The walk stays on the list while the list only grows.
LEMMA WalkOnList ==
    ASSUME Inv, interval_log
    PROVE  Intact'
  <1> USE DEF where, list, radio, phase
  <1>1. UNCHANGED <<refused, torndown, node, intervalList>>
    BY DEF interval_log
  <1>2. SUFFICES ASSUME refused = {}, ~torndown, step' # "idle"
                 PROVE  {here', next'} \subseteq ToSet(intervalList) \cup {Null}
    BY <1>1 DEF Inv, Intact
  <1>3. TypeOK
    BY DEF Inv
  <1>4. CASE Log
    BY <1>3, <1>4, HeadIn DEF Log
  <1>5. ASSUME step # "idle"
        PROVE  {here, next} \subseteq ToSet(intervalList) \cup {Null}
    BY <1>2, <1>5 DEF Inv, Intact
  <1>6. CASE ReadLink
    <2>1. step # "idle"
      BY <1>6 DEF ReadLink
    <2>2. CASE here \in ToSet(intervalList)
      <3>1. Successor(here) \in ToSet(intervalList) \cup {Null}
        BY <1>3, <2>2, SuccessorIn
      <3>2. QED
        BY <1>6, <2>2, <3>1 DEF ReadLink
    <2>3. CASE here \notin ToSet(intervalList)
      BY <1>5, <1>6, <2>1, <2>3 DEF ReadLink, Fault
    <2>4. QED
      BY <2>2, <2>3
  <1>7. CASE Match \/ TestCallback \/ Call
    <2>1. step # "idle"
      BY <1>7 DEF Match, TestCallback, Call, Reads
    <2>2. here' \in {here, next} /\ next' = next
      BY <1>7 DEF Match, TestCallback, Call, Fault, Advance, Goto
    <2>3. QED
      BY <1>5, <2>1, <2>2
  <1>8. CASE Finish
    BY <1>2, <1>8 DEF Finish
  <1>9. QED
    BY <1>4, <1>6, <1>7, <1>8 DEF interval_log

LEMMA WalkInv ==
    ASSUME Inv, interval_log, fault = "none"
    PROVE  Inv'
  <1> USE DEF where, list, radio, phase
  <1>1. TypeOK' /\ Walking'
    BY WalkType DEF Inv
  <1>2. /\ UNCHANGED <<pc, device, character_id, intervalList, node, connected>>
        /\ UNCHANGED <<enabled, refused, abandoned, outlived, looped, torndown>>
    BY DEF interval_log
  <1>3. \A e : Active(e)' => Active(e)
    BY WalkActive DEF Inv
  <1>4. Late' = Late /\ Guilty' = Guilty /\ this' = this
    BY <1>2 DEF Late, Guilty, this
  <1>5. InOrder'
    BY <1>2, <1>3 DEF Inv, InOrder
  <1>6. Closing'
    BY <1>2, <1>3, <1>4 DEF Inv, Closing
  <1>7. Removal'
    BY <1>2, <1>4 DEF Inv, Removal
  <1>8. Wired'
    BY <1>2, <1>3, <1>4 DEF Inv, Wired
  <1>9. QED
    BY <1>1, <1>5, <1>6, <1>7, <1>8, WalkOnList, WalkFault DEF Inv

-----------------------------------------------------------------------------
(* A step of main.                                                         *)

\* What a store to the node of this leaves as it was: the other nodes.
LEMMA WriteOther ==
    ASSUME TypeOK, NEW i, Write(i)
    PROVE  /\ \A k \in Keys \ {this} : node'[k] = node[k]
           /\ this \in Keys => node'[this] = i
  BY DEF TypeOK, Write

\* Steps that leave the walk and the radio alone.
LEMMA SameActive ==
    ASSUME UNCHANGED <<step, key, enabled>>
    PROVE  \A e : Active(e)' = Active(e)
  BY DEF Active

\* interval_add and the stores that set a node up.  The device is not active
\* yet, so only its own nodes are touched.
LEMMA SetUpInv ==
    ASSUME Inv, Add \/ Start \/ SetCb \/ SetCallback \/ SetData, fault = "none"
    PROVE  Inv'
  <1> USE DEF list, radio, phase, walk
  <1>1. pc \in Adding /\ pc' \in Adding \cup {"notify"}
    BY DEF Add, Start, SetCb, SetCallback, SetData, Store, NextCharacter, Adding
  <1>2. UNCHANGED <<device, radio, phase, walk>>
    BY DEF Add, Start, SetCb, SetCallback, SetData, Store
  <1>3. TypeOK'
    BY MainType DEF Inv, main
  <1>4. this \in Keys /\ device \in Devices /\ character_id \in 1 .. NumMeasured
    BY <1>1, ThisIsKey DEF Inv, TypeOK, Adding
  <1>5. /\ \A k \in Keys \ {this} : node'[k] = node[k]
        /\ node'[this].memory # "freed"
        /\ pc \in {"add", "start", "cb", "set", "data"} \ {"add"} =>
              node'[this].memory = node[this].memory
        /\ pc = "add" => node'[this].memory = "live"
        /\ pc = "cb" => node'[this].cb
        /\ pc \in {"set", "data"} => node'[this].cb = node[this].cb
        /\ pc = "data" => node'[this].data_ptr
    <2>1. node[this] \in Node
      BY <1>4 DEF Inv, TypeOK
    <2>2. pc # "add" => node[this].memory = "live"
      BY <1>1 DEF Inv, Wired, Adding
    <2>3. CASE Add
      BY <1>4, <2>3, WriteOther DEF Add, Absent, Inv
    <2>4. CASE Start
      BY <1>4, <2>1, <2>2, <2>4, WriteOther DEF Start, Store, Inv, Node
    <2>5. CASE SetCb
      BY <1>4, <2>1, <2>2, <2>5, WriteOther DEF SetCb, Store, Inv, Node
    <2>6. CASE SetCallback
      BY <1>4, <2>1, <2>2, <2>6, WriteOther DEF SetCallback, Store, Inv, Node
    <2>7. CASE SetData
      BY <1>4, <2>1, <2>2, <2>7, WriteOther DEF SetData, Inv, Node
    <2>8. QED
      BY <2>3, <2>4, <2>5, <2>6, <2>7
  <1>6. \A e : Active(e)' = Active(e)
    BY <1>2, SameActive
  <1>7. ToSet(intervalList) \subseteq ToSet(intervalList')
    <2>1. CASE Add
      BY <2>1, AppendToSet DEF Add, Inv, TypeOK
    <2>2. CASE ~Add
      BY <2>2 DEF Start, SetCb, SetCallback, SetData, Store
    <2>3. QED
      BY <2>1, <2>2
  <1>8. Walking'
    BY <1>2 DEF Inv, Walking
  <1>9. InOrder'
    BY <1>1, <1>2, <1>6, <1>4 DEF Inv, InOrder, Adding, Registering, Undoing, Removing
  <1>10. Closing'
    BY <1>1, <1>2, <1>6 DEF Inv, Closing, Adding, Registering, Undoing, Removing, Late
  <1>11. Removal'
    BY <1>1 DEF Removal, Adding, Undoing, Removing
  <1>12. Wired'
    <2>1. ASSUME NEW e \in Devices \ Guilty, Active(e), NEW c \in 1 .. NumMeasured
          PROVE  Ready(node'[<<e, c>>])
      <3>1. e # device
        BY <1>1, <1>4, <2>1 DEF Inv, InOrder, Devices
      <3>2. <<e, c>> \in Keys \ {this}
        BY <2>1, <3>1 DEF Keys, this
      <3>3. Ready(node[<<e, c>>])
        BY <2>1 DEF Inv, Wired
      <3>4. QED
        BY <1>5, <3>2, <3>3 DEF Ready
    <2>2. \A c \in 1 .. character_id - 1 : Ready(node'[<<device, c>>])
      <3>1. \A c \in 1 .. character_id - 1 :
               <<device, c>> \in Keys \ {this} /\ Ready(node[<<device, c>>])
        BY <1>1, <1>4 DEF Inv, Wired, Keys, this
      <3>2. QED
        BY <1>5, <3>1 DEF Ready
    <2>3. pc = "data" => Ready(node'[<<device, character_id>>])
      BY <1>5 DEF Inv, Wired, Ready, Adding, this
    <2>4. CASE pc # "data"
      <3>1. character_id' = character_id /\ this' = this
        BY <1>2, <2>4 DEF Add, Start, SetCb, SetCallback, SetData, Store, this
      <3>2. \/ pc = "add" /\ pc' = "start"
            \/ pc = "start" /\ pc' = "cb"
            \/ pc = "cb" /\ pc' = "set"
            \/ pc = "set" /\ pc' = "data"
        BY <2>4 DEF Add, Start, SetCb, SetCallback, SetData, Store
      <3>3. node'[this].memory = "live" /\ (pc' \in {"set", "data"} => node'[this].cb)
        BY <1>5, <3>2 DEF Inv, Wired, Adding
      <3>4. QED
        BY <1>2, <1>6, <2>1, <2>2, <3>1, <3>2, <3>3 DEF Wired, Guilty, Late
    <2>5. CASE pc = "data"
      <3>1. \/ pc' = "add" /\ character_id' = character_id + 1
            \/ pc' = "notify" /\ character_id = NumMeasured
        BY <1>4, <2>5 DEF Add, Start, SetCb, SetCallback, SetData, Store, NextCharacter
      <3>2. \A c \in 1 .. character_id : Ready(node'[<<device, c>>])
        BY <1>4, <2>2, <2>3, <2>5
      <3>3. device' = device
        BY <1>2
      <3>4. \A e \in Devices \ Guilty : Active(e) =>
               \A c \in 1 .. NumMeasured : Ready(node'[<<e, c>>])
        BY <2>1
      <3>5. (\A e \in Devices \ Guilty : Active(e) =>
               \A c \in 1 .. NumMeasured : Ready(node[<<e, c>>]))'
        BY <1>2, <1>6, <3>4 DEF Guilty, Late
      <3>6. CASE pc' = "add"
        <4>1. \A c \in 1 .. character_id' - 1 : Ready(node'[<<device', c>>])
          BY <1>4, <3>1, <3>2, <3>3, <3>6
        <4>2. QED
          BY <3>5, <3>6, <4>1 DEF Wired, Adding
      <3>7. CASE pc' = "notify"
        <4>1. \A c \in 1 .. NumMeasured : Ready(node'[<<device', c>>])
          BY <3>1, <3>2, <3>3, <3>7
        <4>2. QED
          BY <3>5, <3>7, <4>1 DEF Wired, Adding
      <3>8. QED
        BY <3>1, <3>6, <3>7
    <2>6. QED
      BY <2>4, <2>5
  <1>13. Intact'
    BY <1>2, <1>5, <1>7 DEF Inv, Intact
  <1>14. RaceExplained'
    BY <1>2 DEF RaceExplained
  <1>15. QED
    BY <1>3, <1>8, <1>9, <1>10, <1>11, <1>12, <1>13, <1>14 DEF Inv

\* A device whose notifications are enabled one by one has its intervals.
LEMMA NotifyInv ==
    ASSUME Inv, NotifyOn, fault = "none"
    PROVE  Inv'
  <1> USE DEF list, phase, walk
  <1>1. /\ pc = "notify" /\ pc' \in {"notify", "registered"}
        /\ UNCHANGED <<device, connected, abandoned, outlived, list, phase, walk>>
    BY DEF NotifyOn, NextCharacter
  <1>2. TypeOK'
    BY MainType DEF Inv, main
  <1>3. \A e \in Devices : Active(e)' => Active(e) \/ e = device
    BY DEF NotifyOn, Active, this
  <1>4. refused \subseteq refused' /\ Late' = Late
    BY DEF NotifyOn, Late
  <1>5. device \in Devices /\ device \in connected
    BY <1>1 DEF Inv, TypeOK, Closing, Registering, Devices
  <1>6. Walking'
    BY <1>1 DEF Inv, Walking
  <1>7. InOrder'
    <2>1. \A e \in Devices : Active(e) => e <= device
      BY <1>1 DEF Inv, InOrder, Registering
    <2>2. \A e \in Devices : Active(e)' => e <= device
      BY <1>3, <1>5, <2>1 DEF Devices
    <2>3. QED
      BY <1>1, <2>2 DEF InOrder, Adding
  <1>8. Closing'
    BY <1>1, <1>3, <1>4, <1>5 DEF Inv, Closing, Registering
  <1>9. Removal'
    BY <1>1 DEF Removal, Undoing, Removing
  <1>10. Wired'
    <2>1. \A e \in Devices \ Guilty' : Active(e)' =>
             \A c \in 1 .. NumMeasured : Ready(node[<<e, c>>])
      BY <1>1, <1>3, <1>4 DEF Inv, Wired, Guilty
    <2>2. (\A e \in Devices \ Guilty : Active(e) =>
             \A c \in 1 .. NumMeasured : Ready(node[<<e, c>>]))'
      BY <1>1, <2>1
    <2>3. pc' = "registered" => character_id' = 1
      BY DEF NotifyOn, NextCharacter
    <2>4. QED
      BY <1>1, <2>2, <2>3 DEF Inv, Wired, Adding
  <1>11. Intact'
    BY <1>1, <1>4 DEF Inv, Intact
  <1>12. RaceExplained'
    BY <1>1 DEF RaceExplained
  <1>13. QED
    BY <1>2, <1>6, <1>7, <1>8, <1>9, <1>10, <1>11, <1>12 DEF Inv

\* The loop over the devices.
LEMMA NextDeviceStep ==
    ASSUME TypeOK, NEW l, NEW m, NextDevice(l, m)
    PROVE  \/ pc' = l /\ device < NumDevices /\ device' = device + 1
           \/ pc' = m /\ device = NumDevices /\ device' = 1
  BY DEF TypeOK, NextDevice, Devices

LEMMA RegisteredInv ==
    ASSUME Inv, Registered, fault = "none"
    PROVE  Inv'
  <1> USE DEF list, radio, phase, walk
  <1>1. /\ pc = "registered"
        /\ UNCHANGED <<character_id, list, radio, phase, walk>>
    BY DEF Registered
  <1>2. TypeOK'
    BY MainType DEF Inv, main
  <1>3. \/ device \in refused /\ pc' = "unset" /\ device' = device
        \/ pc' = "add" /\ device' = device + 1
        \/ pc' \in {"loop", "disconnect"} /\ device' = 1
    BY NextDeviceStep DEF Inv, Registered, AfterRegister
  <1>4. \A e : Active(e)' = Active(e)
    BY <1>1, SameActive
  <1>5. /\ ~torndown /\ device \in Nat
        /\ \A e \in Devices : Active(e) => e <= device
        /\ \A e \in Devices : e >= device => e \in connected
    BY <1>1 DEF Inv, TypeOK, Closing, InOrder, Registering, Devices
  <1>6. Walking'
    BY <1>1 DEF Inv, Walking
  <1>7. InOrder'
    <2>1. \A e \in Devices : Active(e) => e < device + 1
      BY <1>5 DEF Devices
    <2>2. \A e \in Devices : Active(e) => e <= device + 1
      BY <1>5 DEF Devices
    <2>3. QED
      BY <1>1, <1>3, <1>4, <1>5, <2>1, <2>2
         DEF InOrder, Adding, Registering, Undoing, Removing
  <1>8. Closing'
    <2>1. \A e \in Devices : e >= device + 1 => e \in connected
      BY <1>5 DEF Devices
    <2>2. \A e \in connected : e >= 1
      BY DEF Inv, TypeOK, Devices
    <2>3. Late' = Late
      BY <1>1 DEF Late
    <2>4. QED
      BY <1>1, <1>3, <1>4, <1>5, <2>1, <2>2, <2>3
         DEF Inv, Closing, Adding, Registering, Undoing, Removing
  <1>9. Removal'
    BY <1>1, <1>3 DEF Removal, Undoing, Removing
  <1>10. Wired'
    <2>1. Guilty' = Guilty
      BY <1>1 DEF Guilty, Late
    <2>2. pc' = "add" => character_id' = 1
      BY <1>1 DEF Inv, Wired
    <2>3. QED
      BY <1>1, <1>3, <1>4, <2>1, <2>2 DEF Inv, Wired, Adding
  <1>11. Intact'
    BY <1>1 DEF Inv, Intact
  <1>12. RaceExplained'
    BY <1>1 DEF RaceExplained
  <1>13. QED
    BY <1>2, <1>6, <1>7, <1>8, <1>9, <1>10, <1>11, <1>12 DEF Inv

\* gattlib_disconnect: the device is active no more, or is one of Late.
LEMMA DisconnectedGuilty ==
    ASSUME Inv, Disconnected, UNCHANGED walk
    PROVE  /\ connected' = connected \ {device}
           /\ refused' = refused
           /\ Late \subseteq Late'
           /\ \A e : Active(e)' => Active(e)
           /\ \A e : e = device /\ Active(e)' => e \in Late'
  <1> USE DEF walk
  <1>1. /\ connected' = connected \ {device} /\ refused' = refused
        /\ Late \subseteq Late'
    BY DEF Disconnected, Late
  <1>2. \A e : Active(e)' => Active(e)
    BY DEF Disconnected, Active
  <1>3. \A e : e = device /\ Active(e)' => e \in Late'
    <2>1. CASE abandoned' = abandoned \cup {device}
      BY <2>1 DEF Late
    <2>2. CASE /\ enabled' = {n \in enabled : n[1] # device}
               /\ outlived' = IF step # "idle" /\ key[1] = device
                              THEN outlived \cup {device} ELSE outlived
      BY <2>2 DEF Active, Late
    <2>3. QED
      BY <2>1, <2>2 DEF Disconnected
  <1>4. QED
    BY <1>1, <1>2, <1>3

LEMMA DropInv ==
    ASSUME Inv, Drop, fault = "none"
    PROVE  Inv'
  <1> USE DEF list, phase, walk
  <1>1. /\ pc = "drop"
        /\ UNCHANGED <<character_id, list, phase, walk>>
    BY DEF Drop
  <1>2. TypeOK'
    BY MainType DEF Inv, main
  <1>3. \/ pc' = "add" /\ device' = device + 1
        \/ pc' \in {"loop", "disconnect"} /\ device' = 1
    BY NextDeviceStep DEF Inv, Drop, AfterRegister
  <1>4. /\ connected' = connected \ {device}
        /\ refused' = refused
        /\ Late \subseteq Late'
        /\ \A e : Active(e)' => Active(e)
        /\ \A e : e = device /\ Active(e)' => e \in Late'
    BY <1>1, DisconnectedGuilty DEF Drop
  <1>5. /\ ~torndown /\ device \in Nat /\ device \in refused
        /\ \A e \in Devices : Active(e) => e <= device
        /\ \A e \in Devices : e >= device => e \in connected
    BY <1>1 DEF Inv, TypeOK, Closing, Removal, InOrder, Registering, Undoing, Devices
  <1>6. Walking'
    BY <1>1 DEF Inv, Walking
  <1>7. InOrder'
    <2>1. \A e \in Devices : Active(e)' => e < device + 1 /\ e <= device + 1
      BY <1>4, <1>5 DEF Devices
    <2>2. QED
      BY <1>1, <1>3, <2>1 DEF InOrder, Adding, Registering, Undoing, Removing
  <1>8. Closing'
    <2>1. \A e \in Devices : e >= device + 1 => e \in connected'
      BY <1>4, <1>5 DEF Devices
    <2>2. \A e \in connected' : e >= 1
      BY <1>4 DEF Inv, TypeOK, Devices
    <2>3. \A e \in Devices \ connected' : Active(e)' => e \in Late'
      BY <1>4 DEF Inv, Closing
    <2>4. QED
      BY <1>1, <1>3, <1>5, <2>1, <2>2, <2>3
         DEF Closing, Adding, Registering, Undoing, Removing
  <1>9. Removal'
    BY <1>3 DEF Removal, Undoing, Removing
  <1>10. Wired'
    <2>1. Guilty \subseteq Guilty'
      BY <1>4 DEF Guilty
    <2>2. pc' = "add" => character_id' = 1
      BY <1>1 DEF Inv, Wired
    <2>3. (\A e \in Devices \ Guilty : Active(e) =>
             \A c \in 1 .. NumMeasured : Ready(node[<<e, c>>]))'
      BY <1>1, <1>4, <2>1 DEF Inv, Wired
    <2>4. QED
      BY <1>1, <1>3, <2>2, <2>3 DEF Wired, Adding
  <1>11. Intact'
    BY <1>1, <1>4 DEF Inv, Intact
  <1>12. RaceExplained'
    BY <1>1 DEF RaceExplained
  <1>13. QED
    BY <1>2, <1>6, <1>7, <1>8, <1>9, <1>10, <1>11, <1>12 DEF Inv

LEMMA QuitInv ==
    ASSUME Inv, Quit, fault = "none"
    PROVE  Inv'
  <1> USE DEF list, radio, walk
  <1>1. /\ pc = "loop" /\ pc' = "disconnect"
        /\ UNCHANGED <<device, character_id, list, radio, torndown, walk>>
    BY DEF Quit
  <1>2. TypeOK'
    BY MainType DEF Inv, main
  <1>3. \A e : Active(e)' = Active(e)
    BY <1>1, SameActive
  <1>4. Late' = Late /\ Guilty' = Guilty
    BY <1>1 DEF Late, Guilty
  <1>5. InOrder' /\ Removal'
    BY <1>1 DEF InOrder, Removal, Adding, Registering, Undoing, Removing
  <1>6. Closing'
    <2>1. \A e \in connected : e >= 1
      BY DEF Inv, TypeOK, Devices
    <2>2. QED
      BY <1>1, <1>3, <1>4, <2>1
         DEF Inv, Closing, Adding, Registering, Undoing, Removing
  <1>7. Wired'
    BY <1>1, <1>3, <1>4 DEF Inv, Wired, Adding
  <1>8. Walking' /\ Intact' /\ RaceExplained'
    BY <1>1 DEF Inv, Walking, Intact, RaceExplained
  <1>9. QED
    BY <1>2, <1>5, <1>6, <1>7, <1>8 DEF Inv

\* atmotube_disconnect gives up one link after the other.
LEMMA DisconnectInv ==
    ASSUME Inv, Disconnect, fault = "none"
    PROVE  Inv'
  <1> USE DEF list, walk
  <1>1. /\ pc = "disconnect"
        /\ UNCHANGED <<character_id, list, looped, walk>>
    BY DEF Disconnect
  <1>2. TypeOK'
    BY MainType DEF Inv, main
  <1>3. \/ pc' = "disconnect" /\ device' = device + 1 /\ device < NumDevices
        \/ pc' = "unset" /\ device' = 1 /\ device = NumDevices
    BY NextDeviceStep DEF Inv, Disconnect
  <1>4. /\ connected' = connected \ {device}
        /\ refused' = refused
        /\ Late \subseteq Late'
        /\ \A e : Active(e)' => Active(e)
        /\ \A e \in connected : e = device /\ Active(e)' => e \in Late'
    <2>1. CASE device \in connected
      <3>1. Disconnected
        BY <2>1 DEF Disconnect
      <3>2. QED
        BY <1>1, <3>1, DisconnectedGuilty
    <2>2. CASE device \notin connected
      <3>1. UNCHANGED radio
        BY <2>2 DEF Disconnect
      <3>2. QED
        BY <1>1, <2>2, <3>1 DEF radio, Late, Active
    <2>3. QED
      BY <2>1, <2>2
  <1>5. /\ device \in 1 .. NumDevices
        /\ connected \subseteq 1 .. NumDevices
        /\ \A e \in connected : e >= device
        /\ torndown => connected = {}
    BY <1>1 DEF Inv, TypeOK, Closing, Devices
  <1>6. torndown' = (torndown \/ device = NumDevices)
    BY DEF Disconnect
  <1>7. Walking'
    BY <1>1 DEF Inv, Walking
  <1>8. pc' = "unset" => torndown'
    BY <1>3, <1>6
  <1>9. InOrder' /\ Removal'
    BY <1>3, <1>8 DEF InOrder, Removal, Adding, Registering, Undoing, Removing
  <1>10. Closing'
    <2>1. \A e \in connected' : e >= device + 1
      BY <1>4, <1>5
    <2>2. device = NumDevices => connected' = {}
      BY <1>5, <2>1, <1>4
    <2>3. \A e \in Devices \ connected' : Active(e)' => e \in Late'
      BY <1>4 DEF Inv, Closing
    <2>4. torndown' => connected' = {}
      BY <1>4, <1>5, <1>6, <2>2
    <2>5. QED
      BY <1>3, <1>8, <2>1, <2>3, <2>4
         DEF Closing, Adding, Registering, Undoing, Removing
  <1>11. Wired'
    <2>1. Guilty \subseteq Guilty'
      BY <1>4 DEF Guilty
    <2>2. (\A e \in Devices \ Guilty : Active(e) =>
             \A c \in 1 .. NumMeasured : Ready(node[<<e, c>>]))'
      BY <1>1, <1>4, <2>1 DEF Inv, Wired
    <2>3. QED
      BY <1>3, <2>2 DEF Wired, Adding
  <1>12. Intact'
    BY <1>1, <1>4, <1>6 DEF Inv, Intact
  <1>13. RaceExplained'
    BY <1>1 DEF RaceExplained
  <1>14. QED
    BY <1>2, <1>7, <1>9, <1>10, <1>11, <1>12, <1>13 DEF Inv

\* Taking intervals down: whoever is active then is one of Late, or it is the
\* intervals of a device that was refused.
LEMMA TakeDownInv ==
    ASSUME Inv, fault = "none",
           NothingToRemove \/ Unset \/ ClearData \/ ClearCb \/ Stop \/ Free \/ Unlink
    PROVE  Inv'
  <1> USE DEF radio, phase, walk
  <1>1. pc \in Removing \cup {"unset"} /\ UNCHANGED <<radio, phase, walk>>
    BY DEF NothingToRemove, Unset, ClearData, ClearCb, Stop, Free, Unlink, Store,
           Removing
  <1>2. TypeOK'
    BY MainType DEF Inv, main
  <1>3. \/ /\ UNCHANGED <<device, character_id, intervalList>>
           /\ pc' \in Removing /\ this \in ToSet(intervalList)
        \/ AfterRemoval
    <2>1. CASE NothingToRemove \/ Unlink
      BY <2>1 DEF NothingToRemove, Unlink
    <2>2. CASE Unset
      BY <2>2 DEF Unset, Missing, Store, Removing
    <2>3. CASE ClearData \/ ClearCb \/ Stop \/ Free
      BY <2>3 DEF Inv, Removal, ClearData, ClearCb, Stop, Free, Store, Removing
    <2>4. QED
      BY <2>1, <2>2, <2>3
  <1>4. AfterRemoval =>
           \/ ~torndown /\ pc' \in {"unset", "drop"} /\ device' = device
           \/ torndown /\ pc' \in {"unset", "done"}
           \/ torndown /\ pc' = "loop" /\ device' = 1
    BY NextDeviceStep DEF Inv, AfterRemoval, NextCharacter
  <1>5. AfterRemoval /\ pc' = "drop" => character_id' = 1
    BY NextDeviceStep DEF Inv, AfterRemoval, NextCharacter
  <1>6. /\ pc' \in Removing \cup {"unset", "drop", "loop", "done"}
        /\ ~torndown => pc' \in Undoing /\ device' = device
        /\ pc' = "drop" => ~torndown /\ character_id' = 1
        /\ pc' = "loop" => device' = 1
        /\ pc' \in Removing => this' = this /\ intervalList' = intervalList
                                /\ this \in ToSet(intervalList)
    BY <1>3, <1>4, <1>5 DEF Removing, Undoing, this
  <1>7. \A e : Active(e)' = Active(e)
    BY <1>1, SameActive
  <1>8. pc \in Undoing /\ (~torndown => device \in refused)
    BY <1>1 DEF Inv, Removal, Undoing
  <1>9. torndown => connected = {}
    BY DEF Inv, Closing
  <1>10. Late' = Late /\ Guilty' = Guilty
    BY <1>1 DEF Late, Guilty
  <1>11. Walking' /\ RaceExplained'
    BY <1>1 DEF Inv, Walking, RaceExplained
  <1>12. InOrder'
    BY <1>1, <1>6, <1>7, <1>8 DEF Inv, InOrder, Adding, Registering, Undoing, Removing
  <1>13. Closing'
    BY <1>1, <1>6, <1>7, <1>8, <1>10
       DEF Inv, Closing, Adding, Registering, Undoing, Removing
  <1>14. Removal'
    BY <1>1, <1>6, <1>8 DEF Removal
  <1>15. Wired'
    <2>1. ASSUME NEW e \in Devices \ Guilty, Active(e), NEW c \in 1 .. NumMeasured
          PROVE  Ready(node'[<<e, c>>])
      <3>1. ~torndown
        BY <1>9, <2>1 DEF Inv, Closing, Guilty
      <3>2. e # device
        BY <1>8, <3>1 DEF Guilty
      <3>3. <<e, c>> \in Keys \ {this}
        BY <3>2 DEF Keys, this
      <3>4. node'[<<e, c>>] = node[<<e, c>>]
        <4>1. CASE UNCHANGED node
          BY <4>1
        <4>2. ASSUME NEW i, Write(i)
              PROVE  node'[<<e, c>>] = node[<<e, c>>]
          BY <3>3, <4>2, WriteOther DEF Inv
        <4>3. QED
          BY <4>1, <4>2 DEF NothingToRemove, Unset, ClearData, ClearCb, Stop, Free,
                            Unlink, Store, list
      <3>5. QED
        BY <2>1, <3>4 DEF Inv, Wired
    <2>2. (\A e \in Devices \ Guilty : Active(e) =>
             \A c \in 1 .. NumMeasured : Ready(node[<<e, c>>]))'
      BY <1>7, <1>10, <2>1
    <2>3. QED
      BY <1>6, <2>2 DEF Wired, Adding, Removing
  <1>16. Intact'
    BY <1>1, <1>8 DEF Intact
  <1>17. QED
    BY <1>2, <1>11, <1>12, <1>13, <1>14, <1>15, <1>16 DEF Inv

-----------------------------------------------------------------------------

LEMMA InvInit == Init => Inv
  <1> SUFFICES ASSUME Init PROVE Inv
    OBVIOUS
  <1>1. TypeOK
    <2>1. 1 \in Devices /\ 1 \in 1 .. STATUS /\ 1 \in 1 .. NumMeasured
      BY DEF Devices, STATUS
    <2>2. Absent \in Node
      BY DEF Absent, Node
    <2>3. node \in [Keys -> Node] /\ intervalList \in Seq(Keys)
      BY <2>2 DEF Init
    <2>4. QED
      BY <2>1, <2>3 DEF Init, TypeOK
  <1>2. Walking /\ InOrder
    BY DEF Init, Walking, InOrder, Active
  <1>3. Closing /\ Removal
    BY DEF Init, Closing, Removal, Registering, Undoing, Removing, Adding, Active,
           Devices
  <1>4. Wired
    BY DEF Init, Wired, Active, Adding
  <1>5. Intact /\ RaceExplained
    BY DEF Init, Intact, Absent, RaceExplained
  <1>6. QED
    BY <1>1, <1>2, <1>3, <1>4, <1>5 DEF Inv

LEMMA InvStutter == Inv /\ UNCHANGED vars => Inv'
  <1> SUFFICES ASSUME Inv, UNCHANGED vars PROVE Inv'
    OBVIOUS
  <1> USE DEF vars, where, list, radio, phase, walk
  <1>1. \A e : Active(e)' = Active(e)
    BY SameActive
  <1>2. Late' = Late /\ Guilty' = Guilty /\ this' = this
    BY DEF Late, Guilty, this
  <1>3. TypeOK' /\ Walking' /\ Intact' /\ RaceExplained'
    BY DEF Inv, TypeOK, Walking, Intact, RaceExplained, Late
  <1>4. InOrder' /\ Closing' /\ Removal'
    BY <1>1, <1>2 DEF Inv, InOrder, Closing, Removal
  <1>5. Wired'
    BY <1>1, <1>2 DEF Inv, Wired
  <1>6. QED
    BY <1>3, <1>4, <1>5 DEF Inv

LEMMA InvNext == Inv /\ [Next]_vars => Inv'
  <1> SUFFICES ASSUME Inv, [Next]_vars PROVE Inv'
    OBVIOUS
  <1>1. CASE main /\ fault = "none"
    BY <1>1, SetUpInv, NotifyInv, RegisteredInv, DropInv, QuitInv, DisconnectInv,
       TakeDownInv DEF main
  <1>2. CASE interval_log /\ fault = "none"
    BY <1>2, WalkInv
  <1>3. CASE UNCHANGED vars
    BY <1>3, InvStutter
  <1>4. QED
    BY <1>1, <1>2, <1>3 DEF Next

LEMMA Invariance == Spec => []Inv
  BY InvInit, InvNext, PTL DEF Spec

\* The variables keep their types, for any number of devices and
\* characteristics.
THEOREM Typing == Spec => []TypeOK
  BY Invariance, PTL DEF Inv

\* No walk meets freed memory or a callback that is not set, whatever main does
\* meanwhile, unless gattlib refused a notification, failed to disconnect, or
\* left a handler running.
THEOREM Races == Spec => []RaceExplained
  BY Invariance, PTL DEF Inv

-----------------------------------------------------------------------------
(* SampleTaken.  While the sample is wanted, its node lies ahead of the    *)
(* walk: the list has each key once, main appends only keys the walk has   *)
(* never seen, and taking out one node keeps the order of the others.      *)

Distinct ==
    \A i, j \in DOMAIN intervalList : intervalList[i] = intervalList[j] => i = j

\* The links that are or were in the list, as far as the walk knows them.
Seen == (ToSet(intervalList) \cup {here, next}) \ {Null}

\* No link is known of an interval that is yet to be added.
Fresh ==
    /\ pc \in Registering \/ (pc \in Undoing /\ ~torndown) =>
          \A k \in Seen : k[1] <= device
    /\ pc \in Adding => \A k \in Seen : k[1] = device =>
          k[2] < character_id \/ (k[2] = character_id /\ pc # "add")

Before(a, b) ==
    \E i, j \in DOMAIN intervalList :
       i <= j /\ intervalList[i] = a /\ intervalList[j] = b

\* The walk has yet to log a sample of an interval that is there.
Wanted ==
    /\ step # "idle" /\ ~taken
    /\ key \in ToSet(intervalList) /\ node[key].started

Reaches(l) == l # Null /\ (l \in ToSet(intervalList) => Before(l, key))

Ahead ==
    /\ Wanted /\ step = "link" => Reaches(here)
    /\ Wanted /\ step = "match" => here = key \/ Reaches(next)
    /\ step \in {"callback", "call"} => taken

OrderInv == Inv /\ Distinct /\ Fresh /\ Ahead

\* The list without the element at p.
LEMMA RemovedElements ==
    ASSUME NEW S, NEW s \in Seq(S), NEW p \in 1 .. Len(s)
    PROVE  /\ DOMAIN RemoveAt(s, p) = 1 .. Len(s) - 1
           /\ \A i \in 1 .. Len(s) - 1 :
                 RemoveAt(s, p)[i] = IF i < p THEN s[i] ELSE s[i + 1]
  <1> DEFINE a == SubSeq(s, 1, p - 1)
             b == SubSeq(s, p + 1, Len(s))
  <1>1. Len(s) \in Nat /\ p \in Nat
    OBVIOUS
  <1>2. /\ a \in Seq(S) /\ Len(a) = p - 1
        /\ \A i \in 1 .. p - 1 : a[i] = s[i]
    OBVIOUS
  <1>3. /\ b \in Seq(S) /\ Len(b) = Len(s) - p
        /\ \A i \in 1 .. Len(s) - p : b[i] = s[i + p]
    OBVIOUS
  <1> HIDE DEF a, b
  <1>4. /\ DOMAIN (a \o b) = 1 .. Len(a) + Len(b)
        /\ \A i \in 1 .. Len(a) + Len(b) :
              (a \o b)[i] = IF i <= Len(a) THEN a[i] ELSE b[i - Len(a)]
    <2>1. /\ (a \o b) \in Seq(S) /\ Len(a \o b) = Len(a) + Len(b)
          /\ \A i \in 1 .. Len(a) + Len(b) :
                (a \o b)[i] = IF i <= Len(a) THEN a[i] ELSE b[i - Len(a)]
      BY <1>2, <1>3, ConcatProperties, Zenon
    <2>2. DOMAIN (a \o b) = 1 .. Len(a \o b)
      BY <2>1
    <2>3. QED
      BY <2>1, <2>2
  <1>5. Len(a) + Len(b) = Len(s) - 1
    BY <1>1, <1>2, <1>3
  <1>6. ASSUME NEW i \in 1 .. Len(s) - 1
        PROVE  (a \o b)[i] = IF i < p THEN s[i] ELSE s[i + 1]
    <2>1. CASE i < p
      BY <1>1, <1>2, <1>4, <1>5, <2>1
    <2>2. CASE ~(i < p)
      <3>1. i - (p - 1) \in 1 .. Len(s) - p /\ i - (p - 1) + p = i + 1
        BY <1>1, <2>2
      <3>2. b[i - (p - 1)] = s[i + 1]
        BY <1>3, <3>1
      <3>3. QED
        BY <1>1, <1>2, <1>4, <1>5, <2>2, <3>2
    <2>3. QED
      BY <2>1, <2>2
  <1>7. QED
    BY <1>4, <1>5, <1>6 DEF RemoveAt, a, b

\* With each key once in the list, the successor is the next element.
LEMMA SuccessorAt ==
    ASSUME TypeOK, Distinct, NEW i \in DOMAIN intervalList
    PROVE  Successor(intervalList[i]) =
              IF i = Len(intervalList) THEN Null ELSE intervalList[i + 1]
  <1>1. Position(intervalList[i]) \in DOMAIN intervalList
        /\ intervalList[Position(intervalList[i])] = intervalList[i]
    BY DEF Position
  <1>2. Position(intervalList[i]) = i
    BY <1>1 DEF Distinct
  <1>3. QED
    BY <1>2 DEF Successor

\* A walk that is at or before a key finds it there or goes on towards it.
LEMMA StepTowards ==
    ASSUME TypeOK, Distinct, NEW l \in ToSet(intervalList), Before(l, key), l # key
    PROVE  Reaches(Successor(l))
  <1>1. PICK i \in DOMAIN intervalList, j \in DOMAIN intervalList :
           i <= j /\ intervalList[i] = l /\ intervalList[j] = key
    BY DEF Before
  <1>2. DOMAIN intervalList = 1 .. Len(intervalList) /\ Len(intervalList) \in Nat
    BY DEF TypeOK
  <1>3. i < j /\ i + 1 \in DOMAIN intervalList /\ i # Len(intervalList)
    BY <1>1, <1>2
  <1>4. Successor(l) = intervalList[i + 1]
    BY <1>1, <1>3, SuccessorAt
  <1>5. intervalList[i + 1] # Null
    BY <1>3 DEF TypeOK
  <1>6. Before(intervalList[i + 1], key)
    <2>1. i + 1 <= j
      BY <1>2, <1>3
    <2>2. QED
      BY <1>1, <1>3, <2>1 DEF Before
  <1>7. QED
    BY <1>4, <1>5, <1>6 DEF Reaches

LEMMA WalkOrder ==
    ASSUME OrderInv, interval_log, fault = "none"
    PROVE  Distinct' /\ Fresh' /\ Ahead'
  <1> USE DEF where, list, radio, phase
  <1>1. UNCHANGED <<pc, device, character_id, intervalList, node, torndown>>
    BY DEF interval_log
  <1>2. TypeOK /\ Walking /\ Distinct
    BY DEF OrderInv, Inv
  <1>3. Distinct'
    BY <1>1, <1>2 DEF Distinct
  <1>4. {here', next'} \subseteq Seen \cup {Null}
    <2>1. CASE Log
      BY <1>2, <2>1, HeadIn DEF Log, Seen
    <2>2. CASE ReadLink
      BY <1>2, <2>2, SuccessorIn DEF ReadLink, Fault, Seen
    <2>3. CASE Match \/ TestCallback \/ Call \/ Finish
      BY <2>3 DEF Match, TestCallback, Call, Finish, Fault, Advance, Goto, Seen
    <2>4. QED
      BY <2>1, <2>2, <2>3 DEF interval_log
  <1>5. Fresh'
    <2>1. Seen' \subseteq Seen
      BY <1>1, <1>4 DEF Seen
    <2>2. QED
      BY <1>1, <2>1 DEF OrderInv, Fresh
  <1>6. Ahead'
    <2>1. CASE Log
      <3>1. ASSUME key' \in ToSet(intervalList)
            PROVE  here' # Null /\ Before(here, key)'
        <4>1. PICK j \in DOMAIN intervalList : intervalList[j] = key'
          BY <3>1 DEF ToSet
        <4>2. 1 \in DOMAIN intervalList /\ head = intervalList[1] /\ 1 <= j
          BY <1>2, <4>1 DEF TypeOK, head
        <4>3. here' = intervalList[1] /\ intervalList[1] \in Keys
          BY <1>2, <2>1, <4>2 DEF Log, TypeOK
        <4>4. QED
          BY <1>1, <4>1, <4>2, <4>3 DEF Before
      <3>2. step' = "link"
        BY <2>1 DEF Log
      <3>3. QED
        BY <1>1, <3>1, <3>2 DEF Ahead, Wanted, Reaches
    <2>2. CASE ReadLink /\ here \in ToSet(intervalList)
      <3>1. step = "link" /\ step' = "match" /\ next' = Successor(here)
            /\ UNCHANGED <<here, taken, key>>
        BY <2>2 DEF ReadLink
      <3>2. ASSUME Wanted, here # key
            PROVE  Reaches(Successor(here))
        BY <1>2, <2>2, <3>1, <3>2, StepTowards DEF OrderInv, Ahead, Reaches
      <3>3. Wanted' => Wanted
        BY <1>1, <3>1 DEF Wanted
      <3>4. ASSUME Wanted, here # key
            PROVE  Reaches(next)'
        BY <1>1, <3>1, <3>2, <3>4 DEF Reaches, Before
      <3>5. QED
        BY <3>1, <3>3, <3>4 DEF Ahead
    <2>3. CASE UNCHANGED <<step, key, here, next, taken>>
      BY <1>1, <2>3 DEF OrderInv, Ahead, Wanted, Reaches, Before
    <2>4. CASE Match /\ ~Freed /\ (here # key \/ ~node[here].started)
               /\ Advance /\ UNCHANGED taken
      <3>1. step = "match" /\ step' = "link" /\ here' = next
            /\ UNCHANGED <<key, taken>>
        BY <2>4 DEF Match, Reads, Advance
      <3>2. Wanted' => Wanted /\ here # key
        BY <1>1, <2>4, <3>1 DEF Wanted
      <3>3. Wanted' => Reaches(next)
        BY <3>1, <3>2 DEF OrderInv, Ahead
      <3>4. Reaches(next) => Reaches(here)'
        BY <1>1, <3>1 DEF Reaches, Before
      <3>5. QED
        BY <3>1, <3>3, <3>4 DEF Ahead
    <2>5. CASE (Match \/ TestCallback \/ Call) /\ taken' = TRUE
      BY <2>5 DEF Ahead, Wanted
    <2>6. CASE Finish
      BY <2>6 DEF Finish, Ahead, Wanted
    <2>7. CASE ReadLink /\ here \notin ToSet(intervalList)
      BY <2>3, <2>7 DEF ReadLink, Fault
    <2>8. CASE Match
      BY <2>3, <2>4, <2>5, <2>8 DEF Match, Reads, Fault
    <2>9. CASE TestCallback \/ Call
      <3>1. taken
        BY <2>9 DEF OrderInv, Ahead, TestCallback, Call, Reads
      <3>2. taken' = taken
        BY <2>9 DEF TestCallback, Call, Fault
      <3>3. QED
        BY <1>2, <2>5, <2>9, <3>1, <3>2 DEF TypeOK
    <2>10. QED
      BY <2>1, <2>2, <2>6, <2>7, <2>8, <2>9 DEF interval_log
  <1>7. QED
    BY <1>3, <1>5, <1>6

\* Steps of main that leave the list and the order of what was seen.
LEMMA SameOrder ==
    ASSUME OrderInv, UNCHANGED <<intervalList, walk>>,
           step # "idle" =>
              \A k \in Keys : node'[k].started /\ ~node[k].started => k # key
    PROVE  Distinct' /\ Ahead'
  <1> USE DEF walk
  <1>1. Distinct'
    BY DEF OrderInv, Distinct
  <1>2. key \in ToSet(intervalList) => key \in Keys
    BY DEF OrderInv, Inv, TypeOK, ToSet
  <1>3. Wanted' => Wanted
    BY <1>2 DEF Wanted, OrderInv, Inv, TypeOK, Node
  <1>4. \A l \in {here, next} : l' = l => Reaches(l)' = Reaches(l)
    BY DEF Reaches, Before
  <1>5. Reaches(here)' = Reaches(here) /\ Reaches(next)' = Reaches(next)
    BY DEF Reaches, Before
  <1>6. QED
    BY <1>1, <1>3, <1>5 DEF OrderInv, Ahead

\* interval_add appends a key that neither the list nor the walk knows.
LEMMA AddOrder ==
    ASSUME OrderInv, Add, fault = "none"
    PROVE  Distinct' /\ Ahead'
  <1> USE DEF walk
  <1>1. TypeOK /\ this \in Keys /\ pc = "add"
    BY ThisIsKey DEF OrderInv, Inv, Add
  <1>2. this \notin Seen
    BY <1>1 DEF OrderInv, Fresh, Adding, this, TypeOK, Devices
  <1>3. this \notin ToSet(intervalList) /\ this # here /\ this # next
    BY <1>1, <1>2 DEF Seen
  <1>4. /\ DOMAIN intervalList = 1 .. Len(intervalList)
        /\ Len(intervalList) \in Nat
        /\ DOMAIN intervalList' = 1 .. Len(intervalList) + 1
        /\ \A i \in 1 .. Len(intervalList) : intervalList'[i] = intervalList[i]
        /\ intervalList'[Len(intervalList) + 1] = this
    BY <1>1 DEF Add, TypeOK
  <1>5. Distinct'
    <2>1. \A i \in DOMAIN intervalList : intervalList[i] # this
      BY <1>3 DEF ToSet
    <2>2. \A i \in DOMAIN intervalList' :
             i \in DOMAIN intervalList \/ i = Len(intervalList) + 1
      BY <1>4
    <2>3. \A i, j \in DOMAIN intervalList :
             intervalList[i] = intervalList[j] => i = j
      BY DEF OrderInv, Distinct
    <2>4. \A i, j \in DOMAIN intervalList' :
             intervalList'[i] = intervalList'[j] => i = j
      BY <1>4, <2>1, <2>2, <2>3
    <2>5. QED
      BY <2>4 DEF Distinct
  <1>6. ToSet(intervalList') = ToSet(intervalList) \cup {this}
    <2>1. ToSet(intervalList) \subseteq ToSet(intervalList')
      BY <1>4 DEF ToSet
    <2>2. this \in ToSet(intervalList')
      BY <1>4 DEF ToSet
    <2>3. ToSet(intervalList') \subseteq ToSet(intervalList) \cup {this}
      BY <1>4 DEF ToSet
    <2>4. QED
      BY <2>1, <2>2, <2>3
  <1>7. UNCHANGED <<step, key, here, next, taken>>
    BY DEF Add
  <1>8. step # "idle" => key \in Keys \ {this}
    BY <1>1 DEF OrderInv, Inv, Walking, InOrder, Adding, Active, Keys, this, Devices
  <1>9. Wanted' => Wanted
    BY <1>1, <1>6, <1>7, <1>8, WriteOther DEF Add, Wanted
  <1>10. ASSUME NEW l, l # this, Reaches(l)
         PROVE  l # Null /\ (l \in ToSet(intervalList') =>
                   \E i, j \in DOMAIN intervalList' :
                      i <= j /\ intervalList'[i] = l /\ intervalList'[j] = key)
    BY <1>4, <1>6, <1>10 DEF Reaches, Before
  <1>11. (Reaches(here) => Reaches(here)') /\ (Reaches(next) => Reaches(next)')
    BY <1>3, <1>7, <1>10 DEF Reaches, Before
  <1>12. Ahead'
    BY <1>7, <1>9, <1>11 DEF OrderInv, Ahead
  <1>13. QED
    BY <1>5, <1>12

\* Taking one link out keeps the order of the others.
LEMMA UnlinkOrder ==
    ASSUME OrderInv, Unlink, fault = "none"
    PROVE  /\ Distinct' /\ Ahead'
           /\ ToSet(intervalList') \subseteq ToSet(intervalList)
  <1> USE DEF walk
  <1> DEFINE p == Position(this)
             n == Len(intervalList)
  <1>1. TypeOK /\ Distinct /\ this \in ToSet(intervalList)
    BY DEF OrderInv, Inv, Unlink, Removal, Removing
  <1>2. p \in 1 .. n /\ n \in Nat /\ DOMAIN intervalList = 1 .. n
        /\ intervalList \in Seq(Keys)
    BY <1>1, PositionIn DEF TypeOK
  <1>3. intervalList[p] = this
    <2>1. \E i \in DOMAIN intervalList : intervalList[i] = this
      BY <1>1 DEF ToSet
    <2>2. QED
      BY <2>1 DEF Position
  <1>4. /\ DOMAIN intervalList' = 1 .. n - 1
        /\ \A i \in 1 .. n - 1 :
              intervalList'[i] = IF i < p THEN intervalList[i] ELSE intervalList[i + 1]
    BY <1>2, RemovedElements DEF Unlink
  <1> HIDE DEF p, n
  <1>5. Distinct'
    <2>1. \A i, j \in 1 .. n : intervalList[i] = intervalList[j] => i = j
      BY <1>1, <1>2 DEF Distinct
    <2>2. \A i, j \in 1 .. n - 1 : intervalList'[i] = intervalList'[j] => i = j
      BY <1>2, <1>4, <2>1
    <2>3. QED
      BY <1>4, <2>2 DEF Distinct
  <1>6. ToSet(intervalList') \subseteq ToSet(intervalList)
    BY <1>2, <1>4 DEF ToSet
  <1>7. this \notin ToSet(intervalList')
    <2>1. \A i \in 1 .. n : intervalList[i] = this => i = p
      BY <1>1, <1>2, <1>3 DEF Distinct
    <2>2. \A i \in 1 .. n - 1 : intervalList'[i] # this
      BY <1>2, <1>4, <2>1
    <2>3. QED
      BY <1>4, <2>2 DEF ToSet
  <1>8. ASSUME NEW i \in 1 .. n, i # p
        PROVE  \E m \in 1 .. n - 1 : /\ m = IF i < p THEN i ELSE i - 1
                                    /\ intervalList'[m] = intervalList[i]
    <2>1. CASE i < p
      BY <1>2, <1>4, <2>1
    <2>2. CASE ~(i < p)
      <3>1. i - 1 \in 1 .. n - 1 /\ ~(i - 1 < p) /\ i - 1 + 1 = i
        BY <1>2, <1>8, <2>2
      <3>2. QED
        BY <1>4, <2>2, <3>1
    <2>3. QED
      BY <2>1, <2>2
  <1>9. UNCHANGED <<step, key, here, next, taken, node>>
    BY DEF Unlink
  <1>10. Wanted' => Wanted
    BY <1>6, <1>9 DEF Wanted
  <1>11. ASSUME key \in ToSet(intervalList'), NEW l \in ToSet(intervalList'), Before(l, key)
         PROVE  \E i, j \in DOMAIN intervalList' :
                   i <= j /\ intervalList'[i] = l /\ intervalList'[j] = key
    <2>1. PICK i \in 1 .. n, j \in 1 .. n :
             i <= j /\ intervalList[i] = l /\ intervalList[j] = key
      BY <1>2, <1>11 DEF Before
    <2>2. i # p /\ j # p
      BY <1>3, <1>7, <1>11, <2>1
    <2>3. PICK a \in 1 .. n - 1 : /\ a = IF i < p THEN i ELSE i - 1
                                 /\ intervalList'[a] = l
      BY <1>8, <2>1, <2>2
    <2>4. PICK b \in 1 .. n - 1 : /\ b = IF j < p THEN j ELSE j - 1
                                 /\ intervalList'[b] = key
      BY <1>8, <2>1, <2>2
    <2>5. a <= b
      BY <1>2, <2>1, <2>2, <2>3, <2>4
    <2>6. QED
      BY <1>4, <2>3, <2>4, <2>5
  <1>12. key' \in ToSet(intervalList') =>
            /\ Reaches(here) => Reaches(here)'
            /\ Reaches(next) => Reaches(next)'
    BY <1>6, <1>9, <1>11 DEF Reaches, Before
  <1>13. Ahead'
    BY <1>9, <1>10, <1>12 DEF OrderInv, Ahead, Wanted
  <1>14. QED
    BY <1>5, <1>6, <1>13

\* A step of main: the cases are those of MainType.
LEMMA MainOrder ==
    ASSUME OrderInv, main, fault = "none"
    PROVE  Distinct' /\ Ahead' /\ Fresh'
  <1> USE DEF list, radio, phase, walk
  <1>1. Inv /\ TypeOK
    BY DEF OrderInv, Inv
  <1>2. UNCHANGED walk
    BY DEF main, Add, Start, SetCb, SetCallback, SetData, NotifyOn, Registered, Drop,
           Quit, Disconnect, NothingToRemove, Unset, ClearData, ClearCb, Stop, Free,
           Unlink, Store
  <1>3. ASSUME UNCHANGED intervalList PROVE Seen' = Seen
    BY <1>2, <1>3 DEF Seen
  <1>4. CASE Add
    <2>1. pc = "add" /\ pc' = "start" /\ UNCHANGED <<device, character_id, torndown>>
      BY <1>4 DEF Add
    <2>2. ToSet(intervalList') \subseteq ToSet(intervalList) \cup {this}
      BY <1>1, <1>4 DEF Add, ToSet, TypeOK
    <2>3. Seen' \subseteq Seen \cup {this}
      BY <1>2, <2>2 DEF Seen
    <2>4. device <= device
      BY <1>1 DEF TypeOK, Devices
    <2>5. Fresh'
      BY <2>1, <2>3, <2>4
         DEF OrderInv, Fresh, this, Registering, Adding, Undoing, Removing
    <2>6. QED
      BY <1>4, <2>5, AddOrder
  <1>5. CASE Start \/ SetCb \/ SetCallback \/ SetData
    <2>1. /\ pc \in Adding /\ UNCHANGED <<device, intervalList, torndown>>
          /\ \/ pc' \in Adding \ {"add"} /\ pc # "add" /\ character_id' = character_id
             \/ pc' = "add" /\ character_id' = character_id + 1
             \/ pc' = "notify"
      BY <1>5 DEF Start, SetCb, SetCallback, SetData, Store, NextCharacter, Adding
    <2>2. ASSUME step # "idle" PROVE key # this /\ this \in Keys
      <3>1. Active(key[1]) /\ key[1] \in Devices
        BY <1>1, <2>2 DEF Inv, Walking, Active, Keys
      <3>2. key[1] < device
        BY <1>1, <2>1, <3>1 DEF Inv, InOrder
      <3>3. this \in Keys
        BY <1>1, <2>1, ThisIsKey DEF Adding
      <3>4. QED
        BY <1>1, <3>1, <3>2, <3>3 DEF TypeOK, Devices, this
    <2>3. step # "idle" =>
             \A k \in Keys : node'[k].started /\ ~node[k].started => k # key
      <3>1. \A k \in Keys \ {this} : node'[k] = node[k]
        BY <1>1, <1>5, WriteOther DEF Start, SetCb, SetCallback, SetData, Store
      <3>2. QED
        BY <2>2, <3>1
    <2>4. Distinct' /\ Ahead'
      BY <1>2, <2>1, <2>3, SameOrder
    <2>5. Fresh'
      <3>1. Seen' = Seen
        BY <1>3, <2>1
      <3>2. Seen \subseteq Keys
        BY <1>1 DEF TypeOK, Seen, ToSet
      <3>3. \A k \in Seen : k[1] = device => k[2] < character_id + 1
        BY <1>1, <2>1, <3>2 DEF OrderInv, Fresh, Keys, TypeOK, STATUS
      <3>4. \A k \in Seen : k[1] <= device
        BY <2>1 DEF OrderInv, Fresh, Registering
      <3>5. CASE pc' \in Adding \ {"add"} /\ pc # "add" /\ character_id' = character_id
        BY <2>1, <3>1, <3>4, <3>5 DEF OrderInv, Fresh
      <3>6. CASE pc' = "add" /\ character_id' = character_id + 1
        BY <2>1, <3>1, <3>3, <3>4, <3>6 DEF Fresh
      <3>7. CASE pc' = "notify"
        BY <2>1, <3>1, <3>4, <3>7 DEF Fresh, Adding
      <3>8. QED
        BY <2>1, <3>5, <3>6, <3>7
    <2>6. QED
      BY <2>4, <2>5
  <1>6. CASE NotifyOn \/ Registered \/ Drop \/ Quit \/ Disconnect
    <2>1. UNCHANGED <<intervalList, node>>
      BY <1>6 DEF NotifyOn, Registered, Drop, Quit, Disconnect
    <2>2. Distinct' /\ Ahead'
      BY <1>2, <2>1, SameOrder
    <2>3. Seen' = Seen
      BY <1>3, <2>1
    <2>4. \/ pc' \in {"notify", "registered"} /\ pc = "notify"
             /\ UNCHANGED <<device, torndown>>
          \/ pc' = "unset" /\ pc = "registered" /\ UNCHANGED <<device, torndown>>
          \/ pc' = "add" /\ pc \in {"registered", "drop"} /\ device' = device + 1
             /\ UNCHANGED torndown
          \/ pc' \in {"loop", "disconnect"}
          \/ pc' = "unset" /\ torndown'
      BY <1>1, <1>6, NextDeviceStep
         DEF NotifyOn, NextCharacter, Registered, AfterRegister, Drop, Quit, Disconnect
    <2>5. pc = "drop" => ~torndown
      BY <1>1 DEF Inv, Closing
    <2>6. device \in Nat /\ \A k \in Seen : k[1] \in Nat
      BY <1>1 DEF TypeOK, Seen, ToSet, Keys, Devices
    <2>7. pc \in {"notify", "registered", "drop"} => \A k \in Seen : k[1] <= device
      BY <2>5 DEF OrderInv, Fresh, Registering, Undoing
    <2>8. Fresh'
      BY <2>3, <2>4, <2>6, <2>7 DEF Fresh, Registering, Adding, Undoing, Removing
    <2>9. QED
      BY <2>2, <2>8
  <1>7. CASE Unset \/ ClearData \/ ClearCb \/ Stop \/ Free
    <2>1. /\ pc' \in Removing /\ pc \in Undoing
          /\ UNCHANGED <<device, intervalList, torndown>>
      BY <1>7 DEF Unset, ClearData, ClearCb, Stop, Free, Store, Removing, Undoing
    <2>2. \A k \in Keys : node'[k].started => node[k].started
      <3>1. this \in Keys
        BY <1>1, <2>1, ThisIsKey DEF Undoing, Removing
      <3>2. node[this] \in Node
        BY <1>1, <3>1 DEF TypeOK
      <3>3. node'[this].started => node[this].started
        BY <1>1, <1>7, <3>1, <3>2, WriteOther
           DEF Unset, ClearData, ClearCb, Stop, Free, Store, Node
      <3>4. \A k \in Keys \ {this} : node'[k] = node[k]
        BY <1>1, <1>7, WriteOther DEF Unset, ClearData, ClearCb, Stop, Free, Store
      <3>5. QED
        BY <3>3, <3>4
    <2>3. Distinct' /\ Ahead'
      BY <1>2, <2>1, <2>2, SameOrder
    <2>4. Fresh'
      BY <1>3, <2>1 DEF OrderInv, Fresh, Registering, Adding, Undoing, Removing
    <2>5. QED
      BY <2>3, <2>4
  <1>8. CASE NothingToRemove \/ Unlink
    <2>1. Distinct' /\ Ahead' /\ ToSet(intervalList') \subseteq ToSet(intervalList)
      <3>1. CASE Unlink
        BY <3>1, UnlinkOrder
      <3>2. CASE NothingToRemove
        BY <1>2, <3>2, SameOrder DEF NothingToRemove
      <3>3. QED
        BY <1>8, <3>1, <3>2
    <2>2. Seen' \subseteq Seen
      BY <1>2, <2>1 DEF Seen
    <2>3. AfterRemoval /\ pc \in Undoing /\ UNCHANGED torndown
      BY <1>8 DEF NothingToRemove, Unlink, Undoing, Removing
    <2>4. /\ pc' \in {"unset", "drop", "loop", "done"}
          /\ ~torndown => device' = device
      BY <1>1, <2>3, NextDeviceStep DEF AfterRemoval, NextCharacter
    <2>5. Fresh'
      BY <2>2, <2>3, <2>4 DEF OrderInv, Fresh, Registering, Adding, Undoing, Removing
    <2>6. QED
      BY <2>1, <2>5
  <1>9. QED
    BY <1>4, <1>5, <1>6, <1>7, <1>8 DEF main

LEMMA OrderInit == Init => Distinct /\ Fresh /\ Ahead
  <1> SUFFICES ASSUME Init PROVE Distinct /\ Fresh /\ Ahead
    OBVIOUS
  <1>1. DOMAIN intervalList = {} /\ Seen = {}
    BY DEF Init, Seen, ToSet
  <1>2. QED
    BY <1>1 DEF Init, Distinct, Fresh, Ahead, Wanted

LEMMA OrderNext == OrderInv /\ [Next]_vars => OrderInv'
  <1> SUFFICES ASSUME OrderInv, [Next]_vars PROVE OrderInv'
    OBVIOUS
  <1>1. Inv'
    BY InvNext DEF OrderInv
  <1>2. CASE main /\ fault = "none"
    BY <1>1, <1>2, MainOrder DEF OrderInv
  <1>3. CASE interval_log /\ fault = "none"
    BY <1>1, <1>3, WalkOrder DEF OrderInv
  <1>4. CASE UNCHANGED vars
    <2>1. Distinct' /\ Ahead'
      BY <1>4, SameOrder DEF vars, list, walk
    <2>2. Fresh'
      BY <1>4 DEF OrderInv, Fresh, Seen, vars, where, list, phase, walk
    <2>3. QED
      BY <1>1, <2>1, <2>2 DEF OrderInv
  <1>5. QED
    BY <1>2, <1>3, <1>4 DEF Next

\* A walk that comes to its end has logged the sample if the interval is there
\* and started, whatever was added and removed around it.
THEOREM Logged == Spec => SampleTaken
  <1>1. Init => OrderInv
    BY InvInit, OrderInit DEF OrderInv
  <1>2. OrderInv => (Finish /\ key \in ToSet(intervalList) /\ node[key].started => taken)
    BY DEF OrderInv, Ahead, Wanted, Reaches, Finish
  <1>3. QED
    BY <1>1, <1>2, OrderNext, PTL DEF Spec, SampleTaken

=============================================================================
