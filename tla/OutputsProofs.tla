--------------------------- MODULE OutputsProofs ---------------------------
(***************************************************************************)
(* Proofs about Outputs, for any configuration files, any output types of  *)
(* the two kinds, any number of devices and any number of measurements.    *)
(*                                                                         *)
(* The invariant says what the static variables of a shared object can     *)
(* hold, by the devices that have been given that object so far: a FILE    *)
(* or connection is in the hands of its object, or a later device of the   *)
(* same type took its place.                                               *)
(***************************************************************************)
EXTENDS Outputs, ConfigProofs

USE DEF Null

\* Nothing has been set up.
Idle ==
    /\ object = [t \in Types |-> Loaded]
    /\ open = {} /\ pinned = {} /\ unstarted = {}
    /\ sent = <<>> /\ stored = {}

Configuration == Live(deviceConfiguration)

Stages ==
    /\ stage \in {"load", "create", "measure", "destroy", "done"}
    /\ next \in 1 .. deviceConfigurationSize + 1
    /\ stage = "load" => next = 1
    /\ stage = "load" \/ ~Configuration => Idle
    /\ stage \in {"create", "measure"} => Configuration /\ next \in Devices
    /\ stage = "create" => sent = <<>> /\ stored = {}
    /\ stage = "measure" => next = 1
    /\ plugins \subseteq Types
    /\ rows \in [DbFilenames -> Seq(STRING)]
    /\ open \subseteq Devices /\ pinned \subseteq Devices
    /\ unstarted \subseteq Devices
    /\ sent \in Seq([device : Devices, kind : Kinds, ts : Times])

\* Which devices have a plugin.
Assignments ==
    stage # "load" /\ Configuration =>
        /\ plugin \in [Devices -> Types \cup {"null"}]
        /\ \A i \in Devices : plugin[i] # "null" =>
                plugin[i] = typeOf(i) /\ typeOf(i) \in Types
        /\ stage = "create" => \A i \in Devices : plugin[i] # "null" <=> i < next
        /\ stage = "measure" => \A i \in Devices : plugin[i] # "null"
        /\ (stage = "destroy" /\ \E i \in Devices : plugin[i] = "null") =>
              plugins = {} \/ \E i \in Devices : typeOf(i) \notin plugins
        /\ \A i \in open \cup unstarted : plugin[i] # "null"
        /\ stage \in {"create", "measure"} => \A i \in Devices :
              plugin[i] # "null" => object[plugin[i]].started \/ i \in unstarted

User(i, t) == i \in Devices /\ plugin[i] = t

\* The row ids of a shared object are of the device that has it for itself.
OwnRow(i, o) ==
    /\ o.statements = i
    /\ o.device_row_id \in DOMAIN rows[filenameOf(i)]
    /\ rows[filenameOf(i)][o.device_row_id] = Name(i)

ObjectOf(t) ==
    LET o == object[t] IN
        /\ o.handle # Null => User(o.handle, t)
        /\ o.statements # Null => User(o.statements, t) /\ t \in DbTypes
        /\ o.started => \E i \in Devices : User(i, t)
        /\ o.finalized => /\ t \in DbTypes /\ stage = "destroy"
                          /\ \E i \in Devices : i < next /\ User(i, t)
        /\ t \in FileTypes /\ o.started /\ o.handle = Null =>
              \E i \in unstarted, j \in Devices : i # j /\ User(i, t) /\ User(j, t)
        /\ t \in DbTypes /\ o.started /\ o.statements = Null =>
              \E i \in unstarted : User(i, t)
        /\ t \in DbTypes /\ o.handle # Null /\ o.handle \notin open => o.finalized
        /\ t \in DbTypes /\ o.started =>
              \A i \in Devices : User(i, t) /\ i \notin Sharing => OwnRow(i, o)

Objects ==
    /\ object \in [Types -> Static]
    /\ \A t \in Types : ObjectOf(t)

\* What becomes of everything that was opened.
Openings ==
    \A i \in open :
        \/ i \in pinned
        \/ \E j \in Devices : i < j /\ User(j, typeOf(i))
        \/ /\ object[typeOf(i)].handle = i
           /\ typeOf(i) \in FileTypes => object[typeOf(i)].started
           /\ stage \in {"create", "measure", "destroy"}
           /\ stage = "destroy" => next <= i

\* Each measurement that is stored is in a file of the right kind, and where it
\* belongs unless its device shares an object.
StoredWell ==
    \A l \in stored :
        /\ l \in [n : DOMAIN sent, row : Int, filename : STRING]
        /\ l.filename \in DbFilenames <=> typeOf(sent[l.n].device) \in DbTypes
        /\ sent[l.n].device \notin Sharing => InOwnOutput(l)

Explained(n) ==
    LET t == typeOf(sent[n].device) IN
    \/ \E i \in unstarted : typeOf(i) = t
    \/ /\ t \in DbTypes
       /\ \E i, j \in Devices :
             /\ i # j
             /\ typeOf(i) = t /\ typeOf(j) = t
             /\ filenameOf(i) = filenameOf(j)
    \/ /\ t \in DbTypes
       /\ sent[n].kind # "voc"
       /\ \E m \in 1 .. n - 1 :
             /\ sent[m].kind = sent[n].kind
             /\ sent[m].ts = sent[n].ts
             /\ typeOf(sent[m].device) = t

LossesExplained == \A n \in Unstored : Explained(n)

Inv ==
    /\ ConfigInv
    /\ Stages
    /\ Assignments
    /\ Objects
    /\ Openings
    /\ StoredWell
    /\ LossesExplained
    /\ FaultsExplained

-----------------------------------------------------------------------------

\* The output of a device: strings, and a database exactly if its type is one.
LEMMA DeviceFacts ==
    ASSUME ConfigInv
    PROVE  /\ deviceConfigurationSize \in Nat
           /\ Configuration => \A i \in Devices :
                 /\ typeOf(i) \in STRING
                 /\ filenameOf(i) \in STRING
                 /\ Name(i) \in STRING
                 /\ typeOf(i) \in DbTypes <=> filenameOf(i) \in DbFilenames
  <1>1. deviceConfigurationSize \in Nat
    BY DEF ConfigInv, ConfigTypeOK
  <1>2. SUFFICES ASSUME Configuration, NEW i \in Devices
                 PROVE  /\ typeOf(i) \in STRING
                        /\ filenameOf(i) \in STRING
                        /\ Name(i) \in STRING
                        /\ typeOf(i) \in DbTypes <=> filenameOf(i) \in DbFilenames
    BY <1>1
  <1>3. /\ file \in Files /\ Accepted(file) /\ Matched(file)
        /\ blocks[deviceConfiguration].devices = Configured(file)
        /\ deviceConfigurationSize = Len(file.devices)
    BY <1>2 DEF ConfigInv, CurrentIsFile, Configuration
  <1>4. i \in DOMAIN file.devices
    BY <1>2, <1>3, FileType DEF Devices
  <1>5. Configured(file)[i] \in Device
    BY <1>3, <1>4, FileType, ConfiguredType
  <1>6. PICK j \in DOMAIN file.outputs : OutputOf(file, i) = file.outputs[j]
    BY <1>3, <1>4, OutputOfIsOutput DEF OutputsFor
  <1>7. file.outputs[j].type \in DbTypes <=> file.outputs[j].filename \in DbFilenames
    BY <1>3, OutputsAssumption
  <1>8. device(i) = Configured(file)[i]
    BY <1>3 DEF device
  <1>9. typeOf(i) = file.outputs[j].type /\ filenameOf(i) = file.outputs[j].filename
    BY <1>4, <1>6, <1>8 DEF typeOf, filenameOf, Configured
  <1>10. QED
    BY <1>5, <1>7, <1>8, <1>9 DEF Device, typeOf, filenameOf, Name

LEMMA ConfigInvUnchanged ==
    ASSUME ConfigInv, UNCHANGED <<blocks, deviceConfiguration,
                      deviceConfigurationSize, connectableDevices, file, loads>>
    PROVE  ConfigInv'
  BY DEF ConfigInv, ConfigTypeOK, CurrentIsFile, Live, IdsCount, ConnectableLive,
         ConnectableOnce

\* While nothing is set up, there is nothing to be said of it.
LEMMA LoadedStatic == Loaded \in Static
  BY DEF Loaded, Static

LEMMA IdleObjects == Idle => Objects
  BY LoadedStatic DEF Idle, Objects, ObjectOf, Loaded

LEMMA IdleRest == Idle => Openings /\ StoredWell /\ LossesExplained
  <1> SUFFICES ASSUME Idle PROVE Openings /\ StoredWell /\ LossesExplained
    OBVIOUS
  <1>1. Unstored = {}
    BY DEF Idle, Unstored
  <1>2. QED
    BY <1>1 DEF Idle, Openings, StoredWell, LossesExplained

LEMMA InvInit == Init => Inv
  <1> SUFFICES ASSUME Init PROVE Inv
    OBVIOUS
  <1>1. ConfigInv
    BY ConfigInvInit DEF Init
  <1>2. Idle
    BY DEF Init, Idle
  <1>3. deviceConfigurationSize = 0 /\ ~Configuration /\ fault = "none"
    BY DEF Init, ConfigInit, Configuration, Live
  <1>4. sent \in Seq([device : Devices, kind : Kinds, ts : Times])
    BY DEF Init
  <1>5. rows \in [DbFilenames -> Seq(STRING)]
    BY OutputsAssumption DEF Init
  <1>6. Stages
    BY <1>2, <1>3, <1>4, <1>5 DEF Init, Stages
  <1>7. Assignments
    BY <1>3 DEF Assignments
  <1>8. FaultsExplained
    BY <1>3 DEF FaultsExplained
  <1>9. QED
    BY <1>1, <1>2, <1>6, <1>7, <1>8, IdleObjects, IdleRest DEF Inv

\* Everything that is set up is unchanged while the configuration is loaded.
LEMMA InvLoad ==
    ASSUME Inv, Load
    PROVE  Inv'
  <1>1. ConfigInv'
    BY ConfigInvNext DEF Inv, Load
  <1>2. Idle /\ stage = "load" /\ next = 1 /\ UNCHANGED outputVars
    BY DEF Inv, Stages, Load
  <1>3. Idle'
    BY <1>2 DEF Idle, outputVars, Types
  <1>4. Objects' /\ Openings' /\ StoredWell' /\ LossesExplained'
    <2>1. Objects'
      BY <1>3, LoadedStatic DEF Idle, Objects, ObjectOf, Loaded, Static, Types
    <2>2. Unstored' = {}
      BY <1>3 DEF Idle, Unstored
    <2>3. QED
      BY <1>3, <2>1, <2>2 DEF Idle, Openings, StoredWell, LossesExplained
  <1>5. deviceConfigurationSize' \in Nat
    BY <1>1 DEF ConfigInv, ConfigTypeOK
  <1>6. Stages'
    <2>1. sent' \in Seq([device : Devices', kind : Kinds, ts : Times])
      BY <1>3 DEF Idle
    <2>2. /\ stage' = "load" /\ next' = 1
          /\ open' = {} /\ pinned' = {} /\ unstarted' = {}
      BY <1>2, <1>3 DEF Idle, outputVars
    <2>4. 1 \in 1 .. deviceConfigurationSize' + 1
      <3>1. \A n \in Nat : 1 \in 1 .. n + 1
        OBVIOUS
      <3>2. QED
        BY <1>5, <3>1
    <2>3. plugins' \subseteq Types /\ rows' \in [DbFilenames -> Seq(STRING)]
      BY <1>2 DEF Inv, Stages, outputVars
    <2>5. QED
      BY <1>3, <2>1, <2>2, <2>3, <2>4 DEF Stages, Types, Kinds
  <1>7. Assignments'
    BY <1>2 DEF Assignments, outputVars
  <1>8. FaultsExplained'
    <2>1. PICK f \in Files : AddDevices(f)
      BY DEF Load, ConfigNext
    <2>2. fault = "none" /\ loads' = loads + 1 /\ loads \in Nat
          /\ Len(blocks) <= loads /\ Len(blocks) \in Nat
          /\ deviceConfiguration \in 0 .. Len(blocks)
      BY <2>1, ConfigAssumption DEF AddDevices, Inv, ConfigInv, ConfigTypeOK
    <2>3. fault' = "none" \/ (fault' = "double free" /\ deviceConfiguration # Null)
      BY <2>1, <2>2 DEF AddDevices, LoadRejected, LoadUnmatched, LoadComplete
    <2>4. fault' = "double free" => loads' > 1
      <3>1. deviceConfiguration # 0 => loads + 1 > 1
        BY <2>2
      <3>2. QED
        BY <2>2, <2>3, <3>1
    <2>5. QED
      BY <2>3, <2>4 DEF FaultsExplained
  <1>9. QED
    BY <1>1, <1>4, <1>6, <1>7, <1>8 DEF Inv

LEMMA InvGiveUp ==
    ASSUME Inv, GiveUp
    PROVE  Inv'
  <1>1. ConfigInv'
    BY ConfigInvUnchanged DEF Inv, GiveUp, configVars
  <1>2. Idle /\ ~Configuration /\ next = 1
    BY DEF Inv, Stages, GiveUp, Configuration
  <1>3. Idle' /\ ~Configuration'
    BY <1>2 DEF Idle, GiveUp, Types, Configuration, Live, configVars
  <1>4. Objects' /\ Openings' /\ StoredWell' /\ LossesExplained'
    <2>1. Objects'
      BY <1>3, LoadedStatic DEF Idle, Objects, ObjectOf, Loaded, Static, Types
    <2>2. Unstored' = {}
      BY <1>3 DEF Idle, Unstored
    <2>3. QED
      BY <1>3, <2>1, <2>2 DEF Idle, Openings, StoredWell, LossesExplained
  <1>5. Stages'
    BY <1>2, <1>3 DEF Inv, Stages, GiveUp, configVars, Devices, Types, Kinds
  <1>6. Assignments'
    BY <1>3 DEF Assignments
  <1>7. FaultsExplained'
    BY DEF FaultsExplained, GiveUp, configVars
  <1>8. QED
    BY <1>1, <1>4, <1>5, <1>6, <1>7 DEF Inv

\* The devices and their outputs, in a step that loads nothing.
LEMMA SameDevices ==
    ASSUME UNCHANGED <<blocks, deviceConfiguration, deviceConfigurationSize>>
    PROVE  /\ Devices' = Devices
           /\ Configuration' = Configuration
           /\ Sharing' = Sharing
  BY DEF Devices, Configuration, Live, Sharing, typeOf, device

LEMMA SettledKept ==
    ASSUME StoredWell, LossesExplained,
           UNCHANGED <<blocks, deviceConfiguration, deviceConfigurationSize,
                       rows, sent, stored, unstarted>>
    PROVE  StoredWell' /\ LossesExplained'
  <1>1. Devices' = Devices /\ Sharing' = Sharing
    BY SameDevices
  <1>2. StoredWell'
    BY <1>1 DEF StoredWell, InOwnOutput, Name, filenameOf, typeOf, device
  <1>3. LossesExplained'
    BY <1>1 DEF LossesExplained, Unstored, Explained, typeOf, filenameOf, device
  <1>4. QED
    BY <1>2, <1>3

LEMMA InvFindPlugins ==
    ASSUME Inv, NEW found \in SUBSET Types, NEW lacking \in BOOLEAN,
           FindPlugins(found, lacking)
    PROVE  Inv'
  <1>1. /\ UNCHANGED <<blocks, deviceConfiguration, deviceConfigurationSize,
                       connectableDevices, file, loads>>
        /\ UNCHANGED <<next, object, open, pinned, rows, sent, stored, unstarted>>
        /\ stage = "load" /\ fault = "none" /\ Configuration
        /\ plugins' = IF deviceConfigurationSize > 0 THEN found ELSE {}
        /\ plugin' = [i \in Devices |-> "null"]
        /\ stage' = IF plugins' = {} THEN "destroy" ELSE "create"
    BY DEF FindPlugins, Configuration
  <1>2. ConfigInv'
    BY <1>1, ConfigInvUnchanged DEF Inv
  <1>3. Idle /\ next = 1 /\ deviceConfigurationSize \in Nat
    BY <1>1, DeviceFacts DEF Inv, Stages
  <1>4. Idle'
    BY <1>1, <1>3 DEF Idle, Types
  <1>5. Objects' /\ Openings' /\ StoredWell' /\ LossesExplained'
    <2>1. Objects'
      BY <1>4, LoadedStatic DEF Idle, Objects, ObjectOf, Loaded, Static, Types
    <2>2. Unstored' = {}
      BY <1>4 DEF Idle, Unstored
    <2>3. QED
      BY <1>4, <2>1, <2>2 DEF Idle, Openings, StoredWell, LossesExplained
  <1>6. Stages'
    <2>1. stage' = "create" => deviceConfigurationSize > 0
      BY <1>1
    <2>2. stage' = "create" => next' \in Devices'
      BY <1>1, <1>3, <2>1 DEF Devices
    <2>3. Configuration' = Configuration /\ Devices' = Devices
      BY <1>1, SameDevices
    <2>4. plugins' \subseteq Types
      BY <1>1
    <2>5. stage' \in {"create", "destroy"}
      BY <1>1
    <2>6. sent' \in Seq([device : Devices', kind : Kinds, ts : Times])
      BY <1>1, <2>3 DEF Inv, Stages
    <2>7. QED
      BY <1>1, <1>3, <1>4, <2>2, <2>3, <2>4, <2>5, <2>6
         DEF Inv, Stages, Idle, Types, Kinds
  <1>7. Assignments'
    <2>1. Devices' = Devices
      BY <1>1, SameDevices
    <2>2. \A i \in Devices : plugin'[i] = "null" /\ i >= 1
      BY <1>1 DEF Devices
    <2>3. stage' = "destroy" => plugins' = {}
      BY <1>1
    <2>4. stage' # "measure" /\ next' = 1 /\ open' = {} /\ unstarted' = {}
      BY <1>1, <1>3, <1>4 DEF Idle
    <2>5. \A i \in Devices : ~(i < next')
      BY <1>3, <2>4 DEF Devices
    <2>6. (plugin \in [Devices -> Types \cup {"null"}])'
      BY <1>1, <2>1 DEF Types
    <2>7. QED
      BY <2>1, <2>2, <2>3, <2>4, <2>5, <2>6 DEF Assignments
  <1>8. FaultsExplained'
    BY DEF FaultsExplained, FindPlugins
  <1>9. QED
    BY <1>2, <1>5, <1>6, <1>7, <1>8 DEF Inv

LEMMA InvPluginMissing ==
    ASSUME Inv, PluginMissing
    PROVE  Inv'
  <1>1. /\ UNCHANGED <<blocks, deviceConfiguration, deviceConfigurationSize,
                       connectableDevices, file, loads, fault>>
        /\ UNCHANGED <<plugins, plugin, object, open, pinned, rows, sent, stored,
                       unstarted>>
        /\ stage = "create" /\ fault = "none" /\ ~HasPlugin(next)
        /\ next' = 1 /\ stage' = "destroy"
    BY DEF PluginMissing, configVars
  <1>2. ConfigInv'
    BY <1>1, ConfigInvUnchanged DEF Inv
  <1>3. /\ Devices' = Devices /\ Configuration' = Configuration
        /\ Sharing' = Sharing
        /\ Configuration /\ next \in Devices /\ deviceConfigurationSize \in Nat
    BY <1>1, SameDevices, DeviceFacts DEF Inv, Stages
  <1>4. Stages'
    BY <1>1, <1>3 DEF Inv, Stages, Idle, Types, Kinds
  <1>5. Assignments'
    <2>1. \E i \in Devices : typeOf(i) \notin plugins
      BY <1>1, <1>3 DEF HasPlugin
    <2>2. QED
      BY <1>1, <1>3, <2>1 DEF Inv, Assignments, typeOf, device, Types
  <1>6. Objects'
    BY <1>1, <1>3 DEF Inv, Objects, ObjectOf, User, Types, OwnRow, Name, filenameOf, device,
                      Static
  <1>7. Openings'
    <2>1. \A i \in open : 1 <= i
      BY DEF Inv, Stages, Devices
    <2>2. \A i \in open :
             \/ i \in pinned
             \/ \E j \in Devices : i < j /\ User(j, typeOf(i))
             \/ /\ object[typeOf(i)].handle = i
                /\ typeOf(i) \in FileTypes => object[typeOf(i)].started
      BY DEF Inv, Openings
    <2>3. QED
      BY <1>1, <1>3, <2>1, <2>2 DEF Openings, User, typeOf, device
  <1>8. StoredWell' /\ LossesExplained'
    BY <1>1 DEF Inv, Stages, StoredWell, LossesExplained, Unstored
  <1>9. FaultsExplained'
    BY <1>1 DEF FaultsExplained
  <1>10. QED
    BY <1>2, <1>4, <1>5, <1>6, <1>7, <1>8, <1>9 DEF Inv

LEMMA InvEnd ==
    ASSUME Inv, End
    PROVE  Inv'
  <1>1. /\ UNCHANGED <<blocks, deviceConfiguration, deviceConfigurationSize,
                       connectableDevices, file, loads, fault>>
        /\ UNCHANGED <<next, plugins, plugin, object, open, pinned, rows, sent,
                       stored, unstarted>>
        /\ stage = "measure" /\ fault = "none" /\ stage' = "destroy"
    BY DEF End, configVars
  <1>2. ConfigInv'
    BY <1>1, ConfigInvUnchanged DEF Inv
  <1>3. /\ Devices' = Devices /\ Configuration' = Configuration
        /\ Sharing' = Sharing /\ Configuration /\ next = 1
    BY <1>1, SameDevices DEF Inv, Stages
  <1>4. Stages'
    BY <1>1, <1>3 DEF Inv, Stages, Idle, Types, Kinds
  <1>5. Assignments'
    BY <1>1, <1>3 DEF Inv, Assignments, typeOf, device, Types
  <1>6. Objects'
    BY <1>1, <1>3 DEF Inv, Objects, ObjectOf, User, Types, OwnRow, Name, filenameOf, device,
                      Static
  <1>7. Openings'
    <2>1. \A i \in open : 1 <= i
      BY DEF Inv, Stages, Devices
    <2>2. \A i \in open :
             \/ i \in pinned
             \/ \E j \in Devices : i < j /\ User(j, typeOf(i))
             \/ /\ object[typeOf(i)].handle = i
                /\ typeOf(i) \in FileTypes => object[typeOf(i)].started
      BY DEF Inv, Openings
    <2>3. QED
      BY <1>1, <1>3, <2>1, <2>2 DEF Openings, User, typeOf, device
  <1>8. StoredWell'
    BY <1>1, SettledKept DEF Inv
  <1>9. LossesExplained'
    BY <1>1, SettledKept DEF Inv
  <1>10. FaultsExplained'
    BY <1>1 DEF FaultsExplained
  <1>11. QED
    BY <1>2, <1>4, <1>5, <1>6, <1>7, <1>8, <1>9, <1>10 DEF Inv

LEMMA InvUnloadPlugins ==
    ASSUME Inv, UnloadPlugins
    PROVE  Inv'
  <1>1. /\ UNCHANGED <<blocks, deviceConfiguration, deviceConfigurationSize,
                       connectableDevices, file, loads, fault>>
        /\ UNCHANGED <<next, plugin, open, pinned, rows, sent, stored, unstarted>>
        /\ stage = "destroy" /\ fault = "none" /\ next > deviceConfigurationSize
        /\ plugins' = {} /\ stage' = "done"
        /\ object' = [t \in Types |-> Loaded]
    BY DEF UnloadPlugins, configVars
  <1>2. ConfigInv'
    BY <1>1, ConfigInvUnchanged DEF Inv
  <1>3. /\ Devices' = Devices /\ Configuration' = Configuration
        /\ Sharing' = Sharing /\ deviceConfigurationSize \in Nat
    BY <1>1, SameDevices, DeviceFacts DEF Inv
  <1>4. Stages'
    BY <1>1, <1>3 DEF Inv, Stages, Idle, Types, Kinds
  <1>5. Assignments'
    BY <1>1, <1>3 DEF Inv, Assignments, typeOf, device, Types
  <1>6. Objects'
    BY <1>1, LoadedStatic DEF Objects, ObjectOf, Loaded, Static, Types
  <1>7. Openings'
    <2>1. \A i \in open : ~(next <= i)
      BY <1>1, <1>3 DEF Inv, Stages, Devices
    <2>2. QED
      BY <1>1, <1>3, <2>1 DEF Inv, Openings, User, typeOf, device
  <1>8. StoredWell'
    BY <1>1, SettledKept DEF Inv
  <1>9. LossesExplained'
    BY <1>1, SettledKept DEF Inv
  <1>10. FaultsExplained'
    BY <1>1 DEF FaultsExplained
  <1>11. QED
    BY <1>2, <1>4, <1>5, <1>6, <1>7, <1>8, <1>9, <1>10 DEF Inv

-----------------------------------------------------------------------------
(* A measurement.                                                          *)

\* What an output does with a measurement: nothing but a line, and that line in
\* its own file, or no line and a reason.
LEMMA MeasureOutcome ==
    ASSUME Inv, NEW i \in Devices, NEW kind \in Kinds, NEW ts \in Times,
           Measure(i, kind, ts),
           NEW n, n = Len(sent) + 1
    PROVE  /\ \/ stored' = stored /\ Explained(n)'
              \/ \E l \in [n : {n}, row : Int, filename : STRING] :
                    /\ stored' = stored \cup {l}
                    /\ l.filename \in DbFilenames <=> typeOf(i) \in DbTypes
                    /\ i \notin Sharing =>
                          /\ l.filename = filenameOf(i)
                          /\ typeOf(i) \in DbTypes =>
                                /\ l.row \in DOMAIN rows[l.filename]
                                /\ rows[l.filename][l.row] = Name(i)
           /\ FaultsExplained'
  <1> DEFINE m == [device |-> i, kind |-> kind, ts |-> ts]
             t == typeOf(i)
             o == object[t]
  <1>1. /\ Configuration /\ stage = "measure" /\ fault = "none"
        /\ plugin[i] = t /\ t \in Types
        /\ o.started \/ i \in unstarted
        /\ sent \in Seq([device : Devices, kind : Kinds, ts : Times])
        /\ \A j \in Devices : plugin[j] = typeOf(j)
        /\ unstarted \subseteq Devices /\ open \subseteq Devices
    BY DEF Measure, Inv, Stages, Assignments
  <1>2. /\ o \in Static
        /\ o.handle # 0 => User(o.handle, t)
        /\ o.statements # 0 => User(o.statements, t) /\ t \in DbTypes
        /\ t \in FileTypes /\ o.started /\ o.handle = 0 =>
              \E k \in unstarted, j \in Devices : k # j /\ User(k, t) /\ User(j, t)
        /\ t \in DbTypes /\ o.started /\ o.statements = 0 =>
              \E k \in unstarted : User(k, t)
        /\ t \in DbTypes /\ o.started =>
              \A k \in Devices : User(k, t) /\ k \notin Sharing => OwnRow(k, o)
    BY <1>1 DEF Inv, Objects, ObjectOf
  <1>3. sent' = Append(sent, m)
    BY DEF Measure
  <1>4. /\ sent'[n] = m /\ n \in Nat
        /\ \A k \in 1 .. Len(sent) : sent'[k] = sent[k]
    <2>1. Len(sent) \in Nat
      BY <1>1
    <2>2. m \in [device : Devices, kind : Kinds, ts : Times]
      OBVIOUS
    <2>3. QED
      BY <1>1, <1>3, <2>1, <2>2
  <1>5. UNCHANGED <<blocks, deviceConfiguration, deviceConfigurationSize, open,
                    unstarted, rows>>
    BY DEF Measure
  <1>6. \A k \in Devices : User(k, t) <=> typeOf(k) = t
    BY <1>1 DEF User
  <1>7. /\ \/ ~o.started /\ UNCHANGED <<stored, fault>>
           \/ o.started /\ t \in FileTypes /\ WriteFile(o)
           \/ o.started /\ t \in DbTypes /\ WriteDb(o, m)
    BY <1>1 DEF Measure, Takes
  <1> HIDE DEF t
  \* Reasons.
  <1>8. ASSUME NEW k \in unstarted, typeOf(k) = t
        PROVE  Explained(n)'
    BY <1>4, <1>5, <1>8 DEF Explained, typeOf, device, t
  <1>9. ASSUME NEW k \in Devices, NEW j \in Devices, k # j, t \in DbTypes,
               typeOf(k) = t, typeOf(j) = t, filenameOf(k) = filenameOf(j)
        PROVE  Explained(n)'
    BY <1>4, <1>5, <1>9 DEF Explained, typeOf, filenameOf, device, t, Devices
  <1>10. ASSUME NEW k \in 1 .. Len(sent), t \in DbTypes, kind # "voc",
                sent[k].kind = kind, sent[k].ts = ts, typeOf(sent[k].device) = t
         PROVE  Explained(n)'
    <2>1. k \in 1 .. n - 1
      BY <1>1, <1>10
    <2>2. QED
      BY <1>4, <1>5, <1>10, <2>1 DEF Explained, typeOf, device, t
  \* What the object does.
  <1>11. CASE ~o.started /\ UNCHANGED <<stored, fault>>
    <2>1. i \in unstarted
      BY <1>1, <1>11
    <2>2. FaultsExplained'
      BY <1>1, <1>11 DEF FaultsExplained
    <2>3. QED
      BY <1>8, <1>11, <2>1, <2>2 DEF t
  <1>12. CASE o.started /\ t \in FileTypes /\ WriteFile(o)
    <2>1. CASE o.handle = 0
      <3>1. fault' = "null stream" /\ stored' = stored
        BY <1>12, <2>1 DEF WriteFile
      <3>2. PICK k \in unstarted, j \in Devices : k # j /\ User(k, t) /\ User(j, t)
        BY <1>2, <1>12, <2>1
      <3>3. k \in Devices /\ typeOf(k) = t /\ typeOf(j) = t
        BY <1>1, <1>6, <3>2
      <3>4. k \in Sharing
        BY <3>2, <3>3 DEF Sharing
      <3>5. k \in unstarted' /\ k \in Sharing' /\ (typeOf(k) \in FileTypes)'
        BY <1>5, <1>12, <3>2, <3>3, <3>4 DEF Sharing, Devices, typeOf, device
      <3>6. FaultsExplained'
        BY <3>1, <3>5 DEF FaultsExplained
      <3>7. QED
        BY <1>8, <3>1, <3>2, <3>3, <3>6
    <2>2. CASE o.handle # 0
      <3> DEFINE l == [n |-> n, row |-> 0, filename |-> filenameOf(o.handle)]
      <3>1. fault' = fault /\ stored' = stored \cup {l}
        BY <1>12, <2>2 DEF WriteFile
      <3>2. o.handle \in Devices /\ typeOf(o.handle) = t
        BY <1>2, <1>6, <2>2 DEF User
      <3>3. t \notin DbTypes
        BY <1>12, OutputsAssumption
      <3>4. /\ filenameOf(o.handle) \in STRING
            /\ filenameOf(o.handle) \notin DbFilenames
        BY <1>1, <3>2, <3>3, DeviceFacts DEF Inv
      <3>5. i \notin Sharing => o.handle = i
        BY <3>2 DEF Sharing, t
      <3>6. FaultsExplained'
        BY <1>1, <3>1 DEF FaultsExplained
      <3>7. l \in [n : {n}, row : Int, filename : STRING]
        BY <3>4
      <3>8. QED
        BY <3>1, <3>3, <3>4, <3>5, <3>6, <3>7 DEF t
    <2>3. QED
      BY <2>1, <2>2
  <1>13. CASE o.started /\ t \in DbTypes /\ WriteDb(o, m)
    <2>1. FaultsExplained'
      BY <1>1, <1>13 DEF FaultsExplained, WriteDb
    <2>2. CASE o.statements = 0
      <3>1. stored' = stored
        BY <1>13, <2>2 DEF WriteDb
      <3>2. PICK k \in unstarted : User(k, t)
        BY <1>2, <1>13, <2>2
      <3>3. QED
        BY <1>1, <1>6, <1>8, <2>1, <3>1, <3>2
    <2> DEFINE l == Line(o)
    <2>3. CASE o.statements # 0
      <3>1. o.statements \in Devices /\ typeOf(o.statements) = t
        BY <1>2, <1>6, <2>3 DEF User
      <3>2. /\ l = [n |-> n, row |-> o.device_row_id,
                    filename |-> filenameOf(o.statements)]
            /\ o.device_row_id \in Int
        BY <1>2 DEF Line, Static
      <3>3. /\ filenameOf(o.statements) \in STRING
            /\ filenameOf(o.statements) \in DbFilenames
        BY <1>1, <1>13, <3>1, DeviceFacts DEF Inv
      <3>4. CASE stored' = stored \cup {l}
        <4>1. l \in [n : {n}, row : Int, filename : STRING]
          BY <3>2, <3>3
        <4>2. i \notin Sharing => OwnRow(i, o)
          BY <1>2, <1>6, <1>13 DEF t
        <4>3. QED
          BY <1>13, <2>1, <3>2, <3>3, <3>4, <4>1, <4>2 DEF OwnRow, t
      <3>5. CASE stored' = stored /\ Refuses(l, m)
        <4>1. PICK s \in stored :
                 /\ s.filename = l.filename
                 /\ sent[s.n].kind = kind
                 /\ sent[s.n].ts = ts
                 /\ kind = "humidity" \/ kind = "temperature"
          BY <3>5 DEF Refuses
        <4>2. /\ s.n \in 1 .. Len(sent)
              /\ typeOf(sent[s.n].device) \in DbTypes
          BY <1>1, <3>2, <3>3, <4>1 DEF Inv, StoredWell
        <4>3. typeOf(sent[s.n].device) = t
          BY <1>13, <4>2, OutputsAssumption
        <4>4. Explained(n)'
          BY <1>10, <1>13, <4>1, <4>2, <4>3
        <4>5. QED
          BY <2>1, <3>5, <4>4
      <3>6. CASE stored' = stored /\ Contended(o.statements)
        <4>1. PICK j \in open \ {o.statements} :
                 typeOf(j) \in DbTypes /\ filenameOf(j) = filenameOf(o.statements)
          BY <3>6 DEF Contended
        <4>2. j \in Devices /\ typeOf(j) = t
          BY <1>1, <1>13, <4>1, OutputsAssumption
        <4>3. Explained(n)'
          BY <1>9, <1>13, <3>1, <4>1, <4>2
        <4>4. QED
          BY <2>1, <3>6, <4>3
      <3>7. QED
        BY <1>13, <2>3, <3>4, <3>5, <3>6 DEF WriteDb
    <2>4. QED
      BY <2>2, <2>3
  <1>14. QED
    BY <1>7, <1>11, <1>12, <1>13

LEMMA InvMeasure ==
    ASSUME Inv, NEW i \in Devices, NEW kind \in Kinds, NEW ts \in Times,
           Measure(i, kind, ts)
    PROVE  Inv'
  <1> DEFINE m == [device |-> i, kind |-> kind, ts |-> ts]
  <1>1. /\ UNCHANGED <<blocks, deviceConfiguration, deviceConfigurationSize,
                       connectableDevices, file, loads>>
        /\ UNCHANGED <<stage, next, plugins, plugin, object, open, pinned, rows,
                       unstarted, incomplete>>
        /\ stage = "measure" /\ Configuration
        /\ sent' = Append(sent, m)
        /\ sent \in Seq([device : Devices, kind : Kinds, ts : Times])
    BY DEF Measure, Inv, Stages
  <1>2. ConfigInv'
    BY <1>1, ConfigInvUnchanged DEF Inv
  <1>3. /\ Devices' = Devices /\ Configuration' = Configuration
        /\ Sharing' = Sharing
    BY <1>1, SameDevices
  <1>4. PICK n \in Nat : n = Len(sent) + 1 /\ n \in 1 .. n
    <2>1. Len(sent) + 1 \in Nat /\ Len(sent) + 1 >= 1
      BY <1>1
    <2>2. QED
      BY <2>1
  <1>5. /\ sent' \in Seq([device : Devices, kind : Kinds, ts : Times])
        /\ DOMAIN sent = 1 .. n - 1 /\ DOMAIN sent' = 1 .. n
        /\ sent'[n] = m /\ \A k \in 1 .. n - 1 : sent'[k] = sent[k]
    <2>1. m \in [device : Devices, kind : Kinds, ts : Times]
      OBVIOUS
    <2>2. QED
      BY <1>1, <1>4, <2>1
  <1>6. Stages'
    BY <1>1, <1>3, <1>5 DEF Inv, Stages, Types, Kinds
  <1>7. Assignments'
    BY <1>1, <1>3 DEF Inv, Assignments, typeOf, device, Types
  <1>8. Objects'
    BY <1>1, <1>3 DEF Inv, Objects, ObjectOf, User, Types, OwnRow, Name, filenameOf, device,
                      Static
  <1>9. Openings'
    BY <1>1, <1>3 DEF Inv, Openings, User, typeOf, device
  <1>10. /\ \/ stored' = stored /\ Explained(n)'
            \/ \E l \in [n : {n}, row : Int, filename : STRING] :
                  /\ stored' = stored \cup {l}
                  /\ l.filename \in DbFilenames <=> typeOf(i) \in DbTypes
                  /\ i \notin Sharing =>
                        /\ l.filename = filenameOf(i)
                        /\ typeOf(i) \in DbTypes =>
                              /\ l.row \in DOMAIN rows[l.filename]
                              /\ rows[l.filename][l.row] = Name(i)
         /\ FaultsExplained'
    BY <1>4, MeasureOutcome
  \* What was stored before stays as it was.
  <1>11. ASSUME NEW l \in stored
         PROVE  /\ l.n \in 1 .. n - 1 /\ l.n \in 1 .. n
                /\ l \in [n : 1 .. n, row : Int, filename : STRING]
                /\ l.filename \in DbFilenames
                   <=> (typeOf(sent[l.n].device) \in DbTypes)'
                /\ (sent[l.n].device \notin Sharing => InOwnOutput(l))'
    <2>1. /\ l \in [n : 1 .. n - 1, row : Int, filename : STRING]
          /\ l.filename \in DbFilenames <=> typeOf(sent[l.n].device) \in DbTypes
          /\ sent[l.n].device \notin Sharing => InOwnOutput(l)
      BY <1>5 DEF Inv, StoredWell
    <2>2. l.n \in 1 .. n - 1 /\ sent'[l.n] = sent[l.n]
      BY <1>5, <2>1
    <2>3. /\ (typeOf(sent[l.n].device) \in DbTypes)'
             <=> typeOf(sent[l.n].device) \in DbTypes
          /\ InOwnOutput(l)' <=> InOwnOutput(l)
      BY <1>1, <2>2 DEF typeOf, device, InOwnOutput, filenameOf, Name
    <2>4. QED
      BY <1>3, <2>1, <2>2, <2>3
  <1>12. ASSUME NEW k \in 1 .. n - 1, Explained(k)
         PROVE  Explained(k)'
    <2>1. sent'[k] = sent[k] /\ \A j \in 1 .. k - 1 : sent'[j] = sent[j]
      BY <1>5
    <2>2. CASE \E j \in unstarted : typeOf(j) = typeOf(sent[k].device)
      BY <1>1, <2>1, <2>2 DEF Explained, typeOf, device
    <2>3. CASE /\ typeOf(sent[k].device) \in DbTypes
               /\ \E u, v \in Devices :
                     /\ u # v
                     /\ typeOf(u) = typeOf(sent[k].device)
                     /\ typeOf(v) = typeOf(sent[k].device)
                     /\ filenameOf(u) = filenameOf(v)
      <3>1. PICK u \in Devices, v \in Devices :
               /\ u # v
               /\ typeOf(u) = typeOf(sent[k].device)
               /\ typeOf(v) = typeOf(sent[k].device)
               /\ filenameOf(u) = filenameOf(v)
        BY <2>3
      <3>2. u \in Devices' /\ v \in Devices'
        BY <1>3
      <3>3. /\ (typeOf(u) = typeOf(sent[k].device))'
            /\ (typeOf(v) = typeOf(sent[k].device))'
            /\ (filenameOf(u) = filenameOf(v))'
            /\ (typeOf(sent[k].device) \in DbTypes)'
        BY <1>1, <2>1, <2>3, <3>1 DEF typeOf, filenameOf, device
      <3>4. QED
        BY <3>1, <3>2, <3>3 DEF Explained
    <2>4. CASE /\ typeOf(sent[k].device) \in DbTypes
               /\ sent[k].kind # "voc"
               /\ \E j \in 1 .. k - 1 :
                     /\ sent[j].kind = sent[k].kind
                     /\ sent[j].ts = sent[k].ts
                     /\ typeOf(sent[j].device) = typeOf(sent[k].device)
      BY <1>1, <2>1, <2>4 DEF Explained, typeOf, device
    <2>5. QED
      BY <1>12, <2>2, <2>3, <2>4 DEF Explained
  <1>13. CASE stored' = stored /\ Explained(n)'
    <2>1. StoredWell'
      BY <1>5, <1>11, <1>13 DEF StoredWell
    <2>2. LossesExplained'
      BY <1>5, <1>12, <1>13 DEF LossesExplained, Unstored, Inv
    <2>3. QED
      BY <1>2, <1>6, <1>7, <1>8, <1>9, <1>10, <2>1, <2>2 DEF Inv
  <1>14. ASSUME NEW l \in [n : {n}, row : Int, filename : STRING],
                stored' = stored \cup {l},
                l.filename \in DbFilenames <=> typeOf(i) \in DbTypes,
                i \notin Sharing =>
                   /\ l.filename = filenameOf(i)
                   /\ typeOf(i) \in DbTypes =>
                         /\ l.row \in DOMAIN rows[l.filename]
                         /\ rows[l.filename][l.row] = Name(i)
         PROVE  Inv'
    <2>1. l.n = n /\ sent'[l.n] = m /\ sent'[l.n].device = i
          /\ l \in [n : 1 .. n, row : Int, filename : STRING]
      BY <1>4, <1>5, <1>14
    <2>2. /\ l.filename \in DbFilenames
             <=> (typeOf(sent[l.n].device) \in DbTypes)'
          /\ (sent[l.n].device \notin Sharing => InOwnOutput(l))'
      BY <1>1, <1>3, <1>14, <2>1 DEF InOwnOutput, typeOf, filenameOf, Name, device
    <2>3. StoredWell'
      BY <1>5, <1>11, <1>14, <2>1, <2>2 DEF StoredWell
    <2>4. LossesExplained'
      BY <1>5, <1>12, <1>14, <2>1 DEF LossesExplained, Unstored, Inv
    <2>5. QED
      BY <1>2, <1>6, <1>7, <1>8, <1>9, <1>10, <2>3, <2>4 DEF Inv
  <1>15. QED
    BY <1>10, <1>13, <1>14

-----------------------------------------------------------------------------
(* plugin_start.                                                           *)

\* Before a device is set up, an object that started did so for another one.
LEMMA CreateFacts ==
    ASSUME Inv, CreateOutput
    PROVE  /\ Configuration /\ stage = "create" /\ fault = "none"
           /\ next \in Devices /\ deviceConfigurationSize \in Nat
           /\ typeOf(next) \in Types
           /\ \A i \in Devices : plugin[i] # "null" <=> i < next
           /\ \A i \in Devices : i < next => plugin[i] = typeOf(i)
           /\ plugin' \in [Devices -> Types \cup {"null"}]
           /\ \A i \in Devices : i <= next => plugin'[i] = typeOf(i)
           /\ \A i \in Devices : i > next => plugin'[i] = "null"
           /\ \A i \in Devices, t \in Types : User(i, t) => User(i, t)'
           /\ UNCHANGED <<blocks, deviceConfiguration, deviceConfigurationSize,
                          connectableDevices, file, loads, fault>>
           /\ UNCHANGED <<plugins, sent, stored>>
           /\ sent = <<>> /\ stored = {}
           /\ Devices' = Devices /\ Configuration' = Configuration
           /\ Sharing' = Sharing
  <1>1. /\ Configuration /\ stage = "create" /\ fault = "none"
        /\ next \in Devices /\ deviceConfigurationSize \in Nat
        /\ plugin \in [Devices -> Types \cup {"null"}]
        /\ \A i \in Devices : plugin[i] # "null" => plugin[i] = typeOf(i)
        /\ \A i \in Devices : plugin[i] # "null" <=> i < next
        /\ plugins \subseteq Types
        /\ sent = <<>> /\ stored = {}
    BY DeviceFacts DEF CreateOutput, Inv, Stages, Assignments
  <1>2. /\ plugin' = [plugin EXCEPT ![next] = typeOf(next)]
        /\ typeOf(next) \in plugins
        /\ UNCHANGED <<blocks, deviceConfiguration, deviceConfigurationSize,
                       connectableDevices, file, loads, fault>>
        /\ UNCHANGED <<plugins, sent, stored>>
    BY DEF CreateOutput, HasPlugin, configVars
  <1>3. /\ \A i \in Devices : plugin'[i] = IF i = next THEN typeOf(next)
                                                       ELSE plugin[i]
        /\ plugin' \in [Devices -> Types \cup {"null"}]
    BY <1>1, <1>2
  <1>4. /\ Devices' = Devices /\ Configuration' = Configuration
        /\ Sharing' = Sharing
    BY <1>2, SameDevices
  <1>5. Devices \subseteq Nat
    BY DEF Devices
  <1>6. /\ \A i \in Devices : i <= next => plugin'[i] = typeOf(i)
        /\ \A i \in Devices : i > next => plugin'[i] = "null"
    BY <1>1, <1>3, <1>5
  <1>7. ASSUME NEW i \in Devices, NEW t \in Types, User(i, t) PROVE User(i, t)'
    <2>1. plugin[i] = t /\ t # "null"
      BY <1>7, OutputsAssumption DEF User, Types
    <2>2. i < next
      BY <1>1, <1>7, <2>1
    <2>3. plugin'[i] = plugin[i]
      BY <1>1, <1>3, <1>5, <2>2
    <2>4. QED
      BY <1>4, <1>7, <2>1, <2>3 DEF User
  <1>8. QED
    BY <1>1, <1>2, <1>3, <1>4, <1>6, <1>7

\* The rows a database has keep their numbers.
RowsKept ==
    \A i \in Devices : typeOf(i) \in DbTypes =>
        \A r \in DOMAIN rows[filenameOf(i)] :
            /\ r \in DOMAIN rows'[filenameOf(i)]
            /\ rows'[filenameOf(i)][r] = rows[filenameOf(i)][r]

LEMMA OtherObject ==
    ASSUME Inv, CreateOutput, NEW t \in Types, t # typeOf(next),
           object'[t] = object[t], open \subseteq open',
           unstarted \subseteq unstarted', RowsKept
    PROVE  ObjectOf(t)'
  <1> DEFINE o == object[t]
  <1>1. /\ \A i \in Devices : User(i, t)' <=> User(i, t)
        /\ Devices' = Devices /\ Sharing' = Sharing
        /\ UNCHANGED <<blocks, deviceConfiguration>>
        /\ stage = "create"
    <2>1. plugin' = [plugin EXCEPT ![next] = typeOf(next)]
          /\ plugin \in [Devices -> Types \cup {"null"}]
      BY CreateFacts DEF CreateOutput, Inv, Assignments
    <2>2. \A i \in Devices : plugin'[i] = IF i = next THEN typeOf(next)
                                                      ELSE plugin[i]
      BY <2>1
    <2>3. plugin[next] # t
      <3>1. plugin[next] = "null"
        BY CreateFacts DEF Devices
      <3>2. QED
        BY <3>1, OutputsAssumption DEF Types
    <2>4. QED
      BY <2>2, <2>3, CreateFacts DEF User
  <1>2. /\ o \in Static
        /\ o.handle # 0 => User(o.handle, t)
        /\ o.statements # 0 => User(o.statements, t) /\ t \in DbTypes
        /\ o.started => \E i \in Devices : User(i, t)
        /\ ~o.finalized
        /\ t \in FileTypes /\ o.started /\ o.handle = 0 =>
              \E i \in unstarted, j \in Devices : i # j /\ User(i, t) /\ User(j, t)
        /\ t \in DbTypes /\ o.started /\ o.statements = 0 =>
              \E i \in unstarted : User(i, t)
        /\ t \in DbTypes /\ o.handle # 0 => o.handle \in open
        /\ t \in DbTypes /\ o.started =>
              \A i \in Devices : User(i, t) /\ i \notin Sharing => OwnRow(i, o)
    BY <1>1, OutputsAssumption DEF Inv, Objects, ObjectOf
  <1>3. \A i : User(i, t) => i \in Devices
    BY DEF User
  <1>4. object'[t] = o
    OBVIOUS
  <1>5. ASSUME NEW i \in Devices, t \in DbTypes, o.started, User(i, t),
               i \notin Sharing
        PROVE  OwnRow(i, object[t])'
    <2>1. OwnRow(i, o)
      BY <1>2, <1>5
    <2>2. typeOf(i) = t
      BY <1>1, <1>5, OutputsAssumption DEF User, Inv, Assignments, Types, Stages
    <2>3. /\ o.device_row_id \in DOMAIN rows'[filenameOf(i)]
          /\ rows'[filenameOf(i)][o.device_row_id] = Name(i)
          /\ o.statements = i
      BY <1>5, <2>1, <2>2 DEF OwnRow, RowsKept
    <2>4. QED
      BY <1>1, <1>4, <2>3 DEF OwnRow, filenameOf, Name, device
  <1>6. \A i \in Devices : plugin'[i] = t <=> plugin[i] = t
    BY <1>1 DEF User
  <1>7. o \in Static /\ ~o.finalized
    BY <1>2
  <1>8. o.handle # 0 => o.handle \in Devices /\ plugin'[o.handle] = t
    BY <1>2, <1>6 DEF User
  <1>9. o.statements # 0 =>
           o.statements \in Devices /\ plugin'[o.statements] = t /\ t \in DbTypes
    BY <1>2, <1>6 DEF User
  <1>10. o.started => \E i \in Devices : plugin'[i] = t
    BY <1>2, <1>6 DEF User
  <1>11. t \in FileTypes /\ o.started /\ o.handle = 0 =>
            \E i \in unstarted', j \in Devices :
               i # j /\ i \in Devices /\ plugin'[i] = t /\ plugin'[j] = t
    BY <1>2, <1>6 DEF User
  <1>12. t \in DbTypes /\ o.started /\ o.statements = 0 =>
            \E i \in unstarted' : i \in Devices /\ plugin'[i] = t
    BY <1>2, <1>6 DEF User
  <1>13. t \in DbTypes /\ o.handle # 0 => o.handle \in open'
    BY <1>2
  <1>14. t \in DbTypes /\ o.started =>
            \A i \in Devices : User(i, t)' /\ i \notin Sharing' =>
                                  OwnRow(i, object[t])'
    BY <1>1, <1>5
  <1> HIDE DEF o
  <1>15. QED
    BY <1>1, <1>4, <1>7, <1>8, <1>9, <1>10, <1>11, <1>12, <1>13, <1>14
       DEF ObjectOf, User, Static

\* file.c: the object's FILE is this device's, or gone.
LEMMA FileObject ==
    ASSUME Inv, CreateOutput, StartFile(next), NEW t, t = typeOf(next)
    PROVE  /\ ObjectOf(t)'
           /\ object'[t].started \/ next \in unstarted'
           /\ next \in open' => object'[t].handle = next /\ object'[t].started
           /\ \E p \in Static : object' = [object EXCEPT ![t] = p]
                                /\ (object[t].started => p.started)
           /\ open' \in {open, open \cup {next}} /\ pinned' = pinned
           /\ unstarted' \in {unstarted, unstarted \cup {next}}
           /\ rows' = rows
  <1>1. PICK opened \in BOOLEAN :
           /\ object' = [object EXCEPT ![t] = FileStart(next, opened)]
           /\ open' = IF opened THEN open \cup {next} ELSE open
           /\ unstarted' = IF opened THEN unstarted ELSE unstarted \cup {next}
           /\ rows' = rows /\ pinned' = pinned
           /\ t \in FileTypes
    BY DEF StartFile
  <1> DEFINE o == object[t]
             p == object'[t]
  <1>2. t \in Types /\ t \notin DbTypes
    BY <1>1, OutputsAssumption DEF Types
  <1>3. o \in Static /\ ~o.finalized /\ o.statements = 0
        /\ (o.started => \E j \in Devices : User(j, t))
    BY <1>2, CreateFacts DEF Inv, Objects, ObjectOf
  <1>4. next \in Nat \ {0}
    BY CreateFacts DEF Devices
  <1>5. object \in [Types -> Static]
    BY DEF Inv, Objects
  <1>6. p = [o EXCEPT !.handle = IF opened THEN next ELSE 0,
                      !.started = opened \/ @]
    BY <1>1, <1>2, <1>5 DEF FileStart
  <1>7. /\ p \in Static
        /\ p.handle = IF opened THEN next ELSE 0
        /\ p.started = (opened \/ o.started)
        /\ p.statements = 0 /\ p.finalized = FALSE
    BY <1>3, <1>4, <1>6 DEF Static
  <1>8. next \in Devices' /\ plugin'[next] = t
    BY CreateFacts DEF Devices
  <1>9. opened \/ next \in unstarted'
    BY <1>1
  <1> HIDE DEF o, p
  <1>10. ObjectOf(t)'
    <2>1. p.started /\ p.handle = 0 =>
             \E j \in Devices' : next # j /\ plugin'[j] = t
      <3>1. ASSUME o.started PROVE \E j \in Devices' : next # j /\ plugin'[j] = t
        <4>1. PICK j \in Devices : User(j, t)
          BY <1>3, <3>1
        <4>2. User(j, t)' /\ plugin[j] = t /\ t # "null"
          BY <1>2, <4>1, CreateFacts, OutputsAssumption DEF User, Types
        <4>3. j < next /\ j \in Devices'
          BY <4>2, CreateFacts
        <4>4. QED
          BY <4>2, <4>3 DEF User, Devices
      <3>2. QED
        BY <1>4, <1>7, <3>1
    <2>2. /\ p.handle # 0 => p.handle \in Devices' /\ plugin'[p.handle] = t
          /\ p.started => \E j \in Devices' : plugin'[j] = t
      BY <1>7, <1>8
    <2>3. /\ t \in FileTypes /\ p.started /\ p.handle = 0 =>
                \E i \in unstarted', j \in Devices' :
                   i # j /\ i \in Devices' /\ plugin'[i] = t /\ plugin'[j] = t
      <3>1. p.handle = 0 => next \in unstarted'
        BY <1>4, <1>7, <1>9
      <3>2. QED
        BY <1>8, <2>1, <3>1
    <2>4. p = object'[t]
      BY DEF p
    <2>5. QED
      BY <1>2, <1>7, <2>2, <2>3, <2>4 DEF ObjectOf, User
  <1>11. next \in open' => p.handle = next /\ p.started
    <2>1. next \notin open
      BY CreateFacts DEF Inv, Assignments
    <2>2. QED
      BY <1>1, <1>7, <2>1
  <1>12. p.started \/ next \in unstarted'
    BY <1>7, <1>9
  <1>13. /\ p \in Static /\ (o.started => p.started)
         /\ object' = [object EXCEPT ![t] = p]
    <2>1. FileStart(next, opened) = p
      BY <1>1, <1>2, <1>5 DEF p
    <2>2. QED
      BY <1>1, <1>7, <2>1
  <1>14. QED
    BY <1>1, <1>10, <1>11, <1>12, <1>13 DEF o, p

LEMMA AppendFacts ==
    ASSUME NEW S, NEW s \in Seq(S), NEW e \in S
    PROVE  /\ Append(s, e) \in Seq(S) /\ Len(s) \in Nat
           /\ DOMAIN s = 1 .. Len(s) /\ DOMAIN Append(s, e) = 1 .. Len(s) + 1
           /\ \A i \in 1 .. Len(s) : Append(s, e)[i] = s[i]
           /\ Append(s, e)[Len(s) + 1] = e
  OBVIOUS

\* db_plugin_insert_device: the table with the row, and where the row is.
LEMMA DeviceRow ==
    ASSUME NEW table \in Seq(STRING), NEW name \in STRING
    PROVE  /\ WithDevice(table, name) \in Seq(STRING)
           /\ \A r \in DOMAIN table : /\ r \in DOMAIN WithDevice(table, name)
                                      /\ WithDevice(table, name)[r] = table[r]
           /\ RowOf(WithDevice(table, name), name) \in DOMAIN WithDevice(table, name)
           /\ WithDevice(table, name)[RowOf(WithDevice(table, name), name)] = name
           /\ DOMAIN WithDevice(table, name) \subseteq Int
  <1> DEFINE with == WithDevice(table, name)
  <1> HIDE DEF with
  <1>1. /\ with \in Seq(STRING)
        /\ \A r \in DOMAIN table : r \in DOMAIN with /\ with[r] = table[r]
        /\ \E r \in DOMAIN with : with[r] = name
    <2>1. CASE \E r \in DOMAIN table : table[r] = name
      <3>1. with = table
        BY <2>1 DEF with, WithDevice
      <3>2. QED
        BY <2>1, <3>1
    <2>2. CASE ~\E r \in DOMAIN table : table[r] = name
      <3>1. with = Append(table, name)
        BY <2>2 DEF with, WithDevice
      <3>2. /\ with \in Seq(STRING) /\ Len(table) \in Nat
            /\ DOMAIN table = 1 .. Len(table)
        BY <3>1, AppendFacts
      <3>3. DOMAIN with = 1 .. Len(table) + 1
        BY <3>1, AppendFacts
      <3>4. /\ \A r \in 1 .. Len(table) : with[r] = table[r]
            /\ with[Len(table) + 1] = name
        <4>1. \A r \in 1 .. Len(table) : Append(table, name)[r] = table[r]
          BY AppendFacts
        <4>2. Append(table, name)[Len(table) + 1] = name
          BY AppendFacts
        <4>3. QED
          BY <3>1, <4>1, <4>2, Zenon
      <3>5. Len(table) + 1 \in DOMAIN with
        BY <3>2, <3>3
      <3>6. \A r \in DOMAIN table : r \in DOMAIN with
        BY <3>2, <3>3
      <3>7. QED
        BY <3>2, <3>4, <3>5, <3>6
    <2>3. QED
      BY <2>1, <2>2
  <1>2. RowOf(with, name) \in DOMAIN with /\ with[RowOf(with, name)] = name
    BY <1>1 DEF RowOf
  <1>3. DOMAIN with \subseteq Int
    BY <1>1
  <1>4. QED
    BY <1>1, <1>2, <1>3 DEF with

\* db.c: the object's connection is this device's, and its statements and its row
\* too when the start got that far.
LEMMA DbObject ==
    ASSUME Inv, CreateOutput, StartDb(next), NEW t, t = typeOf(next)
    PROVE  /\ ObjectOf(t)'
           /\ object'[t].started \/ next \in unstarted'
           /\ object'[t].handle = next /\ t \notin FileTypes
           /\ \E p \in Static : object' = [object EXCEPT ![t] = p]
                                /\ (object[t].started => p.started)
           /\ open' = open \cup {next}
           /\ pinned' \in {pinned, pinned \cup {next}}
           /\ unstarted' \in {unstarted, unstarted \cup {next}}
           /\ rows' \in [DbFilenames -> Seq(STRING)]
           /\ RowsKept
  <1>1. PICK reached, statements :
           /\ reached \in DbStages
           /\ statements \in StatementsAfter(next, reached)
           /\ object' = [object EXCEPT ![t] = DbStart(next, reached, statements)]
           /\ open' = open \cup {next}
           /\ rows' = IF reached = "started"
                      THEN [rows EXCEPT ![filenameOf(next)] =
                               WithDevice(@, device(next).device_name)]
                      ELSE rows
           /\ pinned' \in PinnedAfter(next, reached)
           /\ unstarted' = IF reached = "started" THEN unstarted
                                                  ELSE unstarted \cup {next}
           /\ t \in DbTypes
    BY DEF StartDb, Connected
  <1> DEFINE o == object[t]
             p == object'[t]
             table == WithDevice(rows[filenameOf(next)], Name(next))
             row == RowOf(table, Name(next))
  <1>2. t \in Types /\ t \notin FileTypes
    BY <1>1, OutputsAssumption DEF Types
  <1>3. /\ object \in [Types -> Static] /\ o \in Static
        /\ ~o.finalized
        /\ o.statements # 0 => User(o.statements, t)
        /\ (o.started => \E j \in Devices : User(j, t))
        /\ t \in DbTypes /\ o.started /\ o.statements = 0 =>
              \E i \in unstarted : User(i, t)
    BY <1>2, CreateFacts DEF Inv, Objects, ObjectOf
  <1>4. next \in Nat \ {0} /\ next \in Devices' /\ plugin'[next] = t
    BY CreateFacts DEF Devices
  <1>5. /\ filenameOf(next) \in DbFilenames /\ Name(next) \in STRING
        /\ rows \in [DbFilenames -> Seq(STRING)]
    BY <1>1, CreateFacts, DeviceFacts DEF Inv, Stages
  <1>6. /\ table \in Seq(STRING) /\ row \in DOMAIN table /\ row \in Int
        /\ table[row] = Name(next)
        /\ \A r \in DOMAIN rows[filenameOf(next)] :
              r \in DOMAIN table /\ table[r] = rows[filenameOf(next)][r]
    BY <1>5, DeviceRow
  <1> HIDE DEF table, row
  <1>7. /\ rows' \in [DbFilenames -> Seq(STRING)]
        /\ reached = "started" => rows'[filenameOf(next)] = table
        /\ \A f \in DbFilenames : \A r \in DOMAIN rows[f] :
              r \in DOMAIN rows'[f] /\ rows'[f][r] = rows[f][r]
    <2>1. CASE reached = "started"
      <3>1. rows' = [rows EXCEPT ![filenameOf(next)] = table]
        BY <1>1, <2>1 DEF table, Name
      <3>2. QED
        BY <1>5, <1>6, <3>1
    <2>2. CASE reached # "started"
      BY <1>1, <1>5, <2>2
    <2>3. QED
      BY <2>1, <2>2
  <1>8. RowsKept
    BY <1>7, CreateFacts, DeviceFacts DEF RowsKept, Inv
  <1>9. p = [o EXCEPT !.handle = next, !.statements = statements,
                      !.device_row_id = IF reached = "started" THEN row ELSE @,
                      !.started = (reached = "started") \/ @]
    BY <1>1, <1>2, <1>3 DEF DbStart, table, row, Name
  <1>10. /\ statements = 0 \/ statements = next \/ statements = o.statements
         /\ reached = "started" => statements = next
         /\ statements \in Nat
         /\ statements = 0 => next \in unstarted' \/ o.statements = 0
    <2>1. statements \in {o.statements, 0, next}
      BY <1>1 DEF StatementsAfter, DbStages
    <2>2. reached = "started" => statements = next
      BY <1>1 DEF StatementsAfter
    <2>3. statements \in Nat
      BY <1>3, <1>4, <2>1 DEF Static
    <2>4. statements = 0 => next \in unstarted' \/ o.statements = 0
      BY <1>1, <1>4, <2>2
    <2>5. QED
      BY <2>1, <2>2, <2>3, <2>4
  <1>11. /\ p \in Static /\ p.handle = next /\ p.statements = statements
         /\ p.started = (reached = "started" \/ o.started)
         /\ p.finalized = FALSE
         /\ reached = "started" => p.device_row_id = row
    BY <1>3, <1>4, <1>6, <1>9, <1>10 DEF Static
  <1>12. reached = "started" \/ next \in unstarted'
    BY <1>1
  <1> HIDE DEF o, p
  <1>13. ASSUME NEW j \in Devices, User(j, t)
         PROVE  j \in Devices' /\ plugin'[j] = t /\ j # next
    <2>1. User(j, t)' /\ plugin[j] # "null"
      BY <1>2, <1>13, CreateFacts, OutputsAssumption DEF User, Types
    <2>2. j < next
      BY <2>1, CreateFacts
    <2>3. QED
      BY <1>4, <2>1, <2>2 DEF User
  <1>14. ASSUME p.started, NEW i \in Devices, plugin'[i] = t, i \notin Sharing
         PROVE  OwnRow(i, object[t])'
    <2>1. i <= next
      <3>1. t # "null"
        BY <1>2, OutputsAssumption DEF Types
      <3>2. QED
        BY <1>14, <3>1, CreateFacts DEF Devices
    <2>2. typeOf(i) = t
      BY <1>14, <2>1, CreateFacts
    <2>3. i = next
      BY <1>14, <2>2, CreateFacts DEF Sharing
    <2>4. ~o.started
      <3>1. SUFFICES ASSUME NEW j \in Devices, User(j, t) PROVE FALSE
        BY <1>3
      <3>2. j # next /\ plugin'[j] = t
        BY <1>13, <3>1
      <3>3. typeOf(j) = t
        BY <1>2, <3>1, CreateFacts, OutputsAssumption
           DEF User, Types, Inv, Assignments
      <3>4. QED
        BY <1>14, <2>2, <2>3, <3>2, <3>3 DEF Sharing
    <2>5. reached = "started"
      BY <1>11, <1>14, <2>4
    <2>6. p.statements = i /\ p.device_row_id = row
      BY <1>10, <1>11, <2>3, <2>5
    <2>7. rows'[filenameOf(i)] = table /\ table[row] = Name(i) /\ row \in DOMAIN table
      BY <1>6, <1>7, <2>3, <2>5
    <2>8. UNCHANGED <<blocks, deviceConfiguration>>
      BY CreateFacts
    <2>9. QED
      BY <2>6, <2>7, <2>8 DEF OwnRow, p, filenameOf, Name, device
  <1>15. ObjectOf(t)'
    <2>1. p.statements # 0 => p.statements \in Devices' /\ plugin'[p.statements] = t
      <3>1. CASE statements = next
        BY <1>4, <1>11, <3>1
      <3>2. CASE statements = o.statements
        BY <1>3, <1>11, <1>13, <3>2 DEF User
      <3>3. QED
        BY <1>10, <1>11, <3>1, <3>2
    <2>2. p.started /\ p.statements = 0 =>
             \E i \in unstarted' : i \in Devices' /\ plugin'[i] = t
      <3> SUFFICES ASSUME p.started, p.statements = 0
                   PROVE  \E i \in unstarted' : i \in Devices' /\ plugin'[i] = t
        OBVIOUS
      <3>1. CASE next \in unstarted'
        BY <1>4, <3>1
      <3>2. CASE next \notin unstarted'
        <4>1. reached = "started"
          BY <1>12, <3>2
        <4>2. QED
          BY <1>4, <1>10, <1>11, <4>1
      <3>3. QED
        BY <3>1, <3>2
    <2>3. p.handle \in Devices' /\ plugin'[p.handle] = t /\ p.handle \in open'
      BY <1>1, <1>4, <1>11
    <2>4. p = object'[t]
      BY DEF p
    <2>5. Devices' = Devices /\ Sharing' = Sharing
      BY CreateFacts
    <2>6. QED
      BY <1>1, <1>2, <1>11, <1>14, <2>1, <2>2, <2>3, <2>4, <2>5 DEF ObjectOf, User
  <1>16. /\ p \in Static /\ (o.started => p.started)
         /\ object' = [object EXCEPT ![t] = p]
    <2>1. DbStart(next, reached, statements) = p
      BY <1>1, <1>2, <1>3 DEF p
    <2>2. QED
      BY <1>1, <1>11, <2>1
  <1>17. pinned' \in {pinned, pinned \cup {next}}
    BY <1>1 DEF PinnedAfter
  <1>18. p.started \/ next \in unstarted'
    BY <1>11, <1>12
  <1>19. QED
    BY <1>1, <1>2, <1>7, <1>8, <1>11, <1>15, <1>16, <1>17, <1>18 DEF o, p

LEMMA InvCreateOutput ==
    ASSUME Inv, CreateOutput
    PROVE  Inv'
  <1>1. ConfigInv'
    BY CreateFacts, ConfigInvUnchanged DEF Inv
  <1>2. PICK t : t = typeOf(next)
    OBVIOUS
  <1>3. t \in Types
    BY <1>2, CreateFacts
  \* What both kinds of plugin_start have in common.
  <1>4. /\ ObjectOf(t)'
        /\ object'[t].started \/ next \in unstarted'
        /\ next \in open' => /\ object'[t].handle = next
                             /\ t \in FileTypes => object'[t].started
        /\ open \subseteq open' /\ open' \subseteq open \cup {next}
        /\ pinned \subseteq pinned' /\ pinned' \subseteq pinned \cup {next}
        /\ unstarted \subseteq unstarted'
        /\ unstarted' \subseteq unstarted \cup {next}
        /\ rows' \in [DbFilenames -> Seq(STRING)] /\ RowsKept
        /\ \E p \in Static : object' = [object EXCEPT ![t] = p]
                             /\ (object[t].started => p.started)
    <2>1. CASE StartFile(next)
      <3>1. rows' = rows /\ rows \in [DbFilenames -> Seq(STRING)]
        BY <1>2, <2>1, FileObject DEF Inv, Stages
      <3>2. RowsKept
        BY <3>1 DEF RowsKept
      <3>3. QED
        BY <1>2, <2>1, <3>1, <3>2, FileObject
    <2>2. CASE StartDb(next)
      BY <1>2, <2>2, DbObject
    <2>3. QED
      BY <2>1, <2>2 DEF CreateOutput
  <1>5. PICK p \in Static : object' = [object EXCEPT ![t] = p]
                            /\ (object[t].started => p.started)
    BY <1>4
  <1>6. /\ object' \in [Types -> Static]
        /\ \A u \in Types : u # t => object'[u] = object[u]
        /\ \A u \in Types : object[u].started => object'[u].started
    BY <1>3, <1>5 DEF Inv, Objects
  <1>7. Objects'
    <2>1. ASSUME NEW u \in Types PROVE ObjectOf(u)'
      BY <1>2, <1>4, <1>6, <2>1, OtherObject
    <2>2. QED
      BY <1>6, <2>1 DEF Objects, Types, Static
  <1>8. \/ next < deviceConfigurationSize /\ next' = next + 1 /\ stage' = "create"
        \/ next = deviceConfigurationSize /\ next' = 1 /\ stage' = "measure"
    BY CreateFacts DEF CreateOutput, NextRound
  <1>9. next' \in Devices /\ next' \in 1 .. deviceConfigurationSize' + 1
    BY <1>8, CreateFacts DEF Devices
  <1>10. /\ open' \subseteq Devices /\ pinned' \subseteq Devices
         /\ unstarted' \subseteq Devices
    BY <1>4, CreateFacts DEF Inv, Stages
  <1>11. sent' \in Seq([device : Devices, kind : Kinds, ts : Times])
    BY CreateFacts DEF Inv, Stages
  <1>12. Stages'
    <2>1. stage' \in {"create", "measure"} /\ (stage' = "measure" => next' = 1)
      BY <1>8
    <2>2. plugins' \subseteq Types
      BY CreateFacts DEF Inv, Stages
    <2>3. QED
      BY <1>4, <1>9, <1>10, <1>11, <2>1, <2>2, CreateFacts
         DEF Stages, Types, Kinds
  <1>13. \A i \in Devices : plugin'[i] # "null" <=> i <= next
    <2>1. \A i \in Devices : typeOf(i) \in Types => typeOf(i) # "null"
      BY OutputsAssumption DEF Types
    <2>2. \A i \in Devices : i < next => typeOf(i) \in Types
      BY CreateFacts DEF Inv, Assignments
    <2>3. \A i \in Devices : i <= next => i < next \/ i = next
      BY CreateFacts DEF Devices
    <2>4. \A i \in Devices : i <= next => typeOf(i) # "null"
      BY <2>1, <2>2, <2>3, CreateFacts
    <2>5. \A i \in Devices : i <= next \/ i > next
      BY CreateFacts DEF Devices
    <2>6. \A i \in Devices : ~(i <= next /\ i > next)
      BY CreateFacts DEF Devices
    <2>7. QED
      BY <2>4, <2>5, <2>6, CreateFacts
  <1>14. Assignments'
    <2>1. \A i \in Devices : plugin'[i] # "null" =>
             plugin'[i] = typeOf(i)' /\ typeOf(i)' \in Types
      <3>1. \A i \in Devices : plugin'[i] # "null" => plugin'[i] = typeOf(i)
        BY <1>13, CreateFacts
      <3>2. \A i \in Devices : plugin'[i] # "null" => plugin'[i] \in Types
        BY CreateFacts
      <3>3. UNCHANGED <<blocks, deviceConfiguration>>
        BY CreateFacts
      <3>4. QED
        BY <3>1, <3>2, <3>3 DEF typeOf, device
    <2>2. stage' = "create" => \A i \in Devices : plugin'[i] # "null" <=> i < next'
      <3>1. stage' = "create" => next' = next + 1
        BY <1>8
      <3>2. \A i \in Devices : i <= next <=> i < next + 1
        BY CreateFacts DEF Devices
      <3>3. QED
        BY <1>13, <3>1, <3>2
    <2>3. stage' = "measure" => \A i \in Devices : plugin'[i] # "null"
      <3>1. stage' = "measure" => \A i \in Devices : i <= next
        BY <1>8 DEF Devices
      <3>2. QED
        BY <1>13, <3>1
    <2>4. \A i \in open' \cup unstarted' : plugin'[i] # "null"
      <3>1. \A i \in open \cup unstarted : i \in Devices /\ i < next
        BY CreateFacts DEF Inv, Assignments, Stages
      <3>2. \A i \in open' \cup unstarted' : i \in Devices /\ i <= next
        BY <1>4, <3>1, CreateFacts DEF Devices
      <3>3. QED
        BY <1>13, <3>2
    <2>5. ASSUME NEW i \in Devices, plugin'[i] # "null"
          PROVE  object'[plugin'[i]].started \/ i \in unstarted'
      <3>1. i <= next /\ plugin'[i] = typeOf(i)
        BY <1>13, <2>5, CreateFacts
      <3>2. CASE i = next
        BY <1>2, <1>4, <3>1, <3>2
      <3>3. CASE i # next
        <4>1. i < next
          BY <3>1, <3>3, CreateFacts DEF Devices
        <4>2. /\ plugin[i] = typeOf(i) /\ plugin[i] \in Types
              /\ object[plugin[i]].started \/ i \in unstarted
          BY <4>1, CreateFacts DEF Inv, Assignments
        <4>3. QED
          BY <1>4, <1>6, <3>1, <4>2
      <3>4. QED
        BY <3>2, <3>3
    <2>6. Devices' = Devices /\ (plugin \in [Devices -> Types \cup {"null"}])'
      BY CreateFacts DEF Types
    <2>7. stage' \in {"create", "measure"}
      BY <1>8
    <2>8. QED
      BY <2>1, <2>2, <2>3, <2>4, <2>5, <2>6, <2>7 DEF Assignments, Types
  <1>15. Openings'
    <2> SUFFICES ASSUME NEW i \in open'
                 PROVE  (\/ i \in pinned
                         \/ \E j \in Devices : i < j /\ User(j, typeOf(i))
                         \/ /\ object[typeOf(i)].handle = i
                            /\ typeOf(i) \in FileTypes => object[typeOf(i)].started
                            /\ stage \in {"create", "measure", "destroy"}
                            /\ stage = "destroy" => next <= i)'
      BY DEF Openings
    <2>1. /\ stage' \in {"create", "measure"} /\ Devices' = Devices
          /\ UNCHANGED <<blocks, deviceConfiguration>>
      BY <1>8, CreateFacts
    <2>2. CASE i = next
      BY <1>2, <1>4, <2>1, <2>2 DEF typeOf, device
    <2>3. CASE i # next
      <3>1. i \in open /\ i < next
        BY <1>4, <2>3, CreateFacts DEF Inv, Assignments, Stages
      <3>2. PICK u \in Types : u = typeOf(i) /\ plugin[i] = u
        BY <3>1, CreateFacts DEF Inv, Assignments, Stages
      <3>3. CASE i \in pinned
        BY <1>4, <3>3
      <3>4. CASE \E j \in Devices : i < j /\ User(j, u)
        <4>1. PICK j \in Devices : i < j /\ User(j, u)
          BY <3>4
        <4>2. User(j, u)'
          BY <4>1, CreateFacts
        <4>3. QED
          BY <2>1, <3>2, <4>1, <4>2 DEF User, typeOf, device
      <3>5. CASE u = t
        <4>1. plugin'[next] = t /\ next \in Devices
          BY <1>2, CreateFacts DEF Devices
        <4>2. \E j \in Devices' : i < j /\ plugin'[j] = t
          BY <2>1, <3>1, <4>1
        <4>3. QED
          BY <2>1, <3>2, <3>5, <4>2 DEF User, typeOf, device
      <3>6. CASE u # t /\ object[u].handle = i /\ (u \in FileTypes => object[u].started)
        BY <1>6, <2>1, <3>2, <3>6 DEF typeOf, device
      <3>7. QED
        BY <3>1, <3>2, <3>3, <3>4, <3>5, <3>6 DEF Inv, Openings
    <2>4. QED
      BY <2>2, <2>3
  <1>16. StoredWell' /\ LossesExplained'
    <2>1. Unstored' = {} /\ stored' = {}
      BY CreateFacts DEF Unstored
    <2>2. QED
      BY <2>1 DEF StoredWell, LossesExplained
  <1>17. FaultsExplained'
    BY CreateFacts DEF FaultsExplained
  <1>18. QED
    BY <1>1, <1>7, <1>12, <1>14, <1>15, <1>16, <1>17 DEF Inv

-----------------------------------------------------------------------------
(* plugin_stop.                                                            *)

\* The devices before `next` that have the type of its plugin share it.
LEMMA DestroyFacts ==
    ASSUME Inv, DestroyOutput
    PROVE  /\ stage = "destroy" /\ stage' = "destroy" /\ fault = "none"
           /\ next \in Devices /\ next' = next + 1
           /\ deviceConfigurationSize \in Nat /\ Devices \subseteq Nat
           /\ UNCHANGED <<blocks, deviceConfiguration, deviceConfigurationSize,
                          connectableDevices, file, loads>>
           /\ UNCHANGED <<plugins, plugin, pinned, rows, sent, stored, unstarted>>
           /\ Devices' = Devices /\ Configuration' = Configuration
           /\ Sharing' = Sharing
  <1>1. /\ stage = "destroy" /\ stage' = "destroy" /\ fault = "none"
        /\ next <= deviceConfigurationSize /\ next' = next + 1
        /\ UNCHANGED <<blocks, deviceConfiguration, deviceConfigurationSize,
                       connectableDevices, file, loads>>
        /\ UNCHANGED <<plugins, plugin, pinned, rows, sent, stored, unstarted>>
    BY DEF DestroyOutput
  <1>2. deviceConfigurationSize \in Nat
        /\ next \in 1 .. deviceConfigurationSize + 1
    BY DeviceFacts DEF Inv, Stages
  <1>3. next \in Devices /\ Devices \subseteq Nat
    BY <1>1, <1>2 DEF Devices
  <1>4. QED
    BY <1>1, <1>2, <1>3, SameDevices

\* What holds after a round when the plugins were not touched.
LEMMA DestroyNothing ==
    ASSUME Inv, DestroyOutput, UNCHANGED <<object, open>>, FaultsExplained',
           ~Configuration \/ plugin[next] = "null"
    PROVE  Inv'
  <1>1. ConfigInv'
    BY DestroyFacts, ConfigInvUnchanged DEF Inv
  <1>2. Stages'
    <2>1. next' \in 1 .. deviceConfigurationSize' + 1
      BY DestroyFacts DEF Devices
    <2>2. QED
      BY <2>1, DestroyFacts DEF Inv, Stages, Idle, Types, Kinds
  <1>3. Assignments'
    BY DestroyFacts DEF Inv, Assignments, typeOf, device, Types
  <1>4. Objects'
    <2>1. \A i \in Devices : i < next => i < next + 1
      BY DestroyFacts
    <2>2. ASSUME NEW t \in Types PROVE ObjectOf(t)'
      BY <2>1, DestroyFacts DEF Inv, Objects, ObjectOf, User, OwnRow, Name,
                                filenameOf, device
    <2>3. QED
      BY <2>2 DEF Inv, Objects, Types, Static
  <1>5. Openings'
    <2>1. CASE ~Configuration
      BY <2>1, DestroyFacts DEF Inv, Stages, Idle, Openings
    <2>2. CASE Configuration
      <3>1. \A i \in open : i \in Devices /\ i # next
        BY <2>2, DestroyFacts DEF Inv, Assignments, Stages
      <3>2. \A i \in open : next <= i => next + 1 <= i
        BY <3>1, DestroyFacts
      <3>3. QED
        BY <3>2, DestroyFacts DEF Inv, Openings, User, typeOf, device
    <2>3. QED
      BY <2>1, <2>2
  <1>6. StoredWell'
    BY DestroyFacts, SettledKept DEF Inv
  <1>7. LossesExplained'
    BY DestroyFacts, SettledKept DEF Inv
  <1>8. QED
    BY <1>1, <1>2, <1>3, <1>4, <1>5, <1>6, <1>7 DEF Inv

\* What holds after a plugin_stop, given what it does to the object.
LEMMA DestroyObject ==
    ASSUME Inv, DestroyOutput, Configuration, FaultsExplained',
           NEW t \in Types, plugin[next] = t, NEW p \in Static,
           object' = [object EXCEPT ![t] = p],
           open' \subseteq open, open \ open' \subseteq {object[t].handle},
           p.handle = object[t].handle, p.statements = object[t].statements,
           p.device_row_id = object[t].device_row_id,
           p.started => object[t].started,
           t \in FileTypes => ~p.started /\ p.finalized = object[t].finalized,
           t \in DbTypes => p.finalized,
           \A i \in open' : i = object[t].handle =>
              i \in pinned \/ (t \in FileTypes /\ ~object[t].started)
    PROVE  Inv'
  <1> DEFINE o == object[t]
  <1>1. ConfigInv'
    BY DestroyFacts, ConfigInvUnchanged DEF Inv
  <1>2. Stages'
    <2>1. next' \in 1 .. deviceConfigurationSize' + 1
      BY DestroyFacts DEF Devices
    <2>2. open' \subseteq Devices
      BY DEF Inv, Stages
    <2>3. QED
      BY <2>1, <2>2, DestroyFacts DEF Inv, Stages, Types, Kinds
  <1>3. Assignments'
    BY DestroyFacts DEF Inv, Assignments, typeOf, device, Types
  <1>4. /\ object' \in [Types -> Static] /\ object'[t] = p
        /\ \A u \in Types : u # t => object'[u] = object[u]
    BY DEF Inv, Objects
  <1>5. typeOf(next) = t /\ t # "null"
    BY DestroyFacts, OutputsAssumption DEF Inv, Assignments, Types
  <1>6. \A i \in Devices : i < next => i < next + 1
    BY DestroyFacts
  <1>7. ASSUME NEW u \in Types, u # t PROVE ObjectOf(u)'
    <2>1. object[u].handle \in open => object[u].handle \in open'
      <3>1. ASSUME object[u].handle \in open, object[u].handle = o.handle
            PROVE  FALSE
        <4>1. object[u].handle # 0
          BY <3>1 DEF Inv, Stages, Devices
        <4>2. plugin[object[u].handle] = u /\ plugin[o.handle] = t
          BY <3>1, <4>1 DEF Inv, Objects, ObjectOf, User
        <4>3. QED
          BY <1>7, <3>1, <4>2
      <3>2. QED
        BY <3>1
    <2>2. object'[u] = object[u] /\ ObjectOf(u)
      BY <1>4, <1>7 DEF Inv, Objects
    <2> HIDE DEF o
    <2>3. QED
      BY <1>6, <2>1, <2>2, DestroyFacts
         DEF ObjectOf, User, OwnRow, Name, filenameOf, device
  <1>8. ObjectOf(t)'
    <2>1. /\ o.handle # 0 => User(o.handle, t)
          /\ o.statements # 0 => User(o.statements, t) /\ t \in DbTypes
          /\ o.started => \E i \in Devices : User(i, t)
          /\ t \in FileTypes /\ o.finalized => t \in DbTypes
          /\ t \in DbTypes /\ o.started /\ o.statements = 0 =>
                \E i \in unstarted : User(i, t)
          /\ t \in DbTypes /\ o.started =>
                \A i \in Devices : User(i, t) /\ i \notin Sharing => OwnRow(i, o)
      BY DEF Inv, Objects, ObjectOf
    <2>2. t \in FileTypes => t \notin DbTypes
      BY OutputsAssumption
    <2>3. next \in Devices /\ next < next' /\ plugin[next] = t
      BY DestroyFacts
    <2> HIDE DEF o
    <2>4. /\ p.handle = o.handle /\ p.statements = o.statements
          /\ p.device_row_id = o.device_row_id
          /\ p.started => o.started
          /\ t \in FileTypes => ~p.started /\ p.finalized = o.finalized
      BY DEF o
    <2>5. t \in DbTypes \/ t \in FileTypes
      BY DEF Types
    <2>6. /\ p.handle # 0 => p.handle \in Devices' /\ plugin'[p.handle] = t
          /\ p.statements # 0 => p.statements \in Devices'
                                 /\ plugin'[p.statements] = t /\ t \in DbTypes
          /\ p.started => \E i \in Devices' : plugin'[i] = t
          /\ p.finalized => /\ t \in DbTypes /\ stage' = "destroy"
                            /\ \E i \in Devices' : i < next' /\ plugin'[i] = t
      BY <2>1, <2>2, <2>3, <2>4, <2>5, DestroyFacts DEF User
    <2>7. ~(t \in FileTypes /\ p.started)
      BY <2>4
    <2>8. t \in DbTypes /\ p.started /\ p.statements = 0 =>
             \E i \in unstarted' : i \in Devices' /\ plugin'[i] = t
      BY <2>1, <2>4, DestroyFacts DEF User
    <2>9. ASSUME t \in DbTypes, p.started, NEW i \in Devices, plugin[i] = t,
                 i \notin Sharing
          PROVE  OwnRow(i, object[t])'
      <3>1. OwnRow(i, o)
        BY <2>1, <2>4, <2>9 DEF User
      <3>2. QED
        BY <1>4, <2>4, <3>1, DestroyFacts DEF OwnRow, filenameOf, Name, device
    <2>10. t \in DbTypes /\ p.started =>
              \A i \in Devices' : User(i, t)' /\ i \notin Sharing' =>
                                     OwnRow(i, object[t])'
      BY <2>9, DestroyFacts DEF User
    <2>11. QED
      BY <1>4, <2>6, <2>7, <2>8, <2>10 DEF ObjectOf, User
  <1>9. Objects'
    <2>1. ASSUME NEW u \in Types PROVE ObjectOf(u)'
      BY <1>7, <1>8
    <2>2. QED
      BY <1>4, <2>1 DEF Objects, Types, Static
  <1>10. Openings'
    <2> SUFFICES ASSUME NEW i \in open'
                 PROVE  (\/ i \in pinned
                         \/ \E j \in Devices : i < j /\ User(j, typeOf(i))
                         \/ /\ object[typeOf(i)].handle = i
                            /\ typeOf(i) \in FileTypes => object[typeOf(i)].started
                            /\ stage \in {"create", "measure", "destroy"}
                            /\ stage = "destroy" => next <= i)'
      BY DEF Openings
    <2>1. i \in open /\ i \in Devices
      BY DEF Inv, Stages
    <2>2. PICK u \in Types : u = typeOf(i) /\ plugin[i] = u
      BY <2>1, DestroyFacts DEF Inv, Assignments
    <2>3. (typeOf(i) = u)'
      BY <2>2, DestroyFacts DEF typeOf, device
    <2>4. CASE i \in pinned \/ \E j \in Devices : i < j /\ User(j, u)
      BY <2>3, <2>4, DestroyFacts DEF User
    <2>5. CASE /\ object[u].handle = i
               /\ u \in FileTypes => object[u].started
               /\ next <= i /\ i \notin pinned
      <3>1. u # t
        BY <2>5
      <3>2. i # next
        BY <2>2, <3>1
      <3>3. next + 1 <= i
        BY <2>1, <2>5, <3>2, DestroyFacts
      <3>4. QED
        BY <1>4, <2>3, <2>5, <3>1, <3>3, DestroyFacts
    <2>6. QED
      BY <2>1, <2>2, <2>4, <2>5, DestroyFacts DEF Inv, Openings
  <1>11. StoredWell'
    BY DestroyFacts, SettledKept DEF Inv
  <1>12. LossesExplained'
    BY DestroyFacts, SettledKept DEF Inv
  <1>13. QED
    BY <1>1, <1>2, <1>3, <1>9, <1>10, <1>11, <1>12 DEF Inv

LEMMA InvDestroyOutput ==
    ASSUME Inv, DestroyOutput
    PROVE  Inv'
  <1>1. CASE ~Configuration
    <2>1. fault' = "freed configuration" /\ UNCHANGED <<object, open>>
      BY <1>1 DEF DestroyOutput, Configuration
    <2>2. FaultsExplained'
      BY <1>1, <2>1, DestroyFacts DEF FaultsExplained, Configuration
    <2>3. QED
      BY <1>1, <2>1, <2>2, DestroyNothing
  <1>2. CASE Configuration /\ plugin[next] = "null"
    <2>1. fault' = "null plugin" /\ UNCHANGED <<object, open>>
      BY <1>2 DEF DestroyOutput, Configuration
    <2>2. plugins = {} \/ \E i \in Devices : typeOf(i) \notin plugins
      BY <1>2, DestroyFacts DEF Inv, Assignments
    <2>3. (plugins = {} \/ \E i \in Devices : typeOf(i) \notin plugins)'
      BY <2>2, DestroyFacts DEF typeOf, device
    <2>4. FaultsExplained'
      BY <2>1, <2>3 DEF FaultsExplained
    <2>5. QED
      BY <1>2, <2>1, <2>4, DestroyNothing
  <1>3. CASE Configuration /\ plugin[next] # "null"
    <2>1. PICK t \in Types : plugin[next] = t /\ typeOf(next) = t
      BY <1>3, DestroyFacts DEF Inv, Assignments
    <2> DEFINE o == object[t]
    <2>2. /\ o \in Static /\ object \in [Types -> Static]
          /\ t \in FileTypes /\ o.started /\ o.handle = 0 =>
                \E i \in unstarted, j \in Devices : i # j /\ User(i, t) /\ User(j, t)
          /\ o.finalized => \E i \in Devices : i < next /\ User(i, t)
          /\ t \in DbTypes /\ o.handle # 0 /\ o.handle \notin open => o.finalized
      BY DEF Inv, Objects, ObjectOf
    <2>3. \A i \in Devices : User(i, t) => typeOf(i) = t
      BY <1>3, <2>1, DestroyFacts, OutputsAssumption DEF User, Inv, Assignments, Types
    <2>4. CASE t \in FileTypes
      <3> DEFINE p == [o EXCEPT !.started = FALSE]
      <3>1. StopFile(t)
        BY <1>3, <2>1, <2>4 DEF DestroyOutput, Configuration
      <3>2. object' = [object EXCEPT ![t] = p]
        BY <2>2, <3>1 DEF StopFile
      <3>3. /\ p \in Static /\ p.handle = o.handle /\ p.statements = o.statements
            /\ p.device_row_id = o.device_row_id /\ p.started = FALSE
            /\ p.finalized = o.finalized
        BY <2>2 DEF Static
      <3>4. open' = IF o.started THEN open \ {o.handle} ELSE open
        BY <3>1 DEF StopFile
      <3>5. FaultsExplained'
        <4>1. CASE o.started /\ o.handle = 0
          <5>1. fault' = "null stream"
            BY <3>1, <4>1 DEF StopFile
          <5>2. PICK i \in unstarted, j \in Devices :
                   i # j /\ User(i, t) /\ User(j, t)
            BY <2>2, <2>4, <4>1
          <5>3. i \in Devices /\ typeOf(i) = t /\ typeOf(j) = t
            BY <2>3, <5>2 DEF User
          <5>4. i \in Sharing
            BY <5>2, <5>3 DEF Sharing
          <5>5. i \in unstarted' /\ i \in Sharing' /\ (typeOf(i) \in FileTypes)'
            BY <2>4, <5>3, <5>4, DestroyFacts DEF typeOf, device
          <5>6. QED
            BY <5>1, <5>5 DEF FaultsExplained
        <4>2. CASE ~(o.started /\ o.handle = 0)
          <5>1. fault' = "none"
            BY <3>1, <4>2, DestroyFacts DEF StopFile
          <5>2. QED
            BY <5>1 DEF FaultsExplained
        <4>3. QED
          BY <4>1, <4>2
      <3>6. t \notin DbTypes
        BY <2>4, OutputsAssumption
      <3> HIDE DEF p
      <3>7. QED
        BY <1>3, <2>1, <2>4, <3>2, <3>3, <3>4, <3>5, <3>6, DestroyObject
    <2>5. CASE t \in DbTypes
      <3> DEFINE p == [o EXCEPT !.finalized = TRUE]
      <3>1. t \notin FileTypes /\ t # "null"
        BY <2>5, OutputsAssumption
      <3>2. StopDb(t)
        BY <1>3, <2>1, <3>1 DEF DestroyOutput, Configuration
      <3>3. object' = [object EXCEPT ![t] = p]
        BY <2>2, <3>2 DEF StopDb
      <3>4. /\ p \in Static /\ p.handle = o.handle /\ p.statements = o.statements
            /\ p.device_row_id = o.device_row_id /\ p.started = o.started
            /\ p.finalized = TRUE
        BY <2>2 DEF Static
      <3>5. open' = open \ ({o.handle} \ pinned)
        BY <3>2 DEF StopDb
      <3>6. FaultsExplained'
        <4>1. CASE o.finalized
          <5>1. fault' \in {"none", "finalized twice", "closed twice"}
            BY <3>2, DestroyFacts DEF StopDb
          <5>2. PICK i \in Devices : i < next /\ User(i, t)
            BY <2>2, <4>1
          <5>3. i \in Sharing /\ typeOf(i) \in DbTypes
            BY <2>1, <2>3, <2>5, <5>2, DestroyFacts DEF Sharing
          <5>4. i \in Sharing' /\ (typeOf(i) \in DbTypes)'
            BY <5>3, DestroyFacts DEF typeOf, device
          <5>5. QED
            BY <5>1, <5>4 DEF FaultsExplained
        <4>2. CASE ~o.finalized
          <5>1. fault' = "none"
            BY <2>2, <2>5, <3>2, <4>2, DestroyFacts DEF StopDb
          <5>2. QED
            BY <5>1 DEF FaultsExplained
        <4>3. QED
          BY <4>1, <4>2
      <3> HIDE DEF p
      <3>7. QED
        BY <1>3, <2>1, <2>5, <3>1, <3>3, <3>4, <3>5, <3>6, DestroyObject
    <2>6. QED
      BY <2>4, <2>5 DEF Types
  <1>4. QED
    BY <1>1, <1>2, <1>3

-----------------------------------------------------------------------------

\* A step that changes nothing but the fault.
LEMMA InvFault ==
    ASSUME Inv, FaultsExplained',
           UNCHANGED <<blocks, deviceConfiguration, deviceConfigurationSize,
                       connectableDevices, file, loads, outputVars>>
    PROVE  Inv'
  <1>1. UNCHANGED outputVars
    OBVIOUS
  <1>2. ConfigInv' /\ Devices' = Devices /\ Configuration' = Configuration
        /\ Sharing' = Sharing
    BY <1>1, ConfigInvUnchanged, SameDevices DEF Inv
  <1>3. Stages'
    BY <1>1, <1>2 DEF Inv, Stages, Idle, outputVars, Types, Kinds
  <1>4. Assignments'
    BY <1>1, <1>2 DEF Inv, Assignments, typeOf, device, outputVars, Types
  <1>5. Objects'
    BY <1>1, <1>2 DEF Inv, Objects, ObjectOf, User, Types, OwnRow, Name, filenameOf,
                      device, Static, outputVars
  <1>6. Openings'
    BY <1>1, <1>2 DEF Inv, Openings, User, typeOf, device, outputVars
  <1>7. StoredWell' /\ LossesExplained'
    BY <1>1, SettledKept DEF Inv, outputVars
  <1>8. QED
    BY <1>2, <1>3, <1>4, <1>5, <1>6, <1>7 DEF Inv

LEMMA InvStutter ==
    ASSUME Inv, UNCHANGED vars
    PROVE  Inv'
  <1>1. UNCHANGED configVars /\ UNCHANGED outputVars
    BY DEF vars
  <1>2. Devices' = Devices /\ Sharing' = Sharing
    BY <1>1, SameDevices DEF configVars
  <1>3. FaultsExplained'
    BY <1>1, <1>2 DEF Inv, FaultsExplained, Live, typeOf, device, configVars,
                      outputVars
  <1>4. QED
    BY <1>1, <1>3, InvFault DEF configVars

\* A device that is connectable and freed belongs to a load that was not the
\* last and was followed by one that allocated nothing.
LEMMA InvReadFreed ==
    ASSUME Inv, ReadFreed
    PROVE  Inv'
  <1>1. /\ fault' = "freed device"
        /\ UNCHANGED <<blocks, deviceConfiguration, deviceConfigurationSize,
                       connectableDevices, file, loads, outputVars>>
    BY DEF ReadFreed
  <1>2. PICK n \in DOMAIN connectableDevices : ~Live(connectableDevices[n][1])
    BY DEF ReadFreed, Reachable
  <1> DEFINE b == connectableDevices[n][1]
  <1>3. /\ connectableDevices \in Seq((1 .. Len(blocks)) \X (Nat \ {0}))
        /\ loads \in Nat /\ Len(blocks) \in Nat
    BY ConfigAssumption DEF Inv, ConfigInv, ConfigTypeOK
  <1>4. b \in 1 .. Len(blocks)
    <2>1. connectableDevices[n] \in (1 .. Len(blocks)) \X (Nat \ {0})
      BY <1>2, <1>3
    <2>2. QED
      BY <2>1
  <1>5. ~blocks[b].live
    BY <1>2, <1>4 DEF Live
  <1>6. Len(blocks) < loads
    BY <1>2, <1>5 DEF Inv, ConfigInv, ConnectableLive
  <1>7. loads > 1
    BY <1>3, <1>4, <1>6
  <1>8. FaultsExplained'
    BY <1>1, <1>6, <1>7 DEF FaultsExplained
  <1>9. QED
    BY <1>1, <1>8, InvFault

\* A device of another configuration than the last one takes a load of its own.
LEMMA InvMeasureEarlier ==
    ASSUME Inv, NEW n \in DOMAIN connectableDevices, MeasureEarlier(n)
    PROVE  Inv'
  <1>1. /\ fault' = "unassigned plugin" /\ stage = "measure"
        /\ connectableDevices[n][1] # deviceConfiguration
        /\ UNCHANGED <<blocks, deviceConfiguration, deviceConfigurationSize,
                       connectableDevices, file, loads, outputVars>>
    BY DEF MeasureEarlier
  <1> DEFINE b == connectableDevices[n][1]
  <1>2. /\ connectableDevices \in Seq((1 .. Len(blocks)) \X (Nat \ {0}))
        /\ loads \in Nat /\ Len(blocks) \in Nat /\ Len(blocks) <= loads
        /\ deviceConfiguration \in 0 .. Len(blocks)
    BY ConfigAssumption DEF Inv, ConfigInv, ConfigTypeOK
  <1>3. b \in 1 .. Len(blocks)
    <2>1. connectableDevices[n] \in (1 .. Len(blocks)) \X (Nat \ {0})
      BY <1>2
    <2>2. QED
      BY <2>1
  <1>4. deviceConfiguration # 0
    BY <1>1 DEF Inv, Stages, Configuration, Live
  <1>5. loads > 1
    <2>1. \A x, y, k, l \in Nat :
             x \in 1 .. k /\ y \in 0 .. k /\ x # y /\ y # 0 /\ k <= l => l > 1
      OBVIOUS
    <2>2. b # deviceConfiguration
      BY <1>1
    <2> HIDE DEF b
    <2>3. \A m \in Nat : 1 .. m \subseteq Nat /\ 0 .. m \subseteq Nat
      OBVIOUS
    <2>4. b \in Nat /\ deviceConfiguration \in Nat
      BY <1>2, <1>3, <2>3
    <2>5. QED
      BY <1>2, <1>3, <1>4, <2>1, <2>2, <2>4
  <1>6. FaultsExplained'
    BY <1>1, <1>5 DEF FaultsExplained
  <1>7. QED
    BY <1>1, <1>6, InvFault

LEMMA InvNext == Inv /\ [Next]_vars => Inv'
  BY InvLoad, InvGiveUp, InvFindPlugins, InvCreateOutput, InvPluginMissing,
     InvMeasure, InvReadFreed, InvMeasureEarlier, InvEnd, InvDestroyOutput,
     InvUnloadPlugins, InvStutter DEF Next

LEMMA Invariance == Spec => []Inv
  BY InvInit, InvNext, PTL DEF Spec

-----------------------------------------------------------------------------
(* What the invariant says in the terms of module Outputs.                 *)

LEMMA InvTypeOK == Inv => TypeOK
  <1> SUFFICES ASSUME Inv PROVE TypeOK
    OBVIOUS
  <1>1. stored \subseteq [n : DOMAIN sent, row : Int, filename : STRING]
    BY DEF Inv, StoredWell
  <1>2. QED
    BY <1>1 DEF Inv, ConfigInv, Stages, Objects, TypeOK

LEMMA InvAllClosed == Inv => AllClosed
  <1> SUFFICES ASSUME Inv, stage = "done", NEW i \in open
               PROVE  i \in pinned
                      \/ \E j \in Devices : i < j /\ typeOf(j) = typeOf(i)
    BY DEF AllClosed
  <1>1. Configuration /\ i \in Devices
    BY DEF Inv, Stages, Idle
  <1>2. plugin[i] # "null" /\ plugin[i] = typeOf(i) /\ typeOf(i) # "null"
        /\ \A j \in Devices : User(j, typeOf(i)) => typeOf(j) = typeOf(i)
    BY <1>1 DEF Inv, Assignments, User
  <1>3. QED
    BY <1>2 DEF Inv, Openings

\* Types, of all that is remembered of files, connections and measurements.
THEOREM Typing == Spec => []TypeOK
  BY Invariance, InvTypeOK, PTL

\* With as many outputs as devices and a device for each, none is left over.
THEOREM Matching == Spec => []OutputsMatch
  <1>1. Inv => OutputsMatch
    BY ConfigInvOutputs DEF Inv
  <1>2. QED
    BY Invariance, <1>1, PTL

\* The devices the client can connect to are in memory and have ids of their own.
THEOREM Connectable == Spec => []ConnectableSound
  <1>1. Inv => ConnectableSound
    BY ConfigInvConnectable DEF Inv
  <1>2. QED
    BY Invariance, <1>1, PTL

\* A device that shares no shared object has its measurements in its own output.
THEOREM Own == Spec => []OwnOutput
  <1>1. Inv => OwnOutput
    BY DEF Inv, StoredWell, OwnOutput
  <1>2. QED
    BY Invariance, <1>1, PTL

\* A measurement is lost only for one of three reasons.
THEOREM Losses == Spec => []LossExplained
  <1>1. Inv => LossExplained
    BY DEF Inv, LossesExplained, Explained, LossExplained
  <1>2. QED
    BY Invariance, <1>1, PTL

\* What atmotube_end leaves open was superseded, or its tables failed.
THEOREM Closed == Spec => []AllClosed
  BY Invariance, InvAllClosed, PTL

\* Each kind of undefined behaviour needs a history of its own.
THEOREM Faults == Spec => []FaultsExplained
  <1>1. Inv => FaultsExplained
    BY DEF Inv
  <1>2. QED
    BY Invariance, <1>1, PTL

-----------------------------------------------------------------------------
(* The outputs implement MeasurementLog.                                   *)

Phase == CASE stage \in {"load", "create"} -> "setup"
           [] stage = "measure" -> "measuring"
           [] OTHER -> "ended"

Store == IF stage \in {"create", "measure"}
         THEN [i \in Devices |-> StoreOf(i)] ELSE <<>>

Numbers == {l.n : l \in OwnLines}

Refined == [Log!Next]_(Log!vars)

\* While measurements are made, a table has one row id for its device.
RowsSettled ==
    stage = "measure" => \A l \in stored :
        LET i == sent[l.n].device IN
            i \notin Sharing /\ typeOf(i) \in DbTypes =>
                l.row = object[typeOf(i)].device_row_id

LEMMA SameNumbers ==
    ASSUME UNCHANGED <<blocks, deviceConfiguration, deviceConfigurationSize,
                       rows, sent, stored>>
    PROVE  Numbers' = Numbers
  <1>1. Sharing' = Sharing
    BY SameDevices
  <1>2. OwnLines' = OwnLines
    BY <1>1 DEF OwnLines, InOwnOutput, Name, filenameOf, typeOf, device
  <1>3. QED
    BY <1>2 DEF Numbers

LEMMA NoNumbers ==
    ASSUME stored = {}
    PROVE  Numbers = {}
  BY DEF Numbers, OwnLines

\* A step after which nothing more is measured.
LEMMA EndStep ==
    ASSUME Phase' = "ended", sent' = sent, Numbers' = Numbers
    PROVE  Log!End
  <1>1. Store' = <<>>
    BY DEF Phase, Store
  <1>2. QED
    BY <1>1 DEF Log!End, Phase, Store, Numbers

LEMMA StutterStep ==
    ASSUME Phase' = Phase, Store' = Store, sent' = sent, Numbers' = Numbers
    PROVE  Refined
  BY DEF Refined, Log!vars, Phase, Store, Numbers

LEMMA LoadStep ==
    ASSUME Inv, Load
    PROVE  Refined
  <1>1. stage = "load" /\ stage' = "load" /\ stored = {} /\ stored' = {}
        /\ sent' = sent
    BY DEF Load, outputVars, Inv, Stages, Idle
  <1>2. Numbers = {} /\ Numbers' = {}
    BY <1>1, NoNumbers DEF Numbers, OwnLines
  <1>3. QED
    BY <1>1, <1>2, StutterStep DEF Phase, Store

LEMMA FindStep ==
    ASSUME Inv, NEW found \in SUBSET Types, NEW lacking \in BOOLEAN,
           FindPlugins(found, lacking)
    PROVE  Refined
  <1>1. /\ stage = "load" /\ object' = [t \in Types |-> Loaded]
        /\ stored = {} /\ stored' = {} /\ sent' = sent
        /\ stage' \in {"destroy", "create"}
    BY DEF FindPlugins, Inv, Stages, Idle
  <1>2. Numbers = {} /\ Numbers' = {}
    BY <1>1, NoNumbers DEF Numbers, OwnLines
  <1>3. CASE stage' = "destroy"
    <2>1. Log!End
      BY <1>1, <1>2, <1>3, EndStep DEF Phase
    <2>2. QED
      BY <2>1 DEF Refined, Log!Next
  <1>4. CASE stage' = "create"
    <2>1. /\ Phase = "setup" /\ Phase' = "setup" /\ Store = <<>>
          /\ Store' = [i \in Devices |-> StoreOf(i)]'
      BY <1>1, <1>4 DEF Phase, Store
    <2>2. \A d \in DOMAIN Store' : Store'[d] = "none"
      <3>1. plugin' = [d \in Devices |-> "null"] /\ Devices' = Devices
        BY DEF FindPlugins, Devices
      <3>2. \A d \in Devices' : StoreOf(d)' = "none"
        BY <3>1 DEF StoreOf
      <3>3. QED
        BY <2>1, <3>2
    <2>3. Log!Configure
      BY <1>1, <1>2, <2>1, <2>2 DEF Log!Configure, Phase, Store, Numbers
    <2>4. QED
      BY <2>3 DEF Refined, Log!Next
  <1>5. QED
    BY <1>1, <1>3, <1>4

LEMMA CreateStep ==
    ASSUME Inv, CreateOutput
    PROVE  Refined
  <1>0. PICK d, t : d = next /\ t = typeOf(d)
    OBVIOUS
  <1> DEFINE s == StoreOf(d)'
  <1>1. /\ stage = "create" /\ stage' \in {"create", "measure"}
        /\ stored = {} /\ stored' = {} /\ sent' = sent
        /\ d \in Devices /\ Devices' = Devices /\ Sharing' = Sharing
        /\ t \in Types
        /\ UNCHANGED <<blocks, deviceConfiguration>>
    BY <1>0, CreateFacts DEF CreateOutput, NextRound
  <1>2. Numbers = {} /\ Numbers' = {}
    BY <1>1, NoNumbers DEF Numbers, OwnLines
  <1>3. /\ plugin' = [plugin EXCEPT ![d] = t]
        /\ plugin \in [Devices -> Types \cup {"null"}]
        /\ \A i \in Devices : plugin[i] # "null" =>
                plugin[i] = typeOf(i) /\ typeOf(i) \in Types
    BY <1>0, CreateFacts DEF CreateOutput, Inv, Assignments
  <1>4. \A u \in Types : u # t => object'[u] = object[u]
    <2>1. PICK p : object' = [object EXCEPT ![t] = p]
      BY <1>0 DEF CreateOutput, StartFile, StartDb
    <2>2. QED
      BY <2>1 DEF Inv, Objects
  <1>5. \A i \in Devices : i # d => StoreOf(i)' = StoreOf(i)
    <2> SUFFICES ASSUME NEW i \in Devices, i # d
                 PROVE  StoreOf(i)' = StoreOf(i)
      OBVIOUS
    <2>1. plugin'[i] = plugin[i]
      BY <1>3
    <2>2. CASE i \in Sharing \/ plugin[i] = "null"
      BY <1>1, <2>1, <2>2 DEF StoreOf
    <2>3. CASE i \notin Sharing /\ plugin[i] # "null"
      <3>1. plugin[i] = typeOf(i) /\ plugin[i] \in Types
        BY <1>3, <2>3
      <3>2. typeOf(i) # t
        BY <1>0, <1>1, <2>3 DEF Sharing
      <3>3. object'[plugin[i]] = object[plugin[i]]
        BY <1>4, <3>1, <3>2
      <3>4. QED
        BY <1>1, <2>1, <3>3 DEF StoreOf
    <2>4. QED
      BY <2>2, <2>3
  <1>6. /\ Store = [i \in Devices |-> StoreOf(i)]
        /\ Store' = [i \in Devices |-> StoreOf(i)']
    BY <1>1 DEF Store
  <1>7. Store' = [Store EXCEPT ![d] = s]
    <2> HIDE DEF s
    <2> DEFINE F(i) == StoreOf(i)'
               G(i) == StoreOf(i)
    <2>1. /\ \A i \in Devices : F(i) = IF i = d THEN s ELSE G(i)
          /\ Store' = [i \in Devices |-> F(i)] /\ Store = [i \in Devices |-> G(i)]
      BY <1>5, <1>6 DEF s
    <2> HIDE DEF F, G
    <2>2. Store' = [i \in Devices |-> IF i = d THEN s ELSE G(i)]
      BY <2>1
    <2>3. QED
      BY <1>1, <2>1, <2>2
  <1>8. s \in {"none", "file", "table"} /\ d \in DOMAIN Store
    BY <1>1, <1>6 DEF StoreOf
  <1>9. Phase = "setup" /\ Phase' \in {"setup", "measuring"}
    BY <1>1 DEF Phase
  <1> HIDE DEF s
  <1>10. Log!Attach(d, s)
    BY <1>1, <1>2, <1>7, <1>9 DEF Log!Attach, Phase, Store, Numbers
  <1>11. QED
    BY <1>8, <1>10 DEF Refined, Log!Next, Store

\* What a measurement adds to the numbers, and that nothing is taken away.
LEMMA OldLines ==
    ASSUME Inv, NEW i \in Devices, NEW kind \in Kinds, NEW ts \in Times,
           Measure(i, kind, ts)
    PROVE  /\ Len(sent) \in Nat /\ DOMAIN sent = 1 .. Len(sent)
           /\ sent' = Append(sent, [device |-> i, kind |-> kind, ts |-> ts])
           /\ sent'[Len(sent) + 1].device = i
           /\ \A l \in stored : /\ l.n \in 1 .. Len(sent)
                                /\ sent'[l.n] = sent[l.n]
                                /\ InOwnOutput(l)' <=> InOwnOutput(l)
           /\ Devices' = Devices /\ Sharing' = Sharing
           /\ stored' = stored => Numbers' = Numbers
  <1> DEFINE m == [device |-> i, kind |-> kind, ts |-> ts]
  <1>1. /\ sent \in Seq([device : Devices, kind : Kinds, ts : Times])
        /\ m \in [device : Devices, kind : Kinds, ts : Times]
        /\ sent' = Append(sent, m)
        /\ UNCHANGED <<blocks, deviceConfiguration, deviceConfigurationSize, rows>>
    BY DEF Measure, Inv, Stages
  <1>2. /\ Len(sent) \in Nat /\ DOMAIN sent = 1 .. Len(sent)
        /\ \A k \in 1 .. Len(sent) : sent'[k] = sent[k]
        /\ sent'[Len(sent) + 1] = m
    <2> HIDE DEF m
    <2> QED BY <1>1, AppendFacts
  <1>3. Devices' = Devices /\ Sharing' = Sharing
    BY <1>1, SameDevices
  <1>4. ASSUME NEW l \in stored
        PROVE  /\ l.n \in 1 .. Len(sent)
               /\ sent'[l.n] = sent[l.n]
               /\ InOwnOutput(l)' <=> InOwnOutput(l)
    <2>1. l.n \in 1 .. Len(sent)
      BY <1>2 DEF Inv, StoredWell
    <2>2. sent'[l.n] = sent[l.n]
      BY <1>2, <2>1
    <2>3. QED
      BY <1>1, <2>1, <2>2 DEF InOwnOutput, Name, filenameOf, typeOf, device
  <1>5. ASSUME stored' = stored PROVE Numbers' = Numbers
    <2>1. OwnLines' = OwnLines
      BY <1>3, <1>4, <1>5 DEF OwnLines
    <2>2. QED
      BY <2>1 DEF Numbers
  <1>6. QED
    BY <1>1, <1>2, <1>3, <1>4, <1>5

LEMMA NewLine ==
    ASSUME Inv, NEW i \in Devices, NEW kind \in Kinds, NEW ts \in Times,
           Measure(i, kind, ts),
           NEW l, l.n = Len(sent) + 1, stored' = stored \cup {l}
    PROVE  Numbers' = IF i \notin Sharing /\ InOwnOutput(l)'
                      THEN Numbers \cup {Len(sent) + 1} ELSE Numbers
  <1>1. /\ \A k \in stored : /\ sent'[k.n] = sent[k.n]
                             /\ InOwnOutput(k)' <=> InOwnOutput(k)
        /\ Sharing' = Sharing /\ sent'[l.n].device = i
    BY OldLines
  <1>2. OwnLines' = IF i \notin Sharing /\ InOwnOutput(l)'
                    THEN OwnLines \cup {l} ELSE OwnLines
    BY <1>1 DEF OwnLines
  <1>3. CASE i \notin Sharing /\ InOwnOutput(l)'
    BY <1>2, <1>3 DEF Numbers
  <1>4. CASE ~(i \notin Sharing /\ InOwnOutput(l)')
    BY <1>2, <1>4 DEF Numbers
  <1>5. QED
    BY <1>3, <1>4

LEMMA ElementOf ==
    ASSUME NEW S, NEW s \in Seq(S), NEW k \in DOMAIN s
    PROVE  s[k] \in S
  OBVIOUS

\* A device with a store of its own writes to it, and a table refuses what the
\* log refuses.
LEMMA TableLine ==
    ASSUME Inv, RowsSettled, NEW i \in Devices, NEW kind \in Kinds, NEW ts \in Times,
           Measure(i, kind, ts), i \notin Sharing,
           typeOf(i) \in DbTypes, OwnRow(i, object[typeOf(i)]),
           NEW m, m = [device |-> i, kind |-> kind, ts |-> ts]
    PROVE  Refuses(Line(object[typeOf(i)]), m) <=>
              kind # "voc" /\ \E n \in Numbers : sent[n] = m
  <1> DEFINE o == object[typeOf(i)]
             r == o.device_row_id
             f == filenameOf(i)
  <1>1. /\ Line(o).filename = f /\ Line(o).row = r
        /\ m.kind = kind /\ m.ts = ts /\ m.device = i
    BY DEF Line, OwnRow
  <1>2. /\ Configuration /\ stage = "measure"
        /\ sent \in Seq([device : Devices, kind : Kinds, ts : Times])
    BY DEF Measure, Inv, Stages
  <1>3. f \in DbFilenames
    BY <1>2, DeviceFacts DEF Inv
  <1>4. \A l \in stored :
           /\ l.n \in DOMAIN sent
           /\ l.filename \in DbFilenames <=> typeOf(sent[l.n].device) \in DbTypes
           /\ sent[l.n].device \notin Sharing => InOwnOutput(l)
    BY DEF Inv, StoredWell
  <1> HIDE DEF f, r, o
  <1>5. ASSUME Refuses(Line(o), m)
        PROVE  kind # "voc" /\ \E n \in Numbers : sent[n] = m
    <2>1. PICK l \in stored :
             /\ l.filename = f
             /\ sent[l.n].kind = kind
             /\ sent[l.n].ts = ts
             /\ kind = "humidity" \/ kind = "temperature"
      BY <1>1, <1>5 DEF Refuses
    <2>2. typeOf(sent[l.n].device) \in DbTypes
      BY <1>3, <1>4, <2>1
    <2>3. sent[l.n] \in [device : Devices, kind : Kinds, ts : Times]
      BY <1>2, <1>4, ElementOf
    <2>4. sent[l.n].device = i
      <3>1. typeOf(sent[l.n].device) = typeOf(i)
        BY <2>2, OutputsAssumption
      <3>2. sent[l.n].device \in Devices
        BY <2>3
      <3>3. QED
        BY <3>1, <3>2 DEF Sharing
    <2>5. l \in OwnLines
      BY <1>4, <2>4 DEF OwnLines
    <2>6. sent[l.n] = m
      BY <2>1, <2>3, <2>4
    <2>7. QED
      BY <2>1, <2>5, <2>6 DEF Numbers
  <1>6. ASSUME kind # "voc", NEW n \in Numbers, sent[n] = m
        PROVE  Refuses(Line(o), m)
    <2>1. PICK l \in stored : l.n = n /\ InOwnOutput(l)
      BY DEF Numbers, OwnLines
    <2>2. sent[l.n].device = i /\ sent[l.n].kind = kind /\ sent[l.n].ts = ts
      BY <1>1, <1>6, <2>1
    <2>3. l.filename = f
      BY <2>1, <2>2 DEF InOwnOutput, f
    <2>4. l.row = r
      BY <1>2, <2>2 DEF RowsSettled, r, o
    <2>5. kind = "humidity" \/ kind = "temperature"
      BY <1>6 DEF Kinds
    <2>6. QED
      BY <1>1, <2>2, <2>3, <2>4, <2>5 DEF Refuses
  <1>7. QED
    BY <1>5, <1>6 DEF o

LEMMA MeasureNumbers ==
    ASSUME Inv, RowsSettled, NEW i \in Devices, NEW kind \in Kinds, NEW ts \in Times,
           Measure(i, kind, ts),
           NEW m, m = [device |-> i, kind |-> kind, ts |-> ts]
    PROVE  Numbers' =
              IF \/ StoreOf(i) = "file"
                 \/ /\ StoreOf(i) = "table"
                    /\ ~(kind # "voc" /\ \E n \in Numbers : sent[n] = m)
              THEN Numbers \cup {Len(sent) + 1} ELSE Numbers
  <1> DEFINE t == typeOf(i)
             o == object[t]
             n == Len(sent) + 1
  <1>1. /\ stage = "measure" /\ Configuration /\ plugin[i] = t /\ t \in Types
        /\ t # "null"
        /\ \A j \in Devices : plugin[j] = typeOf(j)
        /\ o.handle # 0 => User(o.handle, t)
        /\ t \in FileTypes /\ o.started /\ o.handle = 0 =>
              \E k \in unstarted, j \in Devices : k # j /\ User(k, t) /\ User(j, t)
        /\ t \in DbTypes /\ o.started =>
              \A k \in Devices : User(k, t) /\ k \notin Sharing => OwnRow(k, o)
    BY OutputsAssumption DEF Measure, Inv, Stages, Assignments, Objects, ObjectOf, Types
  <1>2. \/ ~o.started /\ UNCHANGED stored
        \/ o.started /\ t \in FileTypes /\ WriteFile(o)
        \/ o.started /\ t \in DbTypes /\ WriteDb(o, m)
    BY <1>1 DEF Measure, Takes
  <1>3. \A k \in Devices : User(k, t) => typeOf(k) = t
    BY <1>1 DEF User
  <1>4. StoreOf(i) = IF i \in Sharing \/ ~o.started THEN "none"
                     ELSE IF t \in DbTypes THEN "table" ELSE "file"
    BY <1>1 DEF StoreOf
  <1>5. stored' = stored => Numbers' = Numbers
    BY OldLines
  <1>6. ASSUME NEW l, l.n = n, stored' = stored \cup {l}
        PROVE  Numbers' = IF i \notin Sharing /\ InOwnOutput(l)'
                          THEN Numbers \cup {n} ELSE Numbers
    BY <1>6, NewLine
  <1>7. CASE ~o.started /\ UNCHANGED stored
    BY <1>4, <1>5, <1>7
  <1>8. CASE o.started /\ i \in Sharing
    <2>1. CASE stored' = stored
      BY <1>4, <1>5, <1>8, <2>1
    <2>2. CASE stored' # stored
      <3>1. \E l : l.n = n /\ stored' = stored \cup {l}
        BY <1>2, <1>8, <2>2 DEF WriteFile, WriteDb, Line
      <3>2. Numbers' = Numbers
        BY <1>6, <1>8, <3>1
      <3>3. QED
        BY <1>4, <1>8, <3>2
    <2>3. QED
      BY <2>1, <2>2
  <1>9. ASSUME i \notin Sharing, NEW l, l.n = n, l.filename = filenameOf(i),
               t \in DbTypes => /\ l.row \in DOMAIN rows[l.filename]
                                /\ rows[l.filename][l.row] = Name(i)
        PROVE  InOwnOutput(l)'
    <2>1. sent'[n].device = i
      BY OldLines
    <2>2. UNCHANGED <<blocks, deviceConfiguration, rows>>
      BY DEF Measure
    <2>3. QED
      BY <1>9, <2>1, <2>2 DEF InOwnOutput, filenameOf, typeOf, Name, device
  <1>10. CASE o.started /\ i \notin Sharing /\ t \in FileTypes /\ WriteFile(o)
    <2>1. o.handle # 0
      <3>1. SUFFICES ASSUME o.handle = 0 PROVE FALSE
        OBVIOUS
      <3>2. PICK k \in unstarted, j \in Devices : k # j /\ User(k, t) /\ User(j, t)
        BY <1>1, <1>10, <3>1
      <3>3. k \in Devices /\ typeOf(k) = t /\ typeOf(j) = t
        BY <1>3, <3>2 DEF User
      <3>4. QED
        BY <1>10, <3>2, <3>3 DEF Sharing
    <2>2. o.handle = i
      <3>1. o.handle \in Devices /\ typeOf(o.handle) = t
        BY <1>1, <1>3, <2>1 DEF User
      <3>2. QED
        BY <1>10, <3>1 DEF Sharing
    <2>0. PICK l : l = [n |-> n, row |-> 0, filename |-> filenameOf(i)]
      OBVIOUS
    <2>3. stored' = stored \cup {l}
      BY <1>10, <2>0, <2>1, <2>2 DEF WriteFile
    <2>4. t \notin DbTypes
      BY <1>10, OutputsAssumption
    <2>5. l.n = n /\ l.filename = filenameOf(i)
      BY <2>0
    <2> HIDE DEF n
    <2>6. InOwnOutput(l)'
      BY <1>9, <1>10, <2>4, <2>5
    <2>7. Numbers' = Numbers \cup {n}
      BY <1>6, <1>10, <2>3, <2>5, <2>6
    <2>8. QED
      BY <1>4, <1>10, <2>4, <2>7 DEF n
  <1>11. CASE o.started /\ i \notin Sharing /\ t \in DbTypes /\ WriteDb(o, m)
    <2>1. OwnRow(i, o)
      BY <1>1, <1>11 DEF User
    <2>2. i # 0 /\ o.statements = i
      BY <2>1 DEF Devices, OwnRow
    <2>3. ~Contended(o.statements)
      <3>1. SUFFICES ASSUME NEW j \in open \ {i}, typeOf(j) \in DbTypes
                     PROVE  FALSE
        BY <2>2 DEF Contended
      <3>2. j \in Devices /\ typeOf(j) = t
        <4>1. j \in Devices
          BY DEF Inv, Stages
        <4>2. \A u, v \in DbTypes : u = v
          BY OutputsAssumption
        <4>3. typeOf(j) = t
          BY <1>11, <3>1, <4>2
        <4>4. QED
          BY <4>1, <4>3
      <3>3. QED
        BY <1>11, <3>2 DEF Sharing
    <2>0. PICK l : l = Line(o)
      OBVIOUS
    <2> DEFINE refused == Refuses(l, m)
    <2>4. /\ refused => stored' = stored
          /\ ~refused => stored' = stored \cup {l}
      BY <1>11, <2>0, <2>2, <2>3 DEF WriteDb
    <2>5. refused <=> kind # "voc" /\ \E k \in Numbers : sent[k] = m
      BY <1>11, <2>0, <2>1, TableLine
    <2>6. /\ l.n = n /\ l.filename = filenameOf(i)
          /\ l.row \in DOMAIN rows[l.filename]
          /\ rows[l.filename][l.row] = Name(i)
      BY <2>0, <2>1 DEF Line, OwnRow
    <2> HIDE DEF n, refused
    <2>7. InOwnOutput(l)'
      BY <1>9, <1>11, <2>6
    <2>8. Numbers' = IF refused THEN Numbers ELSE Numbers \cup {n}
      BY <1>5, <1>6, <1>11, <2>4, <2>6, <2>7
    <2>9. QED
      BY <1>4, <1>11, <2>5, <2>8 DEF n
  <1>12. QED
    BY <1>2, <1>7, <1>8, <1>10, <1>11

LEMMA MeasureStep ==
    ASSUME Inv, RowsSettled, NEW i \in Devices, NEW kind \in Kinds, NEW ts \in Times,
           Measure(i, kind, ts)
    PROVE  Refined
  <1> DEFINE m == [device |-> i, kind |-> kind, ts |-> ts]
  <1>1. /\ stage = "measure" /\ stage' = "measure" /\ sent' = Append(sent, m)
        /\ Devices' = Devices /\ Sharing' = Sharing
        /\ UNCHANGED <<plugin, object>>
    BY OldLines DEF Measure
  <1>2. Store' = Store
    BY <1>1 DEF Store, StoreOf
  <1>3. Phase = "measuring" /\ Phase' = Phase
    BY <1>1 DEF Phase
  <1>4. Store[m.device] = StoreOf(i) /\ m.kind = kind /\ i \in DOMAIN Store
    BY <1>1 DEF Store
  <1> DEFINE recorded == \/ Store[m.device] = "file"
                         \/ /\ Store[m.device] = "table"
                            /\ ~(m.kind # "voc" /\ \E n \in Numbers : sent[n] = m)
  <1>5. Numbers' = IF recorded THEN Numbers \cup {Len(sent) + 1} ELSE Numbers
    BY <1>4, MeasureNumbers
  <1>6. Log!Recorded(m) <=> recorded
    BY DEF Log!Recorded, Log!Refused, Store, Numbers
  <1> HIDE DEF m, recorded
  <1>7. Log!Record(m)
    BY <1>1, <1>2, <1>3, <1>5, <1>6 DEF Log!Record, Phase, Store, Numbers
  <1>8. QED
    BY <1>4, <1>7 DEF m, Refined, Log!Next, Store

LEMMA RefinedStep ==
    ASSUME Inv, RowsSettled, [Next]_vars
    PROVE  Refined
  <1>1. ASSUME GiveUp PROVE Refined
    <2>1. stored = {} /\ stored' = {} /\ sent' = sent /\ stage' = "destroy"
      BY <1>1 DEF GiveUp, Inv, Stages, Idle
    <2>2. Numbers = {} /\ Numbers' = {}
      BY <2>1, NoNumbers DEF Numbers, OwnLines
    <2>3. Log!End
      BY <2>1, <2>2, EndStep DEF Phase
    <2>4. QED
      BY <2>3 DEF Refined, Log!Next
  <1>2. ASSUME PluginMissing \/ End PROVE Refined
    <2>1. Numbers' = Numbers /\ sent' = sent /\ stage' = "destroy"
      BY <1>2, SameNumbers DEF PluginMissing, End, configVars
    <2>2. Log!End
      BY <2>1, EndStep DEF Phase
    <2>3. QED
      BY <2>2 DEF Refined, Log!Next
  <1>3. ASSUME DestroyOutput PROVE Refined
    <2>1. Numbers' = Numbers /\ sent' = sent
          /\ stage = "destroy" /\ stage' = "destroy"
      BY <1>3, DestroyFacts, SameNumbers
    <2>2. QED
      BY <2>1, StutterStep DEF Phase, Store
  <1>4. ASSUME UnloadPlugins PROVE Refined
    <2>1. Numbers' = Numbers /\ sent' = sent
          /\ stage = "destroy" /\ stage' = "done"
      BY <1>4, SameNumbers DEF UnloadPlugins, configVars
    <2>2. QED
      BY <2>1, StutterStep DEF Phase, Store
  <1>5. ASSUME \/ UNCHANGED vars
               \/ ReadFreed
               \/ \E n \in DOMAIN connectableDevices : MeasureEarlier(n)
        PROVE  Refined
    <2>1. UNCHANGED <<blocks, deviceConfiguration, deviceConfigurationSize,
                      rows, sent, stored, stage, plugin, object>>
      BY <1>5 DEF vars, configVars, outputVars, ReadFreed, MeasureEarlier
    <2>2. Numbers' = Numbers /\ Devices' = Devices /\ Sharing' = Sharing
      BY <2>1, SameNumbers, SameDevices
    <2>3. Store' = Store /\ Phase' = Phase
      BY <2>1, <2>2 DEF Store, StoreOf, Phase
    <2>4. QED
      BY <2>1, <2>2, <2>3, StutterStep
  <1>6. QED
    BY <1>1, <1>2, <1>3, <1>4, <1>5, LoadStep, FindStep, CreateStep, MeasureStep
       DEF Next

LEMMA RefinedInit ==
    ASSUME Init
    PROVE  Log!Init
  <1>1. stage = "load" /\ sent = <<>> /\ stored = {}
    BY DEF Init
  <1>2. Numbers = {} /\ Phase = "setup" /\ Store = <<>>
    BY <1>1, NoNumbers DEF Phase, Store
  <1>3. QED
    BY <1>1, <1>2 DEF Log!Init, Phase, Store, Numbers

\* RowsSettled is kept: the row is that of the object when the line is written,
\* and no object changes while measurements are made.
LEMMA RowsSettledStep ==
    ASSUME Inv, RowsSettled, [Next]_vars
    PROVE  RowsSettled'
  <1>1. ASSUME NEW i \in Devices, NEW kind \in Kinds, NEW ts \in Times,
               Measure(i, kind, ts)
        PROVE  RowsSettled'
    <2>1. /\ stage = "measure" /\ UNCHANGED <<object, blocks, deviceConfiguration>>
          /\ plugin[i] = typeOf(i)
      BY <1>1 DEF Measure, Inv, Stages, Assignments
    <2>2. /\ \A l \in stored : sent'[l.n] = sent[l.n]
          /\ Sharing' = Sharing /\ sent'[Len(sent) + 1].device = i
      BY <1>1, OldLines
    <2>3. ASSUME NEW l \in stored', (sent[l.n].device \notin Sharing)',
                 (typeOf(sent[l.n].device) \in DbTypes)'
          PROVE  (l.row = object[typeOf(sent[l.n].device)].device_row_id)'
      <3>1. CASE l \in stored
        BY <2>1, <2>2, <2>3, <3>1 DEF RowsSettled, typeOf, device
      <3>2. CASE l \notin stored
        <4>1. \/ plugin[i] \in FileTypes /\ l.n = Len(sent) + 1
              \/ /\ l = Line(object[plugin[i]])
                 /\ l.n = Len(sent) + 1
          <5> DEFINE o == object[plugin[i]]
                     m == [device |-> i, kind |-> kind, ts |-> ts]
          <5>1. \/ stored' = stored
                \/ plugin[i] \in FileTypes /\ WriteFile(o)
                \/ WriteDb(o, m)
            BY <1>1 DEF Measure
          <5> HIDE DEF o, m
          <5>2. Line(o).n = Len(sent) + 1
            BY DEF Line
          <5>3. ASSUME WriteFile(o) PROVE l.n = Len(sent) + 1
            <6> DEFINE f == [n |-> Len(sent) + 1, row |-> 0,
                             filename |-> filenameOf(o.handle)]
            <6>1. f.n = Len(sent) + 1
              OBVIOUS
            <6>2. stored' = stored \/ stored' = stored \cup {f}
              BY <5>3 DEF WriteFile
            <6> HIDE DEF f
            <6>3. l = f
              BY <3>2, <6>2
            <6>4. QED
              BY <6>1, <6>3
          <5>4. ASSUME WriteDb(o, m) PROVE l = Line(o)
            BY <3>2, <5>4 DEF WriteDb
          <5>5. QED
            BY <3>2, <5>1, <5>2, <5>3, <5>4 DEF o
        <4>2. sent'[l.n].device = i
          BY <2>2, <4>1
        <4>3. typeOf(i) \in DbTypes
          BY <2>1, <2>3, <4>2 DEF typeOf, device
        <4>4. plugin[i] \notin FileTypes
          BY <2>1, <4>3, OutputsAssumption
        <4>5. l.row = object[typeOf(i)].device_row_id
          BY <2>1, <4>1, <4>4 DEF Line
        <4>6. QED
          BY <2>1, <4>2, <4>5 DEF typeOf, device
      <3>3. QED
        BY <3>1, <3>2
    <2>4. QED
      BY <2>3 DEF RowsSettled
  <1>2. CASE stage' # "measure"
    BY <1>2 DEF RowsSettled
  <1>3. CASE stored' = {}
    BY <1>3 DEF RowsSettled
  <1>4. ASSUME Load \/ GiveUp \/ CreateOutput \/ PluginMissing \/ End
               \/ DestroyOutput \/ UnloadPlugins
               \/ \E found \in SUBSET Types, lacking \in BOOLEAN :
                     FindPlugins(found, lacking)
        PROVE  stage' # "measure" \/ stored' = {}
    <2>1. ASSUME CreateOutput PROVE stored' = {}
      BY <2>1, CreateFacts
    <2>2. QED
      BY <1>4, <2>1 DEF Load, outputVars, GiveUp, PluginMissing, End, DestroyOutput,
                        UnloadPlugins, FindPlugins
  <1>5. CASE \/ UNCHANGED vars
             \/ ReadFreed
             \/ \E n \in DOMAIN connectableDevices : MeasureEarlier(n)
    <2>1. UNCHANGED <<blocks, deviceConfiguration, deviceConfigurationSize,
                      sent, stored, stage, object>>
      BY <1>5 DEF vars, configVars, outputVars, ReadFreed, MeasureEarlier
    <2>2. Sharing' = Sharing
      BY <2>1, SameDevices
    <2>3. QED
      BY <2>1, <2>2 DEF RowsSettled, typeOf, device
  <1>6. QED
    BY <1>1, <1>2, <1>3, <1>4, <1>5 DEF Next

\* plugin_start, the output functions and plugin_stop, with one set of static
\* variables per shared object and whatever refusals, keep a log for every device
\* that has its output type to itself: each measurement made of it after its
\* output started is in its own file, or under its own row in its own database,
\* except those the keys of the humidity and temperature tables exclude; none
\* comes twice, none is taken back, and none is made after atmotube_end.
THEOREM Refinement == Spec => ImplementsLog
  <1>1. Init => RowsSettled
    BY DEF Init, RowsSettled
  <1>2. RowsSettled /\ Inv /\ [Next]_vars => RowsSettled'
    BY RowsSettledStep
  <1>3. RowsSettled /\ Inv /\ [Next]_vars => [Log!Next]_(Log!vars)
    BY RefinedStep DEF Refined
  <1>4. Init => Log!Init
    BY RefinedInit
  <1>5. QED
    BY <1>1, <1>2, <1>3, <1>4, Invariance, PTL DEF Spec, ImplementsLog, Log!Spec

=============================================================================
