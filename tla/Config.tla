------------------------------- MODULE Config -------------------------------
(***************************************************************************)
(* The configuration loader: atmotube_config_load of atmotube-config.c and *)
(* atmotube_add_devices_from_config of atmotube.c, which gives it the      *)
(* memory for the devices and keeps the devices it filled in.              *)
(*                                                                         *)
(* A configuration file is what the parser made of it: the sequences of    *)
(* its device and output sections.  An option that is missing has the      *)
(* value Unset, a missing resolution is 0.  A device's address follows its *)
(* name here: two sections with one name are one sensor.                   *)
(*                                                                         *)
(* deviceConfiguration points to one heap block per load that came as far  *)
(* as numDevicesCb; `blocks` keeps them all, so that a pointer left behind *)
(* in connectableDevices can be told from a good one.                      *)
(***************************************************************************)
EXTENDS Integers, Sequences, FiniteSets

CONSTANTS
    Files,      \* the configuration files there are
    Unset,      \* the value of a string option that is missing
    MaxLoads    \* bound: calls of atmotube_add_devices_from_config

\* A string option of a file.
Option == {Unset} \cup STRING

ASSUME ConfigAssumption ==
    /\ MaxLoads \in Nat
    /\ \A f \in Files :
          /\ f.parses \in BOOLEAN
          /\ f.plugin_dir \in BOOLEAN
          /\ f.devices \in Seq([name : Option, resolution : Int])
          /\ f.outputs \in
                Seq([source : Option, type : Option, filename : Option])

VARIABLES
    blocks,                   \* every block numDevicesCb ever allocated
    deviceConfiguration,      \* index in blocks, or 0 for NULL
    deviceConfigurationSize,
    connectableDevices,       \* sequence of <<block, device>> pointers
    file,                     \* history: the last file loaded, or Unset
    loads,                    \* history: how many loads were tried
    fault                     \* the first undefined behaviour, or "none"

configVars == <<blocks, deviceConfiguration, deviceConfigurationSize,
                connectableDevices, file, loads, fault>>

Null == 0

\* The memory a pointer of connectableDevices or deviceConfiguration points to.
Live(b) == b # Null /\ blocks[b].live

-----------------------------------------------------------------------------
(* What the loader makes of a file.                                        *)

\* validate_device, validate_output, validate_global: no option is missing.
Valid(f) ==
    /\ f.plugin_dir
    /\ \A i \in DOMAIN f.devices :
          f.devices[i].name # Unset /\ f.devices[i].resolution # 0
    /\ \A j \in DOMAIN f.outputs :
          Unset \notin {f.outputs[j].source, f.outputs[j].type,
                        f.outputs[j].filename}

\* Bug: the number of outputs is not compared with the number of devices.
AcceptedUncounted(f) == f.parses /\ Valid(f)

\* What is checked before the memory for the devices is asked for.
Accepted(f) ==
    /\ f.parses
    /\ Valid(f)
    /\ Len(f.devices) = Len(f.outputs)

\* The outputs whose source is the name of device i.
OutputsFor(f, i) ==
    {j \in DOMAIN f.outputs : f.outputs[j].source = f.devices[i].name}

\* Each output has a device, and each device an output.
Matched(f) ==
    /\ \A j \in DOMAIN f.outputs :
          \E i \in DOMAIN f.devices : j \in OutputsFor(f, i)
    /\ \A i \in DOMAIN f.devices : OutputsFor(f, i) # {}

\* The loop over the outputs overwrites: of several the last one stays.
OutputOf(f, i) ==
    f.outputs[CHOOSE j \in OutputsFor(f, i) :
                 \A other \in OutputsFor(f, i) : other <= j]

Configured(f) ==
    [i \in DOMAIN f.devices |->
        [device_id |-> i - 1,
         device_name |-> f.devices[i].name,
         device_resolution |-> f.devices[i].resolution,
         output_type |-> OutputOf(f, i).type,
         output_filename |-> OutputOf(f, i).filename]]

\* modify_intervals: INTERVAL_SEC_TO_MS, stored in a uint16_t.
IntervalMs(resolution) == (resolution * 1000) % 65536

-----------------------------------------------------------------------------

Block(devices) == [live |-> TRUE, devices |-> devices]

FreedBlock == [live |-> FALSE, devices |-> <<>>]

\* Bug: the block of an earlier load is given back, though its devices are
\* still connectable.
AllocatedInstead(block) ==
    Append(IF Live(deviceConfiguration)
           THEN [blocks EXCEPT ![deviceConfiguration] = FreedBlock]
           ELSE blocks, block)

\* atmotube_num_devices: the block of an earlier load is forgotten.
Allocated(block) == Append(blocks, block)

ConfigInit ==
    /\ blocks = <<>>
    /\ deviceConfiguration = Null
    /\ deviceConfigurationSize = 0
    /\ connectableDevices = <<>>
    /\ file = Unset
    /\ loads = 0
    /\ fault = "none"

\* The load fails before numDevicesCb.  atmotube_add_devices_from_config frees
\* deviceConfiguration all the same, which is that of an earlier load.
LoadRejected(f) ==
    /\ ~Accepted(f)
    /\ IF Live(deviceConfiguration)
       THEN /\ blocks' = [blocks EXCEPT ![deviceConfiguration] = FreedBlock]
            /\ UNCHANGED fault
       ELSE /\ fault' = IF deviceConfiguration = Null THEN fault
                                                      ELSE "double free"
            /\ UNCHANGED blocks
    /\ UNCHANGED <<deviceConfiguration, deviceConfigurationSize,
                   connectableDevices, file>>

\* The load fails after numDevicesCb: the strings and the new block are freed,
\* the pointer and the size stay.
LoadUnmatched(f) ==
    /\ Accepted(f)
    /\ ~Matched(f)
    /\ blocks' = Allocated(FreedBlock)
    /\ deviceConfiguration' = Len(blocks) + 1
    /\ deviceConfigurationSize' = Len(f.devices)
    /\ UNCHANGED <<connectableDevices, file, fault>>

\* What deviceFb says of each resolution is ignored.
LoadComplete(f) ==
    /\ Accepted(f)
    /\ Matched(f)
    /\ blocks' = Allocated(Block(Configured(f)))
    /\ deviceConfiguration' = Len(blocks) + 1
    /\ deviceConfigurationSize' = Len(f.devices)
    /\ connectableDevices' =
          connectableDevices \o [i \in DOMAIN f.devices |-> <<Len(blocks) + 1, i>>]
    /\ file' = f
    /\ UNCHANGED fault

AddDevices(f) ==
    /\ fault = "none"
    /\ loads < MaxLoads
    /\ loads' = loads + 1
    /\ \/ LoadRejected(f)
       \/ LoadUnmatched(f)
       \/ LoadComplete(f)

ConfigNext == \E f \in Files : AddDevices(f)

ConfigSpec == ConfigInit /\ [][ConfigNext]_configVars

-----------------------------------------------------------------------------
(* Properties.                                                             *)

Device == [device_id : Nat, device_name : STRING, device_resolution : Int,
           output_type : STRING, output_filename : STRING]

ConfigTypeOK ==
    /\ blocks \in Seq([live : BOOLEAN, devices : Seq(Device)])
    /\ deviceConfiguration \in 0 .. Len(blocks)
    /\ deviceConfigurationSize \in Nat
    /\ connectableDevices \in Seq((1 .. Len(blocks)) \X (Nat \ {0}))
    /\ file \in Files \cup {Unset}
    /\ loads \in 0 .. MaxLoads

\* A configuration that loads uses all of its outputs: with distinct device
\* names, counting the sections and finding a device for each output and an
\* output for each device leave no output over and give none to two devices.
OutputsMatch ==
    LET devices == blocks[deviceConfiguration].devices IN
    (/\ Live(deviceConfiguration)
     /\ \A i, j \in DOMAIN devices :
           devices[i].device_name = devices[j].device_name => i = j)
    => \A j \in DOMAIN file.outputs :
          \E i \in DOMAIN devices :
             /\ devices[i].device_name = file.outputs[j].source
             /\ devices[i].output_type = file.outputs[j].type
             /\ devices[i].output_filename = file.outputs[j].filename

\* A device that can be connected to stays in memory however many further
\* configurations are added, until a load fails so early that it has no memory
\* of its own to give back.  Of the devices of one configuration no two have the
\* same device_id, the key of their intervals.
ConnectableSound ==
    \A m, n \in DOMAIN connectableDevices :
        LET c == connectableDevices[m]
            d == connectableDevices[n] IN
        /\ Live(c[1]) \/ Len(blocks) < loads
        /\ (/\ m # n
            /\ Live(c[1]) /\ Live(d[1])
            /\ blocks[c[1]].devices[c[2]].device_id
               = blocks[d[1]].devices[d[2]].device_id)
           => c[1] # d[1]

\* include/atmotube.h: "resolution is in miliseconds."  The period of the
\* intervals of a device is its resolution, read in milliseconds or, as the
\* code does, in seconds.
PeriodIsResolution ==
    Live(deviceConfiguration) =>
        \A i \in DOMAIN blocks[deviceConfiguration].devices :
            LET r == blocks[deviceConfiguration].devices[i].device_resolution
            IN IntervalMs(r) \in {r, r * 1000}

=============================================================================
