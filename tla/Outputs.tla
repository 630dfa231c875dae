------------------------------ MODULE Outputs ------------------------------
(***************************************************************************)
(* From a configuration to stored measurements: atmotube_create_outputs,   *)
(* the shared objects it finds, the measurements their functions take, and *)
(* the end of it all in atmotube_end.  The client is main of               *)
(* app/atmotube-reader.c without its radio, which module Reader has, and   *)
(* with any number of calls of atmotube_add_devices_from_config.           *)
(*                                                                         *)
(* Every device of one output type uses one shared object, with one set of *)
(* static variables: `object` has them per type.  A FILE or a database     *)
(* connection is named by the device whose plugin_start opened it, and so  *)
(* are the prepared statements, which belong to a connection.              *)
(***************************************************************************)
EXTENDS Config

CONSTANTS
    FileTypes,   \* the output types of file.c and custom.c
    DbTypes,     \* the output type of db.c
    DbFilenames, \* the databases outputs may name
    EarlierRows, \* what the device table of one may hold from earlier runs
    Times,       \* bound: the instants of measurements
    MaxSent      \* bound: how many measurements there are

ASSUME OutputsAssumption ==
    /\ MaxSent \in Nat
    /\ FileTypes \subseteq STRING /\ DbTypes \subseteq STRING
    /\ FileTypes \cap DbTypes = {}
    /\ "null" \notin FileTypes \cup DbTypes
    /\ \A s, t \in DbTypes : s = t
    /\ EarlierRows \subseteq Seq(STRING)
    /\ \A f \in Files : \A j \in DOMAIN f.outputs :
          f.outputs[j].type \in DbTypes <=> f.outputs[j].filename \in DbFilenames

VARIABLES
    stage,     \* "load", "create", "measure", "destroy", "unload", "done"
    next,      \* the loop variable of create_outputs and destroy_outputs
    plugins,   \* the types of the shared objects in the list
    plugin,    \* device -> its plugin's type, or "null"
    object,    \* type -> the static variables of the shared object
    open,      \* FILEs and connections opened and not closed
    pinned,    \* the connections a CREATE statement of which was leaked
    rows,      \* filename -> the device table of that database
    sent,      \* history: the measurements in the order they were made
    stored,    \* the measurements in the files: [n, filename, row]
    unstarted, \* history: the devices whose plugin_start failed
    incomplete \* history: a shared object lacked a symbol

outputVars == <<stage, next, plugins, plugin, object, open, pinned, rows,
                sent, stored, unstarted, incomplete>>
vars == <<configVars, outputVars>>

Types == FileTypes \cup DbTypes
Kinds == {"voc", "humidity", "temperature"}
Devices == 1 .. deviceConfigurationSize
device(i) == blocks[deviceConfiguration].devices[i]
typeOf(i) == device(i).output_type
filenameOf(i) == device(i).output_filename

\* The statics of a shared object that was just loaded: no FILE or connection,
\* no statements, no row.
Loaded == [started |-> FALSE, handle |-> Null, statements |-> Null,
           finalized |-> FALSE, device_row_id |-> -1]

Init ==
    /\ ConfigInit
    /\ stage = "load"
    /\ next = 1
    /\ plugins = {}
    /\ plugin = <<>>
    /\ object = [t \in Types |-> Loaded]
    /\ open = {}
    /\ pinned = {}
    /\ rows \in [DbFilenames -> EarlierRows]
    /\ sent = <<>>
    /\ stored = {}
    /\ unstarted = {}
    /\ incomplete = FALSE

-----------------------------------------------------------------------------
(* The configuration, and the shared objects.                              *)

Load ==
    /\ stage = "load"
    /\ ConfigNext
    /\ UNCHANGED outputVars

\* main calls atmotube_end at once when the configuration did not load.
GiveUp ==
    /\ stage = "load"
    /\ fault = "none"
    /\ loads > 0
    /\ ~Live(deviceConfiguration)
    /\ stage' = "destroy"
    /\ UNCHANGED <<configVars, next, plugins, plugin, object, open, pinned,
                   rows, sent, stored, unstarted, incomplete>>

\* atmotube_plugin_find.  An object that lacks a symbol is closed through
\* info->handle before that is set: the handle is whatever malloc returned.
FindPlugins(found, lacking) ==
    /\ stage = "load"
    /\ fault = "none"
    /\ Live(deviceConfiguration)
    /\ incomplete' = (lacking /\ deviceConfigurationSize > 0)
    /\ IF incomplete' THEN fault' \in {"none", "library handle"}
                      ELSE UNCHANGED fault
    /\ plugins' = IF deviceConfigurationSize > 0 THEN found ELSE {}
    /\ plugin' = [i \in Devices |-> "null"]
    /\ stage' = IF plugins' = {} THEN "destroy" ELSE "create"
    /\ UNCHANGED <<blocks, deviceConfiguration, deviceConfigurationSize,
                   connectableDevices, file, loads, next, object, open, pinned,
                   rows, sent, stored, unstarted>>

-----------------------------------------------------------------------------
(* plugin_start, once per device.                                          *)

\* Bug: the outcome of fopen is not tested.
FileStartUntested(i, opened) ==
    [object[typeOf(i)] EXCEPT !.handle = IF opened THEN i ELSE Null,
                              !.started = TRUE]

\* file.c: a second plugin_start replaces the FILE, and one that fails leaves
\* NULL in its place and `started` as it was.
FileStart(i, opened) ==
    [object[typeOf(i)] EXCEPT !.handle = IF opened THEN i ELSE Null,
                              !.started = opened \/ @]

StartFile(i) ==
    /\ typeOf(i) \in FileTypes
    /\ \E opened \in BOOLEAN :
          /\ object' = [object EXCEPT ![typeOf(i)] = FileStart(i, opened)]
          /\ open' = IF opened THEN open \cup {i} ELSE open
          /\ unstarted' = IF opened THEN unstarted ELSE unstarted \cup {i}
    /\ UNCHANGED <<rows, pinned>>

\* Bug: the SELECT does not ask for the name.
RowOfAny(table, name) == 1

\* The row of a device in the device table, and the table with that row.
RowOf(table, name) == CHOOSE r \in DOMAIN table : table[r] = name

WithDevice(table, name) ==
    IF \E r \in DOMAIN table : table[r] = name THEN table
    ELSE Append(table, name)

\* db.c: how far plugin_start comes.  The database may refuse at each stage.
DbStages == {"open", "tables", "statements", "device", "started"}

\* db_plugin_create_statements prepares one statement after the other: when
\* it stops, an INSERT is the new one, NULL, or still that of an earlier start.
StatementsAfter(i, reached) ==
    CASE reached \in {"open", "tables"} -> {object[typeOf(i)].statements}
      [] reached = "statements" -> {object[typeOf(i)].statements, Null, i}
      [] OTHER -> {i}

\* db_plugin_create_tables: a CREATE that fails to step is not finalized.
PinnedAfter(i, reached) ==
    IF reached = "tables" THEN {pinned, pinned \cup {i}} ELSE {pinned}

\* db_plugin_setup_database: a connection that cannot be opened has a handle too.
Connected(i) == open \cup {i}

DbStart(i, reached, statements) ==
    [object[typeOf(i)] EXCEPT
        !.handle = i,
        !.statements = statements,
        !.device_row_id =
            IF reached = "started"
            THEN RowOf(WithDevice(rows[filenameOf(i)], device(i).device_name),
                       device(i).device_name)
            ELSE @,
        !.started = (reached = "started") \/ @]

StartDb(i) ==
    /\ typeOf(i) \in DbTypes
    /\ \E reached \in DbStages :
          /\ \E statements \in StatementsAfter(i, reached) :
                object' = [object EXCEPT
                              ![typeOf(i)] = DbStart(i, reached, statements)]
          /\ rows' = IF reached = "started"
                     THEN [rows EXCEPT ![filenameOf(i)] =
                              WithDevice(@, device(i).device_name)]
                     ELSE rows
          /\ pinned' \in PinnedAfter(i, reached)
          /\ unstarted' = IF reached = "started" THEN unstarted
                                                 ELSE unstarted \cup {i}
    /\ open' = Connected(i)

\* Bug: the loop goes one device too far.
NextRoundLate ==
    \/ next <= deviceConfigurationSize /\ next' = next + 1 /\ UNCHANGED stage
    \/ next > deviceConfigurationSize /\ next' = 1 /\ stage' = "measure"

NextRound ==
    \/ next < deviceConfigurationSize /\ next' = next + 1 /\ UNCHANGED stage
    \/ next = deviceConfigurationSize /\ next' = 1 /\ stage' = "measure"

\* atmotube_plugin_get finds the first shared object of the type.
HasPlugin(i) == typeOf(i) \in plugins

\* One round of the loop of atmotube_create_outputs whose plugin is there.
CreateOutput ==
    /\ stage = "create"
    /\ fault = "none"
    /\ HasPlugin(next)
    /\ StartFile(next) \/ StartDb(next)
    /\ plugin' = [plugin EXCEPT ![next] = typeOf(next)]
    /\ NextRound
    /\ UNCHANGED <<configVars, plugins, sent, stored, incomplete>>

\* A round whose plugin is missing: clear_outputs frees the outputs, but the
\* plugins started so far stay started and assigned; main calls atmotube_end.
PluginMissing ==
    /\ stage = "create"
    /\ fault = "none"
    /\ ~HasPlugin(next)
    /\ next' = 1
    /\ stage' = "destroy"
    /\ UNCHANGED <<configVars, plugins, plugin, object, open, pinned, rows,
                   sent, stored, unstarted, incomplete>>

-----------------------------------------------------------------------------
(* A measurement, from output_voc, output_humidity or output_temperature.  *)

\* Bug: the time is the key of the voc table, as it is of the humidity table.
RefusesVoc(m, n) ==
    \E l \in stored :
        /\ l.filename = m.filename
        /\ sent[l.n].kind = n.kind
        /\ sent[l.n].ts = n.ts

\* The keys of the tables: humidity by its time alone, temperature by time,
\* value and device (the values are taken to be equal), voc has none.
Refuses(m, n) ==
    \E l \in stored :
        /\ l.filename = m.filename
        /\ sent[l.n].kind = n.kind
        /\ sent[l.n].ts = n.ts
        /\ \/ n.kind = "humidity"
           \/ n.kind = "temperature" /\ l.row = m.row

\* A connection whose SELECT was never reset holds a lock on its file.
Contended(i) ==
    \E j \in open \ {i} : typeOf(j) \in DbTypes /\ filenameOf(j) = filenameOf(i)

Takes(o) == o.started

WriteFile(o) ==
    IF o.handle = Null
    THEN fault' = "null stream" /\ UNCHANGED stored
    ELSE /\ stored' = stored \cup {[n |-> Len(sent) + 1, row |-> 0,
                                    filename |-> filenameOf(o.handle)]}
         /\ UNCHANGED fault

\* What the INSERT of a measurement would put into the table.
Line(o) == [n |-> Len(sent) + 1, row |-> o.device_row_id,
            filename |-> filenameOf(o.statements)]

\* Bug: INSERT OR REPLACE, which takes back the measurement that has the key.
WriteDbReplaces(o, m) ==
    /\ UNCHANGED fault
    /\ IF o.statements = Null THEN UNCHANGED stored
       ELSE stored' = {l \in stored : \/ l.filename # Line(o).filename
                                      \/ ~Refuses(Line(o), m)}
                      \cup {Line(o)}

WriteDb(o, m) ==
    /\ UNCHANGED fault
    /\ IF o.statements = Null THEN UNCHANGED stored
       ELSE \/ ~Refuses(Line(o), m) /\ stored' = stored \cup {Line(o)}
            \/ /\ Refuses(Line(o), m) \/ Contended(o.statements)
               /\ UNCHANGED stored

\* The devices connectableDevices points to are in memory, those of an earlier
\* configuration too.
Reachable == \A n \in DOMAIN connectableDevices : Live(connectableDevices[n][1])

\* atmotube_connect, where measurements begin, and atmotube_disconnect, where
\* atmotube_end begins, read every device they have a pointer to.
ReadFreed ==
    /\ stage \in {"measure", "destroy"}
    /\ fault = "none"
    /\ ~Reachable
    /\ fault' = "freed device"
    /\ UNCHANGED <<blocks, deviceConfiguration, deviceConfigurationSize,
                   connectableDevices, file, loads, outputVars>>

\* A measurement of a device of an earlier configuration, which is registered
\* like the others and was never given a plugin.  The devices are registered in
\* the order of the list; the one of the last configuration that has its id
\* takes its callbacks away, and no device from that one on has measured yet.
MeasureEarlier(n) ==
    LET earlier == connectableDevices[n] IN
    /\ stage = "measure"
    /\ fault = "none"
    /\ Reachable
    /\ earlier[1] # deviceConfiguration
    /\ \A m \in DOMAIN sent : sent[m].device < earlier[2]
    /\ fault' = "unassigned plugin"
    /\ UNCHANGED <<blocks, deviceConfiguration, deviceConfigurationSize,
                   connectableDevices, file, loads, outputVars>>

\* A measurement of device i of the last configuration.
Measure(i, kind, ts) ==
    LET o == object[plugin[i]]
        m == [device |-> i, kind |-> kind, ts |-> ts] IN
    /\ stage = "measure"
    /\ fault = "none"
    /\ Reachable
    /\ Len(sent) < MaxSent
    /\ sent' = Append(sent, m)
    /\ \/ ~Takes(o) /\ UNCHANGED <<stored, fault>>
       \/ Takes(o) /\ plugin[i] \in FileTypes /\ WriteFile(o)
       \/ Takes(o) /\ plugin[i] \in DbTypes /\ WriteDb(o, m)
    /\ UNCHANGED <<blocks, deviceConfiguration, deviceConfigurationSize,
                   connectableDevices, file, loads, stage, next, plugins,
                   plugin, object, open, pinned, rows, unstarted, incomplete>>

-----------------------------------------------------------------------------
(* atmotube_end.                                                           *)

End ==
    /\ stage = "measure"
    /\ fault = "none"
    /\ Reachable
    /\ stage' = "destroy"
    /\ UNCHANGED <<configVars, next, plugins, plugin, object, open, pinned,
                   rows, sent, stored, unstarted, incomplete>>

\* Bug: plugin_stop of file.c forgets fclose.
StopFileOpen(t) ==
    /\ object' = [object EXCEPT ![t].started = FALSE]
    /\ UNCHANGED <<open, fault>>

\* file.c: only the FILE opened last is closed, at the first plugin_stop.
StopFile(t) ==
    /\ object' = [object EXCEPT ![t].started = FALSE]
    /\ open' = IF object[t].started THEN open \ {object[t].handle} ELSE open
    /\ fault' = IF object[t].started /\ object[t].handle = Null
                THEN "null stream" ELSE fault

\* db.c: neither the statements nor `started` nor the connection are cleared.
\* sqlite3_close refuses while a statement of the connection is not finalized.
StopDb(t) ==
    LET o == object[t] IN
    /\ object' = [object EXCEPT ![t].finalized = TRUE]
    /\ open' = open \ ({o.handle} \ pinned)
    /\ fault' = CASE o.finalized /\ o.statements # Null -> "finalized twice"
                  [] o.handle # Null /\ o.handle \notin open -> "closed twice"
                  [] OTHER -> fault

\* One round of the loop of atmotube_destroy_outputs.
DestroyOutput ==
    /\ stage = "destroy"
    /\ fault = "none"
    /\ Reachable
    /\ next <= deviceConfigurationSize
    /\ IF ~Live(deviceConfiguration)
       THEN fault' = "freed configuration" /\ UNCHANGED <<object, open>>
       ELSE IF plugin[next] = "null"
       THEN fault' = "null plugin" /\ UNCHANGED <<object, open>>
       ELSE IF plugin[next] \in FileTypes THEN StopFile(plugin[next])
       ELSE StopDb(plugin[next])
    /\ next' = next + 1
    /\ UNCHANGED <<blocks, deviceConfiguration, deviceConfigurationSize,
                   connectableDevices, file, loads, stage, plugins, plugin,
                   pinned, rows, sent, stored, unstarted, incomplete>>

\* atmotube_plugin_unload_all.
UnloadPlugins ==
    /\ stage = "destroy"
    /\ fault = "none"
    /\ Reachable
    /\ next > deviceConfigurationSize
    /\ plugins' = {}
    /\ object' = [t \in Types |-> Loaded]
    /\ stage' = "done"
    /\ UNCHANGED <<configVars, next, plugin, open, pinned, rows, sent, stored,
                   unstarted, incomplete>>

Next ==
    \/ Load
    \/ GiveUp
    \/ \E found \in SUBSET Types, lacking \in BOOLEAN :
          FindPlugins(found, lacking)
    \/ CreateOutput
    \/ PluginMissing
    \/ \E i \in Devices, kind \in Kinds, ts \in Times : Measure(i, kind, ts)
    \/ ReadFreed
    \/ \E n \in DOMAIN connectableDevices : MeasureEarlier(n)
    \/ End
    \/ DestroyOutput
    \/ UnloadPlugins

Spec == Init /\ [][Next]_vars

-----------------------------------------------------------------------------
(* Properties.                                                             *)

Static == [started : BOOLEAN, handle : Nat, statements : Nat,
           finalized : BOOLEAN, device_row_id : Int]

TypeOK ==
    /\ ConfigTypeOK
    /\ stage \in {"load", "create", "measure", "destroy", "done"}
    /\ next \in 1 .. deviceConfigurationSize + 1
    /\ stage \in {"create", "measure"} => next \in Devices
    /\ plugins \subseteq Types
    /\ object \in [Types -> Static]
    /\ open \subseteq Devices
    /\ pinned \subseteq Devices
    /\ stored \subseteq [n : DOMAIN sent, row : Int, filename : STRING]

\* The devices that use a shared object another device uses too.
Sharing == {i \in Devices : \E j \in Devices \ {i} : typeOf(j) = typeOf(i)}

Name(i) == device(i).device_name

\* Every measurement that is stored is in the file its device's output names,
\* and in a database under the row of its device.
InOwnOutput(l) ==
    LET i == sent[l.n].device IN
    /\ l.filename = filenameOf(i)
    /\ typeOf(i) \in DbTypes =>
          l.row \in DOMAIN rows[l.filename] /\ rows[l.filename][l.row] = Name(i)

\* A device that has a shared object for itself gets its measurements into its
\* own output and under its own name, whatever of the set-up of this or another
\* device failed.
OwnOutput ==
    fault = "none" => \A l \in stored :
        sent[l.n].device \notin Sharing => InOwnOutput(l)

\* include/atmotube.h: "Create output plugins described by config.", where each
\* output names the file for its source.  Of every device, the measurements
\* stored are in its own output.
MeasurementsInOwnOutput ==
    fault = "none" => \A l \in stored : InOwnOutput(l)

\* The measurements that are not stored are those of a type one of whose
\* outputs could not be started, those of a database opened twice, and those
\* at the time of another one in the same table.
Unstored == DOMAIN sent \ {l.n : l \in stored}

LossExplained ==
    fault = "none" => \A n \in Unstored :
        LET t == typeOf(sent[n].device) IN
        \/ \E i \in unstarted : typeOf(i) = t
        \/ /\ t \in DbTypes
           /\ \E i, j \in Devices :
                 /\ i # j
                 /\ typeOf(i) = t /\ typeOf(j) = t
                 /\ filenameOf(i) = filenameOf(j)
        \/ /\ t \in DbTypes
           /\ sent[n].kind # "voc"
           /\ \E m \in 1 .. n - 1 :
                 /\ sent[m].kind = sent[n].kind
                 /\ sent[m].ts = sent[n].ts
                 /\ typeOf(sent[m].device) = t

\* When atmotube_end is through, what is still open was opened before another
\* device of the same type, or its tables could not be created.
AllClosed ==
    (stage = "done") => \A i \in open :
        i \in pinned \/ \E j \in Devices : i < j /\ typeOf(j) = typeOf(i)

\* Which history lies behind each undefined behaviour: a configuration on top of
\* another, loaded or rejected, a set-up call that failed before atmotube_end, a
\* type two devices share, or a shared object without the functions of a plugin.
FaultsExplained ==
    CASE fault = "none" -> TRUE
      [] fault = "double free" -> loads > 1
      [] fault = "unassigned plugin" -> loads > 1
      [] fault = "freed device" -> loads > 1 /\ Len(blocks) < loads
      [] fault = "freed configuration" -> ~Live(deviceConfiguration)
      [] fault = "library handle" -> incomplete
      [] fault = "null plugin" ->
            plugins = {} \/ \E i \in Devices : typeOf(i) \notin plugins
      [] fault = "null stream" ->
            \E i \in unstarted \cap Sharing : typeOf(i) \in FileTypes
      [] OTHER -> \E i \in Sharing : typeOf(i) \in DbTypes

\* What a device has of its own: nothing if it shares its type or its output was
\* not started, else a file or the tables of a database.
StoreOf(i) ==
    IF i \in Sharing \/ plugin[i] = "null" \/ ~object[plugin[i]].started
    THEN "none"
    ELSE IF plugin[i] \in DbTypes THEN "table" ELSE "file"

\* The measurements that are where their device's output names, of devices
\* that have their type to themselves.
OwnLines == {l \in stored : sent[l.n].device \notin Sharing /\ InOwnOutput(l)}

\* The outputs implement the log of measurements, with the shared objects, the
\* connections and the rows hidden.
Log == INSTANCE MeasurementLog WITH
    phase <- CASE stage \in {"load", "create"} -> "setup"
               [] stage = "measure" -> "measuring"
               [] OTHER -> "ended",
    store <- IF stage \in {"create", "measure"}
             THEN [i \in Devices |-> StoreOf(i)] ELSE <<>>,
    made <- sent,
    log <- {l.n : l \in OwnLines}

ImplementsLog == Log!Spec

=============================================================================
