------------------------------- MODULE Reader -------------------------------
(***************************************************************************)
(* The reader program: main of app/atmotube-reader.c over the life cycle   *)
(* functions of src/atmotube.c and src/atmotube-output.c.                  *)
(*                                                                         *)
(* main is one thread.  The calls that walk the devices take a step for    *)
(* each device, atmotube_register several, and atmotube_end is the four    *)
(* functions it calls.  Between any two steps SIGINT may run intHandler, a *)
(* link may be lost, and gattlib may dispatch a notification: depending on *)
(* how it was built it does so from a thread of its own or from the main   *)
(* loop, and the former allows more.  Creating and destroying the outputs  *)
(* is one step each: no device measures then, so that nothing looks at     *)
(* what is in between.                                                     *)
(*                                                                         *)
(* The averaging windows are reduced to whether a device has its intervals *)
(* (module Interval models them), and a plugin to whether it is loaded.    *)
(* A use of freed or null memory is undefined: `fault` records its first   *)
(* occurrence and the model follows the program no further.                *)
(***************************************************************************)
EXTENDS Naturals, FiniteSets

CONSTANTS
    Devices,        \* the devices a configuration may name, numbered in the
                    \* order in which it names them
    max_retries,    \* 10 in main
    MaxInterrupts   \* bound: how many SIGINT arrive

ASSUME ReaderAssumption ==
    /\ Devices \subseteq Nat
    /\ max_retries \in Nat
    /\ MaxInterrupts \in Nat

VARIABLES
    \* app/atmotube-reader.c
    pc,          \* the call main makes next
    after,       \* where main goes on when atmotube_end returns
    retry,
    all_connected,  \* the local variable `connected` of main
    aborted,
    visited,     \* the devices g_slist_foreach has been through in this call
    loop,        \* the pointer: "null", "live" or "freed"
    is_running,  \* the flag inside the GMainLoop
    \* glData and the AtmotubeData of each device
    memory,      \* deviceConfiguration: "null", "live" or "freed"
    configured,  \* the devices deviceConfigurationSize counts
    connected,   \* the devices whose `connected` is set
    assigned,    \* the devices whose `plugin` is not NULL
    outputs,     \* the devices whose `output` is allocated
    loaded,      \* the plugins are loaded
    measuring,   \* the devices that have their intervals
    \* gattlib and the radio
    handles,     \* per device: connections opened and not yet closed
    open,        \* the devices whose link is up
    notifying,   \* the devices whose notifications are enabled
    \* history
    interrupts,  \* how many SIGINT were handled
    failed,      \* the calls that returned ATMOTUBE_RET_ERROR
    abandoned,   \* the devices for which gattlib_disconnect failed
    delivered,   \* the devices a value of which reached the plugin
    fault        \* the first undefined behaviour: "none", "plugin", ...

control == <<pc, after, retry, all_connected, aborted, visited>>
mainloop == <<loop, is_running, interrupts>>
config == <<memory, configured>>
plugin == <<assigned, outputs, loaded>>
radio == <<connected, handles, open, notifying, abandoned>>
vars == <<control, mainloop, config, plugin, radio, measuring, failed,
          delivered, fault>>

\* glData.connectableDevices is filled from a configuration that loaded.
connectable == IF memory = "live" THEN configured ELSE {}

\* The calls of main that can return ATMOTUBE_RET_ERROR to it.
Calls == {"add_devices", "create_outputs", "connect", "register"}

\* Where main stands.
Linking == {"add_devices", "create_outputs", "connect", "sleep", "check"}
Registering == {"register", "notify_on", "register_undo", "register_close"}
InLoop == {"loop_new", "loop_run", "running"}
End == {"disconnect", "unregister", "destroy_outputs", "unload"}
Exited == {"exit_success", "exit_failure"}
Stopped == pc \in Exited \cup {"undefined"}

Goto(l) == pc' = l

\* g_slist_foreach over connectableDevices: the device it is at, and its end.
Visiting(d) ==
    /\ d \in connectable \ visited
    /\ \A e \in connectable \ visited : d <= e

VisitedAll == connectable \subseteq visited

\* Undefined behaviour.
Fault(cause) ==
    /\ fault' = cause
    /\ Goto("undefined")

\* main calls atmotube_end and goes on at l.
CallEnd(l) ==
    /\ Goto("disconnect")
    /\ after' = l

Init ==
    /\ pc = "add_devices" /\ after = "exit_failure"
    /\ retry = 0 /\ all_connected = FALSE /\ aborted = FALSE
    /\ visited = {}
    /\ loop = "null" /\ is_running = FALSE
    /\ memory = "null" /\ configured = {}
    /\ connected = {} /\ assigned = {} /\ outputs = {} /\ loaded = FALSE
    /\ measuring = {}
    /\ handles = [d \in Devices |-> 0] /\ open = {} /\ notifying = {}
    /\ interrupts = 0 /\ failed = {} /\ abandoned = {} /\ delivered = {}
    /\ fault = "none"

-----------------------------------------------------------------------------
(* Set-up.                                                                 *)

\* atmotube_config_load of a good file.
ConfigLoads == memory' = "live" /\ configured' \in SUBSET Devices

\* A file that fails to parse, names no plugin_dir, or has unequal numbers of
\* devices and outputs fails before deviceConfigurationSize is set; one whose
\* devices and outputs do not match fails after it, and the size is left when
\* atmotube_add_devices_from_config frees the memory.
ConfigFails ==
    \/ UNCHANGED config
    \/ memory' = "freed" /\ configured' \in SUBSET Devices \ {{}}

\* atmotube_add_devices_from_config.
AddDevices ==
    /\ pc = "add_devices"
    /\ \/ /\ ConfigLoads
          /\ Goto("create_outputs")
          /\ UNCHANGED <<after, failed>>
       \/ /\ ConfigFails
          /\ failed' = failed \cup {"add_devices"}
          /\ CallEnd("exit_failure")
    /\ UNCHANGED <<retry, all_connected, aborted, visited, mainloop, plugin,
                   radio, measuring, delivered, fault>>

\* atmotube_plugin_find, called where there is a device, finds a plugin.
PluginsFound == configured # {} /\ loaded' = TRUE

\* Bug: a device whose plugin is missing is skipped instead of failing the call.
CreateOutputsSkips ==
    /\ pc = "create_outputs"
    /\ PluginsFound
    /\ assigned' \in SUBSET configured
    /\ outputs' = assigned'
    /\ Goto("connect")
    /\ UNCHANGED <<after, retry, all_connected, aborted, visited, mainloop,
                   config, radio, measuring, failed, delivered, fault>>

\* atmotube_create_outputs.  It fails with no device, with no plugin, or at the
\* first device whose type no plugin has; then the devices before it keep their
\* plugin but clear_outputs frees their outputs.
CreateOutputs ==
    /\ pc = "create_outputs"
    /\ \/ /\ PluginsFound
          /\ assigned' = configured
          /\ outputs' = configured
          /\ Goto("connect")
          /\ UNCHANGED <<after, failed>>
       \/ /\ \/ UNCHANGED <<loaded, assigned>>
             \/ /\ PluginsFound
                /\ assigned' \in SUBSET configured \ {configured}
          /\ outputs' = {}
          /\ failed' = failed \cup {"create_outputs"}
          /\ CallEnd("exit_failure")
    /\ UNCHANGED <<retry, all_connected, aborted, visited, mainloop, config,
                   radio, measuring, delivered, fault>>

\* Bug: every attempt connects every device.
ConnectAgain == connectable

\* connect_impl skips a device that is connected already.
ToConnect == connectable \ connected

\* Bug: one attempt too many.
OneMoreAttempt == retry <= max_retries

AttemptsLeft == retry < max_retries

\* connect_impl; gattlib_connect may fail.
ConnectDevice(d) ==
    /\ pc = "connect"
    /\ AttemptsLeft
    /\ Visiting(d)
    /\ visited' = visited \cup {d}
    /\ \/ UNCHANGED <<connected, handles, open>>
       \/ /\ d \in ToConnect
          /\ connected' = connected \cup {d}
          /\ handles' = [handles EXCEPT ![d] = @ + 1]
          /\ open' = open \cup {d}
    /\ UNCHANGED <<pc, after, retry, all_connected, aborted, mainloop, config,
                   plugin, notifying, abandoned, measuring, failed, delivered,
                   fault>>

\* atmotube_connect returns: connect_impl counts the devices it cannot connect.
ConnectReturns ==
    /\ pc = "connect"
    /\ AttemptsLeft
    /\ VisitedAll
    /\ visited' = {}
    /\ IF connectable \subseteq connected
       THEN /\ all_connected' = TRUE
            /\ Goto("check")
            /\ UNCHANGED failed
       ELSE /\ Goto("sleep")
            /\ failed' = failed \cup {"connect"}
            /\ UNCHANGED all_connected
    /\ UNCHANGED <<after, retry, aborted, mainloop, config, plugin, radio,
                   measuring, delivered, fault>>

\* The retry loop is over.
GiveUp ==
    /\ pc = "connect"
    /\ ~AttemptsLeft
    /\ Goto("check")
    /\ UNCHANGED <<after, retry, all_connected, aborted, visited, mainloop,
                   config, plugin, radio, measuring, failed, delivered, fault>>

\* Bug: the attempts are not counted.
SleepUncounted ==
    /\ pc = "sleep"
    /\ Goto(IF aborted THEN "check" ELSE "connect")
    /\ UNCHANGED <<after, retry, all_connected, aborted, visited, mainloop,
                   config, plugin, radio, measuring, failed, delivered, fault>>

\* sleep_ms returns early when intHandler ran; either way the handler has set
\* aborted by then.
Sleep ==
    /\ pc = "sleep"
    /\ IF aborted
       THEN Goto("check") /\ UNCHANGED retry
       ELSE Goto("connect") /\ retry' = retry + 1
    /\ UNCHANGED <<after, all_connected, aborted, visited, mainloop, config,
                   plugin, radio, measuring, failed, delivered, fault>>

\* Bug: a SIGINT that comes while the last attempt succeeds is not looked at.
CheckConnectedOnly ==
    /\ pc = "check"
    /\ IF ~all_connected
       THEN CallEnd("exit_failure")
       ELSE Goto("register") /\ UNCHANGED after
    /\ UNCHANGED <<retry, all_connected, aborted, visited, mainloop, config,
                   plugin, radio, measuring, failed, delivered, fault>>

\* Bug: main returns without atmotube_end.
CheckReturns ==
    /\ pc = "check"
    /\ Goto(IF aborted \/ ~all_connected THEN "exit_failure" ELSE "register")
    /\ UNCHANGED <<after, retry, all_connected, aborted, visited, mainloop,
                   config, plugin, radio, measuring, failed, delivered, fault>>

\* The two tests after the loop.
Check ==
    /\ pc = "check"
    /\ IF aborted \/ ~all_connected
       THEN CallEnd("exit_failure")
       ELSE Goto("register") /\ UNCHANGED after
    /\ UNCHANGED <<retry, all_connected, aborted, visited, mainloop, config,
                   plugin, radio, measuring, failed, delivered, fault>>

-----------------------------------------------------------------------------
(* atmotube_register: g_slist_foreach of register_impl.                    *)

\* The effect of modify_intervals: all intervals of d are added and started, or
\* all are stopped and removed.
modify_intervals(has, d, add) == IF add THEN has \cup {d} ELSE has \ {d}

\* Bug: the notifications are enabled before the intervals are there.
NotifyFirst(d) ==
    /\ pc = "register"
    /\ Visiting(d)
    /\ IF d \in open \ notifying
       THEN notifying' = notifying \cup {d} /\ UNCHANGED <<pc, measuring>>
       ELSE /\ measuring' = modify_intervals(measuring, d, TRUE)
            /\ Goto("notify_on")
            /\ UNCHANGED notifying
    /\ UNCHANGED <<after, retry, all_connected, aborted, visited, mainloop,
                   config, plugin, connected, handles, open, abandoned, failed,
                   delivered, fault>>

\* register_impl counts a device that is not connected, and gives the others
\* their intervals first.
RegisterDevice(d) ==
    /\ pc = "register"
    /\ Visiting(d)
    /\ IF d \in connected
       THEN /\ measuring' = modify_intervals(measuring, d, TRUE)
            /\ Goto("notify_on")
            /\ UNCHANGED visited
       ELSE /\ visited' = visited \cup {d}
            /\ UNCHANGED <<pc, measuring>>
    /\ UNCHANGED <<after, retry, all_connected, aborted, mainloop, config,
                   plugin, radio, failed, delivered, fault>>

\* A first characteristic of the device is enabled; it may notify from here on.
NotifyOn(d) ==
    /\ pc = "notify_on"
    /\ Visiting(d)
    /\ d \in open \ notifying
    /\ notifying' = notifying \cup {d}
    /\ UNCHANGED <<pc, after, retry, all_connected, aborted, visited, mainloop,
                   config, plugin, connected, handles, open, abandoned,
                   measuring, failed, delivered, fault>>

\* All characteristics are enabled, or the link is gone and nobody noticed.
DeviceRegistered(d) ==
    /\ pc = "notify_on"
    /\ Visiting(d)
    /\ d \notin open \ notifying
    /\ visited' = visited \cup {d}
    /\ Goto("register")
    /\ UNCHANGED <<after, retry, all_connected, aborted, mainloop, config,
                   plugin, radio, measuring, failed, delivered, fault>>

\* A characteristic could not be enabled; others may have been.
NotifyFails(d) ==
    /\ pc = "notify_on"
    /\ Visiting(d)
    /\ Goto("register_undo")
    /\ UNCHANGED <<after, retry, all_connected, aborted, visited, mainloop,
                   config, plugin, radio, measuring, failed, delivered, fault>>

\* Then register_impl removes the intervals...
RegisterUndo(d) ==
    /\ pc = "register_undo"
    /\ Visiting(d)
    /\ measuring' = modify_intervals(measuring, d, FALSE)
    /\ Goto("register_close")
    /\ UNCHANGED <<after, retry, all_connected, aborted, visited, mainloop,
                   config, plugin, radio, failed, delivered, fault>>

\* gattlib_disconnect closes the connection of d, or fails and leaves it.
CloseConnection(d) ==
    \/ /\ handles' = [handles EXCEPT ![d] = @ - 1]
       /\ open' = open \ {d}
       /\ notifying' = notifying \ {d}
       /\ UNCHANGED abandoned
    \/ /\ abandoned' = abandoned \cup {d}
       /\ UNCHANGED <<handles, open, notifying>>

\* ... and disconnects without looking at the result.
RegisterClose(d) ==
    /\ pc = "register_close"
    /\ Visiting(d)
    /\ CloseConnection(d)
    /\ connected' = connected \ {d}
    /\ visited' = visited \cup {d}
    /\ Goto("register")
    /\ UNCHANGED <<after, retry, all_connected, aborted, mainloop, config,
                   plugin, measuring, failed, delivered, fault>>

\* atmotube_register returns: register_impl counts the devices it does not
\* register, which are those that are not connected when it is through.
RegisterReturns ==
    /\ pc = "register"
    /\ VisitedAll
    /\ visited' = {}
    /\ IF connectable \subseteq connected
       THEN /\ Goto("loop_new")
            /\ UNCHANGED <<after, failed>>
       ELSE /\ failed' = failed \cup {"register"}
            /\ CallEnd("loop_new")
    /\ UNCHANGED <<retry, all_connected, aborted, mainloop, config, plugin,
                   radio, measuring, delivered, fault>>

-----------------------------------------------------------------------------
(* The main loop.                                                          *)

LoopNew ==
    /\ pc = "loop_new"
    /\ loop' = "live"
    /\ is_running' = FALSE
    /\ Goto("loop_run")
    /\ UNCHANGED <<after, retry, all_connected, aborted, visited, interrupts,
                   config, plugin, radio, measuring, failed, delivered, fault>>

\* g_main_loop_run begins by setting the flag, whoever cleared it before.
LoopRun ==
    /\ pc = "loop_run"
    /\ is_running' = TRUE
    /\ Goto("running")
    /\ UNCHANGED <<after, retry, all_connected, aborted, visited, loop,
                   interrupts, config, plugin, radio, measuring, failed,
                   delivered, fault>>

\* The loop was quit: g_main_loop_unref frees it, and `loop` still points to it.
LoopExit ==
    /\ pc = "running"
    /\ ~is_running
    /\ loop' = "freed"
    /\ CallEnd("exit_success")
    /\ UNCHANGED <<retry, all_connected, aborted, visited, is_running,
                   interrupts, config, plugin, radio, measuring, failed,
                   delivered, fault>>

-----------------------------------------------------------------------------
(* atmotube_end.                                                           *)

\* disconnect_impl clears `connected` also where gattlib_disconnect failed.
DisconnectDevice(d) ==
    /\ pc = "disconnect"
    /\ Visiting(d)
    /\ visited' = visited \cup {d}
    /\ IF d \in connected
       THEN CloseConnection(d) /\ connected' = connected \ {d}
       ELSE UNCHANGED radio
    /\ UNCHANGED <<pc, after, retry, all_connected, aborted, mainloop, config,
                   plugin, measuring, failed, delivered, fault>>

\* atmotube_disconnect returns; atmotube_end ignores the result.
DisconnectReturns ==
    /\ pc = "disconnect"
    /\ VisitedAll
    /\ visited' = {}
    /\ Goto("unregister")
    /\ UNCHANGED <<after, retry, all_connected, aborted, mainloop, config,
                   plugin, radio, measuring, failed, delivered, fault>>

\* Bug: the intervals of connected devices only are removed.
UnregisterConnected(d) ==
    /\ pc = "unregister"
    /\ Visiting(d)
    /\ visited' = visited \cup {d}
    /\ measuring' = IF d \in connected
                    THEN modify_intervals(measuring, d, FALSE) ELSE measuring
    /\ UNCHANGED <<pc, after, retry, all_connected, aborted, mainloop, config,
                   plugin, radio, failed, delivered, fault>>

\* unregister_impl stops the notifications of a connected device only.
UnregisterDevice(d) ==
    /\ pc = "unregister"
    /\ Visiting(d)
    /\ visited' = visited \cup {d}
    /\ measuring' = modify_intervals(measuring, d, FALSE)
    /\ \E quiet \in SUBSET ({d} \cap connected) : notifying' = notifying \ quiet
    /\ UNCHANGED <<pc, after, retry, all_connected, aborted, mainloop, config,
                   plugin, connected, handles, open, abandoned, failed,
                   delivered, fault>>

UnregisterReturns ==
    /\ pc = "unregister"
    /\ VisitedAll
    /\ visited' = {}
    /\ Goto("destroy_outputs")
    /\ UNCHANGED <<after, retry, all_connected, aborted, mainloop, config,
                   plugin, radio, measuring, failed, delivered, fault>>

\* A device's plugin can be called.
Callable(d) == memory = "live" /\ d \in assigned /\ loaded

\* atmotube_destroy_outputs calls the plugin of every device that
\* deviceConfigurationSize counts.  The outputs are freed and not cleared; a
\* second pass does not get as far.
DestroyOutputs ==
    /\ pc = "destroy_outputs"
    /\ IF \A d \in configured : Callable(d)
       THEN /\ outputs' = outputs \ configured
            /\ Goto("unload")
            /\ UNCHANGED fault
       ELSE /\ Fault("plugin")
            /\ UNCHANGED outputs
    /\ UNCHANGED <<after, retry, all_connected, aborted, visited, mainloop,
                   config, assigned, loaded, radio, measuring, failed,
                   delivered>>

\* Bug: the plugins stay loaded.
UnloadNothing ==
    /\ pc = "unload"
    /\ Goto(after)
    /\ UNCHANGED <<after, retry, all_connected, aborted, visited, mainloop,
                   config, plugin, radio, measuring, failed, delivered, fault>>

\* atmotube_plugin_unload_all, and freeFoundDevices, which has nothing to free
\* because the reader does not search.
Unload ==
    /\ pc = "unload"
    /\ loaded' = FALSE
    /\ Goto(after)
    /\ UNCHANGED <<after, retry, all_connected, aborted, visited, mainloop,
                   config, assigned, outputs, radio, measuring, failed,
                   delivered, fault>>

-----------------------------------------------------------------------------
(* What happens to main.                                                   *)

\* intHandler.
Interrupt ==
    /\ ~Stopped
    /\ interrupts < MaxInterrupts
    /\ interrupts' = interrupts + 1
    /\ aborted' = TRUE
    /\ IF loop = "freed"
       THEN Fault("loop") /\ UNCHANGED is_running
       ELSE /\ is_running' = IF loop = "live" THEN FALSE ELSE is_running
            /\ UNCHANGED <<pc, fault>>
    /\ UNCHANGED <<after, retry, all_connected, visited, loop, config, plugin,
                   radio, measuring, failed, delivered>>

\* The link to a device is lost; nothing tells the reader.
DropLink(d) ==
    /\ ~Stopped
    /\ d \in open
    /\ open' = open \ {d}
    /\ notifying' = notifying \ {d}
    /\ UNCHANGED <<control, mainloop, config, plugin, connected, handles,
                   abandoned, measuring, failed, delivered, fault>>

\* Bug: a notification goes to the plugin whether or not the device measures.
NotifyPlugin(d) ==
    /\ ~Stopped
    /\ d \in open \cap notifying
    /\ Callable(d)
    /\ delivered' = delivered \cup {d}
    /\ UNCHANGED <<control, mainloop, config, plugin, radio, measuring, failed,
                   fault>>

\* atmotube_handle_notification reads the device's configuration; a sample that
\* closes a window of the device is passed to its plugin by output_voc,
\* output_humidity or output_temperature.
Notify(d) ==
    /\ ~Stopped
    /\ d \in open \cap notifying
    /\ IF memory # "live"
       THEN Fault("device") /\ UNCHANGED delivered
       ELSE /\ d \in measuring
            /\ IF Callable(d)
               THEN delivered' = delivered \cup {d} /\ UNCHANGED <<pc, fault>>
               ELSE Fault("callback") /\ UNCHANGED delivered
    /\ UNCHANGED <<after, retry, all_connected, aborted, visited, mainloop,
                   config, plugin, radio, measuring, failed>>

-----------------------------------------------------------------------------

\* A call of main at device d.
AtDevice(d) ==
    \/ ConnectDevice(d)
    \/ RegisterDevice(d) \/ NotifyOn(d) \/ DeviceRegistered(d)
    \/ NotifyFails(d) \/ RegisterUndo(d) \/ RegisterClose(d)
    \/ DisconnectDevice(d) \/ UnregisterDevice(d)

Main ==
    \/ AddDevices \/ CreateOutputs \/ ConnectReturns \/ GiveUp \/ Sleep \/ Check
    \/ RegisterReturns \/ LoopNew \/ LoopRun \/ LoopExit
    \/ DisconnectReturns \/ UnregisterReturns \/ DestroyOutputs \/ Unload
    \/ \E d \in Devices : AtDevice(d)

Next ==
    \/ Main
    \/ Interrupt
    \/ \E d \in Devices : DropLink(d) \/ Notify(d)

Spec == Init /\ [][Next]_vars

\* Calls return, a sleep ends and a loop that was quit returns; signals,
\* notifications and lost links may or may not come.
FairSpec == Spec /\ WF_vars(Main)

-----------------------------------------------------------------------------
(* Properties.                                                             *)

TypeOK ==
    /\ pc \in Linking \cup Registering \cup InLoop \cup End \cup Exited
             \cup {"undefined"}
    /\ after \in {"exit_failure", "loop_new", "exit_success"}
    /\ retry \in 0 .. max_retries
    /\ all_connected \in BOOLEAN /\ aborted \in BOOLEAN
    /\ is_running \in BOOLEAN /\ loaded \in BOOLEAN
    /\ loop \in {"null", "live", "freed"}
    /\ memory \in {"null", "live", "freed"}
    /\ visited \subseteq Devices
    /\ configured \subseteq Devices /\ connected \subseteq Devices
    /\ assigned \subseteq Devices /\ outputs \subseteq Devices
    /\ measuring \subseteq Devices /\ open \subseteq Devices
    /\ notifying \subseteq Devices /\ abandoned \subseteq Devices
    /\ delivered \subseteq Devices
    /\ handles \in [Devices -> Nat]
    /\ interrupts \in 0 .. MaxInterrupts
    /\ failed \subseteq Calls
    /\ fault \in {"none", "plugin", "loop", "device", "callback"}

\* Whenever a device has intervals, a notification can be carried through to its
\* output: its AtmotubeData, its plugin and its output are alive.  This is what
\* the order of main's calls and of atmotube_end is for, and it holds between
\* any two steps on any device, for notifications from any thread.
CallbacksReady ==
    \A d \in measuring : Callable(d) /\ d \in outputs

\* No notification falls on the floor: a device whose notifications are enabled
\* has its intervals, unless register_impl is about to disconnect it, having
\* failed to enable the rest, or gattlib refused to.  This is what register_impl
\* adds the intervals first for, and atmotube_end disconnects first.
NotifyingMeasures ==
    \A d \in notifying :
        \/ d \in measuring \cup abandoned
        \/ pc = "register_close" /\ Visiting(d)

\* No connection is opened twice and none is lost track of: a device holds one
\* connection exactly when it is marked connected or gattlib refused to close
\* it, over all the retries of main and the failure path of register_impl.
HandlesTracked ==
    \A d \in Devices :
        handles[d] = IF d \in connected \cup abandoned THEN 1 ELSE 0

\* The failures after which atmotube_end is not safe.
SetupFailed == failed \cap {"add_devices", "create_outputs", "register"} # {}

\* Undefined behaviour has two causes only: atmotube_end after a set-up call
\* that failed, and a SIGINT after the one that ended the main loop.  A session
\* whose set-up succeeds and that is interrupted once always ends cleanly.
FaultsExplained ==
    /\ fault = "plugin" => SetupFailed
    /\ fault = "loop" => interrupts > 1
    /\ fault \in {"none", "plugin", "loop"}

\* main never returns with anything still held: no plugin loaded, no interval,
\* no output, and no connection but those gattlib refused to close.
ExitsClean ==
    pc \in Exited =>
        /\ ~loaded
        /\ measuring = {} /\ outputs = {} /\ connected = {}
        /\ \A d \in Devices \ abandoned : handles[d] = 0

\* main returns 0 only after a session with every device set up, ended by
\* SIGINT: no failure it went on after is turned into success.
SuccessIsEarned ==
    pc = "exit_success" =>
        /\ failed \subseteq {"connect"}
        /\ all_connected
        /\ interrupts > 0

\* Set-up ends, with the program receiving or stopped, whatever gattlib answers:
\* the retry loop cannot go on for ever.
SetupFinishes == <>(pc = "running" \/ Stopped)

\* A SIGINT handled before main tests `aborted`, or by the running main loop,
\* ends the program.
InterruptSeen ==
    aborted /\ (pc \in Linking \/ (pc = "running" /\ ~is_running))

InterruptEnds == InterruptSeen ~> Stopped

\* Where the session of a device stands: it streams while it has its intervals,
\* and one that register_impl is about to disconnect is closed.
SessionOf(d) ==
    IF d \in measuring THEN "streaming"
    ELSE IF d \in connected /\ ~(pc = "register_close" /\ Visiting(d))
         THEN "linked"
    ELSE IF pc = "add_devices" \/ (pc \in Linking /\ d \in connectable)
         THEN "idle"
    ELSE "closed"

\* Every device has one session; no session streams before all are linked, none
\* begins after registration, and measurements reach an output only in one.
Sessions == INSTANCE DeviceSession WITH
    phase <- IF pc \in Linking THEN "linking"
             ELSE IF pc \in Registering THEN "starting" ELSE "over",
    session <- [d \in Devices |-> SessionOf(d)]

ImplementsSessions == Sessions!Spec

\* The two below state what the sources say and the program does not do.

\* intHandler exists so that main prints "Aborted (signal handler)" and ends: a
\* SIGINT always ends the program.
InterruptStops == aborted ~> Stopped

\* atmotube_end may be called after a set-up call has failed, as main and the
\* tests do.
EndAfterFailure == fault # "plugin"

\* Once main has printed "Ready to receive." every configured device measures.
ReadyToReceive ==
    pc \in InLoop => measuring = configured

=============================================================================
