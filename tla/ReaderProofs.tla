---------------------------- MODULE ReaderProofs ----------------------------
(***************************************************************************)
(* Proofs about Reader.  One inductive invariant relates the position of   *)
(* main to what is allocated (SetupStage, LateStage), to the devices a     *)
(* call has been through (Walks), the devices' state to each other (Devs), *)
(* and the main loop to the signals handled (Loops).  The second half      *)
(* shows that the reader implements DeviceSession.                         *)
(***************************************************************************)
EXTENDS Reader, TLAPS

\* Everything the callbacks need is there.
Ready ==
    /\ memory = "live" /\ loaded
    /\ configured # {} /\ assigned = configured

\* Before main enters its loop.
SetupStage ==
    /\ pc = "add_devices" => memory = "null" /\ configured = {}
    /\ pc = "create_outputs" => memory = "live"
    /\ pc \in {"add_devices", "create_outputs"} =>
          connected = {} /\ outputs = {} /\ assigned = {} /\ ~loaded
    /\ pc \in Linking =>
          measuring = {} /\ notifying = {} /\ abandoned = {}
    /\ pc \in Linking \cup Registering =>
          loop = "null" /\ failed \subseteq {"connect"}
    /\ pc \in {"connect", "sleep", "check"} \cup Registering =>
          Ready /\ outputs = configured
    /\ pc \in Linking \ {"check"} => ~all_connected
    /\ pc = "check" /\ all_connected => configured \subseteq connected
    /\ pc \in Registering => all_connected
    /\ pc = "sleep" => retry < max_retries

\* From the main loop to the exit: what is torn down stays so, and a register
\* that failed has left the plugins unloaded.
LateStage ==
    /\ \/ pc \in InLoop
       \/ pc \in End /\ after \in {"loop_new", "exit_success"}
       => /\ all_connected /\ configured # {}
          /\ failed \subseteq {"connect", "register"}
    /\ pc \in End /\ after = "loop_new" => "register" \in failed
    /\ \/ pc \in InLoop
       \/ pc \in {"disconnect", "unregister", "destroy_outputs"}
          /\ after = "exit_success"
       => ("register" \in failed => ~loaded)
    /\ pc \in End /\ after = "exit_success" => interrupts > 0
    /\ pc = "unload" /\ after = "exit_success" => "register" \notin failed
    /\ pc \in InLoop \cup (End \ {"unload"}) => SetupFailed \/ Ready
    /\ pc \in {"unregister", "destroy_outputs", "unload"} \cup Exited =>
          connected = {}
    /\ pc \in {"destroy_outputs", "unload"} \cup Exited => measuring = {}
    /\ pc \in {"unload"} \cup Exited => outputs = {}
    /\ pc \in Exited => ~loaded

\* How far the call main is in has come.
Walks ==
    /\ pc \in {"add_devices", "create_outputs", "sleep", "check",
               "destroy_outputs", "unload"} \cup InLoop => visited = {}
    /\ pc = "connect" /\ visited # {} => retry < max_retries
    /\ pc = "disconnect" => visited \cap connected = {}
    /\ pc = "unregister" => visited \cap measuring = {}
    /\ pc \in Registering =>
          /\ configured \ visited \subseteq connected
          /\ \A d \in configured :
                d \in measuring <=>
                    \/ d \in visited \cap connected
                    \/ Visiting(d) /\ pc \in {"notify_on", "register_undo"}

Devs ==
    /\ connected \cup measuring \cup outputs \subseteq configured
    /\ connected \cup measuring \cup notifying # {} => memory = "live"
    /\ connected \cap abandoned = {}
    /\ notifying \subseteq connected \cup abandoned

Loops ==
    /\ pc = "running" /\ ~is_running => interrupts > 0
    /\ loop = "freed" => interrupts > 0

Inv ==
    /\ TypeOK
    /\ SetupStage
    /\ LateStage
    /\ Walks
    /\ Devs
    /\ Loops
    /\ CallbacksReady
    /\ NotifyingMeasures
    /\ HandlesTracked
    /\ FaultsExplained
    /\ SuccessIsEarned

-----------------------------------------------------------------------------

USE DEF Linking, Registering, InLoop, End, Exited, Stopped, Goto, CallEnd,
        AttemptsLeft, Calls, PluginsFound, ConfigLoads, ConfigFails,
        modify_intervals, control, mainloop, config, plugin, radio

\* A walk is at one device at a time.
LEMMA VisitingOne ==
    ASSUME TypeOK, NEW d, NEW e, Visiting(d), Visiting(e)
    PROVE  d = e
  <1>1. d \in Devices /\ e \in Devices /\ d <= e /\ e <= d
    BY DEF TypeOK, Visiting, connectable
  <1>2. d \in Nat /\ e \in Nat
    BY <1>1, ReaderAssumption
  <1>3. QED
    BY <1>1, <1>2

LEMMA VisitingFacts ==
    ASSUME NEW d, Visiting(d)
    PROVE  d \in configured /\ d \notin visited /\ memory = "live"
  BY DEF Visiting, connectable

LEMMA VisitingSame ==
    ASSUME UNCHANGED <<memory, configured, visited>>, NEW d
    PROVE  Visiting(d)' <=> Visiting(d)
  BY DEF Visiting, connectable

\* What a step that touches no device and no call in progress keeps.
LEMMA SameDevices ==
    ASSUME Inv, pc # "register_close" \/ pc' = pc,
           UNCHANGED <<memory, configured, visited, outputs, connected, handles,
                       notifying, abandoned, measuring>>
    PROVE  Devs' /\ NotifyingMeasures' /\ HandlesTracked'
  BY VisitingSame DEF Inv, Devs, NotifyingMeasures, HandlesTracked

LEMMA InitInv == Init => Inv
  <1> SUFFICES ASSUME Init PROVE Inv
    OBVIOUS
  <1>1. TypeOK
    <2>1. 0 \in 0 .. max_retries /\ 0 \in 0 .. MaxInterrupts
      BY ReaderAssumption
    <2>2. [d \in Devices |-> 0] \in [Devices -> Nat]
      OBVIOUS
    <2>3. QED
      BY <2>1, <2>2 DEF Init, TypeOK
  <1>2. SetupStage /\ LateStage /\ Walks /\ Devs /\ Loops
    BY DEF Init, SetupStage, LateStage, Walks, Devs, Loops
  <1>3. /\ CallbacksReady /\ NotifyingMeasures /\ HandlesTracked
        /\ FaultsExplained /\ SuccessIsEarned
    BY DEF Init, CallbacksReady, NotifyingMeasures, HandlesTracked,
           FaultsExplained, SuccessIsEarned
  <1>4. QED
    BY <1>1, <1>2, <1>3 DEF Inv

LEMMA AddDevicesInv ==
    ASSUME Inv, AddDevices
    PROVE  Inv'
  <1>1. TypeOK'
    <2>1. failed' \subseteq Calls
      BY DEF Inv, AddDevices, TypeOK
    <2>2. QED
      BY <2>1 DEF Inv, AddDevices, TypeOK
  <1>2. SetupStage'
    BY DEF Inv, AddDevices, TypeOK, SetupStage, Ready
  <1>3. LateStage'
    BY DEF Inv, AddDevices, TypeOK, SetupStage, LateStage, SetupFailed,
       Ready, Loops
  <1>4. Walks'
    BY DEF Inv, AddDevices, TypeOK, SetupStage, LateStage, Walks
  <1>5. Devs'
    BY DEF Inv, AddDevices, SetupStage, Devs, Ready, connectable, Walks
  <1>6. Loops'
    BY DEF Inv, AddDevices, SetupStage, Loops
  <1>7. CallbacksReady'
    BY DEF Inv, AddDevices, SetupStage, CallbacksReady, Callable
  <1>8. NotifyingMeasures'
    BY DEF Inv, AddDevices, SetupStage, NotifyingMeasures
  <1>9. HandlesTracked'
    BY DEF Inv, AddDevices, SetupStage, Devs, HandlesTracked
  <1>10. FaultsExplained'
    BY DEF Inv, AddDevices, LateStage, FaultsExplained, SetupFailed
  <1>11. SuccessIsEarned'
    BY DEF Inv, AddDevices, SuccessIsEarned, SetupStage, LateStage
  <1>12. QED
    BY <1>1, <1>2, <1>3, <1>4, <1>5, <1>6, <1>7, <1>8, <1>9, <1>10, <1>11
       DEF Inv

LEMMA CreateOutputsInv ==
    ASSUME Inv, CreateOutputs
    PROVE  Inv'
  <1>1. TypeOK'
    <2>1. failed' \subseteq Calls
      BY DEF Inv, CreateOutputs, TypeOK
    <2>2. /\ assigned' \subseteq Devices /\ outputs' \subseteq Devices
          /\ loaded' \in BOOLEAN
      BY DEF Inv, CreateOutputs, TypeOK
    <2>3. QED
      BY <2>1, <2>2 DEF Inv, CreateOutputs, TypeOK
  <1>2. SetupStage'
    BY DEF Inv, CreateOutputs, TypeOK, SetupStage, Ready, connectable
  <1>3. LateStage'
    BY DEF Inv, CreateOutputs, TypeOK, SetupStage, LateStage, SetupFailed,
       Ready, Loops, connectable
  <1>4. Walks'
    BY DEF Inv, CreateOutputs, TypeOK, SetupStage, LateStage, Walks,
       connectable
  <1>5. Devs'
    BY DEF Inv, CreateOutputs, SetupStage, Devs, Ready, connectable
  <1>6. Loops'
    BY DEF Inv, CreateOutputs, SetupStage, Loops, connectable
  <1>7. CallbacksReady'
    BY DEF Inv, CreateOutputs, SetupStage, CallbacksReady, Callable,
       connectable
  <1>8. NotifyingMeasures'
    BY DEF Inv, CreateOutputs, SetupStage, NotifyingMeasures, connectable
  <1>9. HandlesTracked'
    BY DEF Inv, CreateOutputs, SetupStage, Devs, HandlesTracked, connectable
  <1>10. FaultsExplained'
    BY DEF Inv, CreateOutputs, LateStage, FaultsExplained, SetupFailed,
       connectable
  <1>11. SuccessIsEarned'
    BY DEF Inv, CreateOutputs, SuccessIsEarned, SetupStage, LateStage,
       connectable
  <1>12. QED
    BY <1>1, <1>2, <1>3, <1>4, <1>5, <1>6, <1>7, <1>8, <1>9, <1>10, <1>11
       DEF Inv

LEMMA ConnectDeviceInv ==
    ASSUME Inv, NEW d \in Devices, ConnectDevice(d)
    PROVE  Inv'
  <1>1. TypeOK'
    BY VisitingFacts DEF Inv, ConnectDevice, TypeOK, ToConnect,
       HandlesTracked
  <1>2. SetupStage'
    BY DEF Inv, ConnectDevice, TypeOK, SetupStage, Ready
  <1>3. LateStage'
    BY DEF Inv, ConnectDevice, TypeOK, SetupStage, LateStage, SetupFailed,
       Ready, Loops
  <1>4. Walks'
    BY VisitingFacts DEF Inv, ConnectDevice, TypeOK, SetupStage, LateStage,
       Walks
  <1>5. Devs'
    BY VisitingFacts DEF Inv, ConnectDevice, SetupStage, Devs, Ready,
       ToConnect
  <1>6. Loops'
    BY DEF Inv, ConnectDevice, SetupStage, Loops
  <1>7. CallbacksReady'
    BY DEF Inv, ConnectDevice, SetupStage, CallbacksReady, Callable
  <1>8. NotifyingMeasures'
    BY DEF Inv, ConnectDevice, SetupStage, NotifyingMeasures
  <1>9. HandlesTracked'
    BY VisitingFacts DEF Inv, ConnectDevice, TypeOK, SetupStage, Devs,
       HandlesTracked, ToConnect
  <1>10. FaultsExplained'
    BY DEF Inv, ConnectDevice, LateStage, FaultsExplained, SetupFailed
  <1>11. SuccessIsEarned'
    BY DEF Inv, ConnectDevice, SuccessIsEarned, SetupStage, LateStage
  <1>12. QED
    BY <1>1, <1>2, <1>3, <1>4, <1>5, <1>6, <1>7, <1>8, <1>9, <1>10, <1>11
       DEF Inv

LEMMA ConnectReturnsInv ==
    ASSUME Inv, ConnectReturns
    PROVE  Inv'
  <1>1. TypeOK'
    <2>1. failed' \subseteq Calls
      BY DEF Inv, ConnectReturns, TypeOK
    <2>2. pc' \in {"check", "sleep"} /\ all_connected' \in BOOLEAN
      BY DEF Inv, ConnectReturns, TypeOK
    <2>3. QED
      BY <2>1, <2>2 DEF Inv, ConnectReturns, TypeOK
  <1>2. SetupStage'
    BY DEF Inv, ConnectReturns, TypeOK, SetupStage, Ready, connectable
  <1>3. LateStage'
    BY DEF Inv, ConnectReturns, TypeOK, SetupStage, LateStage, SetupFailed,
       Ready, Loops
  <1>4. Walks'
    BY DEF Inv, ConnectReturns, TypeOK, SetupStage, LateStage, Walks
  <1>5. Devs'
    BY DEF Inv, ConnectReturns, SetupStage, Devs, Ready
  <1>6. Loops'
    BY DEF Inv, ConnectReturns, SetupStage, Loops
  <1>7. CallbacksReady'
    BY DEF Inv, ConnectReturns, SetupStage, CallbacksReady, Callable
  <1>8. NotifyingMeasures'
    BY DEF Inv, ConnectReturns, SetupStage, NotifyingMeasures
  <1>9. HandlesTracked'
    BY DEF Inv, ConnectReturns, SetupStage, Devs, HandlesTracked
  <1>10. FaultsExplained'
    BY DEF Inv, ConnectReturns, LateStage, FaultsExplained, SetupFailed
  <1>11. SuccessIsEarned'
    BY DEF Inv, ConnectReturns, SuccessIsEarned, SetupStage, LateStage
  <1>12. QED
    BY <1>1, <1>2, <1>3, <1>4, <1>5, <1>6, <1>7, <1>8, <1>9, <1>10, <1>11
       DEF Inv

LEMMA GiveUpInv ==
    ASSUME Inv, GiveUp
    PROVE  Inv'
  <1>1. TypeOK'
    BY DEF Inv, GiveUp, TypeOK
  <1>2. SetupStage'
    BY DEF Inv, GiveUp, TypeOK, SetupStage, Ready
  <1>3. LateStage'
    BY DEF Inv, GiveUp, TypeOK, SetupStage, LateStage, SetupFailed, Ready,
       Loops
  <1>4. Walks'
    BY DEF Inv, GiveUp, TypeOK, SetupStage, LateStage, Walks
  <1>5. Devs'
    BY DEF Inv, GiveUp, SetupStage, Devs, Ready
  <1>6. Loops'
    BY DEF Inv, GiveUp, SetupStage, Loops
  <1>7. CallbacksReady'
    BY DEF Inv, GiveUp, SetupStage, CallbacksReady, Callable
  <1>8. NotifyingMeasures'
    BY DEF Inv, GiveUp, SetupStage, NotifyingMeasures
  <1>9. HandlesTracked'
    BY DEF Inv, GiveUp, SetupStage, Devs, HandlesTracked
  <1>10. FaultsExplained'
    BY DEF Inv, GiveUp, LateStage, FaultsExplained, SetupFailed
  <1>11. SuccessIsEarned'
    BY DEF Inv, GiveUp, SuccessIsEarned, SetupStage, LateStage
  <1>12. QED
    BY <1>1, <1>2, <1>3, <1>4, <1>5, <1>6, <1>7, <1>8, <1>9, <1>10, <1>11
       DEF Inv

LEMMA SleepInv ==
    ASSUME Inv, Sleep
    PROVE  Inv'
  <1>1. TypeOK'
    BY ReaderAssumption DEF Inv, Sleep, TypeOK, SetupStage
  <1>2. SetupStage'
    BY DEF Inv, Sleep, TypeOK, SetupStage, Ready
  <1>3. LateStage'
    BY DEF Inv, Sleep, TypeOK, SetupStage, LateStage, SetupFailed, Ready,
       Loops
  <1>4. Walks'
    BY DEF Inv, Sleep, TypeOK, SetupStage, LateStage, Walks
  <1>5. Devs'
    BY DEF Inv, Sleep, SetupStage, Devs, Ready
  <1>6. Loops'
    BY DEF Inv, Sleep, SetupStage, Loops
  <1>7. CallbacksReady'
    BY DEF Inv, Sleep, SetupStage, CallbacksReady, Callable
  <1>8. NotifyingMeasures'
    BY DEF Inv, Sleep, SetupStage, NotifyingMeasures
  <1>9. HandlesTracked'
    BY DEF Inv, Sleep, SetupStage, Devs, HandlesTracked
  <1>10. FaultsExplained'
    BY DEF Inv, Sleep, LateStage, FaultsExplained, SetupFailed
  <1>11. SuccessIsEarned'
    BY DEF Inv, Sleep, SuccessIsEarned, SetupStage, LateStage
  <1>12. QED
    BY <1>1, <1>2, <1>3, <1>4, <1>5, <1>6, <1>7, <1>8, <1>9, <1>10, <1>11
       DEF Inv

LEMMA CheckInv ==
    ASSUME Inv, Check
    PROVE  Inv'
  <1>1. TypeOK'
    BY DEF Inv, Check, TypeOK
  <1>2. SetupStage'
    BY DEF Inv, Check, TypeOK, SetupStage, Ready
  <1>3. LateStage'
    BY DEF Inv, Check, TypeOK, SetupStage, LateStage, SetupFailed, Ready,
       Loops
  <1>4. Walks'
    BY DEF Inv, Check, TypeOK, SetupStage, LateStage, Walks
  <1>5. Devs'
    BY DEF Inv, Check, SetupStage, Devs, Ready
  <1>6. Loops'
    BY DEF Inv, Check, SetupStage, Loops
  <1>7. CallbacksReady'
    BY DEF Inv, Check, SetupStage, CallbacksReady, Callable
  <1>8. NotifyingMeasures'
    BY DEF Inv, Check, SetupStage, NotifyingMeasures
  <1>9. HandlesTracked'
    BY DEF Inv, Check, SetupStage, Devs, HandlesTracked
  <1>10. FaultsExplained'
    BY DEF Inv, Check, LateStage, FaultsExplained, SetupFailed
  <1>11. SuccessIsEarned'
    BY DEF Inv, Check, SuccessIsEarned, SetupStage, LateStage
  <1>12. QED
    BY <1>1, <1>2, <1>3, <1>4, <1>5, <1>6, <1>7, <1>8, <1>9, <1>10, <1>11
       DEF Inv

LEMMA RegisterReturnsInv ==
    ASSUME Inv, RegisterReturns
    PROVE  Inv'
  <1>1. TypeOK'
    <2>1. failed' \subseteq Calls
      BY DEF Inv, RegisterReturns, TypeOK
    <2>2. QED
      BY <2>1 DEF Inv, RegisterReturns, TypeOK
  <1>2. SetupStage'
    BY DEF Inv, RegisterReturns, TypeOK, SetupStage, Ready
  <1>3. LateStage'
    <2>1. /\ pc \in Registering /\ Ready /\ all_connected
          /\ failed \subseteq {"connect"}
      BY DEF Inv, RegisterReturns, SetupStage
    <2>2. CASE connectable \subseteq connected
      BY <2>1, <2>2 DEF RegisterReturns, LateStage, SetupFailed, Ready
    <2>3. CASE ~(connectable \subseteq connected)
      <3>1. /\ failed' \subseteq {"connect", "register"}
            /\ "register" \in failed'
        BY <2>1, <2>3 DEF RegisterReturns
      <3>2. QED
        BY <2>1, <2>3, <3>1 DEF RegisterReturns, LateStage, SetupFailed, Ready
    <2>4. QED
      BY <2>2, <2>3
  <1>4. Walks'
    BY DEF Inv, RegisterReturns, TypeOK, SetupStage, LateStage, Walks,
       VisitedAll, connectable, Devs
  <1>5. Devs'
    BY DEF Inv, RegisterReturns, SetupStage, Devs, Ready
  <1>6. Loops'
    BY DEF Inv, RegisterReturns, SetupStage, Loops
  <1>7. CallbacksReady'
    BY DEF Inv, RegisterReturns, SetupStage, CallbacksReady, Callable
  <1>8. NotifyingMeasures'
    BY DEF Inv, RegisterReturns, SetupStage, NotifyingMeasures
  <1>9. HandlesTracked'
    BY DEF Inv, RegisterReturns, SetupStage, Devs, HandlesTracked
  <1>10. FaultsExplained'
    BY DEF Inv, RegisterReturns, LateStage, FaultsExplained, SetupFailed
  <1>11. SuccessIsEarned'
    BY DEF Inv, RegisterReturns, SuccessIsEarned, SetupStage, LateStage
  <1>12. QED
    BY <1>1, <1>2, <1>3, <1>4, <1>5, <1>6, <1>7, <1>8, <1>9, <1>10, <1>11
       DEF Inv

LEMMA LoopNewInv ==
    ASSUME Inv, LoopNew
    PROVE  Inv'
  <1>1. TypeOK'
    BY DEF Inv, LoopNew, TypeOK
  <1>2. SetupStage'
    BY DEF Inv, LoopNew, TypeOK, SetupStage, Ready
  <1>3. LateStage'
    BY DEF Inv, LoopNew, TypeOK, SetupStage, LateStage, SetupFailed, Ready,
       Loops
  <1>4. Walks'
    BY DEF Inv, LoopNew, TypeOK, SetupStage, LateStage, Walks
  <1>5. Devs'
    BY DEF Inv, LoopNew, SetupStage, Devs, Ready
  <1>6. Loops'
    BY DEF Inv, LoopNew, SetupStage, Loops
  <1>7. CallbacksReady'
    BY DEF Inv, LoopNew, SetupStage, CallbacksReady, Callable
  <1>8. NotifyingMeasures'
    BY DEF Inv, LoopNew, SetupStage, NotifyingMeasures
  <1>9. HandlesTracked'
    BY DEF Inv, LoopNew, SetupStage, Devs, HandlesTracked
  <1>10. FaultsExplained'
    BY DEF Inv, LoopNew, LateStage, FaultsExplained, SetupFailed
  <1>11. SuccessIsEarned'
    BY DEF Inv, LoopNew, SuccessIsEarned, SetupStage, LateStage
  <1>12. QED
    BY <1>1, <1>2, <1>3, <1>4, <1>5, <1>6, <1>7, <1>8, <1>9, <1>10, <1>11
       DEF Inv

LEMMA LoopRunInv ==
    ASSUME Inv, LoopRun
    PROVE  Inv'
  <1>1. TypeOK'
    BY DEF Inv, LoopRun, TypeOK
  <1>2. SetupStage'
    BY DEF Inv, LoopRun, TypeOK, SetupStage, Ready
  <1>3. LateStage'
    BY DEF Inv, LoopRun, TypeOK, SetupStage, LateStage, SetupFailed, Ready,
       Loops
  <1>4. Walks'
    BY DEF Inv, LoopRun, TypeOK, SetupStage, LateStage, Walks
  <1>5. Devs'
    BY DEF Inv, LoopRun, SetupStage, Devs, Ready
  <1>6. Loops'
    BY DEF Inv, LoopRun, SetupStage, Loops
  <1>7. CallbacksReady'
    BY DEF Inv, LoopRun, SetupStage, CallbacksReady, Callable
  <1>8. NotifyingMeasures'
    BY DEF Inv, LoopRun, SetupStage, NotifyingMeasures
  <1>9. HandlesTracked'
    BY DEF Inv, LoopRun, SetupStage, Devs, HandlesTracked
  <1>10. FaultsExplained'
    BY DEF Inv, LoopRun, LateStage, FaultsExplained, SetupFailed
  <1>11. SuccessIsEarned'
    BY DEF Inv, LoopRun, SuccessIsEarned, SetupStage, LateStage
  <1>12. QED
    BY <1>1, <1>2, <1>3, <1>4, <1>5, <1>6, <1>7, <1>8, <1>9, <1>10, <1>11
       DEF Inv

LEMMA LoopExitInv ==
    ASSUME Inv, LoopExit
    PROVE  Inv'
  <1>1. TypeOK'
    BY DEF Inv, LoopExit, TypeOK
  <1>2. SetupStage'
    BY DEF Inv, LoopExit, TypeOK, SetupStage, Ready
  <1>3. LateStage'
    BY DEF Inv, LoopExit, TypeOK, SetupStage, LateStage, SetupFailed, Ready,
       Loops
  <1>4. Walks'
    BY DEF Inv, LoopExit, TypeOK, SetupStage, LateStage, Walks
  <1>5. Devs'
    BY DEF Inv, LoopExit, SetupStage, Devs, Ready
  <1>6. Loops'
    BY DEF Inv, LoopExit, SetupStage, Loops
  <1>7. CallbacksReady'
    BY DEF Inv, LoopExit, SetupStage, CallbacksReady, Callable
  <1>8. NotifyingMeasures'
    BY DEF Inv, LoopExit, SetupStage, NotifyingMeasures
  <1>9. HandlesTracked'
    BY DEF Inv, LoopExit, SetupStage, Devs, HandlesTracked
  <1>10. FaultsExplained'
    BY DEF Inv, LoopExit, LateStage, FaultsExplained, SetupFailed
  <1>11. SuccessIsEarned'
    BY DEF Inv, LoopExit, SuccessIsEarned, SetupStage, LateStage
  <1>12. QED
    BY <1>1, <1>2, <1>3, <1>4, <1>5, <1>6, <1>7, <1>8, <1>9, <1>10, <1>11
       DEF Inv

LEMMA DisconnectReturnsInv ==
    ASSUME Inv, DisconnectReturns
    PROVE  Inv'
  <1>1. TypeOK'
    BY DEF Inv, DisconnectReturns, TypeOK
  <1>2. SetupStage'
    BY DEF Inv, DisconnectReturns, TypeOK, SetupStage, Ready
  <1>3. LateStage'
    BY DEF Inv, DisconnectReturns, TypeOK, SetupStage, LateStage,
       SetupFailed, Ready, Loops, Walks, Devs, VisitedAll, connectable
  <1>4. Walks'
    BY DEF Inv, DisconnectReturns, TypeOK, SetupStage, LateStage, Walks,
       VisitedAll, connectable, Devs
  <1>5. Devs'
    BY DEF Inv, DisconnectReturns, SetupStage, Devs, Ready
  <1>6. Loops'
    BY DEF Inv, DisconnectReturns, SetupStage, Loops
  <1>7. CallbacksReady'
    BY DEF Inv, DisconnectReturns, SetupStage, CallbacksReady, Callable
  <1>8. NotifyingMeasures'
    BY DEF Inv, DisconnectReturns, SetupStage, NotifyingMeasures
  <1>9. HandlesTracked'
    BY DEF Inv, DisconnectReturns, SetupStage, Devs, HandlesTracked
  <1>10. FaultsExplained'
    BY DEF Inv, DisconnectReturns, LateStage, FaultsExplained, SetupFailed
  <1>11. SuccessIsEarned'
    BY DEF Inv, DisconnectReturns, SuccessIsEarned, SetupStage, LateStage
  <1>12. QED
    BY <1>1, <1>2, <1>3, <1>4, <1>5, <1>6, <1>7, <1>8, <1>9, <1>10, <1>11
       DEF Inv

LEMMA UnregisterReturnsInv ==
    ASSUME Inv, UnregisterReturns
    PROVE  Inv'
  <1>1. TypeOK'
    BY DEF Inv, UnregisterReturns, TypeOK
  <1>2. SetupStage'
    BY DEF Inv, UnregisterReturns, TypeOK, SetupStage, Ready
  <1>3. LateStage'
    BY DEF Inv, UnregisterReturns, TypeOK, SetupStage, LateStage,
       SetupFailed, Ready, Loops, Walks, Devs, VisitedAll, connectable
  <1>4. Walks'
    BY DEF Inv, UnregisterReturns, TypeOK, SetupStage, LateStage, Walks,
       VisitedAll, connectable, Devs
  <1>5. Devs'
    BY DEF Inv, UnregisterReturns, SetupStage, Devs, Ready
  <1>6. Loops'
    BY DEF Inv, UnregisterReturns, SetupStage, Loops
  <1>7. CallbacksReady'
    BY DEF Inv, UnregisterReturns, SetupStage, CallbacksReady, Callable
  <1>8. NotifyingMeasures'
    BY DEF Inv, UnregisterReturns, SetupStage, NotifyingMeasures
  <1>9. HandlesTracked'
    BY DEF Inv, UnregisterReturns, SetupStage, Devs, HandlesTracked
  <1>10. FaultsExplained'
    BY DEF Inv, UnregisterReturns, LateStage, FaultsExplained, SetupFailed
  <1>11. SuccessIsEarned'
    BY DEF Inv, UnregisterReturns, SuccessIsEarned, SetupStage, LateStage
  <1>12. QED
    BY <1>1, <1>2, <1>3, <1>4, <1>5, <1>6, <1>7, <1>8, <1>9, <1>10, <1>11
       DEF Inv

LEMMA DestroyOutputsInv ==
    ASSUME Inv, DestroyOutputs
    PROVE  Inv'
  <1>1. TypeOK'
    BY DEF Inv, DestroyOutputs, TypeOK, Fault
  <1>2. SetupStage'
    BY DEF Inv, DestroyOutputs, TypeOK, SetupStage, Ready, Fault
  <1>3. LateStage'
    BY DEF Inv, DestroyOutputs, TypeOK, SetupStage, LateStage, SetupFailed,
       Ready, Loops, Devs, Fault, Callable
  <1>4. Walks'
    BY DEF Inv, DestroyOutputs, TypeOK, SetupStage, LateStage, Walks, Fault
  <1>5. Devs'
    BY DEF Inv, DestroyOutputs, SetupStage, Devs, Ready
  <1>6. Loops'
    BY DEF Inv, DestroyOutputs, SetupStage, Loops, Fault
  <1>7. CallbacksReady'
    BY DEF Inv, DestroyOutputs, LateStage, CallbacksReady
  <1>8. NotifyingMeasures'
    BY DEF Inv, DestroyOutputs, SetupStage, NotifyingMeasures, Fault
  <1>9. HandlesTracked'
    BY DEF Inv, DestroyOutputs, SetupStage, Devs, HandlesTracked
  <1>10. FaultsExplained'
    BY DEF Inv, DestroyOutputs, LateStage, FaultsExplained, SetupFailed,
       Ready, Fault, Callable
  <1>11. SuccessIsEarned'
    BY DEF Inv, DestroyOutputs, SuccessIsEarned, SetupStage, LateStage,
       Fault
  <1>12. QED
    BY <1>1, <1>2, <1>3, <1>4, <1>5, <1>6, <1>7, <1>8, <1>9, <1>10, <1>11
       DEF Inv

LEMMA UnloadInv ==
    ASSUME Inv, Unload
    PROVE  Inv'
  <1>1. TypeOK'
    BY DEF Inv, Unload, TypeOK
  <1>2. SetupStage'
    BY DEF Inv, Unload, TypeOK, SetupStage, Ready
  <1>3. LateStage'
    BY DEF Inv, Unload, TypeOK, SetupStage, LateStage, SetupFailed, Ready,
       Loops
  <1>4. Walks'
    BY DEF Inv, Unload, TypeOK, SetupStage, LateStage, Walks
  <1>5. Devs'
    BY DEF Inv, Unload, SetupStage, Devs, Ready
  <1>6. Loops'
    BY DEF Inv, Unload, TypeOK, Loops
  <1>7. CallbacksReady'
    BY DEF Inv, Unload, LateStage, CallbacksReady
  <1>8. NotifyingMeasures'
    BY DEF Inv, Unload, SetupStage, NotifyingMeasures
  <1>9. HandlesTracked'
    BY DEF Inv, Unload, SetupStage, Devs, HandlesTracked
  <1>10. FaultsExplained'
    BY DEF Inv, Unload, LateStage, FaultsExplained, SetupFailed
  <1>11. SuccessIsEarned'
    BY DEF Inv, Unload, SuccessIsEarned, SetupStage, LateStage
  <1>12. QED
    BY <1>1, <1>2, <1>3, <1>4, <1>5, <1>6, <1>7, <1>8, <1>9, <1>10, <1>11
       DEF Inv

LEMMA RegisterDeviceInv ==
    ASSUME Inv, NEW d \in Devices, RegisterDevice(d)
    PROVE  Inv'
  <1>1. TypeOK'
    BY VisitingFacts DEF Inv, RegisterDevice, TypeOK
  <1>2. SetupStage'
    BY DEF Inv, RegisterDevice, TypeOK, SetupStage, Ready
  <1>3. LateStage'
    BY DEF Inv, RegisterDevice, TypeOK, SetupStage, LateStage, SetupFailed,
       Ready, Loops
  <1>4. Walks'
    BY VisitingFacts, VisitingOne, VisitingSame DEF Inv, RegisterDevice,
       TypeOK, SetupStage, LateStage, Walks
  <1>5. Devs'
    BY VisitingFacts DEF Inv, RegisterDevice, SetupStage, Devs, Ready
  <1>6. Loops'
    BY DEF Inv, RegisterDevice, SetupStage, Loops
  <1>7. CallbacksReady'
    BY VisitingFacts DEF Inv, RegisterDevice, SetupStage, CallbacksReady,
       Callable, Ready
  <1>8. NotifyingMeasures'
    BY VisitingFacts, VisitingOne, VisitingSame DEF Inv, RegisterDevice,
       SetupStage, NotifyingMeasures
  <1>9. HandlesTracked'
    BY DEF Inv, RegisterDevice, SetupStage, Devs, HandlesTracked
  <1>10. FaultsExplained'
    BY DEF Inv, RegisterDevice, LateStage, FaultsExplained, SetupFailed
  <1>11. SuccessIsEarned'
    BY DEF Inv, RegisterDevice, SuccessIsEarned, SetupStage, LateStage
  <1>12. QED
    BY <1>1, <1>2, <1>3, <1>4, <1>5, <1>6, <1>7, <1>8, <1>9, <1>10, <1>11
       DEF Inv

LEMMA NotifyOnInv ==
    ASSUME Inv, NEW d \in Devices, NotifyOn(d)
    PROVE  Inv'
  <1>1. TypeOK'
    BY DEF Inv, NotifyOn, TypeOK
  <1>2. SetupStage'
    BY DEF Inv, NotifyOn, TypeOK, SetupStage, Ready
  <1>3. LateStage'
    BY DEF Inv, NotifyOn, TypeOK, SetupStage, LateStage, SetupFailed, Ready,
       Loops
  <1>4. Walks'
    BY VisitingFacts, VisitingOne, VisitingSame DEF Inv, NotifyOn, TypeOK,
       SetupStage, LateStage, Walks
  <1>5. Devs'
    BY VisitingFacts DEF Inv, NotifyOn, SetupStage, Devs, Ready, Walks
  <1>6. Loops'
    BY DEF Inv, NotifyOn, SetupStage, Loops
  <1>7. CallbacksReady'
    BY DEF Inv, NotifyOn, SetupStage, CallbacksReady, Callable
  <1>8. NotifyingMeasures'
    BY VisitingFacts, VisitingOne, VisitingSame DEF Inv, NotifyOn,
       SetupStage, NotifyingMeasures, Walks
  <1>9. HandlesTracked'
    BY DEF Inv, NotifyOn, SetupStage, Devs, HandlesTracked
  <1>10. FaultsExplained'
    BY DEF Inv, NotifyOn, LateStage, FaultsExplained, SetupFailed
  <1>11. SuccessIsEarned'
    BY DEF Inv, NotifyOn, SuccessIsEarned, SetupStage, LateStage
  <1>12. QED
    BY <1>1, <1>2, <1>3, <1>4, <1>5, <1>6, <1>7, <1>8, <1>9, <1>10, <1>11
       DEF Inv

LEMMA DeviceRegisteredInv ==
    ASSUME Inv, NEW d \in Devices, DeviceRegistered(d)
    PROVE  Inv'
  <1>1. TypeOK'
    BY DEF Inv, DeviceRegistered, TypeOK
  <1>2. SetupStage'
    BY DEF Inv, DeviceRegistered, TypeOK, SetupStage, Ready
  <1>3. LateStage'
    BY DEF Inv, DeviceRegistered, TypeOK, SetupStage, LateStage,
       SetupFailed, Ready, Loops
  <1>4. Walks'
    BY VisitingFacts, VisitingOne, VisitingSame DEF Inv, DeviceRegistered,
       TypeOK, SetupStage, LateStage, Walks
  <1>5. Devs'
    BY VisitingFacts DEF Inv, DeviceRegistered, SetupStage, Devs, Ready,
       Walks
  <1>6. Loops'
    BY DEF Inv, DeviceRegistered, SetupStage, Loops
  <1>7. CallbacksReady'
    BY DEF Inv, DeviceRegistered, SetupStage, CallbacksReady, Callable
  <1>8. NotifyingMeasures'
    BY VisitingFacts DEF Inv, DeviceRegistered, SetupStage,
       NotifyingMeasures, Walks
  <1>9. HandlesTracked'
    BY DEF Inv, DeviceRegistered, SetupStage, Devs, HandlesTracked
  <1>10. FaultsExplained'
    BY DEF Inv, DeviceRegistered, LateStage, FaultsExplained, SetupFailed
  <1>11. SuccessIsEarned'
    BY DEF Inv, DeviceRegistered, SuccessIsEarned, SetupStage, LateStage
  <1>12. QED
    BY <1>1, <1>2, <1>3, <1>4, <1>5, <1>6, <1>7, <1>8, <1>9, <1>10, <1>11
       DEF Inv

LEMMA NotifyFailsInv ==
    ASSUME Inv, NEW d \in Devices, NotifyFails(d)
    PROVE  Inv'
  <1>1. TypeOK'
    BY DEF Inv, NotifyFails, TypeOK
  <1>2. SetupStage'
    BY DEF Inv, NotifyFails, TypeOK, SetupStage, Ready
  <1>3. LateStage'
    BY DEF Inv, NotifyFails, TypeOK, SetupStage, LateStage, SetupFailed,
       Ready, Loops
  <1>4. Walks'
    BY VisitingFacts, VisitingOne, VisitingSame DEF Inv, NotifyFails,
       TypeOK, SetupStage, LateStage, Walks
  <1>5. Devs'
    BY DEF Inv, NotifyFails, SetupStage, Devs, Ready
  <1>6. Loops'
    BY DEF Inv, NotifyFails, SetupStage, Loops
  <1>7. CallbacksReady'
    BY DEF Inv, NotifyFails, SetupStage, CallbacksReady, Callable
  <1>8. NotifyingMeasures'
    BY VisitingFacts, VisitingOne, VisitingSame DEF Inv, NotifyFails,
       SetupStage, NotifyingMeasures, Walks
  <1>9. HandlesTracked'
    BY DEF Inv, NotifyFails, SetupStage, Devs, HandlesTracked
  <1>10. FaultsExplained'
    BY DEF Inv, NotifyFails, LateStage, FaultsExplained, SetupFailed
  <1>11. SuccessIsEarned'
    BY DEF Inv, NotifyFails, SuccessIsEarned, SetupStage, LateStage
  <1>12. QED
    BY <1>1, <1>2, <1>3, <1>4, <1>5, <1>6, <1>7, <1>8, <1>9, <1>10, <1>11
       DEF Inv

LEMMA RegisterUndoInv ==
    ASSUME Inv, NEW d \in Devices, RegisterUndo(d)
    PROVE  Inv'
  <1>1. TypeOK'
    BY DEF Inv, RegisterUndo, TypeOK
  <1>2. SetupStage'
    BY DEF Inv, RegisterUndo, TypeOK, SetupStage, Ready
  <1>3. LateStage'
    BY DEF Inv, RegisterUndo, TypeOK, SetupStage, LateStage, SetupFailed,
       Ready, Loops
  <1>4. Walks'
    BY VisitingFacts, VisitingOne, VisitingSame DEF Inv, RegisterUndo,
       TypeOK, SetupStage, LateStage, Walks
  <1>5. Devs'
    BY DEF Inv, RegisterUndo, SetupStage, Devs, Ready
  <1>6. Loops'
    BY DEF Inv, RegisterUndo, SetupStage, Loops
  <1>7. CallbacksReady'
    BY DEF Inv, RegisterUndo, SetupStage, CallbacksReady, Callable
  <1>8. NotifyingMeasures'
    BY VisitingFacts, VisitingOne, VisitingSame DEF Inv, RegisterUndo,
       SetupStage, NotifyingMeasures, Walks
  <1>9. HandlesTracked'
    BY DEF Inv, RegisterUndo, SetupStage, Devs, HandlesTracked
  <1>10. FaultsExplained'
    BY DEF Inv, RegisterUndo, LateStage, FaultsExplained, SetupFailed
  <1>11. SuccessIsEarned'
    BY DEF Inv, RegisterUndo, SuccessIsEarned, SetupStage, LateStage
  <1>12. QED
    BY <1>1, <1>2, <1>3, <1>4, <1>5, <1>6, <1>7, <1>8, <1>9, <1>10, <1>11
       DEF Inv

LEMMA RegisterCloseInv ==
    ASSUME Inv, NEW d \in Devices, RegisterClose(d)
    PROVE  Inv'
  <1>1. TypeOK'
    BY VisitingFacts DEF Inv, RegisterClose, TypeOK, HandlesTracked,
       CloseConnection, Walks
  <1>2. SetupStage'
    BY DEF Inv, RegisterClose, TypeOK, SetupStage, Ready
  <1>3. LateStage'
    BY DEF Inv, RegisterClose, TypeOK, SetupStage, LateStage, SetupFailed,
       Ready, Loops
  <1>4. Walks'
    BY VisitingFacts, VisitingOne, VisitingSame DEF Inv, RegisterClose,
       TypeOK, SetupStage, LateStage, Walks, CloseConnection
  <1>5. Devs'
    BY VisitingFacts DEF Inv, RegisterClose, SetupStage, Devs, Ready, Walks,
       CloseConnection
  <1>6. Loops'
    BY DEF Inv, RegisterClose, SetupStage, Loops
  <1>7. CallbacksReady'
    BY DEF Inv, RegisterClose, SetupStage, CallbacksReady, Callable
  <1>8. NotifyingMeasures'
    BY VisitingFacts, VisitingOne, VisitingSame DEF Inv, RegisterClose,
       SetupStage, NotifyingMeasures, Walks, CloseConnection
  <1>9. HandlesTracked'
    BY VisitingFacts DEF Inv, RegisterClose, TypeOK, SetupStage, Devs,
       HandlesTracked, Walks, CloseConnection
  <1>10. FaultsExplained'
    BY DEF Inv, RegisterClose, LateStage, FaultsExplained, SetupFailed
  <1>11. SuccessIsEarned'
    BY DEF Inv, RegisterClose, SuccessIsEarned, SetupStage, LateStage
  <1>12. QED
    BY <1>1, <1>2, <1>3, <1>4, <1>5, <1>6, <1>7, <1>8, <1>9, <1>10, <1>11
       DEF Inv

LEMMA DisconnectDeviceInv ==
    ASSUME Inv, NEW d \in Devices, DisconnectDevice(d)
    PROVE  Inv'
  <1>1. TypeOK'
    BY VisitingFacts DEF Inv, DisconnectDevice, TypeOK, HandlesTracked,
       CloseConnection, Devs
  <1>2. SetupStage'
    BY DEF Inv, DisconnectDevice, TypeOK, SetupStage, Ready
  <1>3. LateStage'
    BY DEF Inv, DisconnectDevice, TypeOK, SetupStage, LateStage,
       SetupFailed, Ready, Loops
  <1>4. Walks'
    BY VisitingFacts, VisitingOne, VisitingSame DEF Inv, DisconnectDevice,
       TypeOK, SetupStage, LateStage, Walks, CloseConnection
  <1>5. Devs'
    BY VisitingFacts DEF Inv, DisconnectDevice, SetupStage, Devs, Ready,
       CloseConnection
  <1>6. Loops'
    BY DEF Inv, DisconnectDevice, SetupStage, Loops
  <1>7. CallbacksReady'
    BY DEF Inv, DisconnectDevice, SetupStage, CallbacksReady, Callable
  <1>8. NotifyingMeasures'
    BY VisitingFacts DEF Inv, DisconnectDevice, SetupStage,
       NotifyingMeasures, CloseConnection
  <1>9. HandlesTracked'
    BY VisitingFacts DEF Inv, DisconnectDevice, TypeOK, SetupStage, Devs,
       HandlesTracked, CloseConnection
  <1>10. FaultsExplained'
    BY DEF Inv, DisconnectDevice, LateStage, FaultsExplained, SetupFailed
  <1>11. SuccessIsEarned'
    BY DEF Inv, DisconnectDevice, SuccessIsEarned, SetupStage, LateStage
  <1>12. QED
    BY <1>1, <1>2, <1>3, <1>4, <1>5, <1>6, <1>7, <1>8, <1>9, <1>10, <1>11
       DEF Inv

LEMMA UnregisterDeviceInv ==
    ASSUME Inv, NEW d \in Devices, UnregisterDevice(d)
    PROVE  Inv'
  <1>1. TypeOK'
    BY DEF Inv, UnregisterDevice, TypeOK
  <1>2. SetupStage'
    BY DEF Inv, UnregisterDevice, TypeOK, SetupStage, Ready
  <1>3. LateStage'
    BY DEF Inv, UnregisterDevice, TypeOK, SetupStage, LateStage,
       SetupFailed, Ready, Loops
  <1>4. Walks'
    BY VisitingFacts, VisitingOne, VisitingSame DEF Inv, UnregisterDevice,
       TypeOK, SetupStage, LateStage, Walks
  <1>5. Devs'
    BY DEF Inv, UnregisterDevice, SetupStage, Devs, Ready
  <1>6. Loops'
    BY DEF Inv, UnregisterDevice, SetupStage, Loops
  <1>7. CallbacksReady'
    BY DEF Inv, UnregisterDevice, SetupStage, CallbacksReady, Callable
  <1>8. NotifyingMeasures'
    BY VisitingFacts DEF Inv, UnregisterDevice, SetupStage,
       NotifyingMeasures, Devs, LateStage
  <1>9. HandlesTracked'
    BY DEF Inv, UnregisterDevice, SetupStage, Devs, HandlesTracked
  <1>10. FaultsExplained'
    BY DEF Inv, UnregisterDevice, LateStage, FaultsExplained, SetupFailed
  <1>11. SuccessIsEarned'
    BY DEF Inv, UnregisterDevice, SuccessIsEarned, SetupStage, LateStage
  <1>12. QED
    BY <1>1, <1>2, <1>3, <1>4, <1>5, <1>6, <1>7, <1>8, <1>9, <1>10, <1>11
       DEF Inv

LEMMA DropLinkInv ==
    ASSUME Inv, NEW d \in Devices, DropLink(d)
    PROVE  Inv'
  <1>1. TypeOK'
    BY DEF Inv, DropLink, TypeOK
  <1>2. SetupStage'
    BY DEF Inv, DropLink, TypeOK, SetupStage, Ready
  <1>3. LateStage'
    BY DEF Inv, DropLink, TypeOK, SetupStage, LateStage, SetupFailed, Ready,
       Loops
  <1>4. Walks'
    BY VisitingSame DEF Inv, DropLink, TypeOK, SetupStage, LateStage, Walks
  <1>5. Devs'
    BY DEF Inv, DropLink, SetupStage, Devs, Ready
  <1>6. Loops'
    BY DEF Inv, DropLink, SetupStage, Loops
  <1>7. CallbacksReady'
    BY DEF Inv, DropLink, SetupStage, CallbacksReady, Callable
  <1>8. NotifyingMeasures'
    BY VisitingSame DEF Inv, DropLink, SetupStage, NotifyingMeasures
  <1>9. HandlesTracked'
    BY DEF Inv, DropLink, SetupStage, Devs, HandlesTracked
  <1>10. FaultsExplained'
    BY DEF Inv, DropLink, LateStage, FaultsExplained, SetupFailed
  <1>11. SuccessIsEarned'
    BY DEF Inv, DropLink, SuccessIsEarned, SetupStage, LateStage
  <1>12. QED
    BY <1>1, <1>2, <1>3, <1>4, <1>5, <1>6, <1>7, <1>8, <1>9, <1>10, <1>11
       DEF Inv

LEMMA NotifyInv ==
    ASSUME Inv, NEW d \in Devices, Notify(d)
    PROVE  Inv'
  <1>1. TypeOK'
    BY DEF Inv, Notify, TypeOK, Fault, Callable, CallbacksReady, Devs
  <1>2. SetupStage'
    BY DEF Inv, Notify, TypeOK, SetupStage, Ready, Fault, Callable,
       CallbacksReady, Devs
  <1>3. LateStage'
    BY DEF Inv, Notify, TypeOK, SetupStage, LateStage, SetupFailed, Ready,
       Loops, Fault, Callable, CallbacksReady, Devs
  <1>4. Walks'
    BY VisitingSame DEF Inv, Notify, TypeOK, SetupStage, LateStage, Walks,
       Fault, Callable, CallbacksReady, Devs
  <1>5. Devs'
    BY DEF Inv, Notify, SetupStage, Devs, Ready, Fault, Callable,
       CallbacksReady
  <1>6. Loops'
    BY DEF Inv, Notify, SetupStage, Loops, Fault, Callable, CallbacksReady,
       Devs
  <1>7. CallbacksReady'
    BY DEF Inv, Notify, SetupStage, CallbacksReady, Callable, Fault, Devs
  <1>8. NotifyingMeasures'
    BY VisitingSame DEF Inv, Notify, SetupStage, NotifyingMeasures, Fault,
       Callable, CallbacksReady, Devs
  <1>9. HandlesTracked'
    BY DEF Inv, Notify, SetupStage, Devs, HandlesTracked, Fault, Callable,
       CallbacksReady
  <1>10. FaultsExplained'
    BY DEF Inv, Notify, LateStage, FaultsExplained, SetupFailed, Fault,
       Callable, CallbacksReady, Devs
  <1>11. SuccessIsEarned'
    BY DEF Inv, Notify, SuccessIsEarned, SetupStage, LateStage, Fault,
       Callable, CallbacksReady, Devs
  <1>12. QED
    BY <1>1, <1>2, <1>3, <1>4, <1>5, <1>6, <1>7, <1>8, <1>9, <1>10, <1>11
       DEF Inv

\* The only step that counts a signal: a second one finds the counter positive.
LEMMA InterruptInv ==
    ASSUME Inv, Interrupt
    PROVE  Inv'
  <1>1. interrupts \in Nat /\ interrupts' = interrupts + 1
    BY ReaderAssumption DEF Inv, TypeOK, Interrupt
  <1>2. /\ interrupts' \in 0 .. MaxInterrupts
        /\ interrupts' > 0
        /\ interrupts > 0 => interrupts' > 1
    BY <1>1, ReaderAssumption DEF Inv, TypeOK, Interrupt
  <1>3. \/ pc' = pc /\ fault' = fault
        \/ pc' = "undefined" /\ fault' = "loop" /\ interrupts' > 1
    BY <1>2 DEF Inv, Interrupt, Fault, Loops
  <1>4. TypeOK'
    <2>1. aborted' \in BOOLEAN /\ is_running' \in BOOLEAN
      BY DEF Inv, Interrupt, TypeOK
    <2>2. QED
      BY <1>2, <1>3, <2>1 DEF Inv, Interrupt, TypeOK
  <1>5. SetupStage'
    BY <1>3 DEF Inv, Interrupt, SetupStage, Ready
  <1>6. LateStage'
    BY <1>2, <1>3 DEF Inv, Interrupt, LateStage, SetupFailed, Ready
  <1>7. Loops'
    BY <1>2 DEF Interrupt, Loops
  <1>8. FaultsExplained'
    <2>1. fault' = "loop" => interrupts' > 1
      BY <1>1, <1>2, <1>3 DEF Inv, FaultsExplained
    <2>2. QED
      BY <1>3, <2>1 DEF Inv, Interrupt, FaultsExplained, SetupFailed
  <1>9. SuccessIsEarned'
    BY <1>2, <1>3 DEF Inv, Interrupt, SuccessIsEarned
  <1>10. Walks'
    BY <1>3, VisitingSame DEF Inv, Interrupt, Walks
  <1>11. NotifyingMeasures'
    <2>1. CASE pc' = pc
      BY <2>1, SameDevices DEF Interrupt
    <2>2. CASE loop = "freed"
      BY <2>2, SameDevices DEF Inv, SetupStage, Interrupt
    <2>3. QED
      BY <2>1, <2>2 DEF Interrupt
  <1>12. Devs' /\ CallbacksReady' /\ HandlesTracked'
    BY DEF Inv, Interrupt, Devs, CallbacksReady, HandlesTracked, Callable
  <1>13. QED
    BY <1>4, <1>5, <1>6, <1>7, <1>8, <1>9, <1>10, <1>11, <1>12 DEF Inv

LEMMA NextInv == Inv /\ [Next]_vars => Inv'
  <1> SUFFICES ASSUME Inv, [Next]_vars PROVE Inv'
    OBVIOUS
  <1>1. CASE Main
    <2>1. ASSUME NEW d \in Devices, AtDevice(d)
          PROVE  Inv'
      BY <2>1, ConnectDeviceInv, RegisterDeviceInv, NotifyOnInv,
         DeviceRegisteredInv, NotifyFailsInv, RegisterUndoInv, RegisterCloseInv,
         DisconnectDeviceInv, UnregisterDeviceInv DEF AtDevice
    <2>2. QED
      BY <1>1, <2>1, AddDevicesInv, CreateOutputsInv, ConnectReturnsInv,
         GiveUpInv, SleepInv, CheckInv, RegisterReturnsInv, LoopNewInv,
         LoopRunInv, LoopExitInv, DisconnectReturnsInv, UnregisterReturnsInv,
         DestroyOutputsInv, UnloadInv DEF Main
  <1>2. CASE Interrupt
    BY <1>2, InterruptInv
  <1>3. ASSUME NEW d \in Devices, DropLink(d) \/ Notify(d)
        PROVE  Inv'
    BY <1>3, DropLinkInv, NotifyInv
  <1>4. CASE UNCHANGED vars
    BY <1>4, VisitingSame
       DEF vars, Inv, TypeOK, SetupStage, LateStage, Walks, Devs, Loops,
           CallbacksReady, NotifyingMeasures, HandlesTracked, FaultsExplained,
           SuccessIsEarned, SetupFailed, Ready, Callable
  <1>5. QED
    BY <1>1, <1>2, <1>3, <1>4 DEF Next

LEMMA Invariance == Spec => []Inv
  BY InitInv, NextInv, PTL DEF Spec

-----------------------------------------------------------------------------
(* The theorems.                                                           *)

\* The variables keep their types for any set of devices, number of attempts
\* and number of signals.
THEOREM Typing == Spec => []TypeOK
  <1>1. Inv => TypeOK
    BY DEF Inv
  <1>2. QED
    BY <1>1, Invariance, PTL

\* A device with intervals can always deliver.
THEOREM Callbacks == Spec => []CallbacksReady
  <1>1. Inv => CallbacksReady
    BY DEF Inv
  <1>2. QED
    BY <1>1, Invariance, PTL

\* A device whose notifications are enabled has its intervals, unless it is
\* being disconnected or could not be.
THEOREM Notifying == Spec => []NotifyingMeasures
  <1>1. Inv => NotifyingMeasures
    BY DEF Inv
  <1>2. QED
    BY <1>1, Invariance, PTL

\* Connections are neither doubled nor lost, for any number of attempts.
THEOREM Handles == Spec => []HandlesTracked
  <1>1. Inv => HandlesTracked
    BY DEF Inv
  <1>2. QED
    BY <1>1, Invariance, PTL

\* Undefined behaviour needs a failed set-up call or a second signal.
THEOREM Faults == Spec => []FaultsExplained
  <1>1. Inv => FaultsExplained
    BY DEF Inv
  <1>2. QED
    BY <1>1, Invariance, PTL

\* main returns with nothing held but what gattlib refused to close.
THEOREM Clean == Spec => []ExitsClean
  <1>1. Inv => ExitsClean
    BY DEF Inv, LateStage, HandlesTracked, ExitsClean
  <1>2. QED
    BY <1>1, Invariance, PTL

\* main returns 0 only after a session that was set up completely.
THEOREM Success == Spec => []SuccessIsEarned
  <1>1. Inv => SuccessIsEarned
    BY DEF Inv
  <1>2. QED
    BY <1>1, Invariance, PTL

-----------------------------------------------------------------------------
(* The reader implements DeviceSession: every step of main, of a signal,   *)
(* of a link or of a notification is one step of the sessions or none.     *)
(* Inv is what makes the mapping work: which devices are linked when main  *)
(* registers, which have been through it, and that a notification finds    *)
(* its plugin.                                                             *)

\* The phase, as the refinement mapping of Reader has it.
Phase ==
    IF pc \in Linking THEN "linking"
    ELSE IF pc \in Registering THEN "starting" ELSE "over"

Refined == [Sessions!Next]_(Sessions!vars)

\* The steps of DeviceSession, in terms of Phase and SessionOf.

LEMMA StutterStep ==
    ASSUME \A d \in Devices : SessionOf(d)' = SessionOf(d),
           Phase' = Phase, delivered' = delivered
    PROVE  Refined
  BY DEF Refined, Phase, Sessions!vars

LEMMA ChooseStep ==
    ASSUME NEW D \in SUBSET Devices,
           Phase = "linking", Phase' = "linking",
           \A d \in Devices : SessionOf(d) = "idle",
           \A d \in Devices :
              SessionOf(d)' = IF d \in D THEN "idle" ELSE "closed",
           delivered' = delivered
    PROVE  Refined
  <1>1. Sessions!Choose(D)
    BY DEF Phase, Sessions!Choose
  <1>2. QED
    BY <1>1 DEF Refined, Sessions!Next

LEMMA LinkStep ==
    ASSUME NEW d \in Devices,
           Phase = "linking", Phase' = "linking",
           SessionOf(d) = "idle", SessionOf(d)' = "linked",
           \A e \in Devices \ {d} : SessionOf(e)' = SessionOf(e),
           delivered' = delivered
    PROVE  Refined
  <1>1. Sessions!Link(d)
    BY DEF Phase, Sessions!Link
  <1>2. QED
    BY <1>1 DEF Refined, Sessions!Next

LEMMA BeginStep ==
    ASSUME Phase = "linking", Phase' = "starting",
           \A d \in Devices : SessionOf(d) # "idle",
           \A d \in Devices : SessionOf(d)' = SessionOf(d),
           delivered' = delivered
    PROVE  Refined
  <1>1. Sessions!Begin
    BY DEF Phase, Sessions!Begin
  <1>2. QED
    BY <1>1 DEF Refined, Sessions!Next

LEMMA StreamStep ==
    ASSUME NEW d \in Devices,
           Phase = "starting", Phase' = "starting",
           SessionOf(d) = "linked", SessionOf(d)' = "streaming",
           \A e \in Devices \ {d} : SessionOf(e)' = SessionOf(e),
           delivered' = delivered
    PROVE  Refined
  <1>1. Sessions!Stream(d)
    BY DEF Phase, Sessions!Stream
  <1>2. QED
    BY <1>1 DEF Refined, Sessions!Next

LEMMA CloseStep ==
    ASSUME NEW d \in Devices, Phase' = Phase,
           \/ SessionOf(d) = "streaming"
           \/ SessionOf(d) = "linked" /\ Phase = "over",
           SessionOf(d)' = "closed",
           \A e \in Devices \ {d} : SessionOf(e)' = SessionOf(e),
           delivered' = delivered
    PROVE  Refined
  <1>1. Sessions!Close(d)
    BY DEF Phase, Sessions!Close
  <1>2. QED
    BY <1>1 DEF Refined, Sessions!Next

LEMMA StartedStep ==
    ASSUME Phase = "starting", Phase' = "over",
           \A d \in Devices : SessionOf(d) \in {"streaming", "closed"},
           \A d \in Devices : SessionOf(d)' = SessionOf(d),
           delivered' = delivered
    PROVE  Refined
  <1>1. Sessions!Started
    BY DEF Phase, Sessions!Started
  <1>2. QED
    BY <1>1 DEF Refined, Sessions!Next

LEMMA GiveUpStep ==
    ASSUME Phase = "linking", Phase' = "over",
           \A d \in Devices :
              SessionOf(d)' = IF SessionOf(d) = "idle" THEN "closed"
                                                       ELSE SessionOf(d),
           delivered' = delivered
    PROVE  Refined
  <1>1. Sessions!GiveUp
    BY DEF Phase, Sessions!GiveUp
  <1>2. QED
    BY <1>1 DEF Refined, Sessions!Next

LEMMA DeliverStep ==
    ASSUME NEW d \in Devices, Phase' = Phase, SessionOf(d) = "streaming",
           \A e \in Devices : SessionOf(e)' = SessionOf(e),
           delivered' = delivered \cup {d}
    PROVE  Refined
  <1>1. Sessions!Deliver(d)
    BY DEF Phase, Sessions!Deliver
  <1>2. QED
    BY <1>1 DEF Refined, Sessions!Next

-----------------------------------------------------------------------------
(* The steps of the reader.                                                *)

\* Where main only goes on, no session changes.
LEMMA GoOn ==
    ASSUME \/ pc' = pc /\ UNCHANGED visited
           \/ /\ pc \in Linking \ {"add_devices"}
              /\ pc' \in Linking \ {"add_devices"}
           \/ /\ pc \notin Linking \cup Registering
              /\ pc' \notin Linking \cup Registering
           \/ /\ pc \in Registering \ {"register_close"}
              /\ pc' \in Registering \ {"register_close"},
           UNCHANGED <<memory, configured, measuring, connected, delivered>>
    PROVE  Refined
  <1>1. \A d : UNCHANGED visited => (Visiting(d)' <=> Visiting(d))
    BY VisitingSame
  <1>2. Phase' = Phase /\ connectable' = connectable
    BY DEF Phase, connectable
  <1>3. \A d \in Devices : SessionOf(d)' = SessionOf(d)
    BY <1>1, <1>2 DEF SessionOf
  <1>4. QED
    BY <1>2, <1>3, StutterStep

\* Until main registers nothing measures, so no device streams.
LEMMA LinkingSessions ==
    ASSUME Inv, pc \in Linking
    PROVE  /\ measuring = {}
           /\ \A d \in Devices :
                 SessionOf(d) = IF d \in connected THEN "linked"
                                ELSE IF pc = "add_devices" \/ d \in connectable
                                THEN "idle" ELSE "closed"
  BY DEF Inv, SetupStage, SessionOf

\* A set-up that is given up ends the sessions that have not begun.
LEMMA LinkingGivenUp ==
    ASSUME Inv, pc \in Linking, pc' \notin Linking \cup Registering,
           UNCHANGED <<measuring, connected, delivered>>
    PROVE  Refined
  <1>1. \A d \in Devices :
           SessionOf(d)' = IF d \in connected THEN "linked" ELSE "closed"
    BY LinkingSessions DEF SessionOf
  <1>2. Phase = "linking" /\ Phase' = "over"
    BY DEF Phase
  <1>3. QED
    BY <1>1, <1>2, LinkingSessions, GiveUpStep

LEMMA AddDevicesRefined ==
    ASSUME Inv, AddDevices
    PROVE  Refined
  <1>1. pc = "add_devices" /\ UNCHANGED <<measuring, connected, delivered>>
    BY DEF AddDevices
  <1>2. CASE ConfigLoads /\ pc' = "create_outputs"
    <2>1. /\ connected = {} /\ measuring = {}
          /\ connectable' = configured' /\ configured' \in SUBSET Devices
      BY <1>1, <1>2 DEF Inv, SetupStage, connectable
    <2>2. \A d \in Devices : SessionOf(d) = "idle"
      BY <1>1, <2>1 DEF SessionOf
    <2>3. \A d \in Devices :
             SessionOf(d)' = IF d \in configured' THEN "idle" ELSE "closed"
      BY <1>1, <1>2, <2>1 DEF SessionOf
    <2>4. Phase = "linking" /\ Phase' = "linking"
      BY <1>1, <1>2 DEF Phase
    <2>5. QED
      BY <1>1, <2>1, <2>2, <2>3, <2>4, ChooseStep
  <1>3. CASE pc' = "disconnect"
    BY <1>1, <1>3, LinkingGivenUp
  <1>4. QED
    BY <1>2, <1>3 DEF AddDevices

LEMMA ConnectDeviceRefined ==
    ASSUME Inv, NEW d \in Devices, ConnectDevice(d)
    PROVE  Refined
  <1>1. /\ pc = "connect" /\ pc' = pc /\ d \in connectable
        /\ UNCHANGED <<memory, configured, measuring, delivered>>
    BY VisitingFacts DEF ConnectDevice, Visiting
  <1>2. CASE UNCHANGED connected
    BY <1>1, <1>2, GoOn
  <1>3. CASE d \in ToConnect /\ connected' = connected \cup {d}
    <2>1. d \notin connected /\ connectable' = connectable
      BY <1>1, <1>3 DEF ToConnect, connectable
    <2>2. SessionOf(d) = "idle"
      BY <1>1, <2>1, LinkingSessions
    <2>3. measuring' = {}
      BY <1>1, LinkingSessions
    <2>4. SessionOf(d)' = "linked"
      BY <1>1, <1>3, <2>3 DEF SessionOf
    <2>5. \A e \in Devices \ {d} : SessionOf(e)' = SessionOf(e)
      BY <1>1, <1>3, <2>1, <2>3, LinkingSessions DEF SessionOf
    <2>6. Phase = "linking" /\ Phase' = "linking"
      BY <1>1 DEF Phase
    <2>7. QED
      BY <1>1, <2>2, <2>4, <2>5, <2>6, LinkStep
  <1>4. QED
    BY <1>2, <1>3 DEF ConnectDevice

\* main registers only where every device of the configuration is linked.
LEMMA CheckRefined ==
    ASSUME Inv, Check
    PROVE  Refined
  <1>1. /\ pc = "check"
        /\ UNCHANGED <<memory, configured, measuring, connected, delivered>>
    BY DEF Check
  <1>2. CASE pc' = "register" /\ all_connected
    <2>1. connectable \subseteq connected /\ connectable' = connectable
      BY <1>1, <1>2 DEF Inv, SetupStage, connectable
    <2>2. \A d \in Devices :
             SessionOf(d) = IF d \in connected THEN "linked" ELSE "closed"
      BY <1>1, <2>1, LinkingSessions
    <2>3. measuring' = {}
      BY <1>1, LinkingSessions
    <2>4. \A d \in Devices : SessionOf(d)' = SessionOf(d)
      BY <1>1, <1>2, <2>2, <2>3 DEF SessionOf
    <2>5. Phase = "linking" /\ Phase' = "starting"
      BY <1>1, <1>2 DEF Phase
    <2>6. QED
      BY <1>1, <2>2, <2>4, <2>5, BeginStep
  <1>3. CASE pc' = "disconnect"
    BY <1>1, <1>3, LinkingGivenUp
  <1>4. QED
    BY <1>2, <1>3 DEF Check

LEMMA RegisterDeviceRefined ==
    ASSUME Inv, NEW d \in Devices, RegisterDevice(d)
    PROVE  Refined
  <1>1. /\ pc = "register" /\ Visiting(d)
        /\ UNCHANGED <<memory, configured, connected, delivered>>
    BY DEF RegisterDevice
  <1>2. d \in connected /\ d \notin measuring
    BY <1>1, VisitingFacts DEF Inv, Walks
  <1>3. measuring' = measuring \cup {d} /\ pc' = "notify_on"
    BY <1>2 DEF RegisterDevice
  <1>4. SessionOf(d) = "linked" /\ SessionOf(d)' = "streaming"
    BY <1>1, <1>2, <1>3 DEF SessionOf
  <1>5. \A e \in Devices \ {d} : SessionOf(e)' = SessionOf(e)
    BY <1>1, <1>3 DEF SessionOf
  <1>6. Phase = "starting" /\ Phase' = "starting"
    BY <1>1, <1>3 DEF Phase
  <1>7. QED
    BY <1>1, <1>4, <1>5, <1>6, StreamStep

LEMMA RegisterUndoRefined ==
    ASSUME Inv, NEW d \in Devices, RegisterUndo(d)
    PROVE  Refined
  <1>1. /\ pc = "register_undo" /\ pc' = "register_close" /\ Visiting(d)
        /\ measuring' = measuring \ {d}
        /\ UNCHANGED <<memory, configured, visited, connected, delivered>>
    BY DEF RegisterUndo
  <1>2. d \in measuring
    BY <1>1, VisitingFacts DEF Inv, Walks
  <1>3. \A e : Visiting(e)' <=> e = d
    BY <1>1, VisitingSame, VisitingOne DEF Inv
  <1>4. SessionOf(d) = "streaming" /\ SessionOf(d)' = "closed"
    BY <1>1, <1>2, <1>3 DEF SessionOf
  <1>5. \A e \in Devices \ {d} : SessionOf(e)' = SessionOf(e)
    BY <1>1, <1>3 DEF SessionOf
  <1>6. Phase' = Phase
    BY <1>1 DEF Phase
  <1>7. QED
    BY <1>1, <1>4, <1>5, <1>6, CloseStep

LEMMA RegisterCloseRefined ==
    ASSUME Inv, NEW d \in Devices, RegisterClose(d)
    PROVE  Refined
  <1>1. /\ pc = "register_close" /\ pc' = "register" /\ Visiting(d)
        /\ connected' = connected \ {d}
        /\ UNCHANGED <<measuring, delivered>>
    BY DEF RegisterClose
  <1>2. d \notin measuring
    BY <1>1, VisitingFacts DEF Inv, Walks
  <1>3. \A e : Visiting(e) <=> e = d
    BY <1>1, VisitingOne DEF Inv
  <1>4. \A e \in Devices : SessionOf(e)' = SessionOf(e)
    BY <1>1, <1>2, <1>3 DEF SessionOf
  <1>5. Phase' = Phase
    BY <1>1 DEF Phase
  <1>6. QED
    BY <1>1, <1>4, <1>5, StutterStep

\* When register_impl is through, a device measures or is not connected.
LEMMA RegisterReturnsRefined ==
    ASSUME Inv, RegisterReturns
    PROVE  Refined
  <1>1. /\ pc = "register" /\ pc' \in {"loop_new", "disconnect"}
        /\ UNCHANGED <<measuring, connected, delivered>>
    BY DEF RegisterReturns
  <1>2. connectable = configured /\ configured \subseteq visited
    BY <1>1 DEF RegisterReturns, Inv, SetupStage, Ready, VisitedAll, connectable
  <1>3. connected \subseteq measuring
    BY <1>1, <1>2 DEF Inv, Devs, Walks
  <1>4. \A d \in Devices :
           SessionOf(d) = IF d \in measuring THEN "streaming" ELSE "closed"
    BY <1>1, <1>3 DEF SessionOf
  <1>5. \A d \in Devices : SessionOf(d)' = SessionOf(d)
    BY <1>1, <1>3, <1>4 DEF SessionOf
  <1>6. Phase = "starting" /\ Phase' = "over"
    BY <1>1 DEF Phase
  <1>7. QED
    BY <1>1, <1>4, <1>5, <1>6, StartedStep

LEMMA DisconnectDeviceRefined ==
    ASSUME Inv, NEW d \in Devices, DisconnectDevice(d)
    PROVE  Refined
  <1>1. /\ pc = "disconnect" /\ pc' = pc
        /\ connected' = connected \ {d}
        /\ UNCHANGED <<memory, configured, measuring, delivered>>
    BY DEF DisconnectDevice
  <1>2. CASE d \in connected \ measuring
    <2>1. SessionOf(d) = "linked" /\ SessionOf(d)' = "closed"
      BY <1>1, <1>2 DEF SessionOf
    <2>2. \A e \in Devices \ {d} : SessionOf(e)' = SessionOf(e)
      BY <1>1 DEF SessionOf
    <2>3. Phase = "over" /\ Phase' = Phase
      BY <1>1 DEF Phase
    <2>4. QED
      BY <1>1, <2>1, <2>2, <2>3, CloseStep
  <1>3. CASE d \notin connected \ measuring
    <2>1. \A e \in Devices : SessionOf(e)' = SessionOf(e)
      BY <1>1, <1>3 DEF SessionOf
    <2>2. Phase' = Phase
      BY <1>1 DEF Phase
    <2>3. QED
      BY <1>1, <2>1, <2>2, StutterStep
  <1>4. QED
    BY <1>2, <1>3

LEMMA UnregisterDeviceRefined ==
    ASSUME Inv, NEW d \in Devices, UnregisterDevice(d)
    PROVE  Refined
  <1>1. /\ pc = "unregister" /\ pc' = pc
        /\ measuring' = measuring \ {d}
        /\ UNCHANGED <<memory, configured, connected, delivered>>
    BY DEF UnregisterDevice
  <1>2. connected = {}
    BY <1>1 DEF Inv, LateStage
  <1>3. \A e \in Devices \ {d} : SessionOf(e)' = SessionOf(e)
    BY <1>1 DEF SessionOf
  <1>4. Phase' = Phase
    BY <1>1 DEF Phase
  <1>5. SessionOf(d)' = "closed"
    BY <1>1, <1>2 DEF SessionOf
  <1>6. CASE d \in measuring
    <2>1. SessionOf(d) = "streaming"
      BY <1>6 DEF SessionOf
    <2>2. QED
      BY <1>1, <1>3, <1>4, <1>5, <2>1, CloseStep
  <1>7. CASE d \notin measuring
    <2>1. SessionOf(d) = "closed"
      BY <1>1, <1>2, <1>7 DEF SessionOf
    <2>2. QED
      BY <1>1, <1>3, <1>4, <1>5, <2>1, StutterStep
  <1>8. QED
    BY <1>6, <1>7

LEMMA NotifyRefined ==
    ASSUME Inv, NEW d \in Devices, Notify(d)
    PROVE  Refined
  <1>1. memory = "live"
    BY DEF Notify, Inv, Devs
  <1>2. d \in measuring /\ Callable(d)
    BY <1>1 DEF Notify, Inv, CallbacksReady
  <1>3. /\ delivered' = delivered \cup {d}
        /\ UNCHANGED <<pc, visited, memory, configured, measuring, connected>>
    BY <1>1, <1>2 DEF Notify
  <1>4. SessionOf(d) = "streaming"
    BY <1>2 DEF SessionOf
  <1>5. \A e : Visiting(e)' <=> Visiting(e)
    BY <1>3, VisitingSame
  <1>6. \A e \in Devices : SessionOf(e)' = SessionOf(e)
    BY <1>3, <1>5 DEF SessionOf, connectable
  <1>7. Phase' = Phase
    BY <1>3 DEF Phase
  <1>8. QED
    BY <1>3, <1>4, <1>6, <1>7, DeliverStep

LEMMA MainRefined ==
    ASSUME Inv, Main
    PROVE  Refined
  <1>1. CASE CreateOutputs
    BY <1>1, LinkingGivenUp, GoOn DEF CreateOutputs
  <1>2. CASE ConnectReturns \/ GiveUp \/ Sleep
    BY <1>2, GoOn DEF ConnectReturns, GiveUp, Sleep
  <1>3. CASE LoopNew \/ LoopRun \/ LoopExit
    BY <1>3, GoOn DEF LoopNew, LoopRun, LoopExit
  <1>4. CASE DisconnectReturns \/ UnregisterReturns
    BY <1>4, GoOn DEF DisconnectReturns, UnregisterReturns
  <1>5. CASE DestroyOutputs
    BY <1>5, GoOn DEF DestroyOutputs, Fault
  <1>6. CASE Unload
    <2>1. after \notin Linking \cup Registering
      BY DEF Inv, TypeOK
    <2>2. QED
      BY <1>6, <2>1, GoOn DEF Unload
  <1>7. ASSUME NEW d \in Devices, AtDevice(d)
        PROVE  Refined
    <2>1. CASE NotifyOn(d) \/ DeviceRegistered(d) \/ NotifyFails(d)
      BY <2>1, GoOn DEF NotifyOn, DeviceRegistered, NotifyFails
    <2>2. QED
      BY <1>7, <2>1, ConnectDeviceRefined, RegisterDeviceRefined,
         RegisterUndoRefined, RegisterCloseRefined, DisconnectDeviceRefined,
         UnregisterDeviceRefined DEF AtDevice
  <1>8. QED
    BY <1>1, <1>2, <1>3, <1>4, <1>5, <1>6, <1>7, AddDevicesRefined,
       CheckRefined, RegisterReturnsRefined DEF Main

LEMMA InterruptRefined ==
    ASSUME Inv, Interrupt
    PROVE  Refined
  <1>1. UNCHANGED <<memory, configured, visited, measuring, connected,
                    delivered>>
    BY DEF Interrupt
  <1>2. CASE loop = "freed"
    <2>1. /\ pc \notin Linking \cup Registering
          /\ pc' \notin Linking \cup Registering
      BY <1>2 DEF Inv, SetupStage, Interrupt, Fault
    <2>2. QED
      BY <1>1, <2>1, GoOn
  <1>3. CASE loop # "freed"
    <2>1. pc' = pc
      BY <1>3 DEF Interrupt
    <2>2. QED
      BY <1>1, <2>1, GoOn
  <1>4. QED
    BY <1>2, <1>3

LEMMA InitRefined == Init => Sessions!Init
  BY DEF Init, Sessions!Init, SessionOf

LEMMA NextRefined == Inv /\ [Next]_vars => [Sessions!Next]_(Sessions!vars)
  <1> SUFFICES ASSUME Inv, [Next]_vars PROVE Refined
    BY DEF Refined
  <1>1. ASSUME NEW d \in Devices, DropLink(d)
        PROVE  Refined
    BY <1>1, GoOn DEF DropLink
  <1>2. CASE UNCHANGED vars
    BY <1>2, GoOn DEF vars
  <1>3. QED
    BY <1>1, <1>2, MainRefined, InterruptRefined, NotifyRefined DEF Next

\* The reader keeps to one session per device: all are linked, then each streams
\* from its own registration on and is closed for good, and nothing is delivered
\* outside.
THEOREM Refinement == Spec => ImplementsSessions
  BY InitRefined, NextRefined, Invariance, PTL
     DEF Spec, ImplementsSessions, Sessions!Spec

=============================================================================
