# atmotube-reader in TLA+

Models of the Atmotube reader: the averaging of measurements, the life cycle of
the program from its configuration to its exit, the way of a measurement from a
notification to a file, and the search for sensors. TLC checks them on small
instances; TLAPS proves the safety properties for every value of the constants.

## The system

`atmotube-reader` connects to a set of Atmotube sensors over Bluetooth (GattLib),
receives notifications (VOC, humidity, temperature, status), averages them over a
period per device and hands each average to an output plugin (file, database).
One thread runs `main`; besides it there are the SIGINT handler and GattLib, which
dispatches notifications from the main loop or, in some builds, from a thread of
its own.

| Component | State | Operations | What makes it correct |
|---|---|---|---|
| Averaging intervals, `src/atmotube-interval.c` | `intervalList`: per node `started`, `time_interval`, `max_ts`, `times`, `current`, `callback` | add, add callbacks, start, log, stop, remove | the average belongs to the window's own samples, one callback per period, no window forgotten |
| Reader, `app/atmotube-reader.c` | position of `main`, `retry`, `connected`, `aborted`, `loop` | `main`, `intHandler` | it ends when told, retries a bounded number of times, leaves nothing behind |
| Device life cycle, `src/atmotube.c` | `glData`; per device `connected`, `connection` | connect, register, unregister, disconnect, end | one connection per device, callbacks only while plugin and output live |
| Configuration, `src/atmotube-config.c` | the devices read | load | each device has an output, or the call fails |
| Outputs, `src/atmotube-output.c` | per device `output`, `plugin` | create, destroy, output_voc / humidity / temperature | as above |
| Plugin registry, `src/atmotube-plugin.c` | `plugins`, `numberOfPlugins` | find, get, unload_all | no use after unload |
| Handler, `src/atmotube-handler.c` | none | handle_notification | payload decoded into the right interval |
| Plugins, `src/plugin/*.c` | static: `started`, file or statements, row id | plugin_start, measurement, plugin_stop | each device's data goes to its own output |
| Search, `src/atmotube-search.c`, `app/atmotube-find.c` | adapter, found list | search, get | no duplicates, nothing leaked |

How they interact: `main` calls the life cycle; register adds three intervals per
device and hands GattLib a callback; GattLib calls the handler, which calls
`interval_log`; the sample that closes a window calls `output_*`, which calls the
device's plugin. `atmotube_end` undoes this in the order disconnect, unregister,
destroy outputs, unload plugins. All of it shares memory without a lock.

What is hard: a notification or a SIGINT between any two of these steps; set-up
calls that fail half way and are followed by `atmotube_end`; the flag `connected`
that goes stale when a link drops or GattLib refuses to disconnect; integer
averages truncated at every sample; deadlines on a wall clock that may be set
back; and intervals that are stopped, restarted or added twice. `PROJECT.json`
lists each at its line.

## Modules

| Module | What it is |
|---|---|
| `RollingAverage` | `appr_rolling_average` with the truncation of its caller |
| `Interval` | the interval list, one action per function of `atmotube-interval.c` |
| `SampleWindow` | what the list promises: windows that open, collect, deliver once |
| `ListWalk` | the interval list under two threads: each access of `main` to it against the walk of `interval_log` |
| `Measurement` | handler, `modify_intervals` and the callbacks, composed with `Interval` |
| `Reader` | `main` over `atmotube.c`, `atmotube-output.c` and the outcomes of the rest |
| `DeviceSession` | what the reader promises: one session per device, started one by one once all are linked, measurements only in it |
| `Config` | the configuration loader and the memory of the devices over several loads |
| `Outputs` | `Config` with the shared objects, `create_outputs`, the plugins' own state, measurements and `atmotube_end` |
| `MeasurementLog` | what the outputs promise a device that has its output type to itself: a log |
| `Search` | `atmotube-search.c` and what `atmotube_end` frees of it |
| `MCInterval`, `MCMeasurement`, `MCOutputs` | the instances for TLC; `Reader`, `Search` and `ListWalk` need none |
| `AverageProofs`, `IntervalProofs`, `MeasurementProofs`, `ReaderProofs`, `ConfigProofs`, `OutputsProofs`, `SearchProofs`, `ListWalkProofs` | the theorems |

`Reader` and `Outputs` look at the same calls from two sides. `Reader` has the
radio, signals and notifications between the calls, and of a plugin only whether
it can be called; `Outputs` has the static variables of the plugins and the
files, and calls them in the order of `main` without the radio.

Definitions whose comment begins with "Bug:" are deliberate faults. They are not
part of any specification; each replaces the definition after it to show that a
property notices.

### Interval

`intervals[k]` is the sequence of the nodes of key `k = (device_id, label, fmt)`.
All operations but `interval_log` take the first node of a key and `interval_log`
takes all of them, so the order between nodes of different keys does not matter.
The actions `Add`, `AddCallback`, `RemoveCallbacks`, `Start`, `Log`, `Stop` and
`Remove` are the functions; `Tick` and `SetBack` are the clock. A callback is a
record in `reports`, which holds the callbacks of the last step.

* `since`, `sum`, `lo` and `hi` of a node are history variables. Nothing the code
  does depends on them.
* `current_ts` is left out: only `interval_dump` reads it.
* A float average is kept as `times * average`, which is exact, so no fractions
  are needed; the rounding of float averages is not modelled.
* An integer average is `(unsigned long)` of two double divisions. In exact
  arithmetic it is the floor; the build gives one less for some triples whose
  exact result is an integer. `RoundsLow` is that set, a constant, and
  `RoundsLowAssumption` all that is used of it: the exact result is an integer,
  the count is above two, and sample and average differ. A C program that ran the
  function over every average and sample up to 255 (humidity and temperature are
  one byte) and every count up to 700 found 2992 such triples, no other
  difference, and none outside the assumption. `MCRoundsLow` holds those of the
  instance.

### ListWalk

`Interval` and `Measurement` take each operation of the list in one step. That is
what happens where GattLib uses the main loop. Where it dispatches from a thread
of its own the operations overlap, and `ListWalk` is about that: `main` and the
walk of `interval_log` are two processes, and each access to a link or a node is a
step, in the order of the source.

* `main` is what `register_impl`, the loop and `atmotube_end` do with the list:
  `Add`, `Start`, `SetCb`, `SetCallback`, `SetData` per characteristic, `NotifyOn`
  per characteristic, and `Unset`, `ClearData`, `ClearCb`, `Stop`, `Free`, `Unlink`
  when intervals are removed, for one device by a refused registration and for
  all by `atmotube_end`, which after a refusal runs twice.
* The walk is `g_slist_foreach`: `ReadLink` reads the next link before
  `interval_log_impl` is called, `Match`, `TestCallback` and `Call` read the node.
  A walk that meets freed memory, a null function or a null device is a `fault`,
  and nothing follows.
* GattLib dispatches from one thread, so one walk goes on at a time.
  `gattlib_disconnect` may fail and leave the device notifying (`abandoned`), and
  may return while a handler of the device is still running (`outlived`).
* Averages, times, plugins and outputs are left out: the other modules have them.
  Which sample closes a window is a free choice. A node is named by its key, as
  `main` adds each key once.
* A link or a word of a node is read or written at once, in program order.
  What a compiler or the memory may reorder is not modelled.

`RaceExplained` says when the modules with atomic operations are right about a
threaded build as far as the memory of the list goes: as long as every
registration succeeds and every `gattlib_disconnect` closes the link and waits
for its handler.

### Reader

`main` is a sequence of calls. Those that walk `connectableDevices` with
`g_slist_foreach` (connect, register, disconnect, unregister) take a step for each
device and one to return; `Visiting(d)` is the device the walk is at, the first in
list order of those not in `visited`. `register_impl` takes several steps for a
device: `RegisterDevice` adds the intervals, `NotifyOn` enables a first
characteristic, and then either `DeviceRegistered`, or `NotifyFails`,
`RegisterUndo` (the intervals go) and `RegisterClose` (disconnect). `pc` is the
next call and `after` where `main` goes when `atmotube_end` returns. Each call may
have every outcome the code distinguishes: any device may fail to connect,
register or disconnect.

Between any two steps SIGINT may run `intHandler`, a link may drop (which nothing
reports to the program) and a notification may arrive. Where GattLib dispatches
from its own thread the first device delivers while the second is only connected,
and a device may deliver while `register_impl` is still enabling its other
characteristics; where GattLib uses the main loop there are fewer interleavings.
The model has those of both builds.

Creating and destroying the outputs is one step each. A device that measures then
would see them half done; `CallbacksReady` and the order of `main` say that none
does. Within one call on one device the list of intervals is changed at once:
`ListWalk` takes that apart.

`handles` counts the connections GattLib holds open for a device, which the code
does not know; `failed`, `abandoned`, `delivered` and `interrupts` are history.
Undefined behaviour (a call through a null or freed plugin, a freed main loop, a
freed configuration) sets `fault` and ends the run.

### Measurement

One instance of `Interval` holds the intervals of all devices, one node per
device and characteristic, as `modify_intervals` sets them up. `Notify` is the
handler: the characteristic, the length, the bytes, and `interval_log` under the
name and format of the characteristic. A notification may be whole, short of a
byte, or one byte too long. `Outputs` is what the callbacks hand to the plugins
in the step. VOC is a double in the code and exact here, in hundredths.

### Config

A file is what libconfuse makes of it: sequences of device and output sections,
with `Unset` for a missing option. `AddDevices` is one call of
`atmotube_add_devices_from_config`, in the three ways it can go: rejected before
the memory is asked for, failed after it, complete. `blocks` keeps every block
that was allocated, so that pointers left in `connectableDevices` can be told to
be good or not; a block is not used again after it was freed. A device's address
follows its name: two sections of one name are one sensor.

### Outputs

`object[t]` has the static variables of the shared object of type `t`: `started`,
the FILE or connection, the prepared statements, the row id. A FILE or
connection is named by the device whose `plugin_start` opened it.
`FindPlugins`, `CreateOutput`, `PluginMissing`, `Measure`, `DestroyOutput` and
`UnloadPlugins` are the calls and rounds of loops of `atmotube-plugin.c` and
`atmotube-output.c`; `StartFile`, `StartDb`, `WriteFile`, `WriteDb`, `StopFile`
and `StopDb` are the functions of the plugins.

The configuration may be loaded any number of times before `create_outputs`.
`atmotube_create_outputs` goes through the last one, but connect, register and
disconnect go through `connectableDevices`, where the devices of the earlier
configurations stay.

* If the memory of one of them was freed (a later load failed and took it along),
  the first call that walks the list reads it: `ReadFreed`.
* Otherwise they are registered and measure like the others, without a plugin:
  `MeasureEarlier`. Which of them do depends on the ids. Devices are numbered from
  the front in each configuration, and intervals are named by the id, so that the
  second device of an id sets the callbacks of the first to itself. So a device of
  an earlier configuration measures until the device of the last configuration
  with its id has been registered, which is after that one's predecessors.
* A measurement is named by the device the callback is given. With two
  configurations of the same ids the intervals of that device are fed by the
  sensors of both.

* sqlite is external: it may refuse at each stage of `plugin_start`; an INSERT it
  refuses by the keys of the table, or, where two connections are open to one
  file and a SELECT was left unreset, by the lock. The measured values are taken
  to be equal, which is the case in which the keys collide most.
* Outputs of a file type and of the database type never name the same file.
* The INSERT statements of the three tables are one: they are prepared in a row,
  and a start that stops between them is covered by the choice in
  `StatementsAfter`.
* `custom.c` has the control of `file.c`; that it does not flush is left out.
* Closing a handle that was never set (`info->handle` in `plugin_assign`) may do
  anything or nothing: both are outcomes.
* `ImplementsLog` maps the state to `MeasurementLog`: a device that shares no
  shared object has a store, a file or a table, from the `create_output` that
  started it; the log holds the measurements that are where its output names.
  Devices that share a shared object have no store, and the log says nothing of
  them: that is `own_output`.
* Undefined behaviour (double free, a freed configuration, a null plugin or
  stream, a statement finalized twice, a connection closed twice) sets `fault`
  and ends the run.

### Search

`discovered_device` is called for every advertisement while the scan runs, in any
order and any number of times, also with no name. `atmotube_get_found_devices`
may be called between searches, and `freeFoundDevices` is the part of
`atmotube_end` that concerns the search. `adapters` counts the adapters that are
open.

## Runs

All runs but `search` set `CHECK_DEADLOCK FALSE`: the program stops, and clocks
and counts are bounded.

| Run | Result | What it shows |
|---|---|---|
| `interval` | pass, 19190 states | `WindowsConsistent`, `ReportWithinWindow`, `AverageLagsMean`, `ReportsSpaced`, `DeadlineFixed` over all operations, with two nodes of one key and the clock set back once |
| `interval_window` | pass, 12998 states | an integer and a float interval implement `SampleWindow`; `WindowCloses` |
| `reader` | pass, 73218 states | `CallbacksReady`, `NotifyingMeasures`, `HandlesTracked`, `FaultsExplained`, `ExitsClean`, `SuccessIsEarned`, `SetupFinishes`, `InterruptEnds`, and `DeviceSession` is implemented |
| `lost_interrupt` | violated | a SIGINT between the test of `aborted` and the main loop is lost |
| `end_after_failure` | violated | `atmotube_end` after a failed set-up call uses a plugin that is not there |
| `ready_to_receive` | violated | after a failed `atmotube_register` `main` goes on as if ready |
| `outputs` | pass, 1629920 states | `OutputsMatch`, `ConnectableSound`, `OwnOutput`, `LossExplained`, `AllClosed`, `FaultsExplained` over configurations, plugins, refusals and measurements, and the outputs implement `MeasurementLog` |
| `resolution` | violated | the resolution 300 of `test/config.txt` becomes a period of 37.856 s |
| `own_output` | violated | of two devices of one output type the measurements of the first land in the file or row of the second |
| `search` | pass, 873 states | `FoundExactly`, `ListIsPrefix`, `AdaptersAccounted` |
| `measurement` | pass, 170759 states | `OutputIsMeasured`, `OutputPaced` |
| `list_walk` | pass, 164014 states | `RaceExplained`, `SampleTaken` over all interleavings of the walk with the accesses of `main` |

Bounds.

* `MaxTimes` 3 and samples 1, 4, 7: three samples are the fewest for which
  truncation is felt twice, and 1, 4, 7 reach two of the three triples of
  `MCRoundsLow`.
* `MaxCopies` 2: `interval_add` does not look for a node of the same key, and
  what distinguishes the first from the others shows with two. The refinement
  holds for one node per key, which is how `modify_intervals` uses the list.
* Periods 0 and 2 and `MaxClock` 4: windows that close at every sample, on time
  and late, and three windows in a row. One set-back takes the clock anywhere
  before.
* `reader`: two devices, 1 and 2 in list order: one can fail where the other does
  not, before or after it, and the first streams while the second is registered.
  Any subset of them may be configured. Three devices pass as well (853904
  states). There is no symmetry, as the list has an order. `max_retries` is the
  program's own 10. Two SIGINT: the second is the one that finds a freed loop.
* `outputs`: up to two devices and two outputs, in every combination of names,
  types and file names, equal names included; two outputs are the fewest that
  share a shared object, a database or a file. `MaxLoads` 3: the second load
  can free a block twice, find the first configuration in use or come on top of
  it, and the third can fail and take the second along; the proofs hold for any
  number. `Representative` follows, of the configurations that another was loaded
  on top of, one of each number of devices: the model reads of them only how many
  devices they have and whether they are in memory. On top of such a
  configuration the outputs have one file name per type and there is one
  measurement, as the other cases are covered without it.
  `MaxSent` 2 with `Times` 1 and 2: two measurements are the fewest that collide,
  at one instant or not. One database holds a row of an earlier run, so that the
  row ids of two databases differ.
* `search`: three sensors, two names, two searches between two ends and two
  failed scans; with three a list can be wrong at its head, inside and at its
  end.
* `measurement`: periods 1 and 2, four whole notifications, the VOC values 1 and
  258, whose bytes differ, and the humidities 4 and 7, whose average 7, 7, 4 is one
  that the doubles round low. Short and long notifications are not counted.
* `list_walk`: two devices of two characteristics, so that a walk has nodes
  before, between and behind those that are added or removed, of its own device
  and of another. Three devices, two characteristics each, pass as well (4.6
  million states).

Fairness. `Interval`: the clock advances, and the sensor keeps notifying on each
characteristic, which is what registering a notification asks of it; the calls of
the owner have none. `WindowCloses` needs both, because the code closes a window
only when a sample comes. `Reader`: weak fairness of `main` (calls return, sleeps
end, a loop that was quit returns) and none of signals, lost links and
notifications.

`AverageLagsMean` is what is left of "the average of the samples" for integers: a
window of 1, 4, 1 has the mean 2 and reports 1, as 2.5 became 2 on the way. The
property says that it never errs upwards and how far it may fall behind.

`FaultsExplained` and `EndAfterFailure` belong together: the first bounds when
the undefined behaviour of the second can happen. In `Outputs`, `FaultsExplained`
names for each undefined behaviour the history without which it cannot be. A
callback through a plugin that was never assigned takes a configuration loaded on
top of another, and a read of a freed device a load that failed on top of one
that had succeeded; with one load per run, which is how `main` uses the library,
neither is possible.

`InterruptEnds` is the part of `InterruptStops` that holds. `OwnOutput` and
`MeasurementsInOwnOutput` likewise: a device that has its output type to itself
gets its own file and its own row whatever else fails, two devices of one type do
not. `ConnectableSound` says of a second configuration what remains true: what can
be connected to is alive unless a load failed without memory of its own, and
device ids, the keys of the intervals, are unique within one configuration only.

`NotifyingMeasures` is about the order inside `register_impl` and
`atmotube_end`: intervals are added before the notifications are enabled and
removed after the link is closed, so that no sample is dropped for want of an
interval. The exceptions are in the property: the refused registration, which
removes the intervals first, and a link that GattLib did not close.

`ImplementsLog` speaks of devices with an output type to themselves and
`AllClosed` of runs without undefined behaviour; what devices of one type do to
each other is in `own_output` and `FaultsExplained`. `SuccessIsEarned` rests on
`FaultsExplained` after a refused registration: `main` goes on, runs the loop and
calls `atmotube_end` again, which is undefined before 0 is returned.

## Theorems

Checked by `tlapm`, for any keys, devices, files, sensors, periods, samples and
bounds.

`AverageProofs` has the lemmas about averages. `AverageWithin`: a rolling average
lies between the average and the sample. `AverageLoss`: one step loses less than
one sample's count. Both use `RoundsLowAssumption` and nothing else about floating
point. `SumAppend`: a sample added to a sequence adds itself to the sum. The sum
is a fold, a recursive function over finite sets of indices, and the library's
induction theorems have an operator as a parameter; `SubsetInduction` gets
induction over the subsets of a finite set from the theorem that the strict
subset order on finite sets is well-founded, which speaks of sets only.

`IntervalProofs`: `Typing`, `Windows` (`WindowsConsistent`), `WithinWindow`
(`ReportWithinWindow`), `LagsMean` (`AverageLagsMean`), `Spacing`
(`ReportsSpaced`), `Deadlines` (`DeadlineFixed`). The properties about reports
speak of one step; the inductive invariant says instead of every node that its
count, sum, bounds, average and deadline belong together (`WindowsConsistent`,
with types), and of every report that it was made from such a node.
`Refinement` (`ImplementsWindows`): each operation of a list with one node per key
is one step of `SampleWindow` or none. Its hypothesis `MaxCopies = 1` is how
`modify_intervals` uses the list, and the theorem is false without it:
`interval_add` appends a second node of a key, and `interval_remove` takes the first
away and uncovers the second in whatever state it is.

`MeasurementProofs`: `ReadAsSent` (decoding is right for every value of both
widths), `Typing` (`TypeOK`), `Averages` (`OutputIsMeasured`), `Paced`
(`OutputPaced`). The invariant: a key has one node or none, a device all three or
none, and the count, sum, bounds and average of a node are those of the
notifications heard since its last report.

`ReaderProofs`: `Typing`, `Callbacks`, `Notifying` (`NotifyingMeasures`),
`Handles`, `Faults`, `Clean`, `Success`, from one invariant. `CallbacksReady`
alone is not inductive: that the plugins are loaded at `destroy_outputs` depends on
which call failed and on how `main` got there. `SetupStage` and `LateStage` say
what is allocated at each position of `main`; `Walks` how far the call has come:
while `atmotube_register` runs, the devices with intervals are those it has been
through and not disconnected, and the one it is at between adding and removing
them; `Devs` relates the sets of devices, `Loops` the main loop to the signals so
far. `VisitingOne` (a walk is at one device) is why the list order is a total
order on numbers. `Refinement` (`ImplementsSessions`) builds on that invariant:
each step of the reader is one step of `DeviceSession` or none, the first device
delivering while the second is registered included.

`ConfigProofs`: `ConfigTyping`, `ConfigMatching` (`OutputsMatch`),
`ConfigConnectable` (`ConnectableSound`), over any number of loads. The loader
checks that there are as many outputs as devices, that each output has a device
and each device an output. That no output is lost then needs the pigeonhole
principle: with distinct device names the map from outputs to devices is onto
sets of equal size, so it is one to one. `ConfigPeriods` is the part of
`PeriodIsResolution` that the code keeps, which the run `resolution` violates:
with resolutions of at most 65 seconds the period of every device is its
resolution. `IntervalMsExact` says that 65 is the limit: no resolution of 66 or
more survives the 16 bits of its milliseconds.

`OutputsProofs`: `Typing`, `Matching`, `Connectable`, `Own` (`OwnOutput`),
`Losses` (`LossExplained`), `Closed` (`AllClosed`), `Faults`
(`FaultsExplained`), from one invariant. The parts that are not in the
properties: `ObjectOf`, what the static variables of a shared object can hold,
by the devices that were given the object; `OwnRow`, the row id of an object
that one device has for itself is that device's; `Openings`, everything open is
in the hands of its object unless a later device of its type took its place or
a leaked statement pins it; `Assignments`, which devices have a plugin at each
stage. `Faults` is over any number of loads: `ReadFreed` and `MeasureEarlier`
can happen only where a device of the list is not of the last configuration, and
`ConfigInv` says which loads that takes. `Refinement` (`ImplementsLog`): each
call is one step of `MeasurementLog` or none, undefined behaviour included. It
needs one invariant more, `RowsSettled`: a table refuses a humidity or a
temperature by the row id too, and while measurements are made all rows of a
device have the row id its object still holds. TLC found it to hold on the run
`outputs` before it was proved.

`SearchProofs`: `Typing`, `Exact` (`FoundExactly`), `Prefix` (`ListIsPrefix`),
`Adapters` (`AdaptersAccounted`).

`ListWalkProofs`: `Typing`, `Races` (`RaceExplained`), `Logged` (`SampleTaken`).
For the second the invariant says which devices may be notifying at each position
of `main` (`InOrder`, `Closing`, `Removal`), that the nodes of such a device are
complete (`Wired`), and that up to the first refusal and the last disconnect
nothing is freed (`Intact`). For the third it says that the list has no key twice
(`Distinct`), that the walk knows no key still to be added (`Fresh`), and that the
node of the sample, while it is in the list and the sample is not taken, is the
link the walk is at or one after it (`Ahead`), which removing links around it
must preserve.

Assumptions: `RoundsLowAssumption`, and those that say of which sets the
constants are (`IntervalAssumption`, `MeasurementAssumption`, `ReaderAssumption`,
`ConfigAssumption`, `SearchAssumption`, `ListWalkAssumption`,
`OutputsAssumption`). The last also says
what is assumed of outputs: one database type, disjoint from the file types, and
outputs of that type name databases and no others do. The TLC runs evaluate all
of them.

Only model-checked: the liveness properties (`WindowCloses`, `SetupFinishes`,
`InterruptEnds`), because TLAPS does not do fairness. Every invariant and every
other property of the passing runs is stated by a theorem.

## Not modelled

* Races on the contents of a node: a sample averaged while `interval_start` or
  `interval_stop` sets the times. What the compiler or the memory may reorder.
* That the signal handler calls functions that are not async-signal-safe.
* The address reuse or luck that may let undefined behaviour go unnoticed: the
  model stops there.
* The status notification: it is decoded for a debug line and changes nothing.
  Its shifts are one too far (`mode_offset` 8 on a byte, so the mode is always
  "fast", and `calib_offset` 7 reads the bit the comment gives as the mode).
* A property about the range check of the resolution, whose result is ignored: the
  limits are in milliseconds, the check multiplies by 1000, and every file of the
  repository is below the minimum, so the sources do not say what was meant.
* That `interval_log` is given a `uint16_t` and reads an `unsigned long`: on the
  machines the program is built for the upper half is clear.
* Memory that is only leaked and never read again: the name of a search, the
  devices found before a failed search, the strings of an earlier configuration.
* The parser of libconfuse, logging, the lengths of the sleeps, `interval_dump`,
  the get functions of `db.c` (for its tests), the text of a line in a file.
* `ble_scan.c` (a GattLib example no build file compiles), tests and build files.

## Plan

Done: the interval list and its windows; the reader and its sessions;
configuration and resolution; the plugins and their outputs; the handler composed
with the intervals; the search; the walk against the operations of the list; the
proofs above, the three refinements among them.

Left:

1. How large an error `AverageLagsMean` leaves for the notifications of a device:
   the bound of `Interval` for humidity and temperature stated over `heard`, as
   `OutputIsMeasured` states it exactly for VOC.
2. `ReadyToReceive` and `MeasurementsInOwnOutput` with the hypotheses under which
   they hold (every call of the set-up succeeds; one device per output type), as
   theorems, beside the runs that violate them without.
