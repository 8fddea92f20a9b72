# Flow.io (Waveshare): a formal model

Flow.io is the firmware of a swimming-pool controller on an ESP32-S3: it runs
pumps, heaters, dosing and lights, reads probes, talks RS-485 to variable-speed
pumps and heat pumps, and is driven over MQTT, a web page, a UDP display and
Home Assistant. This directory holds TLA+ models of its core, the TLC
configurations that check them on small instances and TLAPS proofs of what
matters most for every instance. Every definition is translated from the code;
`PROJECT.json` maps each to its lines. Paths below are relative to `src/src`.

Contents: 1 the system; 2 the plan; 3 the models and the code; 4 the runs;
5 fairness; 6 the proofs; 7 findings; 8 what is not modelled.

## 1. The system

`ModuleManager` creates the modules of a profile (`Profiles/Waveshare`), starts
them in the order of their dependencies, each after its own delay, and gives
each its FreeRTOS tasks. Modules find each other by id in `ServiceRegistry`
(structs of function pointers, written once before any task runs). They share
three stores: `ConfigStore` (typed variables and blobs in NVS, announces
`ConfigChanged`), `DataStore` (the run-time values, announces `DataChanged`) and
the `EventBus` (one queue, one dispatching task). What follows is the inventory;
"hard" names what a test hardly reaches, "correct" what makes the part right,
and a part with models names their modules.

| component | state | operations and interactions | hard | correct |
|---|---|---|---|---|
| **Timed override** `Core/Control/TimedActuatorOverride.h`: `TimedLease`, `OverrideLease`, `DurableLease` | a lease (target, value, start, end, deadline, anchored, dirty) and its flash record | `start`, `cancel`, `flush`, `tick`, `restore`, called by the pool devices under their mutex; `save` goes to a ConfigStore blob | power cuts between RAM and flash, failed writes, UTC unknown, lost, corrected | never in force without being on flash; never longer than granted; ends |
| **Pool devices** `Modules/PoolDeviceModule`: `PoolDevices`, `PeriodCounters` | slots, one per output at most: desired and effective target, feedback, interlock state, counters, lease; override policies | `loop` every 20 ms and every command run `tickDevices_` under one mutex; PoolLogic, MQTT, HA, web and display send targets, forcings and releases; calls drivers, IO and ConfigStore | slots see each other half-updated during a tick, loss of a dependency, restart with a forcing on flash, writes frozen at boot | interlocks hold at every point of a tick; a protection is not undone by itself; a forcing returns to the right target |
| **Drivers** `PoolDeviceModule/Drivers`: `DiscreteSpeeds`, `SerialDevice`, `DeadlineClock` | applied and wanted revision, retry deadline, phase, per kind of driver | `applyTarget`, `tick`, `readState`; relay, discrete speeds, analog, serial device | break before make, late answers, back-off, deadlines of `millis()` | the output follows the last target; two steps are never closed |
| **RS-485 arbiter** `Modules/IOModule/IOScheduler/Rs485TransactionScheduler`: `ModbusScheduler`, `ModbusMaster`, `BusClock` | slots of transactions, a queue order, the one on the line, when the line is free again | `submit`, `poll`, `cancelOwner` from client tasks; `tick` in the rs485 task; all under one mutex | late answers without identity, cancellation on the line, retries, priorities and ageing, id and clock wrap | an answer completes only its own request; one on the line; pacing; no starvation |
| **RS-485 line** `Modules/IOModule/IOBus/Rs485Bus`: `Rs485Line` | UART, receive buffer, frame flag, end of transmission | `tick`, `startTransmit`, `takeFrame`, `abort`, called by the arbiter | bytes of an old answer in the buffer | half duplex; a failed exchange leaves nothing behind |
| **Modbus and AquaGem codecs** | none | encode, decode, CRC | layouts | pure functions with unit tests |
| **MQTT publish queue** `Modules/Network/MQTTModule/MQTTQueue.cpp`: `MqttQueue` | job slots, three rings of (slot, token), retry cursors | `enqueue` from any task; the mqtt task dequeues, builds through the producer and publishes, outside the lock | a request while its message is being built, promotion, full rings, slot reuse, back-off | an accepted request is built after it was made; one job per message; urgent first |
| **MQTT producers** `RuntimeProducer`, `MqttConfigRouteProducer`, acknowledgements, alarms, HA: `RuntimeRoutes`, `ConfigRoutes` | pending routes, throttles | mark routes from events, enqueue, build on demand | a refused enqueue, reconnection | every change is published in the end, at most so often |
| **MQTT connection and reception** `MQTTTransport/Lifecycle/Rx`: `MqttConnection` | connection state, back-off, rx queue | callbacks of the client's own task, mqtt task | the callback overtakes the caller's state change | connects again; commands are taken once |
| **Pool logic** `Modules/PoolLogicModule`: `PoolLogic`, `PhDosing`, `OxygenDosing`, `HeatAssist` | modes, filtration window, pH/ORP regulators, delays, protections | its task computes targets and policies; scheduler events | window changes, ordering at boot, adoption of the actuators' state | writes enabled once, after adoption; protections first |
| **Time and scheduler** `Modules/Network/TimeModule`: `TimeScheduler` | clock source, synchronised flag, 16 slots | NTP, RTC, `setSlot`, `isActive`, events | clock steps, midnight, replay at boot | each start and end is announced once |
| **Alarms** `Modules/AlarmModule`: `Alarms` | per alarm: active, acknowledged, last condition, since when | evaluation task, `ack`, `reset` | conditions run outside the lock, events posted after it | raised and cleared alternate; a latched alarm stays |
| **Event bus** `Core/EventBus`: `DataEvents` | one queue, subscribers | `post` (drops), `tryPost` (reports), one dispatcher | a full queue | order per poster; what must arrive is retried |
| **Data store** `Core/DataStore`, `Core/Values`: `DataEvents` | values, dirty marks | `publish`, `notifyChanged` | a change during the notification | a subscriber ends with the last value |
| **Configuration store** `Core/ConfigStore` | variables, NVS, pending blobs with receipts | `set`, JSON patches, `write/readRuntimeBlob` | asynchronous writes, restart | a receipt says what is on flash |
| **Module manager** `Core/ModuleManager`: `Startup` | order, started mask, failed flag | `initAll`, `tickStartup` | a task that cannot be created | dependencies first; no half-started module |
| **IO module** `Modules/IOModule` | endpoints, filters, bindings | sampling jobs, `readValue`, `writeDigital` | shared I2C, stale samples | one owner per output |
| **Pulse counters** `IOPulsePersistence.cpp`: `PulsePersistence` | request state, receipt, generation | `requestPulseSave_` (any task), `servicePulseRequest_` (IO task), checkpoints | a caller that gives up, a checkpoint in flight at a reset | a reset is not undone by a restart |
| **Pool history** `Modules/PoolHistoryModule` | daily samples, versioned blob | day turn, persistence | restart around midnight | one sample a day |
| **Display over UDP** `HmiUdpServerModule` | session, reliable queue, sequence | datagrams, acknowledgements, retries | loss, duplicates, overflow | the display ends with a whole configuration |
| **Firmware update** `Modules/Network/FirmwareUpdateModule`, `Core/Firmware`: `ReleaseUpgrade` | state, download | HTTP, flash, restart | failure halfway | the old image still boots |
| **Logging** `Core/LogHub`, `Modules/Logs` | record queue, sinks | any task posts, one task writes | full queue | never blocks |
| **Wi-Fi, provisioning, Ethernet, web, HA discovery** | connections, sessions | vendor callbacks | reconnection | seen by the rest as connected or not |
| **Commands, AI insight, user module, HMI, buzzer, TFT, system monitor, I2C, UI tables, boards and profiles** | tables, drawings, measures | - | - | content, not behaviour |

`PROJECT.json` lists all of them under "components" with what is modelled, and
under "hazards" each hard thing at its line with the property that covers it or
the reason none does yet.

The choice of the core follows from what can hurt: an actuator that runs when it
must not (lease, pool devices, drivers, pool logic), a command that reaches the
wrong device or none (arbiter), a controller that nobody can observe or command
(publish queue, producers, connection), one that does not come back after a
restart or an update (start-up, counters, releases).

## 2. The plan

Done, in this order: the lease; the pool devices; the RS-485 line and arbiter
with the promise of its service; the publish queue; the counters that wrap; the
two drivers with a protocol; the two producers and the connection; the kernel
(start-up, data and events, alarms, pulse counters, releases); pool logic
(filtration and robot, pH, active oxygen, heat assist); the counters of running
time; the schedule. The proofs follow the same order (section 6).

Every safety property of a passing run is now stated by a theorem. Next, most
important first: the reception queue and acknowledgements of MQTT, the datagrams of
the display, the sources of the clock.

## 3. The models and the code

### Leases and devices

**`TimedLease`** has no variables: a holder is the record of the C++ object's
fields with its flash record, and each method is an operator on holders, a flash
write being the argument `ok`. `Tick` follows `tick()` line by line: anchor,
expire, correct. **`OverrideLease`** puts one lease in the hands of its caller:
`Grant`, `Stop`, `LoopTick`, `Retry`, `Reboot`, and the environment's `Elapse`,
`SetClock`, `LoseClock`. **`DurableLease`** is its abstract specification: what
is in force is kept across a crash; a stop is immediate, its record may follow.

**`PoolDevices`** models `tickDevices_` one slot at a time: `cursor` names the
next slot and `cursor = N` means the mutex is free, so that properties speak of
every point inside a tick, when some slots have this tick's feedback and others
the last one's. `TickSlot` is the whole body for one slot: interlock state,
block reasons, the cancellation of the guided target, the lease
(`resolveOverride_`), the driver's target, its write and its feedback. Commands
(`SetTarget`, `RejectStart`, `Override`, `OverrideNotSaved`, `Release`) take
effect with the mutex and start a tick, as the code does before it unlocks.
`EnableWrites`, `SetPolicies`, `NewDay`, `SetTime` and `Reboot` are PoolLogic,
the day, the clock and the power. `asked` is history: whether the slot was asked
to run since a protection last found it unsafe. Time is abstract here (a lease
with trusted time may end at any tick); `OverrideLease` has the clocks.

**`DiscreteSpeeds`** is `DiscreteSpeedDriver`: before a contact is closed all are
opened and a dead time passes. A write may fail and leave the contact anywhere,
the outputs may go out of service, the controller may restart with a contact
closed; `contacts` is the truth, `shadow` what the driver believes.
**`SerialDevice`** is `SerialDeviceDriver` with the arbiter as its one client sees
it and the device: a write may arrive although its answer is lost, an exchange on
the wire goes on although the driver cancelled it. Profiles differ in what they
can read back.

**`PeriodCounters`** is the running time of a device, in all and per period: RAM,
the copy handed to the store now and then, NVS, restarts, and the two that may
begin a period: the event of the scheduler and the key of the date. `tickDevices` is
the whole of a tick for the counters, with the limit of the day. `undated` is history:
what ran in the present period and was counted as of another, before the device
knew that the period had begun.

### The RS-485 line

**`Rs485Line`** is the transport as operators on a record; bytes are reduced to
whose answer they are. **`ModbusScheduler`** composes it with the slots, the
queue, the clients and the devices: `submit`, `poll`, `cancelOwner` and `tick`,
each one step because each holds the mutex, and `Elapse`, in which answers reach
the UART, as late as `latest` says or never. The disjuncts of `tick` are its
return paths. Times are relative and saturate; `order_` is the relation `older`.
The tag that says whose answer a frame is, is history: the decoder cannot see
it, and any frame with one answer may decode as the answer of the request on the
line. **`ModbusMaster`** is the service's promise by transaction id.

**`WrappedCounter`** is `millis()`; **`BusClock`** is the arbiter's arithmetic on
it, checked to agree with the relative time `ModbusScheduler` uses, also when a request
cannot be sent; it follows retries of the last request on the line only;
**`DeadlineClock`** is the deadlines that are set to zero for "at once".

### MQTT

**`MqttQueue`** has one step per critical section of `jobsMux_`: `Enqueue` from
any task; `Pass` (the clock, jobs that became due, the pace), `Dequeue` (the choice
of a job), `Build` and `Settle` (its message and its end) of the mqtt task, outside
the lock in between; and `Connection`. A reference to a slot carries `old` once
its token was superseded. `owed` and `resting` are history: what was accepted
and not built since, and what is left of a failed message's delay.

**`ConfigRoutes`** is `MqttConfigRouteProducer`: the mailbox the event task marks,
the tick that drains it into the queue, refused routes with their back-off and
their expiry. **`RuntimeRoutes`** is `RuntimeProducer`: its throttles, its
refreshes, and the snapshots of a new connection, whose flags the client's own
task and the mqtt task both write without a lock. Both stand on what `MqttQueue`
promises, one job per route that a second request joins.

**`MqttConnection`** gives each of the three tasks that write the state of the
connection a list of the accesses it still has to make, and interleaves them one
by one; `setState_` is two of them.

### The kernel

**`Startup`** is `ModuleManager`: the order of `initAll`, then the sequencer of the
main loop, delays, tasks that cannot be created, and the confirmation of a new
application. **`DataEvents`** follows a changed value from the `DataStore` over
dirty marks, the bounded queue and the dispatcher to the mailbox of a subscriber
that looks at the value when it can. **`Alarms`** is one evaluation pass slot by
slot: the condition outside the lock, its effect under it, the event after it,
with `reset` in between. Any event may be refused by the bus (`taken` is what it
took) and is not posted again; `unseen` remembers the changes whose event is still
to be posted or to be seen. **`PulsePersistence`** has the caller that waits two
seconds, the IO task, the configuration store's task, NVS and restarts.
**`ReleaseUpgrade`** is the update of a pair of application and file system: every
write is a step, after any of which power may fail; the boot loader selects,
tries and rolls back. `overwritten` is history: an update began to write over the
other pair while the running application was not confirmed.

### Pool logic and time

**`PoolLogic`** is the arbitration of filtration and robot: the loop reads and
decides (`Decide`) and writes at its end (`Act`), both under `overrideMutex_`; the
events of the scheduler, the mode command and `pooldevice.write` do not take that
lock and come in between. **`PhDosing`** is the pH pump between regulation and
hand: the loop's decision and writing, the command that starts the pump and leaves
the automatic mode afterwards, and the event task that reads the mode and then stops
the pump, outside that lock; **`OxygenDosing`** the doses of active oxygen, from the
weekly volume to the flow of the pump; **`HeatAssist`** the probes of the water and
the heating, with times in 16 bits of seconds and zero for "never". Each module
takes the others as its environment.

**`TimeScheduler`** has the slots in RAM, their text in the store and on flash, the
editors' steps between the two, the event that has the text read back, and the
time task's pass over the slots with the announcements it makes.

Operators that no action uses (`StartBeforeWrite`, `AnyId`, `TokensKept`, ...) are
plausible mistakes kept beside the definition they would replace; "mutants" in
`PROJECT.json` pairs each property with one of them that breaks it, which shows
that the property depends on the code and not on the shape of the model.

## 4. The runs

`tlc -config X.cfg M`, each under five minutes. "MC" modules hold constants and put
parts side by side: in a module with a variable `part`, a behaviour exercises one
part, chosen at the start, while the others rest. A run then answers for several
modules at once, and nothing about their interaction is claimed beyond what each
module itself assumes of the others.

| run | module | parts | bounds |
|---|---|---|---|
| `forcings` | `MCForcings` | `OverrideLease`, `PoolDevices` | one target, leases of 1 and 3 s, 3 ticks per second, tolerance 1 s, two clock settings 2 s apart (one further than the tolerance), 2 restarts per grant, grants up to instant 2; or two slots, a leased relay that depends on a sensed pump visited after it: the order in which the one-tick lag shows |
| `drivers` | `MCDrivers` | `DiscreteSpeeds`, `SerialDevice`, `BusClock`, `PoolDevices` | 3 speeds, dead time and rest of 2, 3 faults; levels 1 and 2, profiles of both pumps and one without feedback, one serial fault; a counter of 48 values that starts anywhere and rests up to 4 |
| `modbus` | `MCModbusScheduler` | `ModbusScheduler`, `OverrideLease` | two slots, ids 1..3, two devices: telemetry with a retry, a pace and answers 1 unit later than its time-out, and a safety stop whose answer may be 2 units late. Three ids wrap past a kept one. Beside them a lease of 1 or 2 s, 2 ticks per second, two clock settings, 2 restarts |
| `queues` | `MCQueues` | `MqttQueue`, `ModbusScheduler` | three slots and messages, rings of one place: two jobs cannot starve one another, three can; a quick request and a slower one that must age |
| `mqtt_session` | `MCSession` | `ConfigRoutes`, `RuntimeRoutes`, `MqttConnection` | two routes, one drained per tick, one refusal, retries after 1 and 2, given up at 2; two snapshots, one throttled and refreshed; 4 troubles of network, broker and settings |
| `kernel` | `MCKernel` | `PulsePersistence`, `Startup`, `DataEvents`, `Alarms`, `ReleaseUpgrade` | 2 pulses, 2 requests, one mishap; 3 modules, one of them gated; 2 keys, a queue of one place; 2 alarms, one latched, reminders every 2 units; 2 releases, 3 faults |
| `logic` | `MCPoolLogic` | `PoolLogic`, `PhDosing`, `OxygenDosing`, `HeatAssist`, `PeriodCounters`, `TimeScheduler` | days of 4, 8 or 11 ticks with a local day shifted against UTC, a window over midnight and one within a day, weeks of 2 or 4 days, 2 doses a week, one restart, one failed write, at most 2 of running a day, two editors of one user slot beside a reserved one |
| `deadline_uptime` | `DeadlineClock` | | a counter of 32 values, delays up to 4; refutes `NoLongerThanMax` |
| `line_uptime` | `BusClock` | | a counter of 64 values; refutes `FreedInTime` |
| `interruption` | `ReleaseUpgrade` | | two releases, no faults; refutes `InterruptionIsSurvived` |
| `oxygen_restart` | `OxygenDosing` | | refutes `DoseOncePerDay` |
| `dosing_stops` | `PhDosing` | | refutes `DosingNeedsPermission` |

A property of a run is either one statement or a conjunction of named ones that
tell one story; each part is stated and explained where it is defined.

| run | property | what it says |
|---|---|---|
| `forcings` | `LeaseKept` | RAM and flash agree at every moment (`RamMatchesFlash`), every record written can be restored (`FlashRestorable`), what is left is never more than the grant (`NeverMoreThanGranted`) |
| | `NeverOutlivesGrant` | counted in real time, a lease outlives its grant by no more than the tolerance and the rounding of each restart |
| | `DeadlineFixed` | the deadline of a lease in force does not move |
| | `ImplementsDurableLease` | the lease implements its abstract specification |
| | `InterlockHolds`, `NoAutoRestart` | between any two visits of a tick nothing runs whose dependency does not; what a protection stopped stays stopped until a command |
| | `ForcingsWhole` | a forcing has the target it returns to on flash (`BaselineDurable`), and a protection cancels it, never pauses it (`NeverPaused`) |
| `drivers` | `ContactsSafe` | at most one contact closed, whatever fails (`ExclusiveContacts`), break before make, reports as wired |
| | `DeviceFollows` | what is reported as applied has been read back since it was commanded, a stop precedes every setpoint, a start comes at its level |
| | `OutputsFollow` | the last target is reached (`TargetReached`, `SpeedDriven`), a relay whose dependency is lost goes off (`LossStops`) |
| | `ClockSound` | wrapping counters free the line exactly when relative time does, whatever is sent, refused or tried again; but after a request never sent that failed outside the first half of the counter (`adrift`, refuted by `line_uptime`) |
| `modbus` | `TablesAgree` | one on the line, ids unique through their wrap, the queue is an order, off means empty |
| | `AnswersMatch` | no late answer completes another request |
| | `SentInTurn` | the interval a request owes is kept (`Spaced`), a waiting stop goes first (`SafetyFirst`) |
| | `ImplementsModbusMaster` | the arbiter implements the service |
| | `ForcingEnds` | a forcing ends, and its tombstone is written (`TombstoneSettles`) |
| `queues` | `JobsSound` | references and jobs correspond, one job per message, what was accepted is built after it was accepted (`NothingLost`) |
| | `TakenInTurn` | a failed message rests, nothing is taken while an urgent job is due |
| | `EachIsServed` | accepted messages are built, requests for the line end |
| `mqtt_session` | `RoutesSound` | no change of the configuration is forgotten, a pending route has a job or a retry (`PendingIsBacked`) |
| | `SnapshotsSound` | what was enqueued is refreshed and remembered |
| | `ConnectionSound` | between callbacks the state is that of the client |
| | `PublishedInTheEnd` | changes are published, values shown, routes come to rest, a lost connection is made again |
| `kernel` | `RequestsHonoured` | a save or a reset answered "done" survives restarts; one given up is not executed later |
| | `StartupSound` | dependencies first, all released or the start has failed, an application is confirmed only then |
| | `EventsSound` | a subscriber that has not seen a value will be told, `SystemStarted` comes first |
| | `AlarmsSound` | every change is posted after it was made, to a bus that may refuse it; while an alarm is active on a condition that holds, a reminder of it is to come (`ChangesAnnounced`); delays hold |
| | `UpgradeSound` | wherever power is cut something whole boots, also from an application that is not confirmed, until an update begins to write over what it goes back to (`CutIsSurvived`; `interruption` shows that one may); what is committed is whole, and no release that failed boots |
| | `EndsWell` | counters reach NVS, modules come up, every key has its turn, an active alarm whose condition holds is reminded of again and again (`Reminds`), a transfer that is dropped frees the updater |
| `logic` | `FiltrationSound` | what the hand wrote is kept by a loop that read before it, filtration follows its window, low pressure stops it, one cleaning a day |
| | `RegulationSound` | dosing is armed by flow (`ArmedByFlow`); a pump started by hand is stopped by no decision of the loop and by no announcement of a mode that is over (`HandKept`; section 7 has the start that is lost) |
| | `DosingSound` | a dose is poured as planned, counted in full, in time, one a day (UTC) |
| | `HeatSound` | heating needs filtration and a temperature measured in flowing water, probes come |
| | `CountersSound` | each restart and each failed write cost at most the interval and a tick of any count (`Allowed`), in all (`LossIsBounded`) and per period, where what ran before the device could date it is missing too (`CountsThePeriod`); the limit of the day is exceeded by no more (`DayIsLimited`) |
| | `SlotsSound` | the mask of active slots is what was announced, a reminder is not announced twice, an edit is on flash as it was answered |

A type invariant leads each passing run; those of parts stand in their groups,
where some bound what the code could let grow (transmissions of a request, speeds
recorded, volume left of a dose).

Bounds that are not in the code: the number of restarts, faults, requests, pulses
and releases, and `MaxReal`, `LineLimit`, `RestLimit`, `MaxTicks`, `MaxTime`,
`MaxTurns`, `MaxMinute`; the saturation values `Age` and `Long` of
`ModbusScheduler` lose nothing, for the code compares these times only with `Age`
and with the interval. They are enough in this sense: each value is one or two
more than what the hazard behind the property needs (a restart after a failure,
a third job that starves, a week that turns over), each property has a mistake
that breaks it within the bounds, and what the proofs state they state for every
value. Deadlock is checked except where the configuration says otherwise, in the
runs whose behaviours end at such a bound.

## 5. Fairness

Only liveness uses it; safety is checked and proved without.

- `modbus`, for its lease: `WF(Elapse)`, time passes; `WF(LoopTick)`, the device loop
  runs every 20 ms; `WF(Retry(TRUE))`, a flash that is asked again and again accepts once,
  which only `TombstoneSettles` needs. Clocks, commands and restarts owe nothing,
  and neither does the line there. `forcings` has no fairness.
- `drivers`: the device loop (`WF` of the steps of the drivers' ticks, of the dead
  time and of the visits of slots). A write that is tried again succeeds once, an
  exchange that reached its device is answered once: `TargetReached` is about an
  output that still works. `LossStops` assumes no write to succeed: a failed write
  invalidates the feedback, and the property is about what the controller believes; it
  does not show that the relay is written again until it opens.
- `queues`: `WF(Tick)`, the rs485 task waits one FreeRTOS tick between two calls
  (`IOModule.cpp:3904-3911`), and `WF(Elapse)`; clients need not poll or cancel. The
  mqtt task never stays for ever before one of its steps, and passes while
  connected: `[]<>` on its position, which is weak fairness of steps that are
  enabled until taken.
- `mqtt_session`: ticks of the producers, the client's own task and the event task
  go on; a message the queue accepted is built while connected, which is
  `AcceptedAreBuilt`; a broker that answers is not assumed, only that an attempt ends.
- `kernel`: the loops of each task (`WF` of the IO task, the store's task, the main
  loop, dispatcher, subscribers). The alarms task always has a step to take: its
  weak fairness is that its passes begin and end. The bus owes the alarms nothing,
  it may refuse every event; `Reminds` says that a reminder is tried again and again.
  `ReleaseUpgrade` adds that the boot
  loader boots, that a holder of the mutex goes on and that a user who abandoned
  an upload has done so; the peer that sends a release owes nothing.
- `logic` and the refuting runs have none: they check safety only.

## 6. The proofs

`tlapm M.tla` checks eight modules to the last leaf; their theorems hold for all
constants that meet the assumptions the modules name. Each follows the same
argument: an inductive invariant, that it holds initially, one lemma per action or
group of actions for its preservation, and each property from it. The
inductive invariants were first checked by TLC on the instances of section 4.

**The lease, `OverrideLeaseProofs`** (assumes `MaxDurationAssumption`,
`MsPerSecAssumption`, `ToleranceAssumption` and that a trusted UTC is later than
the longest lease, `OffsetsAssumption`, as TimeModule refuses earlier dates).
`RamMatchesFlash` is not inductive: `Consistent` adds that a lease is never active
and dirty at once and that the flash record is one `restore()` accepts, without
which a restart could bring back another lease than the one recorded. The ceiling
`NeverMoreThanGranted` needs `LengthGranted`: end - start is still the granted
length, which each correction preserves because it moves both. `NeverOutlivesGrant`
follows from `EndsInTime`: at the clock it was last compared with, the end on record
is the monotonic deadline to within the tolerance and a second's rounding, so a
restart can lose no more than `RestartSlack`. (The proof corrected that bound: a
second of rounding per restart, twice cut off, holds for a clock of two ticks
per second and is false for a finer one.) `LeaseCorrect`
states the group the run checks; `DeadlineStable` and `LeaseRefinesStore`
(every step of the lease is a step or a stutter of `DurableLease`) the others.

**The pool devices, `PoolDevicesProofs`** (assumes only the types of the constants:
any number of slots, any dependency graph, cycles included). `InterlockHolds`
needs to know that a relay reported on was last driven on (`RelayWritten`),
`NeverPaused` that a lease that has been applied was applied under a published
policy (`AppliedUnderPolicy`) and that only relays are leased (`SensedUnleased`);
`NoAutoRestart` that every target, guided, forced or on flash, was asked for
(`TargetAsked`). The heart is `TickSlot`: one lemma follows the slot record
through its five stages. Theorems: `TypeCorrect`, `InterlockCorrect`,
`NoRestartCorrect`, `ForcingsCorrect`.

**The arbiter, `ModbusSchedulerProofs`** (assumes `GuardAssumption`, no answer is
later than time-out, silence and late-response guard together, which is what the
guard is configured for, and at least as many ids as slots). `AnswersMatch` is a
timing argument: every answer still to come for a request that is over arrives
before the line is available again (`WireOK`), so the line that starts the next
request is silent and its buffer empty (`Resting`, `OnLine`). `Spaced` rests on
`PaceOK`, the interval owed is part of the time to wait; `IdsUnique` on the search
for a free id, which ends since there are as many ids as slots; `QueueOrdered` on
`Ordered`, kept apart because nothing else needs it. `SchedulerRefinesMaster` is the
simulation: `Seen` maps a table of slots to the transactions of `ModbusMaster`, and
what goes on between two tables (`AllGoOn`) is either nothing or that some pending
transactions end, which is all a tick may show; the transaction on the line that its
owner cancels is gone from there although its slot goes on. Theorems: `TypeCorrect`,
`TablesCorrect`, `AnswersCorrect`, `SentInTurnCorrect`, `SchedulerRefinesMaster`.

**The drivers, `DriversProofs`**. `ContactsCorrect` holds for any number of speeds,
dead time and faults: while the driver counts on open contacts they are open, and
what is left of the dead time is what they have still to stay so (`ClearedIsOpen`).
`DeviceCorrect` holds for any levels with a lowest one and any set of profiles:
`SerialInv` says where the one exchange that is the driver's is (`Idle`, `Waiting`,
`OnTheWire`, `Answered`), that it is for the driver's target and that its turn had
come (`Asked`); a request to run that is on the wire finds its level in the register
already, whether or not the driver still waits for it (`LevelFirst`). `ClockCorrect`
takes the arbiter's clock to be longer than twice all it compares: by lemma `WrappedIs`
a difference read as signed is what has really passed, so that the line is free when the
relative time says so (`AvailableIn`), and a request on the line was sent when it says
(`SentWhen`), through any sends that fail. A request never sent that fails in the first
half of the counter compares with 0 as it should (`FirstHalf`); after one that fails
later (`adrift`) nothing is claimed until the next is sent, and `line_uptime` shows what
happens then.

**The kernel, `KernelProofs`**. `RequestsCorrect`: the copies of the count, with the
store, on its way and on NVS, are of its past, in that order (`Copies`), and each
stage of a request knows which of them covers what was asked (`Requests`).
`EventsCorrect`: a key is in the hand of the bus only while it flushes
(`HandIsFlushing`) and none is posted before `SystemStarted` has its place
(`KeysWait`). `AlarmsCorrect`: a timer runs only on the side of the alarm it may
change, and for no longer than its condition has lasted (`TimedAs`); nothing is assumed
of the bus, which may refuse each event, and an active alarm whose condition holds has
its reminder running nevertheless.
`UpgradeCorrect`: what runs is whole and another slot is selected only as a new one
(`RunsWhole`), there is one update at a time (`OneUpdate`), what a release has
verified is in the slot that does not run (`ImagesWritten`), and the receipt knows
of the update for which another slot is selected (`ReceiptKnows`). That an application
that is not confirmed may still be cut off needs `FallbackInv` beside these: until an
update overwrites it, what it would go back to has a file system (`FallbackKept`), and a
slot about to be selected has one too (`SlotFilled`). `StartupCorrect`
is about an algorithm and the sequencer that uses its result. The algorithm places, in
each of as many passes as there are modules, those whose dependencies are placed. What
is placed is in order at every moment of every pass (`PassesKeep`). If no dependency is
unknown and none goes round, each pass places one module more, so that the last has
placed them all (`OrderableOrdered`); and if all are placed then of any set of modules
the one placed first needs none of the others (`OrderedOrderable`). In the sequencer a
module told to start has only started ones among those it needs (`Releases`), and a pass
that has postponed none leaves none behind (`Passes`).

**The session, `SessionProofs`**. `SnapshotsCorrect`: what the client's task has
marked it has still to enqueue, the mqtt task is at a job that exists
(`TaskAtWork`), and while online every snapshot that was not shown is still wanted
or still served (`SnapshotInv`). `ConnectionCorrect` (`ConnectionInv` speaks of the
accesses each task still has to make: they are in the order of the code
(`OwnAccesses`), a stop is followed by the state that goes with it (`StopsEnd`), a
client is made, read into and dialled in one list (`Makes`), a module that is
disabled, or about to say so, dials no more (`StaysOff`), and what is not connected
any more does not stay Connected, because somebody will overwrite it (`EndsSeen`)).
It covers any interleaving of the three tasks and any number of troubles.
`RoutesCorrect`: a message being built is wanted and what changed since is marked
(`BuiltIsWanted`), and while the connection holds a route that has a job is not
refused (`JoinedAgain`); with these `RoutesInv` is inductive. A tick is followed
route by route: what the mailbox hands out is asked for, and nothing else
(`DrainIs`), at most one refused route is retried (`RetriedIs`), and the two together
have four outcomes for a route (`Ticked`).
The publish queue: `QueueOK` is what holds between any two changes of its slots and
rings. A reference that is not old is of a job queued in that ring (`LiveIsQueued`), a
queued job has one (`QueuedIsLive`, `OneLive`), has rested (`QueuedIsDue`), and in the
ring of high priority none is old, since nothing is promoted out of it
(`UrgentIsLive`). One lemma per operator of the queue says that it keeps this:
`QueueSlotsKeeps`, `RetriedKeeps` (whose order takes each waiting slot once: `EveryRank`
counts, instead of an induction over the sorted sequence), `PoppedKeeps`, `TakenIs`,
`CoalesceKeeps`, `AdmitKeeps`. `JobsOK` adds the task and what was accepted; a message
with rest left has a job that waits for at least as long (`AllRest`), which is why none
is built early whoever asks again. An urgent job that is due has a place in its ring
when the next is taken or leaves none free there (`UrgentInRing`). Theorems:
`QueueTypeCorrect`, `JobsCorrect`, `TakenInTurnCorrect`.

**Pool logic, `LogicProofs`**. `RegulationCorrect`: the time the
pump is armed for has been counted under flow (`RunIsSeen`, `ArmedInTime`), a
decision that is not written yet was armed when it was taken (`DecidedArmed`), and a
start by hand meets no stop that was decided before it, and from the end of its command
no automatic mode (`HandStands`). `HeatCorrect`: what is
counted as flow has flowed (`FlowIsCounted`), a probe that runs flows or knows since
when it waits (`ProbeFlows`), the time since the last one is known in 16 bits
(`ProbeIsDue`). `FiltrationCorrect`: the decision not yet written agrees with the
hand (`HandObeyed`) and with the window or the events that are still to come
(`ClockObeyed`), and the robot's cleanings are counted (`RobotCounted`).

**Counting, `CountingProofs`**. `DosingCorrect` holds for any calendar, weekly
volume, flow and delays. That a dose ends in time is proved by what is left of it:
what a running pump may yet pour (`ToCome`) and is sure to have counted (`ToCount`)
bounds the difference between what was poured and what was counted
(`PouredAndCounted`); how long it has waited is known at each stage, from the request
for filtration to the last count (`DoseAdvances`); that it is poured once a day
follows from the key of the day (`DayIsKept`). `CountersCorrect`: what is counted in
RAM, handed over and on flash is what has run up to then (`LiveIsTrue`,
`HandedIsTrue`, `SavedIsTrue`), and the difference is bounded by the time since it
was last handed over (`LossIsKnown`). The same per period needs what was counted as of
another: whatever sets a period back moves what ran in it to `undated`, in RAM, in the
copy handed over and on flash (`PeriodLossIsKnown`); the limit of the day follows, since
a device that is on was below it at the tick before (`LimitIsKept`). It assumes
that periods have a length and that none is called "Total". `SlotsCorrect` holds for any slots, editors, week and length
of the day. `WindowLemma` relates the code's comparison of weekday and minute of the
day to the calendar; it is where a window over midnight falls short. A trigger of
this minute is not due again (`TriggersOnce`); the text in RAM is ahead of flash only
while one editor writes it (`OneWrites`); and until two edits overlap (`OneEdits`),
table, text and flash hold what was answered, or will be by the editor at work
(`TextsKept`, `EditsKept`). All three rest on lemmas about quotients and products,
proved once.

Two of these proofs go by induction over a number: along the passes of the
initialisation and along the places of the mailbox. The code's loops are recursive
functions on an interval here; that such a function is what its equation says
(`Stepwise`), and that what goes from each number to the next holds of all (`UpTo`), is
proved from the library's theorem that a set of naturals has a least element (`WFMin`),
taken on sets, since a theorem on predicates cannot be applied by the provers.

Only model-checked is liveness (`ForcingEnds`, `OutputsFollow`, `EachIsServed`,
`PublishedInTheEnd`, `EndsWell`): the prover has neither fairness nor ENABLED.

## 7. Findings

With a run that shows them:

1. `MQTTQueue.cpp:362` (`deadline_uptime`). A deadline of 0 for "at once" compared by
   sign is not due while `millis()` is in the second half of its range: after 24.8
   days of uptime nothing is published for 24.8 days (`docs/modules/MQTTModule.md:109`:
   retries come within 10 s).
2. `Drivers/PoolDeviceDriver.cpp:147` (`deadline_uptime`). The same with
   `retryAt_ = 0`: in those days a new target, a stop included, is not written to
   the output.
3. `PoolLogicControl.cpp:400` (`oxygen_restart`). The cursors of active oxygen are
   never persisted: `ConfigStore::set` compares the variable with itself. After a
   restart the dose of the day is poured again
   (`docs/modules/PoolLogicModule.md:244`). `normalizeDeviceSlots_` and the corrections
   of `onConfigLoaded` (`PoolLogicLifecycle.cpp:1545`, `1253`) store nothing for the
   same reason.
4. `PoolLogicControl.cpp:1520` (`dosing_stops`). A dosing pump that runs when the
   regulation loses its permission keeps running until its own limits stop it
   (`docs/modules/PoolLogicModule.md:730`: output 0, OFF requested).
5. `Rs485TransactionScheduler.cpp:309` (`line_uptime`). When the first transmission of a
   request fails (272-288), `sentAtMs` is still 0: in the second half of `millis()` the
   line then counts as busy until the counter has wrapped
   (`docs/modules/ModbusMaster.md:33`).
6. `FirmwareUpdateModule.cpp:1678` (`interruption`). An update begun while the running
   application is not confirmed, which in access-point mode it never is, erases the file
   system of the pair that the boot loader would go back to; so does the copy of the
   remote route (1061). A power cut before the commit then leaves nothing that starts
   (`docs/core/release-upgrade-ab.md:45`: the running release stays intact).

`MqttQueue`, `PoolDevices`, the drivers and their liveness therefore speak of the
first half of the counter; `DeadlineClock` shows what happens after it.

Met while modelling, outside what a run shows:

- `PoolDeviceOverrides.cpp:256`. A forcing whose record cannot be saved has already
  set the interlock state to Ready: the diagnostic said to survive until the
  dependencies recover or a stop is accepted (`docs/modules/PoolDeviceModule.md:26`)
  is gone.
- `TimeModule.cpp:1959`: a recurring window over midnight never ends, its end minute is
  not looked at (`Core/Services/ITimeScheduler.h:51`: start and stop); `MaskIsTrue` speaks
  of the windows as the code reads them. The filtration window is computed elsewhere and
  does end.
- `Rs485TransactionScheduler.cpp:262`. The time is read before the mutex is taken: a
  request submitted in between looks 2^32 - 1 ms old and goes before a command that
  waits (`docs/modules/PoolActuators.md:253`), within one tick and for one transaction.
- `MqttConfigRouteProducer.cpp:177`, `312`, `486`: a change that comes while its route
  is refused is given up with the older request, ten seconds after that was refused
  for the first time.
- `MQTTTransport.cpp:119`, `MQTTLifecycle.cpp:370`: settings that change while a client
  is made from the old ones are marked by the event task and the mark is cleared by
  the mqtt task: the connection keeps the old ones
  (`docs/modules/MQTTModule.md:144`: a clean reconnection).
- `FirmwareUpdateModule.cpp:1127`: a remote update that fails after `Update.end()`
  (1146, 1158) leaves the new slot selected, so that any later reset completes it,
  which the local route takes care to prevent (comment at 1923).
- `PoolLogicControl.cpp:1437`: a probe of the water that the clock ends counts as a
  measure (`docs/modules/PoolLogicModule.md:127`); `MeasuredUnderFlow` allows it only
  when filtration was held.
- Active oxygen counts days in UTC and hours locally: a local day may see two doses.
  `OneDoseADay` speaks of the UTC day.
- A target written by `pooldevice.write` between the loop's reading (1260, 1520) and
  its writing (1652) is undone; `phAuto`'s safe stop
  (`PoolLogicLifecycle.cpp:1463`) may be undone the same way.
- The robot: its cleaning of the day is not kept over a restart; one cut short by the
  filtration counts as done; one that runs over midnight uses up the new day's; the
  change from automatic to manual leaves it on without a limit; a lease over the end
  of a cycle allows another.
- Freeze protection also acts in manual mode; a retained pump is not kept running
  over a warm restart (1269); writes that fail are repeated at every loop (935-963).
- Schedule: two edits at once may both be answered TRUE though one is lost (an edit that
  begins before the text of an earlier one has been read back ends what `AsAnswered`
  claims, `excused`, also when one task makes both); a reload
  between an edit of the table and its text drops it; a `clearSlot` that flash refuses
  leaves the table cleared until the next reload; a one-shot that fired stays in the
  text and fires again after a reload.
- Clock: a failure of NTP after a synchronisation is reported as not synchronised;
  the RTC as fallback may replace a newer time.
- `ModuleManager.h`'s table of start delays is older than the profiles; `mqtt` and `ha`
  start only on a network, so that a new application is not confirmed in the
  access-point mode.
- `Alarms`: a condition that becomes unknown posts no event
  (`docs/modules/AlarmModule.md`). An event for which the bus has no room is dropped
  (`AlarmModule.cpp:88`, `EventBus.cpp:124`) and not posted again: of a raised alarm a
  reminder comes later, if reminders are configured (`minRepeatMs` not 0); a clear or a
  reset that is dropped stays untold (the same page: published immediately).
- `PoolLogicCommands.cpp:329`, `366`: `ph_pump.write` starts the pump and leaves the
  automatic mode only afterwards. The event task takes no lock (`PoolLogicLifecycle.cpp:1463`):
  an announcement of the mode that it dispatches in between, or has dispatched just
  before, stops the pump that the hand has started, and the automatic mode is off too.
  `HandKept` excepts that start.
- `PoolDeviceControl.cpp:499-503`: after a restart a device counts on in the period read
  from NVS until the clock is known. If that period is over, all that ran meanwhile is
  set back with it, whichever day it ran on, and the limit of the new day misses it
  (`undated`).

## 8. What is not modelled

Left out of the modelled parts:

- lease: 64-bit overflow of times, the migration of old records.
- pool devices: setpoints and modes, injected volumes and tanks (counted as running
  time is), live edits of the configuration, drivers that are not ready, the analog
  driver.
- arbiter: its memory allocation, statistics, overflow of the receive buffer,
  noise and frames split by it, a mutex not obtained within 20 ms, byte layouts.
- MQTT: statistics, the callbacks of producers, the wrap of the 16-bit token, the
  numbers of the back-off, the reception queue and the ring of acknowledgements,
  what a payload contains.
- kernel: the reports and texts of alarms, the rate of a counter, the version
  manifest and HTTP of updates.
- pool logic: the PID, the water temperature's effect on the window's hours,
  electrolysis, filling, the demand of freeze and winter as numbers (`Weather` is
  their outcome), the ORP pump, which is regulated as pH is.
- time: the sources of the clock; a text read in the middle of its copy in RAM.

Not modelled at all, with the reason, in "components": codecs, tables, text,
drawing, vendor APIs and I/O, where a model would only restate the code.
