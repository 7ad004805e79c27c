# A TLA+ verification project for CAP

CAP (Complex Automation Platform) supervises an ore-processing plant. An *edge gateway*
reads instruments (Modbus TCP, OPC UA, MQTT Sparkplug B or a simulator), keeps the readings
in a local SQLite queue and posts them to the server *capd*. capd stores them in a historian,
evaluates alarms, runs PID control loops once a second and serves dashboards over HTTP and a
WebSocket. The outputs of the loops travel back: the gateway polls them and writes them to the
actuators. Both programs are Go, each with one SQLite database; goroutines and HTTP handlers
share the database rows and a few structures in memory.

This directory holds models of that system, the configurations TLC checks them with, and proofs
TLAPS checks. Paths below are relative to `src/backend/internal` unless they start with `src/`.

Contents: [1. inventory](#1-inventory), [2. modules](#2-modules),
[3. what the runs check](#3-what-the-runs-check), [4. bounds](#4-bounds),
[5. fairness](#5-fairness), [6. proofs](#6-proofs),
[7. where code and documents disagree](#7-where-code-and-documents-disagree),
[8. what is not modelled](#8-what-is-not-modelled), [9. plan](#9-plan),
[10. how to run](#10-how-to-run).

## 1. Inventory

For each component: the state it keeps, what changes it, why it is hard to get right and what
makes it correct.

**Control loops** (`controlsvc/manager.go`, `store/control.go`, `api/handlers_control.go`).
State: the rows of `control_loops` (mode, state, output, PID memory, configuration) and the alarm
rows `loop:<id>`. Operations: `Manager.Tick` (one goroutine, every second), the handlers that set
mode, output, setpoint, scheduling and pH configuration, the acknowledgement of the alarm.
Hard: the tick reads *all* rows first and then saves each row unconditionally; a tick of one loop is
several SQL statements; handlers read, check and write in separate statements; any of them can fail
or be cut off by a restart. Correct: mode, state, output and alarm of a loop fit together whatever the
interleaving; an overheated bearing gets its oil; a loop without PV does not stay in automatic;
manual outputs belong to the operator.

**PID core** (`control/`). Pure functions over the PID memory: `Step`, `PHStep`, `PHSelfTune`,
`GainScheduler`. Hard: clamps and slew windows around values other parts of the program wrote;
bounds that are multiples of gains that may be negative. Correct: bounded memory, no windup, a
lasting error ends at a stop, a switch to automatic does not move the actuator.

**Edge write bridge** (`gateway/control.go`, `ControlOutput` and `WriteActuator` in
`api/handlers_control.go`). State: `actuator_writes` rows with a sequence number, the bridge's map of
delivered numbers (process memory), the register in the device. Operations: poll, FC6 write,
restart. Hard: a response lost after the write took effect, an empty map after a restart. Correct: an
older command never follows a newer one, the last command arrives, a loop in automatic moves its
valve.

**Band alarms** (`alarms/engine.go`, `store/alarms.go`, limits in `store/audit.go`). State: the
`alarms` row of a tag, the engine's belief about it (`bandState`, process memory), a cache of the
limits, the limits row. Operations: evaluation of a reading, acknowledgement, rationalising,
shelving and deleting limits, restart. Hard: on-delay, off-delay and hysteresis over wall-clock
time; the belief changes *before* the statement that may fail; limits change under the timers.
Correct: belief and row agree, nothing is announced or cleared too early, a lasting excursion is
announced and a lasting calm clears.

**Communication-loss watchdog** (the sweep in `alarms/engine.go`). State: per asset the time of the
last reading and a mark, the rows `comm:<asset>`. Hard: marks first, writes later and outside the
mutex. Correct: mark and row agree, silence is announced, recovery clears.

**Store-and-forward and ingest** (`gateway/buffer.go`, `sender.go`, `run.go`, ingest in
`api/handlers.go`, `store/repo.go`). State: the queue, the batch in flight, ingest requests the
server works on, the historian, `gateway-rejected.log`. Hard: time-outs with the first request still
running, lost answers, restarts of either side, failures of single items. Correct: no message leaves
the queue before it is stored or the server has rejected it, none is stored twice, order is kept, the queue drains.

**Field drivers** (`gateway/modbus.go`, `opcua.go`, `sparkplug.go`, `sensor.go`, `driver.go`). State: the
connection, the subscription, the alias maps of Sparkplug nodes, readings that wait for the next poll.
Operations: `Poll` of each driver, connecting and resetting, notifications, births and data in MQTT callbacks,
start and `Close`. Hard: a poll is many exchanges and any of them may fail; an OPC UA subscription exists only if it
could be made at start-up, and a first MQTT connect that fails is not tried again; Sparkplug callbacks run side by side, the broker repeats what it thinks was lost,
and an alias means what the *last* birth said. Correct: what can be read is read, an outage shows, no
value is lost or stored under the name of another metric without a reason one can name.

**Gateway pulse and registry of gateways** (`gateway/pulse.go`, `store/gateways.go`,
`api/handlers_gateways.go`). State: what the gateway believes about the server, the `gateways` row, the
wake-up token of the sender. Hard: a beat reports what the beat *before* it has learnt; a request that was
given up may be served after a newer one. Correct: a gateway that is connected is shown online in the end.

**WebSocket hub** (`hub/hub.go`, `WebSocket` in `api/handlers.go`). State: the registered clients, a bounded
channel for each, the read-write lock. Hard: broadcasts from three sources meet clients that leave or do not
read. Correct: nothing is sent to a closed channel, and nobody waits for a slow dashboard.

**Metallurgical calculations** (`metallurgy/`). Every five seconds the balance of the concentrator is
computed from the latest good readings and fed back through ingest as virtual tags. Hard: fifteen queries, one
after the other, while readings, gaps and backlogs come in; message ids that repeat within a bucket of
time. Correct: only plausible numbers from measured values are written, and a consistent balance
shows in the end.

**Users, sessions, roles, audit** (`store/users.go`, `rbac.go`, `audit.go`, `api/middleware.go`,
`handlers_login.go`, `handlers_rbac.go`). State: sessions, roles, assignments. Hard: session, permission and
handler are separate statements, and roles are deleted while they are used and assigned. Correct: a role that is created
again inherits nothing. (That the middlewares admit nobody else is their two guards, which the module has as guards.)

**Ore profiles** (`store/profiles.go`, `api/handlers_profiles.go`). Draft, approval, activation of one
profile at a time. Hard: activation reads the status and writes later. Correct: change control.

**Registry and validation** (`store/repo.go`, `schema/schema.go`, `api/handlers_registry.go`). State: assets,
tags, the readings that refer to them, no foreign keys. Hard: count first, delete later. Correct: a tag
has its asset and a reading its tag. What a message must satisfy to be accepted is the constant `Bad`
of EdgeDelivery.

**Historian queries and export, plant simulator, configuration and start-up, web assets, frontend,
command line tools**: see section 8.

How they interact:

```
 instruments -> drivers -> Buffer -> Sender --POST ingest--> handlers -> historian -> Manager.Tick
                                       ^                        |            ^             |
                                       | wakes                  |            | ingest      v
                                     Pulse --POST event--> gateways     Metallurgy    control_loops
                                                                |                          |
                                                          alarm engine -> alarms           |
                                                                |                          |
                                                               hub -> dashboards           |
 actuators <--FC6-- ControlWriteBridge <--GET control/output-------------------------------+
```

Calls: handlers and the manager call the alarm engine synchronously. Messages: the batches of the
sender and the polls of the bridge, both over HTTP with time-outs. Shared state: the two SQLite
databases (every statement is atomic, SQLite serialises writers; nothing spans statements except the
queue's delete, the deletion of a role and the activation of a profile). Callbacks: the pulse wakes the sender,
MQTT and OPC UA clients call the drivers. Users' requests pass `authenticate` and `rbac`
before they reach a handler, gateways carry a device token.

## 2. Modules

| module | models | composed of |
|---|---|---|
| `AlarmTable` | one row of `alarms`: raise (upsert), clear, acknowledge | |
| `PidCore` | `clamp`, and the outputs one PID step may reach | |
| `ControlLoop` | manager tick, mode and output handlers, loop alarm | `AlarmTable`, `PidCore` |
| `FieldControl` | the loops together with the bridge and the valves | `ControlLoop` |
| `Regulator` | the arithmetic of a loop: PID memory, gains, bumpless transfer | `PidCore` |
| `WriteBridge` | one-shot commands with sequence numbers | |
| `BandAlarm` | the band alarm of one tag | `AlarmTable` |
| `CommLoss` | the communication-loss sweep | `AlarmTable` |
| `Delivery` | what store-and-forward promises (abstract) | |
| `EdgeDelivery` | queue, sender, ingest; implements `Delivery` | `Delivery` (INSTANCE) |
| `FieldRead` | the simulated, Modbus and OPC UA drivers | |
| `Sparkplug` | the Sparkplug B driver, its broker and its nodes | |
| `Sources` | a gateway with one of the drivers | `FieldRead`, `Sparkplug` |
| `Metallurgy` | latest readings, the balance, virtual tags | |
| `GatewayStatus` | the pulse of a gateway and its row | |
| `Hub` | clients, broadcasts, the lock | |
| `Live` | the server between gateway and dashboards, and its restarts | `GatewayStatus`, `Hub` |
| `Traffic` | what passes between a gateway and the server, shown one at a time | `Live`, `EdgeDelivery`, `WriteBridge` |
| `Access` | sessions, roles, assignments, the two middlewares | |
| `Profiles` | ore profiles | `Access` |
| `Registry` | assets, tags, readings | `Access` |
| `Administration` | all requests of the administration | `Profiles`, `Registry` |
| `ControlLoopProofs` | theorems about `ControlLoop` and `FieldControl` (all theorems: section 6) | `FieldControl` |
| `CalculationProofs` | theorems about `Regulator` and `Metallurgy` | `Regulator`, `Metallurgy` |
| `GatewayProofs` | theorems about `Sources` (`FieldRead`, `Sparkplug`) and `WriteBridge` | `Sources`, `WriteBridge` |
| `LiveProofs` | theorems about `Live` | `Traffic` |
| the other `*Proofs` | theorems about one module | the module they are named for |
| `MC*` | values of the constants for TLC | the module they are named for |

In every module an operator that directly precedes another one with the same parameters is a mutated
form of it. No specification uses it: it is put in the place of the original to see that a
property fails.

**ControlLoop.** `row[i]`, `alarm[i]` are database rows; `snap` is the result of `ListLoops` the
current tick works from; `cursor` and `plan` are the position of the tick: `Decide` translates
`tickLoop` and what it calls into the *sequence of SQL effects* the code is going to execute, and
`DoSave`, `DoRaise`, `DoClear` execute them one by one, so that handlers, failed statements
(`EffectFails`) and restarts come between any two. The branches keep the source's order: `TempPlans`
is `tickTempLoop` (stale, interlock held or released, trip, manual, PID), `PHPlans` the switch in
`tickPHLoop`, `WatchdogPlans` `watchdog`. A handler is two steps: `ReadLoop` (`GetLoop`) and the
`UPDATE`, whose test uses what was *seen* (`req`). Data is abstracted: the PV is the outcome of the
comparisons (`PVLevels`), the output any value `control.Step` can return (`Moves`). `cut` is a
history variable: the loops whose current or last tick lost an effect to a fault.

**FieldControl** adds `ControlWriteBridge.tick` for loop outputs: `PollOutput` copies the items
`ControlOutput` marks "auto" into the set `feed`, one for each loop; `WriteItem` takes them in the order of the loops
(`FirstItem`) and moves a valve, `WriteItemFails` loses an exchange.

**Regulator** computes what ControlLoop leaves open. A tick is one step here; numbers are integers
in parts of the actuator range (0..`Full` stands for 0..100 %, -`Half` for -50 %), gain factors
count parts of one (`Unit`). Kept from the code: the dead-band hold that keeps the
integral, the order of clamp and slew window, the integral that is saved although the output was
slewed, `prev_error` being NULL after a switch, the saved error 0 after a freeze without one, the
scheduler's bounds as multiples of a negative base gain, the seed from the *latest* good position
reading however old (`reported` against `valve`). `transfer` is a history variable. `OutputsAreMovesAlways`
(section 6) connects the two modules: the computed output is one of those ControlLoop chooses from.
The temperature loop uses the standard step and adds only the interlock, which is in ControlLoop.

**WriteBridge** (its operators are named `Bridge...` where `EdgeDelivery` has the same idea). `command[a]` is the `actuator_writes` row, `feed[a]` the item of the last poll,
`writtenSeq` the map, `register[a]` the device together with the command that set it; `writes[a][k]`
counts how often command `k` reached the device (history). `WriteUnconfirmed` is the exchange whose
response is lost, `Failure` counts what goes wrong, `BridgeRestart` empties the map.

**BandAlarm.** `st` is `bandState` (age is the time since `condSince`), `todo` the statement chosen by
`evaluateBand` and not yet executed, `cache` the engine's copy of the limits with its age, `limits` the
table. Ages stop counting at the largest value anything is compared with. `GoodReading` is an evaluation
with or without a readable limits table, `GapReading` one of any other quality.

**CommLoss.** `comm[a]` is `assetComm`, `todo[a]` the statement of the running sweep; `Write` follows
the order of the code, all raises before all clears.

**EdgeDelivery.** A message is its number in the order of `queued_at`; tables and batches are sets of them.
`buffer` is the `pending` table, `batch` what the sender has posted (`Oldest` is the query with ORDER BY and
LIMIT), `request[r]` an ingest handler with the items it has still to work on, in their order (`Item`). A
handler outlives the sender's patience (`Timeout`) unless its context is cancelled first (`Cancelled`).
`limit` is the server's INGEST_MAX_BATCH, chosen once; a batch beyond it is answered 400 and changes nothing (`TooLarge`).
An answer with rejections has them noted before anything is deleted (`Respond`): `resync` holds the ids whose line in
`gateway-rejected.log` was written, `unnoted` (history) those whose line, or the whole file, could not be; `logRejected` ignores
both errors and the queue is emptied all the same. `Delivery` is the promise; the refinement mapping takes `buffer` for the
queue, the stored messages for the historian and `resync` together with `unnoted` for what was refused.

**FieldRead.** A message is its quality, "silent" the absence of one; `reg[t]` is what a read of tag `t` would
meet. Modbus reads register by register (`ModbusReads`, `at` is the loop variable) and drops the connection
with the first that fails; OPC UA reads all at once or drains what notifications left in `pending`.
`seen[t]` is the driver's last word on a tag. `Started` is `NewSource`: what the start could not
subscribe to is never subscribed to.

**Sparkplug.** `mqtt` is "off" after a first connect that failed: only a connection that was made is made again (`Reconnect`), the
other comes with the next start of the process (`SparkRestart`). `subscribed` says whether the broker holds the subscription;
every connect asks for it and may be refused (`Subscribes`), and what the broker has from an earlier session it keeps.
What is published before is not for this driver (`unheard`; `started`: since the driver last began to listen).
`sent` is everything published, `wire` the set of what the broker still delivers, the oldest first
(`StartCallback`), `calls` the callbacks at work: each has two critical sections, the alias map (`TieAliases`, births only) and the deltas (`EmitDeltas`).
`Redelivered` repeats what ended after some point and all that had not ended; the process's
restart loses aliases and deltas with it. A reading remembers the metric it was taken `from` and the one it is
stored `to`. Of the histories, `crossed` holds *messages*: data whose callback started while a birth of its node had not tied its
aliases yet, or was overtaken by one, or found the aliases of births that had met each other (`mixed`, which ends with the
next birth that meets none).

**Metallurgy.** `latest[s]` is what `LatestGoodNumericReading` would return: the newest reading by observation time
of the qualities it does not exclude. `Collect` is one query of the fifteen, `Valid` and `Formula` are `Compute` over the
values collected, `Written` one virtual tag through `ingestOne`, `done` the message ids of the
current bucket. `real` is the provenance of a value: FALSE for the zero of a placeholder.

**GatewayStatus, Hub, Live.** `Beat` fixes the status a beat reports; `Accepted`, `Refused`, `Unreachable`, `GivenUp` are
its ends, `late` the requests given up and not yet served. In the hub `readers` are the holders of the read lock,
`left[b]` the clients a broadcast has still to serve; `Register` and `Unregister` need the lock alone, and
a waiting `Unregister` keeps new readers out as Go's `RWMutex` does. `Live` adds the server's restarts, which take
connections, clients and requests with them and leave the `gateways` table. A gateway that stops may leave a beat behind
that is served later (`GatewayStops`).

**Traffic** puts `Live`, `EdgeDelivery` and `WriteBridge` side by side. They share nothing but the two processes, whose restarts every
one of them has as its own action, so a behaviour shows one of them (`shown`) while the others have nothing to do: the run
explores the sum of their states, not the product.

**Access, Profiles, Registry, Administration.** A request is in one of four phases: it is known to `authenticate`,
admitted by `rbac`, and - for handlers that look first and write afterwards - has looked
(`Checked`). Needs is `permissionForRequest`. `GivesUp` stands for every ending that changes nothing further. `life` numbers the
lives of a role id and `excused` holds the tags that were changed in the middle of somebody's decision; both are history.
`ProfilesInit` has two starts: the empty table of capd, whose `seedAll` writes no profile, and the database `EnsureDefaultProfile`
fills, with the baseline active although nobody approved it. In the repository only a test calls that function
(`api/api_test.go:67`), but it is exported for programs, and the rows it leaves behave differently: the baseline
can be activated again for ever.
Conditional statements are one step (`ApproveProfile`, `AssignRole`), a transaction is one step (`DeleteRole`,
`SetActiveProfile`), a count and a later delete are two (`LookAtAsset`, `DeleteAsset`).

## 3. What the runs check

Passing runs (TLC explores the whole state space of the instance):

| run | instance | shows |
|---|---|---|
| `field` | a temperature loop, its alarm, its valve; an operator; one fault | `StateFitsMode`: a row in interlock is in auto with full oil, a row in watchdog is in manual. `AbnormalAnnounced`: a frozen or tripped loop has its alarm, except between the two statements of its tick or after a fault hit them. `InterlockExit`: only an operator or the release ends an interlock. `ManualStays`: once the tick under way knows of a manual output, it stays until an operator or the interlock takes it away; a tick older than the command is the exception, which `control_stale` exhibits. `HotTrips`, `CoolReleases`: protection wins against operators who keep switching, and lets go. `ValveFollowsAuto`: a settled loop moves its valve. |
| `control_ph` | the pH loop, two operators, one fault | `BadPVFreezes` (a critical or stale pH does not stay in automatic), `AlarmClearsInAuto` (the pH alarm goes once the pH is back). |
| `pid` | a level and a pH loop in numbers | `LeavesUpperStopAtOnce`: no windup at the upper stop; `PersistentErrorSaturates`: a lasting error reaches the stop that counteracts it; `BumplessInStep`: a switch to auto that knows the valve's position moves it by at most one P and one I part. |
| `band` | a tag with two boundaries and hysteresis, shelving, one fault | `RowMatchesBelief`, `NoEarlyRaise`, `NoEarlyClear`, `HeldRaises`, `CalmClears`. |
| `comm` | two assets, one fault | `RowMatchesMark`, `SilenceAnnounced`, `RecoveryClears`. |
| `traffic` | one at a time: a gateway with two mishaps; two dashboards, two broadcasters, a channel of one; four messages, one of them bad, batches of two, a server that takes two or only one at once, two overlapping requests, two faults; two actuators, two commands each, two failures | `ConnectedShowsOnline`. `NoSendOnClosed`, `NobodyWaits`. `StoredOnce`, `StoredInOrder`, `StoreAndForward` (implements `Delivery`: no message leaves the queue unless it is stored or rejected). `QueueDrains`: every message leaves the queue, unless the gateway's batches are larger than the server takes and the backlog has outgrown the limit; then nothing moves any more. `SeqOrder`: device, memory, poll and table never disagree about which command is the newer one, and a command is written again only after a failure. `CommandArrives`: the last command reaches the device. |
| `sources` | the four field drivers with two tags, the Sparkplug driver with a node of two metrics, three messages, one break | `WrongTagNeedsDisorder`: a value is stored under another metric only if an alias moved *and* this message crossed a birth or the broker repeated it. `ValuesArrive`: what is published while the driver listens arrives, or falls to the cap, or is data by an alias whose birth the driver has not heard or met on its way - unless the driver never connects (a first connect that fails) or has no subscription (a Subscribe that is refused), which the code does not mend (section 7). `OutageIsMarked`: a polling driver marks a device that stays away. `ReadableArrives`: what stays readable is read. |
| `calc` | seven sources, three plants (one with swapped analysers, one at a standstill), at most one source silent at the start, two readings, one failure | `PlausibleAndMeasured`: recoveries that are written stay below 1.02 / 0.95, and no value stems from the zero of a placeholder. `BalanceReturns`: a lasting consistent balance shows. |
| `access` | two users, two concurrent requests, three groups of them | `NoInheritedGrants`, `OrphansNeedARace`. `ChangeControl`: the plant switches only to a profile somebody approved, or back to the baseline that was shipped as active, and no approval is withdrawn or signed over. |

Three runs find a disagreement (section 7): `field_interlock`, `control_stale` and `control_clamp`. Each checks a sentence of the
repository, and TLC shows the behaviour that breaks it.

## 4. Bounds

- *One loop in `field` and `control_ph`*: loops share only the manager's snapshot and its order; what one
  loop's tick does to another is only the delay it causes, which one loop sees as other actors running
  between `BeginTick` and `Decide`. The theorems hold for any number and kind of loops, the standard ones included.
- *Outputs 0..1 or 0..2 with slew 1*: one or two ticks cross the range, so partial moves occur. `SetLoopOutput` is
  tried with values just outside the range. `control_clamp` takes a range that does not contain the seed, as that of dic401.
- *`MaxFaults`* and *`MaxFailures`* bound failed statements, exchanges, time-outs and restarts (1 or 2): every property that mentions faults
  speaks of the loops, tags or messages they did or did not hit, and two faults let a retry fail again
  where the code retries. The theorems have no bound on it.
- *`Regulator`*: five parts of the range, errors -1, 0, 2 and 3 cover hold, warning and critical zone,
  both signs of push, and pushes smaller and larger than the slew limit. Scheduled and tuned gains reach
  both of their bounds. The theorems hold for every resolution.
- *`WriteBridge`*: `MaxSeq` = 2 gives an older and a newer command for the order property.
- *`BandAlarm`*: the delays 1 and 2 keep the order of the real ones (3 s critical, 10 s others,
  clearing longer than raising a critical one); values 0..3 give a calm one, one inside the hysteresis and one in each band.
- *`EdgeDelivery`*: four messages and batches of two leave a full batch behind the first; two requests are
  the abandoned one and its retry; the server's limit is the batch size or one below it.
- *`Traffic`*: the parts are shown one at a time, because nothing one of them does is read by another (the pulse's wake-up only lets
  the sender flush before its ticker does); the product of their states would show the same behaviours interleaved. The theorems are about each part without this restriction (`LiveSpec`, `Spec`, `BridgeSpec`).
  Deadlock is not checked: bounded messages and commands end.
- *`Sources`*: a node with two layouts, of which the second moves an alias and takes one away, is the least that can
  confuse metrics; `MaxSent` = 3 is a birth, data and a second birth in every order, `Cap` = 2 is exceeded by a
  third reading, `MaxRunning` = 2 lets callbacks overtake each other, `MaxBreaks` = 1 is a reconnect or a restart, the one that may mend a first connect that failed.
  Two tags give a register before and one after the one that fails. Bounded publication ends, so deadlock is not
  checked. Sparkplug reads no registers, so they start in one state for it.
- *`Metallurgy`*: the seven sources of the balance, of its cross-check and of one virtual tag that needs a source
  outside the core; the virtual tags the registry knows are three; `Unheard` starts with at most one source silent;
  `MaxReadings` = 2 lets two sources change in the middle of a `Collect`. `Qualities` are those the drivers of
  `gateway/` send: no driver sends "substituted", which the query would let through (section 7). Bounded readings
  end, so deadlock is not checked.
- *`Live`* (in `traffic`): `MaxMishaps` = 2 gives a lost beat followed by a second one or by a restart of the gateway; restarts of the
  server are not bounded. `Room` = 1 is full after one message, a dashboard may stop reading at any time.
- *`Administration`*: two requests at a time, `Lives` = 2 is one deletion and re-creation of a role, two
  profiles that can be drafted beside the shipped baseline. Requests are offered
  in the groups that share tables (`Desks`): roles and sessions; profiles together with a role that is being changed; assets,
  tags and readings. The theorems hold for any desk.

## 5. Fairness

Weak fairness of what a ticker or the network stack's time-outs drive, and of nothing else:

- the manager's steps (`ControlLoop`, `FieldControl`) and its tick (`Regulator`): one goroutine on a one-second
  ticker, no call in it waits for another actor;
- the bridge: `PollOutput`, `WriteItem`, `Poll`, `Deliver` - a ticker, and exchanges bounded by time-outs;
- `BandAlarm`: time passes, good readings keep coming (the gateway samples on a ticker) and a
  statement is answered; `CommLoss`: time, the sweep's ticker, statements - *not* readings;
- `EdgeDelivery`: the flush ticker, the queue's delete, and the server working off requests it accepted;
- `FieldRead`: the poll loop ticks, an OPC UA server notifies what has changed; `Sparkplug`: the broker delivers, callbacks
  run to their end, the poll loop drains;
- `Metallurgy`: the service's ticker, the steps of a tick, the passing of buckets - *not* readings;
- `GatewayStatus`: the pulse's ticker, beats end one way or the other (a five-second time-out), nothing
  stays in the network for ever, the sender takes its token;
- `Hub`: goroutines that hold the lock run, and a writer that waits for it gets it (Go's `RWMutex` lets no new reader
  pass a waiting writer). `Take`, the reading of a dashboard, is *not* fair.

Operators, requests, faults, restarts, the plant, the field and the acknowledgement of alarms are never assumed to happen.
Faults are bounded, so the liveness properties say what happens once they have stopped; where restarts are not bounded
(`FieldRead`), the property assumes that they end (`Settled`). `Administration` promises no progress and states no fairness.

## 6. Proofs

All theorems hold for every value of the constants that satisfies the assumptions named in the modules. Properties that no
run of section 3 checks (they are defined in the proof modules) were also checked by TLC on the instances of those
runs, together with the strengthened invariants, before they were proved.

**`ControlLoopProofs`**, for every number and kind of loops, every range, any operators and any
number of faults: `TypeCorrect`, `StateFitsModeAlways`, `AbnormalAnnouncedAlways`, `InterlockExitAlways`
and `ManualStaysAlways`. None of these is inductive: what a save does depends
on the copy of the row the tick started from, and operators may have overtaken it. The invariant
`IInv` therefore adds

- `Staged`: the rest of the plan is a stage of a plan this copy of the row can lead to;
- `SnapFits`, `SnapAnnounced`: the copy satisfies what the row satisfied when it was read;
- `Provenance`: a row the manager has still to write and that is not "ok" *is* the copy,
  because only the manager writes abnormal states - this is what makes an old copy harmless;
- `Halfway`: between the two statements of a tick the alarm is where the plan's order puts it.

From it follow, besides the properties of the runs, the safety that the liveness properties rest on.
`TripIsCarriedOutAlways`, `ReleaseIsCarriedOutAlways` and `FreezeIsCarriedOutAlways` stand behind `HotTrips`, `CoolReleases`
and `BadPVFreezes`: a tick that reads such a PV plans the trip, the release or the freeze, and what it has planned it
writes, whatever operators do between its statements, unless a fault hits it. What is left for TLC is that ticks come and
faults end. `FrozenStaysFrozenAlways`: a frozen loop moves again by an operator only; the tick may hand a frozen
*temperature* loop over in manual at its output, or trip it.

`ManualStaysAlways` is the promise of `manager.go:69` as far as the code keeps it: the premise that the tick under way knows of the
manual output (`ManualForAll`) holds again after every step that does not end it, so once it holds, it holds until an operator or the
interlock takes the loop over.

`OutputNearRangeAlways` and `RangeIsKeptAlways` say what the clamp of `control/loop.go` is worth for *any* seed: an output never lies further
outside the range than the seed did, and once it, and the copy a tick works from, are inside, they stay. No hypothesis on the
seeds is needed; dic401, which starts outside (section 7), is covered.

`FieldStateFitsMode`, `FieldAbnormalAnnounced`, `FieldInterlockExit`, `FieldManualStays`, `FieldTripIsCarriedOut`,
`FieldReleaseIsCarriedOut` and `FieldFrozenStaysFrozen` carry this over to `FieldControl`: every step there is one of the loops or leaves rows,
alarms and tick alone (`FieldSteps`). `ValveNearRangeAlways` and `FieldRangeIsKeptAlways` follow an output through a poll to the valve, with
the bounds of the two theorems above.

**`CalculationProofs`, the regulator**, for every range, resolution, design and set of readings: `TypeCorrect` (outputs and
integrals keep their bounds), `UpperStopIsLeftAtOnce`, `KnownPositionIsBumpless`, and
`OutputsAreMovesAlways`, which joins it to the control loops. The argument is about signs: scheduling and tuning keep the sign of the base
gain (`AdjustedSign`, `TunedSign`), the integral stays in its range and a push never turns it
around (`Bounded`); `Seeded` says that integral, output and valve stay equal from a bumpless switch to the
first tick. Assumptions: base gains are multiples of `Unit`, so that scaling is exact (the code
computes in floating point), and P and I gain have the same sign, as in every seeded loop.

**`CalculationProofs`, the metallurgical balance**, for every order of the sources, all readings, qualities, failures and restarts:
`PlausibleAlways` and `PlausibleAndMeasuredAlways`. A snapshot may be torn, so nothing is known of it but that its entries are
usable readings; that it passed `Valid` must suffice. What that leaves is inequalities between products: the concentrate is at
most 102 % of the feed and carries at least 95 % of the metal the feed has beyond the grade of the tails, so that 95 x is at most 102 y for the
grades x of feed and y of concentrate over the tails (`MassesCancel`), and the recovery (y + t) x over (x + t) y stays below 108 % (`RecoveryBound`).
Integer division is bounded by `Quotient`. The
assumption is that analysers deliver no negative flows and grades (`AssaysAssumption`). "Measured" needs the hypothesis
that no gateway sends "substituted", which holds of all drivers of `gateway/` but not of what ingest accepts (section 7).

**`GatewayProofs`, Sparkplug**, for any nodes, metrics, layouts of aliases, cap, callbacks at a time, reconnects and restarts:
`WrongTagNeedsDisorderAlways` and `NothingVanishesAlways`, the safety core of `ValuesArrive`: a published value is at the broker, in
a callback, in place or fallen to the cap, or has one of the excuses named in `Excused`. Data is resolved by the aliases
its callback finds, so the invariant follows the birth they come from: in a node whose births have not met (not `mixed`) one
birth at most waits for the alias map and all later ones are still at the broker (`LatestWaits`), and if none waits, the aliases are
those of one birth and every later one is at the broker (`TiedBy`; together `AliasesInOrder`). Data that crossed no birth and was not
repeated then finds the aliases of its own birth, or none if the driver has not heard that birth (`DataUndisturbed`, `FindsItsOwn`). This
needs that the broker's order is that of publication except for what is repeated (`FreshIsNewest`), that data carries the alias of the
birth before it (`DataFollowsBirth`), and that a driver without a subscription has heard nothing (`NothingHeard`).

**`GatewayProofs`, the polled drivers**, for any number of tags: `OfflineTogetherAlways` (offline is said of all tags at once,
and in subscription mode never) and `OutageShowsSoonAlways`, the safety core of `OutageIsMarked`: no reading is taken from a device that
is away, and a poll with the broken connection drops it, so that the next one marks every tag. The invariant: no connection
is alive while the link is down (`Connected`), and only finite numbers leave a driver (`DriverTypes`).

**`GatewayProofs`, the write bridge**, for any actuators, commands and faults: `BridgeTypes`, `CommandsInOrder` (`SeqOrder`) and
`NeverBackAlways`, the same for every two consecutive states of a register. The strengthening carries along that an item in hand is newer than
the memory (`HeldIsNew`), that a command the memory does not cover was written at most once for every fault
(`WritesNeedFaults`), and that a number names one command in the table, the item and the register (`NumberNames`).

**`BandAlarmProofs`**: `RowMatchesBeliefAlways`, `NoEarlyRaiseAlways`, `NoEarlyClearAlways`. The delays hold because a
condition is never older than the last reading that speaks against it (`Dated`), although the limits it was judged by
change under it; row and belief agree because a pending statement agrees with the belief (`PendingFits`).

**`CommLossProofs`**: `WatchdogTypes`, `RowMatchesMarkAlways`. Readings renew the age while statements are pending, but only a sweep moves
a mark, and a sweep waits for them.

**`EdgeDeliveryProofs`**: `StoredOnceAlways`, `StoredInOrderAlways` and the refinement `ImplementsDelivery`, in three layers,
each inductive with the ones before it: `OnceInv` - a message between insert and evaluation is in the hands of one request
only; `AnswerInv` - the answer the sender waits for will cover its whole batch, with the rejections it names, so that
deleting the batch deletes nothing that is neither stored nor rejected; `OrderInv` - whatever has left the queue, or
the hands of a request, before a message still there has been stored or can be excused. `NothingIsLostAlways` draws the
conclusion from the refinement: every step is one of `Delivery`'s, and none of those loses an accepted message. "Rejected" does not
say that the line in `gateway-rejected.log` was written (`unnoted`): the code ignores that error (section 7).

**`LiveProofs`**: `NoSendOnClosedAlways` and `ClientsKeptWhileServed`, from the lock: a broadcast with somebody to serve holds
it, so none of its clients can have left. `AccountedAlways` is the safety core of `NobodyWaits` - the map is the set of connected
dashboards, the lock is held by running broadcasts only, no channel holds more than `Room` - and
`OfflineHasACauseAlways` that of `ConnectedShowsOnline`. They are about `LiveSpec`, in which pulse and hub run side by side; the
lemma `TrafficShowsItsParts` says that what the run `traffic` explores are behaviours of the specifications the theorems are about.

**`AdministrationProofs`**: `NoInheritedGrantsAlways`, `OrphansNeedARaceAlways` and
`ChangeControlAlways` (from either start of the profiles), for any users, sessions, roles and number of concurrent requests. One lemma says that every step moves
the request of at most one handler, in one of five ways; the invariants about requests in flight follow from it (what
was seen with a session, what a handler has looked for and is still so or has been excused), those about
tables from the handlers that write them.

**Only model-checked.** Every invariant and every action property of the passing runs is proved, and so is the refinement. The liveness
properties are not, since fairness and ENABLED are out of the prover's reach: `HotTrips`, `CoolReleases`,
`ValveFollowsAuto`, `BadPVFreezes`, `AlarmClearsInAuto`, `PersistentErrorSaturates`, `CommandArrives`, `HeldRaises`, `CalmClears`,
`SilenceAnnounced`, `RecoveryClears`, `QueueDrains`, `ValuesArrive`, `OutageIsMarked`, `ReadableArrives`, `BalanceReturns`,
`ConnectedShowsOnline` and `NobodyWaits`. Where a theorem above is called the safety core of one of them, it shows that no step
goes the wrong way, and TLC that the steps are taken.

## 7. Where code and documents disagree

Shown by a run:

- `field_interlock`: the interlock writes full oil into the row, but `ControlOutput`
  (`api/handlers_control.go:336`) marks only loops in state "ok" as automatic and the bridge skips the rest.
  `manager.go:115-117` says the interlock forces the valve open.
- `control_stale`: the tick saves rows it read before the first loop was handled, without a condition (`controlsvc/manager.go:56`,
  `store/control.go:228`): an operator who switches to manual in between is put back to auto, and an output written in between is replaced
  by the old one. `manager.go:69-70` says "output stays where the operator (or the watchdog freeze) put it". `ManualIsKept` is that
  sentence; `ManualStays` (run `field`) is what remains true of it.
- `control_clamp`: the slew window around the previous output comes after the clamp (`control/loop.go:128`), and the dead-band keeps the
  previous output as it is, so that a loop seeded outside its range stores outputs outside it in automatic: dic401 starts at 0
  with a range of 10..90 (`store/control.go:298`). `loop.go:107` says "Output is clamped to [0, 100] percent". `StepClamps` is
  that sentence for the range of the loop.

Met while modelling and kept in the models, without a run of their own.

Control loops and bridge:

- the alarm of a frozen standard loop is never cleared: the tick skips manual loops before it looks at the watchdog
  state (`manager.go:68-73`), and the switch back to auto resets that state (`store/control.go:167`) before the tick can see
  it, so that the branch "Fresh PV: leave the watchdog state behind" (`manager.go:80-87`) is not reached.
  `AlarmClearsInAuto` is about pH loops, which clear their alarm in every settled tick;
- the integral is seeded from the reported position, but the slew window of the first step is around the stored output
  (`control/loop.go:128`), so the first step may move the valve away from where `store/control.go:160-162` says it
  resumes; `BumplessInStep` is about switches where the two agree;
- a freeze whose `RaiseOperational` fails is never announced: the state is "watchdog" already (`manager.go:101-109`);
  `AbnormalAnnounced` excepts loops in `cut`;
- `SetLoopOutput` tests the mode it read earlier and writes unconditionally (`api/handlers_control.go:144-165`);
- with a negative base gain the scheduler's bounds are in the wrong order and every scheduled gain is four times the base
  (`control/adaptive.go:68-99`; all seeded gains are negative); the comment on `DefaultGainFactor` promises 0.5 to 1.5;
- `PHStep` holds the output inside the warning dead-band where its comment says "normal PID step" (`control/ph.go:46`, 67-76);
- without a temperature reading self-tuning computes with 0 degrees (`manager.go:238-247`);
- only the upper stop is left at once: the integral may go down to -50 %, so the lower one is left after the integral has
  climbed back;
- the write bridge may repeat a command after a lost response or a restart, and skips a command that
  was replaced before it polled (`gateway/control.go:141-145`, `store/control.go:345-362`).

Alarms:

- severity and priority of an active alarm are never raised (`store/alarms.go:14-42`, `alarms/engine.go:217`);
- a value that oscillates between two off-normal bands restarts the on-delay each time and need not be announced
  (`engine.go:222-226`); `HeldRaises` is about a value that stays in one band;
- the clear delay also runs while readings are missing (`engine.go:206`), which `NoEarlyClear` allows for;
- after a restart an alarm of a calm tag stays active (`engine.go:196-200`), as does a communication alarm that
  was active (`engine.go:388-392`); after a start every asset counts as lost until it is heard (`engine.go:384`);
- a placeholder reading of a gap counts as a sign of life (`engine.go:139-140`).

Store-and-forward:

- a storage error is answered like a rejection (`api/handlers.go:174-184`, 284) and makes the sender delete a good message,
  which is then only in `gateway-rejected.log` - or nowhere, since a failed open or write of that file is ignored
  (`gateway/run.go:112-121`). `gateway/sender.go:18-19` and `buffer.go:20-21` promise that a message stays buffered on storage errors.
  `StoreAndForward` therefore lets a message leave the queue when it is stored *or an answer has rejected it*;
- `MAX_BATCH` and `INGEST_MAX_BATCH` are configured apart (100 and 500 by default); a gateway whose batches are too large
  gets 400 for the whole batch as soon as it has a backlog, and never sends a smaller one (`gateway/sender.go:86-117`,
  `api/handlers.go:167-171`);
- a reading that was inserted but not evaluated when capd stopped is a duplicate afterwards and never evaluated
  (`api/handlers.go:280-294`); `StoredOnce` bounds evaluations from above only.

Field drivers:

- `handleData` resolves aliases "from the most recent birth" (`gateway/sparkplug.go:406-407`), but callbacks run in any
  order (`SetOrderMatters(false)`, line 279): it is the birth handled last, and data may be handled before its own.
  `WrongTagNeedsDisorder` says when this shows;
- "a broker outage at startup is not fatal, the driver simply yields no deltas until it connects", "will retry"
  (`gateway/sparkplug.go:257-258`, 296): `SetAutoReconnect` restores a connection that was made, `ConnectRetry` is not set, so a first
  connect that fails is the only one until the process starts anew. A `Subscribe` that is refused is logged (288-291) and not repeated before the
  next connection. `ValuesArrive` names both; that they are silent for ever is what the model shows, not an assumption;
- after a restart of the gateway data by alias is dropped until the node's next birth (line 436-442), which nobody asks for;
- a null metric, "recorded as a gap" (line 447-448), records nothing;
- a subscription that cannot be made at start-up is "falling back to poll" (`gateway/opcua.go:75`), and "the first
  poll emits QualityOffline" (41-44); `Poll` in subscription mode only drains notifications (129), so that neither happens;
- `OPCUA_MODE` is read without regard to case at start-up (64) and with it in `Poll` (129);
- one Modbus register that fails ends every poll before the tags after it (`gateway/modbus.go:122-133`): they fall silent, which
  neither `docs/FAQ.md:28` ("offline") nor the alarm engine shows; `ReadableArrives` is about tags before it;
- the messages of one simulated poll share one sequence counter by pointer (`gateway/sensor.go:59-62`);
- an OPC UA value of bad quality may carry no value; ingest accepts that for gap qualities only and answers 422.

Gateways, calculations:

- "the pulse carries the authoritative online/offline state" (`store/gateways.go:24-25`), but a gateway that has stopped stays
  "online" in its row for ever, since nothing on the server looks at `last_seen_at`; the first beat after every start
  reports "offline";
- `docs/Executive_Summary.md:18` promises no fictitious values; the balance is computed from the last good reading
  however old it is (`store/control.go:385-407`), so that a source that has gone away counts with its last value;
- the same query excludes "offline" and "stale" placeholders but not "substituted" ones, which ingest stores as the
  same zero (`api/handlers.go:241-246`); no driver of `gateway/` sends that quality, and the run `calc` leaves it out.

Administration:

- activating a profile leaves the previous one "active" (`store/profiles.go:82-83` says it becomes approved). A profile nobody approved, the
  baseline of `EnsureDefaultProfile`, therefore remains one that can be activated; `ChangeControl` names this exception and is silent on the
  status of a superseded profile;
- `EnsureDefaultProfile` is called by a test only (`api/api_test.go:67`); capd starts without profiles. Both starts are modelled;
- `AssignRole` accepts a role that does not exist, and `UpdateTag` an asset that does not (`store/rbac.go:192`,
  `store/repo.go:505`), where `CreateTag` looks; `NoInheritedGrants` and `OrphansNeedARace` name both exceptions;
- `permissionRequired` (`api/middleware.go:106-129`) has entries for paths with an id of a role, an asset or a tag that
  `normalisePath` leaves as they are, so updating or deleting one needs a session and no permission; `Needs` is what the lookup
  answers (empty for these), and no property claims that those paths are protected;
- audit rows are written after the change and their failure is logged only (`api/audit_helper.go`), where
  `store/audit.go:11-12` says mutations "MUST record one".

## 8. What is not modelled

- *Partly modelled*: the `alarm_journal` and audit tables (append-only, read by nobody in the program); two
  concurrent evaluations of one tag (below); password hashing; the KPIs of the balance that are only displayed; `UpdateAsset`,
  which changes descriptive columns only; schema validation, of which only the verdict counts (`Bad`).
- *Abstracted*: payload decoding of the drivers (the quality of the message and, for Sparkplug, which metric it names); Bond
  energy and circulating load, whose floating-point formulas are uninterpreted in `Metallurgy`; `control` in integers.
- *Out of TLC's reach*: the process model of `plantsim/`, floating-point differential equations; the simulator is
  the environment of the models (`PVChanges`, `PlantMoves`, `RegisterChanges`).
- *Nothing to check*: read-only queries, aggregates, CSV export, configuration parsing, static web assets, command line
  wrappers. Start-up appears as `Init` and the `Restart` actions.
- *Frontend*: views of the HTTP and WebSocket interface; its reconnection is `ComesBack` in `Hub`.
- *Hazards without a property*: an active alarm that gets worse keeps its severity (`store/alarms.go:17`; the code promises
  nothing else); two evaluations of one tag at a time (`alarms/engine.go:160`); a session or
  a role that ends between the middleware's look and the handler (`api/middleware.go:183`: it is modelled, every handler may still run, and
  the code promises nothing else).

## 9. Plan

Done: every component of section 1 has its module, and each safety property of the passing runs its theorem.

Left, in this order:

1. **Two evaluations of one tag** (`alarms/engine.go:160`, `store/alarms.go:14-42`): an abandoned ingest request and its retry
   may evaluate readings of the same tag side by side. Needs a `BandAlarm` whose evaluation is several steps, and whose alarms
   table may hold two rows of a tag.
2. **`BandAlarm` behind `EdgeDelivery`**: the readings of a backlog are evaluated with the clock of their arrival.
3. **More safety cores**: what a tick may do to the alarm of a pH loop (`AlarmClearsInAuto`), what a sweep may do to the
   alarm of an asset that delivers (`RecoveryClears`), what a poll may do to a tag that stays readable (`ReadableArrives`).
4. **Historian aggregates** as pure functions against a reference definition (`store/aggregates.go`).

## 10. How to run

```
tlc -workers 2 -config field.cfg MCFieldControl        # likewise the other runs, see PROJECT.json
tlapm ControlLoopProofs.tla                            # likewise the other *Proofs modules
```

`PROJECT.json` lists components, runs, the map from definitions to source lines, hazards, findings,
theorems and, for each property, a mutation of the model that breaks it.
