# Zigbee host application: TLA+ models, model checking and proofs

This directory is the verification project of the Zigbee host application, a
multi-threaded C program that runs a home alarm on a Raspberry Pi or PC: it
talks to a Zigbee network processor (ZNP) over a serial line, keeps registries
of sensors, buttons and sirens, and decides when the sirens sound. Paths below
are relative to the repository; `znp_host.c:262` is line 262 of
`src/znp_host.c`.

## 1. The system

### Threads and what connects them

| Thread | Code | Takes from | Gives to |
| --- | --- | --- | --- |
| serial reader | `znp_host.c:362-496` | the serial port | `s_srspFrame` (answers), `g_eventQueue` (indications) |
| main: dispatcher and watchdogs | `main.c:774-809` | `g_eventQueue` | device inboxes, registries, offline list, use-case inbox |
| one thread per device type | `contact_sensor.c`, `vibration_sensor.c`, `aqara_button.c`, `onics_button.c`, `aqara_occupancy.c` (two), `aqara_tvoc.c`, `siren.c`, `okos_siren.c` | its inbox | `ZNP_Sreq`, registries, use-case inbox |
| use-case (policy) | `usecase.c:392-402` | the use-case inbox | `ZNP_Sreq` (siren warnings), siren inbox (beeps), contact inbox (reads) |
| command line | `cli.c:787-810` | the terminal | everything: `ZNP_Sreq`, registries, zones |

Four things are shared: the *request transport* (any thread calls `ZNP_Sreq`
and blocks until the reader hands over the answer), the *event queue* (reader
to main), the *inboxes* (`MSG_QUEUE_T`, many producers, one worker) and the
*registries* (`g_contactSensors`, `g_sirens`, ... under the recursive
`g_deviceMutex`, which is never held across a request). Some globals are shared
without a lock: `g_sirenActive`, `g_nextZoneId` and the list of offline devices.

### Components

| Component | State | Operations | What is hard | What makes it correct |
| --- | --- | --- | --- | --- |
| Request transport | three mutexes, the expected command, the last answer | `ZNP_Sreq`, `ZNP_SreqPrio`, hand-over by the reader | late and lost answers, frames without a sequence number, priorities, errors half way | every call returns; an answer has the command asked for; only a timeout lets answers cross |
| Frame parser | parse buffer | scan, checksum, resynchronise | partial reads, overflow, noise | every valid frame is taken once, unaltered and in order; nothing overflows |
| Event queue, reset | ring of 64 frames | push, pop with timeout, clear, `ZNP_SysResetReq` | overflow, clear against arrival, lost wake-ups | bounded FIFO; the reset answer is not thrown away |
| Inboxes | linked list, heap | `MsgQueue_Push`, `_Pop` | recycled cells, lost wake-ups | FIFO, each item once, all handled |
| Use-case policy | `g_sirenActive`, press histories | `UseCase_Handle` | events are handled late and relate state of two other threads | the right alarm, in time, and it ends |
| Sirens | registry, mode, volume, offline flags | broadcast, single command, beep, poll, setup | three threads send warnings, each waiting between two; a siren that rejoined has two entries for a while | flag and sirens agree; beeps leave nothing sounding; settings survive |
| Contact sensors | registry with short and IEEE address, door state and times | discover, IEEE answer, setup, enrol, status, refresh | short addresses change, IEEE comes late, notifications are lost, merges mix what two entries know | one entry per sensor; the believed state becomes the real one |
| Vibration sensors | registry, alarm bits and times | status, auto-clear, setup | two threads change the same bits | events alternate and alarms end |
| Presence sensor | zones, presence, distance; registry with setup schedule, retries, last attempt | report, zone edit, evaluation, re-trigger; discover, delayed setup, retry, rebind | two attributes that arrive separately, operator edits; a schedule kept by two threads for a setup on a third | no missed intrusion; one entry per sensor; setups keep apart and succeed in the end |
| Onics (panic) buttons | registry, the stored alarm | setup, panic mode, rebind, enrol, status | the panic mode resets the button, which clears what was bound; restored by whatever frame comes next | the button works in the end, and its press is heard |
| Aqara buttons | registry, press histories | decode, bind | repeated frames, rejoining | one event per press |
| Dispatcher | query throttle, IEEE cache | announcements, ZDO responses, classification, routing | responses in any order or lost, queries held back for 30 s, descriptors that fit two modules | only a descriptor lets a second module claim a device; every device is known in the end |
| Okos sirens, air quality sensor | registries, melodies, readings | discover, IEEE answer, setup, enrol, report, command | slots that are used again and reset in part; late IEEE answers | an entry is of the device it is kept for |
| Device store | `devices.txt`, IEEE cache | `Device_Save`, `Device_Load` | crash between change and save | what is saved is kept; what is loaded is true |
| Offline watchdog | list of addresses | check, set online, look up | unlocked look-ups while the list changes | the list is exact; silence is noticed |
| Startup | position in the sequence; NV items of the ZNP | probe, factory-new, network start | resets that are late or not confirmed, a stop anywhere | nothing is wiped that should not be; the main loop has a coordinator |
| Command line | none of its own | commands | races with all threads | see the components it acts on |
| ZNP/ZCL command wrappers, logging, build | none | one request each | nothing | not modelled |

`PROJECT.json` lists the hazards behind the fourth column, line by line, with
the properties that cover each, or why none does yet.

## 2. Modules

| Module | Models | Abstract specification | Proofs |
| --- | --- | --- | --- |
| `SreqTransport` | `ZNP_SreqPrio`, `ZNP_Sreq`, the reader's hand-over, an external ZNP and line | `RequestService` | `SreqTransport_proofs` |
| `FrameParser` | the scan of the parse buffer in `ZNP_ReaderThread` | - | `MCReports_proofs` |
| `EventQueue` | the ring buffer with its two users: dispatcher and `ZNP_SysResetReq` | `FrameFifo` | `MCShared_proofs` |
| `MsgQueue` | an inbox: list, heap cells, producers, worker | `Mailbox` | `MCShared_proofs` |
| `SirenAlarm` | who makes the sirens sound: policy, broadcasts, single commands, beeps | - | `SirenAlarm_proofs` |
| `Intrusion` | presence in a zone while its door is open: doors, zones, three threads | - | `Intrusion_proofs` |
| `AqaraSos` | the press sequence of the Aqara buttons | - | `MCTables_proofs` |
| `DoorWatch` | what is known of doors, and how old it is: lost notifications, reads, rejoins and merges, grace window | - | `Intrusion_proofs` |
| `VibrationAlarm` | the alarms of vibration sensors and their timeout | - | `MCReports_proofs` |
| `OfflineWatch` | the list of offline devices, store by store, and unlocked look-ups | - | `MCShared_proofs` |
| `ContactRegistry` | registration, merging, setup, saving and loading of contact sensors | - | `MCTables_proofs` |
| `DeviceRegistry` | registration, merging, setup, settings, saving and loading of Frient sirens, Okos sirens and air-quality sensors | - | `MCDevices_proofs` |
| `PresenceSetup` | registration and merging of presence sensors, the schedule of their setups, retries, cooldown | - | `PresenceSetup_proofs` |
| `OnicsButton` | the registry of the panic buttons and their worker | - | `MCDevices_proofs` |
| `Dispatcher` | `Main_HandleIncomingFrame`: how a device gets into the program; composed with `OnicsButton` | - | `MCDevices_proofs` |
| `Startup` | `main` up to its loop, `ZNP_FactoryNew`, the NV items of the ZNP | - | `MCReports_proofs` |

`Compaction` has the operators by which entries are removed from arrays. `Keep` is
what is left when entries are copied: `ContactRegistry` and `OnicsButton` merge by it,
`ContactRegistry` and `DeviceRegistry` leave entries out when they write the file,
`PresenceSetup` chooses what to post, and `Dispatcher` takes the endpoints in order
(`Entrant`). `Removal` is the loop that moves entries down in place, step by step
(`MoveDown`), and leaves those behind the last as they were: `PresenceSetup` merges by
it, `DeviceRegistry` and `DoorWatch` by its step.

Each `MC<Module>` module defines the values and symmetry sets of the
configuration `MC<Module>.cfg`; `_stale`, `_rejoin` and `_okos` name the
configurations of the three runs that show a disagreement (`MCDeviceRegistry` has
the values of `devices` and of `devices_okos`). Five MC modules check
several modules that have no state in common, each behaviour being about one of
them (`subject`): `MCShared` has `EventQueue`, `MsgQueue` and `OfflineWatch`,
`MCReports` has `FrameParser`, `Startup` and `VibrationAlarm`, `MCIntrusion` has
`Intrusion` and `DoorWatch`,
`MCTables` has `ContactRegistry` and `AqaraSos`, `MCDevices` has `DeviceRegistry` and
what `Dispatcher` keeps safe. `MCDispatcher` has the liveness of `Dispatcher`;
`DeviceProfiles` has the devices that join in both. The fairness of each module is
stated there for its own behaviours, and the assumptions on constants of the
modules that are instantiated are stated there too.

`Dispatcher` EXTENDS `OnicsButton`: the frames of the one and the commands of the
other meet in `air`, the frames on their way. `SirenAlarm`, `Intrusion` and
`AqaraSos` each have the use-case thread with the cases they are about, as its
cases share nothing but `g_sirenActive`.

### Correspondence with the code

`PROJECT.json` ("map") names the lines behind every definition. The rules:

* **Atomic steps.** What the code does in one critical section is one action;
  a step ends where a lock is released, a request is awaited or an unlocked
  variable is shared. `SreqTransport` has a step per mutex operation;
  `OfflineWatch` has one per store, in either order, because the list is read
  without a lock and the compiler may order the stores as it likes.
* **The whole handler.** `RefreshIfStale`, `Discover`, `UpdateIeee` include the
  save and the post they end with (or a step for it, where another thread can
  come between).
* **Waiting.** `pthread_cond_timedwait` is `waiting`/`signalled` with a step for
  the wake-up and one for the timeout; a mutex may be granted to any thread that
  wants it.
* **Time.** Where durations matter (`DoorWatch`, `VibrationAlarm`, `AqaraSos`)
  there is a `Tick` and ages or times in ticks, with small constants in the same
  order as the code's (0.15 s < 3 s < 5 s; 10 s <= 10 s < 30 s). Elsewhere a
  timeout may happen whenever it is waited for.
* **Data.** A frame is its command (and a history number); a door, siren or
  address is a model value; payloads, endpoints, volumes and battery readings
  are left out.
* **History variables** (marked as such) do not influence any action; they exist
  because MT frames carry no request number, or because a property speaks of
  the past.
* **Faults.** Definitions under a `Fault:` comment are wrong variants of the one
  that follows. Nothing uses them; the checks replace the right definition by
  one of them to show that a property can fail.

### Per module

**SreqTransport.** `pc` is the position in `ZNP_SreqPrio`; `gate`, `sreq` hold
the two long-held mutexes (`s_srspMutex` protects single steps and needs no
variable); `expected`, `received`, `srspFrame` are the globals of the same
names. The ZNP answers in order; requests and answers may be lost; the reader
may exit for good (`znp_host.c:376-409`). An answer of the wrong command is
ignored, of the right command taken whoever asked for it.

**FrameParser.** `stream` is what comes down the line in the end, `nread` how
much of it was read; both are arbitrary, so that reads are divided in every
way. `parseBuf` holds the first `parseLen` bytes of the array, `idx` is the scan;
each turn of the loop is a step. A frame and its checksum are as in the code,
but the start byte and the checksum function are constants. What becomes of a
frame that is handed on (`taken`) is in `SreqTransport` and `EventQueue`.

**EventQueue.** `head`, `tail`, `count`, `frames` as in the code. The main
thread is either in the dispatcher loop or in one of the three stages of
`ZNP_SysResetReq`. A `Pop` that timed out returns false without looking again.

**MsgQueue.** Heap cells are explicit, so that a freed cell is reused by the
next producer while others are half way through a push; `malloc` may fail.

**SirenAlarm.** The use-case thread and the CLI thread broadcast (`pc`, `order`,
`todo`), the siren thread beeps (`phase`, `left`, `round`, `beepTodo`).
`g_sirenActive` is written before anything is sent. A warning may be lost
without anybody noticing, and a siren may fall silent by itself at any time.

**Intrusion.** Contact, occupancy, CLI and use-case thread with their inboxes.
`EvaluatePresenceLogic` is a critical section of its own, after the one that
stored the attribute; door status and its event are two steps. The order in
which several zones are posted by one evaluation is fixed but arbitrary. `band` is what lies
between `minCm` and `maxCm`: `SetZone` adds a zone or gives one, occupied or not, a new
band, and evaluates the zones. Sensors do not rejoin here and times are left out, so
that a door counts as open when `isOpen` is set; the grace window is in `DoorWatch`.

**AqaraSos.** Presses are time-stamped when handled; `inbox` holds them with
the time they happened at. The 32 entries of `s_aqaraHistory` are `MaxHistory`.

**DoorWatch.** `slots`, `num` are `g_contactSensors` and its count. Sensors join with
one of several short addresses; the entries of the old and the new one are merged
(`Merged`, entry by entry as in `ContactSensor_UpdateIeee`) when the IEEE address arrives.
The merge takes over `isOpen` and `lastOpenedTime` (`TakeOver`) but not
`lastStatusTime`; a slot that is used again (`Register`) keeps all times. Times are ages,
capped where nothing depends on them; `merged` is history. A setup is one step, that may
never come; its steps, and the zone ids, are in `ContactRegistry`.

**VibrationAlarm.** `on` is `isMoving`, `isVibrating`, `isTampered`. `PollAll`
reads the clock before it takes the lock; `lag` is how old that reading is. What a
handler or a poll announces is posted in the order in which the code looks at the
alarms (`StatusOrder`, `PollOrder`).

**OfflineWatch.** `list`, `num` are `s_offlineDevices`, `s_numOfflineDevices`;
`pending` are the stores of a change that are not visible yet. A look-up reads
the bound and every entry in separate steps. A message of a listed device (`HearFrom`)
renews its `lastSeen`; an announcement (`Announce`) takes it from the list and does not,
so that the next check may list it again; a descriptor (`Discover`) renews it alone.

**ContactRegistry.** Sensors join with one of several short addresses; the
coordinator announces them, learns IEEE addresses and caches them. An address
is never given to a second sensor; pending setups of one address are merged;
`isOpen` and `lastOpenedTime`, which a merge takes over too, are in `DoorWatch`; only this registry's own saves are modelled
(saves by others can only make the file newer); a setup succeeds when the
coordinator accepts both requests, as in the code; a zone id is a number up to
`MaxZone`, the 8-bit retry counter wraps at `RetryWrap`.

**DeviceRegistry.** `kind` says which of the three registries a behaviour is about:
they share the array, the merge and the save, and differ in what a new entry
resets (`NewEntry`), what a known one is given (`Refresh`), what a merge takes over
(`TakeOver`) and when a device counts as configured (`SetupBegins`, `SetupEnds`).
Entries behind the last keep what was in them. `volume` stands for the settings of a
siren that a merge takes over (volume and mode of a Frient siren, volume and tone of an
Okos siren); the strobe mode of an Okos siren, which no merge takes over, is left out
(section 5). `wanted` follows the volume that was set last; it is `NoVolume`, no
expectation, when it was set while the siren had several entries, or when a merge
could not tell which of them is the newest (it can, `MergeIsClear`, when the IEEE
address came for the newest, and either the oldest stays or all others are removed). Nothing is said of the time at which
frames arrive: any of an address that the device has used may come late.

**PresenceSetup.** `slots`, `num` are `g_aqaraOccupancies` and its count; entries
behind the last keep what was in them, since a new entry inherits it. `sched` and
`last` are the two time stamps of an entry as ticks. The dispatcher discovers,
the poll thread posts, the occupancy thread sets up (`setting`); the messages of
one address in `inbox` are merged. What a poll collects under the lock and posts
afterwards is one step, as a message may wait for any time. A setup is one step
at each end, because all it shares with other threads is the entry.

**OnicsButton, Dispatcher.** `device` is the one device in the network, of any
profile: its descriptors by endpoint, those that its panic mode unlocks, the
model it reports. One of the profiles (`MagnetSwitch`) is claimed by two modules. `air` has the frames to the dispatcher; responses are put
there when the query is sent, and may be moved to the end (late) or lost. `asked`
is the query throttle: never, within the last 30 s, before that. `job` are the
commands the worker has left to send for the message it took; each is a step.
Of the other workers `known` has the addresses in their registries. The effects
of commands on a panic button (`Effect`) follow the comments of
`onics_button.c`. `MovesEarly` allows a new address before the button works; it is
FALSE in the run (section 5).

**Startup.** `pc` is the position in `main` and `ZNP_FactoryNew`. Every request is
answered, carried out without an answer, or lost (`Outcomes`); a reset may be
carried out after `ZNP_SysResetReq` gave up. `wipeFlag`, `items` and `net` are the
non-volatile memory of the ZNP and survive a stop, which may come between any two
steps. After the network is up, registration, callbacks, policies and install
codes are requests whose outcomes are ignored, and one step. `EventQueue` has the
ring and the waiting that `events` and `TakeWhileWaiting` abstract from.

## 3. What the runs check

There are nine passing runs; three more (`violation`) show a behaviour of the code
that contradicts a comment (section 5). Properties that belong together are
conjuncts of one definition (`SirenInv`, `IntrusionInv`, `StartupInv`, ...).

| Run | Questions | Bounds, and why they are enough |
| --- | --- | --- |
| `transport` | Do answers cross, and when? Does every call return? Is `RequestService` implemented? | two threads, three calls, two commands: a thread calls again while the late answer of its first call is on the line, and a siren warning meets a normal request at every step of it. The proofs cover any number of threads and calls. |
| `reports`: serial line | Is a frame skipped or altered, does the buffer overflow? | three frames, of which one has any byte removed or replaced; payload and command bytes that look like a start; reads of one to three bytes; a buffer just as large as the proof needs. The proof covers every stream and every size. |
| `shared`: event queue | FIFO, no lost wake-up, no lost reset answer, resets end | a ring of three: full, empty and wrapped at every offset; no bound on the number of pushes or resets |
| `shared`: inbox | List, heap and FIFO; is every item handled? | four items, three cells: the list has length three, and cells are reused |
| `shared`: offline list | Is the list exact, is a look-up right, is silence noticed? | a list of two for three devices, so that it overflows; no bound on the changes, one look-up |
| `siren_alarm` | Do flag and sirens agree? Are chirps stopped? Do broadcasts and beeps end? | two sirens, two events, one operator command: a broadcast in the middle of a beep and a command in the middle of both |
| `intrusion`: presence and doors | Is an intrusion ever missed? Are doors known? | two doors (one of a zone, one of none), two zones that may overlap, two door moves, two reports, one zone order (a new zone, another band, a deletion), one read: a door event and a zone event cross in both orders |
| `intrusion`: age of a door's state | When does the grace window decide? Is the door known in the end, whatever is lost or merged? | one sensor with two addresses and two entries, two moves, one loss, two reads or reports on their way: a door opens and closes under two addresses, whose entries are merged before or after its reports. Announcements of a sensor that is registered change nothing the properties speak of except the time at which its IEEE address is known; they are off (`LateAnnounces`). The proof covers any number of each, and late announcements |
| `tables`: Aqara buttons | When are three presses an alarm? | three buttons for two entries, two presses waiting, handled up to a tick late, seven ticks: an interrupted sequence followed by a full one |
| `reports`: vibration sensors | Do events follow the alarms, and do alarms and sirens end? | two sensors, two reports, one tick of lag: both alarms of one sensor, one each of two, or a repetition while the main loop polls |
| `tables`: contact sensors | One entry per sensor? Does configured mean set up or loaded? Do file and registry agree? Is what was saved kept? | two sensors, one of them with two addresses; two entries; one restart. The proof covers any number of each |
| `joining` | Is every device known in the end? Does a panic button work, and is its press heard? | a panic button, one of five other kinds that the classification tells apart, or one that two modules claim; two entries, two cached addresses, one place in the query table; two messages waiting for the worker; one mishap: a frame or a command lost, a frame late, or a new address |
| `presence` | One entry per sensor? Do setups keep apart, and does the sensor get configured? | one sensor with two addresses and two entries; two failures for two retries, two discoveries, one operator command; settling takes one tick and the cooldown two, in the order of the code's times |
| `devices`: registries | Is an entry of the device it is kept for, whatever its slot held before? Does configured mean set up? Do file and registry agree? Does a volume survive rejoining? | two devices, one of them with two addresses, two entries, two volumes, one restart, for each of three kinds: a merge frees a slot that the other device is given, while a setup, a save or a command is under way. The proof covers any number of each |
| `devices`: joining | Which modules may have a device, and when may a second one? Has a panic button one entry for an address, whatever is lost or late? | as `joining`, but for one message waiting for the worker; the device that two modules claim has one of them by its model and the other by its second endpoint. The proof covers any profiles, entries, messages and mishaps |
| `reports`: startup | Is there a coordinator when the main loop begins? Is it a new one after `-f`? Is anything wiped that should not be? | three starts: one stopped within the wipe, the ordinary one after it that suffers from it, and one more |
| `transport_stale` | Is a stale answer ignored? (no) | two calls |
| `registry_rejoin` | Is a sensor that rejoined set up again? (no) | one sensor with two addresses, no restart |
| `devices_okos` | Does configured mean set up for Okos sirens? (no) | as `devices` |

Deadlock checking is off (`CHECK_DEADLOCK FALSE`) where a bounded counter or a
finite input ends every behaviour: calls, items, bytes, door moves, zone numbers,
starts, mishaps, discoveries. The program itself never stops. It is on for
`siren_alarm`.

**Fairness.** Weak fairness of a thread's steps says that a thread that can run
does: the operating system schedules all threads and no priority is set. In
`Startup` the ZNP carries out what reached it, since without it nothing could be
said of any start; that it answers, or reports, is not assumed. In `Dispatcher`
frames in flight are handled and the panic button resets after its panic mode was
written (both external and both what the code relies on), time passes, and a
device goes on reporting. Otherwise nothing is assumed of the ZNP, the line, the
devices, the operator or of a mutex. Strong fairness is used four times, each for
something that can happen again and again: the deadline test of
`ZNP_SysResetReq` (`ResetGivesUp`), presence in a zone that recurs
(`RefreshIfStale`; an assumption on the inhabitants, without which a lost
notification is never corrected), the 60 s check of the main loop (`CheckBegins`)
and the IEEE address of a presence sensor that is asked for it over and over
(`PresenceSetup`; without it a sensor that never answers is never set up).

## 4. What is proved

TLAPS proves for every value of the constants that satisfies the named assumptions,
among them the bounds (any number of calls, moves, starts, restarts):

* **`SreqTransport_proofs`.** `TransportInv` is inductive. Type correctness and
  the three properties of the runs are not inductive by themselves: that an
  answer has its caller's command needs `ExpectationInv` (whoever wrote a
  request still owns the expectation), which needs `MutexInv` (who owns
  `s_sreqMutex` follows from the positions of the threads); that nothing
  crosses without a timeout needs `InStepInv` (the line carries only the one
  exchange that is awaited). Theorems: `TypeCorrect`, `CommandsMatch`,
  `NoCrossingWithoutTimeout`, `OneNormalCompetitor`, and `ImplementsService`,
  the refinement of `RequestService`; `GateSound` joins the type with the gate.
  `LateAnswers` bounds what is left on the line by the timeouts. It counts:
  calls have numbers of their own (`CallIdsInv`), a frame of a call is on the
  line at most once (`LineIdsInv`), and the late frames, with the stale answer
  that a caller may have in hand, are no more than the calls given up (`LateInv`).
  Assumption: `TransportAssumption`
  (the high-priority command is a command, `NoCmd` and `Nobody` are none).
* **`MCShared_proofs`.** `MailSafety` and `MailImplementsMailbox`, for any producers,
  items and heap cells: `MailInv` says where every cell is (in the list, with a
  producer, with the worker, free), so that a freed cell which is reused is not
  mistaken for the old one; it is inductive once it is known that a producer's
  cell holds an item (`FilledInv`). Each step of the list is then a step of
  `Mailbox` or none. `WatchSafety`, for any devices, readers and length of the
  list: the stores of a change may become visible in any order, so the invariant
  relates the list to the stores that are pending (`ChangeInv`), and what a look-up
  has seen to the list it is still reading (`LookInv`).
  `EventQueue`, for every capacity: `TypeCorrect`, `RingWellFormed`
  (with the arithmetic of the wrap-around in lemmas), `NoLostWakeup`,
  `ResetAnswerKept` (the invariant says in addition where the answer is, and
  that it cannot be in the queue before the ZNP booted) and `ImplementsFifo`,
  the refinement of `FrameFifo`; `QueueSound` joins the type with the ring.
  Assumption: `QueueAssumption`.
* **`SirenAlarm_proofs`.** `SirenSafety`, for any sirens: that the flag tells what the
  sirens do between two broadcasts needs what is true within one: the flag is
  what is being sent (`FlagIsOrder`), and a siren obeys it or is still to come
  (`SendInv`). That no chirp outlives its beep needs `ChirpInv`: a siren that
  chirps is in the round being played or still to be stopped; and `OrderInv`, that
  nothing but a beep chirps.
* **`Intrusion_proofs`.** `IntrusionSafety`, for any finite sets of doors and zones:
  `DoorsInStep` compares a door with the last message about it; `OwedInv` says
  for each intrusion what is on its way that will sound its alarm: the event of a
  door, the zone's own event, or the evaluation that will leave the zone. It rests
  on `OccupiedInv` (an occupied zone is active, and somebody is present or the zones
  are about to be evaluated) and `AtHandInv` (what the use-case thread reads the doors
  for). `DoorSafety`, for any sensors, addresses, slots, limits and times and with late
  announcements: the grace window decides only for an entry that took over its opening in
  a merge and has stored no report since. The invariant (`DatedSlot`) says of every slot,
  in use or not, that its opening is no younger than its status unless it was merged; a
  slot that is used again inherits both times, so that it has to hold behind the last
  entry, too. The rounds of a merge are followed one by one (`MergeRound`), as each moves
  the entries down and takes over from one of them. Assumption: `DoorAssumption`.
* **`MCReports_proofs`.** `StartupSafety` and `WipesAreAskedFor`, for any number of
  starts stopped anywhere: that the main loop has a coordinator needs the state
  9 it waited for to be of this start (`NineInv`), and no reset to be on its
  way when the network comes up (`ResetInv`); that a confirmed wipe is a wipe needs the
  reset indication to be no older than the reset (`IndicationInv`, `FreshInv`);
  `FlagInv` says who may have left the wipe flag set, `CleanInv` how far a
  sequence is in which nothing was lost. `AlarmSafety`, for any number of vibration
  sensors and any timeout: per alarm, what was told and the events that wait
  alternate and end in the stored state (`AlternateInv`), and the sirens sound only
  while a timed alarm is told (`SoundInv`).
  `ParserSound` (`FrameParser`): whatever comes down the line and however
  it is divided into reads, less than a frame is kept between reads, so that the
  overflow protection never acts; every valid frame in what was scanned was
  handed on, unless it begins inside one that was; and what was handed on are
  frames of the stream, unaltered, in order and apart. `ParserInv` alone is not
  inductive: one has to know that the buffer is a window of the stream
  (`Window`), and what the scan sees in it (`SeenIsSent`) follows from that.
  Assumption: `ParserAssumption`, of which the only part with content is that
  `parseBuf` has room for a read and a frame (1024 >= 256 + 260 - 1).
* **`MCTables_proofs`.** `SosSafety` and `AlarmsAreThreePresses`, for any buttons,
  table and times with debounce <= window <= gap: how many presses wait
  follows from the intervals between the last four that counted (`Remembered`).
  `RegistrySafety` and `SavedSensorsAreKept`, for any sensors, addresses, capacity
  and restarts: entries have the IEEE address of the sensor their short address
  was given to, known sensors have one entry, every sensor of the file has one
  (`SoundRegistry`), and the same of the file, also of one that is cut off
  (`SoundFile`). Both are stated of arrays, and lemmas say that changing,
  appending and removing entries, writing and loading keep them; for removing,
  that the entries kept by `Keep` are in their order and each once
  (`KeepProperties`).
* **`MCDevices_proofs`.** `DeviceSafety` and `SettingSafety`, for any devices, addresses,
  slots, volumes and restarts, and each of the three kinds. `SoundSlots` says of the
  array which of its entries agree with the device their address was given to, with the
  exceptions that an inherited slot makes; it speaks of the entries in use only, so
  that what a merge leaves behind matters where a new entry takes it over. A merge moves
  entries down one by one while it reads the array: `Removal` describes what it ends
  with, and lemmas say that the rest of the entries is there, in order. The volume needs
  `SoundWanted`: it is the *oldest* entry of a siren that has it, as a merge takes the
  settings of the oldest, and a siren without an entry is expected to have the default.
  `SoundFile` says the same of the lines of a file, also of one that is cut off.
  `JoinSafety`, for any devices, losses, delays, entries and messages: a module has a
  device only if a descriptor, the model or the endpoint of the device leads to it
  (`Candidates`); and while one module has it, only a descriptor lets another one claim it,
  not the model or endpoint of a message (`SecondClaimIsDescribed`). Both need the frames
  in flight to be of endpoints the device has (`NetworkTypes`). Devices that two modules claim are included: the theorem does not say
  that one module has a device, as the code does not ensure it (section 5). Of the
  profiles it takes for granted only `ProfilesAreDevices`: descriptors have endpoints
  from 1 to 240, and a device reports from one of its endpoints.
* **`PresenceSetup_proofs`.** `SetupSafety` and `SetupsApart`, for any sensors, addresses,
  slots, retries and times. `SoundTable` holds always: an entry has the IEEE address of
  its sensor or none, and the sensor of one that counts as configured was bound. What concerns time holds
  until an address is registered without its IEEE address (`anonymous`): `InTime` says
  that a sensor then has one entry, which remembers its last setup, that an entry whose
  schedule is over belongs to a sensor that had its time to settle, and that the inbox
  has addresses of such sensors, of those posted early, or of configured ones, for which
  a setup does nothing.

Those of `FrameParser`, `EventQueue` and `DeviceRegistry` are theorems of their own
specifications; the other theorems of the four modules `MC..._proofs`, and `DoorSafety`,
are about `MCSpec`, each behaviour of which is about one module. The inductive invariants were checked by TLC on
the instances of the runs before they were proved.

A proof also found an error of the model. `SettingIsKept` used to hold in the run and was
not provable: with three addresses of one siren and three slots, a merge leaves an entry
in the middle that has no IEEE address yet, and a later merge may take over its default
volume. Two addresses cannot show it. `MergeIsClear` now says for which merges the
property speaks.

Only model-checked:

* All liveness properties (`CallsReturn` with `PresentAnswerIsReturned`, `ResetReturns`,
  `EventuallyWorks`, `PanicIsHeard` and so on), which need fairness and `ENABLED`. Every
  invariant and every action property of the passing runs, and each of the three
  refinements, is a theorem.

## 5. Where the code and its documents disagree

Three of these are violation runs, and `PROJECT.json` ("findings") quotes the
sentence. The others were met while modelling; a few are surprises that no document
speaks of. Where a property is named, it is
defined in the last section of the module; no run checks it, and TLC finds a
counterexample when it is added to the module's configuration.

| Module | Property | What the code does, and what it disagrees with |
| --- | --- | --- |
| `SreqTransport` | `StaleAnswerIsIgnored` (run `transport_stale`) | the late answer of a request is given to the next request with the same command (`znp_host.c:457`; comment `znp_host.c:292-294`) |
| `ContactRegistry` | `RejoinedIsSetUpAgain` (run `registry_rejoin`) | a sensor that rejoined takes over `configured` from its old entry (`contact_sensor.c:281`; comment `contact_sensor.c:233-236`) |
| `ContactRegistry` | `NoPhantoms` | two entries with one address (`contact_sensor.c:187`; comment `:182-185`) |
| `ContactRegistry` | `ConfiguredIsVerified` | after a restart every sensor counts as set up (`main.c:405`; `contact_sensor.h:21`) |
| `ContactRegistry` | `NextFrameRetriggers` | after five failures no frame retriggers the setup (`contact_sensor.c:496`; comment `:347-348`) |
| `SirenAlarm` | `SoundingIsFlagged`, `ToggleFlips` | `g_sirenActive` records the last order and not what sounds (`siren.c:524`; `znp_host.h:84`, `usecase.h:22`) |
| `SirenAlarm` | `AlarmSurvivesBeep` | a door beep ends an alarm (`siren.c:634`; `QA_TEST_MATRIX.md:40`) |
| `SirenAlarm` | - | the panic button sounds mode 6 and not the mode that is set (`usecase.c:239`; `QA_TEST_MATRIX.md:126`) |
| `Intrusion` | `RefreshedDoorCounts` | a door found open by a read announces nothing (`contact_sensor.c:67`; `QA_TEST_MATRIX.md:92`) |
| `Intrusion` | - | the door is read when the event is handled, so somebody who left the zone before its door opened can sound the alarm (`usecase.c:255`; `QA_TEST_MATRIX.md:91`) |
| `AqaraSos` | `FastTripleSounds` | a press before it spoils a fast triple (`usecase.c:200`; `QA_TEST_MATRIX.md:12`) |
| `AqaraSos` | `AnyButtonStops` | the table of button histories never shrinks; a button without an entry does nothing (`usecase.c:116`; `QA_TEST_MATRIX.md:10`) |
| `AqaraSos` | - | presses are timed when handled: distinct ones that waited are dropped, slow ones that waited sound the alarm (`usecase.c:145`, `:180`; comment `:146-148`, `QA_TEST_MATRIX.md:13`) |
| `DoorWatch` | `OpenedRecentlyCounts` | the grace window does not apply to a door that was reported closed, however recently it opened: the report dates the status no earlier than any opening (`contact_sensor.c:408`, `usecase.c:47`; comment `usecase.c:30-35`) |
| `DoorWatch` | `ClosedDoorGetsNoGrace` | and it does apply to a closed door after a merge, which takes over `isOpen` and `lastOpenedTime` but leaves `lastStatusTime` as it was (`contact_sensor.c:282-283`; comment `usecase.c:38-41`) |
| `DoorWatch` | `MergeKeepsNews` | a merge overwrites what was just reported under the new address with what was last known under the old one (`contact_sensor.c:282`; comment `:182-185`) |
| `DoorWatch` | `NoDoorStaysStale` | a sensor that is not configured, as after a setup that was given up, is never read (`contact_sensor.c:541`; comment `:104-106`) |
| `VibrationAlarm` | `SoundingWhileDetected` | the end of one alarm silences another (`usecase.c:355`; `QA_TEST_MATRIX.md:41`) |
| `OfflineWatch` | `SensorsAreNeverFlagged` | event-driven sensors are flagged after two hours (`main.c:928`; comment `:883-886`) |
| `OfflineWatch` | - | an unlocked look-up misses a siren that is listed all the time, when its entry moves behind the reader (`main.c:872`; `README.md:158`) |
| `Startup` | `ClearedWhenConfirmed` | FN-3 takes the wipe flag back also when no reset was confirmed, so a late one does not wipe (`znp_host.c:754`; comment `znp_host.c:725-728`) |
| `Startup` | - | the install-code policy that is announced as strict is switched off (`main.c:708`; `:707`, `:709`) |
| `Dispatcher` | - | any endpoint with cluster 0x0012 belongs to an Onics button, so that the newer Aqara buttons, whose setup binds this cluster, are registered as one (`main.c:1327`; comment `aqara_button.c:353`) |
| `Dispatcher` | `OneOwner`, `HandlerIsKept` | a device whose descriptors lead to two modules is registered by both, and its messages pass to the one that is asked first (`main.c:1360-1395`, `:1547-1587`) (no document speaks of such a device) |
| `Dispatcher` | `EventuallyWorks` with `MovesEarly = TRUE` | a button that gets another address before its IEEE address is known leaves an entry behind that no merge finds |
| `DeviceRegistry` | `OkosConfiguredIsSent` (run `devices_okos`) | a new Okos siren in a slot that was used before keeps the old `configured`, and is never set up (`okos_siren.c:295`; `okos_siren.h:103`) |
| `DeviceRegistry` | `PollsReachSirens` | the addresses of sirens that are not configured are left unwritten in a local array, and polled (`siren.c:712`; `siren.h:151`) |
| `DeviceRegistry` | `IeeeIsOwn` without its exception | a new air-quality sensor in a slot that was used before keeps the old IEEE address until its own arrives, and may be bound with it (`aqara_tvoc.c:229`) |
| `DeviceRegistry` | - | an IEEE answer for the address that a siren had before makes the old entry the one that stays, with the settings of the new one, and the siren is no longer reached (`siren.c:280`; comment `siren.c:278-279`) |
| `DeviceRegistry` | - | a merge of two entries of an Okos siren does not take over its strobe mode, which is what it is by default in the new entry (`okos_siren.c:328-331`, which takes over the volume and the tone; no document speaks of it) |
| `DeviceRegistry` | - | `rebind` posts a setup to Okos sirens, but finds none, as it does not look for them (`cli.c:708-742`) |
| `OfflineWatch` | - | an announcement clears the flag of a device without a new `lastSeen`, so that the next check may flag it again (`main.c:997`, `:1179`) |
| `OfflineWatch` | - | Okos sirens are flagged after two hours, not after five minutes (`main.c:921`; `OKOS_SIREN_FEATURES.md:41`) |
| `PresenceSetup` | `SetupsAlwaysApart` | the cooldown is kept in the entry, so an address whose IEEE address is not cached starts without one (`aqara_occupancy.c:653`; comment `aqara_occupancy.c:647-651`) |
| `PresenceSetup` | - | sensors of `devices.txt` count as configured, so that none is configured at startup (`main.c:389`; comment `aqara_occupancy.c:274`); a new entry takes over the retries of the entry that had its slot |
| `ContactRegistry` | `SavedIsKept` without its exception | the file is truncated before it is rewritten, so that a crash in a save loses sensors (`main.c:148`) |

Two more consequences of what is modelled, for the reader of the runs' properties:
`PanicIsHeard` and `EventuallyWorks` except behaviours in which a frame or command
was lost, because the code tries the commands once and posts only a change of the
alarm: after a lost release the next press of a panic button is silent, and a lost
activation is not repeated. And `FactoryNewIsNew` promises a new network only when
the reset was confirmed; otherwise the sequence proceeds with what is there.

## 6. Not modelled, and the plan

There is nothing to check about request layouts, ZCL payload decoding that only
prints, logging and the build. Of the rest:

* **Okos sirens, air quality sensor.** How they are recognised is in `Dispatcher`,
  their registries are in `DeviceRegistry`. What remains is decoding, printing and
  single requests on behalf of the operator.
* **Registries of the vibration sensors and Aqara buttons** repeat
  `ContactRegistry` with other constants (which list, which clusters are bound).
  `Dispatcher` keeps them as sets of addresses.
* **`g_nextZoneId`** is incremented by five threads without a lock and starts at 1
  after every restart; `ContactRegistry` has the zone ids of its own thread only.
  That ids repeat after a restart needs no search.
* **Keepalive** of the presence sensors (`aqara_occupancy.c:342-393`): it sends two
  requests for every entry and keeps no state.
* **`Siren_PollAll`** on the dispatcher thread: what it sends to is in
  `DeviceRegistry`; what matters besides is how long it takes against how fast frames come, which needs real time. `EventQueue` allows the
  main thread to be slow, and the queue to overflow, for any reason.
* **The tamper bit, light level, readings**: stored and printed, or sent with the next
  request, without another thread depending on them.
* **The environment read** of an air-quality sensor keeps an index over the three seconds it
  waits (`aqara_tvoc.c:406`), so that it may print the readings of another sensor after a
  merge; nothing is stored.
* **`Device_Save`** is modelled for contact sensors, sirens and air-quality sensors, with
  a crash in the middle of it; the sections of other devices have the same form.

What would come next: a run in which the table of presence sensors is full; two devices
joining at once, whose frames share the throttle and the inboxes; the liveness arguments
written out for any values, once a prover handles fairness.

## 7. Running

    tlc -workers 2 -config MCSreqTransport.cfg MCSreqTransport
    tlapm SreqTransport_proofs.tla

All runs take about fifteen minutes together, the longest (`shared`, `tables`) two
to four each; each proof module takes one to five minutes.
