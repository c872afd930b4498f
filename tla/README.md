# A TLA+ development of DuckEgg

DuckEgg is the software of a small biped robot: a set of Rust daemons that run on
its board (`src/microduck`), and a Python training project (`src/microduck_rl`).
This directory models what is hardest to test in it: the update engine, which moves a
robot from one release to another and has to bring it back when that was wrong, with the
recovery scripts beside it, its server and scheduler and the restarts it owes; the
control loop, which decides in every tick who owns the motors; and the daemons between a
person and the robot - Bluetooth, the gamepad, its pairing, Wi-Fi, the configuration
file, and ducks that sing together.

Paths below are relative to `src/microduck` unless they say otherwise.

## The system

| part | state it keeps | operations | who talks to it | what is hard | what makes it correct |
|---|---|---|---|---|---|
| **update engine** `updater/src/{engine,store,journal,fsutil}.rs` | `releases/<v>/`, the `current` and `golden` links, `pending.json` (boot counter), the update log, a lock file | apply, rollback, reset to golden, select, recover on start, pin | `updaterd`'s IPC, its scheduler, `updaterd install`; hooks; the daemons it restarts, whose health it asks | kills and I/O errors between any two durable steps; boots that count; trials that overlap | a release goes live only on record, every trial gets a verdict, golden and the live directory survive, recovery ends |
| **boot recovery net** `scripts/robot-boot-check`, `scripts/robot-rescue`, the timer | the breadcrumb | rescue by timer, rescue at a console | the disk it shares with the engine, without its lock; `systemd` | power cuts inside the script; a serving `updaterd` beside it | one rescue per dead release, a rescue sticks, a dead release is left |
| **updaterd around the engine** `updater/src/{main,ipc,reconcile,spawn,verify,manifest,hooks,preflight,orphan,robot,config,transcript,faults}.rs` | who holds the engine, the newest progress note, subscribers, the scheduler's candidate, deferred restart timers | serve, status, apply, subscribe, check, auto-apply, restart and reconcile units | `btd`, `robotctl`, `robotd` (health, `safeToRestart`), GitHub | check and apply on two candidates; clients that do not read; lagging subscribers; a unit that runs the old release | an operation ends and status is answered whatever a client does; every unit ends on the active release; a bad release is not installed again unattended |
| **robotd control loop and intents** `robotd/src/{main,intents,control}.rs` | `Bringup`, `mode_change`, `shutdown_sit`, `LimpFall`, the controller's moves, the intent slots | enable, init, relax, do, setMode, shutdown; the tick | `btd`, `padd`, `mediad`, `robotctl` over a socket; `duck-control` underneath | clients store intents between the steps of a tick; torque writes that fail half way | nobody is raised unasked, let go stays let go, motion is published, every sequence ends |
| **duck-control** `duck-control/src` | fall verdict, deadman, bus, observation history | read, gate, apply, infer | the control loop | floating point; debounces | no stale twist walks the robot |
| **chorale** `robotd/src/chorale.rs`, `sounds/src/chorale/beat.rs` | mode, peers, roster, the conductor's clock or the follower's fit of it | beacons in, beacons out, the tick, switched on and off | other robots, over `btd`'s radio | lost beacons, a conductor that begins again, ducks of mixed versions, not all in range | who follows a conductor sings its piece, at its beat, in its seat |
| **theremin, sounds** `robotd/src/{theremin,sound}.rs`, `sounds/` | voices | pitch, play | `tof`, the loop | numeric | - |
| **btd** `btd/src` | a session and a pump per subscription, one write slot, a connection per service and lane, the PIN's attempts | BLE writes and notifications, reassembly, routing | phones; every daemon | a central that leaves in the middle of a request or comes back before its old session ended; queues that fill | a line is one the central wrote, whole; the slot is the newest session's; a query does not wait for an update |
| **configd, its file** `configd/src/store.rs` | the robot's name and PIN, in one file under a lock file | set either | `robotctl`, phones | concurrent writers, kills and power cuts between the steps of a write | what was answered is on the disk |
| **configd, Wi-Fi** `configd/src/{nm,net}.rs` | none: NetworkManager's profiles | scan, status, connect, forget | NetworkManager over D-Bus | nothing serialises two connections; the reason of a failure is the device's, not the join's | the answer is true, one working profile is left or none |
| **configd, pads** `configd/src/{bluez,pad}.rs` | one pairing at a time; BlueZ's bonds | pair, forget, status | BlueZ over D-Bus | a bond lands after `Connect` returned, and `Pair` may never answer | a bonded pad is trusted, so that it comes back |
| **configd, power and units** `configd/src/{power,units,identity}.rs` | none | reboot, unit state | systemd | - | - |
| **padd** `padd/src` | mode, held buttons, whether the robot is posed | sticks and buttons to lines for `robotd` | `robotd` | a pad that drops out, a `padd` that restarts, a socket that is full | silence stops the robot; taps are not a hold |
| **mediad** `mediad/src` | one session, with a pool of connections of its own, for the control channel of each peer | offer, ICE, teardown, lines both ways | browsers, GStreamer, every daemon | the pool is `btd`'s, the transport GStreamer's | an answer goes to the peer that asked |
| **tof, pet-detect, duck-detect** | a sensor's worker | poll, infer | `robotd` | numeric | - |
| **kinematics, odometry, robotd-params, duck-ipc-proto** | none, or numeric | pure functions | everyone | numeric | - |
| **robotctl, duckctl, xtask, test-support, install scripts** | none | clients, build, provisioning | the daemons | - | - |
| **microduck_rl** (`src/microduck_rl`) | training runs | simulation, evolution | - | numeric | - |

How they interact: every daemon starts through `/opt/robot/daemon/current/bin`, the
link the engine moves; `updaterd` asks `robotd` for `health` (the gate after a swap)
and `safeToRestart` (before a restart); the clients reach `robotd` and `updaterd` over
Unix sockets, directly or through `btd`; and the rescue scripts work on the engine's
files when `updaterd` cannot.

`PROJECT.json` lists each part with its modules or the reason it has none, and under
`hazards` what in this code is hard to test, at its line.

## The modules

```
TrialProtocol  <--extends--  RescueProtocol
     ^                            ^
     | implements                 | implements
  Updater  <-----extends----  BootRecovery
     ^                            ^
UpdaterProofs, MCUpdater      BootRecoveryProofs, MCBootRecovery

TrialRecord  <--implements--  BootCounter, UpdateLog  <--  StateFilesProofs, MCStateFiles

ControlLoop  <--  ControlLoopProofs, MCControlLoop

UpdaterServer, UnitRestarts            <--  UpdaterdProofs
ConfigStore, WifiJoin, PadPairing      <--  ConfigdProofs
BleTransport, Chorale, PadDrive        <--  RadioProofs
          (all eight)  <--extends--  MCDaemons  <--  DaemonsProofs
```

`TrialRecord` is implemented by `BootCounter` alone; the two state files share a run and a
proofs' module and nothing else. `MCDaemons` runs eight modules side by side. None of them reads or writes what another
does - what they share in the program (the engine below the server, the loop below the
pad) is abstracted to a choice in each - so a behaviour of `MCDaemons` is a behaviour of
one of them, chosen by `which` at its start, with the others at rest: interleaving
them would multiply the states and show nothing more.

### Updater

One engine, any number of components, one lock. The durable state is what is on disk:

| variable | code |
|---|---|
| `installed` | the directories under `releases/` |
| `current`, `golden` | the two links of `store.rs` |
| `pending` | `pending.json`: version, previous, boots of each component's trial |
| `logged` | the update log, as the latest outcome of each version - what `known_bad` reads |
| `crumb` | the breadcrumb `robot-rescue` leaves |

The rest dies with the process: `daemon` (down, starting, recovering, serving), `todo`
(the trials `recover_on_start` has not looked at) and `op`, the operation under the
lock with its stage. `trialled` is a history variable: how each release's latest trial
really ended, whatever the log says.

Each durable step is an action of its own, in the code's order - `RemoveOldDir`,
`Publish`, `Arm`, `Swap`, `Activate`, the gate, `Confirm`, `Prune`, the log entry; and
`Revert`, `RevertConfirm`, its entry - so that `Kill` can fall between any two. An I/O error
of a step is a second action beside it (`PublishFails`, `ArmFails`, `SwapFails`,
`SyncFails`, `ActivateFails`, ...), which takes the code's error path; where the error can come
after the effect (the rename is done, the directory sync fails) there is one for
each. `recover_on_start` is `Start`, `RecordRescue`, `RecordBoot`, `NextTrial` and the
actions that commit or revert an exhausted trial. Downloads, signatures, hooks and
preflight refuse or pass before anything moves (`Refuse`); after the swap they are
part of `Activate` and the gate.

`Faults` selects which I/O errors an instance has; the proofs hold for every choice.

### TrialProtocol

What the engine promises, in thirty lines: the link changes only while a record says
which release is on trial and which it replaced, and only to one of those or to
golden. `Updater!ImplementsProtocol` is the refinement, with `live <- current` and the
record read out of `pending`.

### BootRecovery

`Updater` beside the boot check and the rescue. The scripts take no lock, so their
steps (`BootCheck`, `WriteBreadcrumb`, `SwapToGolden`, `RescueReboots`) interleave with
every step of the engine; power goes at any time (`PowerCycle`), and a release in
`Dead` cannot start `updaterd`, because systemd starts it through `current`.

`RescueProtocol` is what remains of `TrialProtocol` then: the rescue displaces the link of
its component to golden at any time, so that the next trial of that component may name a
predecessor that was displaced. `ImplementsRescueProtocol` is the refinement.

### BootCounter, TrialRecord

`updater/src/journal.rs` (`BootCounter`) over `fsutil.rs` (`write_atomic`): `pending.json`, file
operation by file operation. A call (`call`) reads the file and changes a copy (`Arms`,
`Confirms`, `Boots`), and either removes the file or goes through `Creates`, `Writes`,
`Syncs`, `Renames` and `Settles`, the directory's sync. There are two callers: the process
that holds the update lock, and an `updaterd` that starts, which counts its boot without
the lock. `Overlap` says whether the two may meet. `files` and `names` are the file
system's, with one temporary name for all callers; `disk` is the set of records a power
cut may leave. `owed` and `cleared` are histories: what an arm or a confirm that was answered
has promised. `TrialRecord` is what `Updater` takes the file for: a record that a call
changes at once or not at all, and a cut returns to its last change but for what has
not been synced.

### UpdateLog

`updater/src/journal.rs` (`Journal`): the update log as lines. An append writes its line, syncs,
and trims to the newest `MaxEntries` when there are more (`phase`). Of the file, `lines` has the
entries whose line parses, whether its last line has no end (`open`, and which entry it is,
`bare`), and whether a torn character makes the whole unreadable (`broken`); `lasting` is the
files a power cut may leave. Entries are numbered in the order of `logged`, and `answered`
and `glued` are the histories of appends that returned and of those that met a line
without an end.

`Updater` and `BootRecovery` take both files for what these two modules say of them:
`pending` for a record of the kind of `TrialRecord`, which is also on the disk when a call
returns (`ArmedIsDurable`; not so a confirm, whose removal of the file is unsynced, which is not in
them), and `logged` for the latest outcome of every release, which is what the log says
until it is trimmed (`BlacklistIsTrue`).

### ControlLoop

One tick is eight steps, in the order of `control_loop`:

| step | code (`robotd/src/main.rs`) |
|---|---|
| `Read` | the bus, the coasting sample, the fall verdict, and the snapshot of `enabled` |
| `TakePower` | `robot.init` and `robot.relax` |
| `TakeSkills` | pick, kick, sit, roulade |
| `TakeMode` | a drive mode switch begins |
| `TakeShutdown` | the shutdown request, the empty pack, the end of the goodbye sit |
| `Fall` | the limp-fall sequence |
| `BringUp` | torque and the ramp home; a mode switch ends |
| `Drive` | one step of the policy, or a hold; what is published as motion |

Between any two of them a client may store an intent, as the IPC tasks do with relaxed
atomics: `Enable`, `RequestInit`, `RequestSkill`, `RequestMode`, `RequestShutdown` in
one store, `RequestRelax`/`RelaxStore` and `ToggleLoad`/`ToggleStore` in two. `Restart`
is a crash or an update of `robotd`: the requests go, the servos keep their torque. A
torque write goes joint by joint, so `torque` is off, some or on, and `Torn` is a write
that failed on the way.

Durations (the ramp home, the goodbye sit, the two phases of a fall) are numbers of ticks. The
sensors are what the code asks of them: a good sample, a coasted one, one before the
orientation filter has converged, or none. Poses, gains and commands are left out, and so is the
arithmetic that predicts a fall: on a tick that is eligible one may be predicted, or not.

`wanted` and `unpowered` are history variables: the clients' last word on torque, and
whether the loop has lost track of it.

### UpdaterServer

`updater/src/ipc.rs`: a task per connection and the scheduler, around an engine whose
mutex is tried and never waited for (`engine` is who holds it). An operation is its
release and the notes it still has to emit (`op`); a note goes to the pump (`emitted`),
which puts it into `latest`, into the broadcast (`sent`) and, for the connection that
runs the operation, into a queue (`unwritten`) that it writes to its own client between
two polls of the operation. `at` says where a connection's task is: idle, asking for
the status, holding an answer, running an operation, replaying `latest` to a new
subscriber, streaming to it. A client reads, stalls (its socket fills to `SocketLines`)
or is gone. `cursor` and `seen` are what a subscriber's receiver has passed, skipping
what it lagged behind by, and what was written to it. `check` is the scheduler between its
two looks at the source, and `overtaken`, a history, says that the source or the engine
changed in between.

### BleTransport

`btd/src/{bluez,session,upstream}.rs`. `sess` holds, for each subscription of the
central, the session and its pump; `slot` is the session whose queue gets what the
central writes. A request is two chunks and an answer is one, so that a central can leave,
come back, or be refused a chunk in the middle of a line. A session takes chunks,
checks the PIN (three kinds of request: `pin`, `query`, `operation`), and puts each line
on the connection of its lane; services answer queries, answer operations when they
like and emit notes meanwhile; the pool is drained into the bounded `replies`, the session
into the bounded `outq`, and the pump notifies. A service that restarts takes its lane's
connection with it. `fate` is what became of each request.

### Chorale

`robotd/src/chorale.rs` and the beat arithmetic of `sounds/src/chorale/beat.rs`. There is no
channel between ducks but beacons, which `Hears` delivers or does not. Of each duck: its
mode, its piece, its roster, its beat (the conductor's count or the follower's
estimate), the leader it follows, the last count it took and how many its fit rests on,
and what it remembers of its peers. Time is in beats, which every duck that sings
counts at the same rate. A beacon carries the low byte of the count: `Counts` is how many it
tells apart (256 in the code), so that a follower takes a count behind its last for a new
performance only up to half way round; further back it reads as ahead. `mixed` is the
history of a fit made from two performances.

### UnitRestarts

`updater/src/{engine,reconcile}.rs`: which release each daemon's process was started from
(`runs`) against the one that is `current`. `work` goes from the swap through the
restarts in place to the gate, and from there to the deferred restarts of `updaterd`
and `btd` (`timers`) or to the revert and the restarts it makes; a start of `updaterd`
recovers a trial and then reconciles every unit. Daemons crash and come back on whatever
is current; restarts and timers fail; the machine reboots. `excused` is the history of
the restarts that the code knowingly leaves owed.

### ConfigStore

`configd/src/store.rs`: `set_name` and `set_pairing_pin` as the steps the code takes -
read, `lock`, `write` the temporary file, `sync` it, `rename` it, sync the directory and answer
(`settle`). `disk` is the set of contents a power cut may leave; a file that was never
synced may be torn. `vouched` holds, for each field, the values a reader may
find by what was answered.

### PadDrive

`padd/src/main.rs` to `robotd/src/intents.rs` to `duck-control/src/safety.rs`: a pad's
driver, `padd`'s tick (which may send up to three lines, or none without a pad), the
socket (`wire`), the stamped `twist` and the loop's `commanded`. `Wait` is time; `upAge`
is how long it is since a tick saw Select up.

### WifiJoin

`configd/src/nm.rs`. A call of a connection lists the profiles of its network, deletes them one
by one, adds and activates a new one and watches (`join`). NetworkManager is modelled
from how the code uses it: one device that joins what it has a profile for
(`Autoconnects`), associates, drops, and has one `reason` for the last failure, whosever
activation that was. Histories: `untrue` answers, the `last` answer about each network, and
networks that were left `unsettled`.

### PadPairing

`configd/src/bluez.rs`. A pairing takes the lock, finds a pad with discovery on, serves an
agent for it, connects, waits for the bond that connecting may have begun, asks for one
if there is none, trusts the pad and withdraws the agent (`pairCall`). BlueZ is modelled from how
the code uses it: `known`, `paired`, `trusted`, and bonds `flying` that land or fail in
their own time. `unattended` is the history of bonds that no pairing was there to trust.

## What the runs check

| run | instance | question |
|---|---|---|
| `updater` | 2 components, 3 releases, 2 boots, 3 commands, 2 kills, errors in publish, arm, prune, journal | do the safety of golden and of the trials, and the liveness of recovery, hold when two components share lock, counter and log? |
| `updater_faults` | 1 component, an error possible in every durable step of an operation and of the boot count | does the live directory survive, and does the engine implement the abstract protocol through all of it? |
| `boot_recovery` | 1 component, a release that cannot start, 2 kills, 1 power cut at any time, 1 rescue at a console | does the net catch a dead release, once, does its choice stick, and what is left of the protocol? |
| `state_files` | `pending.json`: 2 components, 2 releases, 2 arms, 2 starts, 1 fault, 1 power cut, one process at a time; the log: 2 releases, a capacity of 2, 5 appends, 2 errors, kills or cuts | does an armed trial outlive what befalls the calls after it, is `pending.json` what the engine takes it for, and does what was logged decide what is known bad? |
| `blacklist`, `select_ungated`, `goodbye`, `relax_race`, `counter_overlap`, `log_torn` | the smallest instance that shows it | where the code and its own text disagree, below |

Bounds. Three releases are the least with a live one, a newer one that fails and one
to fall back to that is neither golden nor live; `MaxBoots = 2` (the code's own value)
separates a first boot from the last; three commands are an apply, a second that
overlaps its trial, and a reversal; two kills are one inside an operation and one inside
the recovery from it. In the control loop two requests are what a race needs: one that
is being obeyed and one that contradicts it; three requests were tried by hand with
the safety properties (two clients) and with the liveness properties (one client), with
the same result. One tick is enough of a ramp because the loop only asks whether it is
over; a fall phase has two, so that one tick passes inside it. The
roller bundle does not load in `control_loop`, so a switch to it leaves a robot
without a policy, which `EnabledDrives` must except and does.

In `state_files` two components share `pending.json`, so that a confirm of one writes where a
confirm of the last removes; two files are all that names and a call can hold at once; a
second arm or start follows a first whatever became of that. In the log five entries
in a log of two are trimmed three times, two mishaps are a line that is torn and a
cut or error in what follows, and with two releases one pushes the other out.

The instances in `daemons`:

| part | instance | why it is enough |
|---|---|---|
| server | 2 connections, one permitted; 2 releases, 2 notes to an operation, 1 line to a socket and to the broadcast, 2 calls | an operation and whatever overlaps it; the second note finds every queue full, so lagging and stalling happen |
| Bluetooth | 2 subscriptions; a PIN, an operation and a query; queues of 1, 1 PIN attempt, 1 note, 1 outage | the old session outlives its successor's start; a query runs beside an operation; every queue fills with one entry |
| chorale | 3 ducks, of which 2 hears 1 but 1 does not hear 2, and 3 hears both, with different repertoires; 3 pieces of a beat, 2 performances, 6 counts, 1 upset | two ducks conduct at once and a third hears both, joins one and follows the other; a piece it knows replaces the one it joined for, or one it does not; a fit is made of two performances; a restart from late in a piece is not recognised |
| units | 2 services beside `updaterd` and `btd`; 2 versions, 2 operations, 1 failure, 1 shock | a second operation overlaps the first one's timers; one failure or crash anywhere in them |
| store | 2 writers, 2 writes, 1 error, 1 cut | two overlapping writes of either field, and a cut at any step of both |
| pad | both posing modes; a deadman of 1, a hold of 2, a socket of 3 lines | three lines are what a tick can send; a hold of two ticks can be interrupted between them |
| Wi-Fi | 2 connections, 2 networks, 2 joins or forgets, 1 fault | two calls about one network or about two, with one call that fails |
| pairing | 2 connections, 2 pads, 2 pairings or forgets, 1 fault | a second caller that waits for the lock or forgets the pad the first is pairing |

`CHECK_DEADLOCK` is off because the systems do stop: once the bounded commands, kills
and restarts are used up `updaterd` waits for a client, `robotd` goes with the machine,
and the daemons wait for whoever asks next.

### Properties

Engine. `CurrentInstalled`: the live directory exists. `TrialNamesLive`: a trial on
disk is about what is live, so that no boot reverts an update that is not there.
`NoExhaustedTrialServed`: when `updaterd` serves, no component has its boot budget spent. `ApplyTrialEndsWithVerdict`:
an apply's trial is cleared only with a verdict on the release it leaves live.
`GoldenKept`: golden's directory disappears only while golden itself is reinstalled.
`StartupServes`: every start comes to serve. `ImplementsProtocol`: the refinement.

`NoExhaustedTrialServed` is checked where the swap, the confirm and the boot count do
not fail: an error in the recovery of one component aborts the loop over the others,
and `updaterd` serves regardless (`main.rs`, `serve`), so it is false with those
faults. That is what the code chooses to do; the hazard is listed.

Recovery net. `RescuedOnce`: at most one rescue for a release that is dead.
`RescueSticks`: nothing takes a robot back to the release it was rescued from unasked.
`DeadReleaseReplaced`: a dead release is left - unless power went between the rescue's
record and its swap, which shuts its guard on a rescue that never happened
(power was cut, and `~BreadcrumbMeansTried`). `TrialNamesLive` is checked here, with the rescue's swap in it.
`ImplementsRescueProtocol`: the refinement.

State files. `ArmedIsDurable`: whatever a power cut may leave has the trial that was armed,
until a call begins to clear it. `ImplementsTrialRecord`: a reader sees the calls change
the record at once or not at all. `BlacklistIsTrue`: an entry whose append returned, and which is
the latest of its release, decides whether that is known bad, until `MaxEntries` newer
ones push it out - but for an entry that was appended to a torn line, and a log that a torn
character made unreadable.

Control loop. `RaisedOnlyIfAsked`: joints without power get it only if a client's last
word was to stand up, a relax is half stored, or `enabled` was set at the head of this
tick. `UpIsPowered`: outside `Limp` all joints have power, but for two ways the loop
loses track (a mode switch out of `Limp`; a failed cut), which `unpowered` records.
`PosesOnlyItsOwn`, `SwapsAtHome`, and four that need the loop to run on: `LimpFallEnds`,
`ShutdownHappens`, `EnabledDrives`, and `ComesToRest`: a robot nobody drives comes to rest,
and stays, as `safeToRestart` tells it (`SafeToRestart`); as long as it does not, `updaterd`
refuses every update. That it never answers safe of a robot that moves is not claimed: within
a tick the answer is the last tick's.

Daemons. Each of these holds with the exceptions it names, which are what the code does:

- `StatusIsAnswered`, `OperationEnds`: a status request is answered and an operation
  ends, whatever clients do - but a subscriber that does not read its replay holds
  `latest` locked, and a client that stays and does not read holds its own operation,
  and with it the engine. `SubscriberIsCurrent`: one that has read everything knows the newest
  note, however it lagged. `UnattendedNotKnownBad`: the scheduler starts no release it knows to
  be bad, unless source or engine changed since its check.
- `NoGarbledLine`, `SlotIsNewest`: what a session dispatches was written as one line,
  across disconnections and refused chunks; an old session's end does not take the slot
  from its successor. `QueryIsAnswered`: a query is answered while an operation runs for
  as long as it likes.
- `InStep`: a locked follower sings its conductor's piece, beat and seating, whomever it
  joined first - unless its counts were of two performances (`Restart` tells them apart
  only when the count falls back far enough).
- `StaleIsExcused`: at rest, every daemon runs the active release, but for the restarts
  the code leaves owed.
- `AnsweredIsKept`: no cut tears the file or takes back what was answered - but for
  overlapping writes, since the read comes before the lock.
- `StillWhilePosed`, `HeldNotTapped`, `SilenceStops`: a posed robot has no twist left
  over, taps are not a hold, and silence comes to a stand.
- `JoinAnswersTrue`, `OneProfile`: `connected` and "wrong key" are so, but for a reason that
  is another activation's; between calls a network has the profile the last answer
  implies, but for a deletion that failed, a restart, or two calls about it at once.
- `BondedIsTrusted`: with no pairing under way a bonded pad is trusted, but for a bond
  that landed after its pairing had gone, or that BlueZ would not trust.

### Fairness

- `WF(Engine)`: `updaterd.service` has `Restart=on-failure`, every wait inside an
  operation (download, hook, health gate) has a timeout, and kills are bounded, so the
  process does not stop half way for ever. Clients are not fair.
- `WF(BootCheck)`, `WF(Script)`: the timer fires on every boot and a shell script runs to
  its end; power cuts are bounded.
- `WF(Loop)`: the control loop has a thread and a runtime to itself
  (`spawn_control_thread`) and waits for nothing but its ticker. `WF(Stores)`: an IPC
  task between the two stores of one request has nothing to wait for. Faults are
  bounded, so a bus that never answers again is not among the behaviours; a restart is
  never obliged.
- In `daemons`: a connection's task (`Serves`), the pump (`PumpRemembers`, `PumpSends`) and
  the engine (`OpStep`, `OpEnds`) of `updaterd`; sessions and pumps of `btd`
  (`SessionSteps`, `PumpSteps`) and the answer of a service to a query (`QueryAnswers`);
  `robotd`'s reading of its socket, its tick, and time (`Receive`, `LoopTick`, `Wait`).
  Each is a task of a `tokio` runtime, or a thread, that waits for nothing but what its guard
  says: a queue with something in it, a lock that is free, a socket with room. Clients,
  centrals, ducks, drivers, `padd`, NetworkManager and BlueZ are sure of nothing, nor
  is an operation a service carries out for a central; so no liveness is claimed of
  `Chorale`, `UnitRestarts`, `ConfigStore`, `WifiJoin` or `PadPairing`.

### What the runs found

Each is a `violation` run, with the quoted line in `PROJECT.json` under `findings`.

1. `blacklist`. A boot-counter revert logs the release it reverted *to* as rolled back
   (`engine.rs:1823`), so the release the robot runs well on is known-bad and the
   failed one is not.
2. `select_ungated`. When a select's apply action fails, the trial is cleared and the
   error returned with the new release live and ungated.
3. `goodbye`. The tick that ends the goodbye sit cuts the torque and, from the `enabled` it
   read at its head, powers the joints again and starts the ramp home.
4. `relax_race`. A relax that lands between the snapshot and the power request of one
   tick is obeyed and undone within it, and the robot stands up. `RaisedOnlyIfAsked`
   shows how far this goes: that one stale word is the only one the loop acts on.
5. `counter_overlap`. An `updaterd` that starts while `updaterd install` is at its trial
   counts its boot in `pending.json` without the lock, and its rename puts back a trial
   that the install confirmed in between.
6. `log_torn`. A line torn within a character makes the file invalid UTF-8, and none of the
   log is read any more; releases known to be bad are eligible again.

What else the models follow the code in, with no run of its own - each is an exception
of a property above, or a choice the model allows:

- Engine. `prune` keeps the newest releases whatever became of them: after a failed release
  the good one that was just replaced is removed, and golden is what is left to go back to
  (`store.rs:226-230`). Arming over a trial that is still on record forgets it; if the swap then
  fails, an untried release is live with no trial (`journal.rs:354`, `engine.rs:1434-1439`).
- Net. A power cut between the rescue's record and its swap (`robot-rescue:168`) shuts the
  loop guard on a rescue that never happened.
- State files. The temporary file has one name for all writers (`fsutil.rs:41`): where calls
  overlap, one may rename what the other has just truncated, and a reader finds no
  trials at all. The removal of `pending.json` is not synced (`journal.rs:375`): a power cut
  after a confirm can bring its trial back. An entry appended to a torn line is lost with it,
  though its append succeeded (`journal.rs:60`).
- Units. `rollback` and `reset_to_golden` by hand schedule no restart of `updaterd` and
  `btd`; the doc comment of `engine.rs:2504-2506` holds of the automatic rollback. `select`
  of the active release returns (`engine.rs:1343-1351`) before
  `schedule_restarts_if_needed` (1360), although it says it repairs as `apply` does.
  A `btd` that started between a swap and its revert stays on the reverted release. A
  revert's restarts stop at the first unit that fails. The timer of one operation can
  fire within the next.
- Configuration. The file is read before the lock is taken (`store.rs:94-107`), so of
  two overlapping writes of different fields one is lost; a file that cannot be read drops the
  other field.
- Pad. A pad that drops out does not reset the hold of Select; `padd`'s belief that the
  robot is in its roller mode is its own, whatever another client switched.
- Server. A subscriber that stalls in its replay keeps `latest` locked, and a client
  that stalls keeps its operation and the engine.
- Wi-Fi. Nothing serialises two connections; the deletion of a network's profiles stops at one that another
  call deleted first; the reason may be another activation's; a restart
  in the middle of a join leaves its profile.
- Pairing. A bond that lands after the last look before `BOND_TIMEOUT` is answered as a
  timeout and stays untrusted. Forgetting does not take the pairing lock, so a pad
  forgotten under a pairing is answered as paired. An agent left at the
  path is not replaced.

## What is proved

The theorems hold for every value of the constants the assumptions admit: any
components, releases, clients, modes, networks, pads, ducks and queue lengths, any number
of kills, restarts, requests, errors and cuts, and ramps, holds and deadmen of any length.
They need no fairness. Every safety property that a passing run checks is a theorem, and so are some
that no run checks: the types of most modules, `OperationInv`, `OnlyACutMakesItLie`,
`AnsweredIsRead` and `LogIsBounded`.

| theorem | states |
|---|---|
| *the engine (`UpdaterProofs`)* | |
| `TypeCorrect` | `[]TypeOK` |
| `OperationAgrees` | `[]OperationInv` |
| `LiveReleaseInstalled` | `[]CurrentInstalled` |
| `TrialsAreLive` | `[]TrialNamesLive` |
| `GoldenSurvives` | `GoldenKept` |
| `EngineImplementsProtocol` | `ImplementsProtocol` |
| `BudgetsAreSettled` | `[]NoExhaustedTrialServed`, without faults of the swap, the confirm and the boot count |
| `TrialsEndWithVerdict` | `ApplyTrialEndsWithVerdict` |
| *the net beside it (`BootRecoveryProofs`)* | |
| `NetType` | `[]NetTypeOK` |
| `TrialsAreLiveInNet` | `[]TrialNamesLive` |
| `NoRescueLoop` | `[]RescuedOnce` |
| `RescueHolds` | `RescueSticks`, without faults of the confirm |
| `BreadcrumbLiesAfterACut` | `OnlyACutMakesItLie` |
| `GoldenSurvivesInNet` | `GoldenKept`, with the scripts beside the engine |
| `NetImplementsRescueProtocol` | `ImplementsRescueProtocol` |
| *the state files (`StateFilesProofs`)* | |
| `CounterType` | `[]CounterTypeOK`, also where calls overlap |
| `ArmedStaysArmed` | `[]ArmedIsDurable`, where calls do not overlap |
| `CounterImplementsRecord` | `ImplementsTrialRecord`, where calls do not overlap |
| `LogType` | `[]LogTypeOK` |
| `LoggedIsRead` | `[]AnsweredIsRead` |
| `KnownBadIsLatest` | `[]BlacklistIsTrue` |
| `LogStaysBounded` | `[]LogIsBounded` |
| *the loop (`ControlLoopProofs`)* | |
| `LoopTypeCorrect` | `[]LoopTypeOK` |
| `JointsPowered` | `[]UpIsPowered` |
| `NothingRaisedUnasked` | `RaisedOnlyIfAsked` |
| `PosesAreItsOwn` | `[]PosesOnlyItsOwn` |
| `SwapsOnlyAtHome` | `SwapsAtHome` |
| *the pad (`RadioProofs`)* | |
| `PadType` | `[]PadTypeOK` |
| `PadStillWhilePosed` | `[]StillWhilePosed` |
| `PadHeldNotTapped` | `HeldNotTapped` |
| *updaterd around its engine (`UpdaterdProofs`)* | |
| `UnitType` | `[]UnitTypeOK` |
| `RobotRunsTheActive` | `[]StaleIsExcused` |
| `ServerType` | `[]ServerTypeOK` |
| `SubscriberKnowsTheNewest` | `[]SubscriberIsCurrent` |
| `UnattendedIsNotKnownBad` | `UnattendedNotKnownBad` |
| *btd (`RadioProofs`)* | |
| `BleType` | `[]BleTypeOK` |
| `SlotStaysWithNewest` | `[]SlotIsNewest` |
| `LinesStayWhole` | `[]NoGarbledLine` |
| *the chorale (`RadioProofs`)* | |
| `ChoraleType` | `[]ChoraleTypeOK` |
| `FollowersAreInStep` | `[]InStep` |
| *configd (`ConfigdProofs`)* | |
| `StoreType` | `[]StoreTypeOK` |
| `StoreAnsweredIsKept` | `[]AnsweredIsKept` |
| `PairingType` | `[]PairingTypeOK` |
| `PairedIsTrusted` | `[]BondedIsTrusted` |
| `WifiType` | `[]WifiTypeOK` |
| `JoinsAnswerTruly` | `[]JoinAnswersTrue` |
| `ProfilesAreAnswered` | `[]OneProfile` |
| *the daemons side by side (`DaemonsProofs`)* | |
| `DaemonsAreApart` | a behaviour of the composition is one of each of the eight |
| `DaemonsType` | `[]DaemonsTypeOK` |
| `DaemonsKeepTheirWord` | their ten safety invariants together |
| `DaemonsStepByStep` | `UnattendedNotKnownBad` and `HeldNotTapped` |

Assumptions. Of the engine: `VersionsAssumption`, `GoldenAssumption`,
`FactoryAssumption`, `BootsAssumption` and `BoundsAssumption`, which say no more than
what the configuration's types do. Of the loop: `ModesAssumption`, `TicksAssumption`
(every duration is at least a tick) and `RequestsAssumption`. Of the pad: `PadAssumption`,
and `WireBound`, that the socket takes the three lines of a tick. Of the file:
`StoreAssumption` (the marks for no value, a torn one and no lock are not values or
writers) and `StoreBounds`. Of the other parts, likewise the marks that are no value
(`ServerAssumption`, `DucksAssumption`, `PadsAssumption`), that a daemon is restarted in
place or by a timer and not both (`PlainAssumption`), that queues, pieces and limits are not zero,
that ducks and pads are finitely many (a roster and a `CHOOSE` of one need it), that a
duck leaves no sooner than its piece may end (`BeatsAssumption`, `LEAVE_MARGIN` and
`END_MARGIN`) and the counts of one performance fit in a byte, and that there is a network for the robot to be on at the start (`SomeNet`). Of
the state files, that 0 is no release and no file (`CounterAssumption`) and that the log keeps
an entry at least (`LogAssumption`; `LOG_CAPACITY` is 200).

Four theorems exclude something, because with it the property is false, as TLC shows in a
few steps. `BudgetsAreSettled`: `recover_on_start` stops at its first error and `updaterd` serves
the trials it did not come to. `RescueHolds`: where `confirm` may fail, the start after a rescue can
fail to clear the trial the rescue superseded (best effort, logged), and the boot that
exhausts it reverts the board from golden to what it ran before. `ArmedStaysArmed` and
`CounterImplementsRecord` take `~Overlap`: what overlapping calls do to the file is shown by
`counter_overlap`. Without `updaterd install` the code does not have them meet: an
`updaterd` that serves has recovered before, and holds the lock for what it writes.

The engine's argument. None of the invariants is inductive alone: whether the live
directory survives a step depends on what the operation under the lock is about, and
that on what it has written so far. `OperationInv` says it - the fall-back is the live
release until the swap, the trial on record is the operation's own from arming to
verdict - and is inductive with `TypeOK`; each of the others is preserved by a step
from `TypeOK /\ OperationInv`. The refinement then takes one case per action: arming is
`Propose`, the swap is `Switch`, a revert is `Return`, a confirm is `Settle`, and every
other step leaves link and record alone.

Two more invariants stand beside it. `BudgetInv` says what is still owed on the way up:
every exhausted trial is on `todo` or is being reverted, only recovery runs then, and what
it falls back to is installed, so the revert cannot fail for a missing directory.
`VerdictInv` says what a trial is about: it moves its component to another release, or to
golden; from there an apply in its confirm or revert has its verdict, and a recovery
either has one on the live release or has made golden live. That a trial could move a
release to itself (reset-to-golden on golden) is why the last case is needed: reverting
such a trial leaves its release live.

The net's argument. `robot-rescue` swaps the link with no lock, so `OperationInv` is false
of the composition: golden may be live where the operation has another release as its
fall-back. `Grounded` is what is left of it, and is enough for `TrialNamesLive`. `OnceInv` says
golden is live from the swap until `updaterd` is up, which is what the script's guard reads.
`HeldInv` says why a rescue sticks: no operation is about to move the board, and its trial
is cleared, or the breadcrumb is there by which the next start clears it before it looks.
`OnlyACutMakesItLie` then is one case per step: golden counts as tried, once the script is
past its record, until its breadcrumb goes. `GoldenKept`
follows from the types, as the engine's guards name golden. For the refinement, `OffTree`
says what `OperationInv` still does of the components the rescue leaves alone: before the swap an
operation's fall-back is the live release. On the rescued one it is, or golden is live (`Grounded`).

The counter's argument. `CounterInv` adds to the types: one call at a time (`Alone`), a file under
the name of readers that parses and is synced, and is not the temporary one (`PendingWhole`),
in each step of a call the part of its record that is prepared by then (`Prepared`), and what the call
says of the trials that must not be lost (`Owes`): an arm is of one of them, a confirm of none. Every
step but a removal, a rename and a power cut then leaves the record alone, and each of those is a step of
`TrialRecord`.

The log's argument. `FileInv` is said of every file that a power cut may leave and not only of
the one there is: it has all recent entries that count, and too many by no more than the mishaps so far.
That trimming keeps the recent ones is a lemma (`KeptIsRecent`): fewer than `MaxEntries`
numbers come after one of theirs. That it keeps few (`KeptIsFew`) is the pigeonhole
principle: entries have different numbers of newer ones, all below `MaxEntries`.

The composition's argument. Every step of `DaemonsNext` is a step or a stutter of each part, by
its `UNCHANGED`; what was proved of the parts then holds of the whole.

The loop's argument. `UpIsPowered` is inductive as it stands.
The other three need to know something of the step the loop has reached: an `init` not taken
yet is the clients' last word unless a relax is half stored (`InitIsWanted`); from the
fall stage to the next read a pose ramp still has the robot (`OwnFall`); and only a
tick that has just begun a ramp can still remember having driven (`HomeIsHeld`, from
which a ramp that is over was not driven through).

The pad's argument. `StillWhilePosed` looks at an empty wire; what makes it so is said
of any wire by `PosedInv`: once `padd` poses, either no twist is left, or a line that stops
comes after the last one that moves. `HeldNotTapped` rests on `HoldInv`, that a hold is
no older than the last tick that saw Select up.

The file's argument. `StoreInv` is inductive with the types: a write past its lock is
the only one (`OneWriter`), what it has prepared is what it will answer (`Progress`), the
file is on the disk and whole (`Whole`). A power cut then finds one of the contents the
answers allow.

The other parts of `configd`. For `BondedIsTrusted`, every bond without trust belongs to the
one caller past the lock, which is at a step from which it will trust it, or is excused
(`BondsAreMinded`, `OneCaller`). For joins, which hold no lock, `IdsApart`: an id is one
call's, and a call deletes only what was there when it listed. With `DeviceOn`, what
the device is on, this gives `JoinsTrue`, what an activation seen up or failing may mean, and
`AllSettled`, that the one call at a network's profiles has listed all it has yet to delete.

`updaterd`'s arguments. `StaleIsExcused` speaks of a robot at rest; `Covered` says of every
state that a stale service is excused, has a timer, or is among those still to be seen
to, with the exceptions an operation has before its gate and a start before it looked. `SubscriberIsCurrent`
follows from the order of four numbers (`NotesInOrder`): written, read, remembered, sent.
`CandidateInv` follows the scheduler's candidate from its check to its apply, unless overtaken.

`btd`'s arguments. `NoGarbledLine` is about a history; `WholeLines` says of every session that
what it holds of a line and what is queued, in a row, are whole lines but for a last one
without its tail, and that the central goes on where the queue of the slot ends.
Subscriptions end late and out of order, so it is said of all queues and not only the
slot's. `SlotIsNewest` is inductive with the types.

The chorale's argument. `ChoirInv` compares a follower with its conductor by what was last heard
(`With`): the beat each has come to, and that the follower's roster is a prefix of the
conductor's, which has nobody twice and grows at its end.

Only model-checked: the liveness properties (`StartupServes`,
`DeadReleaseReplaced`, the loop's four, `StatusIsAnswered`, `OperationEnds`, `QueryIsAnswered`,
`SilenceStops`), which need fairness and `ENABLED`, out of the prover's reach. The violation
runs show what is false.

## What is not modelled

In the engine: directories left half removed, the order in which
the breadcrumb's bytes reach the disk, pins, dry runs beyond their refusal; of
`updaterd install` beside a starting `updaterd`, everything but `pending.json`: two processes at
the log or at the links are not modelled. Of the log, its directory entry when it is new. In the loop:
smoothing, voltage, sounds, theremin, telemetry and health, `--sim-eval`, `--busy`; twists and
their deadman are `PadDrive`'s, the chorale is a module of its own. In `updaterd`: units
that a release adds or drops. In the chorale: a roster
beyond `MAX_ROSTER`, and beacons that arrive late, after newer ones. In `btd`: advertising and
the chorale's radio. In
`configd`: scanning and status (reads), power, unit control and identity (one call
each). In `padd`: skills, sounds and the tap of the mode button. `mediad`, whose control
channel is a `btd` session without the slot and whose streams are GStreamer's.

Outside altogether: command-line clients (`robotctl`, `duckctl`) and the terminal monitor,
which present what daemons say and keep no state a daemon depends on; `duck-ipc-proto`,
types and their encoding; provisioning and build tools; kinematics, odometry, detection,
audio synthesis and the policy, which are floating point; the training project; and
parameter tables. These are most of the lines of the repository: the map covers
the protocol code, and a share of the whole near a third is not to be had from
the code that has states to check. `PROJECT.json` gives the reason for each.

## Plan

Done in the order planned: the engine, the net and the loop; the daemons around them; the
proofs; the two state files under the engine. Left:

1. `mediad`: the peers' sessions beside the teardown of their pipeline.
2. `updaterd install` as a whole beside a start: its swap and its log entries, and not
   only `pending.json`.

## Running it

```
tlc -workers 2 -config MCUpdater.cfg MCUpdater.tla
tlc -workers 2 -config MCBootRecovery.cfg MCBootRecovery.tla
tlc -workers 2 -config MCControlLoop.cfg MCControlLoop.tla
tlc -workers 2 -config MCDaemons.cfg MCDaemons.tla
tlc -workers 2 -config MCStateFiles.cfg MCStateFiles.tla
tlapm UpdaterProofs.tla
tlapm ControlLoopProofs.tla
tlapm UpdaterdProofs.tla
tlapm RadioProofs.tla
tlapm ConfigdProofs.tla
tlapm BootRecoveryProofs.tla
tlapm DaemonsProofs.tla
tlapm StateFilesProofs.tla
```

Each `.cfg` begins with what its instance is. Some operators are called "Variant of" another:
they are the plausible mistakes each property was tried against, and nothing else uses them.
