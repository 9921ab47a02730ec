# chef-cyclo in TLA+

chef-cyclo is a Linux system for a phone used as a bicycle computer. Its own code is a set of
small C daemons (`src/tools/`) under busybox init, a few shell tools (`src/rootfs-overlay/usr/bin/`),
and a user interface on the framebuffer. This directory holds TLA+ models of the daemons whose
correctness is a matter of order (who asks, who answers late, who dies in between), the TLC
configurations that check them on small instances, and proofs that TLAPS checks for all values of
the constants.

    tlc -workers 2 -config MCGps.cfg MCGps       # a run (the table below)
    tlapm GpsManagerProofs.tla                   # a module of proofs (section 5)

`PROJECT.json` lists the runs, the source lines of every definition, the mutants that show that
each property can fail, the findings, the hazards and the theorems.


## 1. The system and its parts

| Part | State it keeps | Operations | Talks to | Correct when |
|---|---|---|---|---|
| gps-manager core (`core.c`) | `struct gm`: state, phase, client id (CID) and owner, stale CID, session, children, leases, timers | lease count, switch, retry, tick, step result, child exit | qmicli steps, broker/follower/gpsd, its server | GNSS runs exactly while it is wanted; no CID or session is lost at the modem |
| gps-manager server (`server.c`) | leases per client, watchers | lease, release, enable, disable, retry, watch, status | core (count), line sockets | count and leases agree, also if a watcher is dropped in a broadcast |
| gps-manager shell (`main.c`, `owner.c`) | crash record `DIR/state`, switch save and load children | poll loop, spawn, reap, exit, cleanup after a predecessor | chef-state, QMUX bridge and its owner | a death at any moment leaves a record that covers the CID; the newest switch value is saved |
| powerd policy (`policy.c`, `sample.c`) | warnings, confirmations, throttle level, next poll | one step per sample | charger driver (`system_temp_level`), `poweroff` | shuts down on a real empty or hot battery, never on a burst of samples; never leaves a throttle behind |
| powerd log (`log.c`) | `log.pending`, `log.csv`, `log.csv.1` | add row, flush, rotate, durable flush, `powerd flush` | tmpfs and flash, chef-state at shutdown | no row lost or doubled unaccounted |
| chef-state (shell) | saved clock, switch, BLE and magnetometer state, seal marker | load, save (locked), shutdown | gps-manager, powerd, init | a save is whole or absent; shutdown loses nothing silently |
| buttond (`buttond.c`) | recognizer per button, claims per client, power-off stage, keys passed on | evdev events, deadlines, claim, release, watch | evdev, uinput, vibrator, line sockets, init | one gesture per press; no stuck key; power-off only after a full hold |
| line sockets (`common/linesrv.c`) | slots, output queues | accept, read, send, drop | every daemon with a socket | a drop inside a callback is seen exactly once |
| sensord | QMI clients of the sensor DSP, subscriptions, calibration | subscribe, reconnect | QRTR, line sockets | a sensor runs exactly while somebody subscribes |
| blesensd | pairing attempt, agent, saved records, links, scans and holds of clients | pair, cancel, forget, retry, scan, hold, watch | BlueZ over D-Bus, chef-state, line sockets | no bond without a record, no record without proof; links and discovery follow what clients ask; a late answer does not act on the wrong attempt |
| sensor-proxy | D-Bus claims | claim, release | sensord | orientation is on exactly while claimed |
| tftp (`tftpserv.c`, `ramfs.c`) | a slot per transfer: request, window, offsets; RAM files | read and write requests, blocks, ACKs, the sweep | modem over QRTR | what is complete is exact; every slot comes back |
| rmtfs, servreg-locator | partitions, a table of services | modem requests | QRTR | - |
| chefui, settings, fblog | screens, views of the daemons | draw, touch | framebuffer, daemons | - |
| qmuxd-lite, qmux, nmea-broker, irsc, rtc-edge, wlan-fw | bridge of QMUX clients, small tools | - | modem | - |
| scripts (`modem-up`, `chef-storage`, stage1) | owner lock, partition choice | start-up | - | - |

The daemons are single-threaded poll loops. What is hard in them is not threads but:

* **callbacks into a half-done call**: gps-manager's broadcast may drop a client, whose leases are
  then counted while the core is in the middle of a transition; buttond's send may drop the
  claimant whose gesture is being delivered; blesensd's may end the scan it is telling of;
* **children and results that come late**: a qmicli step times out just as the modem obeyed it;
  a save of the switch hangs while the next change comes; BlueZ answers an attempt that is over;
* **death and respawn**: a supervisor restarts every daemon; what it held at the modem, on flash or
  in the kernel is still there;
* **partial failure**: one of several forks, calls or writes fails, or is cut short;
* **small tables and queues**: slots, output queues and block numbers that run out or wrap;
* **time**: confirmations, grace periods, timeouts and holds against samples, requests and events
  that come early, in bursts, or late.

`PROJECT.json` lists 40 places where these bite ("hazards"), each with the property that covers it or
the reason why none does.


## 2. The modules

Every C function that changes state is one operator *from the struct before the call to the struct
after it*; a handler that calls six others is their composition, and one atomic step. This is what
the code is: between two `poll()` calls nothing else runs. Where something else does run in between
(system calls of a process that may be killed, child processes) the step is split there.

### gps-manager: `GpsCore`, `GpsManager`, `ClientLedger`

| Module | Models |
|---|---|
| `GpsCore` | `core.c` with the lease count of `server.c` and the crash record: pure operators on `g` (`struct gm`) and `e` (what the handler meets: bridge, ready owner, forks that fail, where a watcher is dropped) |
| `GpsManager` | the poll loop, the shell (`step`, children, exit, death, respawn) and the modem (`modem`), as actions over `GpsCore` |
| `ClientLedger` | the abstract promise about the CID: at most one, noted in the instant it is known, a new one only when the note of the last is settled. `KeepsLedger` states that `GpsManager` implements it (`own` is `g.cid`, `note` is `g.rec.cid`, `engaged` is `g.session`) |
| `MCGps` | the instances |

`g` has the fields of `struct gm` under their names where TLA+ allows; a clock (`grace_until`,
`retry_at`, ...) is the flag "armed", and `Tick` is told which have run out. `held` is the sum of the
leases of all clients: two lease kinds and the split over clients are left out, because the core sees
only the sum. `rec` is what `DIR/state` holds. `leaked` and `lost` stop at `LeakCap`.

Assumed, and where the code says so or leaves it open:

* a new owner of the modem starts its bridge later than `GM_OWNER_POLL_MS` after the old one's went
  (`BridgeStarts`). Within that time the cached check could name the old owner (`core.c:361`);
* writing `DIR/state` works; a failed write is only logged by the code (`main.c:204`);
* a respawned instance kills its predecessor's recorded children before it does anything else;
* a dropped watcher matters at two broadcasts: STOPPING, sent from the middle of the teardown, and
  the switch line. Everywhere else `gm_set` is the caller's last statement, so the drop is an
  `Unlease` right after the handler.

### The saved switch: `GpsSwitch`

gps-manager's loader and saver children (`main.c`, `chef-state gps-save`/`gps-load`): one save at a
time under the lock, a change that comes meanwhile waits, a hanging child is killed with its group at
its bound, the exit drains. After a *death* of the daemon only the saver's direct child is killed, so
parts of it (`orphans`) live on. Values carry the number of the request that set them, so that
"newer" can be said.

### powerd: `PowerPolicy`, `PowerLog`

`PowerPolicy` is `policy_step` under the loop: `SampleTaken` composes confirmation, warnings, throttle
and next poll for one sample; `Due` is the poll timeout, `Early` a uevent or SIGUSR1, `Time` one
unit. A sample is what the policy can tell apart (bands of capacity, voltage and temperature, unread
values, the source). `held` (history) counts for how long the world has been empty, hot or plugged.
`MCPowerPolicy` has the sets of samples. Sampling, the state file, the row and the shutdown command
are one step here; their order is `PowerLog`'s subject. The test flags are off.

`PowerLog` splits a flush into its system calls (`Read`, `Rotate`, `WriteChunk`, `Sync`, `Replace`);
`Killed` may come between any two and inside a write, every call may fail. Rows are numbers of unit
size; `Torn` stands for half a row. `sys` and `FlushTool` are chef-state's shutdown. Not modelled:
the unbatched `csv_append` (no `-l`), a header cut short, rows of different sizes.

### buttond: `Buttond`

`s` is `struct server` with its recognizer; `Press`, `Release`, `RecogTick`, `Dispatch`, `Drain`,
`PassKey`, `Key`, `ServerTick` are its functions. The loop is two steps: `Round` (poll returns, both
devices are read, every event goes through `PassKey` and `Key`) and `RoundEnds` (tick, drain,
`server_tick`), with `Request`s of clients in between. `Time` may pass in both halves, at most
`Stall`: events wait in their device meanwhile, and are timed when they are read, as in the code.
History: `owed` (presses accepted and not yet answered), `bogus`, `length` (the physical length of the
hold that armed the power-off). Not modelled: force feedback and the vibrator, the screen flag, `-p 0`
and `-G`, a `poweroff` command that fails, device errors other than as `Restart`.

### The line sockets: `LineChannel`, `LineSrv`

`LineChannel` is what `linesrv.h` promises of one connection, without buffers or descriptors: requests
are handed over whole, in order and once, or rejected as too long; lines arrive whole and in order;
lossy lines may be left out, counted, and the count goes ahead of the next lossy line; a connection
ends only for a reason the header gives. `LineSrv` is `linesrv.c`: the table of slots with their
generations, the input and output buffers in bytes, `poll()` and the scan of `linesrv_handle` entry by
entry and line by line. Between any two of its steps the daemon may send, drop and adopt, which is what
callbacks do. `KeepsPromise` states that `LineSrv` implements `LineChannel` for every connection. A line
or request is two bytes, or `LongSize` for one that is too long: a write or read can stop inside it.
`MCLineSrv` has the scenarios. Not modelled: the tokenizer, `linesrv_close` (the end of the
daemon), lines longer than a buffer, socket errors other than the peer's end, `lineclient.c`.

### blesensd: `BleCore`, `BleLife`, `BleLinks`

`BleCore` is `pair.c`, `records.c` and the agent and bus life of `bus.c`: operators from the daemon's
struct to the daemon's struct. `BleLife` puts them under the daemon's messages and ticks, with
bluetoothd (external: `z`, and the replies and signals under way, `rep`), the storage child and the
saved record, and ends of either daemon. A call carries the identity its reply is checked against and
the life of the bus it was made in, which stands for the callback's own slot. History: `bond` tells whose
bond it is ("ours" or "stray", defined at the head of the module), `won` which attempt was confirmed by
StartNotify. `BleLinks` is `link.c`, `server.c` and the tick with one saved sensor: discovery, the
connection, notifications, and what each client has been told, where a client that does not read is
dropped by the line it cannot take. `MCBleLinks` has the scenarios. The two share no state but the
record, which `BleLinks` takes as loaded and unchanged. Not modelled: a second sensor (the slots do not
meet except in the table's size), the battery, found lines and RSSI, the loss of the system bus or the
adapter, decoding.

### The modem's file server: `Tftp`

`tftpserv.c` with `ramfs.c`: the table of transfers, both request handlers, DATA and ACK with windows,
`rsize`, `seek` and append, the loop and the sweep of idle slots. A file is a sequence of units, a block
`BlkSize` of them. The modem is external: it follows RFC 1350 and RFC 7440 (windows), repeats a request,
block or ACK, gives up, and sends an error. Datagrams come once and in order, as the socket has them,
unless the send failed. History, per file: the last socket that opened it for writing (`by`), what it
held then (`was`), changes counted (`n`); and `oks`, the sockets closed as "ok". `MCTftp` has the
requests. Not modelled: parsing and encoding, path translation, the RAM total, seeding, read errors of a
firmware file, no memory, the publication of the service. What `Exact` and `OkIsEarned` say of a read is
said of one with fewer blocks than there are numbers, of a file nobody writes meanwhile (`Steady`;
section 4 says what happens otherwise).


## 3. The runs

| Run | Shows | Distinct states |
|---|---|---|
| `MCGps.cfg` | all safety properties of gps-manager, `ParkedUntilAsked`, and that it implements `ClientLedger` | 560 578 |
| `MCGpsLive.cfg` | liveness of gps-manager | 47 260 |
| `MCGpsSwitch.cfg` | *violation*: finding 1 | - |
| `GpsSwitch.cfg` | the saved switch | 153 052 |
| `PowerLog.cfg` | rows under faults and kills, and that waiting ones reach the log | 209 464 |
| `PowerPolicy.cfg` | confirmation, shutdown and the charge throttle | 85 710 |
| `Buttond.cfg` | gestures, passed keys, power-off | 525 252 |
| `LineSrv.cfg` | the line sockets implement `LineChannel`, and drain | 81 865 |
| `BleLife.cfg` | a sensor's bond and record through pairing, saving and forgetting | 247 748 |
| `BleForget.cfg` | *violation*: finding 2 | - |
| `BleLinks.cfg` | links, discovery, and what watchers are told | 270 323 |
| `Tftp.cfg` | reads and writes of the modem | 134 788 |

What the properties say is stated at each in its module. The ones to read first:

* `NothingLeftBehind`, `RecordCoversCid`: in every state a death can meet, every CID the modem has given
  out is in use, in the record, in flight, or counted as leaked; GNSS never runs for a CID nobody will
  stop.
* `LeaseIsServed`, `EngagedForAReason`, `ComesToRest`: the lease count survives drops inside broadcasts;
  a lease is served or has a way on; GNSS is not up for nobody, and comes down.
* `RowsKept`, `StopKeepsRows`, `ShutdownRowIsSafe`: the log under kills anywhere.
* `ShutdownIsConfirmed` with `ShutdownIsPrompt`: neither early nor late, for any mixture of polls and
  uevents. The exact bound is `(N-1) * (2*Gap-1)`: an early sample can restart a gap's waiting.
* `SwitchIsKept`, `NewestWins`: the saved switch.
* `OneGesturePerPress`, `KeysReleased`, `PowerOffIsHeld`, `ArmedOnlyUnclaimed`: buttond.
* `KeepsPromise`, `ScanInBounds`: a slot reused in the middle of a scan is not read as the old one.
* `BondsAreKnown`, `ForgottenIsGone`, `SavedIsProven`, `Settles`: BlueZ's bonds and our records agree, over
  refusals, late answers and restarts.
* `WatcherIsCurrent`, `Follows`, `QuietUnlessWanted`: every watcher that keeps up has the current state;
  links and discovery become what clients ask for.
* `Exact`, `OkIsEarned`, `EndsWell`: what the modem takes for complete is exact, what is closed as ok was.

### Bounds, and why they are enough

* **gps**: one CID (the code holds at most one, and the record has one slot), two owner generations
  (one replacement), one lease (first and last are the same event; only zero or more matters to the
  core), fast failures before parking 1 in the safety run and 2 in the others (so both "retry" and "park" occur),
  one death. Forks all work or all fail: a handler's chain of steps ends at the first that works. The
  liveness run has one generation, no leaks and no drops: its obligations do not depend on them.
* **PowerLog**: 4 rows over a pending bound of 2 and a log bound of 2: overflow of both and a rotation
  occur. Two faults, two kills or one of each: a failure or a death during the recovery from another.
* **GpsSwitch**: 4 requests, 2 exits, 1 death: a waiting change is overtaken twice, also over an exit.
* **PowerPolicy**: `N = 3`, a gap of 2 units, polls of 3 and 4: samples can fall into, onto and behind a
  gap. 3 throttle levels: a climb with a step between the ends. One failing write, two runs of powerd.
* **Buttond**: two buttons on two devices (the chord, and devices read out of order), one client
  (claims of several only add up), 3 presses (a double tap and a third press, or a press after an
  armed one), 2 unread events per device (a release and a press read together), lateness of one unit,
  one restart with keys held.
* **LineSrv**: three connections over two slots (refused, reused while a scan is in the old one's
  entry), an output queue of two lines and a socket of one (full, partly written, a count that needs
  room of its own), requests that fill the input buffer exactly and overrun it. The scenarios divide
  the cases: much said, much asked, two peers, slots reused.
* **BleLife**: two attempts (answers to the first meet the second), one forget, and two different ones of these, in any
  order: an event (a lost link, a device gone or found, a cancel), a fault, a restart of either daemon.
  The device's own events wait while a message is unread (`MaxUnread`): they can overtake one.
* **BleLinks**: two clients (one dropped while the other is told), three requests and one event, with
  the sensor in reach or not; with scans and links together, two requests.
* **Tftp**: blocks of two units and four block numbers, so that a write of five blocks wraps; windows of
  1 to 3 for reads of at most three blocks, 1 and 2 for writes; every pair of `rsize` and `seek` that falls
  before, at and behind a block's and the file's end; a limit of 9 units within a window; one failing
  round and one retransmission or give-up, or two of the latter; four pairs of clients side by side, one
  of which empties the file the other reads.

Deadlock checking is off everywhere because each system may stop: bounds are used up, the phone is
off, or nobody asks for anything.

### Fairness, and why the code justifies it

* **gps**: `poll()` has a timeout of at most `GM_TICK_MS`, so a timer that has run out is acted on
  (`TickWith(TimersOut)`), and the owner check ages. Silence of NMEA can prevent "steady" for ever, so
  it is not forced. A child that was sent KILL exits and is reaped. Clients, the modem, a step that was
  not killed and a death of the daemon are never forced.
* **PowerLog**: the loop's timeout includes `flush_due`; a flush runs to its end; powerd is respawned
  and writes its first row.
* **GpsSwitch**: `save_check`, `load_check` and reaping run in the loop, the exit drain has a deadline.
  Storage owes nothing: a save may hang for ever.
* **PowerPolicy**: the poll timeout runs out, time passes, powerd is respawned.
* **Buttond**: `poll()` wakes for an event or at `server_deadline_ms`, a round ends, time passes. It is
  stated on `pc` (`LoopGoesOn`), which is enabled exactly when a round can start or end.
* **LineSrv**: the daemon's loop goes round and peers read what they are sent. Nobody has to ask.
* **BleLife**: bluetoothd answers what it takes up, ends its long calls and is started again; the loop
  reads its messages and ticks; the storage child ends; init respawns the daemon.
* **BleLinks**: the same for the loop, stated by what enables it: a round reads at most 64 messages and
  then gets to the clients and the tick. The reconnect window lapses, the adapter is switched on
  again. Nothing makes a link come up.
* **Tftp**: as long as a socket waits to be served, a slot to be swept, or the modem to read an answer or
  to start a job, one of them goes on; the steps that are not forced (retransmissions, failing rounds)
  are bounded.


## 4. Findings

1. **`gps_switch`** (`server.c:273`): `enable` broadcasts the switch before it leaves DISABLED. A watcher
   dropped by that line has the leases counted in between; the core starts nothing in DISABLED, and the
   count after it finds no change. GNSS stays off with a lease held.
2. **`ble_forget`** (`bus.c:664`): when bluetoothd restarts while its RemoveDevice is under way,
   `bluez_reset` drops the callback but not `forget_inflight`, which only the callback clears
   (`pair.c:371`); `bd_forget_step` (`pair.c:350`) then never asks again. `bluetooth.md:272` says that a
   pending forget survives either daemon's restart.

Each violation run checks the one property the docs state, with the rest of the model unchanged.
Deviations that the models contain and no run of their own shows:

* `core.c:314`: a bring-up interrupted by the stale CID whose lease goes meanwhile ends without
  `gm_finish`; `up_ms` keeps counting in OFF (`gps.md:75`).
* `main.c:274`: after a *death* of gps-manager, what its saver had forked can write an older switch value
  over the next instance's.
* `policy.c:132`: after a failed write of the throttle level, `set_level` does not write again the level
  it believes in, so an unplug may not reset a throttle that is on.
* blesensd. Not repeated: a refused GetManagedObjects (`bus.c:623`), StopDiscovery, or RemoveDevice of a
  failed attempt. A pairing is told as done before its record is saved, and an exit within an attempt
  leaves its bond. After `Connect` has run into its 25 s, nothing takes the connection back that BlueZ
  may still make. A watcher that begins between the lapse of the reconnect window and the next tick is
  shown the state before it until that tick (`late` in `BleLinks`).
* tftp. A repeated write request empties a file that was acknowledged (`tftpserv.c:564`); one that finds
  no slot has emptied it already (564 is before 571). A read without options of a file shorter than a
  block does not set `finishing` (528), so that the slot waits for the sweep after an empty second
  block. A read of more blocks than there are numbers starts again at the file's beginning, and a
  window that does not divide 65536 is misaligned after the wrap. A repeated block ends a write, a
  repeated ACK sends its window again; a failed send of an ACK is not noticed (807). A file that a second
  transfer cuts while it is read may be closed as "ok" early: a repeated ACK has a block sent again
  that is now the last one, and the ACK of that block from when it was full is then `final_block` (677).

Where a property of a passing run would meet one of these, it leaves out only the cause: drops at the
switch line in `MCGps.cfg`, deaths in `NewestWins`, failed writes in the part of `ThrottleFollowsSupply` about
the unplug, a forget cut off by bluetoothd's restart (`Stuck`) in `Settles`, late watchers in
`WatcherIsCurrent`, files opened again or written while they are read in `Exact` and `OkIsEarned`.


## 5. The proofs

Eight modules of proofs, each beside the module whose name it bears (`GpsCoreProofs` has the
operators' lemmas that `GpsManagerProofs` builds on). They hold for **every** value of the constants:

| Theorem | Says |
|---|---|
| `GpsManagerProofs!SpecTypeOK` | `Spec => []TypeOK` |
| `SpecStepMatchesPhase` | a qmicli is in flight exactly in the phases that wait for one |
| `SpecNothingOwnedAtRest` | idle or waiting for an owner, the daemon owns nothing |
| `SpecRecordCoversCid` | the record always holds the CID the daemon answers for, with its owner |
| `SpecNothingLeftBehind` | every CID the modem has given out is in use, recorded, in flight or counted as leaked; no GNSS without a stopper |
| `SpecEngagedForAReason` | GNSS is up or coming up only for a lease, a grace period or a step still to end |
| `SpecLeaseIsServed` | at rest there is no lease, or a failure with a way on |
| `SpecParkedUntilAsked` | a parked daemon stays so until a retry, the last release or a new instance |
| `SpecKeepsLedger` | every step is a step of `ClientLedger`, or a stutter |
| `SpecSound`, `SpecControl` | the inductive invariants behind them |
| `GpsSwitchProofs!SpecSwitchIsKept` | the newest change is served and saved, or a log line or a death says why not |
| `SpecNeverOlder` | before any death, no write replaces a newer value |
| `PowerPolicyProofs!SpecShutdownIsConfirmed` | a shutdown only after `N - 1` gaps of an empty or hot battery |
| `SpecShutdownIsPrompt` | ... and no later than `(N - 1) * (2 * Gap - 1)` |
| `SpecThrottleFollowsSupply` | types; the throttle climbs by its step and is off without a supply |
| `PowerLogProofs!SpecRowsKept` | types; no row lost unaccounted, none out of order, repetitions only by a cut flush |
| `SpecStopKeepsRows`, `SpecShutdownRowIsSafe` | what is safe when the system is off, and when `poweroff` runs |
| `LineSrvProofs!SpecScanInBounds` | the scan for the next newline begins within what was read, whoever is dropped and adopted in a callback |
| `SpecIInv` | used slots and open connections are one to one, no buffer holds more than its size, a scan or poll entry is of a client still there or seen to be stale |
| `ButtondProofs!SpecKeysReleased` | types; no key stuck down for other programs |
| `SpecOneGesturePerPress` | an accepted press is answered by one gesture, and a gesture answers a press |
| `SpecPowerOffIsHeld` | a power-off follows one press held for its two times, less at most `Stall` |
| `SpecArmedOnlyUnclaimed` | it is armed only where nobody who is still there claims power.long |
| `ButtondProofs!SpecIInv` | the inductive invariant behind them |
| `BleLifeProofs!SpecBondsAreKnown` | a bond we made can be undone; a forget is on disk before bluetoothd is asked; the agent is the default only while it pairs or is taken back |
| `SpecForgottenIsGone` | a sensor is told forgotten only when neither record nor bond is left |
| `SpecSavedIsProven` | a sensor is saved only by the attempt whose own subscription was confirmed |
| `BleLifeProofs!SpecIInv` | the inductive invariant behind them |

Assumptions are the named ones of the modules (`CidsAssumption`, `ChoicesAssumption`, a
`BoundsAssumption` each): ids are positive and finitely many, bounds are natural numbers, a choice is
taken from what there is, a line fits into a queue and a socket (`LineSrvBounds`). TLC evaluates them in every run. Two theorems have a hypothesis besides:

* `SpecNothingLeftBehind`: `Cardinality(Cids) <= LeakCap`. The model stops counting leaks at `LeakCap`,
  the code never does; with fewer than that to lose the cap is not met.
* `SpecLeaseIsServed`: `"SWITCH" \notin Drops`, no watcher is dropped by the switch's own line. With
  one, the code breaks the property: finding 1.

### gps-manager

None of the properties is inductive: that the record covers the CID depends on the stale CID being gone
before a bring-up takes a new one, which depends on the phase, which depends on which children are
alive. `Sound(g)` (`GpsCoreProofs`) says phase by phase what may be alive and owned. It holds *between*
handlers; in the middle of one the struct is only `Base` (typed, record right, no session without a
CID), and a helper's lemma asks for what its callers have established by then. There is one lemma per
function of `core.c`, in the order of the calls (`FinishSound`, `TeardownSound`, `StepDoneSound`, ...),
and the step lemmas of `GpsManagerProofs` (`LoopKeeps`, `ReapKeeps`, `RespawnKeeps`, `ModemKeeps`) put
them under the actions. `gm_set` with its broadcast, which may count the leases again from inside, is
the only helper every path goes through; `SetKeeps` shows that a drop changes nothing that is owned.

`IInv == TypeOK /\ Sound(g) /\ Traced /\ Covered /\ Orphans` joins the daemon to the modem. `Traced` says
whose the ids are that the modem holds (the present owner's), that a fresh owner check is right, and
what a step in flight has already done at the modem; `Covered`, that the ids nobody remembers are no
more than are counted, where an allocation that was killed counts in advance (`Reserved`); `Orphans`,
that no session runs for an id nobody will stop. `NothingLeftBehind` counts with it. `KeepsLedger` is proved from the
same invariant, one step per action of `GpsManager`: an action takes an id, gives one back, settles a
note, or does nothing the ledger sees.

`Control(g)` (the second part of `GpsCoreProofs`) is the part about *why* GNSS is in a state: the count is the held
leases while the switch is on (`Counted`), DISABLED is shown with the switch off only (`ShownOff`),
a failing teardown ends failed (`FailsLate`), and each phase has a reason (`Reasoned`). Here a drop in
a broadcast does matter, and each operator's lemma says how its result counts the leases again.
`Served(g)` is apart because finding 1 breaks it and nothing else.

### The others

* **GpsSwitch**: values are saved forwards: what is being saved is no older than the file or than what
  an orphan may still write (`Forwards`). A saver runs only for a request to this instance, and only it
  keeps a change waiting (`SaverHasCause`); hence the newest change is on disk, in the saver, or waiting
  for it (`NewestIsSafe`), as long as nothing was reported or orphaned.
* **PowerPolicy**: with `n` confirmations counted and the last `age` units ago, the condition has been
  held for at least `(n - 1) * Gap + age`, and the poll still to come falls within `n * (2 * Gap - 1)`
  (`Accounts`). The lower bound gives confirmation, the upper one promptness. The throttle's level
  accounts for the time since the plug in the same way (`LevelIsEarned`).
* **PowerLog**: a row is in `log.pending`, and a file is taken apart in three places: `log.csv.1`,
  `log.csv`, and the rows a flush under way has read and not yet brought there (`Unwritten`). How often
  a row occurs is summed over the three, and their order is that of the concatenation: then a rotation,
  a write of any length, a torn one, a failure and a death are each a small change of the parts (lemmas
  `Rotate...`, `Write...`, `Cut...`, `Drop...`, `Lose...`). That rows are repeated only by a flush that
  was cut short needs that such a flush has its whole batch still pending (`BatchIsPending`), and that
  the process knows what it has synced (`ProcessOk`, `FilesOk`).
* **LineSrv**: the operations act on a pair of table and sockets, and a pair is `Sound` when slots and
  open connections are one to one and each buffer is within its size. Each operation has a lemma that
  its result is sound and what it may have done to the *other* slots (`Later`, `LaterBut`): nothing but
  free them or fill them with a new generation. A generation never comes again, so where
  `linesrv_handle` finds the one it began with, nothing has been read into that slot since, and the
  scan's start is within it still. That is why the invariant speaks of all slots and not only of the
  scan's.
* **Buttond**: a round reads any number of events, and each may dispatch several gestures. Both loops
  are functions of a position (`Drain`, `ReadEvents`), so what holds of the model's operators is shown
  for one step, and for all positions by taking the least that would fail (`LoopRuns`, `LoopKeeps`).
  Each operator has a lemma with what it changes (`PressIs`, `ReleaseIs`, `TickIs`, `DispatchIs`,
  `KeyIs`). The power-off needs most: the invariant follows the press the power-off was armed by
  through a queue that is half read. `Follows` says that the next unread event of a button that
  is down is its release, so the two cannot be taken for one press; `Lasts`, how long the press lasts,
  or how long its release says it lasted; `NotLate`, that a release which came after the reading is no
  more than `late` short, which is where `Stall` comes from. `Shown` is the same for the keys passed on.
* **BleLife**: daemon and bluetoothd see each other through two queues, so no property is inductive:
  each needs what is said of the calls and answers still on their way. `Sound(d, y, q, f, w)` is said of
  a daemon, a bluetoothd, the messages the daemon has not read, the file and the confirmed attempt, and
  each C function of `pair.c`, `records.c` and `bus.c`, and each thing bluetoothd does, keeps it with
  the other side as it is. A call that is made once (`Register`, `Unregister`, `Forget`, `PairBond`) is
  in one place: sent, being served, or answered (`OnePlace`), and the flag that keeps it from being made
  again is up meanwhile (`Flying`), unless it is of an earlier life of bluetoothd. So a second answer
  cannot come, and a late one is of another attempt and is told by its id (`Told`). A pairing that is
  not awaited any more has its cancel behind it in the queue, and behind that the removal of the device
  (`Bonding`, `Removes`): a bond that was made too late falls with it (`Bonded`). The agent is the
  default only with `areq`, with its release due, or with the end of the connection on its way
  (`Granted`). The file agrees with the records or a save is due (`Recorded`, `Filed`), and the forget
  waits for the save (`Flags`). `Held`, that an attempt has a device, holds between messages only and is
  apart. A dozen lemmas (`ConfirmKeeps`, `BondKeeps`, `FoundKeeps`, ...) are for bluetoothd, whose side
  is the model's.

### Only model-checked

* *Out of the prover's reach*: everything under fairness and every "leads to" (`ComesToRest`,
  `RowsReachTheLog`, the second half of `NewestWins`, `EmptyShutsDown`, `CoolIsReleased`, `Drains`,
  `Settles`, `Follows`, `EndsWell`, ...); `BleLinks`, whose broadcast and drop call each other and are
  RECURSIVE.
* *Not proved*: `KeepsPromise` of LineSrv (its mapping filters byte sequences by `SelectSeq`, whose value
  for every sequence takes an induction over data), and Tftp, whose transfers are correct by what has
  been put together block by block at both ends.


## 6. Not modelled, and the plan

Not modelled because there is no state machine worth checking: the command-line clients, JSON and
logging helpers, drawing and fonts, imported codecs (QRTR, rmtfs), servreg-locator, build scripts. Out of
TLC's reach: floating-point heading and calibration in sensord.

The order of work:

1. *(done)* gps-manager core, daemon and ledger; its type and ownership invariants proved.
2. *(done)* powerd's log and policy; the saved GPS switch; buttond without the vibrator.
3. *(done)* the line sockets, as the contract `GpsManager`, `Buttond` and `BleLinks` assume.
4. *(done)* blesensd's pairing, records, links and watchers; the modem's file server.
5. *(done)* proofs: the safety of GpsManager and its refinement of the ledger, GpsSwitch, PowerPolicy,
   PowerLog, LineSrv's scan, Buttond, BleLife. Next: `OkIsEarned` of Tftp.
6. `ButtonVibe`: force-feedback playback and buttond's own buzzes over one timed output; sensord's
   subscriptions and reconnect; sensor-proxy; qmuxd-lite's clients (to replace the modem GpsManager
   assumes); chef-state's seal; `wifi.c`.
7. A failing `DIR/state` in GpsManager, a failed `poweroff` in PowerPolicy and Buttond; `LineSrv` composed with
   one of its daemons.

A component's safety and liveness share a run where the state space allows; gps-manager's do not,
because its safety run has more watchers, owners and failing forks than liveness can afford.
