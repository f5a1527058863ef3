# propwash: a TLA+ model of the simulator core and what is proved about it

propwash flies real Betaflight in a process (`propwash_core`) whose clock is
wound by its clients, one UDP packet per simulated frame. This directory models
the parts of it whose correctness depends on order: the server loop and its
clock, the TCP port under the CLI, the rewind behind every reset, the clients'
frame pipeline, contacts and the damage they do, the powertrain and the ways to
start it over, the RC input, and the life of the configuration. Each module is
checked with TLC on a small instance, and the safety properties of all nine
components, among them four refinements of abstract specifications, are proved with
TLAPS for every value of their constants.

Paths below are relative to the repository's root.

## 1. The system and its parts

    Godot client / gym / testers            Configurator, pw_cli, demo pilot
          | UDP: PW_STATE_IN  ^                     | TCP 5761: MSP and CLI
          v      PW_STATE_OUT |                     v
    Server::run (sim thread) ------------>  dyad worker thread
          | Sim::update, Sim::reset           | serial_tcp rings, pwDyadMutex
          v                                   v
    Physics  <---->  Betaflight (SITL target, static state, eeprom file)

Two OS threads share one process. The *sim thread* runs everything but the
sockets of the UARTs: it waits for a datagram, advances physics and firmware,
runs the CLI, and on PW_CMD_RESET copies the whole static memory back to what it
was after the first boot. The *worker* (`tcpThread` in `pw_sitl.c`) runs the
dyad event loop under `pwDyadMutex`. Clients are separate processes.

| Component | State it keeps | Operations | What makes it hard | What makes it correct | Module |
|---|---|---|---|---|---|
| Server loop and clock (`core/net/server.cpp`, `core/sim/sim.cpp`) | locals of `run` (profile, sticks, override, mode, last packet), accumulator, firmware clock | PW_INIT, PW_STATE_IN, PW_MOTOR_IN, PW_RC_OVERRIDE, PW_COMMAND, receive timeout | timeouts against packets, two peers, state that outlives a session or a reset | only requests move lockstep time; the profile and neutral sticks after any reset; firmware and physics agree on the time; MSP never dies | `LockstepCore`, `LockstepContract` |
| Serial TCP and dyad (`drivers/serial_tcp.c`, `compat/dyad/dyad.c`, `pw_sitl.c`) | stream states, `s->conn`, two rings, three locks | accept, receive, send, close, timeout, reconfigure | two threads, callbacks under a lock, clients that die at any time, an in-process reboot | one live client, newest wins; bytes in order; no lost reply, no deadlock | `SerialTcp`, `UartContract` |
| Static snapshot (`core/sim/static_snapshot.cpp`) | exclusions, section copies | exclude, take, restore | interval arithmetic over arbitrary ranges, repeated inits | restore is exact outside the exclusions and never touches them | `StaticSnapshot`, `SnapshotContract` |
| Frame pipeline (`client-godot/scripts/main.gd`, `python/propwash_gym/.../env.py`) | pose, velocities, skip counter, last reply | frame, give-up, R, T, a new episode | replies of older packets, a core that is still booting | constant lag; an override is never undone; a reset's velocities arrive | `FramePipeline` |
| Contact manifold (`core/sim/physics.cpp`, and `main.gd` or the tester as its client) | the client's pose, the core's contacts and velocities | depenetrate and report, load, tick, reset | two programs evolve the same depth | they agree at every load; an approaching point is pushed; rest is still | `ContactManifold` |
| Contact damage (`core/sim/physics.cpp`) | per-motor damage, cooldowns, kick, latch, status | sub-tick over a manifold, repair, reset | several contacts per sub-tick, timers overlapping | damage paced, kicks bounded, nothing heals, the latch means grounded | `ContactDamage` |
| Powertrain (`physics.cpp`, `sim.cpp`, `bf.cpp`) | motors, battery, noise stream, the firmware's motor statics | tick, replayed tick, PW_INIT, repair, reset, firmware reboot | five ways to start over, each resetting something else | a reset is a fresh process; burned out is burned out; equal seeds give equal noise; arming grace ends | `Powertrain` |
| RC input (`core/input/joystick.cpp`, `core/main.cpp`) | descriptors, axis maps, channels, the calibration file | scan, open, poll, calibrate | handsets come and go; one process writes what the next reads | no lost descriptor, EdgeTX preferred, calibrated sticks rest low | `Joystick` |
| Configuration, eeprom, CLI (`pw_sitl.c`, `cli/cli.c`, `core/sim/bf.cpp`) | file, image, `eepromFd`, parameter groups, CLI flags | CLI commands, save, exit, reboot, reset, kill | three ways to restart, statics rewound under an open file | a start flies what was saved; never armed without the pins | `FirmwareConfig`, `ConfigContract` |
| Rigid body, filters, sensors (`physics.cpp`, `pw_sitl.c`) | poses, rpm, filter histories | sub-tick integration, telemetry encoding | floating point | energy, accuracy | left open in `ContactManifold` and `Powertrain` |
| CLI clients (`tools/bfcli`, `demo_pilot.gd`) | socket, prompt matching, step | command, save and reconnect, retune | prompts in partial reads, a reboot under the connection | the tune that flies is the one sent | planned |
| Demo director, world, quality, shaders | scene, camera | per frame | none in the sense of this project | - | not modelled |
| Wire protocol and codecs | none | pack, unpack | four copies of one layout | compared byte by byte by `codec_parity_check.py` | not modelled |
| OSD display port, scheduler patch | character grid, task list | draw, select | none beyond Betaflight's | - | not modelled |
| `tools/sysid`, `model/`, build files | files | offline | none | - | not modelled |
| Betaflight | - | - | a submodule outside the tree | - | external |

PROJECT.json lists the same parts with their sources, and under "hazards" each
place where the code is hard to test, with the properties that watch it.

## 2. The modules

Every module's VARIABLES carry the names of the code's variables where TLA+
allows it, and every operator that models code is mapped to its lines in
PROJECT.json ("map"). History variables are marked as such: they are
written, never read by an action. Operators marked `\* mutant` are deliberately
wrong variants of the definition below them (a dropped guard, a missing reset, an
off-by-one); no action uses them. Putting one in the place of its neighbour
breaks the property it is listed with, which shows that the property depends on
that line of the code.

**LockstepCore.** One action per packet type, one for the idle tick, one for a
receive timeout that does nothing, one for passing wall time. A time is a number
of microseconds; wall time is kept only as what the code compares, the silence
since the last driving packet, saturated at `IdleMs`. `Update` and `UpdateMotors`
are the two advances; both go through `Accumulate`, the sub-tick accumulator of
`sim.cpp`. `Base` is either the running simulation or the rewound one, because
the first driving packet of a process resets before it advances. The sticks are
reduced to the arm switch, the vehicle to its profile, a manifold to its presence.
Whether a local joystick is open is chosen once.

**LockstepContract.** What a client is promised (docs/ARCHITECTURE.md,
`PW_CMD_LOCKSTEP`, `CLIENT_IDLE_MS`): time moves by requests, a rewind takes it to
zero, and the core moves it by itself only when told to or when the client has been
given up. `LockstepCore!ContractSpec` is the refinement; the mapping shows time as
zero before the first contact, since the first contact discards what idle ticks
did, and the client as absent once the silence has reached `IdleMs`.

**SerialTcp.** One UART. A client is a TCP connection; it may connect, send a
command byte (`ask` or `save`), leave with FIN or abort with RST at any time. The
worker is a program counter through one round of `dyad_update` (timeouts and
destroyed streams, reads, writes, accepts, under `pwDyadMutex`); callbacks are
steps of the worker. The sim thread is a program counter through the CLI's
read-execute-print and the reboot: `tcpRead`'s unlocked poll, the blocking write,
`tcpDataOut` with its unlocked test of `s->conn`, the wait for the answer to
leave, `tcpReconfigure` and the reset of the rings. `txLock` is taken by the sim
thread only and is no variable. A lapped ring is a state (`overrun`), since
nothing in `tcpDataIn` prevents it. `Rewind` is a PW_CMD_RESET while the port is open:
the statics go back under `pwDyadMutex`, all but `serial_tcp.c`'s own, and the
firmware's `init()` opens the port again on the way a reboot does.

**UartContract.** What the port owes its users, with neither threads nor locks nor
rings: one client is plugged in at a time and nobody is replaced without being
unplugged; only its bytes arrive, in order, until one too many costs them all; a
command that was read is answered once, before the next is read; answers leave at
once and to somebody, and are lost only when a reboot or a reset opens the port again.
`SerialTcp!UartSpec` is the refinement: the slot `s->conn` is the owner, what a reader
would get from a ring is a queue, and the sim thread's place says whose answer is owed
and which direction is still to be opened.

**StaticSnapshot.** Memory is a function from addresses to bytes; the sections are
a constant sequence. `snapshotRestore` is modelled statement by statement (sections,
pieces, the search for the next hole, the copy), so its termination and what it
writes are properties of the loop. The sim thread holds `pwDyadMutex` throughout,
so nothing else runs in between.

**SnapshotContract.** What `static_snapshot.h` promises: one step takes the memory
back to the image, all of it but the shield, and neither changes once the image is
taken. `StaticSnapshot!RewindSpec` is the refinement. While the walk is under way the
memory counts as it was when it began; `fresh` (the history `rewound`) tells a
rewind from a step of the program, which may write anything.

**FramePipeline.** The client (Godot's or the gym's, which differ in what they skip
and reset), two FIFO channels on one host, and the core reduced to "answers every
PW_STATE_IN, in order". A pose is reduced to its lineage, the number of the override
it descends from, a velocity to the reset it was integrated since. `misses` counts
frames given up whose packet will still be answered.

**ContactManifold.** The client's `deep` and the core's `contacts` are two reckonings
of the same depths. A load is the client's depenetration, its report (any order, any
surfaces, as many as fit) and `updateState`'s depth continuity, in which a new contact
takes over the depth of the first old one of its surface within 2 cm. A tick chooses
any new velocities, as the rest of the physics may, and moves the depths with them.
Surfaces share one normal: a manifold of several, which `main.gd` resolves one after
the other, is abstracted to its common direction, and a frame is a constant number
of ticks. Reports come from `main.gd` or from the tester's `groundManifold`.

**ContactDamage.** One sub-tick is `BeginTick`, a step per contact, `FinishDamage`,
`CalculateMotors`. Damage is a level, the outcome of the geometry (which props a
contact touches, how hard) is chosen by the environment. The strike's yaw sum is
kept as how often each motor is counted in it.

**Powertrain.** `sim` is what `SimState` holds of motors, battery and noise, `fw` the
firmware's statics the glue touches, `snapshot` what a reset restores of both. A
tick is `UpdateGyro`, `BFUpdate`, `CalculateMotors`, `UpdateBat` in the code's order;
a motor turns or does not, and its heat and direction are chosen freely. The five ways
to start over are `ReinitPhysics`, `Repair`, `Reset`, `SystemReset` and `Init`. The noise is
its place in the stream, so that a draw that is skipped or added shows.

**Joystick.** The process is off, scanning, flying or in one of the phases of a
calibration (`sweep`, `settle`, `write`); it may be killed in each. The kernel's queue of
an axis is the set of its undelivered positions: only the extremes and the newest of them
matter to `drain` and `poll`. Handsets are plugged and unplugged at any time, and a
descriptor whose device left stays dead. `Apply` is the integer image of the code's
float map, with `Scale` for 1.0.

**FirmwareConfig.** The eeprom file, `eepromData`, the parameter groups, the CLI's
flags, and `eepromFd` as the number of a FILE, open or closed by now. `fopen` may return any
FILE that is not open, since C promises no more; closing a closed one ends the process
(a `Kill`) or goes unnoticed. The three restarts are
`FirstBoot`, `Reboot` (`systemReset`, statics kept) and `Rewind` followed by
`BootRewound` (statics rewound, `eepromFd` among them). A kill may fall into a
write of the file. Loading, arming and opening the CLI are Betaflight's, modelled
from how this repository calls them.

**ConfigContract.** The pilot's view of the same: an edit is in force at once and on
disk after `save`, a batch with a rejected line is not saved, every start flies what is on
disk whichever way the firmware starts over, and the session and the block on arming
outlive a reboot but no reset. `FirmwareConfig!ConfigSpec` is the refinement; it hides the
image, the FILEs and the pins, and `Phase` says whether the configuration is being written
or loaded. A configuration read through a NULL `eepromFd` would start with a tune that is
not the disk's, which the contract has no step for.

The modules are not composed into one specification: the server loop and the port share only
the sim thread's turn, and the interaction that matters between them (a reset under
an open port, a rewound `eepromFd`) is in the module it affects: `SerialTcp!Rewind`,
`FirmwareConfig!Rewind`, `Powertrain!Reset`. All three take the rewind as one step,
which is what `RewindSpec` says of the walk. Where one module
relies on another, it names it: FramePipeline on LockstepCore's one reply per packet,
FirmwareConfig, Powertrain and SerialTcp on SnapshotContract's one-step rewind,
ContactDamage on a manifold such as ContactManifold loads, LockstepCore on a joystick
that was opened once.

## 3. The runs

| Run | Module, cfg | Shows | Bounds |
|---|---|---|---|
| `core_contract` | MCLockstepCore, CoreContract | types, ClocksInOrder, ProfileInForce, SticksAsked, refinement of LockstepContract, MspComesBack | tick 2, clamp 5, idle tick 3, deltas -1, 1, 4, 9, two profiles, two peers, with and without joystick, 4 datagrams, 2 idle ticks |
| `core_stale_sticks` | MCLockstepCore, CoreStaleSticks | **violation** of NeutralAfterReset | 3 datagrams |
| `tcp_port` | MCSerialTcp, TcpPort | refinement of UartContract, OneLiveClient, RingIsFifo, RoundEnds, ClientAccepted, RebootCutsNoReply, CorpseDropsNobody | two clients, rings of 3, two command bytes or resets |
| `tcp_null_stream` | MCSerialTcp, TcpNullStream | **violation** of WriteHasStream | rings of 3 |
| `tcp_stuck_reboot` | MCSerialTcp, TcpStuckReboot | **violation** of RebootReturns | one command byte or reset |
| `snapshot` | MCStaticSnapshot, Snapshot | refinement of SnapshotContract, RestoreIsExact, HolesAreKept, RestoreEnds | 7 addresses, sections of 4 and 2 with a gap, three exclusions out of six ranges |
| `pipeline` | MCFramePipeline, Pipeline | LagIsTheMisses, OverrideSticks, VelocityIsNew | both clients, 6 frames, two given up, 3 overrides, one PW_OSD |
| `damage` | MCContactDamage, Damage | KickCountsEachPropOnce, CrashGroundsQuad, OnlyRepairHeals, ScrapingIsPaced | two motors (symmetric), 3 levels, 2 contacts, kick of 2 and cooldown of 4 sub-ticks |
| `config` | MCFirmwareConfig, Config | refinement of ConfigContract, ArmedIsPinned, ArmedFliesSaved, OnlyResetsDangle, OnlyRewindUnblocks, StartsFlySavedTune | two tunes, 3 resets, 4 open files |
| `joystick` | MCJoystick, Joystick | OneDescriptor, PrefersHandset, RestReadsLow | two slots, one low axis, positions -2, 0, 1, 2 of full scale 2, scale 12, 2 plugs or unplugs |
| `contacts` | MCContactManifold, Contacts | WithinTolerance, ApproachIsResisted, RestIsStill | three points, two of them near each other (symmetric), two surfaces (symmetric), room for two contacts, 2 ticks, speeds -1 .. 1 |
| `powertrain` | MCPowertrain, Powertrain | ResetIsFresh, BurntStaysDead, NoiseKeepsTime, GraceEnds | two motors (symmetric), two profiles, a millisecond of 2 ticks, 3 ticks after a start |

Types are proved for every component; `core_contract` checks them too, since its type
invariant holds the accumulator's residue below a tick.

Why the bounds are enough. *Core*: the tick does not divide the idle tick, so
residues of both parities occur; the deltas lie below, between and beyond the clamp
and zero; four datagrams suffice to drive, override, reset and drive again, from
both peers. *Port*: a ring of three holds two bytes, so that they have an order, and its indexes
wrap within a run;
two clients give every order of a reconnect against the close of the old
connection, and the two sends are a `save` before or behind another command, or a
reset under a client whose command is on its way. A ring is
lapped only by a third byte: that case is in the proofs, which hold for every size and number of
bytes (`RingKeepsOrder`, `PortIsUart`), and in TcpPort.cfg with `MaxSends = 3` and without
RoundEnds and ClientAccepted (2.0 million states, a minute). A third
client adds a longer backlog, which is drained in order. *Snapshot*: six ranges hold
every relation of two intervals that the hole search distinguishes (empty, equal
start, nested, overlapping, crossing the section's end, covering a whole section),
and three exclusions plus the bookkeeping give the search a wrong candidate before
and behind the right one. *Pipeline*: the depth is the number of frames given up, so
none, one (a skip covers it) and two (it does not) are all the cases; six frames let a
stale reply travel through twice.
*Damage*: two motors suffice to tell "every" from "one", and the cooldown is at its
least allowed multiple of the kick, the hardest case of the assumption. *Config*: a
saved and an unsaved tune need two, and with four files and three resets the limit
is just not reached. *Joystick*: two slots give an EdgeTX handset before and behind
another joystick, and a slot that fills behind the scan; the axes are independent of
each other, so one suffices, and its positions are both ends, the middle (a tie) and one
that is neither; two plugs unplug the handset in use and bring another. *Contacts*: two
near points give a contact a wrong predecessor of its own surface, the third one that is
no candidate; three points in a manifold of two overflow it; the tolerance exceeds the
slop, so that depths are kept as well as re-anchored. *Powertrain*: one motor burns out while
the other flies, in two ticks; the third separates "in the first millisecond" from after it; the
firmware sleeps through the first tick after each of its inits.

Symmetry. In `damage` and `powertrain` the definitions name no motor; in `contacts` the two near
points and the two surfaces occur only as arguments of `=` and of `Near`, which is
invariant under exchanging the two points, and no CHOOSE picks one of them (`First` and
`Lift` pick numbers). These runs check no liveness property.

Fairness. `core_contract` assumes for MspComesBack that the loop comes round and that wall
time passes: `recv` has a 5 ms timeout, and the traffic of a run is finite. `tcp_port` and
`tcp_stuck_reboot` assume weak fairness of each of the two threads: they are OS
threads, the worker polls with a zero select timeout and a `usleep`, and both take
only locks that the other holds for a bounded time. `snapshot` assumes that a
sequential loop goes on. Nothing is assumed of clients, pilots, the network or the
operating system's kills. Deadlock is checked in every run; `RecvTimeout`,
`Done` and `Dead` are the steps of a system that has nothing to do or has ended.

## 4. What is proved

Each `...Proofs` module extends its component and holds, for every value of the
constants that the component's assumptions admit:

| Theorem | Says | Argument |
|---|---|---|
| `TypeCorrect`, `ClocksStayInOrder` (LockstepProofs) | types, the residue below a tick included; the three clocks keep their order | the accumulator lemma: for every residue below a tick and every clamped delta, ticks and new residue add up to what was asked; replay adds what was asked to the reported time and no more than that to the world |
| `ProfileKept`, `SticksAreAsked` | the vehicle in force, the sticks | each inductive together with the types; `SticksAsked` needs that an active override was asked for since the last reset, and that a rewind drops it |
| `Refinement` | LockstepCore implements LockstepContract | one case per action: an idle tick in lockstep happens before the first contact, where the mapped time is zero, or after a silence of `IdleMs`, when the contract's client is absent |
| `PipelineTypes`, `LagStays`, `OverridesHold`, `ResetsArrive` (LockstepProofs) | the frame pipeline, for any number of frames, overrides and OSD packets | a packet or reply has a rank, how many states are in the pipeline up to its own, replies before packets; the pipeline holds `misses` of them between frames and one more within; whatever is of an older lineage has a rank within the replies still to be skipped, whatever was integrated before the last reset one within `misses` less the replies applied since; a reset that has not arrived is the last command on its way. Each step moves every rank by what it takes off the front |
| `PortTypes`, `NewestClientWins`, `RebootKeepsReplies`, `CorpsesAreHarmless`, `RingKeepsOrder` (SerialTcpProofs) | types; the slot is the one live stream; replies handed to dyad survive the reboot; corpses drop nobody; a ring that was not lapped is a queue | the invariant relates the worker's and the firmware's place to the owner of `pwDyadMutex`, `joining` to the place between close and assignment, and live streams to `conn`; it needs the lock discipline, because only the owner of `pwDyadMutex` may change `conn`. The queue compares the ring slot by slot with what arrived, and needs that a polled byte is still there when it is read |
| `PortIsUart` (SerialTcpProofs) | SerialTcp implements UartContract | `Push` and `Pop` are `Append` and `Tail` on what a reader would get (two lemmas about indexes modulo the ring's size); a client's bytes carry its name; `onAccept` assigns a slot that `onClose` has cleared; the byte in hand is the head of the queue; every other step leaves the UART as it is, or unplugs |
| `NoCircularWait` (SerialTcpProofs) | the two threads never wait for each other's lock | each lock's owner is at a known place: the firmware waits for `rxLock` or `pwDyadMutex` only while it holds neither, the worker for `rxLock` only in a callback |
| `SnapshotTypes`, `ExactRestore`, `HolesKept` (StaticSnapshotProofs) | the restore is exact and never writes an excluded byte, for any sections and exclusions | a loop invariant: everything below the position is restored or protected, the hole so far is free of every exclusion already looked at, the rest is as it was when the restore began |
| `RestoreIsAtomic` (StaticSnapshotProofs) | StaticSnapshot implements SnapshotContract | with the memory mapped to `before` during the walk every step of it but the last is a stutter, and the last is the rewind because of `ExactRestore`; an exclusion only adds to the shield, and none comes after the take |
| `WalkAdvances` (StaticSnapshotProofs) | every step of a restore but the last goes ahead in section, position and table | the hole that was found ends behind the position, so the piece after it starts further on; with bounded tables this is the safety half of RestoreEnds |
| `DamageTypes`, `KicksAreBounded`, `CrashedCannotHover`, `DamagedAreReported`, `ScrapingPaced`, `NothingHeals` (ContactDamageProofs) | the damage model | the cooldown of every prop counted in a running kick outlasts the kick, which is where `cooldown >= motors * kick` is used; the latch implies a level in `accumulated` that nothing lowers; age and cooldown add up |
| `ContactTypes`, `LoadsAgree`, `ApproachesArePushed`, `RestStaysStill` (ContactManifoldProofs) | the two reckonings of a contact | at a load every depth is beside the client's, kept or re-anchored; within a frame a depth is at least what it would be had it been free to go negative, so a point below its surface has a positive spring, and no reported contact ever leaves the set of active ones; while nothing moved, the depths stay beside the reported ones, so a repeated report is within the tolerance of its own predecessor, the only candidate of a point that is alone |
| `PowertrainTypes`, `ResetsAreFresh`, `BurntMotorsStayDead`, `NoiseCountsTicks`, `GraceIsOver` (PowertrainProofs) | the powertrain through every restart | the snapshot is the state of the first boot, never written again, and equals what `InitState` makes of a zeroed vehicle once the profile is loaded; a burned-out motor has no speed from its next tick on; the stamp is zero only while the clock is below a millisecond |
| `ConfigTypes`, `PinnedWhenArmed`, `BlockStays`, `HandleIsReplaced`, `SavedTuneFlies`, `SavedTuneWhileArmed` (FirmwareConfigProofs) | the life of the configuration | the interlock (in CLI mode, or unpinned while running, means blocked and disarmed); every `FLASH_Unlock` replaces what it finds in `eepromFd`; and a count: the FILEs that are open but not in `eepromFd` are at most the resets so far, so with fewer resets than files `fopen` succeeds. While running unblocked, the tune in RAM is the one on disk: only the CLI takes them apart, and its block outlives the reboot |
| `PilotsView` (FirmwareConfigProofs) | FirmwareConfig implements ConfigContract | what is being written is the tune in RAM, through an open FILE; a start that gets a FILE leaves the disk's tune alone, or saves the defaults where there is none; each command of the CLI is one step of the contract or none |
| `JoystickTypes`, `NoDescriptorIsLost`, `HandsetComesFirst`, `CalibratedRestIsLow` (JoystickProofs) | the RC input | the slots that held an EdgeTX handset throughout are never behind the scan; a sweep's `cur` is the stick's position once its queue is empty, so the written map has the resting pose at its low end, and stays so in the file until the next calibration; a flight has the file's maps. The arithmetic: a quotient that rounds down is positive only if its dividend is, which keeps the low half low and the end at -1 |

`SavedTuneFlies`, `SavedTuneWhileArmed` and `PilotsView` assume `MaxResets < MaxFiles`, which is
necessary (observation 2 below). `OverridesHold` has its bound on `misses` in the
property, which is false without it (observation 1). `BurntMotorsStayDead` needs no
bound on the heat of a tick, and `GraceIsOver` none on the firmware's sleep.

The types of every component but LockstepCore, ContactDamage's `DamageIsReported`,
`WalkAdvances` and `NoCircularWait` are proved and not run.

Only model-checked: the liveness properties (MspComesBack, RoundEnds, ClientAccepted,
RestoreEnds), since the prover has no fairness or ENABLED. `WalkAdvances` and
`NoCircularWait` are the parts of RestoreEnds and RoundEnds that are about safety. The
three violated properties have counterexamples and no theorem.

## 5. Where code and text disagree

1. `core_stale_sticks`: the server's `input` survives PW_CMD_RESET. In realtime
   mode, or when the client then stays silent for three seconds, the idle tick
   hands the fresh firmware the last flight's sticks, arm switch included
   (`core/net/server.cpp:338`; `sim.cpp:74` says why that must not happen).
2. `tcp_null_stream`: `tcpDataOut` tests `s->conn` before it takes the lock and not
   again (`serial_tcp.c:333`); `tcpReconfigure` does both.
3. `tcp_stuck_reboot`: `save` waits for the transmit ring to empty, which without a
   client never happens (`serial_tcp.c:333`, `cli.c:3523`).
4. `config` shows that neither `exit` nor `save` lifts ARMING_DISABLED_CLI, which
   docs/ARCHITECTURE.md:163, `pw_cli.py:131` and `demo_pilot.gd:1283` say they do.
5. `config`: `FLASH_Unlock` takes an `eepromFd` that is not NULL for an open file (`pw_sitl.c:615`).
   A reset rewinds it to the first boot's FILE, which a save or an earlier reset has closed, and
   `fclose` is called on it again (`pw_sitl.c:617`) unless `fopen` returned the same address
   each time, which an allocator makes likely and C does not promise. OnlyResetsDangle
   says how far that reaches: no further than the reset's own init. `FdIsOpen` in its place
   fails after a start with an eeprom and two resets.

Observed while modelling, with no run of their own:

1. Reset and repair skip one stale pose, but the pipeline holds one reply for every
   frame given up: after two, an override comes undone (`main.gd:686`, against the
   comment at `main.gd:101`). The pipeline is then neither "one-deep" nor is its lag identical on
   every run, as `main.gd:636-648` says, and the gym no longer "blocks on the matching PW_STATE_OUT"
   (`env.py:5`). `OverrideSticks` without its antecedent shows it; the gym,
   which skips none, loses it after one.
2. A first boot that creates the eeprom leaves `eepromFd` NULL in the snapshot, and each
   later reset loses one FILE (`pw_sitl.c:604`, against `sim.cpp:70`); so does a reset under a FILE
   that is not the first boot's. With
   `MaxFiles = 2` in Config.cfg, StartsFlySavedTune, ArmedFliesSaved and the refinement of
   ConfigContract fail.
3. `sim_time_us` is "firmware-side simulated time" in `propwash_protocol.h:183`; during a replay
   it counts what was asked (`sim.cpp:141`) and then jumps back to the firmware's clock.
   `ClocksInOrder` says what remains true.
4. A second client of the same process starts from the first one's state
   (`server.cpp:397`, against :402); `sim.h:34` says resetPhysicsOnly is used there,
   and the server calls `reset`.
5. A lapped receive ring looks empty, so all its bytes are lost and not the oldest
   (`serial_tcp.c:361`, `pw_cli.py:45`).
6. A contact that separates stays armed (`physics.cpp:938`), while `state.h:136` says it is kept
   until "the point separates (depth <= 0)". `ApproachIsResisted` needs the code's way.
7. The motors are re-stamped on every tick of the first millisecond, not once
   (`bf.cpp:89`, `pw_sitl.c:730`): until then `millis()` is still zero.
8. PW_INIT in flight recharges the battery and cools the motors, but burned-out motors
   stay out, and the pack reads 0.1 V until the next tick (`physics.cpp:65`).
9. `Physics::reset` alone leaves motor status, temperature and direction: a reset is
   a fresh process only because the snapshot is restored first (`sim.cpp:71`).
10. `PwStateOut.position` is "core-integrated" in `propwash_protocol.h:188` and
    "client-owned; echoed" in `server.cpp:465`.
11. PW_CMD_PAUSE and PW_CMD_RESUME are declared and ignored (`server.cpp:619`).
12. "For self-centring sticks the rest sits mid-range and orientation is immaterial"
   (`joystick.cpp:196`): a stick that rests just above the middle of its range gets its upper
   end as low, so the axis is inverted in flight. `RestReadsLow` speaks of where a stick rests
   and not of the direction in which it moves.

## 6. What is not modelled, and the plan

Floating-point physics, codecs, rendering and offline tools are outside of what a
model checker says anything about. MSP writes and MSP reboots are Betaflight's: an MSP
reboot would go through `systemReset` without the CLI's block, so `ArmedIsPinned`
speaks of CLI sessions only. What could follow:

1. **DSHOT telemetry** (`pw_sitl.c` 402-584): the eRPM encoding against its decoder for
   every period in a bounded range, and the command queue against the throttle.
2. **CLI client and retune** (`pw_cli.py`, `demo_pilot.gd`): prompt matching over
   partial reads, reconnect after `save`, composed with SerialTcp's port.
3. **Several normals** in ContactManifold: the order in which `main.gd` resolves them, and a
   contact whose predecessor faced another way.
4. **Composition of the rewind**: FirmwareConfig's and Powertrain's rewinds as instances
   of SnapshotContract's, with their statics as its addresses.
