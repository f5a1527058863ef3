---------------------------- MODULE LockstepCore ----------------------------
(***************************************************************************)
(* propwash-core's server loop and simulation clock.                       *)
(*                                                                         *)
(* Server::run (core/net/server.cpp) is one thread: it waits at most 5 ms  *)
(* for a datagram and either handles it or, on the timeout, may advance    *)
(* the simulation by itself so that MSP/CLI stay alive.  Everything that   *)
(* decides how far simulated time moves is here: the locals of the loop,   *)
(* the sub-tick accumulator of core/sim/sim.cpp, and the firmware clock of *)
(* core/sim/bf.cpp.  Times are integer microseconds; wall time is kept     *)
(* only as what the code compares: how long ago a client last drove.       *)
(***************************************************************************)
EXTENDS Integers

CONSTANTS Tick,         \* DELTA of sim.cpp, the fixed step, us
          MaxDelta,     \* the clamp on one advance, us
          IdleDelta,    \* one idle tick of the server, us
          IdleMs,       \* CLIENT_IDLE_MS, in units of the wall clock
          Deltas,       \* p.dt of the packets, truncated to us (any integer)
          Profiles,     \* contents of a PW_INIT
          BootProfile,  \* the profile the process was started with
          Peers,        \* UDP sources
          MaxDatagrams, \* bound: datagrams handled
          MaxIdleTicks  \* bound: idle ticks

ASSUME CoreAssumption ==
    /\ Tick \in Nat \ {0}
    /\ MaxDelta \in Nat \ {0}
    /\ IdleDelta \in 0 .. MaxDelta
    /\ IdleMs \in Nat \ {0}
    /\ Deltas \subseteq Int
    /\ BootProfile \in Profiles
    /\ MaxDatagrams \in Nat
    /\ MaxIdleTicks \in Nat
    /\ "idle" \notin Peers

VARIABLES
  joystick,         \* is a local joystick open (it never closes: Joystick.tla)
  (* locals of Server::run: no snapshot ever rewinds them *)
  initState,        \* the profile the next reset will load
  inputArm,         \* arm switch in input.rcData (survives its sender)
  overrideActive,   \* rcOverrideActive
  overrideArm,      \* arm switch in rcOverride
  lockstep,
  quiet,            \* nowMillis() - lastStateInMs, saturated at IdleMs
  stateInCount,
  idleTicks,
  (* the simulation: statics of the process, rewound by Sim::reset *)
  totalDelta,       \* Sim::total_delta, time not yet turned into a tick
  physProfile,      \* the StateInit loaded in Physics
  contact,          \* does the physics hold a contact manifold
  rcArm,            \* arm switch in rcDataCache, what the firmware reads
  pwMicros,         \* pw_micros_passed, the firmware's clock
  microsPassed,     \* SimState::microsPassed, reported as sim_time_us
  (* history variables: written only, read by the properties *)
  ticks,            \* physics ticks since the last rewind
  advances,         \* Sim::update and updateMotors calls since then
  flownBy,          \* who last gave the firmware its sticks
  askedArm,         \* arm asked for since the last PW_CMD_RESET
  datagrams         \* datagrams handled

server  == <<joystick, initState, inputArm, overrideActive, overrideArm, lockstep,
             quiet, stateInCount, idleTicks>>
sim     == <<totalDelta, physProfile, contact, rcArm, pwMicros, microsPassed>>
history == <<ticks, advances, flownBy, askedArm, datagrams>>
vars    == <<server, sim, history>>
-----------------------------------------------------------------------------
(* Sim::update's clamp: a stalled client costs at most MaxDelta, a negative
   delta is one microsecond. *)
Clamp(d) == IF d > MaxDelta THEN MaxDelta ELSE IF d < 0 THEN 1 ELSE d

(* What an advance starts from: the running simulation, or the state that
   Sim::reset leaves behind (static snapshot restored, firmware booted). *)
Running == [residue |-> totalDelta, ticks |-> ticks, advances |-> advances,
            firmware |-> pwMicros, reported |-> microsPassed]
RewoundButClock ==                                             \* mutant
    [residue |-> 0, ticks |-> 0, advances |-> 0,
     firmware |-> pwMicros, reported |-> 0]
Rewound == [residue |-> 0, ticks |-> 0, advances |-> 0,
            firmware |-> 0, reported |-> 0]

(* The snapshot brings the boot profile back; Sim::reset then loads the one
   the server keeps. *)
SnapshotProfile == BootProfile                                 \* mutant
ProfileAfterReset == initState

(* The RESET handler makes an override let go of the sticks. *)
OverrideKept == overrideActive                                 \* mutant
OverrideAfterReset == FALSE

(* The accumulator both advances share: whole ticks are consumed, the rest
   waits for the next call. *)
Ticks(from, d) == (from.residue + Clamp(d)) \div Tick
ResidueOffByOne(from, d) ==                                    \* mutant
    IF (from.residue + Clamp(d)) \div Tick > 0
        /\ (from.residue + Clamp(d)) % Tick = 0
    THEN Tick ELSE (from.residue + Clamp(d)) % Tick
Residue(from, d) == (from.residue + Clamp(d)) % Tick

Accumulate(from, d) ==
    /\ totalDelta' = Residue(from, d)
    /\ ticks' = from.ticks + Ticks(from, d)
    /\ advances' = from.advances + 1

(* Sim::update then simStep: every tick runs the firmware, so its clock and
   the reported time move together. *)
Update(from, d, arm, c) ==
    /\ Accumulate(from, d)
    /\ rcArm' = arm
    /\ contact' = c
    /\ pwMicros' = from.firmware + Ticks(from, d) * Tick
    /\ microsPassed' = IF Ticks(from, d) = 0 THEN from.reported ELSE pwMicros'

(* Sim::updateMotors: the firmware does not run; the reported time moves by
   what was asked, not by what was ticked. *)
UpdateMotors(from, d, c) ==
    /\ Accumulate(from, d)
    /\ contact' = c
    /\ pwMicros' = from.firmware
    /\ microsPassed' = from.reported + Clamp(d)

-----------------------------------------------------------------------------
Init ==
    /\ joystick \in BOOLEAN
    /\ initState = BootProfile
    /\ inputArm = FALSE
    /\ overrideActive = FALSE
    /\ overrideArm = FALSE
    /\ lockstep = TRUE
    /\ quiet = IdleMs
    /\ stateInCount = 0
    /\ idleTicks = 0
    /\ totalDelta = 0
    /\ physProfile = initState
    /\ contact = FALSE
    /\ rcArm = FALSE
    /\ pwMicros = 0
    /\ microsPassed = 0
    /\ ticks = 0
    /\ advances = 0
    /\ flownBy = "idle"
    /\ askedArm = FALSE
    /\ datagrams = 0

Datagram ==
    /\ datagrams < MaxDatagrams
    /\ datagrams' = datagrams + 1

(* Is somebody driving, so that the timeout must not add time? *)
ImpatientCore == lockstep /\ stateInCount > 0 /\ quiet < IdleMs - 1  \* mutant
DrivesForever == lockstep /\ stateInCount > 0                  \* mutant
ClientDriving == lockstep /\ stateInCount > 0 /\ quiet < IdleMs

(* recvfrom timed out and no client is driving: one idle tick.  The sticks
   of the last packet stay in `input`; its contacts do not. *)
IdleTick ==
    /\ ~ClientDriving
    /\ idleTicks < MaxIdleTicks
    /\ Update(Running, IdleDelta, inputArm, FALSE)
    /\ idleTicks' = idleTicks + 1
    /\ flownBy' = "idle"
    /\ UNCHANGED <<joystick, initState, inputArm, overrideActive, overrideArm,
                   lockstep, quiet, stateInCount, physProfile, askedArm, datagrams>>

(* recvfrom timed out and the loop goes round with nothing done: a client is
   driving (or this model's bound on idle ticks is reached). *)
RecvTimeout ==
    /\ ClientDriving \/ idleTicks = MaxIdleTicks
    /\ UNCHANGED vars

(* PW_INIT: the profile is merged into initState and reloaded at once; the
   flight in progress goes on. *)
PwInit(p) ==
    /\ Datagram
    /\ initState' = p
    /\ physProfile' = p
    /\ UNCHANGED <<joystick, inputArm, overrideActive, overrideArm, lockstep, quiet,
                   stateInCount, idleTicks, totalDelta, contact, rcArm,
                   pwMicros, microsPassed, ticks, advances, flownBy, askedArm>>

(* The head both driving packets share.  The first one of the process resets
   the simulation, to drop whatever the idle ticks did. *)
FirstContact == stateInCount = 0
Base == IF FirstContact THEN Rewound ELSE Running

Drives ==
    /\ Datagram
    /\ quiet' = 0
    /\ stateInCount' = stateInCount + 1
    /\ physProfile' = IF FirstContact THEN ProfileAfterReset ELSE physProfile
    /\ UNCHANGED <<joystick, initState, overrideActive, overrideArm, lockstep,
                   idleTicks>>

(* Which sticks a PW_STATE_IN flies: joystick, then override, then packet. *)
Sticks(packetArm, joyArm) ==
    IF joystick THEN joyArm
    ELSE IF overrideActive THEN overrideArm ELSE packetArm

PwStateIn(p, d, packetArm, joyArm, c) ==
    /\ Drives
    /\ inputArm' = Sticks(packetArm, joyArm)
    /\ Update(Base, d, Sticks(packetArm, joyArm), c)
    /\ flownBy' = p
    /\ askedArm' = (askedArm \/ (IF joystick THEN joyArm ELSE packetArm))

(* PW_MOTOR_IN: safe sticks go into `input` and the firmware is bypassed. *)
PwMotorIn(d, c) ==
    /\ Drives
    /\ inputArm' = FALSE
    /\ UpdateMotors(Base, d, c)
    /\ rcArm' = IF FirstContact THEN FALSE ELSE rcArm
    /\ UNCHANGED <<flownBy, askedArm>>

PwRcOverride(arm) ==
    /\ Datagram
    /\ overrideArm' = arm
    /\ overrideActive' = TRUE
    /\ askedArm' = (askedArm \/ arm)
    /\ UNCHANGED <<joystick, initState, inputArm, lockstep, quiet, stateInCount,
                   idleTicks, sim, ticks, advances, flownBy>>

(* PW_CMD_RESET: Sim::reset, and the override lets go of the sticks.  The
   loop's other locals stay as they are. *)
CmdReset ==
    /\ Datagram
    /\ totalDelta' = Rewound.residue
    /\ physProfile' = ProfileAfterReset
    /\ contact' = FALSE
    /\ rcArm' = FALSE
    /\ pwMicros' = Rewound.firmware
    /\ microsPassed' = Rewound.reported
    /\ ticks' = Rewound.ticks
    /\ advances' = Rewound.advances
    /\ overrideActive' = OverrideAfterReset
    /\ askedArm' = FALSE
    /\ UNCHANGED <<joystick, initState, inputArm, overrideArm, lockstep, quiet,
                   stateInCount, idleTicks, flownBy>>

(* PW_CMD_LOCKSTEP and PW_CMD_REALTIME *)
CmdMode(m) ==
    /\ Datagram
    /\ lockstep' = m
    /\ UNCHANGED <<joystick, initState, inputArm, overrideActive, overrideArm, quiet,
                   stateInCount, idleTicks, sim, ticks, advances, flownBy, askedArm>>

(* Too short for a header, the wrong magic or version, a payload shorter than
   announced or than its type wants, an unknown type or command: dropped.
   PW_CMD_REPAIR touches nothing of the clock (module Powertrain). *)
Ignored ==
    /\ Datagram
    /\ UNCHANGED <<server, sim, ticks, advances, flownBy, askedArm>>

(* Wall time passes: a client may pause as long as it likes. *)
Elapse ==
    /\ quiet < IdleMs
    /\ quiet' = quiet + 1
    /\ UNCHANGED <<joystick, initState, inputArm, overrideActive, overrideArm,
                   lockstep, stateInCount, idleTicks, sim, history>>

Next ==
    \/ IdleTick
    \/ RecvTimeout
    \/ \E p \in Profiles : PwInit(p)
    \/ \E p \in Peers, d \in Deltas, packetArm, joyArm, c \in BOOLEAN :
           PwStateIn(p, d, packetArm, joyArm, c)
    \/ \E d \in Deltas, c \in BOOLEAN : PwMotorIn(d, c)
    \/ \E arm \in BOOLEAN : PwRcOverride(arm)
    \/ CmdReset
    \/ \E m \in BOOLEAN : CmdMode(m)
    \/ Ignored
    \/ Elapse

Spec == Init /\ [][Next]_vars

(* The loop always comes round and wall time always passes.  The traffic is
   finite (MaxDatagrams), so recvfrom does time out again and again. *)
FairSpec == Spec /\ WF_vars(IdleTick) /\ WF_vars(Elapse)
-----------------------------------------------------------------------------
TypeOK ==
    /\ joystick \in BOOLEAN
    /\ initState \in Profiles
    /\ inputArm \in BOOLEAN
    /\ overrideActive \in BOOLEAN
    /\ overrideArm \in BOOLEAN
    /\ lockstep \in BOOLEAN
    /\ quiet \in 0 .. IdleMs
    /\ stateInCount \in Nat
    /\ idleTicks \in Nat
    /\ totalDelta \in 0 .. Tick - 1
    /\ physProfile \in Profiles
    /\ contact \in BOOLEAN
    /\ rcArm \in BOOLEAN
    /\ pwMicros \in Nat
    /\ microsPassed \in Nat
    /\ ticks \in Nat
    /\ advances \in Nat
    /\ flownBy \in Peers \cup {"idle"}
    /\ askedArm \in BOOLEAN
    /\ datagrams \in Nat

(* Simulated time since the last rewind: ticked, or waiting for a tick. *)
SimTime == ticks * Tick + totalDelta

(* The three clocks stay in order through every mix of flight, replay
   (PW_MOTOR_IN), idle ticks and resets: the firmware's is never ahead of the
   ticks the physics made, the time a reply reports is never behind the
   firmware and never ahead of the simulated world. *)
ClocksInOrder ==
    /\ pwMicros <= ticks * Tick
    /\ pwMicros <= microsPassed
    /\ microsPassed <= SimTime

(* The vehicle in the physics is the one the last PW_INIT described, through
   any number of resets, first contacts and mode changes: the snapshot that a
   reset restores holds the boot profile, which must never come back. *)
ProfileInForce == physProfile = initState

(* Sticks flown for a client were asked for since the last PW_CMD_RESET: an
   arm switch that an override or an earlier session left high is not flown
   by the next client-driven advance. *)
SticksAsked == (flownBy # "idle" /\ rcArm) => askedArm

(* The loop keeps the contract: lockstep time is wound by requests alone,
   until the client has been silent for IdleMs.  Before the first contact the
   client has seen nothing, and the first contact discards what the idle
   ticks did. *)
Contract == INSTANCE LockstepContract
                WITH requests <- stateInCount,
                     profile <- physProfile,
                     time <- IF stateInCount = 0 THEN 0 ELSE SimTime,
                     absent <- quiet >= IdleMs

ContractSpec == Contract!Spec

(* MSP and CLI come back: once the traffic ends, the loop gets to tick by
   itself as often as the bound allows, in lockstep too. *)
MspComesBack == <>(idleTicks = MaxIdleTicks)

(* VIOLATED.  core/sim/sim.cpp, Sim::reset: "Clearing afterwards gives the firmware
   neutral sticks to evaluate against".  The sticks the server kept come back
   with the first idle tick. *)
NeutralAfterReset == rcArm => askedArm
=============================================================================
