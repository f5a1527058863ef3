------------------------------ MODULE Powertrain ------------------------------
(***************************************************************************)
(* What one tick of 50 us does to motors, battery and noise                *)
(* (core/sim/physics.cpp), what the firmware's motor output sees of it     *)
(* (BF::update, the virtual ESC), and the operations that start such a     *)
(* vehicle over: PW_INIT, REPAIR, RESET and the firmware's own reboot.     *)
(*                                                                         *)
(* Throttle, speeds, currents and voltages are left open: a motor turns or *)
(* it does not, warms up or cools down, and every tick draws on the pack.  *)
(***************************************************************************)
EXTENDS Integers

CONSTANTS
    Motors,
    Profiles,       \* PwInit packets: [seed, charged]
    Default,        \* the profile the process starts with
    Ambient, MaxT,  \* ambientTemp, motorMaxT
    Heat,           \* bound: how much a tick can heat or cool a motor
    Milli,          \* ticks of a millisecond
    Sleeps,         \* how long the last delay() of the firmware's init lasts
    MaxTicks        \* bound: ticks since a seeding, and since an init

ASSUME PowertrainAssumption ==
    /\ Profiles \subseteq [seed : Nat, charged : Nat]
    /\ Default \in Profiles
    /\ {Ambient, MaxT, Heat, MaxTicks} \subseteq Nat /\ Ambient <= MaxT
    /\ Milli \in Nat \ {0}
    /\ Sleeps \subseteq Nat

VARIABLES
    profile,    \* the server's initState
    sim,        \* SimState: motors, battery and noise
    fw,         \* the firmware's statics the glue reads and writes
    snapshot,   \* what snapshotTake saved of both
    (* history variables *)
    ticks,      \* ticks since the noise was last seeded
    last        \* the operation that just ended

vars == <<profile, sim, fw, snapshot, ticks, last>>

Each(x) == [m \in Motors |-> x]
Temps == Ambient .. MaxT + Heat

(* Draws from the noise stream: three for the gyro, two for the frame, two for
   the battery, whatever the amplitudes they are multiplied with. *)
GyroDraws == 3
FrameDraws == 2
BatteryDraws == 2
-----------------------------------------------------------------------------
(* Parts of the operations below *)

(* Process start: zero-initialised statics, before any init. *)
Zeroed == [rpm |-> Each(0), temp |-> Each(Ambient), burnt |-> Each(FALSE),
           spin |-> Each(1), turned |-> Each(FALSE),
           charge |-> 0, drawn |-> 0, seed |-> 0, draws |-> 0]

(* Physics::initState: leaves the motors' status, speed and direction. *)
InitRevives(s, p) == [s EXCEPT !.temp = Each(Ambient), !.charge = p.charged,  \* mutant
                               !.seed = p.seed, !.draws = 0, !.burnt = Each(FALSE)]
InitState(s, p) == [s EXCEPT !.temp = Each(Ambient), !.charge = p.charged,
                             !.seed = p.seed, !.draws = 0]

(* Physics::reset: the integrators, and not the status, which is why Sim::reset
   restores the snapshot first. *)
PhysicsReset(s) == [s EXCEPT !.rpm = Each(0), !.turned = Each(FALSE)]

(* BF::init zeroes the clock, then enables the motors: the stamp is zero. *)
BFInit(f, sleep) == [f EXCEPT !.clock = 0, !.stamp = 0, !.sleep = sleep, !.dir = Each(1)]

NotRestored(saved, now) == now                                 \* mutant
Restored(saved, now) == saved

Init ==
    /\ profile = Default
    /\ \E sleep \in Sleeps :
           fw = [dir |-> Each(1), rpm |-> Each(0), clock |-> 0, stamp |-> 0,
                 sleep |-> sleep]
    /\ sim = InitState(Zeroed, Default)
    /\ snapshot = [sim |-> sim, fw |-> fw]
    /\ ticks = 0
    /\ last = "boot"
-----------------------------------------------------------------------------
(* A tick *)

(* BF::update re-stamps the motors' enable time for as long as it reads zero,
   which is the whole first millisecond. *)
StampedOnce(f) == IF f.clock = 0 THEN (f.clock + 1) \div Milli ELSE f.stamp   \* mutant
Stamped(f) == IF f.stamp = 0 THEN (f.clock + 1) \div Milli ELSE f.stamp

(* The firmware writes its motors only when its scheduler ran, which it does
   not while it sleeps; the speed it is told is the one before this tick. *)
BFUpdate(f, s, dir) ==
    [f EXCEPT !.clock = f.clock + 1, !.stamp = Stamped(f),
              !.sleep = IF f.sleep > 0 THEN f.sleep - 1 ELSE 0,
              !.dir = IF f.sleep > 0 THEN f.dir ELSE dir,
              !.rpm = s.rpm]

(* updateGyro: noise on the gyro, then that of the motors, whose phases move on
   with their speed, and of the frame. *)
UpdateGyroNoise(s) == [s EXCEPT !.draws = s.draws + GyroDraws]
Turned(s) == [m \in Motors |-> s.turned[m] \/ s.rpm[m] > 0]
UpdateMotorNoise(s) == [s EXCEPT !.turned = Turned(s), !.draws = s.draws + FrameDraws]
UpdateGyro(s) == UpdateMotorNoise(UpdateGyroNoise(s))

(* calculateMotors: a motor that had burned out has neither speed nor current;
   one that gets too hot burns out at the end of the tick. *)
Alive(s, m) == ~s.burnt[m]

Warmed(s, m, heat) ==
    LET gain == IF Alive(s, m) \/ heat[m] < 0 THEN heat[m] ELSE 0
    IN  IF s.temp[m] + gain < Ambient THEN Ambient ELSE s.temp[m] + gain

CalculateMotors(s, rpm, heat) ==
    [s EXCEPT !.rpm = [m \in Motors |-> IF Alive(s, m) THEN rpm[m] ELSE 0],
              !.temp = [m \in Motors |-> Warmed(s, m, heat)],
              !.burnt = [m \in Motors |-> s.burnt[m] \/ Warmed(s, m, heat) > MaxT]]

(* updateBat: something is always drawn, and the charge may go negative. *)
DrawsIfUsed(s) == IF s.charge > 0 THEN BatteryDraws ELSE 0     \* mutant
BatteryDrawn(s) == BatteryDraws

UpdateBat(s) ==
    [s EXCEPT !.charge = s.charge - 1,
              !.drawn = profile.charged - (s.charge - 1),
              !.draws = s.draws + BatteryDrawn(s)]

UpdatePhysics(s, rpm, heat) == UpdateBat(CalculateMotors(s, rpm, heat))

(* The firmware flies. *)
SimStep(dir, rpm, heat) ==
    /\ ticks < MaxTicks /\ fw.clock < MaxTicks
    /\ fw' = BFUpdate(fw, sim, dir)
    /\ sim' = UpdatePhysics([UpdateGyro(sim) EXCEPT !.spin = fw'.dir], rpm, heat)
    /\ ticks' = ticks + 1
    /\ last' = "tick"
    /\ UNCHANGED <<profile, snapshot>>

(* A log flies: the firmware is bypassed, and the motors keep the direction of
   the last tick it flew. *)
UpdateMotors(rpm, heat) ==
    /\ ticks < MaxTicks
    /\ sim' = UpdatePhysics(UpdateGyro(sim), rpm, heat)
    /\ ticks' = ticks + 1
    /\ last' = "tick"
    /\ UNCHANGED <<profile, fw, snapshot>>
-----------------------------------------------------------------------------
(* Starting over *)

(* PW_INIT on a booted core. *)
ReinitPhysics(p) ==
    /\ profile' = p
    /\ sim' = InitState(sim, p)
    /\ ticks' = 0
    /\ last' = "init"
    /\ UNCHANGED <<fw, snapshot>>

Repair ==
    /\ sim' = [sim EXCEPT !.charge = profile.charged, !.temp = Each(Ambient),
                          !.burnt = Each(FALSE)]
    /\ last' = "repair"
    /\ UNCHANGED <<profile, fw, snapshot, ticks>>

(* PW_CMD_RESET, and the first packet of the first client. *)
Reset ==
    /\ sim' = PhysicsReset(InitState(Restored(snapshot.sim, sim), profile))
    /\ \E sleep \in Sleeps : fw' = BFInit(Restored(snapshot.fw, fw), sleep)
    /\ ticks' = 0
    /\ last' = "reset"
    /\ UNCHANGED <<profile, snapshot>>

(* The CLI saved and the firmware restarts itself under a running simulation. *)
SystemReset ==
    /\ \E sleep \in Sleeps : fw' = BFInit(fw, sleep)
    /\ last' = "reboot"
    /\ UNCHANGED <<profile, sim, snapshot, ticks>>

Speeds == [Motors -> 0 .. 1]
Heats == [Motors -> -Heat .. Heat]

Next ==
    \/ \E dir \in [Motors -> {-1, 1}], rpm \in Speeds, heat \in Heats :
           SimStep(dir, rpm, heat)
    \/ \E rpm \in Speeds, heat \in Heats : UpdateMotors(rpm, heat)
    \/ \E p \in Profiles : ReinitPhysics(p)
    \/ Repair
    \/ Reset
    \/ SystemReset

Spec == Init /\ [][Next]_vars
-----------------------------------------------------------------------------
SimStates == [rpm : Speeds, temp : [Motors -> Temps], burnt : [Motors -> BOOLEAN],
              spin : [Motors -> {-1, 1}], turned : [Motors -> BOOLEAN],
              charge : Int, drawn : Int, seed : Nat, draws : Nat]
Firmwares == [dir : [Motors -> {-1, 1}], rpm : Speeds, clock : Nat, stamp : Nat,
              sleep : Nat]

TypeOK ==
    /\ profile \in Profiles
    /\ sim \in SimStates
    /\ fw \in Firmwares
    /\ snapshot \in [sim : SimStates, fw : Firmwares]
    /\ ticks \in Nat
    /\ last \in {"boot", "tick", "init", "repair", "reset", "reboot"}

(* "reset = fresh process by construction": whatever was flown, burned out,
   replayed or reloaded before, a reset gives the vehicle that a process
   started with the current profile has. *)
Fresh(p) == InitState(Zeroed, p)
ResetIsFresh == last = "reset" => sim = Fresh(profile)

(* A motor that burned out stays out, through PW_INIT, replays and reboots of
   the firmware, until somebody repairs or resets: from the tick after, it
   does not turn, and it only cools. *)
BurntStaysDead ==
    [][ \A m \in Motors :
            (sim.burnt[m] /\ last' \notin {"repair", "reset"}) =>
                /\ sim'.burnt[m]
                /\ sim'.temp[m] <= sim.temp[m]
                /\ last' = "tick" => sim'.rpm[m] = 0 ]_vars

(* The noise depends on the seed and on the simulated time alone: its place in
   the stream counts the ticks since the seed, flown or replayed, with the
   battery full or empty and motors burned out or not. *)
NoiseKeepsTime ==
    sim.draws = ticks * (GyroDraws + FrameDraws + BatteryDraws)

(* The arming grace of a DSHOT motor ends: once a millisecond was simulated
   since the firmware's init, the motors' enable time no longer reads as
   "never enabled", after any number of resets and reboots. *)
GraceEnds == fw.clock >= Milli => fw.stamp > 0
=============================================================================
