--------------------------- MODULE PowertrainProofs ---------------------------
(***************************************************************************)
(* For any number of motors, any profiles and any length of flight: a      *)
(* reset is a fresh process, burned-out motors stay out, the noise counts  *)
(* the ticks and the arming grace ends.                                    *)
(***************************************************************************)
EXTENDS Powertrain, TLAPS

(* Nothing ever writes the snapshot: it is the first boot's. *)
SnapshotKept == snapshot.sim = InitState(Zeroed, Default)

(* A motor over its limit has burned out: so nothing heats it any further. *)
HotIsBurnt == \A m \in Motors : sim.temp[m] > MaxT => sim.burnt[m]

Inv == TypeOK /\ SnapshotKept /\ HotIsBurnt /\ ResetIsFresh /\ NoiseKeepsTime /\ GraceEnds

-----------------------------------------------------------------------------
(* Each part of an operation keeps the type of what it works on *)

LEMMA Sizes ==
    /\ Ambient \in Nat /\ MaxT \in Nat /\ Heat \in Nat /\ Ambient <= MaxT
    /\ Milli \in Nat /\ Milli > 0
    /\ Ambient \in Temps
    /\ \A p \in Profiles : p.seed \in Nat /\ p.charged \in Nat
    /\ \A s \in Sleeps : s \in Nat
<1>1. /\ Ambient \in Nat /\ MaxT \in Nat /\ Heat \in Nat /\ Ambient <= MaxT
      /\ Milli \in Nat /\ Milli > 0
  BY PowertrainAssumption
<1>2. Ambient \in Temps
  BY <1>1 DEF Temps
<1>3. \A p \in Profiles : p.seed \in Nat /\ p.charged \in Nat
  BY PowertrainAssumption
<1>4. \A s \in Sleeps : s \in Nat
  BY PowertrainAssumption
<1> QED BY <1>1, <1>2, <1>3, <1>4

LEMMA ZeroedType == Zeroed \in SimStates
BY Sizes DEF Zeroed, SimStates, Speeds, Each

LEMMA EachType ==
    /\ Each(Ambient) \in [Motors -> Temps]
    /\ Each(0) \in Speeds
    /\ Each(FALSE) \in [Motors -> BOOLEAN]
    /\ Each(1) \in [Motors -> {-1, 1}]
BY Sizes DEF Each, Speeds

LEMMA InitStateType ==
    ASSUME NEW s \in SimStates, NEW p \in Profiles
    PROVE  InitState(s, p) \in SimStates /\ InitState(s, p).draws = 0
<1>1. Each(Ambient) \in [Motors -> Temps] /\ p.charged \in Int /\ p.seed \in Nat
  BY EachType, Sizes
<1> QED BY <1>1 DEF InitState, SimStates

LEMMA PhysicsResetType ==
    ASSUME NEW s \in SimStates
    PROVE  PhysicsReset(s) \in SimStates /\ PhysicsReset(s).draws = s.draws
BY EachType DEF PhysicsReset, SimStates

LEMMA BFInitType ==
    ASSUME NEW f \in Firmwares, NEW sleep \in Sleeps
    PROVE  BFInit(f, sleep) \in Firmwares /\ BFInit(f, sleep).clock = 0
BY Sizes DEF BFInit, Firmwares, Each

(* A quotient is positive once the dividend reaches the divisor. *)
LEMMA QuotientIsPositive ==
    ASSUME NEW n \in Nat
    PROVE  /\ n \div Milli \in Nat
           /\ n >= Milli => n \div Milli > 0
<1>1. Milli \in Nat /\ Milli > 0
  BY Sizes
<1> DEFINE q == n \div Milli
           r == n % Milli
<1>2. q \in Int /\ r \in 0 .. Milli - 1 /\ n = Milli * q + r
  BY <1>1
<1> HIDE DEF q, r
<1>3. \A a \in Nat, b \in Int : b < 0 /\ a > 0 => a * b <= -a
  OBVIOUS
<1>4. q >= 0
  BY <1>1, <1>2, <1>3
<1>5. n >= Milli => q > 0
  BY <1>1, <1>2, <1>4
<1> QED BY <1>2, <1>4, <1>5 DEF q

LEMMA BFUpdateType ==
    ASSUME NEW f \in Firmwares, NEW s \in SimStates, NEW dir \in [Motors -> {-1, 1}]
    PROVE  /\ BFUpdate(f, s, dir) \in Firmwares
           /\ (f.clock >= Milli => f.stamp > 0) =>
                  (BFUpdate(f, s, dir).clock >= Milli => BFUpdate(f, s, dir).stamp > 0)
<1>1. /\ f.clock \in Nat /\ f.stamp \in Nat /\ f.sleep \in Nat
      /\ f.dir \in [Motors -> {-1, 1}] /\ s.rpm \in Speeds
  BY DEF Firmwares, SimStates
<1>2. f.clock + 1 \in Nat
  BY <1>1
<1>3. Stamped(f) \in Nat /\ (f.clock + 1 >= Milli => Stamped(f) > 0)
  <2>1. CASE f.stamp = 0
    BY <1>2, <2>1, QuotientIsPositive DEF Stamped
  <2>2. CASE f.stamp # 0
    BY <1>1, <2>2 DEF Stamped
  <2> QED BY <2>1, <2>2
<1>4. (IF f.sleep > 0 THEN f.sleep - 1 ELSE 0) \in Nat
  BY <1>1
<1>5. (IF f.sleep > 0 THEN f.dir ELSE dir) \in [Motors -> {-1, 1}]
  BY <1>1
<1> QED BY <1>1, <1>2, <1>3, <1>4, <1>5 DEF BFUpdate, Firmwares

LEMMA UpdateGyroType ==
    ASSUME NEW s \in SimStates
    PROVE  /\ UpdateGyro(s) \in SimStates
           /\ UpdateGyro(s).draws = s.draws + GyroDraws + FrameDraws
           /\ UpdateGyro(s).temp = s.temp /\ UpdateGyro(s).burnt = s.burnt
<1> DEFINE g == UpdateGyroNoise(s)
<1>1. s.draws \in Nat /\ s.draws + GyroDraws \in Nat
      /\ s.draws + GyroDraws + FrameDraws \in Nat
  BY DEF SimStates, GyroDraws, FrameDraws
<1>2. /\ g \in SimStates /\ g.draws = s.draws + GyroDraws
      /\ g.temp = s.temp /\ g.burnt = s.burnt
  BY <1>1 DEF UpdateGyroNoise, SimStates
<1> HIDE DEF g
<1>3. Turned(g) \in [Motors -> BOOLEAN]
  BY DEF Turned
<1>4. g.draws + FrameDraws \in Nat
  BY <1>1, <1>2
<1>5. /\ UpdateMotorNoise(g) \in SimStates
      /\ UpdateMotorNoise(g).draws = g.draws + FrameDraws
      /\ UpdateMotorNoise(g).temp = g.temp /\ UpdateMotorNoise(g).burnt = g.burnt
  BY <1>2, <1>3, <1>4 DEF UpdateMotorNoise, SimStates
<1> QED BY <1>2, <1>5 DEF UpdateGyro, g

(* No motor gets hotter than a tick can heat it, nor colder than the air; a
   burned-out one only cools. *)
LEMMA WarmedType ==
    ASSUME NEW s \in SimStates, NEW m \in Motors, NEW heat \in Heats
    PROVE  /\ Warmed(s, m, heat) \in Int
           /\ Ambient <= Warmed(s, m, heat)
           /\ Warmed(s, m, heat) <= s.temp[m] + Heat
           /\ s.burnt[m] => Warmed(s, m, heat) <= s.temp[m]
<1>1. s.temp[m] \in Temps /\ heat[m] \in -Heat .. Heat
  BY DEF SimStates, Heats
<1>2. s.temp[m] \in Int /\ Ambient <= s.temp[m] /\ heat[m] \in Int /\ heat[m] <= Heat
  BY <1>1, Sizes DEF Temps
<1> QED BY <1>2, Sizes DEF Warmed, Alive

LEMMA CalculateMotorsType ==
    ASSUME NEW s \in SimStates, NEW rpm \in Speeds, NEW heat \in Heats,
           \A m \in Motors : s.temp[m] > MaxT => s.burnt[m]
    PROVE  LET c == CalculateMotors(s, rpm, heat)
           IN  /\ c \in SimStates
               /\ c.draws = s.draws /\ c.charge = s.charge
               /\ \A m \in Motors : c.temp[m] > MaxT => c.burnt[m]
               /\ \A m \in Motors : s.burnt[m] =>
                      c.burnt[m] /\ c.temp[m] <= s.temp[m] /\ c.rpm[m] = 0
<1> DEFINE c == CalculateMotors(s, rpm, heat)
           turns == [m \in Motors |-> IF Alive(s, m) THEN rpm[m] ELSE 0]
           temps == [m \in Motors |-> Warmed(s, m, heat)]
           burns == [m \in Motors |-> s.burnt[m] \/ Warmed(s, m, heat) > MaxT]
<1>1. c = [s EXCEPT !.rpm = turns, !.temp = temps, !.burnt = burns]
  BY Zenon DEF CalculateMotors
<1>2. turns \in Speeds
  BY DEF Speeds
<1>3. \A m \in Motors : Warmed(s, m, heat) \in Temps
  <2> SUFFICES ASSUME NEW m \in Motors PROVE Warmed(s, m, heat) \in Temps
    OBVIOUS
  <2>1. /\ Warmed(s, m, heat) \in Int /\ Ambient <= Warmed(s, m, heat)
        /\ Warmed(s, m, heat) <= s.temp[m] + Heat
        /\ s.burnt[m] => Warmed(s, m, heat) <= s.temp[m]
    BY WarmedType
  <2>2. s.temp[m] \in Temps
    BY DEF SimStates
  <2>3. s.temp[m] \in Int /\ s.temp[m] <= MaxT + Heat
    BY <2>2, Sizes DEF Temps
  <2>4. s.burnt[m] \/ s.temp[m] <= MaxT
    BY <2>3, Sizes
  <2>5. Warmed(s, m, heat) <= MaxT + Heat
    BY <2>1, <2>3, <2>4, Sizes
  <2> QED BY <2>1, <2>5, Sizes DEF Temps
<1>4. temps \in [Motors -> Temps]
  BY <1>3
<1>5. burns \in [Motors -> BOOLEAN]
  BY DEF SimStates
<1> HIDE DEF c
<1>6. /\ c \in SimStates /\ c.rpm = turns /\ c.temp = temps /\ c.burnt = burns
      /\ c.draws = s.draws /\ c.charge = s.charge
  <2> HIDE DEF turns, temps, burns
  <2> QED BY <1>1, <1>2, <1>4, <1>5 DEF SimStates
<1>a. \A m \in Motors : /\ c.burnt[m] = (s.burnt[m] \/ Warmed(s, m, heat) > MaxT)
                       /\ c.temp[m] = Warmed(s, m, heat)
                       /\ c.rpm[m] = IF Alive(s, m) THEN rpm[m] ELSE 0
  BY <1>6, Zenon
<1>7. ASSUME NEW m \in Motors, c.temp[m] > MaxT PROVE c.burnt[m]
  BY <1>a, <1>7, Zenon
<1>8. ASSUME NEW m \in Motors, s.burnt[m]
      PROVE  c.burnt[m] /\ c.temp[m] <= s.temp[m] /\ c.rpm[m] = 0
  <2>1. c.burnt[m]
    BY <1>a, <1>8, Zenon
  <2>2. c.rpm[m] = 0
    BY <1>a, <1>8, Zenon DEF Alive
  <2>3. c.temp[m] = Warmed(s, m, heat)
    BY <1>a, Zenon
  <2>4. Warmed(s, m, heat) <= s.temp[m]
    BY <1>8, WarmedType
  <2> QED BY <2>1, <2>2, <2>3, <2>4
<1> QED BY <1>6, <1>7, <1>8 DEF c

LEMMA UpdateBatType ==
    ASSUME TypeOK, NEW s \in SimStates
    PROVE  /\ UpdateBat(s) \in SimStates
           /\ UpdateBat(s).draws = s.draws + BatteryDraws
           /\ UpdateBat(s).rpm = s.rpm /\ UpdateBat(s).temp = s.temp
           /\ UpdateBat(s).burnt = s.burnt
<1>1. s.charge \in Int /\ s.draws \in Nat /\ profile.charged \in Nat
  BY Sizes DEF SimStates, TypeOK
<1>2. /\ s.charge - 1 \in Int /\ profile.charged - (s.charge - 1) \in Int
      /\ s.draws + BatteryDraws \in Nat
  BY <1>1 DEF BatteryDraws
<1> QED BY <1>2 DEF UpdateBat, BatteryDrawn, SimStates

(* All of a tick: the noise moved on by its draws, and a motor that had
   burned out neither turns nor warms. *)
LEMMA TickType ==
    ASSUME TypeOK, HotIsBurnt, NEW g \in SimStates, NEW rpm \in Speeds, NEW heat \in Heats,
           g.draws = sim.draws + GyroDraws + FrameDraws,
           g.temp = sim.temp, g.burnt = sim.burnt
    PROVE  LET s == UpdatePhysics(g, rpm, heat)
           IN  /\ s \in SimStates
               /\ s.draws = sim.draws + GyroDraws + FrameDraws + BatteryDraws
               /\ \A m \in Motors : s.temp[m] > MaxT => s.burnt[m]
               /\ \A m \in Motors : sim.burnt[m] =>
                      s.burnt[m] /\ s.temp[m] <= sim.temp[m] /\ s.rpm[m] = 0
<1> DEFINE c == CalculateMotors(g, rpm, heat)
           s == UpdateBat(c)
<1>1. \A m \in Motors : g.temp[m] > MaxT => g.burnt[m]
  BY DEF HotIsBurnt
<1>2. /\ c \in SimStates /\ c.draws = g.draws
      /\ \A m \in Motors : c.temp[m] > MaxT => c.burnt[m]
      /\ \A m \in Motors : g.burnt[m] =>
             c.burnt[m] /\ c.temp[m] <= g.temp[m] /\ c.rpm[m] = 0
  BY <1>1, CalculateMotorsType
<1> HIDE DEF c
<1>3. /\ s \in SimStates /\ s.draws = c.draws + BatteryDraws
      /\ s.rpm = c.rpm /\ s.temp = c.temp /\ s.burnt = c.burnt
  BY <1>2, UpdateBatType
<1> HIDE DEF s
<1>4. /\ s.draws = sim.draws + GyroDraws + FrameDraws + BatteryDraws
      /\ \A m \in Motors : s.temp[m] > MaxT => s.burnt[m]
      /\ \A m \in Motors : sim.burnt[m] =>
             s.burnt[m] /\ s.temp[m] <= sim.temp[m] /\ s.rpm[m] = 0
  BY <1>2, <1>3
<1>5. UpdatePhysics(g, rpm, heat) = s
  BY DEF UpdatePhysics, s, c
<1> QED BY <1>3, <1>4, <1>5

-----------------------------------------------------------------------------
(* The invariant *)

LEMMA NoiseOfZero == 0 = 0 * (GyroDraws + FrameDraws + BatteryDraws)
BY DEF GyroDraws, FrameDraws, BatteryDraws

LEMMA ColdIsFine ==
    ASSUME NEW s, s.temp = Each(Ambient)
    PROVE  \A m \in Motors : ~(s.temp[m] > MaxT)
<1> SUFFICES ASSUME NEW m \in Motors PROVE ~(s.temp[m] > MaxT)
  OBVIOUS
<1>1. s.temp[m] = Ambient
  BY Zenon DEF Each
<1>2. ~(Ambient > MaxT)
  BY Sizes
<1> QED BY <1>1, <1>2, Zenon

LEMMA InitInv == Init => Inv
<1> SUFFICES ASSUME Init PROVE Inv
  OBVIOUS
<1>1. Default \in Profiles
  BY PowertrainAssumption
<1>2. sim = InitState(Zeroed, Default) /\ profile = Default /\ ticks = 0 /\ last = "boot"
  BY DEF Init
<1>3. sim \in SimStates /\ sim.draws = 0
  BY <1>1, <1>2, ZeroedType, InitStateType
<1>4. PICK sleep \in Sleeps : fw = [dir |-> Each(1), rpm |-> Each(0), clock |-> 0,
                                    stamp |-> 0, sleep |-> sleep]
  BY DEF Init
<1>5. fw \in Firmwares /\ fw.clock = 0
  BY <1>4, EachType, Sizes DEF Firmwares
<1>6. snapshot = [sim |-> sim, fw |-> fw]
  BY DEF Init
<1>7. TypeOK
  BY <1>1, <1>2, <1>3, <1>5, <1>6 DEF TypeOK
<1>8. HotIsBurnt
  <2>1. sim.temp = Each(Ambient)
    BY <1>2 DEF InitState, Zeroed
  <2> QED BY <2>1, ColdIsFine DEF HotIsBurnt
<1>9. NoiseKeepsTime
  BY <1>2, <1>3, NoiseOfZero DEF NoiseKeepsTime
<1>10. GraceEnds
  BY <1>5, Sizes DEF GraceEnds
<1>11. SnapshotKept /\ ResetIsFresh
  BY <1>2, <1>6 DEF SnapshotKept, ResetIsFresh
<1> QED BY <1>7, <1>8, <1>9, <1>10, <1>11 DEF Inv

(* One tick more, seven draws more. *)
LEMMA NoiseOfTick ==
    ASSUME NEW n \in Nat, NEW d \in Nat,
           d = n * (GyroDraws + FrameDraws + BatteryDraws)
    PROVE  d + GyroDraws + FrameDraws + BatteryDraws
               = (n + 1) * (GyroDraws + FrameDraws + BatteryDraws)
BY DEF GyroDraws, FrameDraws, BatteryDraws

LEMMA TickInv ==
    ASSUME Inv, NEW g \in SimStates, NEW rpm \in Speeds, NEW heat \in Heats,
           g.draws = sim.draws + GyroDraws + FrameDraws,
           g.temp = sim.temp, g.burnt = sim.burnt,
           sim' = UpdatePhysics(g, rpm, heat),
           fw' \in Firmwares, fw'.clock >= Milli => fw'.stamp > 0,
           ticks' = ticks + 1, last' = "tick", UNCHANGED <<profile, snapshot>>
    PROVE  /\ Inv'
           /\ \A m \in Motors : sim.burnt[m] =>
                  sim'.burnt[m] /\ sim'.temp[m] <= sim.temp[m] /\ sim'.rpm[m] = 0
<1>1. TypeOK /\ HotIsBurnt /\ SnapshotKept /\ NoiseKeepsTime
  BY DEF Inv
<1>2. /\ sim' \in SimStates
      /\ sim'.draws = sim.draws + GyroDraws + FrameDraws + BatteryDraws
      /\ \A m \in Motors : sim'.temp[m] > MaxT => sim'.burnt[m]
      /\ \A m \in Motors : sim.burnt[m] =>
             sim'.burnt[m] /\ sim'.temp[m] <= sim.temp[m] /\ sim'.rpm[m] = 0
  BY <1>1, TickType
<1>3. TypeOK'
  BY <1>1, <1>2 DEF TypeOK
<1>4. NoiseKeepsTime'
  <2>1. ticks \in Nat /\ sim.draws \in Nat
    BY <1>1 DEF TypeOK, SimStates
  <2> QED BY <1>1, <1>2, <2>1, NoiseOfTick DEF NoiseKeepsTime
<1>5. HotIsBurnt' /\ SnapshotKept' /\ ResetIsFresh' /\ GraceEnds'
  BY <1>1, <1>2 DEF HotIsBurnt, SnapshotKept, ResetIsFresh, GraceEnds
<1> QED BY <1>2, <1>3, <1>4, <1>5 DEF Inv

LEMMA FlightInv ==
    ASSUME Inv, NEW dir \in [Motors -> {-1, 1}], NEW rpm \in Speeds, NEW heat \in Heats,
           SimStep(dir, rpm, heat) \/ UpdateMotors(rpm, heat)
    PROVE  /\ Inv'
           /\ \A m \in Motors : sim.burnt[m] =>
                  sim'.burnt[m] /\ sim'.temp[m] <= sim.temp[m] /\ sim'.rpm[m] = 0
<1>1. TypeOK /\ GraceEnds
  BY DEF Inv
<1>2. sim \in SimStates /\ fw \in Firmwares
  BY <1>1 DEF TypeOK
<1> DEFINE g == UpdateGyro(sim)
<1>3. /\ g \in SimStates /\ g.draws = sim.draws + GyroDraws + FrameDraws
      /\ g.temp = sim.temp /\ g.burnt = sim.burnt
  BY <1>2, UpdateGyroType
<1>4. CASE SimStep(dir, rpm, heat)
  <2> DEFINE h == [g EXCEPT !.spin = fw'.dir]
  <2>1. /\ fw' = BFUpdate(fw, sim, dir) /\ sim' = UpdatePhysics(h, rpm, heat)
        /\ ticks' = ticks + 1 /\ last' = "tick" /\ UNCHANGED <<profile, snapshot>>
    BY <1>4 DEF SimStep
  <2>2. fw' \in Firmwares /\ (fw'.clock >= Milli => fw'.stamp > 0)
    BY <1>1, <1>2, <2>1, BFUpdateType DEF GraceEnds
  <2> HIDE DEF g
  <2>3. /\ h \in SimStates /\ h.draws = g.draws
        /\ h.temp = g.temp /\ h.burnt = g.burnt
    <3>1. fw'.dir \in [Motors -> {-1, 1}]
      BY <2>2 DEF Firmwares
    <3> QED BY <1>3, <3>1 DEF SimStates
  <2> HIDE DEF h
  <2> QED BY <1>3, <2>1, <2>2, <2>3, TickInv
<1>5. CASE UpdateMotors(rpm, heat)
  <2>1. /\ sim' = UpdatePhysics(g, rpm, heat)
        /\ ticks' = ticks + 1 /\ last' = "tick" /\ UNCHANGED <<profile, fw, snapshot>>
    BY <1>5 DEF UpdateMotors
  <2>2. fw' \in Firmwares /\ (fw'.clock >= Milli => fw'.stamp > 0)
    BY <1>1, <1>2, <2>1 DEF GraceEnds
  <2> HIDE DEF g
  <2> QED BY <1>3, <2>1, <2>2, TickInv
<1> QED BY <1>4, <1>5

(* Two vehicles that agree in every field are the same. *)
LEMMA SameFields ==
    ASSUME NEW s \in SimStates, NEW z \in SimStates,
           s.rpm = z.rpm, s.temp = z.temp, s.burnt = z.burnt, s.spin = z.spin,
           s.turned = z.turned, s.charge = z.charge, s.drawn = z.drawn,
           s.seed = z.seed, s.draws = z.draws
    PROVE  s = z
BY DEF SimStates

(* What initState sets, and what it leaves. *)
LEMMA InitStateFields ==
    ASSUME NEW s \in SimStates, NEW p
    PROVE  LET z == InitState(s, p)
           IN  /\ z.rpm = s.rpm /\ z.burnt = s.burnt /\ z.spin = s.spin
               /\ z.turned = s.turned /\ z.drawn = s.drawn
               /\ z.temp = Each(Ambient) /\ z.charge = p.charged
               /\ z.seed = p.seed /\ z.draws = 0
BY DEF InitState, SimStates

LEMMA PhysicsResetFields ==
    ASSUME NEW s \in SimStates
    PROVE  LET z == PhysicsReset(s)
           IN  /\ z.rpm = Each(0) /\ z.turned = Each(FALSE)
               /\ z.burnt = s.burnt /\ z.spin = s.spin /\ z.drawn = s.drawn
               /\ z.temp = s.temp /\ z.charge = s.charge
               /\ z.seed = s.seed /\ z.draws = s.draws
BY DEF PhysicsReset, SimStates

(* What a reset restores and reinitialises is what a process starts with. *)
LEMMA ResetIsStart ==
    ASSUME NEW p \in Profiles
    PROVE  PhysicsReset(InitState(InitState(Zeroed, Default), p)) = Fresh(p)
<1> DEFINE boot == InitState(Zeroed, Default)
           again == InitState(boot, p)
           reset == PhysicsReset(again)
           fresh == InitState(Zeroed, p)
<1>1. Default \in Profiles /\ Zeroed \in SimStates
  BY PowertrainAssumption, ZeroedType
<1>2. Zeroed.rpm = Each(0) /\ Zeroed.turned = Each(FALSE)
  BY DEF Zeroed
<1>3. boot \in SimStates /\ fresh \in SimStates
  BY <1>1, InitStateType
<1>4. /\ boot.burnt = Zeroed.burnt /\ boot.spin = Zeroed.spin
      /\ boot.drawn = Zeroed.drawn
  BY <1>1, InitStateFields
<1>5. /\ fresh.rpm = Zeroed.rpm /\ fresh.burnt = Zeroed.burnt /\ fresh.spin = Zeroed.spin
      /\ fresh.turned = Zeroed.turned /\ fresh.drawn = Zeroed.drawn
      /\ fresh.temp = Each(Ambient) /\ fresh.charge = p.charged
      /\ fresh.seed = p.seed /\ fresh.draws = 0
  BY <1>1, InitStateFields
<1> HIDE DEF boot, fresh
<1>6. /\ again \in SimStates
      /\ again.burnt = boot.burnt /\ again.spin = boot.spin /\ again.drawn = boot.drawn
      /\ again.temp = Each(Ambient) /\ again.charge = p.charged
      /\ again.seed = p.seed /\ again.draws = 0
  BY <1>3, InitStateFields, InitStateType
<1> HIDE DEF again
<1>7. /\ reset \in SimStates
      /\ reset.rpm = Each(0) /\ reset.turned = Each(FALSE)
      /\ reset.burnt = again.burnt /\ reset.spin = again.spin
      /\ reset.drawn = again.drawn /\ reset.temp = again.temp
      /\ reset.charge = again.charge /\ reset.seed = again.seed
      /\ reset.draws = again.draws
  BY <1>6, PhysicsResetFields, PhysicsResetType
<1> HIDE DEF reset
<1>8. /\ reset.rpm = fresh.rpm /\ reset.temp = fresh.temp /\ reset.burnt = fresh.burnt
      /\ reset.spin = fresh.spin /\ reset.turned = fresh.turned
      /\ reset.charge = fresh.charge /\ reset.drawn = fresh.drawn
      /\ reset.seed = fresh.seed /\ reset.draws = fresh.draws
  BY <1>2, <1>4, <1>5, <1>6, <1>7, Zenon
<1>9. reset = fresh
  BY <1>3, <1>7, <1>8, SameFields
<1> QED BY <1>9 DEF Fresh, fresh, reset, again, boot

LEMMA ResetInv == Inv /\ Reset => Inv'
<1> SUFFICES ASSUME Inv, Reset PROVE Inv'
  OBVIOUS
<1>1. TypeOK /\ SnapshotKept
  BY DEF Inv
<1>2. /\ snapshot.sim \in SimStates /\ snapshot.fw \in Firmwares /\ profile \in Profiles
  BY <1>1 DEF TypeOK
<1>3. /\ sim' = PhysicsReset(InitState(snapshot.sim, profile))
      /\ ticks' = 0 /\ last' = "reset" /\ UNCHANGED <<profile, snapshot>>
  BY DEF Reset, Restored
<1>4. PICK sleep \in Sleeps : fw' = BFInit(snapshot.fw, sleep)
  BY DEF Reset, Restored
<1>5. fw' \in Firmwares /\ fw'.clock = 0
  BY <1>2, <1>4, BFInitType
<1>6. sim' \in SimStates /\ sim'.draws = 0
  BY <1>2, <1>3, InitStateType, PhysicsResetType
<1>7. sim' = Fresh(profile)
  BY <1>1, <1>2, <1>3, ResetIsStart DEF SnapshotKept
<1>8. sim'.temp = Each(Ambient)
  BY <1>2, <1>7, ZeroedType, InitStateFields DEF Fresh
<1>9. TypeOK'
  BY <1>1, <1>3, <1>5, <1>6 DEF TypeOK
<1>10. HotIsBurnt'
  BY <1>8, ColdIsFine DEF HotIsBurnt
<1>11. NoiseKeepsTime'
  BY <1>3, <1>6, NoiseOfZero DEF NoiseKeepsTime
<1>12. GraceEnds'
  BY <1>5, Sizes DEF GraceEnds
<1>13. SnapshotKept' /\ ResetIsFresh'
  BY <1>1, <1>3, <1>7 DEF SnapshotKept, ResetIsFresh, Fresh
<1> QED BY <1>9, <1>10, <1>11, <1>12, <1>13 DEF Inv

LEMMA ReinitInv ==
    ASSUME Inv, NEW p \in Profiles, ReinitPhysics(p)
    PROVE  /\ Inv'
           /\ \A m \in Motors : sim.burnt[m] =>
                  sim'.burnt[m] /\ sim'.temp[m] <= sim.temp[m]
<1>1. TypeOK /\ SnapshotKept /\ GraceEnds
  BY DEF Inv
<1>2. /\ profile' = p /\ sim' = InitState(sim, p) /\ ticks' = 0 /\ last' = "init"
      /\ UNCHANGED <<fw, snapshot>>
  BY DEF ReinitPhysics
<1>3. sim \in SimStates
  BY <1>1 DEF TypeOK
<1>4. sim' \in SimStates /\ sim'.draws = 0
  BY <1>2, <1>3, InitStateType
<1>5. sim'.temp = Each(Ambient) /\ sim'.burnt = sim.burnt
  BY <1>2, <1>3 DEF InitState, SimStates
<1>6. TypeOK'
  BY <1>1, <1>2, <1>4 DEF TypeOK
<1>7. HotIsBurnt'
  BY <1>5, ColdIsFine DEF HotIsBurnt
<1>8. NoiseKeepsTime'
  BY <1>2, <1>4, NoiseOfZero DEF NoiseKeepsTime
<1>9. GraceEnds' /\ SnapshotKept' /\ ResetIsFresh'
  BY <1>1, <1>2 DEF GraceEnds, SnapshotKept, ResetIsFresh
<1>10. ASSUME NEW m \in Motors, sim.burnt[m]
       PROVE  sim'.burnt[m] /\ sim'.temp[m] <= sim.temp[m]
  <2>1. sim'.burnt[m]
    BY <1>5, <1>10, Zenon
  <2>2. sim'.temp[m] = Ambient
    BY <1>5, Zenon DEF Each
  <2>3. sim.temp[m] \in Temps
    BY <1>3 DEF SimStates
  <2> QED BY <2>1, <2>2, <2>3, Sizes DEF Temps
<1> QED BY <1>6, <1>7, <1>8, <1>9, <1>10 DEF Inv

LEMMA RepairInv == Inv /\ Repair => Inv'
<1> SUFFICES ASSUME Inv, Repair PROVE Inv'
  OBVIOUS
<1>1. TypeOK /\ SnapshotKept /\ GraceEnds /\ NoiseKeepsTime
  BY DEF Inv
<1>2. /\ sim' = [sim EXCEPT !.charge = profile.charged, !.temp = Each(Ambient),
                            !.burnt = Each(FALSE)]
      /\ last' = "repair" /\ UNCHANGED <<profile, fw, snapshot, ticks>>
  BY DEF Repair
<1>3. sim \in SimStates /\ profile.charged \in Int
  BY <1>1, Sizes DEF TypeOK
<1>4. sim' \in SimStates /\ sim'.draws = sim.draws /\ sim'.temp = Each(Ambient)
  BY <1>2, <1>3, EachType DEF SimStates
<1>5. TypeOK'
  BY <1>1, <1>2, <1>4 DEF TypeOK
<1>6. HotIsBurnt'
  BY <1>4, ColdIsFine DEF HotIsBurnt
<1>7. NoiseKeepsTime' /\ GraceEnds' /\ SnapshotKept' /\ ResetIsFresh'
  BY <1>1, <1>2, <1>4 DEF NoiseKeepsTime, GraceEnds, SnapshotKept, ResetIsFresh
<1> QED BY <1>5, <1>6, <1>7 DEF Inv

LEMMA RebootInv == Inv /\ SystemReset => Inv' /\ UNCHANGED sim
<1> SUFFICES ASSUME Inv, SystemReset PROVE Inv' /\ UNCHANGED sim
  OBVIOUS
<1>1. TypeOK /\ SnapshotKept /\ HotIsBurnt /\ NoiseKeepsTime
  BY DEF Inv
<1>2. last' = "reboot" /\ UNCHANGED <<profile, sim, snapshot, ticks>>
  BY DEF SystemReset
<1>3. PICK sleep \in Sleeps : fw' = BFInit(fw, sleep)
  BY DEF SystemReset
<1>4. fw' \in Firmwares /\ fw'.clock = 0
  BY <1>1, <1>3, BFInitType DEF TypeOK
<1>5. TypeOK'
  BY <1>1, <1>2, <1>4 DEF TypeOK
<1>6. GraceEnds'
  BY <1>4, Sizes DEF GraceEnds
<1>7. SnapshotKept' /\ HotIsBurnt' /\ NoiseKeepsTime' /\ ResetIsFresh'
  BY <1>1, <1>2 DEF SnapshotKept, HotIsBurnt, NoiseKeepsTime, ResetIsFresh
<1> QED BY <1>2, <1>5, <1>6, <1>7 DEF Inv

LEMMA StepInv == Inv /\ [Next]_vars => Inv'
<1> SUFFICES ASSUME Inv, [Next]_vars PROVE Inv'
  OBVIOUS
<1>1. ASSUME NEW dir \in [Motors -> {-1, 1}], NEW rpm \in Speeds, NEW heat \in Heats,
             SimStep(dir, rpm, heat)
      PROVE  Inv'
  BY <1>1, FlightInv
<1>2. ASSUME NEW rpm \in Speeds, NEW heat \in Heats, UpdateMotors(rpm, heat)
      PROVE  Inv'
  <2>1. Each(1) \in [Motors -> {-1, 1}]
    BY EachType
  <2> QED BY <1>2, <2>1, FlightInv
<1>3. ASSUME NEW p \in Profiles, ReinitPhysics(p) PROVE Inv'
  BY <1>3, ReinitInv
<1>4. CASE UNCHANGED vars
  BY <1>4 DEF vars, Inv, TypeOK, SnapshotKept, HotIsBurnt, ResetIsFresh, NoiseKeepsTime,
              GraceEnds
<1> QED BY <1>1, <1>2, <1>3, <1>4, RepairInv, ResetInv, RebootInv DEF Next

-----------------------------------------------------------------------------
(* The theorems *)

(* What holds of the vehicle after every tick and every restart
   (core/sim/physics.cpp, core/sim/bf.cpp). *)
THEOREM PowertrainInvariant == Spec => []Inv
<1>1. Init => Inv
  BY InitInv
<1>2. Inv /\ [Next]_vars => Inv'
  BY StepInv
<1> QED BY <1>1, <1>2, PTL DEF Spec

(* Motors, battery, noise and firmware keep their types; in particular no
   motor gets hotter than its limit and one tick's heat. *)
THEOREM PowertrainTypes == Spec => []TypeOK
<1>1. Inv => TypeOK
  BY DEF Inv
<1> QED BY <1>1, PowertrainInvariant, PTL

(* A reset gives the vehicle a process started with the current profile has
   (Sim::reset). *)
THEOREM ResetsAreFresh == Spec => []ResetIsFresh
<1>1. Inv => ResetIsFresh
  BY DEF Inv
<1> QED BY <1>1, PowertrainInvariant, PTL

(* The noise's place in its stream is the number of ticks since the seed
   (updateGyroNoise, updateMotorNoise, updateBat). *)
THEOREM NoiseCountsTicks == Spec => []NoiseKeepsTime
<1>1. Inv => NoiseKeepsTime
  BY DEF Inv
<1> QED BY <1>1, PowertrainInvariant, PTL

(* The arming grace is over after a simulated millisecond (BF::update). *)
THEOREM GraceIsOver == Spec => []GraceEnds
<1>1. Inv => GraceEnds
  BY DEF Inv
<1> QED BY <1>1, PowertrainInvariant, PTL

(* Nothing but a repair or a reset brings a burned-out motor back
   (calculateMotors, initState). *)
THEOREM BurntMotorsStayDead == Spec => BurntStaysDead
<1> DEFINE Dead == \A m \in Motors :
                       (sim.burnt[m] /\ last' \notin {"repair", "reset"}) =>
                           /\ sim'.burnt[m]
                           /\ sim'.temp[m] <= sim.temp[m]
                           /\ last' = "tick" => sim'.rpm[m] = 0
<1>1. Inv /\ Next => Dead
  <2> SUFFICES ASSUME Inv, Next PROVE Dead
    OBVIOUS
  <2>1. ASSUME NEW dir \in [Motors -> {-1, 1}], NEW rpm \in Speeds, NEW heat \in Heats,
               SimStep(dir, rpm, heat)
        PROVE  Dead
    BY <2>1, FlightInv
  <2>2. ASSUME NEW rpm \in Speeds, NEW heat \in Heats, UpdateMotors(rpm, heat)
        PROVE  Dead
    <3>1. Each(1) \in [Motors -> {-1, 1}]
      BY EachType
    <3> QED BY <2>2, <3>1, FlightInv
  <2>3. ASSUME NEW p \in Profiles, ReinitPhysics(p) PROVE Dead
    <3>1. last' = "init"
      BY <2>3 DEF ReinitPhysics
    <3> QED BY <2>3, <3>1, ReinitInv
  <2>4. CASE Repair \/ Reset
    BY <2>4 DEF Repair, Reset
  <2>5. CASE SystemReset
    <3>1. last' = "reboot" /\ sim' = sim /\ sim \in SimStates
      BY <2>5 DEF SystemReset, Inv, TypeOK
    <3>2. \A m \in Motors : sim.temp[m] \in Int
      BY <3>1, Sizes DEF SimStates, Temps
    <3> QED BY <3>1, <3>2
  <2> QED BY <2>1, <2>2, <2>3, <2>4, <2>5 DEF Next
<1>2. Inv /\ [Next]_vars => [Dead]_vars
  BY <1>1
<1> QED BY <1>2, PowertrainInvariant, PTL DEF Spec, BurntStaysDead
=============================================================================
