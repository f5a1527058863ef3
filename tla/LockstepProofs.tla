--------------------------- MODULE LockstepProofs ---------------------------
(***************************************************************************)
(* Theorems about the two sides of the lockstep, for every value of their  *)
(* constants: the core (LockstepCore) and its client (FramePipeline).      *)
(***************************************************************************)
EXTENDS LockstepCore, FramePipeline, FiniteSetTheorems, TLAPS

(* Division with remainder, as the accumulator uses it. *)
LEMMA DivMod ==
    ASSUME NEW a \in Nat, NEW n \in Nat \ {0}
    PROVE  /\ a \div n \in Nat
           /\ a % n \in 0 .. n - 1
           /\ (a \div n) * n + (a % n) = a
  OBVIOUS

LEMMA ClampBound ==
    ASSUME CoreAssumption, NEW d \in Int
    PROVE  Clamp(d) \in 0 .. MaxDelta
  BY DEF Clamp, CoreAssumption

-----------------------------------------------------------------------------
(* One advance, from any well-formed start: time splits exactly into whole
   ticks and a residue smaller than one. *)
WellFormed(from) ==
    /\ from.residue \in 0 .. Tick - 1
    /\ from.ticks \in Nat
    /\ from.advances \in Nat
    /\ from.firmware \in Nat
    /\ from.reported \in Nat

LEMMA AdvanceExact ==
    ASSUME CoreAssumption, NEW from, WellFormed(from), NEW d \in Int
    PROVE  /\ Ticks(from, d) \in Nat
           /\ Residue(from, d) \in 0 .. Tick - 1
           /\ Ticks(from, d) * Tick \in Nat
           /\ Ticks(from, d) * Tick + Residue(from, d)
                  = from.residue + Clamp(d)
  <1>1. from.residue + Clamp(d) \in Nat
    BY ClampBound DEF WellFormed, CoreAssumption
  <1>2. Tick \in Nat \ {0}
    BY DEF CoreAssumption
  <1>3. /\ Ticks(from, d) \in Nat
        /\ Residue(from, d) \in 0 .. Tick - 1
        /\ Ticks(from, d) * Tick + Residue(from, d) = from.residue + Clamp(d)
    BY <1>1, <1>2, DivMod DEF Ticks, Residue
  <1>4. Ticks(from, d) * Tick \in Nat
    BY <1>2, <1>3
  <1> QED
    BY <1>3, <1>4

(* The starting points of an advance are well-formed. *)
LEMMA StartsWellFormed ==
    ASSUME CoreAssumption, TypeOK
    PROVE  WellFormed(Running) /\ WellFormed(Rewound) /\ WellFormed(Base)
  <1>1. Tick \in Nat \ {0}
    BY DEF CoreAssumption
  <1>2. WellFormed(Running)
    BY DEF WellFormed, Running, TypeOK
  <1>3. WellFormed(Rewound)
    BY <1>1 DEF WellFormed, Rewound
  <1> QED
    BY <1>2, <1>3 DEF Base

(* What both kinds of advance leave in the accumulator: simulated time has
   grown by exactly the clamped delta. *)
LEMMA AccumulateExact ==
    ASSUME CoreAssumption, NEW from, WellFormed(from), NEW d \in Int,
           Accumulate(from, d)
    PROVE  /\ totalDelta' \in 0 .. Tick - 1
           /\ ticks' \in Nat
           /\ advances' \in Nat
           /\ ticks' * Tick = from.ticks * Tick + Ticks(from, d) * Tick
           /\ SimTime' = from.ticks * Tick + from.residue + Clamp(d)
  <1>1. /\ Ticks(from, d) \in Nat
        /\ Residue(from, d) \in 0 .. Tick - 1
        /\ Ticks(from, d) * Tick + Residue(from, d) = from.residue + Clamp(d)
    BY AdvanceExact
  <1>2. /\ totalDelta' = Residue(from, d)
        /\ ticks' = from.ticks + Ticks(from, d)
        /\ advances' = from.advances + 1
    BY DEF Accumulate
  <1>3. from.ticks \in Nat /\ from.advances \in Nat /\ Tick \in Nat
    BY DEF WellFormed, CoreAssumption
  <1>4. ticks' * Tick = from.ticks * Tick + Ticks(from, d) * Tick
    BY <1>1, <1>2, <1>3
  <1>5. Clamp(d) \in Nat /\ from.residue \in Nat
    BY ClampBound DEF WellFormed, CoreAssumption
  <1>6. /\ from.ticks * Tick \in Nat
        /\ Ticks(from, d) * Tick \in Nat
        /\ Residue(from, d) \in Nat
    BY <1>1, <1>3
  <1>7. SimTime' = from.ticks * Tick + from.residue + Clamp(d)
    <2> DEFINE x == from.ticks * Tick
               y == Ticks(from, d) * Tick
               r == Residue(from, d)
               c == Clamp(d)
    <2>1. SimTime' = (x + y) + r
      BY <1>2, <1>4 DEF SimTime
    <2>2. /\ x \in Nat /\ y \in Nat /\ r \in Nat /\ c \in Nat
          /\ from.residue \in Nat /\ y + r = from.residue + c
      BY <1>1, <1>5, <1>6
    <2>3. SimTime' = x + from.residue + c
      <3> HIDE DEF x, y, r, c
      <3> QED
        BY <2>1, <2>2
    <2> QED
      BY <2>3
  <1>8. totalDelta' \in 0 .. Tick - 1
    BY <1>1, <1>2
  <1>9. ticks' \in Nat /\ advances' \in Nat
    BY <1>1, <1>2, <1>3
  <1> QED
    BY <1>4, <1>7, <1>8, <1>9

LEMMA UpdateTypes ==
    ASSUME CoreAssumption, NEW from, WellFormed(from), NEW d \in Int,
           NEW arm \in BOOLEAN, NEW c \in BOOLEAN, Update(from, d, arm, c)
    PROVE  /\ Accumulate(from, d)
           /\ rcArm' = arm
           /\ contact' = c
           /\ pwMicros' = from.firmware + Ticks(from, d) * Tick
           /\ pwMicros' \in Nat
           /\ microsPassed' \in Nat
  <1>1. Ticks(from, d) * Tick \in Nat
    BY AdvanceExact
  <1>2. from.firmware \in Nat /\ from.reported \in Nat
    BY DEF WellFormed
  <1>3. pwMicros' \in Nat
    BY <1>1, <1>2 DEF Update
  <1>4. microsPassed' \in Nat
    BY <1>2, <1>3, Zenon DEF Update
  <1> QED
    BY <1>3, <1>4, Zenon DEF Update

LEMMA UpdateMotorsTypes ==
    ASSUME CoreAssumption, NEW from, WellFormed(from), NEW d \in Int,
           NEW c \in BOOLEAN, UpdateMotors(from, d, c)
    PROVE  /\ Accumulate(from, d)
           /\ contact' = c
           /\ pwMicros' = from.firmware
           /\ pwMicros' \in Nat
           /\ microsPassed' \in Nat
  <1>1. Clamp(d) \in Nat
    BY ClampBound DEF CoreAssumption
  <1> QED
    BY <1>1 DEF UpdateMotors, WellFormed

-----------------------------------------------------------------------------
(* TypeOK: among the rest, the residue of the accumulator stays below one
   tick, so no advance ever starts with a backlog of ticks. *)
THEOREM TypeCorrect == Spec => []TypeOK
  <1> USE CoreAssumption
  <1>1. Init => TypeOK
    <2> SUFFICES ASSUME Init PROVE TypeOK
      OBVIOUS
    <2>1. /\ joystick \in BOOLEAN /\ inputArm \in BOOLEAN /\ overrideActive \in BOOLEAN
          /\ overrideArm \in BOOLEAN /\ lockstep \in BOOLEAN
          /\ contact \in BOOLEAN /\ rcArm \in BOOLEAN /\ askedArm \in BOOLEAN
      BY Zenon DEF Init
    <2>2. /\ quiet \in 0 .. IdleMs /\ stateInCount \in Nat /\ idleTicks \in Nat
          /\ totalDelta \in 0 .. Tick - 1 /\ pwMicros \in Nat
          /\ microsPassed \in Nat /\ ticks \in Nat /\ advances \in Nat
          /\ datagrams \in Nat
      BY DEF Init, CoreAssumption
    <2>3. /\ initState \in Profiles /\ physProfile \in Profiles
          /\ flownBy \in Peers \cup {"idle"}
      BY DEF Init, CoreAssumption
    <2> QED
      BY <2>1, <2>2, <2>3 DEF TypeOK
  <1>2. TypeOK /\ [Next]_vars => TypeOK'
    <2> SUFFICES ASSUME TypeOK, [Next]_vars
                 PROVE  TypeOK'
      OBVIOUS
    <2>0. WellFormed(Running) /\ WellFormed(Base)
      BY StartsWellFormed
    <2>1. CASE IdleTick
      <3>1. Update(Running, IdleDelta, inputArm, FALSE)
        BY <2>1 DEF IdleTick
      <3>2. IdleDelta \in Int /\ inputArm \in BOOLEAN
        BY DEF CoreAssumption, TypeOK
      <3>3. Accumulate(Running, IdleDelta) /\ rcArm' \in BOOLEAN
            /\ contact' \in BOOLEAN /\ pwMicros' \in Nat /\ microsPassed' \in Nat
        BY <2>0, <3>1, <3>2, UpdateTypes
      <3>4. totalDelta' \in 0 .. Tick - 1 /\ ticks' \in Nat /\ advances' \in Nat
        BY <2>0, <3>2, <3>3, AccumulateExact
      <3> QED
        BY <2>1, <3>3, <3>4 DEF IdleTick, TypeOK
    <2>2. ASSUME NEW p \in Profiles, PwInit(p) PROVE TypeOK'
      BY <2>2 DEF PwInit, Datagram, TypeOK
    <2>3. ASSUME NEW p \in Peers, NEW d \in Deltas,
                 NEW packetArm \in BOOLEAN, NEW joyArm \in BOOLEAN,
                 NEW c \in BOOLEAN, PwStateIn(p, d, packetArm, joyArm, c)
          PROVE  TypeOK'
      <3>1. Update(Base, d, Sticks(packetArm, joyArm), c) /\ Drives
        BY <2>3 DEF PwStateIn
      <3>2. d \in Int /\ Sticks(packetArm, joyArm) \in BOOLEAN
        BY DEF CoreAssumption, Sticks, TypeOK
      <3>3. Accumulate(Base, d) /\ rcArm' \in BOOLEAN
            /\ contact' \in BOOLEAN /\ pwMicros' \in Nat /\ microsPassed' \in Nat
        BY <2>0, <3>1, <3>2, UpdateTypes
      <3>4. totalDelta' \in 0 .. Tick - 1 /\ ticks' \in Nat /\ advances' \in Nat
        BY <2>0, <3>2, <3>3, AccumulateExact
      <3> QED
        BY <2>3, <3>1, <3>2, <3>3, <3>4
        DEF PwStateIn, Drives, Datagram, ProfileAfterReset, CoreAssumption,
            TypeOK
    <2>4. ASSUME NEW d \in Deltas, NEW c \in BOOLEAN,
                 PwMotorIn(d, c)
          PROVE  TypeOK'
      <3>1. UpdateMotors(Base, d, c) /\ Drives /\ d \in Int
        BY <2>4 DEF PwMotorIn, CoreAssumption
      <3>2. Accumulate(Base, d) /\ contact' \in BOOLEAN /\ pwMicros' \in Nat
            /\ microsPassed' \in Nat
        BY <2>0, <3>1, UpdateMotorsTypes
      <3>3. totalDelta' \in 0 .. Tick - 1 /\ ticks' \in Nat /\ advances' \in Nat
        BY <2>0, <3>1, <3>2, AccumulateExact
      <3>4. rcArm' \in BOOLEAN /\ inputArm' \in BOOLEAN
        BY <2>4, Zenon DEF PwMotorIn, TypeOK
      <3>5. flownBy' = flownBy /\ askedArm' = askedArm
        BY <2>4, Zenon DEF PwMotorIn
      <3> QED
        BY <3>1, <3>2, <3>3, <3>4, <3>5
        DEF Drives, Datagram, ProfileAfterReset, CoreAssumption,
            TypeOK
    <2>5. ASSUME NEW arm \in BOOLEAN, PwRcOverride(arm) PROVE TypeOK'
      BY <2>5 DEF PwRcOverride, Datagram, sim, TypeOK
    <2>6. CASE CmdReset
      <3>1. /\ contact' \in BOOLEAN /\ rcArm' \in BOOLEAN
            /\ overrideActive' \in BOOLEAN /\ askedArm' \in BOOLEAN
        BY <2>6, Zenon DEF CmdReset, OverrideAfterReset
      <3>2. /\ totalDelta' \in 0 .. Tick - 1 /\ pwMicros' \in Nat
            /\ microsPassed' \in Nat /\ ticks' \in Nat /\ advances' \in Nat
            /\ datagrams' \in Nat
        BY <2>6
        DEF CmdReset, Datagram, Rewound, CoreAssumption, TypeOK
      <3> QED
        BY <2>6, <3>1, <3>2 DEF CmdReset, ProfileAfterReset, TypeOK
    <2>7. ASSUME NEW m \in BOOLEAN, CmdMode(m) PROVE TypeOK'
      BY <2>7 DEF CmdMode, Datagram, sim, TypeOK
    <2>8. CASE Elapse
      BY <2>8 DEF Elapse, sim, history, CoreAssumption, TypeOK
    <2>10. CASE Ignored
      BY <2>10 DEF Ignored, Datagram, server, sim, TypeOK
    <2>9. CASE UNCHANGED vars
      BY <2>9 DEF vars, server, sim, history, TypeOK
    <2> QED
      BY <2>1, <2>2, <2>3, <2>4, <2>5, <2>6, <2>7, <2>8, <2>9, <2>10
      DEF Next, RecvTimeout
  <1> QED
    BY <1>1, <1>2, PTL DEF Spec

-----------------------------------------------------------------------------
(* ProfileInForce: no reset brings the snapshot's boot profile back. *)
THEOREM ProfileKept == Spec => []ProfileInForce
  <1>1. Init => ProfileInForce
    BY DEF Init, ProfileInForce
  <1>2. ProfileInForce /\ [Next]_vars => ProfileInForce'
    <2> SUFFICES ASSUME ProfileInForce, [Next]_vars
                 PROVE  ProfileInForce'
      OBVIOUS
    <2>1. ASSUME NEW p \in Profiles, PwInit(p) PROVE ProfileInForce'
      BY <2>1 DEF PwInit, ProfileInForce
    <2>2. ASSUME Drives PROVE ProfileInForce'
      BY <2>2 DEF Drives, ProfileAfterReset, ProfileInForce
    <2>3. CASE CmdReset
      BY <2>3 DEF CmdReset, ProfileAfterReset, ProfileInForce
    <2>4. CASE UNCHANGED <<initState, physProfile>>
      BY <2>4 DEF ProfileInForce
    <2> QED
      BY <2>1, <2>2, <2>3, <2>4
      DEF Next, IdleTick, RecvTimeout, PwStateIn, PwMotorIn, PwRcOverride,
          CmdMode, Ignored, Elapse, vars, server, sim, history
  <1> QED
    BY <1>1, <1>2, PTL DEF Spec

-----------------------------------------------------------------------------
(* ClocksInOrder: an advance that starts with the clocks in order ends so. *)
InOrder(from) ==
    /\ from.firmware <= from.ticks * Tick
    /\ from.firmware <= from.reported
    /\ from.reported <= from.ticks * Tick + from.residue

LEMMA UpdateKeepsOrder ==
    ASSUME CoreAssumption, NEW from, WellFormed(from), NEW d \in Int,
           NEW arm \in BOOLEAN, NEW c \in BOOLEAN, Update(from, d, arm, c),
           InOrder(from)
    PROVE  ClocksInOrder'
  <1> DEFINE moved == Ticks(from, d) * Tick
             base == from.ticks * Tick
             whole == ticks' * Tick
  <1>1. /\ whole = base + moved
        /\ pwMicros' = from.firmware + moved
        /\ SimTime' = base + from.residue + Clamp(d)
        /\ totalDelta' \in Nat
        /\ SimTime' = whole + totalDelta'
    BY UpdateTypes, AccumulateExact DEF SimTime, CoreAssumption
  <1>2. /\ base \in Nat /\ moved \in Nat /\ Clamp(d) \in Nat
        /\ from.firmware \in Nat /\ from.reported \in Nat /\ from.residue \in Nat
        /\ Ticks(from, d) \in Nat
    BY AdvanceExact, ClampBound, SMTT(30) DEF WellFormed, CoreAssumption
  <1>3. /\ from.firmware <= base /\ from.firmware <= from.reported
        /\ from.reported <= base + from.residue
    BY DEF InOrder
  <1>4. microsPassed' = IF Ticks(from, d) = 0 THEN from.reported ELSE pwMicros'
    BY DEF Update
  <1>5. Ticks(from, d) = 0 => moved = 0
    BY DEF CoreAssumption
  <1> HIDE DEF moved, base, whole
  <1>6. CASE Ticks(from, d) = 0
    <2>1. pwMicros' <= whole /\ pwMicros' <= microsPassed' /\ microsPassed' <= SimTime'
      BY <1>1, <1>2, <1>3, <1>4, <1>5, <1>6
    <2> QED
      BY <2>1 DEF ClocksInOrder, whole
  <1>7. CASE Ticks(from, d) # 0
    <2>1. pwMicros' <= whole /\ pwMicros' <= microsPassed' /\ microsPassed' <= SimTime'
      BY <1>1, <1>2, <1>3, <1>4, <1>7
    <2> QED
      BY <2>1 DEF ClocksInOrder, whole
  <1> QED
    BY <1>6, <1>7

LEMMA UpdateMotorsKeepsOrder ==
    ASSUME CoreAssumption, NEW from, WellFormed(from), NEW d \in Int,
           NEW c \in BOOLEAN, UpdateMotors(from, d, c), InOrder(from)
    PROVE  ClocksInOrder'
  <1> DEFINE moved == Ticks(from, d) * Tick
             base == from.ticks * Tick
             whole == ticks' * Tick
  <1>1. /\ whole = base + moved
        /\ pwMicros' = from.firmware
        /\ microsPassed' = from.reported + Clamp(d)
        /\ SimTime' = base + from.residue + Clamp(d)
    BY UpdateMotorsTypes, AccumulateExact DEF UpdateMotors
  <1>2. /\ base \in Nat /\ moved \in Nat /\ Clamp(d) \in Nat
        /\ from.firmware \in Nat /\ from.reported \in Nat /\ from.residue \in Nat
    BY AdvanceExact, ClampBound, SMTT(30) DEF WellFormed, CoreAssumption
  <1>3. /\ from.firmware <= base /\ from.firmware <= from.reported
        /\ from.reported <= base + from.residue
    BY DEF InOrder
  <1> HIDE DEF moved, base, whole
  <1>4. pwMicros' <= whole /\ pwMicros' <= microsPassed' /\ microsPassed' <= SimTime'
    BY <1>1, <1>2, <1>3
  <1> QED
    BY <1>4 DEF ClocksInOrder, whole

LEMMA StartsInOrder ==
    ASSUME CoreAssumption, TypeOK, ClocksInOrder
    PROVE  InOrder(Running) /\ InOrder(Base)
  <1>1. InOrder(Running)
    BY DEF InOrder, Running, ClocksInOrder, SimTime
  <1>2. InOrder(Rewound)
    BY DEF InOrder, Rewound, CoreAssumption
  <1> QED
    BY <1>1, <1>2 DEF Base

THEOREM ClocksStayInOrder == Spec => []ClocksInOrder
  <1> USE CoreAssumption
  <1>1. Init => ClocksInOrder
    BY DEF Init, ClocksInOrder, SimTime, CoreAssumption
  <1>2. TypeOK /\ ClocksInOrder /\ [Next]_vars => ClocksInOrder'
    <2> SUFFICES ASSUME TypeOK, ClocksInOrder, [Next]_vars
                 PROVE  ClocksInOrder'
      OBVIOUS
    <2>0. /\ WellFormed(Running) /\ WellFormed(Base)
          /\ InOrder(Running) /\ InOrder(Base)
      BY StartsWellFormed, StartsInOrder
    <2>1. CASE IdleTick
      <3>1. Update(Running, IdleDelta, inputArm, FALSE)
        BY <2>1 DEF IdleTick
      <3>2. IdleDelta \in Int /\ inputArm \in BOOLEAN
        BY DEF CoreAssumption, TypeOK
      <3> QED
        BY <2>0, <3>1, <3>2, UpdateKeepsOrder
    <2>2. ASSUME NEW p \in Peers, NEW d \in Deltas,
                 NEW packetArm \in BOOLEAN, NEW joyArm \in BOOLEAN,
                 NEW c \in BOOLEAN, PwStateIn(p, d, packetArm, joyArm, c)
          PROVE  ClocksInOrder'
      <3>1. /\ Update(Base, d, Sticks(packetArm, joyArm), c)
            /\ d \in Int /\ Sticks(packetArm, joyArm) \in BOOLEAN
        BY <2>2 DEF PwStateIn, Sticks, CoreAssumption, TypeOK
      <3> QED
        BY <2>0, <3>1, UpdateKeepsOrder
    <2>3. ASSUME NEW d \in Deltas, NEW c \in BOOLEAN,
                 PwMotorIn(d, c)
          PROVE  ClocksInOrder'
      <3>1. UpdateMotors(Base, d, c) /\ d \in Int
        BY <2>3 DEF PwMotorIn, CoreAssumption
      <3> QED
        BY <2>0, <3>1, UpdateMotorsKeepsOrder
    <2>4. CASE CmdReset
      BY <2>4 DEF CmdReset, Rewound, ClocksInOrder, SimTime, CoreAssumption
    <2>5. CASE UNCHANGED <<pwMicros, microsPassed, ticks, totalDelta>>
      BY <2>5 DEF ClocksInOrder, SimTime
    <2> QED
      BY <2>1, <2>2, <2>3, <2>4, <2>5
      DEF Next, RecvTimeout, PwInit, PwRcOverride, CmdMode, Ignored, Elapse,
          vars, server, sim, history
  <1> QED
    BY <1>1, <1>2, TypeCorrect, PTL DEF Spec

-----------------------------------------------------------------------------
(* SticksAsked needs to know that an override in force was itself asked for
   since the last PW_CMD_RESET. *)
SticksInv ==
    /\ SticksAsked
    /\ (overrideActive /\ overrideArm) => askedArm

THEOREM SticksAreAsked == Spec => []SticksAsked
  <1> USE CoreAssumption
  <1>1. Init => SticksInv
    BY Zenon DEF Init, SticksInv, SticksAsked
  <1>2. TypeOK /\ SticksInv /\ [Next]_vars => SticksInv'
    <2> SUFFICES ASSUME TypeOK, SticksInv, [Next]_vars
                 PROVE  SticksInv'
      OBVIOUS
    <2>1. CASE IdleTick
      BY <2>1 DEF IdleTick, SticksInv, SticksAsked
    <2>2. ASSUME NEW p \in Profiles, PwInit(p) PROVE SticksInv'
      BY <2>2 DEF PwInit, SticksInv, SticksAsked
    <2>3. ASSUME NEW p \in Peers, NEW d \in Deltas,
                 NEW packetArm \in BOOLEAN, NEW joyArm \in BOOLEAN,
                 NEW c \in BOOLEAN, PwStateIn(p, d, packetArm, joyArm, c)
          PROVE  SticksInv'
      <3>1. /\ rcArm' = Sticks(packetArm, joyArm)
            /\ overrideActive' = overrideActive /\ overrideArm' = overrideArm
            /\ askedArm' = (askedArm \/ IF joystick THEN joyArm ELSE packetArm)
        BY <2>3, Zenon DEF PwStateIn, Update, Drives
      <3>2. CASE joystick
        BY <3>1, <3>2, Zenon DEF Sticks, SticksInv, SticksAsked
      <3>3. CASE ~joystick /\ overrideActive
        BY <3>1, <3>3, Zenon DEF Sticks, SticksInv, SticksAsked
      <3>4. CASE ~joystick /\ ~overrideActive
        BY <3>1, <3>4, Zenon DEF Sticks, SticksInv, SticksAsked
      <3> QED
        BY <3>2, <3>3, <3>4
    <2>4. ASSUME NEW d \in Deltas, NEW c \in BOOLEAN,
                 PwMotorIn(d, c)
          PROVE  SticksInv'
      BY <2>4, Zenon DEF PwMotorIn, Drives, SticksInv, SticksAsked
    <2>5. ASSUME NEW arm \in BOOLEAN, PwRcOverride(arm) PROVE SticksInv'
      BY <2>5, Zenon DEF PwRcOverride, sim, SticksInv, SticksAsked
    <2>6. CASE CmdReset
      BY <2>6, Zenon DEF CmdReset, OverrideAfterReset, SticksInv, SticksAsked
    <2>7. ASSUME NEW m \in BOOLEAN, CmdMode(m) PROVE SticksInv'
      BY <2>7, Zenon DEF CmdMode, sim, SticksInv, SticksAsked
    <2>8. CASE Elapse
      BY <2>8, Zenon DEF Elapse, sim, history, SticksInv, SticksAsked
    <2>10. CASE Ignored
      BY <2>10, Zenon DEF Ignored, server, sim, SticksInv, SticksAsked
    <2>9. CASE UNCHANGED vars
      BY <2>9, Zenon DEF vars, server, sim, history, SticksInv, SticksAsked
    <2> QED
      BY <2>1, <2>2, <2>3, <2>4, <2>5, <2>6, <2>7, <2>8, <2>9, <2>10
      DEF Next, RecvTimeout
  <1>3. SticksInv => SticksAsked
    BY DEF SticksInv
  <1> QED
    BY <1>1, <1>2, <1>3, TypeCorrect, PTL DEF Spec

-----------------------------------------------------------------------------
(* What a running simulation starts an advance from is its own time. *)
LEMMA RunningTime ==
    Running.ticks * Tick + Running.residue = SimTime
  BY DEF Running, SimTime

-----------------------------------------------------------------------------
(* The refinement.  Until the first request no contact was ever loaded and
   nobody is waited for. *)
ContractInv ==
    stateInCount = 0 => (contact = FALSE /\ quiet = IdleMs)

LEMMA ContractInvHolds == Spec => []ContractInv
  <1> USE CoreAssumption
  <1>1. Init => ContractInv
    BY DEF Init, ContractInv
  <1>2. TypeOK /\ ContractInv /\ [Next]_vars => ContractInv'
    <2> SUFFICES ASSUME TypeOK, ContractInv, [Next]_vars
                 PROVE  ContractInv'
      OBVIOUS
    <2>1. CASE IdleTick
      BY <2>1 DEF IdleTick, Update, ContractInv
    <2>2. ASSUME Drives PROVE ContractInv'
      BY <2>2 DEF Drives, ContractInv, CoreAssumption, TypeOK
    <2>3. CASE CmdReset
      BY <2>3 DEF CmdReset, ContractInv
    <2>4. CASE Elapse
      BY <2>4 DEF Elapse, sim, ContractInv
    <2>5. CASE UNCHANGED <<quiet, stateInCount, contact>>
      BY <2>5 DEF ContractInv
    <2> QED
      BY <2>1, <2>2, <2>3, <2>4, <2>5
      DEF Next, RecvTimeout, PwInit, PwStateIn, PwMotorIn, PwRcOverride,
          CmdMode, Ignored, vars, server, sim, history
  <1> QED
    BY <1>1, <1>2, TypeCorrect, PTL DEF Spec

(* The clock the client sees. *)
ClientTime == IF stateInCount = 0 THEN 0 ELSE SimTime

(* One advance made for a client is one Drive of the contract. *)
LEMMA DriveStep ==
    ASSUME CoreAssumption, TypeOK, Drives,
           NEW d \in Int, Accumulate(Base, d), ProfileInForce,
           contact' \in BOOLEAN
    PROVE  Contract!Drive
  <1>1. WellFormed(Base)
    BY StartsWellFormed
  <1>2. SimTime' = Base.ticks * Tick + Base.residue + Clamp(d)
    BY <1>1, AccumulateExact
  <1>3. Base.ticks * Tick + Base.residue = ClientTime
    <2>1. CASE FirstContact
      BY <2>1 DEF FirstContact, Base, Rewound, ClientTime, CoreAssumption
    <2>2. CASE ~FirstContact
      BY <2>2, RunningTime DEF FirstContact, Base, ClientTime
    <2> QED
      BY <2>1, <2>2
  <1>4. stateInCount' # 0
    BY DEF Drives, TypeOK
  <1>5. ClientTime' = ClientTime + Clamp(d)
    BY <1>2, <1>3, <1>4 DEF ClientTime
  <1>6. Clamp(d) \in 0 .. MaxDelta
    BY ClampBound
  <1>7. /\ lockstep' = lockstep /\ physProfile' = physProfile
        /\ stateInCount' = stateInCount + 1
    BY DEF Drives, ProfileAfterReset, ProfileInForce
  <1>8. ~(quiet' >= IdleMs)
    BY DEF Drives, CoreAssumption
  <1> QED
    BY <1>5, <1>6, <1>7, <1>8 DEF Contract!Drive, ClientTime

LEMMA StepRefines ==
    ASSUME CoreAssumption, TypeOK, ContractInv, ProfileInForce, Next
    PROVE  [Contract!Next]_Contract!vars
  <1>0. /\ WellFormed(Running)
        /\ SimTime \in Int
    BY StartsWellFormed DEF SimTime, TypeOK, CoreAssumption
  <1>1. CASE IdleTick
    <2>1. Update(Running, IdleDelta, inputArm, FALSE)
      BY <1>1 DEF IdleTick
    <2>2. IdleDelta \in Int /\ inputArm \in BOOLEAN
      BY DEF CoreAssumption, TypeOK
    <2>3. Accumulate(Running, IdleDelta) /\ contact' = FALSE
      BY <1>0, <2>1, <2>2, UpdateTypes
    <2>4. SimTime' = SimTime + IdleDelta
      <3>1. Clamp(IdleDelta) = IdleDelta
        BY DEF Clamp, CoreAssumption
      <3> QED
        BY <1>0, <2>2, <2>3, <3>1, AccumulateExact, RunningTime
    <2>5. UNCHANGED <<lockstep, physProfile, stateInCount, quiet>>
      BY <1>1 DEF IdleTick
    <2>6. CASE stateInCount = 0
      BY <2>3, <2>5, <2>6 DEF Contract!vars, ContractInv
    <2>7. CASE stateInCount # 0
      <3>1. ~lockstep \/ quiet >= IdleMs
        BY <1>1, <2>7 DEF IdleTick, ClientDriving, TypeOK, CoreAssumption
      <3> QED
        BY <2>3, <2>4, <2>5, <2>7, <3>1
        DEF Contract!Next, Contract!SelfAdvance
    <2> QED
      BY <2>6, <2>7
  <1>2. ASSUME NEW p \in Profiles, PwInit(p)
        PROVE  Contract!Configure
    BY <1>2 DEF PwInit, Contract!Configure, SimTime
  <1>3. ASSUME NEW p \in Peers, NEW d \in Deltas,
               NEW packetArm \in BOOLEAN, NEW joyArm \in BOOLEAN,
               NEW c \in BOOLEAN, PwStateIn(p, d, packetArm, joyArm, c)
        PROVE  Contract!Drive
    <2>1. /\ Drives /\ Accumulate(Base, d) /\ contact' \in BOOLEAN
      BY <1>3, Zenon DEF PwStateIn, Update
    <2> QED
      BY <2>1, DriveStep DEF CoreAssumption
  <1>4. ASSUME NEW d \in Deltas, NEW c \in BOOLEAN,
               PwMotorIn(d, c)
        PROVE  Contract!Drive
    <2>1. /\ Drives /\ Accumulate(Base, d) /\ contact' \in BOOLEAN
      BY <1>4, Zenon DEF PwMotorIn, UpdateMotors
    <2> QED
      BY <2>1, DriveStep DEF CoreAssumption
  <1>5. CASE CmdReset
    <2>1. /\ SimTime' = 0 /\ contact' = FALSE
          /\ UNCHANGED <<lockstep, stateInCount, quiet>>
      BY <1>5 DEF CmdReset, Rewound, SimTime, CoreAssumption
    <2>2. physProfile' = physProfile
      BY <1>5 DEF CmdReset, ProfileAfterReset, ProfileInForce
    <2> QED
      BY <2>1, <2>2 DEF Contract!Next, Contract!Rewind
  <1>6. ASSUME NEW m \in BOOLEAN, CmdMode(m)
        PROVE  Contract!SetMode
    <2>1. /\ UNCHANGED <<stateInCount, ticks, totalDelta, physProfile, contact, quiet>>
          /\ lockstep' \in BOOLEAN
      BY <1>6, Zenon DEF CmdMode, sim
    <2> QED
      BY <2>1 DEF Contract!SetMode, SimTime
  <1>7. CASE UNCHANGED <<lockstep, physProfile, stateInCount, ticks, totalDelta,
                         contact, quiet>>
    BY <1>7 DEF Contract!vars, SimTime
  <1>8. CASE Elapse
    <2>1. UNCHANGED <<lockstep, physProfile, stateInCount, ticks, totalDelta,
                      contact>>
      BY <1>8 DEF Elapse, sim, history
    <2>2. ~(quiet >= IdleMs)
      BY <1>8 DEF Elapse, TypeOK, CoreAssumption
    <2>3. CASE quiet' >= IdleMs
      BY <2>1, <2>3 DEF Contract!Next, Contract!GiveUp, SimTime
    <2>4. CASE ~(quiet' >= IdleMs)
      BY <2>1, <2>2, <2>4 DEF Contract!vars, SimTime
    <2> QED
      BY <2>3, <2>4
  <1> QED
    BY <1>1, <1>2, <1>3, <1>4, <1>5, <1>6, <1>7, <1>8
    DEF Next, RecvTimeout, PwRcOverride, Ignored, vars, server, sim, history,
        Contract!Next

(* The server loop implements the lockstep contract, whatever its clients do
   and however long they pause: simulated time moves only by what requests ask
   for until the client has been silent for IdleMs. *)
THEOREM Refinement == Spec => ContractSpec
  <1> USE CoreAssumption
  <1>1. Init => Contract!Init
    BY DEF Init, Contract!Init, CoreAssumption
  <1>2. TypeOK /\ ContractInv /\ ProfileInForce /\ [Next]_vars
            => [Contract!Next]_Contract!vars
    <2>1. CASE Next
      BY <2>1, StepRefines
    <2>2. CASE UNCHANGED vars
      BY <2>2 DEF vars, server, sim, history, Contract!vars, SimTime
    <2> QED
      BY <2>1, <2>2
  <1> QED
    BY <1>1, <1>2, TypeCorrect, ContractInvHolds, ProfileKept, PTL
    DEF Spec, ContractSpec, Contract!Spec
-----------------------------------------------------------------------------
(* The frame pipeline.  The place of a packet or reply in it is the number of
   states up to its own: those on their way to the client come first. *)
StatesUpTo(q, n) == {i \in 1 .. n : IsState(q[i])}
Rank(q, n) == Cardinality(StatesUpTo(q, n))


LEMMA RankType ==
    ASSUME NEW q, NEW n \in Nat
    PROVE  IsFiniteSet(StatesUpTo(q, n)) /\ Rank(q, n) \in Nat
<1>1. IsFiniteSet(1 .. n)
  BY FS_Interval
<1>2. StatesUpTo(q, n) \subseteq 1 .. n
  BY DEF StatesUpTo
<1> QED BY <1>1, <1>2, FS_Subset, FS_CardinalityType DEF Rank

LEMMA RankEmpty ==
    ASSUME NEW q
    PROVE  Rank(q, 0) = 0
<1>1. StatesUpTo(q, 0) = {}
  BY DEF StatesUpTo
<1> QED BY <1>1, FS_EmptySet DEF Rank

Unit(d) == IF IsState(d) THEN 1 ELSE 0

(* A place further on, the rank grows by the state that is there. *)
LEMMA RankStep ==
    ASSUME NEW q, NEW n \in Nat
    PROVE  Rank(q, n + 1) = Rank(q, n) + Unit(q[n + 1])
<1>1. CASE IsState(q[n + 1])
  <2>1. StatesUpTo(q, n + 1) = StatesUpTo(q, n) \cup {n + 1}
    BY <1>1 DEF StatesUpTo
  <2>2. n + 1 \notin StatesUpTo(q, n)
    BY DEF StatesUpTo
  <2> QED BY <1>1, <2>1, <2>2, RankType, FS_AddElement DEF Rank, Unit
<1>2. CASE ~IsState(q[n + 1])
  <2>1. StatesUpTo(q, n + 1) = StatesUpTo(q, n)
    BY <1>2 DEF StatesUpTo
  <2> QED BY <1>2, <2>1, RankType DEF Rank, Unit
<1> QED BY <1>1, <1>2

LEMMA RankGrows ==
    ASSUME NEW q, NEW m \in Nat, NEW n \in Nat, m <= n
    PROVE  Rank(q, m) <= Rank(q, n)
<1>1. StatesUpTo(q, m) \subseteq StatesUpTo(q, n)
  BY DEF StatesUpTo
<1> QED BY <1>1, RankType, FS_Subset DEF Rank

LEMMA RankPositive ==
    ASSUME NEW q, NEW n \in Nat, n > 0, IsState(q[n])
    PROVE  Rank(q, n) >= 1
<1>1. Rank(q, n - 1) \in Nat /\ Rank(q, (n - 1) + 1) = Rank(q, n - 1) + Unit(q[(n - 1) + 1])
  BY RankType, RankStep
<1>2. (n - 1) + 1 = n
  OBVIOUS
<1> QED BY <1>1, <1>2 DEF Unit

LEMMA CountIsRank ==
    ASSUME NEW S, NEW q \in Seq(S)
    PROVE  /\ StatesIn(q) = Rank(q, Len(q))
           /\ StatesIn(q) \in Nat
           /\ \A n \in 0 .. Len(q) : Rank(q, n) <= StatesIn(q)
           /\ q = <<>> => StatesIn(q) = 0
<1>1. DOMAIN q = 1 .. Len(q) /\ Len(q) \in Nat
  OBVIOUS
<1>2. StatesIn(q) = Rank(q, Len(q))
  BY <1>1 DEF StatesIn, Rank, StatesUpTo
<1>3. \A n \in 0 .. Len(q) : Rank(q, n) <= Rank(q, Len(q))
  BY <1>1, RankGrows
<1>4. q = <<>> => Len(q) = 0
  OBVIOUS
<1> QED BY <1>1, <1>2, <1>3, <1>4, RankType, RankEmpty

(* A datagram more at the end. *)
LEMMA RankAppend ==
    ASSUME NEW S, NEW q \in Seq(S), NEW d \in S
    PROVE  /\ Append(q, d) \in Seq(S)
           /\ Len(Append(q, d)) = Len(q) + 1
           /\ \A n \in 1 .. Len(q) : Append(q, d)[n] = q[n]
           /\ Append(q, d)[Len(q) + 1] = d
           /\ \A n \in 0 .. Len(q) : Rank(Append(q, d), n) = Rank(q, n)
           /\ StatesIn(Append(q, d)) = StatesIn(q) + Unit(d)
<1>1. /\ Append(q, d) \in Seq(S)
      /\ Len(Append(q, d)) = Len(q) + 1
      /\ \A n \in 1 .. Len(q) : Append(q, d)[n] = q[n]
      /\ Append(q, d)[Len(q) + 1] = d
      /\ Len(q) \in Nat
  OBVIOUS
<1>2. \A n \in 0 .. Len(q) : StatesUpTo(Append(q, d), n) = StatesUpTo(q, n)
  BY <1>1 DEF StatesUpTo
<1>3. \A n \in 0 .. Len(q) : Rank(Append(q, d), n) = Rank(q, n)
  BY <1>2 DEF Rank
<1>4. StatesIn(Append(q, d)) = Rank(Append(q, d), Len(q) + 1)
  BY <1>1, CountIsRank
<1>5. @ = Rank(Append(q, d), Len(q)) + Unit(d)
  BY <1>1, RankStep
<1>6. @ = StatesIn(q) + Unit(d)
  BY <1>1, <1>3, CountIsRank
<1> QED BY <1>1, <1>3, <1>4, <1>5, <1>6

(* The datagram at the front taken: every other one moves up. *)
LEMMA RankTail ==
    ASSUME NEW S, NEW q \in Seq(S), q # <<>>
    PROVE  /\ Tail(q) \in Seq(S)
           /\ Len(q) > 0 /\ Len(Tail(q)) = Len(q) - 1
           /\ Head(q) = q[1] /\ q[1] \in S
           /\ \A n \in 1 .. Len(q) - 1 : Tail(q)[n] = q[n + 1]
           /\ \A n \in 0 .. Len(q) - 1 : Rank(Tail(q), n) + Unit(Head(q)) = Rank(q, n + 1)
           /\ StatesIn(Tail(q)) + Unit(Head(q)) = StatesIn(q)
<1>1. /\ Tail(q) \in Seq(S)
      /\ Len(q) \in Nat /\ Len(q) > 0 /\ Len(Tail(q)) = Len(q) - 1
      /\ Head(q) = q[1] /\ q[1] \in S
      /\ \A n \in 1 .. Len(q) - 1 : Tail(q)[n] = q[n + 1]
  OBVIOUS
<1>2. ASSUME NEW n \in 0 .. Len(q) - 1
      PROVE  Rank(Tail(q), n) + Unit(Head(q)) = Rank(q, n + 1)
  <2> DEFINE here == StatesUpTo(Tail(q), n)
             there == StatesUpTo(q, n + 1) \ {1}
             moved == [i \in here |-> i + 1]
  <2>0. n \in Nat /\ n + 1 \in Nat /\ n <= Len(q) - 1
    BY <1>1
  <2>1. \A i \in here : i \in 1 .. n /\ IsState(q[i + 1])
    BY <1>1, <2>0 DEF StatesUpTo
  <2>2. \A i \in there : i - 1 \in here
    BY <1>1, <2>0 DEF StatesUpTo
  <2>3. moved \in [here -> there]
    BY <2>0, <2>1 DEF StatesUpTo
  <2>4. \A i, j \in here : moved[i] = moved[j] => i = j
    BY <2>1
  <2>5. \A k \in there : \E i \in here : moved[i] = k
    <3> SUFFICES ASSUME NEW k \in there PROVE \E i \in here : moved[i] = k
      OBVIOUS
    <3>1. k - 1 \in here /\ k \in Int
      BY <2>2 DEF StatesUpTo
    <3> QED BY <3>1
  <2>6. moved \in Bijection(here, there)
    BY <2>3, <2>4, <2>5 DEF Bijection, Injection, Surjection, IsInjective
  <2>7. IsFiniteSet(here) /\ Rank(Tail(q), n) \in Nat
    BY <2>0, RankType
  <2>8. IsFiniteSet(StatesUpTo(q, n + 1)) /\ Rank(q, n + 1) \in Nat
    BY <2>0, RankType
  <2>9. Cardinality(there) = Rank(Tail(q), n)
    BY <2>6, <2>7, FS_Bijection DEF ExistsBijection, Rank
  <2>10. IsState(Head(q)) <=> 1 \in StatesUpTo(q, n + 1)
    BY <1>1, <2>0 DEF StatesUpTo
  <2>11. CASE IsState(Head(q))
    <3>1. Cardinality(there) = Cardinality(StatesUpTo(q, n + 1)) - 1
      BY <2>8, <2>10, <2>11, FS_RemoveElement
    <3> QED BY <2>7, <2>8, <2>9, <2>11, <3>1 DEF Rank, Unit
  <2>12. CASE ~IsState(Head(q))
    <3>1. there = StatesUpTo(q, n + 1)
      BY <2>10, <2>12
    <3>2. Cardinality(there) = Rank(q, n + 1)
      BY <3>1 DEF Rank
    <3> HIDE DEF there
    <3> QED BY <2>7, <2>8, <2>9, <2>12, <3>2 DEF Unit
  <2> QED BY <2>11, <2>12
<1>3. Len(q) - 1 \in 0 .. Len(q) - 1 /\ (Len(q) - 1) + 1 = Len(q)
  BY <1>1
<1>4. Rank(Tail(q), Len(q) - 1) + Unit(Head(q)) = Rank(q, Len(q))
  BY <1>2, <1>3
<1>5. StatesIn(Tail(q)) + Unit(Head(q)) = StatesIn(q)
  BY <1>1, <1>4, CountIsRank
<1> QED BY <1>1, <1>2, <1>5

(* Nothing waits for a core that has not bound its port. *)
DownIsEmpty == core = "down" => toCore = <<>> /\ toClient = <<>>

(* A frame yields at most one reply, and its packet's id is its number. *)
RepliesBounded ==
    LET answered == IF waiting THEN frames - 1 ELSE frames
    IN  frameId <= answered /\ applied <= answered /\ answered >= 0

(* LagIsTheMisses, and the same inside a frame: its own packet is one more,
   unless the core had not bound its port. *)
Lag ==
    /\ ~waiting => InFlight = misses
    /\ waiting => InFlight = misses + 1 \/ (InFlight = 0 /\ misses = 0)

(* What descends from before the last override is at the front of the
   pipeline, within what the client still skips. *)
StaleIsSkipped ==
    misses <= Skipped =>
        /\ pose = overrides
        /\ \A i \in DOMAIN toClient :
              IsState(toClient[i]) /\ toClient[i].pose # overrides => Rank(toClient, i) <= skip
        /\ \A i \in DOMAIN toCore :
              IsState(toCore[i]) /\ toCore[i].pose # overrides
                  => StatesIn(toClient) + Rank(toCore, i) <= skip

ResetAfter(q, n) == \E j \in n + 1 .. Len(q) : q[j].type = "reset"

(* What the core has integrated since before the last reset is at the front of
   the pipeline, within the replies the misses will have applied. *)
OldIsAhead ==
    /\ \A i \in DOMAIN toClient :
          IsState(toClient[i]) /\ toClient[i].velocity # reset
              => Rank(toClient, i) + applied <= misses
    /\ \A i \in DOMAIN toCore :
          IsState(toCore[i]) /\ ResetAfter(toCore, i)
              => StatesIn(toClient) + Rank(toCore, i) + applied <= misses
    /\ applied > misses => velocity = reset

(* The core comes to the last reset once it has served its queue. *)
ResetIsOnTheWay ==
    /\ flight # reset => ResetAfter(toCore, 0)
    /\ \A i \in DOMAIN toCore :
          toCore[i].type = "reset" /\ toCore[i].as # reset => ResetAfter(toCore, i)

PipelineInv ==
    /\ PipelineTypeOK
    /\ DownIsEmpty
    /\ RepliesBounded
    /\ Lag
    /\ StaleIsSkipped
    /\ OldIsAhead
    /\ ResetIsOnTheWay

-----------------------------------------------------------------------------
(* What an action does to the two channels *)

LEMMA ResetAppend ==
    ASSUME NEW S, NEW q \in Seq(S), NEW d \in S, NEW i \in 0 .. Len(q) + 1
    PROVE  ResetAfter(Append(q, d), i)
              <=> ResetAfter(q, i) \/ (d.type = "reset" /\ i <= Len(q))
<1>1. /\ Len(Append(q, d)) = Len(q) + 1
      /\ \A n \in 1 .. Len(q) : Append(q, d)[n] = q[n]
      /\ Append(q, d)[Len(q) + 1] = d
      /\ Len(q) \in Nat
  OBVIOUS
<1> DEFINE longer == Append(q, d)
<1> HIDE DEF longer
<1>2. /\ Len(longer) = Len(q) + 1
      /\ \A n \in 1 .. Len(q) : longer[n] = q[n]
      /\ longer[Len(q) + 1] = d
  BY <1>1 DEF longer
<1>3. ASSUME ResetAfter(longer, i)
      PROVE  ResetAfter(q, i) \/ (d.type = "reset" /\ i <= Len(q))
  <2>1. PICK j \in i + 1 .. Len(longer) : longer[j].type = "reset"
    BY <1>3 DEF ResetAfter
  <2>2. CASE j = Len(q) + 1
    BY <1>1, <1>2, <2>1, <2>2
  <2>3. CASE j \in i + 1 .. Len(q)
    BY <1>1, <1>2, <2>1, <2>3 DEF ResetAfter
  <2> QED BY <1>1, <1>2, <2>1, <2>2, <2>3
<1>4. ASSUME ResetAfter(q, i)
      PROVE  ResetAfter(longer, i)
  <2>1. PICK j \in i + 1 .. Len(q) : q[j].type = "reset"
    BY <1>4 DEF ResetAfter
  <2>2. j \in i + 1 .. Len(longer) /\ longer[j] = q[j]
    BY <1>1, <1>2, <2>1
  <2> QED BY <2>1, <2>2 DEF ResetAfter
<1>5. ASSUME d.type = "reset", i <= Len(q)
      PROVE  ResetAfter(longer, i)
  <2>1. Len(q) + 1 \in i + 1 .. Len(longer)
    BY <1>1, <1>2, <1>5
  <2> QED BY <1>2, <1>5, <2>1 DEF ResetAfter
<1> QED BY <1>3, <1>4, <1>5 DEF longer

LEMMA ResetTail ==
    ASSUME NEW S, NEW q \in Seq(S), q # <<>>, NEW i \in 0 .. Len(q) - 1
    PROVE  ResetAfter(Tail(q), i) <=> ResetAfter(q, i + 1)
<1>1. /\ Len(q) \in Nat /\ Len(Tail(q)) = Len(q) - 1
      /\ \A n \in 1 .. Len(q) - 1 : Tail(q)[n] = q[n + 1]
  OBVIOUS
<1> DEFINE shorter == Tail(q)
<1> HIDE DEF shorter
<1>2. /\ Len(shorter) = Len(q) - 1
      /\ \A n \in 1 .. Len(q) - 1 : shorter[n] = q[n + 1]
  BY <1>1 DEF shorter
<1>3. ASSUME ResetAfter(shorter, i)
      PROVE  ResetAfter(q, i + 1)
  <2>1. PICK j \in i + 1 .. Len(shorter) : shorter[j].type = "reset"
    BY <1>3 DEF ResetAfter
  <2>2. j + 1 \in (i + 1) + 1 .. Len(q) /\ q[j + 1] = shorter[j]
    BY <1>1, <1>2, <2>1
  <2> QED BY <2>1, <2>2 DEF ResetAfter
<1>4. ASSUME ResetAfter(q, i + 1)
      PROVE  ResetAfter(shorter, i)
  <2>1. PICK j \in (i + 1) + 1 .. Len(q) : q[j].type = "reset"
    BY <1>4 DEF ResetAfter
  <2>2. j - 1 \in i + 1 .. Len(shorter) /\ shorter[j - 1] = q[j]
    BY <1>1, <1>2, <2>1
  <2> QED BY <2>1, <2>2 DEF ResetAfter
<1> QED BY <1>3, <1>4 DEF shorter

LEMMA Counts ==
    ASSUME PipelineAssumption, PipelineTypeOK
    PROVE  /\ MaxFrames \in Nat /\ MaxMisses \in Nat /\ MaxOverrides \in Nat /\ MaxOsd \in Nat
           /\ pose \in Nat /\ velocity \in Nat /\ flight \in Nat /\ overrides \in Nat
           /\ reset \in Nat /\ skip \in Nat /\ frameId \in Nat /\ frames \in Nat
           /\ misses \in Nat /\ osd \in Nat /\ applied \in Nat
           /\ toCore \in Seq(Packets) /\ toClient \in Seq(Replies)
           /\ StatesIn(toCore) \in Nat /\ StatesIn(toClient) \in Nat
           /\ Len(toCore) \in Nat /\ DOMAIN toCore = 1 .. Len(toCore)
           /\ Len(toClient) \in Nat /\ DOMAIN toClient = 1 .. Len(toClient)
           /\ toCore = <<>> => StatesIn(toCore) = 0
           /\ toClient = <<>> => StatesIn(toClient) = 0
<1>1. MaxFrames \in Nat /\ MaxMisses \in Nat /\ MaxOverrides \in Nat /\ MaxOsd \in Nat
  BY DEF PipelineAssumption
<1>2. toCore \in Seq(Packets) /\ toClient \in Seq(Replies)
  BY DEF PipelineTypeOK
<1>3. /\ pose \in 0 .. MaxOverrides /\ velocity \in 0 .. MaxOverrides
      /\ flight \in 0 .. MaxOverrides /\ overrides \in 0 .. MaxOverrides
      /\ reset \in 0 .. MaxOverrides /\ skip \in {0, 1}
      /\ frameId \in 0 .. MaxFrames /\ frames \in 0 .. MaxFrames
      /\ misses \in 0 .. MaxMisses /\ osd \in 0 .. MaxOsd /\ applied \in 0 .. MaxFrames
  BY DEF PipelineTypeOK
<1> QED BY <1>1, <1>2, <1>3, CountIsRank

(* A datagram sent: the ranks before it stay. *)
LEMMA PutStep ==
    ASSUME PipelineAssumption, PipelineTypeOK, DownIsEmpty,
           NEW d \in Packets, Put(d), toClient' = toClient, core' = core
    PROVE  /\ toCore' \in Seq(Packets)
           /\ DownIsEmpty'
           /\ StatesIn(toCore') = StatesIn(toCore) + IF core = "down" THEN 0 ELSE Unit(d)
           /\ \A i \in DOMAIN toCore' :
                 \/ /\ i \in DOMAIN toCore
                    /\ toCore'[i] = toCore[i]
                    /\ Rank(toCore', i) = Rank(toCore, i)
                 \/ /\ i = Len(toCore) + 1
                    /\ core # "down"
                    /\ toCore'[i] = d
                    /\ Rank(toCore', i) = StatesIn(toCore) + Unit(d)
           /\ core # "down" => toCore'[Len(toCore) + 1] = d
           /\ Len(toCore') = Len(toCore) + IF core = "down" THEN 0 ELSE 1
           /\ DOMAIN toCore' = 1 .. Len(toCore')
           /\ \A i \in 0 .. Len(toCore') :
                 ResetAfter(toCore', i) <=>
                     \/ ResetAfter(toCore, i)
                     \/ core # "down" /\ d.type = "reset" /\ i <= Len(toCore)
<1>1. /\ toCore \in Seq(Packets) /\ Len(toCore) \in Nat /\ DOMAIN toCore = 1 .. Len(toCore)
      /\ StatesIn(toCore) \in Nat
  BY Counts
<1>2. CASE core = "down"
  <2>1. toCore' = toCore /\ toCore = <<>> /\ toClient = <<>>
    BY <1>2 DEF Put, DownIsEmpty
  <2>2. Len(toCore) = 0
    BY <2>1
  <2>3. \A i \in 0 .. Len(toCore') : ResetAfter(toCore', i) <=> ResetAfter(toCore, i)
    BY <2>1
  <2>4. DOMAIN toCore' = {}
    BY <1>1, <2>1, <2>2
  <2> QED BY <1>1, <1>2, <2>1, <2>2, <2>3, <2>4 DEF DownIsEmpty
<1>3. CASE core # "down"
  <2>1. toCore' = Append(toCore, d)
    BY <1>3 DEF Put
  <2>2. /\ toCore' \in Seq(Packets)
        /\ Len(toCore') = Len(toCore) + 1
        /\ \A n \in 1 .. Len(toCore) : toCore'[n] = toCore[n]
        /\ toCore'[Len(toCore) + 1] = d
        /\ \A n \in 0 .. Len(toCore) : Rank(toCore', n) = Rank(toCore, n)
        /\ StatesIn(toCore') = StatesIn(toCore) + Unit(d)
    BY <1>1, <2>1, RankAppend
  <2>3. DOMAIN toCore' = 1 .. Len(toCore) + 1 /\ Len(toCore') \in Nat
    BY <1>1, <2>2
  <2>4. Rank(toCore', Len(toCore) + 1) = StatesIn(toCore) + Unit(d)
    BY <2>2, CountIsRank
  <2>5. \A i \in DOMAIN toCore' : i \in DOMAIN toCore \/ i = Len(toCore) + 1
    BY <1>1, <2>3
  <2>6. \A i \in 0 .. Len(toCore') :
           ResetAfter(toCore', i) <=> ResetAfter(toCore, i) \/ (d.type = "reset" /\ i <= Len(toCore))
    BY <1>1, <2>1, <2>2, ResetAppend
  <2> QED BY <1>1, <1>3, <2>2, <2>3, <2>4, <2>5, <2>6 DEF DownIsEmpty
<1> QED BY <1>2, <1>3

(* A datagram received: every other one is a place, and perhaps a rank, ahead. *)
LEMMA TakeStep ==
    ASSUME NEW S, NEW q \in Seq(S), q # <<>>
    PROVE  /\ Tail(q) \in Seq(S)
           /\ Head(q) \in S
           /\ StatesIn(Tail(q)) + Unit(Head(q)) = StatesIn(q)
           /\ \A i \in DOMAIN Tail(q) :
                 /\ i + 1 \in DOMAIN q
                 /\ Tail(q)[i] = q[i + 1]
                 /\ Rank(Tail(q), i) + Unit(Head(q)) = Rank(q, i + 1)
                 /\ Rank(Tail(q), i) \in Nat
           /\ \A i \in DOMAIN q : i = 1 \/ i - 1 \in DOMAIN Tail(q)
           /\ 1 \in DOMAIN q /\ Head(q) = q[1] /\ Rank(q, 1) = Unit(Head(q))
           /\ Len(q) \in Nat /\ DOMAIN q = 1 .. Len(q)
           /\ Len(Tail(q)) \in Nat /\ DOMAIN Tail(q) = 1 .. Len(Tail(q))
           /\ Len(Tail(q)) = Len(q) - 1
           /\ StatesIn(q) \in Nat /\ StatesIn(Tail(q)) \in Nat
           /\ \A i \in 0 .. Len(q) - 1 : ResetAfter(Tail(q), i) <=> ResetAfter(q, i + 1)
           /\ ResetAfter(q, 0) <=> Head(q).type = "reset" \/ ResetAfter(q, 1)
<1>1. /\ Tail(q) \in Seq(S)
      /\ Len(q) > 0 /\ Len(Tail(q)) = Len(q) - 1
      /\ Head(q) = q[1] /\ q[1] \in S
      /\ \A n \in 1 .. Len(q) - 1 : Tail(q)[n] = q[n + 1]
      /\ \A n \in 0 .. Len(q) - 1 : Rank(Tail(q), n) + Unit(Head(q)) = Rank(q, n + 1)
      /\ StatesIn(Tail(q)) + Unit(Head(q)) = StatesIn(q)
  BY RankTail
<1>2. /\ DOMAIN q = 1 .. Len(q) /\ Len(q) \in Nat
      /\ DOMAIN Tail(q) = 1 .. Len(Tail(q))
  BY <1>1
<1>3. Rank(q, 0 + 1) = Unit(Head(q))
  BY <1>1, RankStep, RankEmpty DEF Unit
<1>4. \A i \in DOMAIN Tail(q) : Rank(Tail(q), i) \in Nat
  BY <1>1, <1>2, RankType
<1>5. StatesIn(q) \in Nat /\ StatesIn(Tail(q)) \in Nat
  BY <1>1, CountIsRank
<1>6. \A i \in 0 .. Len(q) - 1 : ResetAfter(Tail(q), i) <=> ResetAfter(q, i + 1)
  BY ResetTail
<1>7. ResetAfter(q, 0) <=> Head(q).type = "reset" \/ ResetAfter(q, 1)
  BY <1>1, <1>2 DEF ResetAfter
<1> QED BY <1>1, <1>2, <1>3, <1>4, <1>5, <1>6, <1>7

-----------------------------------------------------------------------------
(* The steps of the client *)

LEMMA SendFrameKeeps ==
    ASSUME PipelineAssumption, PipelineInv, SendFrame
    PROVE  PipelineInv'
<1> DEFINE packet == [type |-> "state", id |-> frameId, pose |-> pose]
<1>1. /\ PipelineTypeOK /\ DownIsEmpty /\ RepliesBounded /\ Lag
      /\ StaleIsSkipped /\ OldIsAhead /\ ResetIsOnTheWay
  BY Zenon DEF PipelineInv
<1>2. /\ ~waiting /\ waiting' /\ frames < MaxFrames /\ frames' = frames + 1
      /\ Put(packet)
      /\ toClient' = toClient /\ core' = core
      /\ client' = client /\ armed' = armed /\ pose' = pose /\ velocity' = velocity
      /\ skip' = skip /\ frameId' = frameId /\ flight' = flight /\ misses' = misses
      /\ overrides' = overrides /\ osd' = osd /\ reset' = reset /\ applied' = applied
  BY DEF SendFrame
<1>3. packet \in Packets /\ IsState(packet) /\ packet.type = "state" /\ packet.pose = pose
  BY <1>1 DEF PipelineTypeOK, Packets, IsState
<1> HIDE DEF packet
<1>4. /\ toCore' \in Seq(Packets)
      /\ DownIsEmpty'
      /\ StatesIn(toCore') = StatesIn(toCore) + IF core = "down" THEN 0 ELSE 1
  BY <1>1, <1>2, <1>3, PutStep DEF Unit
<1>5. /\ Len(toCore') = Len(toCore) + IF core = "down" THEN 0 ELSE 1
      /\ DOMAIN toCore' = 1 .. Len(toCore')
  BY <1>1, <1>2, <1>3, PutStep
<1>6. \A i \in DOMAIN toCore' :
         \/ i \in DOMAIN toCore /\ toCore'[i] = toCore[i] /\ Rank(toCore', i) = Rank(toCore, i)
         \/ i = Len(toCore) + 1 /\ toCore'[i] = packet
  BY <1>1, <1>2, <1>3, PutStep
<1>7. \A i \in 0 .. Len(toCore') : ResetAfter(toCore', i) <=> ResetAfter(toCore, i)
  BY <1>1, <1>2, <1>3, PutStep
<1>8. /\ skip \in Nat /\ frameId \in Nat /\ frames \in Nat /\ misses \in Nat /\ applied \in Nat
      /\ StatesIn(toCore) \in Nat /\ StatesIn(toClient) \in Nat
      /\ Len(toCore) \in Nat /\ DOMAIN toCore = 1 .. Len(toCore)
      /\ MaxFrames \in Nat
      /\ core = "down" => StatesIn(toCore) = 0 /\ StatesIn(toClient) = 0
  BY <1>1, Counts DEF DownIsEmpty
<1>9. PipelineTypeOK'
  <2>1. /\ client' \in {"godot", "gym"} /\ waiting' \in BOOLEAN /\ armed' \in BOOLEAN
        /\ core' \in {"down", "booting", "up"}
    BY <1>1, <1>2 DEF PipelineTypeOK
  <2>2. {pose', velocity', flight', overrides', reset'} \subseteq 0 .. MaxOverrides
    BY <1>1, <1>2 DEF PipelineTypeOK
  <2>3. /\ skip' \in {0, 1} /\ frameId' \in 0 .. MaxFrames
        /\ misses' \in 0 .. MaxMisses /\ osd' \in 0 .. MaxOsd /\ applied' \in 0 .. MaxFrames
    BY <1>1, <1>2 DEF PipelineTypeOK
  <2>4. frames' \in 0 .. MaxFrames
    BY <1>1, <1>2, <1>8 DEF PipelineTypeOK
  <2>5. toCore' \in Seq(Packets) /\ toClient' \in Seq(Replies)
    BY <1>1, <1>2, <1>4 DEF PipelineTypeOK
  <2> QED BY <2>1, <2>2, <2>3, <2>4, <2>5 DEF PipelineTypeOK
<1>10. RepliesBounded'
  BY <1>1, <1>2, <1>8 DEF RepliesBounded
<1>11. Lag'
  <2>1. StatesIn(toCore) + StatesIn(toClient) = misses
    BY <1>1, <1>2 DEF Lag, InFlight
  <2>2. StatesIn(toClient') = StatesIn(toClient)
    BY <1>2
  <2>3. CASE core = "down"
    <3>1. StatesIn(toCore') + StatesIn(toClient') = 0 /\ misses' = 0
      BY <1>2, <1>4, <1>8, <2>1, <2>2, <2>3
    <3> QED BY <1>2, <3>1 DEF Lag, InFlight
  <2>4. CASE core # "down"
    <3>1. StatesIn(toCore') + StatesIn(toClient') = misses' + 1
      BY <1>2, <1>4, <1>8, <2>1, <2>2, <2>4
    <3> QED BY <1>2, <3>1 DEF Lag, InFlight
  <2> QED BY <2>3, <2>4
<1>12. StaleIsSkipped'
  BY <1>1, <1>2, <1>3, <1>6 DEF StaleIsSkipped, Skipped
<1>13. \A i \in 0 .. Len(toCore) + 1 : ResetAfter(toCore, i) => i < Len(toCore)
  BY <1>8 DEF ResetAfter
<1>14. OldIsAhead'
  <2>1. applied > misses => velocity = reset
    BY <1>1 DEF OldIsAhead
  <2>2. \A i \in DOMAIN toClient :
          IsState(toClient[i]) /\ toClient[i].velocity # reset
              => Rank(toClient, i) + applied <= misses
    BY <1>1 DEF OldIsAhead
  <2>3. ASSUME NEW i \in DOMAIN toCore', IsState(toCore'[i]), ResetAfter(toCore', i)
        PROVE  StatesIn(toClient) + Rank(toCore', i) + applied <= misses
    <3>1. i \in 0 .. Len(toCore') /\ i \in 0 .. Len(toCore) + 1
      BY <1>8, <1>5
    <3>2. ResetAfter(toCore, i)
      BY <1>7, <2>3, <3>1
    <3>3. i < Len(toCore)
      BY <1>13, <3>1, <3>2
    <3>4. i \in DOMAIN toCore /\ toCore'[i] = toCore[i] /\ Rank(toCore', i) = Rank(toCore, i)
      BY <1>8, <1>6, <3>3
    <3> QED BY <1>1, <2>3, <3>2, <3>4 DEF OldIsAhead
  <2> QED BY <1>2, <2>1, <2>2, <2>3 DEF OldIsAhead
<1>15. ResetIsOnTheWay'
  <2>1. flight' # reset' => ResetAfter(toCore', 0)
    <3>1. 0 \in 0 .. Len(toCore')
      BY <1>8, <1>5
    <3> QED BY <1>1, <1>2, <1>7, <3>1 DEF ResetIsOnTheWay
  <2>2. ASSUME NEW i \in DOMAIN toCore', toCore'[i].type = "reset", toCore'[i].as # reset
        PROVE  ResetAfter(toCore', i)
    <3>1. i \in DOMAIN toCore /\ toCore'[i] = toCore[i]
      BY <1>3, <1>6, <2>2
    <3>2. ResetAfter(toCore, i)
      BY <1>1, <2>2, <3>1 DEF ResetIsOnTheWay
    <3>3. i \in 0 .. Len(toCore')
      BY <1>8, <1>5
    <3> QED BY <1>7, <3>2, <3>3
  <2> QED BY <1>2, <2>1, <2>2 DEF ResetIsOnTheWay
<1> QED BY <1>4, <1>9, <1>10, <1>11, <1>12, <1>14, <1>15 DEF PipelineInv

LEMMA DropOsdKeeps ==
    ASSUME PipelineAssumption, PipelineInv, DropOsd
    PROVE  PipelineInv'
<1>1. /\ PipelineTypeOK /\ DownIsEmpty /\ RepliesBounded /\ Lag
      /\ StaleIsSkipped /\ OldIsAhead /\ ResetIsOnTheWay
  BY Zenon DEF PipelineInv
<1>2. /\ waiting /\ toClient # <<>> /\ ~IsState(Head(toClient))
      /\ toClient' = Tail(toClient)
      /\ UNCHANGED <<local, toCore, core, flight, counts>>
  BY DEF DropOsd
<1>3. toClient \in Seq(Replies) /\ misses \in Nat /\ applied \in Nat /\ skip \in Nat
  BY <1>1, Counts
<1>4. Unit(Head(toClient)) = 0
  BY <1>2 DEF Unit
<1>5. toClient' \in Seq(Replies) /\ StatesIn(toClient') = StatesIn(toClient)
  BY <1>2, <1>3, <1>4, TakeStep
<1>6. \A i \in DOMAIN toClient' :
         /\ i + 1 \in DOMAIN toClient
         /\ toClient'[i] = toClient[i + 1]
         /\ Rank(toClient', i) = Rank(toClient, i + 1)
  <2>1. \A i \in DOMAIN toClient' :
           /\ i + 1 \in DOMAIN toClient
           /\ toClient'[i] = toClient[i + 1]
           /\ Rank(toClient', i) + 0 = Rank(toClient, i + 1)
           /\ Rank(toClient', i) \in Nat
    BY <1>2, <1>3, <1>4, TakeStep
  <2> QED BY <2>1
<1>7. PipelineTypeOK'
  BY <1>1, <1>2, <1>5 DEF PipelineTypeOK, local, counts
<1>8. DownIsEmpty' /\ RepliesBounded'
  BY <1>1, <1>2 DEF DownIsEmpty, RepliesBounded, local, counts
<1>9. Lag'
  BY <1>1, <1>2, <1>5 DEF Lag, InFlight, local, counts
<1>10. StaleIsSkipped'
  BY <1>1, <1>2, <1>5, <1>6 DEF StaleIsSkipped, Skipped, local, counts
<1>11. OldIsAhead'
  BY <1>1, <1>2, <1>5, <1>6 DEF OldIsAhead, local, counts
<1>12. ResetIsOnTheWay'
  BY <1>1, <1>2 DEF ResetIsOnTheWay, local, counts
<1> QED BY <1>7, <1>8, <1>9, <1>10, <1>11, <1>12 DEF PipelineInv

LEMMA ApplyReplyKeeps ==
    ASSUME PipelineAssumption, PipelineInv, ApplyReply
    PROVE  PipelineInv'
<1>1. /\ PipelineTypeOK /\ DownIsEmpty /\ RepliesBounded /\ Lag
      /\ StaleIsSkipped /\ OldIsAhead /\ ResetIsOnTheWay
  BY Zenon DEF PipelineInv
<1> DEFINE reply == Head(toClient)
<1>2. /\ waiting /\ waiting' = FALSE /\ toClient # <<>> /\ IsState(reply)
      /\ pose' = (IF skip > 0 THEN pose ELSE reply.pose)
      /\ velocity' = reply.velocity /\ armed' = reply.armed
      /\ skip' = (IF skip > 0 THEN skip - 1 ELSE 0)
      /\ toClient' = Tail(toClient)
      /\ frameId' = frameId + 1 /\ applied' = applied + 1
      /\ client' = client /\ toCore' = toCore /\ core' = core /\ flight' = flight
      /\ frames' = frames /\ misses' = misses /\ overrides' = overrides
      /\ osd' = osd /\ reset' = reset
  BY DEF ApplyReply, Applied, OneConsumed
<1>3. /\ toClient \in Seq(Replies) /\ misses \in Nat /\ applied \in Nat /\ skip \in Nat
      /\ frames \in Nat /\ frameId \in Nat /\ MaxFrames \in Nat
      /\ StatesIn(toCore) \in Nat
      /\ toCore \in Seq(Packets) /\ DOMAIN toCore = 1 .. Len(toCore) /\ Len(toCore) \in Nat
  BY <1>1, Counts
<1>4. Unit(reply) = 1
  BY <1>2 DEF Unit
<1>5. /\ toClient' \in Seq(Replies)
      /\ StatesIn(toClient') + 1 = StatesIn(toClient) /\ StatesIn(toClient') \in Nat
  BY <1>2, <1>3, <1>4, TakeStep
<1>6. \A i \in DOMAIN toClient' :
         /\ i + 1 \in DOMAIN toClient
         /\ toClient'[i] = toClient[i + 1]
         /\ Rank(toClient', i) + 1 = Rank(toClient, i + 1)
         /\ Rank(toClient', i) \in Nat
  BY <1>2, <1>3, <1>4, TakeStep
<1>7. /\ 1 \in DOMAIN toClient /\ toClient[1] = reply /\ Rank(toClient, 1) = 1
      /\ reply \in Replies
  BY <1>2, <1>3, <1>4, TakeStep
<1>8. /\ reply.pose \in 0 .. MaxOverrides /\ reply.velocity \in 0 .. MaxOverrides
      /\ reply.armed \in BOOLEAN
  BY <1>2, <1>7 DEF Replies, IsState
<1>9. \A i \in DOMAIN toCore : Rank(toCore, i) \in Nat
  BY <1>3, RankType
<1> HIDE DEF reply
<1>10. RepliesBounded' /\ frameId + 1 <= MaxFrames /\ applied + 1 <= MaxFrames
  BY <1>1, <1>2, <1>3 DEF RepliesBounded, PipelineTypeOK
<1>11. PipelineTypeOK'
  <2>1. pose' \in 0 .. MaxOverrides /\ velocity' \in 0 .. MaxOverrides /\ armed' \in BOOLEAN
    BY <1>1, <1>2, <1>8 DEF PipelineTypeOK
  <2>2. skip' \in {0, 1}
    BY <1>1, <1>2 DEF PipelineTypeOK
  <2>3. frameId' \in 0 .. MaxFrames /\ applied' \in 0 .. MaxFrames
    BY <1>2, <1>3, <1>10
  <2>4. waiting' \in BOOLEAN
    BY <1>2
  <2> QED BY <1>1, <1>2, <1>5, <2>1, <2>2, <2>3, <2>4 DEF PipelineTypeOK
<1>12. DownIsEmpty'
  BY <1>1, <1>2 DEF DownIsEmpty
<1>13. Lag'
  BY <1>1, <1>2, <1>3, <1>5 DEF Lag, InFlight
<1>14. StaleIsSkipped'
  <2> SUFFICES ASSUME misses <= Skipped PROVE StaleIsSkipped'
    BY <1>2 DEF StaleIsSkipped, Skipped
  <2>1. pose = overrides
    BY <1>1 DEF StaleIsSkipped
  <2>2. \A i \in DOMAIN toClient :
           IsState(toClient[i]) /\ toClient[i].pose # overrides => Rank(toClient, i) <= skip
    BY <1>1 DEF StaleIsSkipped
  <2>3. \A i \in DOMAIN toCore :
           IsState(toCore[i]) /\ toCore[i].pose # overrides
               => StatesIn(toClient) + Rank(toCore, i) <= skip
    BY <1>1 DEF StaleIsSkipped
  <2>4. pose' = overrides
    BY <1>2, <1>3, <1>7, <2>1, <2>2
  <2>5. \A i \in DOMAIN toClient' :
           IsState(toClient'[i]) /\ toClient'[i].pose # overrides => Rank(toClient', i) <= skip'
    <3> SUFFICES ASSUME NEW i \in DOMAIN toClient', IsState(toClient'[i]),
                        toClient'[i].pose # overrides
                 PROVE  Rank(toClient', i) <= skip'
      OBVIOUS
    <3>1. Rank(toClient, i + 1) <= skip
      BY <1>6, <2>2
    <3> QED BY <1>2, <1>3, <1>6, <3>1
  <2>6. \A i \in DOMAIN toCore :
           IsState(toCore[i]) /\ toCore[i].pose # overrides
               => StatesIn(toClient') + Rank(toCore, i) <= skip'
    BY <1>2, <1>3, <1>5, <1>9, <2>3, SMTT(30)
  <2> QED BY <1>2, <2>4, <2>5, <2>6 DEF StaleIsSkipped
<1>15. OldIsAhead'
  <2>1. \A i \in DOMAIN toClient' :
           IsState(toClient'[i]) /\ toClient'[i].velocity # reset
               => Rank(toClient', i) + (applied + 1) <= misses
    <3> SUFFICES ASSUME NEW i \in DOMAIN toClient', IsState(toClient'[i]),
                        toClient'[i].velocity # reset
                 PROVE  Rank(toClient', i) + (applied + 1) <= misses
      OBVIOUS
    <3>1. Rank(toClient, i + 1) + applied <= misses
      BY <1>1, <1>6 DEF OldIsAhead
    <3> QED BY <1>3, <1>6, <3>1
  <2>2. \A i \in DOMAIN toCore :
           IsState(toCore[i]) /\ ResetAfter(toCore, i)
               => StatesIn(toClient') + Rank(toCore, i) + (applied + 1) <= misses
    <3> SUFFICES ASSUME NEW i \in DOMAIN toCore, IsState(toCore[i]), ResetAfter(toCore, i)
                 PROVE  StatesIn(toClient') + Rank(toCore, i) + (applied + 1) <= misses
      OBVIOUS
    <3>1. StatesIn(toClient) + Rank(toCore, i) + applied <= misses
      BY <1>1 DEF OldIsAhead
    <3>2. Rank(toCore, i) \in Nat
      BY <1>9
    <3> QED BY <1>3, <1>5, <3>1, <3>2
  <2>3. applied + 1 > misses => velocity' = reset
    <3> SUFFICES ASSUME velocity' # reset PROVE applied + 1 <= misses
      BY <1>3
    <3>1. Rank(toClient, 1) + applied <= misses
      BY <1>1, <1>2, <1>7 DEF OldIsAhead
    <3> QED BY <1>3, <1>7, <3>1
  <2> QED BY <1>2, <2>1, <2>2, <2>3 DEF OldIsAhead
<1>16. ResetIsOnTheWay'
  BY <1>1, <1>2 DEF ResetIsOnTheWay
<1> QED BY <1>10, <1>11, <1>12, <1>13, <1>14, <1>15, <1>16 DEF PipelineInv

LEMMA GiveUpKeeps ==
    ASSUME PipelineAssumption, PipelineInv, GiveUp
    PROVE  PipelineInv'
<1>1. /\ PipelineTypeOK /\ DownIsEmpty /\ RepliesBounded /\ Lag
      /\ StaleIsSkipped /\ OldIsAhead /\ ResetIsOnTheWay
  BY Zenon DEF PipelineInv
<1>2. /\ waiting /\ waiting' = FALSE /\ toClient = <<>>
      /\ Answerable => misses < MaxMisses
      /\ misses' = (IF Answerable THEN misses + 1 ELSE misses)
      /\ UNCHANGED <<client, armed, pose, velocity, skip, frameId, toCore, toClient,
                     core, flight, frames, overrides, osd, reset, applied>>
  BY DEF GiveUp
<1>3. /\ StatesIn(toClient) = 0 /\ StatesIn(toCore) \in Nat
      /\ misses \in Nat /\ MaxMisses \in Nat /\ frames \in Nat /\ applied \in Nat
      /\ frameId \in Nat
      /\ DOMAIN toCore = 1 .. Len(toCore) /\ Len(toCore) \in Nat
      /\ DOMAIN toClient = 1 .. Len(toClient) /\ Len(toClient) \in Nat
  BY <1>1, <1>2, Counts
<1>4. misses' \in Nat /\ misses <= misses' /\ misses' \in 0 .. MaxMisses
  <2>1. misses <= MaxMisses
    BY <1>1 DEF PipelineTypeOK
  <2>2. CASE Answerable
    <3>1. misses' = misses + 1 /\ misses < MaxMisses
      BY <1>2, <2>2
    <3> QED BY <1>3, <3>1
  <2>3. CASE ~Answerable
    <3>1. misses' = misses
      BY <1>2, <2>3
    <3> QED BY <1>3, <2>1, <3>1
  <2> QED BY <2>2, <2>3
<1>5. PipelineTypeOK'
  BY <1>1, <1>2, <1>4 DEF PipelineTypeOK
<1>6. DownIsEmpty' /\ ResetIsOnTheWay'
  BY <1>1, <1>2 DEF DownIsEmpty, ResetIsOnTheWay
<1>7. RepliesBounded'
  BY <1>1, <1>2, <1>3 DEF RepliesBounded
<1>8. Lag'
  BY <1>1, <1>2, <1>3 DEF Lag, InFlight, Answerable
<1>9. StaleIsSkipped'
  BY <1>1, <1>2, <1>3, <1>4 DEF StaleIsSkipped, Skipped, StaleReplies
<1>10. \A i \in DOMAIN toCore : Rank(toCore, i) \in Nat
  BY <1>3, RankType
<1>11. \A i \in DOMAIN toClient : Rank(toClient, i) \in Nat
  BY <1>3, RankType
<1>12. OldIsAhead'
  BY <1>1, <1>2, <1>3, <1>4, <1>10, <1>11 DEF OldIsAhead
<1> QED BY <1>5, <1>6, <1>7, <1>8, <1>9, <1>12 DEF PipelineInv

(* An override starts a new lineage with a datagram for the core.  Whatever was
   in the pipeline is of an older one, and there is no more of it than misses. *)
LEMMA StartOverStep ==
    ASSUME PipelineAssumption, PipelineInv,
           NEW type \in {"reset", "repair"}, NEW stale \in {0, 1}, Skipped <= stale,
           StartOver(type, stale)
    PROVE  /\ toCore' \in Seq(Packets) /\ DownIsEmpty' /\ Lag' /\ StaleIsSkipped'
           /\ overrides' \in 0 .. MaxOverrides
           /\ \A i \in DOMAIN toClient : Rank(toClient, i) <= misses
           /\ \A i \in DOMAIN toCore' :
                 \/ /\ i \in DOMAIN toCore
                    /\ toCore'[i] = toCore[i]
                    /\ StatesIn(toClient) + Rank(toCore', i) <= misses
                    /\ Rank(toCore', i) = Rank(toCore, i)
                 \/ /\ i = Len(toCore) + 1
                    /\ toCore'[i] = [type |-> type, as |-> overrides']
           /\ \A i \in 0 .. Len(toCore') :
                 ResetAfter(toCore', i) <=>
                     \/ ResetAfter(toCore, i)
                     \/ core # "down" /\ type = "reset" /\ i <= Len(toCore)
           /\ Len(toCore) \in Nat /\ DOMAIN toCore = 1 .. Len(toCore)
           /\ Len(toCore') = Len(toCore) + IF core = "down" THEN 0 ELSE 1
           /\ DOMAIN toCore' = 1 .. Len(toCore')
<1>1. PipelineTypeOK /\ DownIsEmpty /\ Lag /\ StaleIsSkipped
  BY Zenon DEF PipelineInv
<1> DEFINE order == [type |-> type, as |-> overrides']
<1>2. /\ ~waiting /\ overrides < MaxOverrides /\ overrides' = overrides + 1
      /\ Put(order) /\ pose' = overrides' /\ skip' = stale
      /\ client' = client /\ waiting' = waiting /\ armed' = armed /\ toClient' = toClient
      /\ core' = core /\ frames' = frames /\ misses' = misses /\ osd' = osd
  BY DEF StartOver
<1>3. /\ overrides \in Nat /\ MaxOverrides \in Nat /\ misses \in Nat
      /\ StatesIn(toCore) \in Nat /\ StatesIn(toClient) \in Nat
      /\ Len(toCore) \in Nat /\ DOMAIN toCore = 1 .. Len(toCore)
      /\ Len(toClient) \in Nat /\ DOMAIN toClient = 1 .. Len(toClient)
      /\ toCore \in Seq(Packets) /\ toClient \in Seq(Replies)
  BY <1>1, Counts
<1>4. overrides' \in 0 .. MaxOverrides
  BY <1>2, <1>3
<1>5. order \in Packets /\ order.type = type /\ ~IsState(order) /\ Unit(order) = 0
  BY <1>4 DEF Packets, IsState, Unit
<1> HIDE DEF order
<1>6. /\ toCore' \in Seq(Packets) /\ DownIsEmpty'
      /\ StatesIn(toCore') = StatesIn(toCore)
      /\ Len(toCore') = Len(toCore) + IF core = "down" THEN 0 ELSE 1
      /\ DOMAIN toCore' = 1 .. Len(toCore')
  <2>1. /\ toCore' \in Seq(Packets) /\ DownIsEmpty'
        /\ StatesIn(toCore') = StatesIn(toCore) + IF core = "down" THEN 0 ELSE 0
        /\ Len(toCore') = Len(toCore) + IF core = "down" THEN 0 ELSE 1
        /\ DOMAIN toCore' = 1 .. Len(toCore')
    BY <1>1, <1>2, <1>5, PutStep
  <2> QED BY <1>3, <2>1
<1>7. \A i \in DOMAIN toCore' :
         \/ i \in DOMAIN toCore /\ toCore'[i] = toCore[i] /\ Rank(toCore', i) = Rank(toCore, i)
         \/ i = Len(toCore) + 1 /\ toCore'[i] = order
  BY <1>1, <1>2, <1>5, PutStep
<1>8. \A i \in 0 .. Len(toCore') :
         ResetAfter(toCore', i) <=>
             \/ ResetAfter(toCore, i)
             \/ core # "down" /\ type = "reset" /\ i <= Len(toCore)
  BY <1>1, <1>2, <1>5, PutStep
<1>9. StatesIn(toCore) + StatesIn(toClient) = misses
  BY <1>1, <1>2 DEF Lag, InFlight
<1>10. \A i \in DOMAIN toClient : Rank(toClient, i) <= misses
  <2>1. \A i \in DOMAIN toClient : Rank(toClient, i) \in Nat /\ Rank(toClient, i) <= StatesIn(toClient)
    BY <1>3, CountIsRank, RankType
  <2> QED BY <1>3, <1>9, <2>1
<1>11. \A i \in DOMAIN toCore : StatesIn(toClient) + Rank(toCore, i) <= misses
  <2>1. \A i \in DOMAIN toCore : Rank(toCore, i) \in Nat /\ Rank(toCore, i) <= StatesIn(toCore)
    BY <1>3, CountIsRank, RankType
  <2> QED BY <1>3, <1>9, <2>1
<1>12. Lag'
  BY <1>2, <1>6, <1>9 DEF Lag, InFlight
<1>13. StaleIsSkipped'
  <2> SUFFICES ASSUME misses <= Skipped PROVE StaleIsSkipped'
    BY <1>2 DEF StaleIsSkipped, Skipped
  <2>1. misses <= stale
    BY <1>3 DEF Skipped, StaleReplies
  <2>2. \A i \in DOMAIN toClient : Rank(toClient, i) <= stale
    <3>1. \A i \in DOMAIN toClient : Rank(toClient, i) \in Nat
      BY <1>3, RankType
    <3> QED BY <1>3, <1>10, <2>1, <3>1
  <2>3. \A i \in DOMAIN toCore' : IsState(toCore'[i]) => StatesIn(toClient) + Rank(toCore', i) <= stale
    <3>1. \A i \in DOMAIN toCore : Rank(toCore, i) \in Nat
      BY <1>3, RankType
    <3> QED BY <1>3, <1>5, <1>7, <1>11, <2>1, <3>1
  <2> QED BY <1>2, <2>2, <2>3 DEF StaleIsSkipped
<1> QED BY <1>3, <1>4, <1>6, <1>7, <1>8, <1>10, <1>11, <1>12, <1>13 DEF order

(* A reset is one whose velocities are yet to come. *)
LEMMA ResetStep ==
    ASSUME PipelineAssumption, PipelineInv, NEW stale \in {0, 1}, Skipped <= stale,
           StartOver("reset", stale),
           reset' = overrides', applied' = 0, flight' = FlightAfterReset
    PROVE  OldIsAhead' /\ ResetIsOnTheWay'
<1>1. PipelineTypeOK
  BY Zenon DEF PipelineInv
<1>2. misses' = misses /\ toClient' = toClient
  BY DEF StartOver
<1>3. misses \in Nat
  BY <1>1, Counts
<1>4. /\ \A i \in DOMAIN toClient : Rank(toClient, i) <= misses
      /\ Len(toCore) \in Nat /\ DOMAIN toCore = 1 .. Len(toCore)
      /\ Len(toCore') = Len(toCore) + IF core = "down" THEN 0 ELSE 1
      /\ DOMAIN toCore' = 1 .. Len(toCore')
  BY StartOverStep
<1>5. \A i \in DOMAIN toCore' :
         \/ /\ i \in DOMAIN toCore
            /\ StatesIn(toClient) + Rank(toCore', i) <= misses
            /\ Rank(toCore', i) = Rank(toCore, i)
         \/ /\ i = Len(toCore) + 1
            /\ toCore'[i] = [type |-> "reset", as |-> overrides']
  BY StartOverStep
<1>6. \A i \in 0 .. Len(toCore') :
         core # "down" /\ i <= Len(toCore) => ResetAfter(toCore', i)
  BY StartOverStep
<1>7. OldIsAhead'
  <2>1. \A i \in DOMAIN toClient : Rank(toClient, i) + 0 <= misses
    <3>1. /\ DOMAIN toClient = 1 .. Len(toClient) /\ Len(toClient) \in Nat
      BY <1>1, Counts
    <3>2. \A i \in DOMAIN toClient : Rank(toClient, i) \in Nat
      BY <3>1, RankType
    <3> QED BY <1>4, <3>2
  <2>2. \A i \in DOMAIN toCore' : IsState(toCore'[i]) => StatesIn(toClient) + Rank(toCore', i) + 0 <= misses
    <3>1. \A i \in DOMAIN toCore : Rank(toCore, i) \in Nat
      BY <1>4, RankType
    <3>2. StatesIn(toClient) \in Nat
      BY <1>1, Counts
    <3> QED BY <1>5, <3>1, <3>2 DEF IsState
  <2>3. ~(0 > misses)
    BY <1>3
  <2> QED BY <1>2, <2>1, <2>2, <2>3 DEF OldIsAhead
<1>8. ResetIsOnTheWay'
  <2>1. CASE core = "down"
    <3>1. flight' = reset'
      BY <2>1 DEF FlightAfterReset
    <3>2. toCore' = <<>>
      BY <2>1, StartOverStep DEF DownIsEmpty, StartOver
    <3>3. DOMAIN toCore' = {}
      BY <3>2, SMT
    <3> QED BY <3>1, <3>3 DEF ResetIsOnTheWay
  <2>2. CASE core # "down"
    <3>1. ResetAfter(toCore', 0)
      BY <1>4, <1>6, <2>2
    <3>2. \A i \in DOMAIN toCore' : ResetAfter(toCore', i) \/ toCore'[i].as = reset'
      BY <1>4, <1>5, <1>6, <2>2
    <3> QED BY <3>1, <3>2 DEF ResetIsOnTheWay
  <2> QED BY <2>1, <2>2
<1> QED BY <1>7, <1>8

LEMMA ResetSimKeeps ==
    ASSUME PipelineAssumption, PipelineInv, ResetSim
    PROVE  PipelineInv'
<1>1. PipelineTypeOK /\ RepliesBounded
  BY Zenon DEF PipelineInv
<1>2. /\ client = "godot" /\ StartOver("reset", 1)
      /\ velocity' = overrides' /\ reset' = overrides' /\ applied' = 0
      /\ flight' = FlightAfterReset /\ frameId' = frameId
  BY DEF ResetSim, StaleReplies
<1>3. Skipped <= 1
  BY <1>2 DEF Skipped, StaleReplies
<1>4. /\ toCore' \in Seq(Packets) /\ DownIsEmpty' /\ Lag' /\ StaleIsSkipped'
      /\ overrides' \in 0 .. MaxOverrides
  BY <1>2, <1>3, StartOverStep
<1>5. OldIsAhead' /\ ResetIsOnTheWay'
  BY <1>2, <1>3, ResetStep
<1>6. /\ pose' = overrides' /\ skip' = 1
      /\ UNCHANGED <<client, waiting, armed, toClient, core, frames, misses, osd>>
  BY <1>2 DEF StartOver
<1>7. flight' \in 0 .. MaxOverrides
  BY <1>1, <1>2, <1>4 DEF FlightAfterReset, PipelineTypeOK
<1>8. PipelineTypeOK'
  BY <1>1, <1>2, <1>4, <1>6, <1>7, Counts DEF PipelineTypeOK
<1>9. RepliesBounded'
  BY <1>1, <1>2, <1>6 DEF RepliesBounded
<1> QED BY <1>4, <1>5, <1>8, <1>9 DEF PipelineInv

LEMMA EpisodeKeeps ==
    ASSUME PipelineAssumption, PipelineInv, Episode
    PROVE  PipelineInv'
<1>1. PipelineTypeOK /\ RepliesBounded
  BY Zenon DEF PipelineInv
<1>2. /\ client = "gym" /\ StartOver("reset", 0)
      /\ velocity' = velocity /\ reset' = overrides' /\ applied' = 0
      /\ flight' = FlightAfterReset /\ frameId' = 0
  BY DEF Episode
<1>3. Skipped <= 0
  BY <1>2 DEF Skipped
<1>4. /\ toCore' \in Seq(Packets) /\ DownIsEmpty' /\ Lag' /\ StaleIsSkipped'
      /\ overrides' \in 0 .. MaxOverrides
  BY <1>2, <1>3, StartOverStep
<1>5. OldIsAhead' /\ ResetIsOnTheWay'
  BY <1>2, <1>3, ResetStep
<1>6. /\ pose' = overrides' /\ skip' = 0
      /\ UNCHANGED <<client, waiting, armed, toClient, core, frames, misses, osd>>
  BY <1>2 DEF StartOver
<1>7. flight' \in 0 .. MaxOverrides
  BY <1>1, <1>2, <1>4 DEF FlightAfterReset, PipelineTypeOK
<1>8. PipelineTypeOK'
  BY <1>1, <1>2, <1>4, <1>6, <1>7, Counts DEF PipelineTypeOK
<1>9. RepliesBounded'
  BY <1>1, <1>2, <1>6 DEF RepliesBounded
<1> QED BY <1>4, <1>5, <1>8, <1>9 DEF PipelineInv

LEMMA RepairInPlaceKeeps ==
    ASSUME PipelineAssumption, PipelineInv, RepairInPlace
    PROVE  PipelineInv'
<1>1. PipelineTypeOK /\ RepliesBounded /\ OldIsAhead /\ ResetIsOnTheWay
  BY Zenon DEF PipelineInv
<1>2. /\ client = "godot" /\ StartOver("repair", 1)
      /\ velocity' = velocity /\ reset' = reset /\ applied' = applied
      /\ flight' = flight /\ frameId' = frameId
  BY DEF RepairInPlace, StaleReplies
<1>3. Skipped <= 1
  BY <1>2 DEF Skipped, StaleReplies
<1>4. /\ toCore' \in Seq(Packets) /\ DownIsEmpty' /\ Lag' /\ StaleIsSkipped'
      /\ overrides' \in 0 .. MaxOverrides
      /\ Len(toCore) \in Nat /\ DOMAIN toCore = 1 .. Len(toCore)
      /\ Len(toCore') = Len(toCore) + IF core = "down" THEN 0 ELSE 1
      /\ DOMAIN toCore' = 1 .. Len(toCore')
  BY <1>2, <1>3, StartOverStep
<1>5. \A i \in DOMAIN toCore' :
         \/ /\ i \in DOMAIN toCore
            /\ toCore'[i] = toCore[i]
            /\ Rank(toCore', i) = Rank(toCore, i)
         \/ /\ i = Len(toCore) + 1
            /\ toCore'[i] = [type |-> "repair", as |-> overrides']
  BY <1>2, <1>3, StartOverStep
<1>6. \A i \in 0 .. Len(toCore') : ResetAfter(toCore', i) <=> ResetAfter(toCore, i)
  BY <1>2, <1>3, StartOverStep
<1>7. /\ pose' = overrides' /\ skip' = 1
      /\ UNCHANGED <<client, waiting, armed, toClient, core, frames, misses, osd>>
  BY <1>2 DEF StartOver
<1>8. PipelineTypeOK'
  BY <1>1, <1>2, <1>4, <1>7 DEF PipelineTypeOK
<1>9. RepliesBounded'
  BY <1>1, <1>2, <1>7 DEF RepliesBounded
<1>10. DOMAIN toCore' \subseteq 0 .. Len(toCore') /\ 0 \in 0 .. Len(toCore')
  BY <1>4
<1>11. OldIsAhead'
  <2>1. \A i \in DOMAIN toCore' :
           IsState(toCore'[i]) /\ ResetAfter(toCore', i)
              => StatesIn(toClient) + Rank(toCore', i) + applied <= misses
    BY <1>1, <1>5, <1>6, <1>10 DEF OldIsAhead, IsState
  <2> QED BY <1>1, <1>2, <1>7, <2>1 DEF OldIsAhead
<1>12. ResetIsOnTheWay'
  <2>1. \A i \in DOMAIN toCore' :
           toCore'[i].type = "reset" /\ toCore'[i].as # reset => ResetAfter(toCore', i)
    BY <1>1, <1>5, <1>6, <1>10 DEF ResetIsOnTheWay
  <2>2. flight # reset => ResetAfter(toCore', 0)
    BY <1>1, <1>6, <1>10 DEF ResetIsOnTheWay
  <2> QED BY <1>2, <2>1, <2>2 DEF ResetIsOnTheWay
<1> QED BY <1>4, <1>8, <1>9, <1>11, <1>12 DEF PipelineInv

-----------------------------------------------------------------------------
(* The steps of the core *)

(* The queue of the core without its head, when that is a packet or a command. *)
LEMMA CoreTakes ==
    ASSUME PipelineAssumption, PipelineTypeOK, ResetIsOnTheWay, toCore # <<>>
    PROVE  /\ Tail(toCore) \in Seq(Packets)
           /\ Head(toCore) \in Packets /\ Head(toCore) = toCore[1] /\ 1 \in DOMAIN toCore
           /\ Rank(toCore, 1) = Unit(Head(toCore))
           /\ StatesIn(Tail(toCore)) + Unit(Head(toCore)) = StatesIn(toCore)
           /\ StatesIn(Tail(toCore)) \in Nat
           /\ \A i \in DOMAIN Tail(toCore) :
                 /\ i + 1 \in DOMAIN toCore
                 /\ Tail(toCore)[i] = toCore[i + 1]
                 /\ Rank(Tail(toCore), i) + Unit(Head(toCore)) = Rank(toCore, i + 1)
                 /\ Rank(Tail(toCore), i) \in Nat
                 /\ ResetAfter(Tail(toCore), i) <=> ResetAfter(toCore, i + 1)
           /\ ResetAfter(Tail(toCore), 0) <=> ResetAfter(toCore, 1)
           /\ ResetAfter(toCore, 0) <=> Head(toCore).type = "reset" \/ ResetAfter(toCore, 1)
           /\ \A i \in DOMAIN Tail(toCore) :
                 Tail(toCore)[i].type = "reset" /\ Tail(toCore)[i].as # reset
                     => ResetAfter(Tail(toCore), i)
<1>1. toCore \in Seq(Packets)
  BY Counts
<1> DEFINE rest == Tail(toCore)
<1>2. /\ rest \in Seq(Packets) /\ Head(toCore) \in Packets
      /\ Head(toCore) = toCore[1] /\ 1 \in DOMAIN toCore
      /\ Rank(toCore, 1) = Unit(Head(toCore))
      /\ StatesIn(rest) + Unit(Head(toCore)) = StatesIn(toCore)
      /\ StatesIn(rest) \in Nat
      /\ ResetAfter(toCore, 0) <=> Head(toCore).type = "reset" \/ ResetAfter(toCore, 1)
  BY <1>1, TakeStep
<1>3. /\ Len(toCore) \in Nat /\ DOMAIN toCore = 1 .. Len(toCore)
      /\ Len(rest) \in Nat /\ DOMAIN rest = 1 .. Len(rest) /\ Len(rest) = Len(toCore) - 1
  BY <1>1, TakeStep
<1>4. \A i \in 0 .. Len(toCore) - 1 : ResetAfter(rest, i) <=> ResetAfter(toCore, i + 1)
  BY <1>1, TakeStep
<1>5. \A i \in DOMAIN rest :
         /\ i + 1 \in DOMAIN toCore
         /\ rest[i] = toCore[i + 1]
         /\ Rank(rest, i) + Unit(Head(toCore)) = Rank(toCore, i + 1)
         /\ Rank(rest, i) \in Nat
  BY <1>1, TakeStep
<1> HIDE DEF rest
<1>6. DOMAIN rest \subseteq 0 .. Len(toCore) - 1
  BY <1>3
<1>7. \A i \in DOMAIN rest : ResetAfter(rest, i) <=> ResetAfter(toCore, i + 1)
  BY <1>4, <1>6
<1>8. ResetAfter(rest, 0) <=> ResetAfter(toCore, 1)
  <2>1. 0 \in 0 .. Len(toCore) - 1 /\ 0 + 1 = 1
    BY <1>3
  <2> QED BY <1>4, <2>1
<1>9. \A i \in DOMAIN rest : rest[i].type = "reset" /\ rest[i].as # reset => ResetAfter(rest, i)
  BY <1>5, <1>7 DEF ResetIsOnTheWay
<1> QED BY <1>2, <1>5, <1>7, <1>8, <1>9 DEF rest

LEMMA AnswerKeeps ==
    ASSUME PipelineAssumption, PipelineInv,
           NEW isArmed \in BOOLEAN, NEW withOsd \in BOOLEAN, Answer(isArmed, withOsd)
    PROVE  PipelineInv'
<1>1. /\ PipelineTypeOK /\ DownIsEmpty /\ RepliesBounded /\ Lag
      /\ StaleIsSkipped /\ OldIsAhead /\ ResetIsOnTheWay
  BY Zenon DEF PipelineInv
<1> DEFINE p == Head(toCore)
           reply == [type |-> "state", id |-> p.id, pose |-> p.pose,
                     velocity |-> flight, armed |-> isArmed]
           answered == Append(toClient, reply)
           display == [type |-> "osd"]
<1>2. /\ core = "up" /\ toCore # <<>> /\ IsState(p)
      /\ withOsd => osd < MaxOsd
      /\ toClient' = IF withOsd THEN Append(answered, display) ELSE answered
      /\ osd' = (IF withOsd THEN osd + 1 ELSE osd)
      /\ toCore' = Tail(toCore)
      /\ UNCHANGED <<local, core, flight, frames, misses, overrides, reset, applied>>
  BY DEF Answer
<1>3. /\ toClient \in Seq(Replies) /\ Len(toClient) \in Nat
      /\ DOMAIN toClient = 1 .. Len(toClient)
      /\ StatesIn(toClient) \in Nat /\ StatesIn(toCore) \in Nat
      /\ osd \in Nat /\ MaxOsd \in Nat /\ misses \in Nat /\ applied \in Nat /\ skip \in Nat
  BY <1>1, Counts
<1>4. Unit(p) = 1 /\ p.type = "state"
  BY <1>2 DEF Unit, IsState
<1>5. /\ toCore' \in Seq(Packets)
      /\ p \in Packets /\ p = toCore[1] /\ 1 \in DOMAIN toCore /\ Rank(toCore, 1) = 1
      /\ StatesIn(toCore') + 1 = StatesIn(toCore) /\ StatesIn(toCore') \in Nat
      /\ ResetAfter(toCore', 0) <=> ResetAfter(toCore, 1)
      /\ ResetAfter(toCore, 0) <=> ResetAfter(toCore, 1)
  BY <1>1, <1>2, <1>4, CoreTakes
<1>6. \A i \in DOMAIN toCore' :
         /\ i + 1 \in DOMAIN toCore
         /\ toCore'[i] = toCore[i + 1]
         /\ Rank(toCore', i) + 1 = Rank(toCore, i + 1)
         /\ Rank(toCore', i) \in Nat
         /\ ResetAfter(toCore', i) <=> ResetAfter(toCore, i + 1)
  BY <1>1, <1>2, <1>4, CoreTakes
<1>7. ResetIsOnTheWay'
  <2>1. \A i \in DOMAIN toCore' :
           toCore'[i].type = "reset" /\ toCore'[i].as # reset => ResetAfter(toCore', i)
    BY <1>1, <1>2, CoreTakes
  <2>2. flight # reset => ResetAfter(toCore', 0)
    BY <1>1, <1>5 DEF ResetIsOnTheWay
  <2> QED BY <1>2, <2>1, <2>2 DEF ResetIsOnTheWay
<1>8. p.id \in 0 .. MaxFrames /\ p.pose \in 0 .. MaxOverrides /\ flight \in 0 .. MaxOverrides
  BY <1>1, <1>4, <1>5 DEF Packets, PipelineTypeOK
<1>9. /\ reply \in Replies /\ IsState(reply) /\ Unit(reply) = 1
      /\ reply.pose = p.pose /\ reply.velocity = flight
      /\ display \in Replies /\ ~IsState(display) /\ Unit(display) = 0
  BY <1>8 DEF Replies, IsState, Unit
<1> HIDE DEF p, reply, display, answered
<1>10. /\ answered \in Seq(Replies) /\ Len(answered) = Len(toClient) + 1
       /\ \A n \in 1 .. Len(toClient) : answered[n] = toClient[n]
       /\ answered[Len(toClient) + 1] = reply
       /\ \A n \in 0 .. Len(toClient) : Rank(answered, n) = Rank(toClient, n)
       /\ StatesIn(answered) = StatesIn(toClient) + 1
       /\ Rank(answered, Len(toClient) + 1) = StatesIn(toClient) + 1
  <2>1. /\ answered \in Seq(Replies) /\ Len(answered) = Len(toClient) + 1
        /\ \A n \in 1 .. Len(toClient) : answered[n] = toClient[n]
        /\ answered[Len(toClient) + 1] = reply
        /\ \A n \in 0 .. Len(toClient) : Rank(answered, n) = Rank(toClient, n)
        /\ StatesIn(answered) = StatesIn(toClient) + 1
    BY <1>3, <1>9, RankAppend DEF answered
  <2>2. StatesIn(answered) = Rank(answered, Len(answered))
    BY <2>1, CountIsRank
  <2> QED BY <2>1, <2>2
<1>11. /\ toClient' \in Seq(Replies)
       /\ StatesIn(toClient') = StatesIn(toClient) + 1
       /\ \A i \in DOMAIN toClient' :
             \/ /\ i \in DOMAIN toClient
                /\ toClient'[i] = toClient[i]
                /\ Rank(toClient', i) = Rank(toClient, i)
             \/ toClient'[i] = reply /\ Rank(toClient', i) = StatesIn(toClient) + 1
             \/ toClient'[i] = display
  <2>1. CASE ~withOsd
    <3>1. toClient' = answered
      BY <1>2, <2>1
    <3>2. DOMAIN answered = 1 .. Len(toClient) + 1
      BY <1>10
    <3>3. \A i \in DOMAIN answered : i \in DOMAIN toClient \/ i = Len(toClient) + 1
      BY <1>3, <3>2
    <3> QED BY <1>3, <1>10, <3>1, <3>3
  <2>2. CASE withOsd
    <3> DEFINE both == Append(answered, display)
    <3>1. /\ both \in Seq(Replies) /\ Len(both) = Len(toClient) + 2
          /\ \A n \in 1 .. Len(toClient) + 1 : both[n] = answered[n]
          /\ both[Len(toClient) + 2] = display
          /\ \A n \in 0 .. Len(toClient) + 1 : Rank(both, n) = Rank(answered, n)
          /\ StatesIn(both) = StatesIn(answered) + 0
      <4>1. /\ both \in Seq(Replies) /\ Len(both) = Len(answered) + 1
            /\ \A n \in 1 .. Len(answered) : both[n] = answered[n]
            /\ both[Len(answered) + 1] = display
            /\ \A n \in 0 .. Len(answered) : Rank(both, n) = Rank(answered, n)
            /\ StatesIn(both) = StatesIn(answered) + 0
        BY <1>9, <1>10, RankAppend
      <4>2. Len(answered) + 1 = Len(toClient) + 2
        BY <1>3, <1>10
      <4> QED BY <1>10, <4>1, <4>2
    <3>2. toClient' = both
      BY <1>2, <2>2
    <3> HIDE DEF both
    <3>3. DOMAIN both = 1 .. Len(toClient) + 2
      BY <3>1
    <3>4. \A i \in DOMAIN both :
             i \in DOMAIN toClient \/ i = Len(toClient) + 1 \/ i = Len(toClient) + 2
      BY <1>3, <3>3
    <3>5. \A i \in DOMAIN toClient : i \in 1 .. Len(toClient) /\ i \in 0 .. Len(toClient)
                                     /\ i \in 1 .. Len(toClient) + 1 /\ i \in 0 .. Len(toClient) + 1
      BY <1>3
    <3>6. Len(toClient) + 1 \in 1 .. Len(toClient) + 1 /\ Len(toClient) + 1 \in 0 .. Len(toClient) + 1
      BY <1>3
    <3>7. \A i \in DOMAIN both :
             \/ i \in DOMAIN toClient /\ both[i] = toClient[i] /\ Rank(both, i) = Rank(toClient, i)
             \/ both[i] = reply /\ Rank(both, i) = StatesIn(toClient) + 1
             \/ both[i] = display
      BY <1>10, <3>1, <3>4, <3>5, <3>6
    <3> QED BY <1>3, <1>10, <3>1, <3>2, <3>7
  <2> QED BY <2>1, <2>2
<1>12. PipelineTypeOK'
  <2>1. osd' \in 0 .. MaxOsd
    <3>1. osd <= MaxOsd
      BY <1>1 DEF PipelineTypeOK
    <3>2. CASE withOsd
      <4>1. osd' = osd + 1 /\ osd < MaxOsd
        BY <1>2, <3>2
      <4> QED BY <1>3, <4>1
    <3>3. CASE ~withOsd
      <4>1. osd' = osd
        BY <1>2, <3>3
      <4> QED BY <1>3, <3>1, <4>1
    <3> QED BY <3>2, <3>3
  <2> QED BY <1>1, <1>2, <1>5, <1>11, <2>1 DEF PipelineTypeOK, local
<1>13. DownIsEmpty' /\ RepliesBounded'
  BY <1>1, <1>2 DEF DownIsEmpty, RepliesBounded, local
<1>14. Lag'
  <2>1. StatesIn(toCore') + StatesIn(toClient') = StatesIn(toCore) + StatesIn(toClient)
    BY <1>3, <1>5, <1>11
  <2> QED BY <1>1, <1>2, <2>1 DEF Lag, InFlight, local
<1>15. StaleIsSkipped'
  <2> SUFFICES ASSUME misses <= Skipped PROVE StaleIsSkipped'
    BY <1>2 DEF StaleIsSkipped, Skipped, local
  <2>1. pose = overrides
    BY <1>1 DEF StaleIsSkipped
  <2>2. \A i \in DOMAIN toClient :
           IsState(toClient[i]) /\ toClient[i].pose # overrides => Rank(toClient, i) <= skip
    BY <1>1 DEF StaleIsSkipped
  <2>3. \A i \in DOMAIN toCore :
           IsState(toCore[i]) /\ toCore[i].pose # overrides
               => StatesIn(toClient) + Rank(toCore, i) <= skip
    BY <1>1 DEF StaleIsSkipped
  <2>4. p.pose # overrides => StatesIn(toClient) + 1 <= skip
    BY <1>2, <1>5, <2>3
  <2>5. \A i \in DOMAIN toClient' :
           IsState(toClient'[i]) /\ toClient'[i].pose # overrides => Rank(toClient', i) <= skip
    BY <1>9, <1>11, <2>2, <2>4
  <2>6. \A i \in DOMAIN toCore' :
           IsState(toCore'[i]) /\ toCore'[i].pose # overrides
               => StatesIn(toClient') + Rank(toCore', i) <= skip
    BY <1>3, <1>6, <1>11, <2>3
  <2> QED BY <1>2, <2>1, <2>5, <2>6 DEF StaleIsSkipped, local
<1>16. OldIsAhead'
  <2>1. flight # reset => StatesIn(toClient) + 1 + applied <= misses
    <3> SUFFICES ASSUME flight # reset PROVE StatesIn(toClient) + 1 + applied <= misses
      OBVIOUS
    <3>1. ResetAfter(toCore, 1)
      BY <1>1, <1>5 DEF ResetIsOnTheWay
    <3> QED BY <1>1, <1>2, <1>5, <3>1 DEF OldIsAhead
  <2>2. \A i \in DOMAIN toClient :
           IsState(toClient[i]) /\ toClient[i].velocity # reset
               => Rank(toClient, i) + applied <= misses
    BY <1>1 DEF OldIsAhead
  <2>3. \A i \in DOMAIN toClient' :
           IsState(toClient'[i]) /\ toClient'[i].velocity # reset
               => Rank(toClient', i) + applied <= misses
    BY <1>9, <1>11, <2>1, <2>2
  <2>4. \A i \in DOMAIN toCore :
           IsState(toCore[i]) /\ ResetAfter(toCore, i)
               => StatesIn(toClient) + Rank(toCore, i) + applied <= misses
    BY <1>1 DEF OldIsAhead
  <2>5. \A i \in DOMAIN toCore' :
           IsState(toCore'[i]) /\ ResetAfter(toCore', i)
               => StatesIn(toClient') + Rank(toCore', i) + applied <= misses
    BY <1>3, <1>6, <1>11, <2>4
  <2>6. applied > misses => velocity = reset
    BY <1>1 DEF OldIsAhead
  <2> QED BY <1>2, <2>3, <2>5, <2>6 DEF OldIsAhead, local
<1> QED BY <1>7, <1>12, <1>13, <1>14, <1>15, <1>16 DEF PipelineInv

LEMMA CommandKeeps ==
    ASSUME PipelineAssumption, PipelineInv, Command
    PROVE  PipelineInv'
<1>1. /\ PipelineTypeOK /\ DownIsEmpty /\ RepliesBounded /\ Lag
      /\ StaleIsSkipped /\ OldIsAhead /\ ResetIsOnTheWay
  BY Zenon DEF PipelineInv
<1> DEFINE order == Head(toCore)
<1>2. /\ core = "up" /\ toCore # <<>> /\ ~IsState(order)
      /\ flight' = (IF order.type = "reset" THEN order.as ELSE flight)
      /\ toCore' = Tail(toCore)
      /\ UNCHANGED <<local, toClient, core, counts>>
  BY DEF Command, Stopped
<1>3. StatesIn(toClient) \in Nat /\ misses \in Nat /\ applied \in Nat /\ skip \in Nat
  BY <1>1, Counts
<1>4. Unit(order) = 0
  BY <1>2 DEF Unit
<1>5. /\ toCore' \in Seq(Packets)
      /\ order \in Packets /\ order = toCore[1] /\ 1 \in DOMAIN toCore
      /\ StatesIn(toCore') = StatesIn(toCore)
      /\ ResetAfter(toCore', 0) <=> ResetAfter(toCore, 1)
      /\ ResetAfter(toCore, 0) <=> order.type = "reset" \/ ResetAfter(toCore, 1)
      /\ \A i \in DOMAIN toCore' :
            toCore'[i].type = "reset" /\ toCore'[i].as # reset => ResetAfter(toCore', i)
  BY <1>1, <1>2, <1>4, CoreTakes
<1>6. \A i \in DOMAIN toCore' :
         /\ i + 1 \in DOMAIN toCore
         /\ toCore'[i] = toCore[i + 1]
         /\ Rank(toCore', i) = Rank(toCore, i + 1)
         /\ ResetAfter(toCore', i) <=> ResetAfter(toCore, i + 1)
  <2>1. \A i \in DOMAIN toCore' :
           /\ i + 1 \in DOMAIN toCore
           /\ toCore'[i] = toCore[i + 1]
           /\ Rank(toCore', i) + 0 = Rank(toCore, i + 1)
           /\ Rank(toCore', i) \in Nat
           /\ ResetAfter(toCore', i) <=> ResetAfter(toCore, i + 1)
    BY <1>1, <1>2, <1>4, CoreTakes
  <2> QED BY <2>1
<1>7. order.type = "reset" => order.as \in 0 .. MaxOverrides
  BY <1>5 DEF Packets
<1> HIDE DEF order
<1>8. PipelineTypeOK'
  <2>1. flight' \in 0 .. MaxOverrides
    BY <1>1, <1>2, <1>7 DEF PipelineTypeOK
  <2> QED BY <1>1, <1>2, <1>5, <2>1 DEF PipelineTypeOK, local, counts
<1>9. DownIsEmpty' /\ RepliesBounded'
  BY <1>1, <1>2 DEF DownIsEmpty, RepliesBounded, local, counts
<1>10. Lag'
  BY <1>1, <1>2, <1>5 DEF Lag, InFlight, local, counts
<1>11. StaleIsSkipped'
  BY <1>1, <1>2, <1>6 DEF StaleIsSkipped, Skipped, local, counts
<1>12. OldIsAhead'
  BY <1>1, <1>2, <1>6 DEF OldIsAhead, local, counts
<1>13. ResetIsOnTheWay'
  <2>1. flight' # reset => ResetAfter(toCore', 0)
    BY <1>1, <1>2, <1>5 DEF ResetIsOnTheWay
  <2> QED BY <1>2, <1>5, <2>1 DEF ResetIsOnTheWay, counts
<1> QED BY <1>8, <1>9, <1>10, <1>11, <1>12, <1>13 DEF PipelineInv

LEMMA StartsAndStutters ==
    ASSUME PipelineInv, Bind \/ Booted \/ UNCHANGED pipeline
    PROVE  PipelineInv'
<1>1. /\ PipelineTypeOK /\ DownIsEmpty /\ RepliesBounded /\ Lag
      /\ StaleIsSkipped /\ OldIsAhead /\ ResetIsOnTheWay
  BY Zenon DEF PipelineInv
<1>2. /\ UNCHANGED <<local, toCore, toClient, flight, counts>>
      /\ core' \in {"booting", "up"} \/ core' = core
  BY DEF Bind, Booted, pipeline
<1>3. PipelineTypeOK'
  BY <1>1, <1>2 DEF PipelineTypeOK, local, counts
<1>4. DownIsEmpty' /\ RepliesBounded' /\ Lag'
  BY <1>1, <1>2 DEF DownIsEmpty, RepliesBounded, Lag, InFlight, local, counts
<1>5. StaleIsSkipped' /\ OldIsAhead' /\ ResetIsOnTheWay'
  BY <1>1, <1>2 DEF StaleIsSkipped, Skipped, OldIsAhead, ResetIsOnTheWay, local, counts
<1> QED BY <1>3, <1>4, <1>5 DEF PipelineInv

-----------------------------------------------------------------------------
LEMMA PipelineStarts ==
    ASSUME PipelineAssumption, PipelineInit
    PROVE  PipelineInv
<1>1. MaxFrames \in Nat /\ MaxMisses \in Nat /\ MaxOverrides \in Nat /\ MaxOsd \in Nat
  BY DEF PipelineAssumption
<1>2. /\ toCore = <<>> /\ toClient = <<>> /\ DOMAIN toCore = {} /\ DOMAIN toClient = {}
      /\ toCore \in Seq(Packets) /\ toClient \in Seq(Replies)
  BY SMT DEF PipelineInit
<1>3. StatesIn(toCore) = 0 /\ StatesIn(toClient) = 0
  BY <1>2, CountIsRank
<1>4. PipelineTypeOK
  <2>1. 0 \in 0 .. MaxFrames /\ 0 \in 0 .. MaxMisses /\ 0 \in 0 .. MaxOverrides /\ 0 \in 0 .. MaxOsd
    BY <1>1
  <2> QED BY <1>2, <2>1 DEF PipelineInit, PipelineTypeOK
<1>5. DownIsEmpty /\ RepliesBounded
  BY DEF PipelineInit, DownIsEmpty, RepliesBounded
<1>6. Lag
  BY <1>3 DEF PipelineInit, Lag, InFlight
<1>7. StaleIsSkipped /\ OldIsAhead /\ ResetIsOnTheWay
  BY <1>2 DEF PipelineInit, StaleIsSkipped, OldIsAhead, ResetIsOnTheWay
<1> QED BY <1>4, <1>5, <1>6, <1>7 DEF PipelineInv

LEMMA PipelineStep ==
    ASSUME PipelineAssumption, PipelineInv, [PipelineNext]_pipeline
    PROVE  PipelineInv'
<1>1. CASE SendFrame
  BY <1>1, SendFrameKeeps
<1>2. CASE DropOsd
  BY <1>2, DropOsdKeeps
<1>3. CASE ApplyReply
  BY <1>3, ApplyReplyKeeps
<1>4. CASE GiveUp
  BY <1>4, GiveUpKeeps
<1>5. CASE ResetSim
  BY <1>5, ResetSimKeeps
<1>6. CASE RepairInPlace
  BY <1>6, RepairInPlaceKeeps
<1>7. CASE Episode
  BY <1>7, EpisodeKeeps
<1>8. CASE Bind \/ Booted \/ UNCHANGED pipeline
  BY <1>8, StartsAndStutters
<1>9. CASE Command
  BY <1>9, CommandKeeps
<1>10. CASE \E isArmed, withOsd \in BOOLEAN : Answer(isArmed, withOsd)
  BY <1>10, AnswerKeeps
<1>11. CASE Done
  BY <1>11, StartsAndStutters DEF Done
<1> QED BY <1>1, <1>2, <1>3, <1>4, <1>5, <1>6, <1>7, <1>8, <1>9, <1>10, <1>11
        DEF PipelineNext

LEMMA PipelineInvariant == PipelineSpec => []PipelineInv
<1>1. PipelineInit => PipelineInv
  BY PipelineAssumption, PipelineStarts
<1>2. PipelineInv /\ [PipelineNext]_pipeline => PipelineInv'
  BY PipelineAssumption, PipelineStep
<1> QED BY <1>1, <1>2, PTL DEF PipelineSpec

(* The types of the frame pipeline. *)
THEOREM PipelineTypes == PipelineSpec => []PipelineTypeOK
<1>1. PipelineInv => PipelineTypeOK
  BY DEF PipelineInv
<1> QED BY <1>1, PipelineInvariant, PTL

(* One packet out, one reply in: between frames the pipeline is as deep as
   frames were given up, for any number of them, of OSD packets and of
   overrides, whatever the delays. *)
THEOREM LagStays == PipelineSpec => []LagIsTheMisses
<1>1. PipelineInv => LagIsTheMisses
  BY DEF PipelineInv, Lag, LagIsTheMisses
<1> QED BY <1>1, PipelineInvariant, PTL

(* As long as no more frames are given up than replies are skipped, the pose
   never returns to a lineage from before an R, a T or a new episode. *)
THEOREM OverridesHold == PipelineSpec => []OverrideSticks
<1>1. PipelineInv => OverrideSticks
  BY DEF PipelineInv, StaleIsSkipped, OverrideSticks
<1> QED BY <1>1, PipelineInvariant, PTL

(* Once more replies were applied since a reset than frames ever given up, the
   velocities are of after the reset. *)
THEOREM ResetsArrive == PipelineSpec => []VelocityIsNew
<1>1. PipelineInv => VelocityIsNew
  BY DEF PipelineInv, OldIsAhead, VelocityIsNew
<1> QED BY <1>1, PipelineInvariant, PTL
=============================================================================
