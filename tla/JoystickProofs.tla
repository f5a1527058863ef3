---------------------------- MODULE JoystickProofs ----------------------------
(***************************************************************************)
(* The RC input for any number of slots and axes, any range of positions   *)
(* and any scale: no descriptor is lost, an EdgeTX handset is preferred,   *)
(* and a calibrated stick put back where it rested reads low.              *)
(***************************************************************************)
EXTENDS Joystick, WellFoundedInduction, TLAPS

-----------------------------------------------------------------------------
(* Arithmetic *)

LEMMA Sizes ==
    /\ Slots \in Nat /\ Full \in Nat /\ Full > 0 /\ Scale \in Nat /\ Scale > 0
    /\ MaxPlugs \in Nat
    /\ Positions \subseteq Raw
    /\ -Full \in Raw /\ Full \in Raw /\ 0 \in Raw
    /\ -Scale \in -Scale .. Scale /\ 0 \in -Scale .. Scale
    /\ \A r \in Raw : r \in Int
    /\ None \notin 0 .. Slots - 1
<1>1. /\ Slots \in Nat /\ Full \in Nat /\ Full > 0 /\ Scale \in Nat /\ Scale > 0
      /\ MaxPlugs \in Nat /\ Positions \subseteq Raw
  BY JoystickAssumption DEF Raw
<1> QED BY <1>1 DEF Raw, None

(* Division rounds down: a quotient is positive only if its dividend is. *)
LEMMA QuotientSign ==
    ASSUME NEW x \in Int, NEW y \in Nat, y > 0
    PROVE  x \div y \in Int /\ (x <= 0 => x \div y <= 0)
<1> DEFINE q == x \div y
           r == x % y
<1>1. q \in Int /\ r \in 0 .. y - 1 /\ x = y * q + r
  OBVIOUS
<1> HIDE DEF q, r
<1>2. \A a, b \in Nat : a > 0 /\ b > 0 => a * b > 0
  OBVIOUS
<1>3. x <= 0 => q <= 0
  <2> SUFFICES ASSUME x <= 0, q > 0 PROVE FALSE
    BY <1>1
  <2>1. y * q > 0
    BY <1>1, <1>2
  <2> QED BY <1>1, <2>1
<1> QED BY <1>1, <1>3 DEF q

LEMMA QuotientExact ==
    ASSUME NEW y \in Nat, y > 0, NEW k \in Int, NEW x \in Int, x = y * k
    PROVE  x \div y = k
<1> DEFINE q == x \div y
           r == x % y
<1>1. q \in Int /\ r \in 0 .. y - 1 /\ x = y * q + r
  OBVIOUS
<1> HIDE DEF q, r
<1>2. \A a \in Nat, b \in Int : b >= 1 => a * b >= a
  OBVIOUS
<1>3. \A a \in Nat, b \in Int : b <= -1 => a * b <= -a
  OBVIOUS
<1>4. k - q \in Int /\ y * (k - q) = r
  BY <1>1
<1>5. ~(k - q >= 1) /\ ~(k - q <= -1)
  BY <1>1, <1>2, <1>3, <1>4
<1> QED BY <1>1, <1>4, <1>5 DEF q

(* A channel never leaves its range. *)
LEMMA ApplyType ==
    ASSUME NEW l \in Int, NEW h \in Int, NEW r \in Int
    PROVE  Apply(l, h, r) \in -Scale .. Scale
<1> DEFINE span == h - l
           way == IF span < 0 THEN -1 ELSE 1
           x == (2 * (r - l) - span) * way * Scale
           y == span * way
           n == x \div y
<1>1. CASE span = 0
  BY <1>1, Sizes DEF Apply
<1>2. CASE span # 0
  <2>1. y \in Nat /\ y > 0 /\ x \in Int
    BY <1>2, Sizes
  <2> HIDE DEF x, y
  <2>2. n \in Int
    BY <2>1, QuotientSign
  <2> HIDE DEF n
  <2>3. Apply(l, h, r) = IF n < -Scale THEN -Scale ELSE IF n > Scale THEN Scale ELSE n
    BY <1>2 DEF Apply, n, x, y
  <2> QED BY <2>2, <2>3, Sizes
<1> QED BY <1>1, <1>2

(* Nearer to lo than to hi is low, and at lo the lowest. *)
Low(l, h, r) == l # h /\ Abs(r - l) <= Abs(r - h)

LEMMA LowReadsLow ==
    ASSUME NEW l \in Int, NEW h \in Int, NEW r \in Int, Low(l, h, r)
    PROVE  /\ Apply(l, h, r) <= 0
           /\ r \in {l, h} => Apply(l, h, r) = -Scale
<1> DEFINE span == h - l
           way == IF span < 0 THEN -1 ELSE 1
           x == (2 * (r - l) - span) * way * Scale
           y == span * way
           n == x \div y
<1>1. l # h /\ Abs(r - l) <= Abs(r - h)
  BY DEF Low
<1>2. span # 0 /\ y \in Nat /\ y > 0
  BY <1>1
<1> DEFINE twice == (2 * (r - l) - span) * way
<1>3. twice \in Int /\ twice <= 0
  BY <1>1 DEF Abs
<1>4. x \in Int /\ x <= 0
  <2> HIDE DEF twice
  <2>1. \A a \in Int, b \in Nat : a <= 0 => a * b \in Int /\ a * b <= 0
    OBVIOUS
  <2>2. x = twice * Scale
    BY DEF twice
  <2> QED BY <1>3, <2>1, <2>2, Sizes
<1>5. r \in {l, h} => r = l
  BY <1>1 DEF Abs
<1>6. r = l => x = y * (-Scale)
  <2> SUFFICES ASSUME r = l PROVE x = y * (-Scale)
    OBVIOUS
  <2>1. twice = 0 - y
    BY <1>2
  <2>2. x = twice * Scale
    OBVIOUS
  <2> HIDE DEF twice, x, y
  <2> QED BY <1>2, <2>1, <2>2, Sizes
<1> HIDE DEF x, y, twice
<1>7. n \in Int /\ n <= 0 /\ (r = l => n = -Scale)
  BY <1>2, <1>4, <1>6, QuotientSign, QuotientExact, Sizes
<1>8. Apply(l, h, r) = IF n < -Scale THEN -Scale ELSE IF n > Scale THEN Scale ELSE n
  BY <1>2 DEF Apply, x, y
<1> HIDE DEF n
<1> QED BY <1>5, <1>7, <1>8, Sizes

(* The least and the greatest of a set of positions. *)
LEMMA ExtremesType ==
    ASSUME NEW S, S \subseteq Raw, S # {}
    PROVE  Min(S) \in Raw /\ Max(S) \in Raw
<1> DEFINE R == {ss \in Nat \X Nat : ss[1] < ss[2]}
<1>1. IsWellFoundedOn(R, Nat)
  BY NatLessThanWellFounded DEF OpToRel
<1>2. \A r \in S : r \in Int /\ -Full <= r /\ r <= Full
  BY Sizes DEF Raw
<1>3. \E x \in S : \A z \in S : x <= z
  <2> DEFINE T == {r + Full : r \in S}
  <2>1. T # {} /\ T \subseteq Nat
    <3>1. \A r \in S : r + Full \in Nat
      BY <1>2, Sizes
    <3> QED BY <3>1, Zenon
  <2>2. \E x \in T : \A z \in T : ~(<<z, x>> \in R)
    BY <1>1, <2>1, WFMin
  <2>3. PICK x \in T : \A z \in T : ~(<<z, x>> \in R)
    BY <2>2
  <2>4. \A z \in T : z \in Nat /\ x \in Nat /\ ~(z < x)
    BY <2>1, <2>3
  <2>5. PICK least \in S : x = least + Full
    BY <2>3
  <2>6. \A z \in S : least <= z
    <3> SUFFICES ASSUME NEW z \in S PROVE least <= z
      OBVIOUS
    <3>1. ~(z + Full < x)
      BY <2>4
    <3> QED BY <1>2, <2>5, <3>1, Sizes
  <2> QED BY <2>6
<1>4. \E x \in S : \A z \in S : x >= z
  <2> DEFINE T == {Full - r : r \in S}
  <2>1. T # {} /\ T \subseteq Nat
    <3>1. \A r \in S : Full - r \in Nat
      BY <1>2, Sizes
    <3> QED BY <3>1, Zenon
  <2>2. \E x \in T : \A z \in T : ~(<<z, x>> \in R)
    BY <1>1, <2>1, WFMin
  <2>3. PICK x \in T : \A z \in T : ~(<<z, x>> \in R)
    BY <2>2
  <2>4. \A z \in T : z \in Nat /\ x \in Nat /\ ~(z < x)
    BY <2>1, <2>3
  <2>5. PICK most \in S : x = Full - most
    BY <2>3
  <2>6. \A z \in S : most >= z
    <3> SUFFICES ASSUME NEW z \in S PROVE most >= z
      OBVIOUS
    <3>1. ~(Full - z < x)
      BY <2>4
    <3> QED BY <1>2, <2>5, <3>1, Sizes
  <2> QED BY <2>6
<1>5. Min(S) \in S /\ Max(S) \in S
  BY <1>3, <1>4, Zenon DEF Min, Max
<1> QED BY <1>5

-----------------------------------------------------------------------------
(* The inductive invariant *)

(* Before a handset is opened nothing is held but the scan's first joystick,
   and the scan has not passed a slot that held an EdgeTX handset throughout. *)
Scanning ==
    /\ mode \in {"off", "scan"} => fd = None
    /\ mode \in {"sweep", "settle", "write"} => fd # None
    /\ mode = "off" => at = 0
    /\ mode \in {"off", "scan"} /\ at = 0 => fallback = None
    /\ mode = "scan" => \A s \in steady : device[s] = "edgetx" /\ at <= s

(* A sweep's cur is where the stick is once its events are read. *)
CurIsRaw ==
    mode \in {"sweep", "settle"} /\ plugged =>
        \A a \in Axes : queue[a] = {} => cur[a] = raw[a]

(* The maps about to be written, and those in the file, have the pose of rest
   at their low end. *)
WritesLow == mode = "write" => \A a \in Axes : Low(lo[a], hi[a], rest[a])
FileIsLow == \A a \in Axes \cap DOMAIN file : Low(file[a].lo, file[a].hi, rest[a])

(* A flight has the file's maps, and an axis with no event left is up to date. *)
FliesFile ==
    mode = "fly" /\ fd # None =>
        \A a \in Axes :
            /\ a \in DOMAIN file => lo[a] = file[a].lo /\ hi[a] = file[a].hi
            /\ plugged /\ queue[a] = {} => channels[a] = Apply(lo[a], hi[a], raw[a])

IInv ==
    /\ TypeOK /\ OneDescriptor /\ PrefersHandset
    /\ Scanning /\ CurIsRaw /\ WritesLow /\ FileIsLow /\ FliesFile

LEMMA DefaultsType ==
    /\ [a \in Axes |-> 0] \in [Axes -> Raw]
    /\ Drained \in [Axes -> SUBSET Raw]
    /\ DefaultLo \in [Axes -> Raw] /\ DefaultHi \in [Axes -> Raw]
    /\ DefaultChannels \in [Axes -> -Scale .. Scale]
BY Sizes DEF Drained, DefaultLo, DefaultHi, DefaultChannels

LEMMA StartsRight == Init => IInv
<1> SUFFICES ASSUME Init PROVE IInv
  OBVIOUS
<1> USE DEF Init
<1>1. TypeOK
  <2>1. at \in 0 .. Slots /\ plugs \in 0 .. MaxPlugs
    BY Sizes
  <2>2. /\ raw \in [Axes -> Raw] /\ cur \in [Axes -> Raw] /\ rest \in [Axes -> Raw]
        /\ queue \in [Axes -> SUBSET Raw] /\ channels \in [Axes -> -Scale .. Scale]
        /\ lo \in [Axes -> Raw] /\ hi \in [Axes -> Raw]
        /\ swMin \in [Axes -> Raw] /\ swMax \in [Axes -> Raw]
    BY DefaultsType, Zenon
  <2>3. /\ mode \in {"off", "scan", "fly", "sweep", "settle", "write"}
        /\ errand \in {"fly", "calibrate"}
        /\ {fallback, fd} \subseteq {None} \cup (0 .. Slots - 1)
        /\ plugged \in BOOLEAN /\ held \subseteq 0 .. Slots - 1
        /\ steady \subseteq 0 .. Slots - 1
    BY Zenon
  <2>4. file = << >> /\ device \in [0 .. Slots - 1 -> Kinds]
    BY Zenon
  <2> HIDE DEF Init
  <2> QED BY <2>1, <2>2, <2>3, <2>4, Zenon DEF TypeOK
<1>2. OneDescriptor /\ PrefersHandset
  BY DEF OneDescriptor, PrefersHandset
<1>3. Scanning
  BY DEF Scanning
<1>4. CurIsRaw /\ WritesLow /\ FliesFile
  BY DEF CurIsRaw, WritesLow, FliesFile
<1>5. FileIsLow
  <2>1. DOMAIN file = {}
    BY SMT
  <2> QED BY <2>1 DEF FileIsLow
<1> QED BY <1>1, <1>2, <1>3, <1>4, <1>5 DEF IInv
-----------------------------------------------------------------------------
(* Types *)

LEMMA GoneType ==
    ASSUME TypeOK, Gone, UNCHANGED <<device, plugs, rest>>,
           file' = << >> \/ file' \in [Axes -> [lo : Raw, hi : Raw]]
    PROVE  TypeOK'
<1>1. at' \in 0 .. Slots
  BY Sizes DEF Gone
<1>2. /\ raw' \in [Axes -> Raw] /\ cur' \in [Axes -> Raw]
      /\ queue' \in [Axes -> SUBSET Raw] /\ channels' \in [Axes -> -Scale .. Scale]
      /\ lo' \in [Axes -> Raw] /\ hi' \in [Axes -> Raw]
      /\ swMin' \in [Axes -> Raw] /\ swMax' \in [Axes -> Raw]
  BY DefaultsType, Zenon DEF Gone
<1>3. /\ mode' \in {"off", "scan", "fly", "sweep", "settle", "write"}
      /\ errand' \in {"fly", "calibrate"}
      /\ {fallback', fd'} \subseteq {None} \cup (0 .. Slots - 1)
      /\ plugged' \in BOOLEAN /\ held' \subseteq 0 .. Slots - 1
      /\ steady' \subseteq 0 .. Slots - 1
  BY Zenon DEF Gone
<1>4. /\ device' \in [0 .. Slots - 1 -> Kinds] /\ rest' \in [Axes -> Raw]
      /\ plugs' \in 0 .. MaxPlugs
  BY DEF TypeOK
<1> QED BY <1>1, <1>2, <1>3, <1>4, Zenon DEF TypeOK

LEMMA OpenedType ==
    ASSUME TypeOK, NEW s \in 0 .. Slots - 1, NEW pose \in [Axes -> Positions],
           Opened(s, pose), held' = {s} \/ held' = held, plugged' \in BOOLEAN,
           steady' \in {steady, {}}
    PROVE  TypeOK'
<1>1. pose \in [Axes -> Raw] /\ Greeting(pose) \in [Axes -> SUBSET Raw]
  BY Sizes DEF Greeting
<1>2. lo' \in [Axes -> Raw] /\ hi' \in [Axes -> Raw]
  <2>1. CASE errand = "fly"
    <3>1. \A a \in Axes : a \in DOMAIN file => file[a].lo \in Raw /\ file[a].hi \in Raw
      <4>1. CASE file = << >>
        <5>1. DOMAIN file = {}
          BY <4>1, SMT
        <5> QED BY <5>1
      <4>2. CASE file \in [Axes -> [lo : Raw, hi : Raw]]
        BY <4>2
      <4> QED BY <4>1, <4>2 DEF TypeOK
    <3>2. lo' = LoadedLo /\ hi' = LoadedHi
      BY <2>1 DEF Opened
    <3>3. \A a \in Axes : DefaultLo[a] \in Raw /\ DefaultHi[a] \in Raw
      BY DefaultsType
    <3>4. \A a \in Axes : lo'[a] \in Raw /\ hi'[a] \in Raw
      <4> SUFFICES ASSUME NEW a \in Axes PROVE lo'[a] \in Raw /\ hi'[a] \in Raw
        OBVIOUS
      <4>1. /\ lo'[a] = IF a \in DOMAIN file THEN file[a].lo ELSE DefaultLo[a]
            /\ hi'[a] = IF a \in DOMAIN file THEN file[a].hi ELSE DefaultHi[a]
        BY <3>2 DEF LoadedLo, LoadedHi
      <4> QED BY <3>1, <3>3, <4>1, Zenon
    <3>5. lo' = [a \in Axes |-> lo'[a]] /\ hi' = [a \in Axes |-> hi'[a]]
      BY <3>2 DEF LoadedLo, LoadedHi
    <3> QED BY <3>4, <3>5
  <2>2. CASE errand # "fly"
    BY <2>2 DEF Opened, TypeOK
  <2> QED BY <2>1, <2>2
<1>3. mode' \in {"fly", "sweep"} /\ at' = 0 /\ fallback' = None /\ fd' = s
  BY DEF Opened
<1>4. UNCHANGED <<device, file, plugs, errand, channels, swMin, swMax, cur, rest>>
  BY DEF Opened, sweep
<1>5. held' \subseteq 0 .. Slots - 1 /\ steady' \subseteq 0 .. Slots - 1
  BY DEF TypeOK
<1>6. raw' \in [Axes -> Raw] /\ queue' \in [Axes -> SUBSET Raw]
  BY <1>1 DEF Opened
<1>7. at' \in 0 .. Slots
  BY <1>3, Sizes
<1> QED BY <1>2, <1>3, <1>4, <1>5, <1>6, <1>7 DEF TypeOK

LEMMA NotOpenedType ==
    ASSUME TypeOK, NotOpened
    PROVE  TypeOK'
<1>1. CASE Gone /\ UNCHANGED <<device, file, plugs, rest>>
  BY <1>1, GoneType DEF TypeOK
<1>2. CASE mode' = "fly" /\ at' = 0
           /\ UNCHANGED <<world, errand, fallback, steady, fd, plugged, held, maps,
                          sweep, rest>>
  BY <1>2, Sizes DEF TypeOK, world, maps, sweep
<1> QED BY <1>1, <1>2 DEF NotOpened

LEMMA LineType ==
    ASSUME TypeOK, NEW a \in Axes
    PROVE  Line(a).lo \in Raw /\ Line(a).hi \in Raw
BY Sizes DEF TypeOK, Line, Oriented

LEMMA TypeStep ==
    ASSUME TypeOK, [Next]_vars
    PROVE  TypeOK'
<1> USE DEF world, scan, maps, sweep
<1>1. ASSUME NEW e \in {"fly", "calibrate"}, Start(e) PROVE TypeOK'
  BY <1>1 DEF Start, TypeOK, EdgeTX
<1>2. CASE ScanSlot
  <2>1. at \in 0 .. Slots - 1 /\ at + 1 \in 0 .. Slots
    BY <1>2, Sizes DEF ScanSlot, TypeOK
  <2>2. ASSUME NEW pose \in [Axes -> Positions], Opened(at, pose), held' = {at},
               plugged' = TRUE, steady' = steady
        PROVE  TypeOK'
    BY <2>1, <2>2, OpenedType
  <2>3. ASSUME at' = at + 1, fallback' \in {fallback, at}, held' \in {held, {at}},
               plugged' \in BOOLEAN,
               UNCHANGED <<world, mode, errand, steady, fd, maps, sweep, rest>>
        PROVE  TypeOK'
    BY <2>1, <2>3 DEF TypeOK
  <2> QED BY <1>2, <2>2, <2>3 DEF ScanSlot, TypeOK, WithoutSecond
<1>3. CASE ScanEnd
  <2>1. ASSUME fallback # None, NEW pose \in [Axes -> Positions],
               Opened(fallback, pose), UNCHANGED <<held, plugged, steady>>
        PROVE  TypeOK'
    <3>1. fallback \in 0 .. Slots - 1 /\ plugged' \in BOOLEAN
      BY <2>1 DEF TypeOK
    <3> QED BY <2>1, <3>1, OpenedType
  <2> QED BY <1>3, <2>1, NotOpenedType DEF ScanEnd
<1>4. ASSUME NEW s \in 0 .. Slots - 1, OpenGiven(s) PROVE TypeOK'
  BY <1>4, OpenedType, NotOpenedType DEF OpenGiven
<1>5. CASE Poll
  <2>1. \A a \in Axes : PollAxis(a) \in -Scale .. Scale
    <3> SUFFICES ASSUME NEW a \in Axes PROVE PollAxis(a) \in -Scale .. Scale
      OBVIOUS
    <3>1. lo[a] \in Int /\ hi[a] \in Int /\ raw[a] \in Int
          /\ channels[a] \in -Scale .. Scale
      BY Sizes DEF TypeOK
    <3> QED BY <3>1, ApplyType DEF PollAxis
  <2>2. channels' \in [Axes -> -Scale .. Scale]
    BY <1>5, <2>1 DEF Poll
  <2> QED BY <1>5, <2>2, DefaultsType DEF Poll, TypeOK
<1>6. CASE Drain
  <2>1. \A a \in Axes : CurNow(a) \in Raw /\ MinNow(a) \in Raw /\ MaxNow(a) \in Raw
    <3> SUFFICES ASSUME NEW a \in Axes
                 PROVE  CurNow(a) \in Raw /\ MinNow(a) \in Raw /\ MaxNow(a) \in Raw
      OBVIOUS
    <3>1. queue[a] \cup {swMin[a]} \subseteq Raw /\ queue[a] \cup {swMax[a]} \subseteq Raw
          /\ cur[a] \in Raw /\ raw[a] \in Raw
      BY DEF TypeOK
    <3>2. MinNow(a) \in Raw /\ MaxNow(a) \in Raw
      BY <3>1, ExtremesType DEF MinNow, MaxNow
    <3> QED BY <3>1, <3>2 DEF CurNow
  <2>2. cur' \in [Axes -> Raw] /\ swMin' \in [Axes -> Raw] /\ swMax' \in [Axes -> Raw]
    BY <1>6, <2>1 DEF Drain
  <2> QED BY <1>6, <2>2, DefaultsType DEF Drain, TypeOK
<1>7. CASE SweepOver
  BY <1>7 DEF SweepOver, TypeOK
<1>8. CASE Record
  <2>1. lo' \in [Axes -> Raw] /\ hi' \in [Axes -> Raw]
    BY <1>8, LineType DEF Record
  <2>2. rest' \in [Axes -> Raw]
    BY <1>8 DEF Record, TypeOK
  <2> QED BY <1>8, <2>1, <2>2 DEF Record, TypeOK
<1>9. CASE RecordFails
  BY <1>9, GoneType DEF RecordFails, TypeOK
<1>10. CASE Save
  <2>1. file' \in [Axes -> [lo : Raw, hi : Raw]]
    BY <1>10 DEF Save, TypeOK
  <2> QED BY <1>10, <2>1, GoneType DEF Save
<1>11. CASE Exit
  BY <1>11, GoneType DEF Exit, TypeOK
<1>12. ASSUME NEW a \in Axes, NEW r \in Positions, MoveStick(a, r) PROVE TypeOK'
  <2>1. r \in Raw
    BY Sizes
  <2>2. raw' \in [Axes -> Raw] /\ queue' \in [Axes -> SUBSET Raw]
    BY <1>12, <2>1 DEF MoveStick, TypeOK
  <2> QED BY <1>12, <2>2 DEF MoveStick, TypeOK
<1>13. ASSUME NEW s \in 0 .. Slots - 1, NEW k \in Kinds, Plug(s, k) PROVE TypeOK'
  <2>1. device' \in [0 .. Slots - 1 -> Kinds] /\ plugs' \in 0 .. MaxPlugs
    BY <1>13, Sizes DEF Plug, TypeOK
  <2>2. plugged' \in BOOLEAN /\ steady' \subseteq 0 .. Slots - 1
        /\ queue' \in [Axes -> SUBSET Raw]
    BY <1>13, DefaultsType DEF Plug, TypeOK
  <2> QED BY <1>13, <2>1, <2>2 DEF Plug, TypeOK
<1>14. CASE UNCHANGED vars
  BY <1>14 DEF vars, TypeOK
<1> QED BY <1>1, <1>2, <1>3, <1>4, <1>5, <1>6, <1>7, <1>8, <1>9, <1>10, <1>11,
           <1>12, <1>13, <1>14 DEF Next
-----------------------------------------------------------------------------
(* Descriptors and the choice of the handset *)

(* Once the scan is over, the descriptor is the one it held. *)
LEMMA DescriptorStep ==
    ASSUME TypeOK, OneDescriptor, Scanning, [Next]_vars
    PROVE  OneDescriptor' /\ Scanning'
<1> USE DEF world, scan, maps, sweep
<1>0. Slots \in Nat /\ None \notin 0 .. Slots - 1
  BY Sizes
<1>1. ASSUME NEW e \in {"fly", "calibrate"}, Start(e) PROVE OneDescriptor' /\ Scanning'
  BY <1>0, <1>1 DEF Start, OneDescriptor, Scanning, EdgeTX
<1>2. CASE ScanSlot
  <2>1. at \in 0 .. Slots - 1 /\ mode = "scan" /\ fd = None
    BY <1>2, Sizes DEF ScanSlot, TypeOK, Scanning
  <2>2. CASE /\ device[at] = "none"
             /\ at' = at + 1
             /\ UNCHANGED <<world, mode, errand, fallback, steady, fd, plugged,
                            held, maps, sweep, rest>>
    <3>1. \A s \in steady : at + 1 <= s
      BY <2>1, <2>2 DEF Scanning, TypeOK
    <3> QED BY <1>0, <2>1, <2>2, <3>1 DEF OneDescriptor, Scanning
  <2>3. ASSUME held' = {at}, NEW pose \in [Axes -> Positions], Opened(at, pose)
        PROVE  OneDescriptor' /\ Scanning'
    BY <1>0, <2>1, <2>3 DEF OneDescriptor, Scanning, Opened
  <2>4. CASE /\ ~Preferred(at)
             /\ at' = at + 1
             /\ fallback' = IF fallback = None THEN at ELSE fallback
             /\ held' = IF fallback = None THEN {at} ELSE WithoutSecond(at)
             /\ UNCHANGED <<world, mode, errand, steady, fd, maps, sweep, rest>>
    <3>1. \A s \in steady : at + 1 <= s
      BY <2>1, <2>4 DEF Scanning, TypeOK, Preferred
    <3>2. Scanning'
      BY <1>0, <2>1, <2>4, <3>1 DEF Scanning
    <3>3. OneDescriptor'
      BY <1>0, <2>1, <2>4 DEF OneDescriptor, WithoutSecond
    <3> QED BY <3>2, <3>3
  <2> QED BY <1>2, <2>2, <2>3, <2>4 DEF ScanSlot
<1>3. ASSUME NotOpened, mode = "scan", fallback = None
      PROVE  OneDescriptor' /\ Scanning'
  BY <1>3 DEF NotOpened, Gone, OneDescriptor, Scanning
<1>4. CASE ScanEnd
  <2>1. ASSUME fallback # None, NEW pose \in [Axes -> Positions],
               Opened(fallback, pose), UNCHANGED <<held, plugged, steady>>
        PROVE  OneDescriptor' /\ Scanning'
    BY <1>4, <2>1 DEF ScanEnd, OneDescriptor, Scanning, Opened
  <2> QED BY <1>3, <1>4, <2>1 DEF ScanEnd
<1>5. ASSUME NEW s \in 0 .. Slots - 1, OpenGiven(s) PROVE OneDescriptor' /\ Scanning'
  <2>1. ASSUME held' = {s}, NEW pose \in [Axes -> Positions], Opened(s, pose)
        PROVE  OneDescriptor' /\ Scanning'
    BY <1>0, <2>1 DEF OneDescriptor, Scanning, Opened
  <2>2. mode = "scan" /\ fallback = None
    BY <1>5 DEF OpenGiven, Scanning
  <2> QED BY <1>3, <1>5, <2>1, <2>2 DEF OpenGiven
<1>6. CASE Poll \/ Drain \/ SweepOver \/ Record
  BY <1>6 DEF Poll, Drain, SweepOver, Record, OneDescriptor, Scanning
<1>7. CASE RecordFails \/ Save \/ Exit
  BY <1>7 DEF RecordFails, Save, Exit, Gone, OneDescriptor, Scanning
<1>8. ASSUME NEW a \in Axes, NEW r \in Positions, MoveStick(a, r)
      PROVE  OneDescriptor' /\ Scanning'
  BY <1>8 DEF MoveStick, OneDescriptor, Scanning
<1>9. ASSUME NEW s \in 0 .. Slots - 1, NEW k \in Kinds, Plug(s, k)
      PROVE  OneDescriptor' /\ Scanning'
  <2>1. OneDescriptor'
    BY <1>9 DEF Plug, OneDescriptor
  <2>2. mode = "scan" => \A t \in steady' : device'[t] = "edgetx" /\ at <= t
    BY <1>9 DEF Plug, Scanning, TypeOK
  <2> QED BY <1>9, <2>1, <2>2 DEF Plug, Scanning
<1>10. CASE UNCHANGED vars
  BY <1>10 DEF vars, OneDescriptor, Scanning
<1> QED BY <1>1, <1>2, <1>4, <1>5, <1>6, <1>7, <1>8, <1>9, <1>10 DEF Next

LEMMA HandsetStep ==
    ASSUME TypeOK, OneDescriptor, Scanning, PrefersHandset, [Next]_vars
    PROVE  PrefersHandset'
<1> USE DEF world, scan, maps, sweep
<1>1. CASE mode = "scan" /\ (ScanSlot \/ ScanEnd \/ \E s \in 0 .. Slots - 1 : OpenGiven(s))
  <2>1. fd = None
    BY <1>1 DEF Scanning
  <2>2. ASSUME fd' = fd PROVE PrefersHandset'
    BY <2>1, <2>2 DEF PrefersHandset
  <2>3. ASSUME fd' = None PROVE PrefersHandset'
    BY <2>3 DEF PrefersHandset
  <2>4. ASSUME NotOpened PROVE PrefersHandset'
    BY <2>2, <2>3, <2>4 DEF NotOpened, Gone
  <2>5. CASE ScanSlot
    BY <1>1, <2>2, <2>5 DEF ScanSlot, Opened, Preferred, PrefersHandset
  <2>6. CASE ScanEnd
    <3>1. steady = {}
      BY <1>1, <2>6, Sizes DEF ScanEnd, Scanning, TypeOK
    <3>2. CASE steady' = steady
      BY <3>1, <3>2 DEF PrefersHandset
    <3> QED BY <2>4, <2>6, <3>2 DEF ScanEnd
  <2>7. ASSUME NEW s \in 0 .. Slots - 1, OpenGiven(s) PROVE PrefersHandset'
    <3>1. CASE steady' = {}
      BY <3>1 DEF PrefersHandset
    <3> QED BY <2>4, <2>7, <3>1 DEF OpenGiven
  <2> QED BY <1>1, <2>5, <2>6, <2>7
<1>2. ASSUME NEW e \in {"fly", "calibrate"}, Start(e) PROVE PrefersHandset'
  BY <1>2 DEF Start, PrefersHandset, Scanning
<1>3. CASE Poll \/ Drain \/ SweepOver \/ Record
  BY <1>3 DEF Poll, Drain, SweepOver, Record, PrefersHandset
<1>4. CASE RecordFails \/ Save \/ Exit
  BY <1>4 DEF RecordFails, Save, Exit, Gone, PrefersHandset
<1>5. ASSUME NEW a \in Axes, NEW r \in Positions, MoveStick(a, r) PROVE PrefersHandset'
  BY <1>5 DEF MoveStick, PrefersHandset
<1>6. ASSUME NEW s \in 0 .. Slots - 1, NEW k \in Kinds, Plug(s, k) PROVE PrefersHandset'
  <2>1. CASE s \in held
    BY <1>6, <2>1 DEF Plug, PrefersHandset
  <2>2. CASE s \notin held
    <3>1. fd # None => s # fd
      BY <2>2 DEF OneDescriptor
    <3>2. fd # None => fd \in 0 .. Slots - 1
      BY DEF TypeOK
    <3>3. fd # None => device'[fd] = device[fd]
      BY <1>6, <3>1, <3>2 DEF Plug, TypeOK
    <3> QED BY <1>6, <3>3 DEF Plug, PrefersHandset, Scanning
  <2> QED BY <2>1, <2>2
<1>7. CASE UNCHANGED vars
  BY <1>7 DEF vars, PrefersHandset
<1>8. ScanSlot \/ ScanEnd \/ (\E s \in 0 .. Slots - 1 : OpenGiven(s)) => mode = "scan"
  BY DEF ScanSlot, ScanEnd, OpenGiven
<1> QED BY <1>1, <1>2, <1>3, <1>4, <1>5, <1>6, <1>7, <1>8 DEF Next
-----------------------------------------------------------------------------
(* The calibration, from the sweep to the flight *)

LEMMA CurStep ==
    ASSUME TypeOK, OneDescriptor, Scanning, CurIsRaw, [Next]_vars
    PROVE  CurIsRaw'
<1> USE DEF world, scan, maps, sweep
<1>1. ASSUME NEW s, NEW pose \in [Axes -> Positions], Opened(s, pose) PROVE CurIsRaw'
  <2>1. \A a \in Axes : queue'[a] # {}
    BY <1>1 DEF Opened, Greeting
  <2> QED BY <2>1 DEF CurIsRaw
<1>2. ASSUME mode' \notin {"sweep", "settle"} PROVE CurIsRaw'
  BY <1>2 DEF CurIsRaw
<1>3. ASSUME NotOpened PROVE CurIsRaw'
  BY <1>2, <1>3 DEF NotOpened, Gone
<1>4. CASE ScanSlot
  BY <1>1, <1>2, <1>4 DEF ScanSlot
<1>5. CASE ScanEnd
  BY <1>1, <1>3, <1>5 DEF ScanEnd
<1>6. ASSUME NEW s \in 0 .. Slots - 1, OpenGiven(s) PROVE CurIsRaw'
  BY <1>1, <1>3, <1>6 DEF OpenGiven
<1>7. CASE Drain
  <2>1. \A a \in Axes : cur'[a] = IF queue[a] = {} THEN cur[a] ELSE raw[a]
    BY <1>7 DEF Drain, CurNow
  <2>2. mode \in {"sweep", "settle"} /\ plugged /\ raw' = raw
    BY <1>7 DEF Drain, Reads
  <2> QED BY <2>1, <2>2 DEF CurIsRaw
<1>8. CASE SweepOver
  BY <1>8 DEF SweepOver, CurIsRaw
<1>9. ASSUME NEW a \in Axes, NEW r \in Positions, MoveStick(a, r) PROVE CurIsRaw'
  <2>1. queue'[a] # {}
    BY <1>9 DEF MoveStick, TypeOK
  <2>2. \A b \in Axes \ {a} : queue'[b] = queue[b] /\ raw'[b] = raw[b]
    BY <1>9 DEF MoveStick, TypeOK
  <2>3. mode' = mode /\ plugged' = plugged /\ cur' = cur
    BY <1>9 DEF MoveStick
  <2> QED BY <2>1, <2>2, <2>3 DEF CurIsRaw
<1>10. ASSUME NEW s \in 0 .. Slots - 1, NEW k \in Kinds, Plug(s, k) PROVE CurIsRaw'
  <2>1. UNCHANGED <<mode, raw, cur>>
    BY <1>10 DEF Plug
  <2>2. CASE fd = None
    BY <2>1, <2>2 DEF CurIsRaw, Scanning
  <2>3. CASE fd # None /\ s = fd
    BY <1>10, <2>3 DEF Plug, OneDescriptor, CurIsRaw
  <2>4. CASE s # fd
    BY <1>10, <2>1, <2>4 DEF Plug, CurIsRaw
  <2> QED BY <2>2, <2>3, <2>4
<1>11. ASSUME NEW e \in {"fly", "calibrate"}, Start(e) PROVE CurIsRaw'
  BY <1>2, <1>11 DEF Start
<1>12. CASE Poll \/ Record
  BY <1>2, <1>12 DEF Poll, Record
<1>13. CASE RecordFails \/ Save \/ Exit
  BY <1>2, <1>13 DEF RecordFails, Save, Exit, Gone
<1>14. CASE UNCHANGED vars
  BY <1>14 DEF vars, CurIsRaw
<1> QED BY <1>4, <1>5, <1>6, <1>7, <1>8, <1>9, <1>10, <1>11, <1>12, <1>13, <1>14
        DEF Next

(* The file is written with the map oriented by the resting stick. *)
LEMMA LineIsLow ==
    ASSUME TypeOK, NEW a \in Axes
    PROVE  Low(Line(a).lo, Line(a).hi, cur[a])
<1>1. swMin[a] \in Int /\ swMax[a] \in Int /\ cur[a] \in Int /\ Full \in Int
  BY Sizes DEF TypeOK
<1>2. \A l, h, r \in Int :
          l < h => Low(Oriented(l, h, r).lo, Oriented(l, h, r).hi, r)
  BY DEF Low, Oriented, Abs
<1> QED BY <1>1, <1>2, Sizes DEF Line

LEMMA FileStep ==
    ASSUME TypeOK, Scanning, CurIsRaw, WritesLow, FileIsLow, [Next]_vars
    PROVE  WritesLow' /\ FileIsLow'
<1> USE DEF world, scan, maps, sweep
<1>1. ASSUME UNCHANGED <<file, rest>> PROVE FileIsLow'
  BY <1>1 DEF FileIsLow
<1>2. ASSUME mode' # "write" PROVE WritesLow'
  BY <1>2 DEF WritesLow
<1>3. ASSUME NEW s, NEW pose \in [Axes -> Positions], Opened(s, pose)
      PROVE  WritesLow' /\ FileIsLow'
  BY <1>1, <1>2, <1>3 DEF Opened
<1>4. CASE NotOpened
  BY <1>1, <1>2, <1>4 DEF NotOpened, Gone
<1>5. CASE ScanSlot
  BY <1>1, <1>2, <1>3, <1>5 DEF ScanSlot
<1>6. CASE ScanEnd
  BY <1>3, <1>4, <1>6 DEF ScanEnd
<1>7. ASSUME NEW s \in 0 .. Slots - 1, OpenGiven(s) PROVE WritesLow' /\ FileIsLow'
  BY <1>3, <1>4, <1>7 DEF OpenGiven
<1>8. CASE Record
  <2>1. \A a \in Axes : rest'[a] = cur[a]
    BY <1>8 DEF Record, Reads, Scanning, CurIsRaw, Drained
  <2>2. \A a \in Axes : lo'[a] = Line(a).lo /\ hi'[a] = Line(a).hi
    BY <1>8 DEF Record
  <2>3. WritesLow'
    BY <2>1, <2>2, LineIsLow DEF WritesLow
  <2>4. DOMAIN file' = {}
    BY <1>8, SMT DEF Record
  <2> QED BY <2>3, <2>4 DEF FileIsLow
<1>9. CASE Save
  <2>1. \A a \in Axes : file'[a].lo = lo[a] /\ file'[a].hi = hi[a]
    BY <1>9 DEF Save
  <2>2. FileIsLow'
    BY <1>9, <2>1 DEF Save, WritesLow, FileIsLow
  <2> QED BY <1>2, <1>9, <2>2 DEF Save, Gone
<1>10. CASE Poll \/ Drain \/ SweepOver
  BY <1>1, <1>2, <1>10 DEF Poll, Drain, SweepOver
<1>11. CASE RecordFails \/ Exit
  BY <1>1, <1>2, <1>11 DEF RecordFails, Exit, Gone
<1>12. CASE UNCHANGED <<mode, lo, hi, file, rest>>
  BY <1>12 DEF WritesLow, FileIsLow
<1>13. ASSUME NEW e \in {"fly", "calibrate"}, Start(e) PROVE WritesLow' /\ FileIsLow'
  BY <1>1, <1>2, <1>13 DEF Start
<1>14. ASSUME NEW a \in Axes, NEW r \in Positions, MoveStick(a, r)
       PROVE  WritesLow' /\ FileIsLow'
  BY <1>12, <1>14 DEF MoveStick
<1>15. ASSUME NEW s \in 0 .. Slots - 1, NEW k \in Kinds, Plug(s, k)
       PROVE  WritesLow' /\ FileIsLow'
  BY <1>12, <1>15 DEF Plug
<1>16. CASE UNCHANGED vars
  BY <1>12, <1>16 DEF vars
<1> QED BY <1>5, <1>6, <1>7, <1>8, <1>9, <1>10, <1>11, <1>13, <1>14, <1>15, <1>16
        DEF Next

LEMMA FlyStep ==
    ASSUME TypeOK, OneDescriptor, Scanning, FliesFile, [Next]_vars
    PROVE  FliesFile'
<1> USE DEF world, scan, maps, sweep
<1>1. ASSUME mode' # "fly" \/ fd' = None PROVE FliesFile'
  BY <1>1 DEF FliesFile
<1>2. ASSUME NEW s, NEW pose \in [Axes -> Positions], Opened(s, pose)
      PROVE  FliesFile'
  <2>1. \A a \in Axes : queue'[a] # {}
    BY <1>2 DEF Opened, Greeting
  <2>2. CASE errand = "fly"
    <3>1. file' = file /\ lo' = LoadedLo /\ hi' = LoadedHi
      BY <1>2, <2>2 DEF Opened
    <3>2. \A a \in Axes : a \in DOMAIN file => lo'[a] = file[a].lo /\ hi'[a] = file[a].hi
      BY <3>1 DEF LoadedLo, LoadedHi
    <3> QED BY <2>1, <3>1, <3>2 DEF FliesFile
  <2>3. CASE errand # "fly"
    BY <1>1, <1>2, <2>3 DEF Opened
  <2> QED BY <2>2, <2>3
<1>3. ASSUME NotOpened, mode = "scan" PROVE FliesFile'
  BY <1>1, <1>3 DEF NotOpened, Gone, Scanning
<1>4. CASE ScanSlot
  BY <1>1, <1>2, <1>4 DEF ScanSlot
<1>5. CASE ScanEnd
  BY <1>2, <1>3, <1>5 DEF ScanEnd
<1>6. ASSUME NEW s \in 0 .. Slots - 1, OpenGiven(s) PROVE FliesFile'
  BY <1>2, <1>3, <1>6 DEF OpenGiven
<1>7. CASE Poll
  <2>1. \A a \in Axes :
            channels'[a] = IF queue[a] = {} THEN channels[a]
                           ELSE Apply(lo[a], hi[a], raw[a])
    BY <1>7 DEF Poll, PollAxis
  <2>2. UNCHANGED <<raw, lo, hi, file>> /\ mode = "fly" /\ fd # None /\ plugged
    BY <1>7 DEF Poll, Reads
  <2> QED BY <2>1, <2>2 DEF FliesFile
<1>8. CASE Drain \/ SweepOver \/ Record
  BY <1>1, <1>8 DEF Drain, SweepOver, Record
<1>9. CASE RecordFails \/ Save \/ Exit
  BY <1>1, <1>9 DEF RecordFails, Save, Exit, Gone
<1>10. ASSUME NEW e \in {"fly", "calibrate"}, Start(e) PROVE FliesFile'
  BY <1>1, <1>10 DEF Start
<1>11. ASSUME NEW a \in Axes, NEW r \in Positions, MoveStick(a, r) PROVE FliesFile'
  <2>1. queue'[a] # {}
    BY <1>11 DEF MoveStick, TypeOK
  <2>2. \A b \in Axes \ {a} : queue'[b] = queue[b] /\ raw'[b] = raw[b]
    BY <1>11 DEF MoveStick, TypeOK
  <2>3. UNCHANGED <<mode, fd, plugged, lo, hi, file, channels>>
    BY <1>11 DEF MoveStick
  <2> QED BY <2>1, <2>2, <2>3 DEF FliesFile
<1>12. ASSUME NEW s \in 0 .. Slots - 1, NEW k \in Kinds, Plug(s, k) PROVE FliesFile'
  <2>1. UNCHANGED <<mode, fd, raw, lo, hi, file, channels>>
    BY <1>12 DEF Plug
  <2>2. CASE fd = None
    BY <1>1, <2>1, <2>2
  <2>3. CASE fd # None /\ s = fd
    BY <1>12, <2>1, <2>3 DEF Plug, OneDescriptor, FliesFile
  <2>4. CASE s # fd
    BY <1>12, <2>1, <2>4 DEF Plug, FliesFile
  <2> QED BY <2>2, <2>3, <2>4
<1>13. CASE UNCHANGED vars
  BY <1>13 DEF vars, FliesFile
<1> QED BY <1>4, <1>5, <1>6, <1>7, <1>8, <1>9, <1>10, <1>11, <1>12, <1>13 DEF Next
-----------------------------------------------------------------------------
(* The invariant holds in every reachable state: with it, types, descriptors,
   the choice of the handset and the maps of the flight stay as stated. *)
THEOREM JoystickInvariant == Spec => []IInv
<1>1. Init => IInv
  BY StartsRight
<1>2. IInv /\ [Next]_vars => IInv'
  <2> SUFFICES ASSUME IInv, [Next]_vars PROVE IInv'
    OBVIOUS
  <2>1. TypeOK' /\ OneDescriptor' /\ Scanning' /\ PrefersHandset'
    BY TypeStep, DescriptorStep, HandsetStep DEF IInv
  <2>2. CurIsRaw' /\ WritesLow' /\ FileIsLow' /\ FliesFile'
    BY CurStep, FileStep, FlyStep DEF IInv
  <2> QED BY <2>1, <2>2 DEF IInv
<1> QED BY <1>1, <1>2, PTL DEF Spec

(* Every channel stays within -1 .. 1 and every map on the raw scale, through
   sweeps, files and handsets that come and go. *)
THEOREM JoystickTypes == Spec => []TypeOK
<1>1. IInv => TypeOK
  BY DEF IInv
<1> QED BY <1>1, JoystickInvariant, PTL

(* The scan of /dev/input/js* closes every descriptor it does not keep. *)
THEOREM NoDescriptorIsLost == Spec => []OneDescriptor
<1>1. IInv => OneDescriptor
  BY DEF IInv
<1> QED BY <1>1, JoystickInvariant, PTL

(* Another joystick is only read when no slot held an EdgeTX handset during
   the whole scan. *)
THEOREM HandsetComesFirst == Spec => []PrefersHandset
<1>1. IInv => PrefersHandset
  BY DEF IInv
<1> QED BY <1>1, JoystickInvariant, PTL

(* What calibrate() writes and loadCalibration() reads makes the resting stick
   read low, at -1 if it rested at an end of its range. *)
THEOREM CalibratedRestIsLow == Spec => []RestReadsLow
<1>1. IInv => RestReadsLow
  <2> SUFFICES ASSUME IInv, mode = "fly", Reads, queue = Drained,
                      NEW a \in Axes \cap DOMAIN file, raw[a] = rest[a]
               PROVE  /\ channels[a] <= 0
                      /\ rest[a] \in {file[a].lo, file[a].hi} => channels[a] = -Scale
    BY DEF RestReadsLow
  <2>1. lo[a] = file[a].lo /\ hi[a] = file[a].hi
        /\ channels[a] = Apply(lo[a], hi[a], rest[a])
    BY DEF IInv, FliesFile, Reads, Drained
  <2>2. Low(lo[a], hi[a], rest[a])
    BY <2>1 DEF IInv, FileIsLow
  <2>3. lo[a] \in Int /\ hi[a] \in Int /\ rest[a] \in Int
    BY Sizes DEF IInv, TypeOK
  <2> QED BY <2>1, <2>2, <2>3, LowReadsLow
<1> QED BY <1>1, JoystickInvariant, PTL
=============================================================================
