------------------------------- MODULE Joystick -------------------------------
(***************************************************************************)
(* The RC input of propwash-core: class Joystick (core/input/joystick.cpp) *)
(* and the process around it (core/main.cpp).                              *)
(*                                                                         *)
(* A process either calibrates (--js-calibrate: sweep, settle, write the   *)
(* file, exit) or flies (load the file, then poll before every update).    *)
(* Handsets come and go while it runs; the calibration file is all that    *)
(* one process leaves to the next.                                         *)
(*                                                                         *)
(* The kernel queues the events of an open device.  Per axis only two      *)
(* things about the queue matter to the code: which positions it holds,    *)
(* and that the newest is where the stick is now.                          *)
(***************************************************************************)
EXTENDS Integers, FiniteSetsExt

CONSTANTS Slots,        \* /dev/input/js0 .. js<Slots - 1>
          Axes,         \* axes of a handset
          LowAxes,      \* those whose channel starts at -1 (throttle, switches)
          Full,         \* raw full scale, 32767
          Positions,    \* raw positions a stick can be put in
          Scale,        \* what a channel value of 1.0 is here
          MaxPlugs      \* bound: handsets plugged or unplugged

ASSUME JoystickAssumption ==
    /\ Slots \in Nat
    /\ LowAxes \subseteq Axes
    /\ Full \in Nat \ {0}
    /\ Positions \subseteq -Full .. Full
    /\ Scale \in Nat \ {0}
    /\ MaxPlugs \in Nat

Raw == -Full .. Full
None == -1                      \* no descriptor
Kinds == {"none", "edgetx", "other"}

VARIABLES
  (* the world *)
  device,       \* what is plugged into each slot
  raw,          \* where the sticks of the opened handset are
  queue,        \* per axis, the positions in undelivered events
  file,         \* joystick.cal: [lo, hi] of the axes it has a line for
  (* the process *)
  mode,         \* what main is doing; "off": not running
  errand,       \* what it was started for
  at,           \* scan: next slot to try
  fallback,     \* scan: fallbackFd
  fd,           \* mFd
  plugged,      \* is the device behind the descriptor held still there
  held,         \* descriptors the process holds
  lo, hi,       \* mLo, mHi
  channels,     \* mChannels
  swMin, swMax, \* rawMin, rawMax of the calibration
  cur,          \* its cur
  (* history variables *)
  steady,       \* slots that have held an EdgeTX handset since the scan began
  rest,         \* the pose the sticks were in when the file was written
  plugs         \* handsets plugged or unplugged

world == <<device, raw, queue, file, plugs>>
scan  == <<at, fallback, steady>>
maps  == <<lo, hi, channels>>
sweep == <<swMin, swMax, cur>>
vars  == <<world, mode, errand, scan, fd, plugged, held, maps, sweep, rest>>
-----------------------------------------------------------------------------
(* A raw position on the axis' map, in units of 1/Scale, clamped. *)
Apply(l, h, r) ==
    LET span == h - l
        way  == IF span < 0 THEN -1 ELSE 1
        n    == ((2 * (r - l) - span) * way * Scale) \div (span * way)
    IN  IF span = 0 THEN 0
        ELSE IF n < -Scale THEN -Scale ELSE IF n > Scale THEN Scale ELSE n

DefaultLo == [a \in Axes |-> -Full]
DefaultHi == [a \in Axes |-> Full]
DefaultChannels == [a \in Axes |-> IF a \in LowAxes THEN -Scale ELSE 0]
Drained == [a \in Axes |-> {}]

Init ==
    /\ device \in [0 .. Slots - 1 -> Kinds]
    /\ raw = [a \in Axes |-> 0]
    /\ queue = Drained
    /\ file = << >>
    /\ mode = "off"
    /\ errand = "fly"
    /\ at = 0
    /\ fallback = None
    /\ fd = None
    /\ plugged = FALSE
    /\ held = {}
    /\ lo = DefaultLo
    /\ hi = DefaultHi
    /\ channels = DefaultChannels
    /\ swMin = DefaultHi
    /\ swMax = DefaultLo
    /\ cur = [a \in Axes |-> 0]
    /\ steady = {}
    /\ rest = [a \in Axes |-> 0]
    /\ plugs = 0

(* The process is over: its memory and its descriptors are gone. *)
Gone ==
    /\ mode' = "off"
    /\ errand' = "fly"
    /\ at' = 0 /\ fallback' = None /\ steady' = {}
    /\ fd' = None /\ plugged' = FALSE /\ held' = {}
    /\ raw' = [a \in Axes |-> 0] /\ queue' = Drained
    /\ lo' = DefaultLo /\ hi' = DefaultHi /\ channels' = DefaultChannels
    /\ swMin' = DefaultHi /\ swMax' = DefaultLo /\ cur' = [a \in Axes |-> 0]

EdgeTX == {s \in 0 .. Slots - 1 : device[s] = "edgetx"}

-----------------------------------------------------------------------------
(* Opening *)

(* main starts with a fresh Joystick. *)
Start(e) ==
    /\ mode = "off"
    /\ mode' = "scan"
    /\ errand' = e
    /\ steady' = EdgeTX
    /\ UNCHANGED <<world, at, fallback, fd, plugged, held, maps, sweep, rest>>

(* The kernel greets a reader with one JS_EVENT_INIT event per axis; the mask
   of the readers lets it through. *)
Greeting(pose) == [a \in Axes |-> {pose[a]}]

(* Every axis of the file that parses replaces the default. *)
LoadedLo ==
    [a \in Axes |-> IF a \in DOMAIN file THEN file[a].lo ELSE DefaultLo[a]]
LoadedHi ==
    [a \in Axes |-> IF a \in DOMAIN file THEN file[a].hi ELSE DefaultHi[a]]

(* open() succeeded on slot s, whose handset has its sticks somewhere. *)
Opened(s, pose) ==
    /\ fd' = s
    /\ raw' = pose
    /\ queue' = Greeting(pose)
    /\ at' = 0 /\ fallback' = None
    /\ IF errand = "fly"
       THEN /\ mode' = "fly"
            /\ lo' = LoadedLo
            /\ hi' = LoadedHi
       ELSE /\ mode' = "sweep"
            /\ UNCHANGED <<lo, hi>>
    /\ UNCHANGED <<device, file, plugs, errand, channels, sweep, rest>>

(* No handset: a calibration has nothing to do, a flight takes its sticks
   from the client. *)
NotOpened ==
    \/ /\ errand = "calibrate"
       /\ Gone
       /\ UNCHANGED <<device, file, plugs, rest>>
    \/ /\ errand = "fly"
       /\ mode' = "fly"
       /\ at' = 0
       /\ UNCHANGED <<world, errand, fallback, steady, fd, plugged, held, maps,
                      sweep, rest>>

(* The scan keeps the first joystick while it looks for an EdgeTX handset. *)
SecondLeaks(s) == held \cup {s}                                \* mutant
WithoutSecond(s) == held

TakesFirst(s) == TRUE                                          \* mutant
Preferred(s) == device[s] = "edgetx"

ScanSlot ==
    /\ mode = "scan"
    /\ at < Slots
    /\ \/ /\ device[at] = "none"
          /\ at' = at + 1
          /\ UNCHANGED <<world, mode, errand, fallback, steady, fd, plugged,
                         held, maps, sweep, rest>>
       \/ /\ device[at] # "none"
          /\ Preferred(at)
          /\ held' = {at}
          /\ plugged' = TRUE
          /\ \E pose \in [Axes -> Positions] : Opened(at, pose)
          /\ UNCHANGED steady
       \/ /\ device[at] # "none"
          /\ ~Preferred(at)
          /\ at' = at + 1
          /\ fallback' = IF fallback = None THEN at ELSE fallback
          /\ held' = IF fallback = None THEN {at} ELSE WithoutSecond(at)
          /\ plugged' = (fallback = None \/ plugged)
          /\ UNCHANGED <<world, mode, errand, steady, fd, maps, sweep, rest>>

ScanEnd ==
    /\ mode = "scan"
    /\ at = Slots
    /\ \/ /\ fallback # None
          /\ \E pose \in [Axes -> Positions] : Opened(fallback, pose)
          /\ UNCHANGED <<held, plugged, steady>>
       \/ fallback = None /\ NotOpened

(* --js /dev/input/js<s>: that slot or none. *)
OpenGiven(s) ==
    /\ mode = "scan"
    /\ at = 0
    /\ \/ /\ device[s] # "none"
          /\ held' = {s}
          /\ plugged' = TRUE
          /\ steady' = {}
          /\ \E pose \in [Axes -> Positions] : Opened(s, pose)
       \/ device[s] = "none" /\ NotOpened

-----------------------------------------------------------------------------
(* Flying *)

Reads == fd # None /\ plugged

(* poll(), before every update of the simulation: the newest event of each
   axis counts.  A read from a device that is gone fails at once: the last
   channels stay in force. *)
PollAxis(a) == IF queue[a] = {} THEN channels[a] ELSE Apply(lo[a], hi[a], raw[a])

Poll ==
    /\ mode = "fly"
    /\ Reads
    /\ channels' = [a \in Axes |-> PollAxis(a)]
    /\ queue' = Drained
    /\ UNCHANGED <<device, raw, file, plugs, mode, errand, scan, fd, plugged,
                   held, lo, hi, sweep, rest>>

-----------------------------------------------------------------------------
(* Calibrating *)

CurNow(a) == IF queue[a] = {} THEN cur[a] ELSE raw[a]
MinNow(a) == Min(queue[a] \cup {swMin[a]})
MaxNow(a) == Max(queue[a] \cup {swMax[a]})

(* One drain(): ten seconds of them, then three to settle. *)
Drain ==
    /\ mode \in {"sweep", "settle"}
    /\ Reads
    /\ queue # Drained
    /\ cur' = [a \in Axes |-> CurNow(a)]
    /\ swMin' = [a \in Axes |-> MinNow(a)]
    /\ swMax' = [a \in Axes |-> MaxNow(a)]
    /\ queue' = Drained
    /\ UNCHANGED <<device, raw, file, plugs, mode, errand, scan, fd, plugged,
                   held, maps, rest>>

SweepOver ==
    /\ mode = "sweep"
    /\ mode' = "settle"
    /\ UNCHANGED <<world, errand, scan, fd, plugged, held, maps, sweep, rest>>

(* An axis that never moved gets the full range; lo is the end the resting
   stick is nearer to, the lower one on a tie. *)
Abs(n) == IF n < 0 THEN -n ELSE n
AlwaysUpright(l, h, r) == [lo |-> l, hi |-> h]                 \* mutant
Oriented(l, h, r) == IF Abs(r - l) <= Abs(r - h) THEN [lo |-> l, hi |-> h]
                                                 ELSE [lo |-> h, hi |-> l]
Line(a) == IF swMax[a] <= swMin[a] THEN Oriented(-Full, Full, cur[a])
                                   ELSE Oriented(swMin[a], swMax[a], cur[a])

(* The resting pose is read and the file opened for writing, which empties
   it; or it cannot be opened, not even in a new directory. *)
Record ==
    /\ mode = "settle"
    /\ queue = Drained \/ ~Reads
    /\ rest' = IF plugged THEN raw ELSE cur
    /\ lo' = [a \in Axes |-> Line(a).lo]
    /\ hi' = [a \in Axes |-> Line(a).hi]
    /\ file' = << >>
    /\ mode' = "write"
    /\ UNCHANGED <<device, raw, queue, plugs, errand, scan, fd, plugged, held,
                   channels, sweep>>

RecordFails ==
    /\ mode = "settle"
    /\ Gone
    /\ UNCHANGED <<device, file, plugs, rest>>

Save ==
    /\ mode = "write"
    /\ file' = [a \in Axes |-> [lo |-> lo[a], hi |-> hi[a]]]
    /\ Gone
    /\ UNCHANGED <<device, plugs, rest>>

-----------------------------------------------------------------------------
(* The world *)

(* The process ends or is killed, wherever it is. *)
Exit ==
    /\ mode # "off"
    /\ Gone
    /\ UNCHANGED <<device, file, plugs, rest>>

MoveStick(a, r) ==
    /\ Reads
    /\ r # raw[a]
    /\ raw' = [raw EXCEPT ![a] = r]
    /\ queue' = [queue EXCEPT ![a] = @ \cup {r}]
    /\ UNCHANGED <<device, file, plugs, mode, errand, scan, fd, plugged, held,
                   maps, sweep, rest>>

(* A handset appears in an empty slot or leaves its slot; a descriptor of a
   device that left never comes back to life. *)
Plug(s, k) ==
    /\ plugs < MaxPlugs
    /\ (device[s] = "none") # (k = "none")
    /\ plugs' = plugs + 1
    /\ device' = [device EXCEPT ![s] = k]
    /\ steady' = IF mode = "scan" THEN steady \ {s} ELSE steady
    /\ plugged' = (plugged /\ s \notin held)
    /\ queue' = IF s = fd THEN Drained ELSE queue
    /\ UNCHANGED <<raw, file, mode, errand, at, fallback, fd, held, maps, sweep,
                   rest>>

Next ==
    \/ \E e \in {"fly", "calibrate"} : Start(e)
    \/ ScanSlot
    \/ ScanEnd
    \/ \E s \in 0 .. Slots - 1 : OpenGiven(s)
    \/ Poll
    \/ Drain
    \/ SweepOver
    \/ Record
    \/ RecordFails
    \/ Save
    \/ Exit
    \/ \E a \in Axes, r \in Positions : MoveStick(a, r)
    \/ \E s \in 0 .. Slots - 1, k \in Kinds : Plug(s, k)

Spec == Init /\ [][Next]_vars
-----------------------------------------------------------------------------
TypeOK ==
    /\ device \in [0 .. Slots - 1 -> Kinds]
    /\ raw \in [Axes -> Raw]
    /\ queue \in [Axes -> SUBSET Raw]
    /\ file = << >> \/ file \in [Axes -> [lo : Raw, hi : Raw]]
    /\ mode \in {"off", "scan", "fly", "sweep", "settle", "write"}
    /\ errand \in {"fly", "calibrate"}
    /\ at \in 0 .. Slots
    /\ {fallback, fd} \subseteq {None} \cup (0 .. Slots - 1)
    /\ plugged \in BOOLEAN
    /\ held \subseteq 0 .. Slots - 1
    /\ lo \in [Axes -> Raw] /\ hi \in [Axes -> Raw]
    /\ channels \in [Axes -> -Scale .. Scale]
    /\ swMin \in [Axes -> Raw] /\ swMax \in [Axes -> Raw] /\ cur \in [Axes -> Raw]
    /\ steady \subseteq 0 .. Slots - 1
    /\ rest \in [Axes -> Raw]
    /\ plugs \in 0 .. MaxPlugs

(* One descriptor: the scan holds at most the first joystick it saw, and once
   it is over the process holds exactly the handset it reads. *)
OneDescriptor ==
    held = IF fd # None THEN {fd}
           ELSE IF mode = "scan" /\ fallback # None THEN {fallback} ELSE {}

(* Another joystick is read only if no slot held an EdgeTX handset for as
   long as the scan ran, however handsets come and go meanwhile. *)
PrefersHandset ==
    (fd # None /\ plugged /\ device[fd] # "edgetx") => steady = {}

(* "Throttle-down and disarmed switches now map to -1": in a later process
   that loaded the calibration, a stick put back where it rested when the
   file was written reads on the low half, and at -1 if it rested at an end
   of its range; and it reads so without having to be moved. *)
RestReadsLow ==
    (mode = "fly" /\ Reads /\ queue = Drained) =>
        \A a \in Axes \cap DOMAIN file :
            raw[a] = rest[a] =>
                /\ channels[a] <= 0
                /\ rest[a] \in {file[a].lo, file[a].hi} => channels[a] = -Scale
=============================================================================
