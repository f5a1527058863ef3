------------------------ MODULE FirmwareConfigProofs ------------------------
(***************************************************************************)
(* Proofs about the configuration's life, for any tunes and any limit on   *)
(* open files.                                                             *)
(***************************************************************************)
EXTENDS FirmwareConfig, FiniteSetTheorems, TLAPS

LEMMA LimitIsNat == MaxFiles \in Nat /\ MaxFiles >= 1 /\ MaxResets \in Nat
BY ConfigAssumption

LEMMA JunkIsNoConfig == Junk \notin Configs /\ Absent \notin Configs /\ Junk # Absent
BY ConfigAssumption

LEMMA DefaultsAreConfig == Defaults \in Configs
BY ConfigAssumption DEF Defaults, Configs

-----------------------------------------------------------------------------
(* Types.  What is loaded is a configuration; before, nothing is open. *)

Fresh == pc \in {"down", "boot"}

Loaded ==
    IF Fresh
    THEN image = Junk /\ fd = 0 /\ open = {} /\ ~armed
    ELSE {file, image, snap.image} \subseteq Configs

Flags == cliMode \in BOOLEAN /\ blocked \in BOOLEAN /\ armed \in BOOLEAN

Types ==
    /\ file \in Configs \cup {Junk, Absent}
    /\ pc \in {"boot", "reboot", "rewound", "down", "run", "write"}
    /\ image \in Configs \cup {Junk}
    /\ snap \in [image : Configs \cup {Junk}, fd : 0 .. MaxFiles]
    /\ fd \in 0 .. MaxFiles
    /\ open \in SUBSET (1 .. MaxFiles)
    /\ ram \in Configs
    /\ Flags
    /\ batch \in {"off", "on", "error"}
    /\ resets \in 0 .. MaxResets

Typed == Types /\ Loaded

LEMMA TypedInit == Init => Typed
<1> SUFFICES ASSUME Init PROVE Typed
  OBVIOUS
<1> USE LimitIsNat, DefaultsAreConfig DEF Init
<1>1. 0 \in 0 .. MaxFiles /\ resets \in 0 .. MaxResets OBVIOUS
<1>2. snap \in [image : Configs \cup {Junk}, fd : 0 .. MaxFiles]
  BY <1>1
<1>3. ram \in Configs OBVIOUS
<1>4. Types BY <1>1, <1>2, <1>3 DEF Types, Flags
<1>5. Loaded BY DEF Loaded, Fresh
<1> QED BY <1>4, <1>5 DEF Typed

\* Whichever FILE fopen returns, it was not open, and eepromFd names it.
LEMMA Reopened ==
    ASSUME Typed, Reopen
    PROVE  /\ fd' \in 0 .. MaxFiles
           /\ open' \in SUBSET (1 .. MaxFiles)
           /\ fd' # 0 => fd' \in open'
           /\ fd' \notin Closed
           /\ Free # {} => fd' # 0
           /\ open' \ {fd'} = Closed
<1> USE LimitIsNat
<1>1. Closed \in SUBSET (1 .. MaxFiles) BY DEF Closed, Typed, Types
<1>2. 0 \notin Closed BY <1>1
<1>3. CASE Free = {}
  <2>1. fd' = 0 BY <1>3 DEF Reopen, Fopen
  <2>2. open' = Closed BY <2>1 DEF Reopen
  <2> QED BY <1>1, <1>2, <1>3, <2>1, <2>2
<1>4. CASE Free # {}
  <2>1. fd' \in (1 .. MaxFiles) \ Closed BY <1>4 DEF Reopen, Fopen, Free
  <2>2. fd' # 0 BY <2>1
  <2>3. open' = Closed \cup {fd'} BY <2>2 DEF Reopen
  <2> QED BY <1>1, <2>1, <2>2, <2>3
<1> QED BY <1>3, <1>4

\* What a start leaves behind, from whichever state.
LEMMA LoadTypes ==
    ASSUME Typed, Load, pc \in Starting
    PROVE  /\ file' \in Configs
           /\ image' \in Configs
           /\ fd' \in 0 .. MaxFiles
           /\ open' \in SUBSET (1 .. MaxFiles)
<1> USE LimitIsNat, JunkIsNoConfig, DefaultsAreConfig
<1>1. Closed \in SUBSET (1 .. MaxFiles) BY DEF Closed, Typed, Types
<1>2. Reopen => fd' \in 0 .. MaxFiles /\ open' \in SUBSET (1 .. MaxFiles)
  BY Reopened
<1>4. CASE Fresh
  <2>1. Closed = {} BY <1>4 DEF Loaded, Typed, Closed
  <2>2. 1 \in Free BY <2>1 DEF Free
  <2>3. Free # {} BY <2>2
  <2>4. CASE ReadBack \in Configs
    <3>0. ReadBack # Junk BY <2>4
    <3>1. ReadBack = file
      BY <3>0, <2>3, <1>4 DEF ReadBack, Loaded, Typed
    <3>2. file \in Configs /\ file # Absent BY <3>1, <2>4
    <3> QED BY <3>1, <3>2, <2>3, <2>4, <1>2 DEF Load
  <2>5. CASE ReadBack \notin Configs
    <3>1. image' = Defaults /\ file' = Stored /\ fd' = 0 /\ open' = Closed
      BY <2>5 DEF Load
    <3>2. Stored = Defaults BY <2>3 DEF Stored
    <3> QED BY <3>1, <3>2, <1>1
  <2> QED BY <2>4, <2>5
<1>5. CASE ~Fresh
  <2>1. file \in Configs /\ image \in Configs /\ file # Absent
    BY <1>5 DEF Loaded, Typed
  <2>2. ReadBack \in Configs BY <2>1 DEF ReadBack
  <2> QED BY <2>1, <2>2, <1>2 DEF Load
<1> QED BY <1>4, <1>5

LEMMA WriteTypes ==
    ASSUME Typed, WriteEEPROM, ram' \in Configs
    PROVE  /\ image' \in Configs
           /\ fd' \in 0 .. MaxFiles
           /\ open' \in SUBSET (1 .. MaxFiles)
           /\ pc' = "write"
BY Reopened DEF WriteEEPROM

LEMMA PinsIsConfig == ASSUME NEW c \in Configs PROVE Pins(c) \in Configs /\ Pins(c).pinned
BY DEF Pins, Configs

\* The starts share what Load leaves behind.
LEMMA StartTyped ==
    ASSUME Typed, FirstBoot \/ Reboot \/ BootRewound
    PROVE  Typed'
<1>1. Load /\ pc \in Starting /\ pc' = "run"
  BY DEF FirstBoot, Reboot, BootRewound, Starting
<1>2. /\ file' \in Configs /\ image' \in Configs
      /\ fd' \in 0 .. MaxFiles /\ open' \in SUBSET (1 .. MaxFiles)
  BY <1>1, LoadTypes
<1>3. ram' \in Configs
  BY <1>2, PinsIsConfig DEF FirstBoot, Reboot, BootRewound
<1>4. snap' = snap \/ snap' = [image |-> image', fd |-> fd']
  BY DEF FirstBoot, Reboot, BootRewound
<1>5. snap' \in [image : Configs \cup {Junk}, fd : 0 .. MaxFiles]
  BY <1>2, <1>4 DEF Typed, Types
<1>6. snap'.image \in Configs
  <2>1. CASE FirstBoot
    <3>1. snap' = [image |-> image', fd |-> fd'] BY <2>1 DEF FirstBoot
    <3> QED BY <3>1, <1>2
  <2>2. CASE Reboot \/ BootRewound
    <3>1. snap' = snap /\ ~Fresh BY <2>2 DEF Reboot, BootRewound, Fresh
    <3> QED BY <3>1 DEF Typed, Loaded
  <2> QED BY <2>1, <2>2
<1>7. UNCHANGED <<cli, armed, resets>>
  BY DEF FirstBoot, Reboot, BootRewound
<1>8. Types' BY <1>1, <1>2, <1>3, <1>5, <1>7 DEF Typed, Types, Flags, cli
<1>9. ~Fresh' BY <1>1 DEF Fresh
<1> QED BY <1>2, <1>6, <1>8, <1>9 DEF Typed, Loaded

LEMMA TypedNext == Typed /\ [Next]_vars => Typed'
<1> SUFFICES ASSUME Typed, [Next]_vars PROVE Typed'
  OBVIOUS
<1> USE LimitIsNat
<1>1. CASE Start
  BY <1>1 DEF Start, Typed, Types, Flags, Loaded, Fresh, flash, cli
<1>2. CASE FirstBoot \/ Reboot \/ BootRewound
  BY <1>2, StartTyped
<1>3. CASE Rewind
  <2>1. /\ snap.image \in Configs /\ file \in Configs
        /\ snap.fd \in 0 .. MaxFiles
    BY <1>3 DEF Rewind, Typed, Types, Loaded, Fresh
  <2>a. resets' \in 0 .. MaxResets BY <1>3 DEF Rewind, Typed, Types
  <2>b. Flags' BY <1>3, Zenon DEF Rewind, Flags
  <2>2. Types' BY <1>3, <2>1, <2>a, <2>b DEF Rewind, Typed, Types
  <2>3. Loaded' BY <1>3, <2>1 DEF Rewind, Loaded, Fresh
  <2> QED BY <2>2, <2>3 DEF Typed
<1>4. CASE Kill
  <2>1. file' \in Configs \cup {Junk, Absent}
    BY <1>4 DEF Kill, Typed, Types
  <2>a. resets' \in 0 .. MaxResets /\ fd' \in 0 .. MaxFiles
    BY <1>4 DEF Kill
  <2>b. Flags' BY <1>4, Zenon DEF Kill, Flags
  <2>2. Types' BY <1>4, <2>1, <2>a, <2>b DEF Kill, Typed, Types
  <2>3. Loaded' BY <1>4 DEF Kill, Loaded, Fresh
  <2> QED BY <2>2, <2>3 DEF Typed
<1>5. CASE CliEnter
  BY <1>5 DEF CliEnter, Typed, Types, Flags, Loaded, Fresh, flash
<1>6. CASE Rejected \/ \E start \in BOOLEAN : Batch(start)
  <2>1. UNCHANGED <<flash, cliMode, blocked, pc, ram, armed, snap, resets>>
    BY <1>6 DEF Rejected, Batch
  <2>2. batch' \in {"off", "on", "error"}
    BY <1>6 DEF Rejected, Batch, Typed, Types
  <2> QED BY <2>1, <2>2 DEF Typed, Types, Flags, Loaded, Fresh, flash
<1>7. ASSUME NEW c \in Configs, Edit(c) PROVE Typed'
  BY <1>7 DEF Edit, Typed, Types, Flags, Loaded, Fresh, flash, cli
<1>8. CASE Save \/ \E nosave \in BOOLEAN : CliDefaults(nosave)
  <2>1. /\ ram' \in Configs
        /\ batch' \in {"off", "on", "error"}
        /\ UNCHANGED <<file, cliMode, blocked, armed, snap, resets>>
        /\ pc = "run"
    BY <1>8, DefaultsAreConfig DEF Save, CliDefaults, InCli, Typed, Types
  <2>2. WriteEEPROM \/ UNCHANGED <<pc, fd, open, image>>
    BY <1>8 DEF Save, CliDefaults
  <2>3. /\ image' \in Configs
        /\ fd' \in 0 .. MaxFiles /\ open' \in SUBSET (1 .. MaxFiles)
        /\ pc' \in {"run", "write"}
    BY <2>1, <2>2, WriteTypes DEF Typed, Types, Loaded, Fresh
  <2>4. Types' BY <2>1, <2>3 DEF Typed, Types, Flags
  <2>5. Loaded' BY <2>1, <2>3 DEF Typed, Loaded, Fresh
  <2> QED BY <2>4, <2>5 DEF Typed
<1>9. CASE FlashLock
  <2>1. file' \in Configs BY <1>9 DEF FlashLock, Typed, Loaded, Fresh
  <2>2. Types' BY <1>9, <2>1 DEF FlashLock, FdAfterLock, Typed, Types, Flags, cli
  <2>3. Loaded' BY <1>9, <2>1 DEF FlashLock, Typed, Loaded, Fresh
  <2> QED BY <2>2, <2>3 DEF Typed
<1>10. CASE CliExit
  <2>1. Flags'
    BY <1>10, Zenon DEF CliExit, StaysBlocked, Flags, Typed, Types
  <2>2. Types' BY <1>10, <2>1 DEF CliExit, Typed, Types, flash
  <2>3. Loaded' BY <1>10 DEF CliExit, InCli, Typed, Loaded, Fresh, flash
  <2> QED BY <2>2, <2>3 DEF Typed
<1>11. CASE Arm
  <2>1. Flags' BY <1>11, Zenon DEF Arm, Flags, Typed, Types, cli
  <2>2. Types' BY <1>11, <2>1 DEF Arm, Typed, Types, flash, cli
  <2>3. Loaded' BY <1>11 DEF Arm, Typed, Loaded, Fresh, flash
  <2> QED BY <2>2, <2>3 DEF Typed
<1>12. CASE UNCHANGED vars
  BY <1>12 DEF vars, flash, cli, Typed, Types, Flags, Loaded, Fresh
<1> QED
  BY <1>1, <1>2, <1>3, <1>4, <1>5, <1>6, <1>7, <1>8, <1>9, <1>10, <1>11, <1>12
     DEF Next

(* Every reachable state is well typed, with the firmware's configuration
   loaded from a file whenever it runs. *)
THEOREM ConfigTyped == Spec => []Typed
BY TypedInit, TypedNext, PTL DEF Spec

(* Every record, file handle and image keeps to its kind, and a running
   firmware always has a configuration on disk. *)
THEOREM ConfigTypes == Spec => []TypeOK
<1>1. Typed => TypeOK
  BY DEF Typed, Types, Flags, Loaded, Fresh, TypeOK, Starting
<1> QED BY <1>1, ConfigTyped, PTL

-----------------------------------------------------------------------------
(* The interlock.  The pins may be missing only while the CLI's block holds. *)

Interlock ==
    /\ cliMode => blocked
    /\ pc \in {"write", "reboot"} => blocked
    /\ pc = "run" /\ ~blocked => ram.pinned
    /\ armed => pc = "run" /\ ~blocked

LEMMA InterlockNext == Typed /\ Interlock /\ [Next]_vars => Interlock'
<1> SUFFICES ASSUME Typed, Interlock, [Next]_vars PROVE Interlock'
  OBVIOUS
<1> USE DEF Interlock
<1>1. CASE Start BY <1>1 DEF Start, flash, cli
<1>2. CASE FirstBoot \/ BootRewound
  <2>1. image' \in Configs
    BY <1>2, LoadTypes DEF FirstBoot, BootRewound, Starting
  <2>2. ram'.pinned
    BY <1>2, <2>1, PinsIsConfig DEF FirstBoot, BootRewound
  <2> QED BY <1>2, <2>2 DEF FirstBoot, BootRewound, cli
<1>3. CASE Reboot BY <1>3 DEF Reboot, cli
<1>4. CASE Rewind BY <1>4 DEF Rewind
<1>5. CASE Kill BY <1>5 DEF Kill
<1>6. CASE CliEnter BY <1>6 DEF CliEnter, flash
<1>7. CASE Rejected \/ \E start \in BOOLEAN : Batch(start)
  BY <1>7 DEF Rejected, Batch, flash
<1>8. ASSUME NEW c \in Configs, Edit(c) PROVE Interlock'
  BY <1>8 DEF Edit, InCli, flash, cli
<1>9. CASE Save \/ \E nosave \in BOOLEAN : CliDefaults(nosave)
  <2>1. InCli /\ UNCHANGED <<cliMode, blocked, armed>>
    BY <1>9 DEF Save, CliDefaults
  <2>2. pc' \in {"run", "write"}
    BY <1>9 DEF Save, CliDefaults, WriteEEPROM, InCli
  <2> QED BY <2>1, <2>2 DEF InCli
<1>10. CASE FlashLock BY <1>10 DEF FlashLock, cli
<1>11. CASE CliExit BY <1>11 DEF CliExit, StaysBlocked, InCli, flash
<1>12. CASE Arm BY <1>12 DEF Arm, flash, cli
<1>13. CASE UNCHANGED vars BY <1>13 DEF vars, flash, cli
<1> QED
  BY <1>1, <1>2, <1>3, <1>4, <1>5, <1>6, <1>7, <1>8, <1>9, <1>10, <1>11,
     <1>12, <1>13 DEF Next

(* No CLI session, whatever it edits, saves or discards, ends in a quad armed
   with another switch layout than bf.cpp's: the block outlives the session. *)
THEOREM PinnedWhenArmed == Spec => []ArmedIsPinned
<1>1. Init => Interlock BY DEF Init, Interlock
<1>2. Interlock => ArmedIsPinned BY DEF Interlock, ArmedIsPinned
<1> QED BY <1>1, <1>2, InterlockNext, ConfigTyped, PTL DEF Spec

(* Neither `exit` nor the in-process reboot lifts ARMING_DISABLED_CLI. *)
THEOREM BlockStays == Spec => OnlyRewindUnblocks
<1>1. [Next]_vars => (blocked /\ ~blocked' => pc' \in {"rewound", "down"})
  <2> SUFFICES ASSUME [Next]_vars, blocked, ~blocked'
               PROVE  pc' \in {"rewound", "down"}
    OBVIOUS
  <2>1. Rewind \/ Kill
    BY DEF Next, Start, FirstBoot, Reboot, BootRewound, CliEnter, Rejected,
           Save, FlashLock, CliExit, StaysBlocked, Edit, Batch, CliDefaults,
           Arm, vars, cli
  <2> QED BY <2>1 DEF Rewind, Kill
<1> QED BY <1>1, PTL DEF Spec, OnlyRewindUnblocks

-----------------------------------------------------------------------------
(* eepromFd.  FLASH_Unlock replaces whatever it finds there. *)

\* Whatever a start does, it either opens the file or leaves it closed.
LEMMA LoadHandle ==
    ASSUME Load
    PROVE  Reopen \/ (fd' = 0 /\ open' = Closed)
BY DEF Load

LEMMA HandleNext == Typed /\ OnlyResetsDangle /\ [Next]_vars => OnlyResetsDangle'
<1> SUFFICES ASSUME Typed, OnlyResetsDangle, [Next]_vars PROVE OnlyResetsDangle'
  OBVIOUS
<1> USE DEF OnlyResetsDangle
<1>1. CASE FirstBoot \/ Reboot \/ BootRewound
  <2>1. Load BY <1>1 DEF FirstBoot, Reboot, BootRewound
  <2> QED BY <2>1, LoadHandle, Reopened DEF FdIsOpen
<1>2. CASE Rewind BY <1>2 DEF Rewind
<1>3. CASE Save \/ \E nosave \in BOOLEAN : CliDefaults(nosave)
  <2>1. /\ WriteEEPROM \/ UNCHANGED <<pc, fd, open, image>>
        /\ pc = "run"
    BY <1>3 DEF Save, CliDefaults, InCli
  <2>2. CASE WriteEEPROM BY <2>2, Reopened DEF WriteEEPROM, FdIsOpen
  <2> QED BY <2>1, <2>2 DEF FdIsOpen
<1>4. CASE FlashLock BY <1>4 DEF FlashLock, FdAfterLock, FdIsOpen
<1>5. CASE Kill BY <1>5 DEF Kill, FdIsOpen
<1>6. CASE \/ Start \/ CliEnter \/ Rejected \/ CliExit \/ Arm \/ UNCHANGED vars
           \/ (\E c \in Configs : Edit(c))
           \/ (\E start \in BOOLEAN : Batch(start))
  <2>1. UNCHANGED <<fd, open>> /\ (pc = "rewound" => pc' = pc)
    BY <1>6 DEF Start, CliEnter, Rejected, CliExit, Arm, Edit, Batch, InCli,
                vars, flash
  <2> QED BY <2>1 DEF FdIsOpen
<1> QED BY <1>1, <1>2, <1>3, <1>4, <1>5, <1>6 DEF Next

(* A reset may bring back an eepromFd whose FILE is closed, and no other step
   can: whatever addresses fopen hands out, the FLASH_Unlock of the reset's own
   init meets it, and every save writes through an open FILE. *)
THEOREM HandleIsReplaced == Spec => []OnlyResetsDangle
<1>1. Init => OnlyResetsDangle BY DEF Init, OnlyResetsDangle, FdIsOpen
<1> QED BY <1>1, HandleNext, ConfigTyped, PTL DEF Spec

-----------------------------------------------------------------------------
(* Leaked FILEs: what a rewind forgot.  One each, so a process that resets   *)
(* fewer times than it may open files always finds one more to open.         *)

Leaks == Cardinality(Closed) <= resets

LEMMA ClosedFinite ==
    ASSUME Typed
    PROVE  IsFiniteSet(open) /\ IsFiniteSet(Closed) /\ Cardinality(Closed) \in Nat
<1>1. IsFiniteSet(1 .. MaxFiles) BY LimitIsNat, FS_Interval
<1>2. open \in SUBSET (1 .. MaxFiles) BY DEF Typed, Types
<1>3. IsFiniteSet(open) BY <1>1, <1>2, FS_Subset
<1>4. Closed \in SUBSET open BY DEF Closed
<1>5. IsFiniteSet(Closed) BY <1>3, <1>4, FS_Subset
<1> QED BY <1>3, <1>5, FS_CardinalityType

\* Opening and closing eepromFd leaks nothing.
LEMMA NoLeak ==
    ASSUME Typed,
           \/ Reopen
           \/ fd' = 0 /\ open' = Closed
           \/ UNCHANGED <<fd, open>>
    PROVE  Closed' = Closed
<1>1. 0 \notin open BY LimitIsNat DEF Typed, Types
<1>2. 0 \notin Closed BY <1>1 DEF Closed
<1>3. CASE Reopen
  <2>1. open' \ {fd'} = Closed BY <1>3, Reopened
  <2> QED BY <2>1 DEF Closed
<1>4. CASE fd' = 0 /\ open' = Closed BY <1>2, <1>4 DEF Closed
<1>5. CASE UNCHANGED <<fd, open>> BY <1>5 DEF Closed
<1> QED BY <1>3, <1>4, <1>5

\* A rewind leaks at most the FILE that was in use.
LEMMA RewindLeaks ==
    ASSUME Typed, open' = open
    PROVE  /\ Cardinality(Closed') <= Cardinality(Closed) + 1
           /\ Cardinality(Closed') \in Nat
<1>1. Closed' \in SUBSET (Closed \cup {fd}) BY DEF Closed
<1>2. /\ IsFiniteSet(Closed \cup {fd})
      /\ Cardinality(Closed \cup {fd}) <= Cardinality(Closed) + 1
  <2>1. IsFiniteSet(Closed) /\ Cardinality(Closed) \in Nat BY ClosedFinite
  <2>2. /\ IsFiniteSet(Closed \cup {fd})
        /\ Cardinality(Closed \cup {fd}) = IF fd \in Closed THEN Cardinality(Closed)
                                          ELSE Cardinality(Closed) + 1
    BY <2>1, FS_AddElement
  <2> HIDE DEF Closed
  <2> QED BY <2>1, <2>2
<1>3. /\ Cardinality(Closed') <= Cardinality(Closed \cup {fd})
      /\ IsFiniteSet(Closed')
  BY <1>1, <1>2, FS_Subset
<1>4. Cardinality(Closed') \in Nat /\ Cardinality(Closed \cup {fd}) \in Nat
  BY <1>2, <1>3, FS_CardinalityType
<1> QED BY <1>2, <1>3, <1>4, ClosedFinite

LEMMA LeaksNext == Typed /\ Leaks /\ [Next]_vars => Leaks'
<1> SUFFICES ASSUME Typed, Leaks, [Next]_vars PROVE Leaks'
  OBVIOUS
<1>1. CASE Rewind
  <2>1. open' = open /\ resets' = resets + 1 BY <1>1 DEF Rewind
  <2>2. /\ Cardinality(Closed') <= Cardinality(Closed) + 1
        /\ Cardinality(Closed') \in Nat
    BY <2>1, RewindLeaks
  <2> QED BY <2>1, <2>2, ClosedFinite DEF Leaks, Typed, Types
<1>2. CASE Kill
  <2>1. Closed' = {} /\ resets' = 0 BY <1>2 DEF Kill, Closed
  <2> QED BY <2>1, FS_EmptySet DEF Leaks
<1>3. ASSUME Closed' = Closed, resets' = resets PROVE Leaks'
  BY <1>3 DEF Leaks
<1>4. CASE FirstBoot \/ Reboot \/ BootRewound
  <2>1. Load /\ resets' = resets
    BY <1>4 DEF FirstBoot, Reboot, BootRewound
  <2> QED BY <2>1, LoadHandle, NoLeak, <1>3
<1>5. CASE Save \/ \E nosave \in BOOLEAN : CliDefaults(nosave)
  <2>1. /\ Reopen \/ UNCHANGED <<fd, open>>
        /\ resets' = resets
    BY <1>5 DEF Save, CliDefaults, WriteEEPROM
  <2> QED BY <2>1, NoLeak, <1>3
<1>6. CASE FlashLock
  <2>1. fd' = 0 /\ open' = Closed /\ resets' = resets
    BY <1>6 DEF FlashLock, FdAfterLock, Closed
  <2> QED BY <2>1, NoLeak, <1>3
<1>7. CASE \/ Start \/ CliEnter \/ Rejected \/ CliExit \/ Arm \/ UNCHANGED vars
           \/ (\E c \in Configs : Edit(c))
           \/ (\E start \in BOOLEAN : Batch(start))
  <2>1. UNCHANGED <<fd, open>> /\ resets' = resets
    BY <1>7 DEF Start, CliEnter, Rejected, CliExit, Arm, Edit, Batch, vars, flash
  <2> QED BY <2>1, NoLeak, <1>3
<1> QED BY <1>1, <1>2, <1>4, <1>5, <1>6, <1>7 DEF Next

\* So there is always a FILE to open.
LEMMA OneIsFree ==
    ASSUME Typed, Leaks, MaxResets < MaxFiles
    PROVE  Free # {}
<1> SUFFICES ASSUME Free = {} PROVE FALSE
  OBVIOUS
<1>1. Closed \in SUBSET (1 .. MaxFiles) BY DEF Closed, Typed, Types
<1>2. Closed = 1 .. MaxFiles BY <1>1 DEF Free
<1>3. Cardinality(1 .. MaxFiles) = MaxFiles BY LimitIsNat, FS_Interval
<1> QED BY <1>2, <1>3, LimitIsNat DEF Leaks, Typed, Types

\* A start that can open the file flies what is in it.
LEMMA StartFlies ==
    ASSUME Typed, Leaks, MaxResets < MaxFiles, FirstBoot \/ Reboot \/ BootRewound
    PROVE  FliesSavedTune'
<1>1. Load /\ (ram' = image' \/ ram' = Pins(image')) /\ pc \in Starting
  BY DEF FirstBoot, Reboot, BootRewound, Starting
<1>2. Free # {} BY OneIsFree
<1>3. file' \in Configs /\ image' \in Configs BY <1>1, LoadTypes
<1>4. image' = file'
  <2>1. CASE ReadBack \in Configs BY <1>1, <1>2, <2>1 DEF Load, ReadBack
  <2>2. CASE ReadBack \notin Configs BY <1>1, <1>2, <2>2 DEF Load, Stored
  <2> QED BY <2>1, <2>2
<1>5. ram'.tune = image'.tune BY <1>1, <1>3 DEF Pins, Configs
<1> QED BY <1>3, <1>4, <1>5 DEF FliesSavedTune

LEMMA LeaksInit == Init => Leaks
<1> SUFFICES ASSUME Init PROVE Leaks
  OBVIOUS
<1>1. Closed = {} /\ resets = 0 BY DEF Init, Closed
<1> QED BY <1>1, FS_EmptySet DEF Leaks

(* Every start flies the tune on disk, as long as the process was reset fewer
   times than it may open files: with as many resets as files fopen fails, and
   a start flies the image the rewind brought back. *)
THEOREM SavedTuneFlies == ASSUME MaxResets < MaxFiles PROVE Spec => StartsFlySavedTune
<1>1. Typed /\ Leaks /\ [Next]_vars =>
        ((pc \in Starting /\ pc' = "run") => FliesSavedTune')
  <2> SUFFICES ASSUME Typed, Leaks, [Next]_vars, pc \in Starting, pc' = "run"
               PROVE  FliesSavedTune'
    OBVIOUS
  <2>1. FirstBoot \/ Reboot \/ BootRewound
    BY DEF Next, Start, Rewind, Kill, CliEnter, Rejected, Save, FlashLock,
           CliExit, Edit, Batch, CliDefaults, Arm, InCli, Starting, vars
  <2> QED BY <2>1, StartFlies
<1> QED
  BY <1>1, LeaksInit, LeaksNext, TypedInit, TypedNext, PTL
     DEF Spec, StartsFlySavedTune

\* Only the CLI takes the tune in RAM away from the one on disk.
Unspoilt == pc = "run" /\ ~blocked => FliesSavedTune

LEMMA UnspoiltNext ==
    ASSUME MaxResets < MaxFiles
    PROVE  Typed /\ Leaks /\ Interlock /\ Unspoilt /\ [Next]_vars => Unspoilt'
<1> SUFFICES ASSUME Typed, Leaks, Interlock, Unspoilt, [Next]_vars,
                    pc' = "run", ~blocked'
             PROVE  FliesSavedTune'
  BY DEF Unspoilt
<1>1. CASE FirstBoot \/ Reboot \/ BootRewound BY <1>1, StartFlies
<1>2. CASE Rejected \/ Arm \/ UNCHANGED vars \/ \E start \in BOOLEAN : Batch(start)
  <2>1. UNCHANGED <<file, ram, pc, blocked>>
    BY <1>2 DEF Rejected, Arm, Batch, vars, flash, cli
  <2> QED BY <2>1 DEF Unspoilt, FliesSavedTune
<1>3. CASE \/ Save \/ \E nosave \in BOOLEAN : CliDefaults(nosave)
           \/ \E c \in Configs : Edit(c)
  <2>1. cliMode /\ blocked' = blocked
    BY <1>3 DEF Save, CliDefaults, Edit, InCli, cli
  <2> QED BY <2>1 DEF Interlock
<1>4. CASE Start \/ Rewind \/ Kill \/ CliEnter \/ FlashLock \/ CliExit
  BY <1>4 DEF Start, Rewind, Kill, CliEnter, FlashLock, CliExit
<1> QED BY <1>1, <1>2, <1>3, <1>4 DEF Next

(* An armed quad flies the tune on disk, whatever a session edited, saved,
   failed to save or left behind, under the same limit on resets. *)
THEOREM SavedTuneWhileArmed == ASSUME MaxResets < MaxFiles PROVE Spec => []ArmedFliesSaved
<1>1. Init => Interlock /\ Unspoilt BY DEF Init, Interlock, Unspoilt
<1>2. Interlock /\ Unspoilt => ArmedFliesSaved
  BY DEF Interlock, Unspoilt, ArmedFliesSaved
<1> QED
  BY <1>1, <1>2, UnspoiltNext, InterlockNext, LeaksInit, LeaksNext, TypedInit,
     TypedNext, PTL DEF Spec
-----------------------------------------------------------------------------
(* The contract.  What is being written is what was in force at `save`, and  *)
(* there is a FILE to write it to.                                           *)

Writing == pc = "write" => image = ram /\ fd # 0

LEMMA WritingNext ==
    ASSUME MaxResets < MaxFiles
    PROVE  Typed /\ Leaks /\ Writing /\ [Next]_vars => Writing'
<1> SUFFICES ASSUME Typed, Leaks, Writing, [Next]_vars, pc' = "write"
             PROVE  image' = ram' /\ fd' # 0
  BY DEF Writing
<1>1. CASE Save \/ \E nosave \in BOOLEAN : CliDefaults(nosave)
  <2>1. WriteEEPROM
    BY <1>1 DEF Save, CliDefaults, InCli
  <2>2. Free # {} BY OneIsFree
  <2>3. fd' # 0 BY <2>1, <2>2, Reopened DEF WriteEEPROM
  <2> QED BY <2>1, <2>3 DEF WriteEEPROM
<1>2. CASE UNCHANGED vars
  BY <1>2 DEF vars, flash, Writing
<1> QED
  BY <1>1, <1>2
     DEF Next, Start, FirstBoot, Reboot, Rewind, BootRewound, Kill, CliEnter,
         Rejected, Edit, Batch, FlashLock, CliExit, Arm, InCli

Disk == IF file \in Configs THEN {file.tune} ELSE {}
Spoiled == batch = "error"

\* A start with a FILE to open keeps the tune on disk, or saves the defaults.
LEMMA StartKeepsDisk ==
    ASSUME Typed, Leaks, MaxResets < MaxFiles, FirstBoot \/ Reboot \/ BootRewound
    PROVE  /\ Disk' = IF Disk = {} THEN {DefaultTune} ELSE Disk
           /\ Disk' = {ram'.tune}
<1>1. Load /\ pc \in Starting
  BY DEF FirstBoot, Reboot, BootRewound, Starting
<1>2. Free # {} BY OneIsFree
<1>3. FliesSavedTune' BY StartFlies
<1>4. Disk' = {file'.tune} /\ Disk' = {ram'.tune}
  BY <1>3 DEF FliesSavedTune, Disk
<1>5. CASE file \in Configs
  <2>1. ReadBack = file /\ file # Absent
    BY <1>2, <1>5, JunkIsNoConfig DEF ReadBack
  <2>2. file' = file BY <1>1, <1>5, <2>1 DEF Load
  <2> QED BY <1>4, <1>5, <2>2 DEF Disk
<1>6. CASE file \notin Configs
  <2>1. Fresh BY <1>6 DEF Typed, Loaded
  <2>2. image = Junk BY <2>1 DEF Typed, Loaded
  <2>3. ReadBack \notin Configs
    BY <1>2, <1>6, <2>2, JunkIsNoConfig DEF ReadBack
  <2>4. file' = Defaults BY <1>1, <1>2, <2>3 DEF Load, Stored
  <2>5. file'.tune = DefaultTune BY <2>4 DEF Defaults
  <2> QED BY <1>4, <1>6, <2>5 DEF Disk
<1> QED BY <1>5, <1>6

\* The four ways into and out of a life of the firmware.
LEMMA LifeAsContract ==
    ASSUME Typed, Leaks, MaxResets < MaxFiles,
           Start \/ FirstBoot \/ Reboot \/ BootRewound \/ Rewind \/ Kill
    PROVE  Contract!Next
<1>1. CASE Start
  <2>1. Phase = "off" /\ Phase' = "starting"
    BY <1>1 DEF Start, Phase, Starting
  <2>2. UNCHANGED <<file, ram, cliMode, batch, blocked, armed>>
    BY <1>1 DEF Start, flash, cli
  <2>3. Contract!PowerOn BY <2>1, <2>2 DEF Contract!PowerOn, Contract!flags
  <2> QED BY <2>3 DEF Contract!Next
<1>2. CASE FirstBoot \/ Reboot \/ BootRewound
  <2>1. Phase = "starting" /\ Phase' = "on"
    BY <1>2 DEF FirstBoot, Reboot, BootRewound, Phase, Starting
  <2>2. UNCHANGED <<cliMode, batch, blocked, armed>>
    BY <1>2 DEF FirstBoot, Reboot, BootRewound, cli
  <2>3. /\ Disk' = IF Disk = {} THEN {DefaultTune} ELSE Disk
        /\ Disk' = {ram'.tune}
    BY <1>2, StartKeepsDisk
  <2>4. Contract!Start
    BY <2>1, <2>2, <2>3 DEF Contract!Start, Contract!flags, Disk
  <2> QED BY <2>4 DEF Contract!Next
<1>3. CASE Rewind
  <2>1. Phase = "on" /\ Phase' = "starting"
    BY <1>3 DEF Rewind, Phase, Starting
  <2>2. UNCHANGED <<file, ram>> /\ ~cliMode' /\ ~Spoiled' /\ ~blocked' /\ ~armed'
    BY <1>3 DEF Rewind, Spoiled
  <2>3. Contract!Reset
    BY <2>1, <2>2 DEF Contract!Reset, Contract!Cleared, Spoiled
  <2> QED BY <2>3 DEF Contract!Next
<1>4. CASE Kill
  <2>1. Phase # "off" /\ Phase' = "off"
    BY <1>4 DEF Kill, Phase, Starting, Typed, Types
  <2>2. UNCHANGED ram /\ ~cliMode' /\ ~Spoiled' /\ ~blocked' /\ ~armed'
    BY <1>4 DEF Kill, Spoiled
  <2>3. Disk' = Disk \/ (Phase = "saving" /\ Disk' = {})
    <3>1. \/ file' = file
          \/ file' = Junk /\ (pc = "write" \/ file \notin Configs)
      BY <1>4 DEF Kill
    <3> QED BY <3>1, JunkIsNoConfig DEF Disk, Phase, Starting
  <2>4. Contract!PowerOff
    BY <2>1, <2>2, <2>3 DEF Contract!PowerOff, Contract!Cleared, Disk, Spoiled
  <2> QED BY <2>4 DEF Contract!Next
<1> QED BY <1>1, <1>2, <1>3, <1>4

\* The commands of a session, and arming.
LEMMA SessionAsContract ==
    ASSUME Typed, Writing,
           \/ CliEnter \/ Rejected \/ Save \/ FlashLock \/ CliExit \/ Arm
           \/ \E c \in Configs : Edit(c)
           \/ \E start \in BOOLEAN : Batch(start)
           \/ \E nosave \in BOOLEAN : CliDefaults(nosave)
    PROVE  Contract!Next \/ UNCHANGED Contract!config
<1> USE DEF Contract!Editing, Contract!flags
<1>1. CASE CliEnter
  <2>1. Phase = "on" /\ Phase' = "on"
    BY <1>1 DEF CliEnter, Phase, Starting
  <2>2. Contract!Open
    BY <1>1, <2>1 DEF CliEnter, Contract!Open, flash
  <2> QED BY <2>2 DEF Contract!Next
<1>2. CASE Rejected \/ \E start \in BOOLEAN : Batch(start)
  <2>1. /\ Phase = "on" /\ Phase' = "on" /\ cliMode
        /\ UNCHANGED <<file, ram, cliMode, blocked, armed>>
    BY <1>2 DEF Rejected, Batch, InCli, Phase, Starting, flash
  <2>2. CASE Spoiled'
    BY <2>1, <2>2 DEF Contract!Reject, Contract!Next, Spoiled
  <2>3. CASE ~Spoiled'
    BY <2>1, <2>3 DEF Contract!Forget, Contract!Next, Spoiled
  <2> QED BY <2>2, <2>3
<1>3. ASSUME NEW c \in Configs, Edit(c)
      PROVE  Contract!Next
  <2>1. Phase = "on" /\ Phase' = "on" /\ cliMode
    BY <1>3 DEF Edit, InCli, Phase, Starting
  <2>2. c.tune \in Tunes BY DEF Configs
  <2>3. Contract!Edit(c.tune)
    BY <1>3, <2>1 DEF Edit, Contract!Edit, flash, cli
  <2> QED BY <2>2, <2>3 DEF Contract!Next
<1>4. CASE Save
  <2>1. /\ Phase = "on" /\ cliMode
        /\ UNCHANGED <<file, ram, cliMode, blocked, armed>>
    BY <1>4 DEF Save, InCli, Phase, Starting
  <2>2. CASE PrepareSave
    <3>1. Phase' = "saving" /\ ~Spoiled /\ batch' = batch
      BY <1>4, <2>2 DEF Save, WriteEEPROM, PrepareSave, Spoiled, Phase, Starting
    <3>2. Contract!Save BY <2>1, <3>1 DEF Contract!Save, Spoiled
    <3> QED BY <3>2 DEF Contract!Next
  <2>3. CASE ~PrepareSave
    <3>1. Phase' = Phase /\ ~Spoiled'
      BY <1>4, <2>3 DEF Save, Spoiled, Phase, Starting
    <3>2. Contract!Forget BY <2>1, <3>1 DEF Contract!Forget, Spoiled
    <3> QED BY <3>2 DEF Contract!Next
  <2> QED BY <2>2, <2>3
<1>5. ASSUME NEW nosave \in BOOLEAN, CliDefaults(nosave)
      PROVE  Contract!Next
  <2>1. /\ Phase = "on" /\ cliMode /\ ram'.tune = DefaultTune
        /\ UNCHANGED <<file, cliMode, blocked, armed>>
    BY <1>5 DEF CliDefaults, InCli, Phase, Starting, Defaults
  <2>2. ~Spoiled'
    BY <1>5 DEF CliDefaults, Spoiled
  <2>3. Phase' \in {"on", "saving"}
    BY <1>5 DEF CliDefaults, InCli, WriteEEPROM, Phase, Starting
  <2>4. Contract!RestoreDefaults
    BY <2>1, <2>2, <2>3 DEF Contract!RestoreDefaults, Spoiled
  <2> QED BY <2>4 DEF Contract!Next
<1>6. CASE FlashLock
  <2>1. /\ Phase = "saving" /\ Phase' = "starting" /\ pc = "write"
        /\ UNCHANGED <<ram, cliMode, batch, blocked, armed>>
    BY <1>6 DEF FlashLock, Phase, Starting, cli
  <2>2. file' = ram /\ ram \in Configs
    BY <1>6, <2>1 DEF FlashLock, Writing, Typed, Types
  <2>3. Disk' = {ram.tune} BY <2>2 DEF Disk
  <2>4. Contract!Saved BY <2>1, <2>3 DEF Contract!Saved, Disk
  <2> QED BY <2>4 DEF Contract!Next
<1>7. CASE CliExit
  <2>1. /\ Phase = "on" /\ Phase' = "starting" /\ cliMode /\ ~cliMode'
        /\ UNCHANGED <<file, ram, batch, blocked, armed>>
    BY <1>7 DEF CliExit, StaysBlocked, InCli, Phase, Starting, flash
  <2>2. Contract!Exit BY <2>1 DEF Contract!Exit
  <2> QED BY <2>2 DEF Contract!Next
<1>8. CASE Arm
  <2>1. /\ Phase = "on" /\ Phase' = "on" /\ ~blocked /\ armed' = ~armed
        /\ UNCHANGED <<file, ram, cliMode, batch, blocked>>
    BY <1>8 DEF Arm, Phase, Starting, flash, cli
  <2>2. Contract!Arm BY <2>1 DEF Contract!Arm
  <2> QED BY <2>2 DEF Contract!Next
<1> QED BY <1>1, <1>2, <1>3, <1>4, <1>5, <1>6, <1>7, <1>8

(* An edit is in force, what was saved flies after every start, and nothing
   flies an unsaved edit: the file, its image, the handle and the flags
   together implement the pilot's view of the CLI, for any tunes and as long
   as fewer resets than open files are possible. *)
THEOREM PilotsView == ASSUME MaxResets < MaxFiles PROVE Spec => ConfigSpec
<1>1. Init => Contract!Init
  BY JunkIsNoConfig DEF Init, Contract!Init, Phase, Starting, Defaults
<1>2. Init => Writing
  BY DEF Init, Writing
<1>3. Typed /\ Leaks /\ Writing /\ [Next]_vars
          => [Contract!Next]_(Contract!config)
  <2> SUFFICES ASSUME Typed, Leaks, Writing, [Next]_vars
               PROVE  Contract!Next \/ UNCHANGED Contract!config
    OBVIOUS
  <2>1. CASE UNCHANGED vars
    BY <2>1 DEF vars, flash, cli, Contract!config, Contract!flags, Phase
  <2>2. CASE Start \/ FirstBoot \/ Reboot \/ BootRewound \/ Rewind \/ Kill
    BY <2>2, LifeAsContract
  <2> QED BY <2>1, <2>2, SessionAsContract DEF Next
<1> QED
  BY <1>1, <1>2, <1>3, WritingNext, LeaksInit, LeaksNext, TypedInit, TypedNext,
     PTL DEF Spec, ConfigSpec, Contract!Spec
=============================================================================
