--------------------------- MODULE FirmwareConfig ---------------------------
(***************************************************************************)
(* The life of the pilot's configuration: the eeprom file, the image of it *)
(* in eepromData, the parameter groups in RAM, the CLI that edits them,    *)
(* and the three ways the firmware starts over: a new process, the CLI's   *)
(* in-process reboot (pw_sitl.c's systemReset) and PW_CMD_RESET            *)
(* (Sim::reset), which first rewinds every static, eepromFd among them, to *)
(* what it was after the first boot.                                       *)
(*                                                                         *)
(* A configuration is the tune it flies and whether it has the switch      *)
(* layout and arming interlock propwash pins (bf.cpp).  Betaflight's own   *)
(* part (loading, arming, when the CLI opens) is external, modelled from   *)
(* how this repository calls it.  A FILE is the number of its address.     *)
(***************************************************************************)
EXTENDS Naturals, FiniteSets

CONSTANTS
    Tunes,
    DefaultTune,
    Junk, Absent,   \* bytes that hold no configuration; no file at all
    MaxFiles,       \* how many files the process may have open
    MaxResets       \* bound: PW_CMD_RESETs in the life of a process

Configs == [tune : Tunes, pinned : BOOLEAN]

ASSUME ConfigAssumption ==
    /\ DefaultTune \in Tunes
    /\ Junk \notin Configs /\ Absent \notin Configs /\ Junk # Absent
    /\ MaxFiles \in Nat \ {0}
    /\ MaxResets \in Nat

VARIABLES
    file,           \* the eeprom file: a configuration, Junk or Absent
    pc,             \* where the sim thread is
    image,          \* eepromData
    fd,             \* eepromFd, 0 for NULL
    open,           \* the FILEs fopen returned and fclose has not seen
    ram,            \* the parameter groups
    cliMode,
    batch,          \* commandBatchActive and commandBatchError
    blocked,        \* ARMING_DISABLED_CLI
    armed,
    snap,           \* the first boot's image and fd
    resets          \* PW_CMD_RESETs of this process

flash == <<file, image, fd, open>>
cli == <<cliMode, batch, blocked>>
vars == <<flash, cli, pc, ram, armed, snap, resets>>

Defaults == [tune |-> DefaultTune, pinned |-> FALSE]
Starting == {"boot", "reboot", "rewound"}

TypeOK ==
    /\ file \in Configs \cup {Junk, Absent}
    /\ pc \in Starting \cup {"down", "run", "write"}
    /\ {image, snap.image} \subseteq Configs \cup {Junk}
    /\ {fd, snap.fd} \subseteq 0 .. MaxFiles
    /\ open \subseteq 1 .. MaxFiles
    /\ ram \in Configs
    /\ {cliMode, blocked, armed} \subseteq BOOLEAN
    /\ batch \in {"off", "on", "error"}
    /\ resets \in 0 .. MaxResets
    /\ pc \in {"run", "write"} => file \in Configs

Init ==
    /\ file = Absent
    /\ pc = "down"
    /\ image = Junk /\ fd = 0 /\ open = {}
    /\ ram = Defaults
    /\ cliMode = FALSE /\ batch = "off" /\ blocked = FALSE /\ armed = FALSE
    /\ snap = [image |-> Junk, fd |-> 0]
    /\ resets = 0

-----------------------------------------------------------------------------
(* FLASH_Unlock: close what eepromFd names, open or create the file, read it.
   fopen returns any FILE that is not open.  If eepromFd names a closed one,
   closing it again is undefined: it ends the process, which is a Kill, or
   goes unnoticed, as here. *)
Closed == open \ {fd}
Free == (1 .. MaxFiles) \ Closed
Fopen == IF Free = {} THEN {0} ELSE Free
Reopen ==
    /\ fd' \in Fopen
    /\ open' = Closed \cup ({fd'} \ {0})

ReadOnce == image                                              \* mutant
ReadBack == IF Free = {} \/ file = Absent THEN image ELSE file

(* Loading the configuration.  An image that does not hold one is replaced
   by the defaults, which are written at once: FLASH_Unlock, FLASH_Lock. *)
Stored == IF Free = {} THEN file ELSE Defaults

Load ==
    IF ReadBack \in Configs
    THEN /\ image' = ReadBack
         /\ file' = IF file = Absent /\ Free # {} THEN image ELSE file
         /\ Reopen
    ELSE /\ image' = Defaults
         /\ file' = Stored
         /\ fd' = 0
         /\ open' = Closed

NoPins(c) == c                                                 \* mutant
Pins(c) == [c EXCEPT !.pinned = TRUE]

(* Server::run's boot(): Sim::init, the snapshot, then the pins. *)
FirstBoot ==
    /\ pc = "boot"
    /\ Load
    /\ snap' = [image |-> image', fd |-> fd']
    /\ ram' = Pins(image')
    /\ pc' = "run"
    /\ UNCHANGED <<cli, armed, resets>>

(* systemReset: init() and nothing else.  The firmware's statics stay, the
   CLI's mode and its block among them. *)
RebootLifts ==                                                 \* mutant
    /\ pc = "reboot" /\ Load /\ ram' = image' /\ pc' = "run"
    /\ blocked' = FALSE
    /\ UNCHANGED <<cliMode, batch, armed, snap, resets>>
Reboot ==
    /\ pc = "reboot"
    /\ Load
    /\ ram' = image'
    /\ pc' = "run"
    /\ UNCHANGED <<cli, armed, snap, resets>>

(* PW_CMD_RESET: the rewind, then init() and the pins. *)
Rewind ==
    /\ pc = "run"
    /\ resets < MaxResets
    /\ image' = snap.image
    /\ fd' = snap.fd
    /\ cliMode' = FALSE /\ batch' = "off" /\ blocked' = FALSE
    /\ armed' = FALSE
    /\ resets' = resets + 1
    /\ pc' = "rewound"
    /\ UNCHANGED <<file, open, ram, snap>>

BootRewound ==
    /\ pc = "rewound"
    /\ Load
    /\ ram' = Pins(image')
    /\ pc' = "run"
    /\ UNCHANGED <<cli, armed, snap, resets>>

-----------------------------------------------------------------------------
(* The CLI.  Its client may hang up and another go on: nothing but `exit`
   ends the mode, and the mode outlives the reboot after `save`. *)

CliEnter ==
    /\ pc = "run" /\ ~cliMode /\ ~armed
    /\ cliMode' = TRUE
    /\ blocked' = TRUE
    /\ batch' = "off"
    /\ UNCHANGED <<flash, pc, ram, armed, snap, resets>>

InCli == pc = "run" /\ cliMode

Edit(c) ==
    /\ InCli
    /\ ram' = c
    /\ UNCHANGED <<flash, cli, pc, armed, snap, resets>>

Rejected ==
    /\ InCli
    /\ batch' = IF batch = "off" THEN "off" ELSE "error"
    /\ UNCHANGED <<flash, cliMode, blocked, pc, ram, armed, snap, resets>>

(* `batch start` does not forget an error, `batch end` does. *)
Batch(start) ==
    /\ InCli
    /\ batch' = IF ~start THEN "off" ELSE IF batch = "off" THEN "on" ELSE batch
    /\ UNCHANGED <<flash, cliMode, blocked, pc, ram, armed, snap, resets>>

(* writeEEPROM up to FLASH_Lock: unlocked, every word programmed *)
WriteEEPROM ==
    /\ pc' = "write"
    /\ Reopen
    /\ image' = ram'

SaveAlways == TRUE                                             \* mutant
PrepareSave == batch # "error"

Save ==
    /\ InCli
    /\ ram' = ram
    /\ IF PrepareSave
       THEN WriteEEPROM /\ batch' = batch
       ELSE batch' = "off" /\ UNCHANGED <<pc, fd, open, image>>
    /\ UNCHANGED <<file, cliMode, blocked, armed, snap, resets>>

CliDefaults(nosave) ==
    /\ InCli
    /\ ram' = Defaults
    /\ batch' = IF batch = "error" THEN "on" ELSE batch
    /\ IF nosave THEN UNCHANGED <<pc, fd, open, image>> ELSE WriteEEPROM
    /\ UNCHANGED <<file, cliMode, blocked, armed, snap, resets>>

(* FLASH_Lock, if the file could be opened; then the reboot *)
FdKept == fd                                                   \* mutant
FdAfterLock == 0

FlashLock ==
    /\ pc = "write"
    /\ file' = IF fd = 0 THEN file ELSE image
    /\ open' = open \ {fd}
    /\ fd' = FdAfterLock
    /\ pc' = "reboot"
    /\ UNCHANGED <<image, cli, ram, armed, snap, resets>>

Unblocked == FALSE                                             \* mutant
StaysBlocked == blocked

CliExit ==
    /\ InCli
    /\ cliMode' = FALSE
    /\ blocked' = StaysBlocked
    /\ pc' = "reboot"
    /\ UNCHANGED <<flash, batch, ram, armed, snap, resets>>

-----------------------------------------------------------------------------
(* Betaflight's arming, and the operating system *)

Arm ==
    /\ pc = "run" /\ ~blocked
    /\ armed' = ~armed
    /\ UNCHANGED <<flash, cli, pc, ram, snap, resets>>

Start ==
    /\ pc = "down"
    /\ pc' = "boot"
    /\ UNCHANGED <<flash, cli, ram, armed, snap, resets>>

(* A kill may fall into a write of the file: a save's, or the defaults' that
   replace a file without a configuration. *)
Kill ==
    /\ pc # "down"
    /\ pc' = "down"
    /\ file' \in {file} \cup IF pc = "write" \/ file \notin Configs THEN {Junk} ELSE {}
    /\ image' = Junk /\ fd' = 0 /\ open' = {}
    /\ cliMode' = FALSE /\ batch' = "off" /\ blocked' = FALSE /\ armed' = FALSE
    /\ resets' = 0
    /\ UNCHANGED <<ram, snap>>

Next ==
    \/ Start \/ FirstBoot \/ Reboot \/ Rewind \/ BootRewound \/ Kill
    \/ CliEnter \/ Rejected \/ Save \/ FlashLock \/ CliExit
    \/ \E c \in Configs : Edit(c)
    \/ \E start \in BOOLEAN : Batch(start)
    \/ \E nosave \in BOOLEAN : CliDefaults(nosave)
    \/ Arm

Spec == Init /\ [][Next]_vars

-----------------------------------------------------------------------------
(* Nobody flies another switch layout than propwash's: whatever a CLI session
   edited, saved or threw away, the pins are back before the quad can arm. *)
ArmedIsPinned == armed => ram.pinned

(* Only a rewind or a new process lifts the block the CLI puts on arming: no
   `exit` and no reboot does, in whatever order a session uses them. *)
OnlyRewindUnblocks ==
    [][blocked /\ ~blocked' => pc' \in {"rewound", "down"}]_vars

(* Every start flies what is on disk: saved tunes survive resets, reboots and
   restarts, and what was not saved does not, although a reset brings the
   first boot's image back into eepromData. *)
FliesSavedTune == file \in Configs /\ ram.tune = file.tune
StartsFlySavedTune == [][(pc \in Starting /\ pc' = "run") => FliesSavedTune']_vars

(* An armed quad flies the tune on disk, and no edit that was never saved: the
   mode outlives the reboot after `save`, so a client may go on editing, and
   what keeps the edits on the ground is that the block outlives it too. *)
ArmedFliesSaved == armed => FliesSavedTune

(* The pilot's view: what was edited is in force, what was saved is on disk
   and flies after every restart, unless a line of its batch was rejected, and
   only a reset or a new process lifts the block a session leaves behind. *)
Phase ==
    CASE pc \in Starting -> "starting"
      [] pc = "run" -> "on"
      [] pc = "write" -> "saving"
      [] OTHER -> "off"

Contract == INSTANCE ConfigContract
                WITH disk     <- IF file \in Configs THEN {file.tune} ELSE {},
                     tune     <- ram.tune,
                     phase    <- Phase,
                     session  <- cliMode,
                     spoiled  <- batch = "error",
                     grounded <- blocked

ConfigSpec == Contract!Spec

(* A reset brings back the eepromFd of the first boot, and the FILE it names
   may have been closed since.  Only the FLASH_Unlock of that reset's init
   meets it: no save writes through it and no reboot inherits it, whatever
   addresses fopen hands out. *)
FdIsOpen == fd # 0 => fd \in open
OnlyResetsDangle == FdIsOpen \/ pc = "rewound"
=============================================================================
