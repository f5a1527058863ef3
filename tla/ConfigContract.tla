---------------------------- MODULE ConfigContract ----------------------------
(***************************************************************************)
(* What the CLI promises the pilot who tunes a quad: an edit is in force   *)
(* at once and on disk after `save`, every start flies what is on disk,    *)
(* whichever way the firmware starts over, and nothing flies while edits   *)
(* may be unsaved.  FirmwareConfig implements it with the eeprom file, its *)
(* image, a FILE handle that resets rewind, and Betaflight's flags.        *)
(***************************************************************************)
CONSTANTS
    Tunes,
    DefaultTune

VARIABLES
    disk,           \* the saved tune, a set: empty if the file holds none
    tune,           \* the tune in force
    phase,          \* "off", "starting", "on", or "saving"
    session,        \* the CLI is open
    spoiled,        \* a line of the batch under way was rejected
    grounded,       \* arming is refused
    armed

flags == <<session, spoiled, grounded, armed>>
config == <<disk, tune, phase, flags>>

Init ==
    /\ disk = {} /\ tune = DefaultTune /\ phase = "off"
    /\ ~session /\ ~spoiled /\ ~grounded /\ ~armed

Cleared == ~session' /\ ~spoiled' /\ ~grounded' /\ ~armed'

PowerOn ==
    /\ phase = "off" /\ phase' = "starting"
    /\ UNCHANGED <<disk, tune, flags>>

(* Losing power in the middle of a write loses the file. *)
PowerOff ==
    /\ phase # "off" /\ phase' = "off"
    /\ disk' = disk \/ (phase = "saving" /\ disk' = {})
    /\ Cleared
    /\ UNCHANGED tune

(* A start flies the disk's tune; without one, the defaults, which it saves. *)
Start ==
    /\ phase = "starting" /\ phase' = "on"
    /\ disk' = IF disk = {} THEN {DefaultTune} ELSE disk
    /\ disk' = {tune'}
    /\ UNCHANGED flags

(* PW_CMD_RESET: whatever was not saved is gone, the block on arming too. *)
Reset ==
    /\ phase = "on" /\ phase' = "starting"
    /\ Cleared
    /\ UNCHANGED <<disk, tune>>

Open ==
    /\ phase = "on" /\ ~session /\ ~armed
    /\ session' /\ grounded' /\ ~spoiled'
    /\ UNCHANGED <<disk, tune, phase, armed>>

Editing == phase = "on" /\ session

Edit(t) ==
    /\ Editing
    /\ tune' = t
    /\ UNCHANGED <<disk, phase, flags>>

Reject ==
    /\ Editing /\ spoiled'
    /\ UNCHANGED <<disk, tune, phase, session, grounded, armed>>

(* The end of the batch, or a `save` that is refused. *)
Forget ==
    /\ Editing /\ ~spoiled'
    /\ UNCHANGED <<disk, tune, phase, session, grounded, armed>>

Save ==
    /\ Editing /\ ~spoiled
    /\ phase' = "saving"
    /\ UNCHANGED <<disk, tune, flags>>

RestoreDefaults ==
    /\ Editing /\ ~spoiled'
    /\ tune' = DefaultTune
    /\ phase' \in {"on", "saving"}
    /\ UNCHANGED <<disk, session, grounded, armed>>

(* The session outlives the restart after a save, and so does the block. *)
Saved ==
    /\ phase = "saving" /\ phase' = "starting"
    /\ disk' = {tune}
    /\ UNCHANGED <<tune, flags>>

Exit ==
    /\ Editing /\ ~session'
    /\ phase' = "starting"
    /\ UNCHANGED <<disk, tune, spoiled, grounded, armed>>

Arm ==
    /\ phase = "on" /\ ~grounded
    /\ armed' = ~armed
    /\ UNCHANGED <<disk, tune, phase, session, spoiled, grounded>>

Next ==
    \/ PowerOn \/ PowerOff \/ Start \/ Reset
    \/ Open \/ Reject \/ Forget \/ Save \/ RestoreDefaults \/ Saved \/ Exit
    \/ \E t \in Tunes : Edit(t)
    \/ Arm

Spec == Init /\ [][Next]_config
=============================================================================
