--------------------------- MODULE SnapshotContract ---------------------------
(***************************************************************************)
(* What core/sim/static_snapshot.h promises of a deterministic reset: the  *)
(* memory of the process goes back to the captured image in one step, all  *)
(* of it but the shielded bytes, and image and shield never change once    *)
(* the image is taken.  StaticSnapshot implements it.                      *)
(***************************************************************************)
CONSTANTS
    Addrs,
    Values,
    Captured        \* the addresses an image covers

VARIABLES
    mem,            \* the memory of the process
    image,          \* what a rewind brings back
    shielded,       \* addresses a rewind leaves alone
    taken,          \* the image is final
    fresh           \* nothing ran since a rewind

state == <<mem, image, shielded, taken, fresh>>

Init ==
    /\ mem \in [Addrs -> Values]
    /\ image \in [Addrs -> Values]
    /\ shielded = {}
    /\ taken = FALSE
    /\ fresh = FALSE

(* Before the image is final, callers may shield what a rewind must keep. *)
Shield ==
    /\ ~taken
    /\ shielded \subseteq shielded'
    /\ shielded' \subseteq Addrs
    /\ UNCHANGED <<mem, image, taken, fresh>>

(* The first call captures; the snapshot's own bookkeeping is shielded. *)
Take ==
    /\ ~taken
    /\ taken' = TRUE
    /\ image' = mem
    /\ shielded \subseteq shielded'
    /\ shielded' \subseteq Addrs
    /\ UNCHANGED <<mem, fresh>>

Run ==
    /\ mem' \in [Addrs -> Values]
    /\ fresh' = FALSE
    /\ UNCHANGED <<image, shielded, taken>>

Rewind ==
    /\ taken
    /\ mem' = [a \in Addrs |-> IF a \in Captured \ shielded THEN image[a] ELSE mem[a]]
    /\ fresh' = TRUE
    /\ UNCHANGED <<image, shielded, taken>>

Next == Shield \/ Take \/ Run \/ Rewind

Spec == Init /\ [][Next]_state
=============================================================================
