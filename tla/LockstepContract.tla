-------------------------- MODULE LockstepContract --------------------------
(***************************************************************************)
(* What propwash-core promises a client that drives it over UDP: simulated *)
(* time is a clock only the client winds.  One request moves it by exactly *)
(* the (clamped) time the request asks for, a rewind takes it to zero, and *)
(* the core moves it by itself only after it was told to (PW_CMD_REALTIME) *)
(* or when the client has been silent for as long as the core's patience   *)
(* lasts, and then with nobody's contacts loaded.  Configuring the vehicle *)
(* (PW_INIT) changes the profile and never the clock.                      *)
(*                                                                         *)
(* This is the promise of docs/ARCHITECTURE.md, of the PW_CMD_LOCKSTEP     *)
(* comment in protocol/propwash_protocol.h and of the CLIENT_IDLE_MS       *)
(* comment in core/net/server.cpp; LockstepCore is the code.               *)
(***************************************************************************)
EXTENDS Integers

CONSTANTS MaxDelta,     \* the most one request may advance, in us
          IdleDelta,    \* what one self-made advance is worth, in us
          Profiles      \* the vehicle profiles a client may send

VARIABLES requests,     \* driving requests served by this process
          lockstep,     \* TRUE: the client owns the clock
          profile,      \* the vehicle being simulated
          time,         \* us simulated since the last rewind
          contact,      \* is a contact manifold loaded in the physics
          absent        \* has the core given up on the client for now

vars == <<requests, lockstep, profile, time, contact, absent>>

Init ==
    /\ requests = 0
    /\ lockstep = TRUE
    /\ profile \in Profiles
    /\ time = 0
    /\ contact = FALSE
    /\ absent = TRUE

(* A client's request: the only way lockstep time moves. *)
Drive ==
    /\ requests' = requests + 1
    /\ \E d \in 0 .. MaxDelta : time' = time + d
    /\ contact' \in BOOLEAN
    /\ absent' = FALSE
    /\ UNCHANGED <<lockstep, profile>>

Rewind ==
    /\ time' = 0
    /\ contact' = FALSE
    /\ UNCHANGED <<requests, lockstep, profile, absent>>

SelfAdvance ==
    /\ ~lockstep \/ absent
    /\ time' = time + IdleDelta
    /\ contact' = FALSE
    /\ UNCHANGED <<requests, lockstep, profile, absent>>

Configure ==
    /\ profile' \in Profiles
    /\ UNCHANGED <<requests, lockstep, time, contact, absent>>

SetMode ==
    /\ lockstep' \in BOOLEAN
    /\ UNCHANGED <<requests, profile, time, contact, absent>>

(* The client has been silent too long. *)
GiveUp ==
    /\ absent' = TRUE
    /\ UNCHANGED <<requests, lockstep, profile, time, contact>>

Next == Drive \/ Rewind \/ SelfAdvance \/ Configure \/ SetMode \/ GiveUp

Spec == Init /\ [][Next]_vars
=============================================================================
