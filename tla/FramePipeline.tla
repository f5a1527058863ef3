---------------------------- MODULE FramePipeline ----------------------------
(***************************************************************************)
(* The client's half of the lockstep: the Godot client                     *)
(* (client-godot/scripts/main.gd) or the gym environment                   *)
(* (python/propwash_gym/.../env.py).                                       *)
(*                                                                         *)
(* Every frame sends one PW_STATE_IN with the client's pose and applies    *)
(* one PW_STATE_OUT, the oldest one queued: not necessarily the answer to  *)
(* the packet just sent.  When none comes within the spin budget (the      *)
(* socket's timeout) the frame is given up, and its answer stays in the    *)
(* pipeline.  R, T and a new episode override the pose between frames; the *)
(* Godot client then skips one reply's pose, the gym none.                 *)
(*                                                                         *)
(* A pose is abstracted to its lineage, the number of the override it      *)
(* descends from; a velocity to the reset it has been integrated since.    *)
(***************************************************************************)
EXTENDS Integers, Sequences, FiniteSets

CONSTANTS
    MaxFrames,      \* bound: frames
    MaxMisses,      \* bound: frames given up while the core is bound
    MaxOverrides,   \* bound: R and T key presses
    MaxOsd          \* bound: PW_OSD packets in the stream

ASSUME PipelineAssumption ==
    {MaxFrames, MaxMisses, MaxOverrides, MaxOsd} \subseteq Nat

VARIABLES
    client,         \* "godot" or "gym"
    waiting,        \* inside a frame, between its packet and its reply
    armed,          \* _last_out.armed
    pose,           \* lineage of _rot
    velocity,       \* origin of _linvel and _angvel
    skip,           \* _skip_stale_pose
    frameId,        \* _frame_id
    toCore,         \* datagrams on their way to the core
    toClient,       \* datagrams on their way to the client
    core,           \* "down", "booting" (bound, not yet receiving) or "up"
    flight,         \* origin of the velocities the core integrates
    (* history variables *)
    frames,         \* frames sent
    misses,         \* frames given up whose packet the core will answer
    overrides,      \* pose overrides so far
    osd,            \* PW_OSD packets sent
    reset,          \* the override that was the last reset
    applied         \* replies applied since

local == <<client, waiting, armed, pose, velocity, skip, frameId>>
counts == <<frames, misses, overrides, osd, reset, applied>>
pipeline == <<local, toCore, toClient, core, flight, counts>>

IsState(d) == d.type = "state"
StatesIn(q) == Cardinality({i \in DOMAIN q : IsState(q[i])})

Packets ==
    [type : {"state"}, id : 0 .. MaxFrames, pose : 0 .. MaxOverrides]
    \cup [type : {"reset", "repair"}, as : 0 .. MaxOverrides]
Replies ==
    [type : {"state"}, id : 0 .. MaxFrames, pose : 0 .. MaxOverrides,
     velocity : 0 .. MaxOverrides, armed : BOOLEAN]
    \cup [type : {"osd"}]

PipelineTypeOK ==
    /\ client \in {"godot", "gym"}
    /\ waiting \in BOOLEAN
    /\ armed \in BOOLEAN
    /\ {pose, velocity, flight, overrides, reset} \subseteq 0 .. MaxOverrides
    /\ skip \in {0, 1}
    /\ frameId \in 0 .. MaxFrames
    /\ toCore \in Seq(Packets)
    /\ toClient \in Seq(Replies)
    /\ core \in {"down", "booting", "up"}
    /\ frames \in 0 .. MaxFrames
    /\ misses \in 0 .. MaxMisses
    /\ osd \in 0 .. MaxOsd
    /\ applied \in 0 .. MaxFrames

PipelineInit ==
    /\ client \in {"godot", "gym"}
    /\ waiting = FALSE
    /\ armed = FALSE
    /\ pose = 0
    /\ velocity = 0
    /\ skip = 0
    /\ frameId = 0
    /\ toCore = <<>>
    /\ toClient = <<>>
    /\ core = "down"
    /\ flight = 0
    /\ frames = 0
    /\ misses = 0
    /\ overrides = 0
    /\ osd = 0
    /\ reset = 0
    /\ applied = 0

-----------------------------------------------------------------------------
(* The client *)

(* A datagram sent before the core has bound its port is lost. *)
Put(d) == toCore' = IF core = "down" THEN toCore ELSE Append(toCore, d)

(* _physics_process up to its put_packet *)
SendFrame ==
    /\ ~waiting
    /\ frames < MaxFrames
    /\ Put([type |-> "state", id |-> frameId, pose |-> pose])
    /\ waiting' = TRUE
    /\ frames' = frames + 1
    /\ UNCHANGED <<client, armed, pose, velocity, skip, frameId, toClient, core,
                   flight, misses, overrides, osd, reset, applied>>

(* The head of the socket's queue is the on-screen display: keep reading. *)
DropOsd ==
    /\ waiting
    /\ toClient # <<>>
    /\ ~IsState(Head(toClient))
    /\ toClient' = Tail(toClient)
    /\ UNCHANGED <<local, toCore, core, flight, counts>>

ApplyAlways(reply) == reply.pose                               \* mutant
Applied(reply) == IF skip > 0 THEN pose ELSE reply.pose

KeepNewest == <<>>                                             \* mutant
OneConsumed == Tail(toClient)

(* Exactly one reply is applied: the oldest. *)
ApplyReply ==
    /\ waiting
    /\ toClient # <<>>
    /\ IsState(Head(toClient))
    /\ LET reply == Head(toClient)
       IN  /\ pose' = Applied(reply)
           /\ velocity' = reply.velocity
           /\ armed' = reply.armed
    /\ skip' = IF skip > 0 THEN skip - 1 ELSE 0
    /\ toClient' = OneConsumed
    /\ frameId' = frameId + 1
    /\ waiting' = FALSE
    /\ applied' = applied + 1
    /\ UNCHANGED <<client, toCore, core, flight, frames, misses, overrides, osd, reset>>

(* The spin budget runs out: the frame is abandoned, its packet is not. *)
Answerable == StatesIn(toCore) > 0

GiveUp ==
    /\ waiting
    /\ toClient = <<>>
    /\ Answerable => misses < MaxMisses
    /\ misses' = IF Answerable THEN misses + 1 ELSE misses
    /\ waiting' = FALSE
    /\ UNCHANGED <<client, armed, pose, velocity, skip, frameId, toCore, toClient,
                   core, flight, frames, overrides, osd, reset, applied>>

(* How many replies the client expects to be stale after an override. *)
StaleReplies == 1

(* A reset lost because nothing has bound the port is made up for: the first
   packet to reach the core resets it. *)
FlightAfterReset == IF core = "down" THEN overrides' ELSE flight

StartOver(type, stale) ==
    /\ ~waiting
    /\ overrides < MaxOverrides
    /\ overrides' = overrides + 1
    /\ Put([type |-> type, as |-> overrides'])
    /\ pose' = overrides'
    /\ skip' = stale
    /\ UNCHANGED <<client, waiting, armed, toClient, core, frames, misses, osd>>

(* R: reset_sim *)
ResetSim ==
    /\ client = "godot"
    /\ StartOver("reset", StaleReplies)
    /\ velocity' = overrides'
    /\ reset' = overrides'
    /\ applied' = 0
    /\ flight' = FlightAfterReset
    /\ UNCHANGED frameId

(* T: _repair_in_place, refused in the air *)
RepairInPlace ==
    /\ client = "godot"
    /\ ~armed
    /\ StartOver("repair", StaleReplies)
    /\ UNCHANGED <<velocity, frameId, flight, reset, applied>>

(* PropwashEnv.reset *)
Episode ==
    /\ client = "gym"
    /\ StartOver("reset", 0)
    /\ frameId' = 0
    /\ reset' = overrides'
    /\ applied' = 0
    /\ flight' = FlightAfterReset
    /\ UNCHANGED velocity

-----------------------------------------------------------------------------
(* The core (module LockstepCore): it binds its port, then boots Betaflight,
   then serves the datagrams in order, one PW_STATE_OUT per PW_STATE_IN. *)

Bind ==
    /\ core = "down"
    /\ core' = "booting"
    /\ UNCHANGED <<local, toCore, toClient, flight, counts>>

Booted ==
    /\ core = "booting"
    /\ core' = "up"
    /\ UNCHANGED <<local, toCore, toClient, flight, counts>>

Answer(isArmed, withOsd) ==
    /\ core = "up"
    /\ toCore # <<>>
    /\ IsState(Head(toCore))
    /\ withOsd => osd < MaxOsd
    /\ LET p == Head(toCore)
           reply == [type |-> "state", id |-> p.id, pose |-> p.pose,
                     velocity |-> flight, armed |-> isArmed]
           answered == Append(toClient, reply)
       IN  toClient' = IF withOsd THEN Append(answered, [type |-> "osd"]) ELSE answered
    /\ osd' = IF withOsd THEN osd + 1 ELSE osd
    /\ toCore' = Tail(toCore)
    /\ UNCHANGED <<local, core, flight, frames, misses, overrides, reset, applied>>

(* RESET stops the quad; REPAIR leaves it its velocities. *)
FliesOn(command) == flight                                     \* mutant
Stopped(command) == IF command.type = "reset" THEN command.as ELSE flight

Command ==
    /\ core = "up"
    /\ toCore # <<>>
    /\ ~IsState(Head(toCore))
    /\ flight' = Stopped(Head(toCore))
    /\ toCore' = Tail(toCore)
    /\ UNCHANGED <<local, toClient, core, counts>>

(* Nothing more to do within the bounds. *)
Done ==
    /\ ~waiting
    /\ frames = MaxFrames
    /\ UNCHANGED pipeline

PipelineNext ==
    \/ SendFrame \/ DropOsd \/ ApplyReply \/ GiveUp
    \/ ResetSim \/ RepairInPlace \/ Episode
    \/ Bind \/ Booted \/ Command
    \/ \E isArmed, withOsd \in BOOLEAN : Answer(isArmed, withOsd)
    \/ Done

PipelineSpec == PipelineInit /\ [][PipelineNext]_pipeline

-----------------------------------------------------------------------------
InFlight == StatesIn(toCore) + StatesIn(toClient)

(* One packet out, one reply in: between frames the pipeline holds exactly one
   packet or reply for every frame that was given up, whatever the core's
   delays, its boot and the OSD packets in between: the lag of the applied
   poses never varies with timing, and never recovers either. *)
LagIsTheMisses == ~waiting => InFlight = misses

(* An override holds: the pose never returns to a lineage from before it, as
   long as the pipeline is no deeper than the replies the client skips, one in
   Godot and none in the gym.  (With one more frame given up it does.) *)
Skipped == IF client = "godot" THEN StaleReplies ELSE 0
OverrideSticks == misses <= Skipped => pose = overrides

(* A reset's velocities arrive: once as many replies were applied as frames
   are in the pipeline, and one, what moves the pose was integrated since the
   reset, although the reply whose pose is skipped still brings the old one. *)
VelocityIsNew == applied > misses => velocity = reset
=============================================================================
