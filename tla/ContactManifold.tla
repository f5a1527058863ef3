--------------------------- MODULE ContactManifold ---------------------------
(***************************************************************************)
(* Contacts between the hull and the world, split between two programs:    *)
(* the client owns positions and detects the contact points of a frame,    *)
(* the core owns velocities and resolves the contacts as forces, tick by   *)
(* tick, evolving their depths itself (core/sim/physics.cpp).  Each        *)
(* integrates on its own, so the depth the core evolved and the depth the  *)
(* client measures drift apart within a frame and meet at the next load.   *)
(*                                                                         *)
(* Lengths are integers.  The surfaces share one normal; what the contacts *)
(* do to the motion is left open: after every tick the points may move in  *)
(* any way at all.                                                         *)
(***************************************************************************)
EXTENDS Integers, FiniteSets

CONSTANTS
    Points,         \* places on the hull that can touch something
    Near,           \* pairs of them less than 2 cm apart
    Surfaces,       \* PwSurfaceType
    Subticks,       \* ticks of a frame
    Speeds,         \* normal velocities, per tick; positive is leaving
    Slop,           \* CONTACT_SLOP of the client
    Margin,         \* CONTACT_MARGIN of the client
    Tol,            \* 2 mm: the disagreement that re-anchors
    DMax,           \* CONTACT_DMAX
    FMax,           \* CONTACT_FMAX
    Spring, Damper, \* k and c of ContactMaterial
    MaxContacts,    \* PW_MAX_CONTACTS
    Far             \* bound: how far from the surface a point is tracked

ASSUME ContactAssumption ==
    /\ IsFiniteSet(Points)
    /\ Near \subseteq Points \X Points
    /\ \A p \in Points : <<p, p>> \in Near
    /\ Subticks \in Nat \ {0}
    /\ Speeds \subseteq Int /\ 0 \in Speeds
    /\ {Slop, Margin} \subseteq Nat
    /\ Tol \in Nat \ {0}
    /\ {DMax, FMax, Spring, Damper} \subseteq Nat \ {0}
    /\ Slop <= DMax
    /\ MaxContacts \in Nat
    /\ Far \in Nat /\ Margin <= Far

Slots == 1 .. MaxContacts

VARIABLES
    deep,       \* the client's penetration of each point at its pose
    way,        \* the core's normal velocity of each point
    contacts,   \* SimState::contacts
    reported,   \* the first contactCount of them: the last manifold's
    left,       \* ticks left of the frame; 0: the client's turn
    (* history variables *)
    reckoned,   \* depth of each slot had it been free to go negative
    still       \* nothing moved since the manifold was loaded

vars == <<deep, way, contacts, reported, left, reckoned, still>>

Depths == -Far .. DMax + Far
Clip(n, least, most) == IF n < least THEN least ELSE IF n > most THEN most ELSE n
Distance(a, b) == IF a < b THEN b - a ELSE a - b

Penetration(n) == Clip(n, 0, DMax)

(* ActiveContact; what a slot that is not active still holds is never read. *)
Contact == [point : Points, surface : Surfaces, depth : 0 .. DMax]
NoContact == [depth |-> 0]
NoManifold == [i \in Slots |-> NoContact]
Active == {i \in Slots : contacts[i] # NoContact}

Init ==
    /\ deep = [p \in Points |-> 0]
    /\ way = [p \in Points |-> 0]
    /\ contacts = NoManifold
    /\ reported = {}
    /\ left = 0
    /\ reckoned = [i \in Slots |-> 0]
    /\ still = FALSE

-----------------------------------------------------------------------------
(* The client *)

(* Position moves with the velocity the frame ended with; or the pilot put
   the quad somewhere else. *)
Integrated(p) == Clip(deep[p] - Subticks * way[p], -Far, DMax + Far)

(* The hull is lifted until its deepest point keeps only the slop. *)
Lift(pose) ==
    IF \E p \in Points : pose[p] > Slop
    THEN CHOOSE d \in 1 .. DMax + Far :
             /\ \A p \in Points : pose[p] - d <= Slop
             /\ \E p \in Points : pose[p] - d = Slop
    ELSE 0
Lifted(pose) == [p \in Points |-> Clip(pose[p] - Lift(pose), -Far, Slop)]

(* What is reported: the points within the margin, in some order (the deepest
   first, or as the hull lists them), as many as a packet holds. *)
Reports(pose) ==
    LET touching == {p \in Points : pose[p] > -Margin}
        n == IF Cardinality(touching) < MaxContacts
             THEN Cardinality(touching) ELSE MaxContacts
    IN  {m \in [1 .. n -> touching] : \A i, j \in 1 .. n : m[i] = m[j] => i = j}

-----------------------------------------------------------------------------
(* The core *)

(* The old contact a new one takes its depth from: the first active one of
   the same surface near it. *)
SameSlot(p, s, i) ==                                           \* mutant
    {j \in Active : j = i /\ contacts[j].surface = s /\ <<contacts[j].point, p>> \in Near}
Candidates(p, s, i) ==
    {j \in Active : contacts[j].surface = s /\ <<contacts[j].point, p>> \in Near}
First(S) == CHOOSE j \in S : \A k \in S : j <= k

(* Depth continuity: the core's own depth unless the client's disagrees. *)
AgreesAbove(mine, theirs) == theirs - mine < Tol               \* mutant
Agrees(mine, theirs) == Distance(mine, theirs) < Tol

Continued(p, s, i, d) ==
    LET old == Candidates(p, s, i)
    IN  IF old # {} /\ Agrees(contacts[First(old)].depth, d)
        THEN contacts[First(old)].depth ELSE d

(* A frame arrives: the client has moved (or jumped) and reports m; the core
   loads it in place of the manifold before. *)
LoadManifold(pose) ==
    /\ left = 0
    /\ deep' = Lifted(pose)
    /\ \E m \in Reports(deep') : \E surface \in [DOMAIN m -> Surfaces] :
           /\ contacts' = [i \in Slots |->
                  IF i \in DOMAIN m
                  THEN [point |-> m[i], surface |-> surface[i],
                        depth |-> Continued(m[i], surface[i], i,
                                            Penetration(deep'[m[i]]))]
                  ELSE NoContact]
           /\ reported' = Slots \cap DOMAIN m
    /\ reckoned' = [i \in Slots |-> contacts'[i].depth]
    /\ still' = (way = [p \in Points |-> 0])
    /\ left' = Subticks
    /\ UNCHANGED way

(* contactForces: the normal force on a slot; never adhesive.  A slot that is
   not active gets none. *)
NormalForce(i) ==
    IF i \in Active
    THEN Clip(Spring * contacts[i].depth - Damper * way[contacts[i].point], 0, FMax)
    ELSE 0

(* advanceContactDepths: a contact that separated stays armed at depth 0. *)
ExpiresAtZero(c, d) == IF d > 0 THEN [c EXCEPT !.depth = d] ELSE NoContact  \* mutant
Advanced(c, d) == [c EXCEPT !.depth = d]

(* calculatePhysics: the contacts' forces and everybody else's, integrated to
   new velocities (any at all), with which the depths then move. *)
Tick(w) ==
    /\ left > 0
    /\ left' = left - 1
    /\ way' = w
    /\ contacts' = [i \in Slots |->
           IF i \in Active
           THEN Advanced(contacts[i],
                         Penetration(contacts[i].depth - w[contacts[i].point]))
           ELSE contacts[i]]
    /\ reckoned' = [i \in Slots |->
           IF i \in Active
           THEN Clip(reckoned[i] - w[contacts[i].point], -Far, DMax) ELSE 0]
    /\ still' = (still /\ w = [p \in Points |-> 0])
    /\ UNCHANGED <<deep, reported>>

(* An idle tick of the server carries no contacts; the world it leaves to the
   next frame has moved. *)
IdleTick(w) ==
    /\ left = 0
    /\ contacts' = NoManifold
    /\ reported' = {}
    /\ way' = w
    /\ reckoned' = [i \in Slots |-> 0]
    /\ still' = FALSE
    /\ UNCHANGED <<deep, left>>

Reset ==
    /\ left = 0
    /\ contacts' = NoManifold
    /\ reported' = {}
    /\ way' = [p \in Points |-> 0]
    /\ reckoned' = [i \in Slots |-> 0]
    /\ still' = FALSE
    /\ UNCHANGED <<deep, left>>

Next ==
    \/ LoadManifold([p \in Points |-> Integrated(p)])
    \/ \E pose \in [Points -> -Far .. Slop] : LoadManifold(pose)
    \/ \E w \in [Points -> Speeds] : Tick(w)
    \/ \E w \in [Points -> Speeds] : IdleTick(w)
    \/ Reset

Spec == Init /\ [][Next]_vars
-----------------------------------------------------------------------------
TypeOK ==
    /\ deep \in [Points -> Depths]
    /\ way \in [Points -> Speeds]
    /\ contacts \in [Slots -> Contact \union {NoContact}]
    /\ reported \subseteq Slots
    /\ left \in 0 .. Subticks
    /\ reckoned \in [Slots -> -Far .. DMax]
    /\ still \in BOOLEAN

(* The two programs agree when a frame is loaded: whatever the core evolved,
   over however many frames and from whichever old contact a new one took its
   depth, it starts from less than Tol beside the client's geometry, so never
   deeper than the slop and the tolerance. *)
WithinTolerance ==
    left = Subticks =>
        \A i \in Active :
            /\ Distance(contacts[i].depth, Penetration(deep[contacts[i].point])) < Tol
            /\ contacts[i].depth < Slop + Tol

(* A reported point is resisted for the whole frame, also when it separated
   and comes back between two reports: a point approaching its
   surface is pushed, and so is one that rests below it by the core's own
   reckoning.  (One already leaving need not be.) *)
ApproachIsResisted ==
    \A i \in reported :
        /\ i \in Active
        /\ LET v == way[contacts[i].point]
           IN  (v < 0 \/ (v = 0 /\ reckoned[i] > 0)) => NormalForce(i) > 0

(* A quad at rest stays at rest: when nothing moved for a frame and the client
   reports the same pose again, in whatever order, no depth changes, so no
   force does.  (Two contacts near each other may swap depths.) *)
Alone(i) == \A j \in Active \ {i} : <<contacts[j].point, contacts[i].point>> \notin Near

RestIsStill ==
    [][ (left = 0 /\ left' = Subticks /\ still /\ deep' = deep) =>
            \A i \in Active, j \in Active' :
                (/\ contacts'[j].point = contacts[i].point
                 /\ contacts'[j].surface = contacts[i].surface
                 /\ Alone(i))
                    => contacts'[j].depth = contacts[i].depth ]_vars
=============================================================================
