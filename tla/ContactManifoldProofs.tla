------------------------ MODULE ContactManifoldProofs ------------------------
(***************************************************************************)
(* The contact model for any hull, any surfaces, any manifold size and any *)
(* stiffness: the two integrators meet at every load, a reported point     *)
(* that approaches its surface is pushed, and rest is not disturbed.       *)
(*                                                                         *)
(* Two facts carry it.  A slot's depth, which stops at zero, never falls   *)
(* below the depth it would have had going negative; and while nothing     *)
(* moves, every depth stays beside the client's geometry.                  *)
(***************************************************************************)
EXTENDS ContactManifold, WellFoundedInduction, TLAPS

AtLeastReckoned == \A i \in Active : reckoned[i] <= contacts[i].depth

Beside(i) == Distance(contacts[i].depth, Penetration(deep[contacts[i].point])) < Tol
StillBeside == still => \A i \in Active : Beside(i)

(* A reported contact stays armed. *)
Armed == reported \subseteq Active

Inv == TypeOK /\ WithinTolerance /\ AtLeastReckoned /\ StillBeside /\ Armed

-----------------------------------------------------------------------------
(* Lengths *)

LEMMA ClipType ==
    ASSUME NEW n \in Int, NEW least \in Int, NEW most \in Int, least <= most
    PROVE  Clip(n, least, most) \in least .. most
BY DEF Clip

LEMMA Sizes ==
    /\ DMax \in Nat /\ Far \in Nat /\ Slop \in Nat /\ Slop <= DMax
    /\ -Far \in Int /\ -Far <= 0 /\ DMax + Far \in Nat
<1>1. DMax \in Nat /\ Far \in Nat /\ Slop \in Nat /\ Slop <= DMax
  BY ContactAssumption
<1> QED BY <1>1

LEMMA PenetrationType ==
    ASSUME NEW n \in Int
    PROVE  /\ Penetration(n) \in 0 .. DMax
           /\ n <= Slop => Penetration(n) <= Slop
BY Sizes DEF Penetration, Clip

(* Clipping at zero gives no less than clipping further down. *)
LEMMA ClipDown ==
    ASSUME NEW a \in Int, NEW b \in Int, a <= b
    PROVE  Clip(a, -Far, DMax) <= Penetration(b)
BY Sizes DEF Penetration, Clip

LEMMA NoContactIsNone == NoContact \notin Contact
<1>1. DOMAIN NoContact = {"depth"}
  BY DEF NoContact
<1>2. \A c \in Contact : DOMAIN c = {"point", "surface", "depth"}
  BY DEF Contact
<1> QED BY <1>1, <1>2

LEMMA ActiveType ==
    ASSUME TypeOK, NEW i \in Active
    PROVE  /\ i \in Slots /\ contacts[i] \in Contact
           /\ contacts[i].point \in Points /\ contacts[i].surface \in Surfaces
           /\ contacts[i].depth \in 0 .. DMax
<1>1. i \in Slots /\ contacts[i] # NoContact
  BY DEF Active
<1>2. contacts[i] \in Contact \union {NoContact}
  BY <1>1 DEF TypeOK
<1>3. contacts[i] \in Contact
  BY <1>1, <1>2
<1> QED BY <1>1, <1>3 DEF Contact

(* There is a first slot in every set of slots that has one. *)
LEMMA FirstIsThere ==
    ASSUME NEW S, S \subseteq Slots, S # {}
    PROVE  First(S) \in S
<1> DEFINE R == {ss \in Nat \X Nat : ss[1] < ss[2]}
<1>1. IsWellFoundedOn(R, Nat)
  BY NatLessThanWellFounded DEF OpToRel
<1>2. S \subseteq Nat
  BY ContactAssumption DEF Slots
<1>3. \E x \in S : \A y \in S : ~(<<y, x>> \in R)
  BY <1>1, <1>2, WFMin
<1>4. \E x \in S : \A y \in S : x <= y
  <2>1. PICK x \in S : \A y \in S : ~(<<y, x>> \in R)
    BY <1>3
  <2>2. \A y \in S : y \in Nat /\ x \in Nat /\ ~(y < x)
    BY <1>2, <2>1
  <2> QED BY <2>2
<1> QED BY <1>4 DEF First

-----------------------------------------------------------------------------
(* A manifold arrives *)

(* Whatever depth a slot starts with lies beside the reported one. *)
LEMMA ContinuedType ==
    ASSUME TypeOK, NEW p \in Points, NEW s \in Surfaces, NEW i \in Slots,
           NEW d \in 0 .. DMax
    PROVE  /\ Continued(p, s, i, d) \in 0 .. DMax
           /\ Distance(Continued(p, s, i, d), d) < Tol
           /\ Continued(p, s, i, d) < d + Tol
<1> DEFINE old == Candidates(p, s, i)
           mine == contacts[First(old)].depth
<1>1. d \in Int /\ Tol \in Nat /\ Tol > 0 /\ Distance(d, d) = 0
  BY ContactAssumption DEF Distance
<1>2. CASE old # {} /\ Agrees(mine, d)
  <2>1. old \subseteq Active /\ Active \subseteq Slots
    BY DEF Candidates, Active
  <2>2. First(old) \in Active
    BY <1>2, <2>1, FirstIsThere
  <2>3. mine \in 0 .. DMax
    BY <2>2, ActiveType
  <2>4. Distance(mine, d) < Tol
    BY <1>2 DEF Agrees
  <2>5. mine < d + Tol
    BY <1>1, <2>3, <2>4 DEF Distance
  <2>6. Continued(p, s, i, d) = mine
    BY <1>2 DEF Continued
  <2> QED BY <2>3, <2>4, <2>5, <2>6
<1>3. CASE ~(old # {} /\ Agrees(mine, d))
  <2>1. Continued(p, s, i, d) = d
    BY <1>3 DEF Continued
  <2> QED BY <1>1, <2>1
<1> QED BY <1>2, <1>3

Poses == [Points -> -Far .. DMax + Far]

(* The lift is that of the deepest point. *)
LEMMA LiftType ==
    ASSUME NEW pose \in Poses
    PROVE  Lift(pose) \in Int
<1>1. /\ Slop \in Nat /\ DMax \in Nat /\ Far \in Nat
      /\ \A p \in Points : pose[p] \in Int /\ pose[p] <= DMax + Far
  BY ContactAssumption DEF Poses
<1>2. CASE ~ \E p \in Points : pose[p] > Slop
  BY <1>2 DEF Lift
<1>3. CASE \E p \in Points : pose[p] > Slop
  <2> DEFINE room == {DMax + Far - pose[p] : p \in Points}
             R == {ss \in Nat \X Nat : ss[1] < ss[2]}
  <2>1. room # {} /\ room \subseteq Nat
    BY <1>1, <1>3
  <2>2. IsWellFoundedOn(R, Nat)
    BY NatLessThanWellFounded DEF OpToRel
  <2>3. \E x \in room : \A y \in room : ~(<<y, x>> \in R)
    BY <2>1, <2>2, WFMin
  <2>4. PICK x \in room : \A y \in room : ~(<<y, x>> \in R)
    BY <2>3
  <2>5. \A y \in room : y \in Nat /\ x \in Nat /\ ~(y < x)
    BY <2>1, <2>4
  <2>6. PICK top \in Points : x = DMax + Far - pose[top]
    BY <2>4
  <2>7. \A p \in Points : pose[p] <= pose[top]
    <3>1. SUFFICES ASSUME NEW p \in Points PROVE pose[p] <= pose[top]
      OBVIOUS
    <3>2. ~(DMax + Far - pose[p] < x)
      BY <2>5
    <3> QED BY <1>1, <2>6, <3>2
  <2> HIDE DEF room, R
  <2>8. pose[top] > Slop
    BY <1>1, <1>3, <2>6, <2>7
  <2> DEFINE d == pose[top] - Slop
  <2>9. /\ d \in 1 .. DMax + Far
        /\ \A p \in Points : pose[p] - d <= Slop
        /\ pose[top] - d = Slop
    BY <1>1, <2>6, <2>7, <2>8
  <2> HIDE DEF d
  <2>10. \E e \in 1 .. DMax + Far :
             /\ \A p \in Points : pose[p] - e <= Slop
             /\ \E p \in Points : pose[p] - e = Slop
    BY <2>6, <2>9
  <2>11. Lift(pose) \in 1 .. DMax + Far
    BY <1>3, <2>10 DEF Lift
  <2> QED BY <1>1, <2>11
<1> QED BY <1>2, <1>3

LEMMA LiftedType ==
    ASSUME NEW pose \in Poses
    PROVE  Lifted(pose) \in [Points -> -Far .. Slop]
<1>1. Lift(pose) \in Int
  BY LiftType
<1>2. \A p \in Points : Clip(pose[p] - Lift(pose), -Far, Slop) \in -Far .. Slop
  <2>1. SUFFICES ASSUME NEW p \in Points
                 PROVE  Clip(pose[p] - Lift(pose), -Far, Slop) \in -Far .. Slop
    OBVIOUS
  <2>2. pose[p] - Lift(pose) \in Int /\ -Far \in Int /\ Slop \in Int /\ -Far <= Slop
    BY <1>1, ContactAssumption DEF Poses
  <2> QED BY <2>2, ClipType
<1> QED BY <1>2 DEF Lifted

(* The poses a frame can arrive with. *)
LEMMA PoseType ==
    ASSUME TypeOK
    PROVE  /\ [p \in Points |-> Integrated(p)] \in Poses
           /\ [Points -> -Far .. Slop] \subseteq Poses
<1>1. ASSUME NEW p \in Points PROVE Integrated(p) \in -Far .. DMax + Far
  <2> DEFINE n == deep[p] - Subticks * way[p]
  <2>1. deep[p] \in Int /\ way[p] \in Int /\ Subticks \in Int
    <3>1. deep[p] \in Depths /\ way[p] \in Speeds
      BY DEF TypeOK
    <3>2. deep[p] \in Int
      BY <3>1, Sizes DEF Depths
    <3>3. Speeds \subseteq Int /\ Subticks \in Nat
      BY ContactAssumption
    <3>4. \A v \in Speeds : v \in Int
      BY <3>3, Zenon
    <3>5. way[p] \in Int
      BY <3>1, <3>4, Zenon
    <3> QED BY <3>2, <3>3, <3>5
  <2>2. n \in Int
    BY <2>1
  <2> HIDE DEF n
  <2>3. -Far <= DMax + Far
    BY Sizes
  <2>4. Clip(n, -Far, DMax + Far) \in -Far .. DMax + Far
    BY <2>2, <2>3, Sizes, ClipType
  <2> QED BY <2>4 DEF Integrated, n
<1>2. -Far .. Slop \subseteq -Far .. DMax + Far
  BY Sizes
<1> QED BY <1>1, <1>2 DEF Poses

(* What a load leaves behind. *)
LEMMA LoadedType ==
    ASSUME TypeOK, NEW pose \in Poses, LoadManifold(pose)
    PROVE  /\ TypeOK' /\ Armed'
           /\ \A i \in Active' :
                  /\ Distance(contacts'[i].depth, Penetration(deep'[contacts'[i].point])) < Tol
                  /\ contacts'[i].depth < Slop + Tol
                  /\ reckoned'[i] = contacts'[i].depth
<1>1. deep' \in [Points -> -Far .. Slop]
  BY LiftedType DEF LoadManifold
<1>2. \A p \in Points : /\ deep'[p] \in Int
                        /\ Penetration(deep'[p]) \in 0 .. DMax
                        /\ Penetration(deep'[p]) <= Slop
  BY <1>1, PenetrationType, ContactAssumption
<1>a. PICK m \in Reports(deep') : \E surface \in [DOMAIN m -> Surfaces] :
          /\ contacts' = [i \in Slots |->
                 IF i \in DOMAIN m
                 THEN [point |-> m[i], surface |-> surface[i],
                       depth |-> Continued(m[i], surface[i], i,
                                           Penetration(deep'[m[i]]))]
                 ELSE NoContact]
          /\ reported' = Slots \cap DOMAIN m
  BY Zenon DEF LoadManifold
<1>3. PICK surface \in [DOMAIN m -> Surfaces] :
          /\ contacts' = [i \in Slots |->
                 IF i \in DOMAIN m
                 THEN [point |-> m[i], surface |-> surface[i],
                       depth |-> Continued(m[i], surface[i], i,
                                           Penetration(deep'[m[i]]))]
                 ELSE NoContact]
          /\ reported' = Slots \cap DOMAIN m
  BY <1>a, Zenon
<1>4. \A i \in DOMAIN m : m[i] \in Points
  BY DEF Reports
<1>5. ASSUME NEW i \in Slots, i \in DOMAIN m
      PROVE  /\ contacts'[i] \in Contact
             /\ Distance(contacts'[i].depth, Penetration(deep'[contacts'[i].point])) < Tol
             /\ contacts'[i].depth < Slop + Tol
  <2> DEFINE d == Penetration(deep'[m[i]])
             c == Continued(m[i], surface[i], i, d)
  <2>1. m[i] \in Points /\ surface[i] \in Surfaces
    BY <1>4, <1>5
  <2>2. d \in 0 .. DMax /\ d <= Slop
    BY <1>2, <2>1
  <2>3. c \in 0 .. DMax /\ Distance(c, d) < Tol /\ c < d + Tol
    <3> HIDE DEF d
    <3> QED BY <2>1, <2>2, ContinuedType
  <2>4. c < Slop + Tol
    <3> HIDE DEF d, c
    <3> QED BY <2>2, <2>3, ContactAssumption
  <2>5. contacts'[i] = [point |-> m[i], surface |-> surface[i], depth |-> c]
    BY <1>3, <1>5
  <2> QED BY <2>1, <2>3, <2>4, <2>5 DEF Contact
<1>6. ASSUME NEW i \in Slots, i \notin DOMAIN m
      PROVE  contacts'[i] = NoContact
  BY <1>3, <1>6
<1>7. contacts' \in [Slots -> Contact \union {NoContact}]
  <2>1. contacts' = [i \in Slots |-> contacts'[i]]
    BY <1>3, Zenon
  <2>2. \A i \in Slots : contacts'[i] \in Contact \union {NoContact}
    BY <1>5, <1>6
  <2> QED BY <2>1, <2>2, Zenon
<1>8. \A i \in Slots : contacts'[i].depth \in 0 .. DMax
  BY <1>5, <1>6, ContactAssumption DEF Contact, NoContact
<1>9. reckoned' = [i \in Slots |-> contacts'[i].depth]
  BY DEF LoadManifold
<1>10. reckoned' \in [Slots -> -Far .. DMax]
  <2>1. 0 .. DMax \subseteq -Far .. DMax
    BY ContactAssumption
  <2> QED BY <1>8, <1>9, <2>1
<1>11. deep' \in [Points -> Depths]
  <2>1. -Far .. Slop \subseteq Depths
    BY ContactAssumption DEF Depths
  <2> QED BY <1>1, <2>1
<1>12. left' \in 0 .. Subticks /\ way' \in [Points -> Speeds] /\ still' \in BOOLEAN
  <2>1. left' = Subticks /\ way' = way /\ still' = (way = [p \in Points |-> 0])
    BY DEF LoadManifold
  <2> QED BY <2>1, ContactAssumption DEF TypeOK
<1>13. TypeOK'
  <2>1. reported' \subseteq Slots
    BY <1>3
  <2> QED BY <1>7, <1>10, <1>11, <1>12, <2>1 DEF TypeOK
<1>14. ASSUME NEW i \in Active'
       PROVE  i \in Slots /\ i \in DOMAIN m
  BY <1>6 DEF Active
<1>15. Armed'
  <2>1. \A i \in reported' : i \in Slots /\ i \in DOMAIN m
    BY <1>3
  <2> QED BY <1>5, <2>1, NoContactIsNone DEF Armed, Active
<1> QED BY <1>5, <1>9, <1>13, <1>14, <1>15

-----------------------------------------------------------------------------
(* The other operations *)

LEMMA TickedType ==
    ASSUME TypeOK, NEW w \in [Points -> Speeds], Tick(w)
    PROVE  /\ TypeOK' /\ Active' = Active /\ reported' = reported
           /\ AtLeastReckoned => AtLeastReckoned'
           /\ w = [p \in Points |-> 0] =>
                  \A i \in Active : contacts'[i].depth = contacts[i].depth
<1> DEFINE moved(i) == [contacts[i] EXCEPT !.depth =
                            Penetration(contacts[i].depth - w[contacts[i].point])]
<1>1. contacts' = [i \in Slots |-> IF i \in Active THEN moved(i) ELSE contacts[i]]
  BY Zenon DEF Tick, Advanced
<1>2. ASSUME NEW i \in Active
      PROVE  /\ contacts[i] \in Contact
             /\ contacts[i].depth \in 0 .. DMax
             /\ w[contacts[i].point] \in Int
             /\ contacts[i].depth - w[contacts[i].point] \in Int
  <2>1. contacts[i] \in Contact /\ contacts[i].point \in Points
        /\ contacts[i].depth \in 0 .. DMax
    BY ActiveType
  <2>2. Speeds \subseteq Int
    BY ContactAssumption
  <2>3. w[contacts[i].point] \in Int
    BY <2>1, <2>2
  <2> QED BY <2>1, <2>3, Sizes
<1>3. ASSUME NEW i \in Active
      PROVE  /\ i \in Slots
             /\ contacts'[i] \in Contact
             /\ contacts'[i].depth =
                    Penetration(contacts[i].depth - w[contacts[i].point])
  <2> DEFINE d == Penetration(contacts[i].depth - w[contacts[i].point])
  <2>1. i \in Slots /\ contacts'[i] = [contacts[i] EXCEPT !.depth = d]
    BY <1>1 DEF Active
  <2>2. d \in 0 .. DMax
    BY <1>2, PenetrationType
  <2> HIDE DEF d
  <2>3. contacts[i] \in Contact
    BY <1>2
  <2>4. contacts'[i] \in Contact /\ contacts'[i].depth = d
    BY <2>1, <2>2, <2>3 DEF Contact
  <2> QED BY <2>1, <2>4 DEF d
<1>4. ASSUME NEW i \in Slots, i \notin Active
      PROVE  contacts'[i] = NoContact
  BY <1>1, <1>4 DEF Active
<1>5. Active' = Active
  BY <1>3, <1>4, NoContactIsNone DEF Active
<1>6. contacts' \in [Slots -> Contact \union {NoContact}]
  <2>1. contacts' = [i \in Slots |-> contacts'[i]]
    BY <1>1, Zenon
  <2>2. \A i \in Slots : contacts'[i] \in Contact \union {NoContact}
    BY <1>3, <1>4
  <2> QED BY <2>1, <2>2, Zenon
<1>7. reckoned' = [i \in Slots |->
           IF i \in Active
           THEN Clip(reckoned[i] - w[contacts[i].point], -Far, DMax) ELSE 0]
  BY DEF Tick
<1>8. ASSUME NEW i \in Active
      PROVE  reckoned[i] - w[contacts[i].point] \in Int
  <2>1. reckoned[i] \in -Far .. DMax
    BY DEF TypeOK, Active
  <2> QED BY <1>2, <2>1, Sizes
<1>9. reckoned' \in [Slots -> -Far .. DMax]
  <2>1. ASSUME NEW i \in Active
        PROVE  Clip(reckoned[i] - w[contacts[i].point], -Far, DMax) \in -Far .. DMax
    <3> DEFINE n == reckoned[i] - w[contacts[i].point]
    <3>1. n \in Int /\ -Far \in Int /\ DMax \in Int /\ -Far <= DMax
      BY <1>8, Sizes
    <3> HIDE DEF n
    <3>2. Clip(n, -Far, DMax) \in -Far .. DMax
      BY <3>1, ClipType
    <3> QED BY <3>2 DEF n
  <2>2. 0 \in -Far .. DMax
    BY Sizes
  <2> QED BY <1>7, <2>1, <2>2
<1>10. left' \in 0 .. Subticks /\ way' \in [Points -> Speeds] /\ still' \in BOOLEAN
       /\ deep' \in [Points -> Depths]
  <2>1. left > 0 /\ left' = left - 1 /\ way' = w /\ deep' = deep
        /\ still' = (still /\ w = [p \in Points |-> 0])
    BY DEF Tick
  <2>2. left \in 0 .. Subticks /\ Subticks \in Nat
    BY ContactAssumption DEF TypeOK
  <2> QED BY <2>1, <2>2 DEF TypeOK
<1>11. TypeOK' /\ reported' = reported
  BY <1>6, <1>9, <1>10 DEF Tick, TypeOK
<1>12. ASSUME AtLeastReckoned, NEW i \in Active
       PROVE  reckoned'[i] <= contacts'[i].depth
  <2>1. reckoned[i] <= contacts[i].depth
    BY <1>12 DEF AtLeastReckoned
  <2>2. reckoned[i] - w[contacts[i].point] <= contacts[i].depth - w[contacts[i].point]
    <3>1. reckoned[i] \in -Far .. DMax
      BY DEF TypeOK, Active
    <3>2. reckoned[i] \in Int
      BY <3>1, Sizes
    <3> QED BY <1>2, <2>1, <3>2, Sizes
  <2>3. Clip(reckoned[i] - w[contacts[i].point], -Far, DMax)
            <= Penetration(contacts[i].depth - w[contacts[i].point])
    BY <1>2, <1>8, <2>2, ClipDown
  <2>4. reckoned'[i] = Clip(reckoned[i] - w[contacts[i].point], -Far, DMax)
    BY <1>3, <1>7
  <2> QED BY <1>3, <2>3, <2>4
<1>13. ASSUME w = [p \in Points |-> 0], NEW i \in Active
       PROVE  contacts'[i].depth = contacts[i].depth
  <2>1. w[contacts[i].point] = 0
    BY <1>13, ActiveType
  <2>2. contacts[i].depth - w[contacts[i].point] = contacts[i].depth
        /\ contacts[i].depth \in 0 .. DMax
    BY <1>2, <2>1
  <2>3. Penetration(contacts[i].depth) = contacts[i].depth
    BY <2>2, Sizes DEF Penetration, Clip
  <2> QED BY <1>3, <2>2, <2>3
<1> QED BY <1>5, <1>11, <1>12, <1>13 DEF AtLeastReckoned

(* Between the frames the manifold is dropped. *)
LEMMA DroppedType ==
    ASSUME TypeOK, left = 0, contacts' = NoManifold, reported' = {}, way' \in [Points -> Speeds],
           reckoned' = [i \in Slots |-> 0], still' = FALSE, UNCHANGED <<deep, left>>
    PROVE  TypeOK' /\ Active' = {}
<1>1. Active' = {}
  BY DEF Active, NoManifold
<1>2. contacts' \in [Slots -> Contact \union {NoContact}]
  BY DEF NoManifold
<1>3. 0 \in -Far .. DMax
  BY Sizes
<1>4. reckoned' \in [Slots -> -Far .. DMax]
  BY <1>3
<1> QED BY <1>1, <1>2, <1>4 DEF TypeOK

-----------------------------------------------------------------------------
(* Every pose a frame arrives with *)
Loads == \E pose \in Poses : LoadManifold(pose)

LEMMA NextCases ==
    ASSUME TypeOK, Next
    PROVE  \/ Loads
           \/ \E w \in [Points -> Speeds] : Tick(w)
           \/ /\ left = 0 /\ contacts' = NoManifold /\ way' \in [Points -> Speeds]
              /\ reported' = {} /\ reckoned' = [i \in Slots |-> 0] /\ still' = FALSE
              /\ UNCHANGED <<deep, left>>
<1>1. CASE LoadManifold([p \in Points |-> Integrated(p)])
  BY <1>1, PoseType DEF Loads
<1>2. CASE \E pose \in [Points -> -Far .. Slop] : LoadManifold(pose)
  BY <1>2, PoseType DEF Loads
<1>3. CASE \E w \in [Points -> Speeds] : Tick(w)
  BY <1>3
<1>4. CASE \E w \in [Points -> Speeds] : IdleTick(w)
  BY <1>4 DEF IdleTick
<1>5. CASE Reset
  <2>1. [p \in Points |-> 0] \in [Points -> Speeds]
    BY ContactAssumption
  <2> QED BY <1>5, <2>1 DEF Reset
<1> QED BY <1>1, <1>2, <1>3, <1>4, <1>5 DEF Next

LEMMA InitInv == Init => Inv
<1> SUFFICES ASSUME Init PROVE Inv
  OBVIOUS
<1>1. Active = {}
  BY DEF Init, Active, NoManifold
<1>2. 0 \in Depths /\ 0 \in -Far .. DMax /\ 0 \in 0 .. Subticks /\ 0 \in Speeds
  <2>1. Subticks \in Nat
    BY ContactAssumption
  <2> QED BY <2>1, Sizes, ContactAssumption DEF Depths
<1>3. contacts \in [Slots -> Contact \union {NoContact}]
  BY DEF Init, NoManifold
<1>4. TypeOK
  BY <1>2, <1>3 DEF Init, TypeOK
<1>5. Armed
  BY DEF Init, Armed
<1> QED BY <1>1, <1>4, <1>5 DEF Inv, WithinTolerance, AtLeastReckoned, StillBeside

LEMMA StepInv == Inv /\ [Next]_vars => Inv'
<1> SUFFICES ASSUME Inv, [Next]_vars PROVE Inv'
  OBVIOUS
<1>1. TypeOK /\ WithinTolerance /\ AtLeastReckoned /\ StillBeside /\ Armed
  BY DEF Inv
<1>2. CASE Loads
  <2>1. PICK pose \in Poses : LoadManifold(pose)
    BY <1>2 DEF Loads
  <2>2. /\ TypeOK' /\ Armed'
        /\ \A i \in Active' :
               /\ Distance(contacts'[i].depth, Penetration(deep'[contacts'[i].point])) < Tol
               /\ contacts'[i].depth < Slop + Tol
               /\ reckoned'[i] = contacts'[i].depth
    BY <1>1, <2>1, LoadedType
  <2>3. \A i \in Active' : contacts'[i].depth \in Int
    <3>1. \A i \in Active' : contacts'[i] \in Contact
      BY <2>2 DEF Active, TypeOK
    <3> QED BY <3>1, Sizes DEF Contact
  <2>4. AtLeastReckoned'
    BY <2>2, <2>3 DEF AtLeastReckoned
  <2> QED BY <2>2, <2>4 DEF Inv, WithinTolerance, StillBeside, Beside
<1>3. CASE \E w \in [Points -> Speeds] : Tick(w)
  <2>1. PICK w \in [Points -> Speeds] : Tick(w)
    BY <1>3
  <2>2. /\ TypeOK' /\ Active' = Active /\ reported' = reported /\ AtLeastReckoned'
        /\ w = [p \in Points |-> 0] =>
               \A i \in Active : contacts'[i].depth = contacts[i].depth
    BY <1>1, <2>1, TickedType
  <2>3. WithinTolerance'
    <3>1. left > 0 /\ left' = left - 1 /\ left \in 0 .. Subticks /\ Subticks \in Nat
      BY <1>1, <2>1, ContactAssumption DEF Tick, TypeOK
    <3> QED BY <3>1 DEF WithinTolerance
  <2>4. StillBeside'
    <3> SUFFICES ASSUME still', NEW i \in Active'
                 PROVE  Distance(contacts'[i].depth, Penetration(deep'[contacts'[i].point])) < Tol
      BY DEF StillBeside, Beside
    <3>1. still /\ w = [p \in Points |-> 0] /\ deep' = deep
      BY <2>1 DEF Tick
    <3>2. i \in Active /\ contacts'[i].depth = contacts[i].depth
      BY <2>2, <3>1
    <3>3. contacts'[i].point = contacts[i].point
      <4>1. i \in Slots /\ contacts[i] \in Contact
        BY <1>1, <3>2, ActiveType
      <4>2. contacts'[i] = [contacts[i] EXCEPT !.depth =
                                Penetration(contacts[i].depth - w[contacts[i].point])]
        BY <2>1, <3>2, <4>1 DEF Tick, Advanced
      <4> QED BY <4>1, <4>2 DEF Contact
    <3>4. Beside(i)
      BY <1>1, <3>1, <3>2 DEF StillBeside
    <3> QED BY <3>1, <3>2, <3>3, <3>4 DEF Beside
  <2>5. Armed'
    BY <1>1, <2>2 DEF Armed
  <2> QED BY <2>2, <2>3, <2>4, <2>5 DEF Inv
<1>4. CASE /\ left = 0 /\ contacts' = NoManifold /\ way' \in [Points -> Speeds]
           /\ reported' = {} /\ reckoned' = [i \in Slots |-> 0] /\ still' = FALSE
           /\ UNCHANGED <<deep, left>>
  <2>1. TypeOK' /\ Active' = {}
    BY <1>1, <1>4, DroppedType
  <2> QED BY <1>4, <2>1 DEF Inv, WithinTolerance, AtLeastReckoned, StillBeside, Armed
<1>5. CASE UNCHANGED vars
  <2>1. TypeOK' /\ Armed'
    BY <1>1, <1>5 DEF vars, TypeOK, Armed, Active
  <2>2. WithinTolerance' /\ AtLeastReckoned' /\ StillBeside'
    BY <1>1, <1>5 DEF vars, WithinTolerance, AtLeastReckoned, StillBeside, Beside, Active
  <2> QED BY <2>1, <2>2 DEF Inv
<1>6. Next => Loads \/ (\E w \in [Points -> Speeds] : Tick(w))
              \/ (/\ left = 0 /\ contacts' = NoManifold /\ way' \in [Points -> Speeds]
                  /\ reported' = {} /\ reckoned' = [i \in Slots |-> 0] /\ still' = FALSE
                  /\ UNCHANGED <<deep, left>>)
  BY <1>1, NextCases
<1> QED BY <1>2, <1>3, <1>4, <1>5, <1>6

(* What holds at every step of the two programs (physics.cpp, updateState and
   calculatePhysics; the tester's and the clients' manifold). *)
THEOREM ContactsInvariant == Spec => []Inv
<1>1. Init => Inv
  BY InitInv
<1>2. Inv /\ [Next]_vars => Inv'
  BY StepInv
<1> QED BY <1>1, <1>2, PTL DEF Spec

(* Depths, slots and points keep their ranges, for any manifold and hull. *)
THEOREM ContactTypes == Spec => []TypeOK
<1>1. Inv => TypeOK
  BY DEF Inv
<1> QED BY <1>1, ContactsInvariant, PTL

(* Whatever the core evolved, a load brings it back beside the client's
   geometry (updateState's re-anchoring). *)
THEOREM LoadsAgree == Spec => []WithinTolerance
<1>1. Inv => WithinTolerance
  BY DEF Inv
<1> QED BY <1>1, ContactsInvariant, PTL

-----------------------------------------------------------------------------
(* Forces *)

LEMMA PushIsPositive ==
    ASSUME TypeOK, AtLeastReckoned, NEW i \in Active,
           \/ way[contacts[i].point] < 0
           \/ way[contacts[i].point] = 0 /\ reckoned[i] > 0
    PROVE  NormalForce(i) > 0
<1> DEFINE d == contacts[i].depth
           v == way[contacts[i].point]
           push == Spring * d - Damper * v
<1>1. d \in Nat /\ v \in Int
  <2>1. contacts[i].point \in Points /\ d \in 0 .. DMax
    BY ActiveType
  <2>2. v \in Speeds /\ \A s \in Speeds : s \in Int
    BY <2>1, ContactAssumption DEF TypeOK
  <2> QED BY <2>1, <2>2, Sizes
<1>2. Spring \in Nat \ {0} /\ Damper \in Nat \ {0} /\ FMax \in Nat \ {0}
  BY ContactAssumption
<1>3. reckoned[i] \in Int /\ reckoned[i] <= d
  <2>1. reckoned[i] \in -Far .. DMax
    BY DEF TypeOK, Active
  <2> QED BY <2>1, Sizes DEF AtLeastReckoned
<1>4. v < 0 \/ (v = 0 /\ d > 0)
  BY <1>1, <1>3
<1>5. push \in Int /\ push > 0
  <2>1. \A a, b \in Nat : a * b \in Nat /\ (a > 0 /\ b > 0 => a * b > 0)
    OBVIOUS
  <2>2. Spring * d \in Nat /\ (d > 0 => Spring * d > 0)
    BY <1>1, <1>2, <2>1
  <2>3. CASE v < 0
    <3> DEFINE u == 0 - v
    <3>1. u \in Nat /\ u > 0
      BY <1>1, <2>3
    <3>2. Damper * u \in Nat /\ Damper * u > 0
      <4> HIDE DEF u
      <4> QED BY <1>2, <2>1, <3>1
    <3>3. Damper * v = 0 - Damper * u
      BY <1>1, <1>2
    <3> QED BY <2>2, <3>2, <3>3
  <2>4. CASE v = 0 /\ d > 0
    <3>1. Damper * v = 0
      BY <1>2, <2>4
    <3> QED BY <2>2, <2>4, <3>1
  <2> QED BY <1>4, <2>3, <2>4
<1>6. Clip(push, 0, FMax) > 0
  <2> HIDE DEF push
  <2> QED BY <1>2, <1>5 DEF Clip
<1>7. NormalForce(i) = Clip(push, 0, FMax)
  BY Zenon DEF NormalForce
<1> HIDE DEF push
<1> QED BY <1>6, <1>7

(* A reported point that approaches its surface, or is below it, is pushed
   until the next report (contactForces, advanceContactDepths). *)
THEOREM ApproachesArePushed == Spec => []ApproachIsResisted
<1>1. Inv => ApproachIsResisted
  <2> SUFFICES ASSUME Inv, NEW i \in reported
               PROVE  /\ i \in Active
                      /\ (\/ way[contacts[i].point] < 0
                          \/ way[contacts[i].point] = 0 /\ reckoned[i] > 0)
                             => NormalForce(i) > 0
    BY DEF ApproachIsResisted
  <2>1. TypeOK /\ AtLeastReckoned /\ i \in Active
    BY DEF Inv, Armed
  <2> QED BY <2>1, PushIsPositive
<1> QED BY <1>1, ContactsInvariant, PTL

LEMMA LoadAtRest ==
    ASSUME Inv, Next, left = 0, left' = Subticks, still, deep' = deep,
           NEW i \in Active, NEW j \in Active',
           contacts'[j].point = contacts[i].point,
           contacts'[j].surface = contacts[i].surface,
           Alone(i)
    PROVE  contacts'[j].depth = contacts[i].depth
<1>1. TypeOK /\ Beside(i)
  BY DEF Inv, StillBeside
<1>2. Loads
  <2>1. Subticks \in Nat \ {0}
    BY ContactAssumption
  <2>2. ASSUME NEW w \in [Points -> Speeds], Tick(w) PROVE FALSE
    BY <2>2 DEF Tick
  <2>3. ~(UNCHANGED <<deep, left>>)
    BY <2>1
  <2> QED BY <1>1, <2>2, <2>3, NextCases
<1>3. PICK pose \in Poses : LoadManifold(pose)
  BY <1>2 DEF Loads
<1>a. PICK m \in Reports(deep') : \E surface \in [DOMAIN m -> Surfaces] :
          /\ contacts' = [k \in Slots |->
                 IF k \in DOMAIN m
                 THEN [point |-> m[k], surface |-> surface[k],
                       depth |-> Continued(m[k], surface[k], k,
                                           Penetration(deep'[m[k]]))]
                 ELSE NoContact]
          /\ reported' = Slots \cap DOMAIN m
  BY <1>3, Zenon DEF LoadManifold
<1>4. PICK surface \in [DOMAIN m -> Surfaces] :
          /\ contacts' = [k \in Slots |->
                 IF k \in DOMAIN m
                 THEN [point |-> m[k], surface |-> surface[k],
                       depth |-> Continued(m[k], surface[k], k,
                                           Penetration(deep'[m[k]]))]
                 ELSE NoContact]
          /\ reported' = Slots \cap DOMAIN m
  BY <1>a, Zenon
<1> DEFINE p == m[j]
           s == surface[j]
           d == Penetration(deep[p])
<1>5. j \in Slots /\ j \in DOMAIN m
  BY <1>4 DEF Active
<1>6. contacts'[j] = [point |-> p, surface |-> s, depth |-> Continued(p, s, j, d)]
  BY <1>4, <1>5
<1>7. p = contacts[i].point /\ s = contacts[i].surface
  BY <1>6
<1>8. Candidates(p, s, j) = {i}
  <2>1. contacts[i].point \in Points
    BY <1>1, ActiveType
  <2>2. <<contacts[i].point, contacts[i].point>> \in Near
    BY <2>1, ContactAssumption
  <2>3. \A k \in Active : <<contacts[k].point, contacts[i].point>> \in Near => k = i
    BY DEF Alone
  <2> QED BY <1>7, <2>2, <2>3 DEF Candidates
<1>9. First({i}) = i
  <2>1. First({i}) \in {i}
    BY <1>1, ActiveType, FirstIsThere
  <2> QED BY <2>1
<1>10. Agrees(contacts[i].depth, d)
  BY <1>1, <1>7 DEF Beside, Agrees
<1>11. Continued(p, s, j, d) = contacts[i].depth
  BY <1>8, <1>9, <1>10 DEF Continued
<1> QED BY <1>6, <1>11

(* A frame in which nothing moved changes no depth: a parked quad keeps its
   weight on the same springs (updateState's depth continuity). *)
THEOREM RestStaysStill == Spec => RestIsStill
<1>1. Inv /\ [Next]_vars =>
          ((left = 0 /\ left' = Subticks /\ still /\ deep' = deep) =>
            \A i \in Active, j \in Active' :
                (/\ contacts'[j].point = contacts[i].point
                 /\ contacts'[j].surface = contacts[i].surface
                 /\ Alone(i))
                    => contacts'[j].depth = contacts[i].depth)
  <2>1. ASSUME Inv, UNCHANGED vars, left = 0, left' = Subticks PROVE FALSE
    BY <2>1, ContactAssumption DEF vars
  <2> QED BY <2>1, LoadAtRest
<1> QED BY <1>1, ContactsInvariant, PTL DEF Spec, RestIsStill
=============================================================================
