------------------------ MODULE StaticSnapshotProofs ------------------------
(***************************************************************************)
(* The copy-back of static_snapshot.cpp is exact for every set of disjoint *)
(* sections and every list of exclusions.                                  *)
(*                                                                         *)
(* The invariant follows the walk.  Bytes behind pos have their final      *)
(* value, bytes ahead are untouched; and while the next hole is searched,  *)
(* the exclusions looked at so far leave pos .. holeStart - 1 free and     *)
(* cover holeStart .. holeEnd - 1.                                         *)
(***************************************************************************)
EXTENDS StaticSnapshot, TLAPS

Walking == pc \in {"piece", "look", "copy"}

Final(a) == IF a \in Captured \ Protected THEN boot[a] ELSE before[a]

Behind(a) ==
    \/ \E i \in 1 .. Len(Sections) : i < region /\ a \in Bytes(Sections[i])
    \/ Walking /\ a \in Bytes(Sections[region]) /\ a < pos

Progress ==
    pc # "run" => \A a \in Addrs : mem[a] = IF Behind(a) THEN Final(a) ELSE before[a]

InSection ==
    Walking => /\ region \in 1 .. Len(Sections)
               /\ Sections[region].addr <= pos
               /\ pos <= End

HoleSoFar ==
    pc \in {"look", "copy"} =>
        /\ pos < End
        /\ pos <= holeStart /\ holeStart <= holeEnd /\ holeEnd <= End
        /\ pos < holeEnd
        /\ \A i \in 1 .. e - 1, a \in Addrs :
               a \in Bytes(exclusions[i]) => a < pos \/ holeStart <= a
        /\ \A a \in Addrs : holeStart <= a /\ a < holeEnd =>
               \E i \in 1 .. e - 1 : a \in Bytes(exclusions[i])

AllSeen == pc = "copy" => e = Len(exclusions) + 1

FromBoot == (taken => copy = boot) /\ (pc # "run" => taken)

WalkInv == TypeOK /\ Progress /\ InSection /\ HoleSoFar /\ AllSeen /\ FromBoot

-----------------------------------------------------------------------------
(* Types *)

LEMMA SectionRange ==
    ASSUME NEW i \in 1 .. Len(Sections)
    PROVE  /\ Sections[i].addr \in Nat
           /\ Sections[i].size \in Nat
           /\ Sections[i].addr + Sections[i].size <= Top
<1>1. Sections[i] \in Range /\ Within(Sections[i])
  BY SectionAssumption
<1>2. Sections[i].addr \in 0 .. Top /\ Sections[i].size \in 0 .. Top
  BY <1>1 DEF Range
<1> QED BY <1>1, <1>2, TopAssumption DEF Within

LEMMA ExclusionRange ==
    ASSUME TypeOK, NEW i \in 1 .. Len(exclusions)
    PROVE  exclusions[i].addr \in Nat /\ exclusions[i].size \in Nat
<1>1. exclusions[i] \in Range
  BY DEF TypeOK
<1>2. exclusions[i].addr \in 0 .. Top /\ exclusions[i].size \in 0 .. Top
  BY <1>1 DEF Range
<1> QED BY <1>2, TopAssumption

LEMMA ExcludedTypes ==
    ASSUME TypeOK, NEW x \in Range
    PROVE  /\ Excluded(x) \in Seq(Range)
           /\ Len(exclusions) <= Len(Excluded(x))
           /\ \A i \in 1 .. Len(exclusions) : Excluded(x)[i] = exclusions[i]
           /\ taken => Excluded(x) = exclusions
BY DEF TypeOK, Excluded

LEMMA TypesKept == TypeOK /\ InSection /\ HoleSoFar /\ [Next]_vars => TypeOK'
<1> SUFFICES ASSUME TypeOK, InSection, HoleSoFar, [Next]_vars PROVE TypeOK'
  OBVIOUS
<1> USE TopAssumption, RangeAssumption
<1>1. CASE UNCHANGED vars
  BY <1>1 DEF TypeOK, vars
<1>2. ASSUME NEW x \in Ranges, Exclude(x)
      PROVE  TypeOK'
  <2>1. x \in Range
    OBVIOUS
  <2>2. exclusions' \in Seq(Range) /\ Len(exclusions) <= Len(exclusions')
    BY <1>2, <2>1, ExcludedTypes DEF Exclude
  <2>3. e' \in 1 .. Len(exclusions') + 1
    BY <1>2, <2>2 DEF TypeOK, Exclude, walk
  <2> QED BY <1>2, <2>2, <2>3 DEF TypeOK, Exclude, walk
<1>3. CASE Take
  <2>1. exclusions' \in Seq(Range) /\ Len(exclusions) <= Len(exclusions')
    BY <1>3, ExcludedTypes DEF Take
  <2>2. e' \in 1 .. Len(exclusions') + 1
    BY <1>3, <2>1 DEF TypeOK, Take, walk
  <2> QED BY <1>3, <2>1, <2>2 DEF TypeOK, Take, walk
<1>4. ASSUME NEW image \in Images, Execute(image)
      PROVE  TypeOK'
  BY <1>4 DEF TypeOK, Execute, walk
<1>5. CASE Restore
  BY <1>5, SectionAssumption DEF TypeOK, Restore
<1>6. CASE NextSection
  <2>1. region \in 1 .. Len(Sections)
    BY <1>6, SectionAssumption DEF TypeOK, NextSection
  <2>2. pos' \in 0 .. Top
    BY <1>6, <2>1, SectionRange DEF NextSection
  <2> QED BY <1>6, <2>2 DEF TypeOK, NextSection
<1>7. CASE Restored
  BY <1>7 DEF TypeOK, Restored, walk
<1>8. CASE NextPiece
  <2>1. region \in 1 .. Len(Sections)
    BY <1>8 DEF InSection, Walking, NextPiece
  <2>2. End \in 0 .. Top
    BY <2>1, SectionRange DEF End
  <2>3. e' \in 1 .. Len(exclusions') + 1
    BY <1>8 DEF NextPiece, TypeOK
  <2> QED BY <1>8, <2>2, <2>3 DEF TypeOK, NextPiece
<1>9. CASE SectionDone
  <2>1. region \in 1 .. Len(Sections)
    BY <1>9 DEF InSection, Walking, SectionDone
  <2>2. region' \in 1 .. Len(Sections) + 1
    BY <1>9, <2>1, SectionAssumption DEF SectionDone
  <2> QED BY <1>9, <2>2 DEF TypeOK, SectionDone
<1>10. CASE Look
  <2>1. e \in 1 .. Len(exclusions) /\ region \in 1 .. Len(Sections)
    BY <1>10 DEF TypeOK, Look, InSection, Walking
  <2>2. End \in 0 .. Top
    BY <2>1, SectionRange DEF End
  <2>3. exclusions[e].addr \in Nat /\ exclusions[e].size \in Nat
    BY <2>1, ExclusionRange
  <2>4. e' \in 1 .. Len(exclusions') + 1
    BY <1>10, <2>1 DEF Look, TypeOK
  <2>5. holeStart' \in 0 .. Top /\ holeEnd' \in 0 .. Top
    <3> DEFINE es == exclusions[e].addr
               ee == es + exclusions[e].size
    <3>1. CASE Nearer(es, ee)
      <4>1. holeStart' = IF es < pos THEN pos ELSE es
        BY <1>10, <3>1 DEF Look
      <4>2. holeEnd' = Clipped(ee)
        BY <1>10, <3>1 DEF Look
      <4>a. pos \in 0 .. Top /\ holeStart \in 0 .. Top
        BY DEF TypeOK
      <4>b. es \in Nat /\ ee \in Nat
        BY <2>3
      <4>3. pos \in 0 .. Top /\ holeStart \in 0 .. Top /\ es \in Nat /\ ee \in Nat
        BY <4>a, <4>b
      <4> HIDE DEF es, ee
      <4>4. holeStart' \in 0 .. Top
        BY <3>1, <4>1, <4>3 DEF Nearer
      <4>5. holeEnd' \in 0 .. Top
        BY <2>2, <4>2, <4>3 DEF Clipped
      <4> QED BY <4>4, <4>5
    <3>2. CASE ~Nearer(es, ee)
      BY <1>10, <3>2 DEF Look, TypeOK
    <3> QED BY <3>1, <3>2
  <2> QED BY <1>10, <2>4, <2>5 DEF TypeOK, Look
<1>11. CASE Looked
  BY <1>11 DEF TypeOK, Looked, walk
<1>12. CASE CopyPiece
  <2>1. mem' \in [Addrs -> Values]
    BY <1>12 DEF CopyPiece, TypeOK
  <2>2. pos' \in 0 .. Top
    BY <1>12 DEF CopyPiece, PastTheHole, HoleSoFar, TypeOK
  <2> QED BY <1>12, <2>1, <2>2 DEF TypeOK, CopyPiece
<1> QED BY <1>1, <1>2, <1>3, <1>4, <1>5, <1>6, <1>7, <1>8, <1>9, <1>10, <1>11, <1>12
        DEF Next, RestoreStep

-----------------------------------------------------------------------------
(* The search for the next hole *)

LEMMA InSectionKept ==
    TypeOK /\ InSection /\ HoleSoFar /\ [Next]_vars => InSection'
<1> SUFFICES ASSUME TypeOK, InSection, HoleSoFar, [Next]_vars PROVE InSection'
  OBVIOUS
<1> USE TopAssumption
<1>1. CASE UNCHANGED vars
  BY <1>1 DEF InSection, Walking, End, vars
<1>2. CASE \/ \E x \in Ranges : Exclude(x)
           \/ Take
           \/ \E image \in Images : Execute(image)
           \/ Restore \/ Restored \/ SectionDone
  BY <1>2 DEF InSection, Walking, Exclude, Take, Execute, Restore, Restored, SectionDone
<1>3. CASE NextSection
  <2>1. region \in 1 .. Len(Sections)
    BY <1>3, SectionAssumption DEF TypeOK, NextSection
  <2> QED BY <1>3, <2>1, SectionRange DEF InSection, NextSection, End
<1>4. CASE NextPiece \/ Look \/ Looked
  BY <1>4 DEF InSection, Walking, NextPiece, Look, Looked, walk, End
<1>5. CASE CopyPiece
  <2>1. region \in 1 .. Len(Sections)
    BY <1>5 DEF InSection, Walking, CopyPiece
  <2>2. pos' = holeEnd
    BY <1>5 DEF CopyPiece, PastTheHole, HoleSoFar
  <2> QED BY <1>5, <2>1, <2>2, SectionRange
          DEF CopyPiece, InSection, Walking, HoleSoFar, End, TypeOK
<1> QED BY <1>1, <1>2, <1>3, <1>4, <1>5 DEF Next, RestoreStep

(* Looking at one more exclusion: it starts the hole, if it comes first. *)
LEMMA LookKeepsHole ==
    TypeOK /\ InSection /\ HoleSoFar /\ Look => HoleSoFar'
<1> SUFFICES ASSUME TypeOK, InSection, HoleSoFar, Look PROVE HoleSoFar'
  OBVIOUS
<1> USE TopAssumption
<1> DEFINE es == exclusions[e].addr
           ee == es + exclusions[e].size
<1>1. e \in 1 .. Len(exclusions) /\ region \in 1 .. Len(Sections)
  BY DEF TypeOK, Look, InSection, Walking
<1>2. End \in Nat /\ es \in Nat /\ ee \in Nat /\ es <= ee
  BY <1>1, SectionRange, ExclusionRange, SMTT(30) DEF End
<1>3. \A a \in Addrs : a \in Bytes(exclusions[e]) <=> es <= a /\ a < ee
  BY DEF Bytes
<1>4. /\ pc = "look" /\ pc' = "look" /\ e' = e + 1 /\ pos' = pos
      /\ exclusions' = exclusions /\ End' = End
  BY DEF Look, End
<1>5. /\ pos < End /\ pos <= holeStart /\ holeStart <= holeEnd /\ holeEnd <= End
      /\ pos < holeEnd /\ pos \in Nat /\ holeStart \in Nat /\ holeEnd \in Nat
  BY <1>4 DEF HoleSoFar, TypeOK
<1>6. \A a \in Addrs : a \in Nat
  BY DEF Addrs
<1>7. \A i \in 1 .. e' - 1 : i \in 1 .. e - 1 \/ i = e
  BY <1>1, <1>4
<1>8. e \in 1 .. e' - 1 /\ \A i \in 1 .. e - 1 : i \in 1 .. e' - 1
  BY <1>1, <1>4
<1>9. CASE Nearer(es, ee)
  <2>1. holeStart' = (IF es < pos THEN pos ELSE es) /\ holeEnd' = Clipped(ee)
    BY <1>9 DEF Look
  <2> HIDE DEF es, ee
  <2>2. /\ pos <= holeStart' /\ holeStart' <= holeEnd' /\ holeEnd' <= End
        /\ pos < holeEnd' /\ holeStart' <= holeStart /\ holeStart' \in Nat
        /\ holeEnd' \in Nat
    BY <1>2, <1>5, <1>9, <2>1 DEF Nearer, Clipped
  <2>3. \A a \in Addrs : a \in Bytes(exclusions[e]) => a < pos \/ holeStart' <= a
    BY <1>2, <1>3, <1>5, <1>6, <2>1
  <2>4. ASSUME NEW i \in 1 .. e - 1, NEW a \in Addrs, a \in Bytes(exclusions[i])
        PROVE  a < pos \/ holeStart' <= a
    <3>1. a < pos \/ holeStart <= a
      BY <1>4, <2>4 DEF HoleSoFar
    <3> QED BY <1>5, <1>6, <2>2, <3>1
  <2>5. \A a \in Addrs : holeStart' <= a /\ a < holeEnd' => a \in Bytes(exclusions[e])
    BY <1>2, <1>3, <1>5, <1>6, <2>1 DEF Clipped
  <2>6. \A i \in 1 .. e' - 1, a \in Addrs :
            a \in Bytes(exclusions[i]) => a < pos \/ holeStart' <= a
    BY <1>7, <2>3, <2>4
  <2>7. \A a \in Addrs : holeStart' <= a /\ a < holeEnd' =>
            \E i \in 1 .. e' - 1 : a \in Bytes(exclusions[i])
    BY <1>8, <2>5
  <2> QED BY <1>4, <1>5, <2>2, <2>6, <2>7 DEF HoleSoFar
<1>10. CASE ~Nearer(es, ee)
  <2>1. holeStart' = holeStart /\ holeEnd' = holeEnd
    BY <1>10 DEF Look
  <2> HIDE DEF es, ee
  <2>2. \A a \in Addrs : a \in Bytes(exclusions[e]) => a < pos \/ holeStart <= a
    BY <1>2, <1>3, <1>5, <1>6, <1>10 DEF Nearer
  <2>3. \A i \in 1 .. e' - 1, a \in Addrs :
            a \in Bytes(exclusions[i]) => a < pos \/ holeStart <= a
    BY <1>4, <1>7, <2>2 DEF HoleSoFar
  <2>4. \A a \in Addrs : holeStart <= a /\ a < holeEnd =>
            \E i \in 1 .. e' - 1 : a \in Bytes(exclusions[i])
    BY <1>4, <1>8 DEF HoleSoFar
  <2> QED BY <1>4, <1>5, <2>1, <2>3, <2>4 DEF HoleSoFar
<1> QED BY <1>9, <1>10

LEMMA HoleKept == TypeOK /\ InSection /\ HoleSoFar /\ [Next]_vars => HoleSoFar'
<1> SUFFICES ASSUME TypeOK, InSection, HoleSoFar, [Next]_vars PROVE HoleSoFar'
  OBVIOUS
<1>1. CASE UNCHANGED vars
  BY <1>1 DEF HoleSoFar, End, vars
<1>2. CASE \/ \E x \in Ranges : Exclude(x)
           \/ Take
           \/ \E image \in Images : Execute(image)
           \/ Restore \/ Restored \/ NextSection \/ SectionDone \/ CopyPiece
  BY <1>2 DEF HoleSoFar, Exclude, Take, Execute, Restore, Restored, NextSection,
              SectionDone, CopyPiece
<1>3. CASE NextPiece
  <2>1. region \in 1 .. Len(Sections)
    BY <1>3 DEF InSection, Walking, NextPiece
  <2>2. End \in Nat /\ pos \in Nat
    BY <2>1, SectionRange, SMTT(30) DEF End, TypeOK
  <2>3. /\ holeStart' = End /\ holeEnd' = End /\ End' = End /\ pos' = pos
        /\ e' = 1 /\ pos < End
    BY <1>3 DEF NextPiece, End
  <2>4. \A a \in Addrs : ~(holeStart' <= a /\ a < holeEnd')
    BY <2>2, <2>3 DEF Addrs
  <2>5. 1 .. e' - 1 = {}
    BY <2>3
  <2> QED BY <2>2, <2>3, <2>4, <2>5 DEF HoleSoFar
<1>4. CASE Look
  BY <1>4, LookKeepsHole
<1>5. CASE Looked
  BY <1>5 DEF Looked, HoleSoFar, walk, End
<1> QED BY <1>1, <1>2, <1>3, <1>4, <1>5 DEF Next, RestoreStep

LEMMA SeenKept == TypeOK /\ AllSeen /\ [Next]_vars => AllSeen'
<1> SUFFICES ASSUME TypeOK, AllSeen, [Next]_vars PROVE AllSeen'
  OBVIOUS
<1>1. CASE UNCHANGED vars
  BY <1>1 DEF AllSeen, vars
<1>2. CASE Looked
  BY <1>2 DEF Looked, AllSeen, walk, TypeOK
<1>3. CASE Next /\ ~Looked
  BY <1>3 DEF AllSeen, Next, RestoreStep, Exclude, Take, Execute, Restore, Restored,
              NextSection, NextPiece, SectionDone, Look, CopyPiece
<1> QED BY <1>1, <1>2, <1>3

LEMMA FromBootKept == FromBoot /\ [Next]_vars => FromBoot'
<1> SUFFICES ASSUME FromBoot, [Next]_vars PROVE FromBoot'
  OBVIOUS
<1>1. CASE UNCHANGED vars
  BY <1>1 DEF FromBoot, vars
<1>2. CASE Next
  BY <1>2 DEF FromBoot, Next, RestoreStep, Exclude, Take, OnlyOnce, Execute, Restore,
              Restored, NextSection, NextPiece, SectionDone, Look, Looked, CopyPiece
<1> QED BY <1>1, <1>2

-----------------------------------------------------------------------------
(* What is written *)

(* The piece before the hole holds captured, unexcluded bytes. *)
LEMMA PieceIsFree ==
    ASSUME TypeOK, InSection, HoleSoFar, AllSeen, pc = "copy",
           NEW a \in Addrs, pos <= a, a < holeStart
    PROVE  a \in Captured \ Protected /\ a \in Bytes(Sections[region])
<1> USE TopAssumption
<1>1. e - 1 = Len(exclusions) /\ region \in 1 .. Len(Sections)
  BY DEF AllSeen, InSection, Walking, TypeOK
<1>2. a \in Nat /\ pos \in Nat /\ holeStart \in Nat /\ holeEnd \in Nat
  BY DEF Addrs, TypeOK
<1>3. End \in Nat /\ Sections[region].addr \in Nat
  BY <1>1, SectionRange DEF End
<1>4. Sections[region].addr <= a /\ a < End
  BY <1>2, <1>3 DEF InSection, Walking, HoleSoFar
<1>5. a \in Bytes(Sections[region])
  BY <1>4 DEF Bytes, End
<1>6. \A i \in 1 .. Len(exclusions) : a \in Bytes(exclusions[i]) => a < pos \/ holeStart <= a
  BY <1>1 DEF HoleSoFar
<1>7. a \notin Protected
  BY <1>2, <1>6 DEF Protected
<1> QED BY <1>1, <1>5, <1>7 DEF Captured

(* The bytes of the hole are excluded. *)
LEMMA HoleIsProtected ==
    ASSUME TypeOK, HoleSoFar, AllSeen, pc = "copy",
           NEW a \in Addrs, holeStart <= a, a < holeEnd
    PROVE  a \in Protected
<1>1. e - 1 = Len(exclusions)
  BY DEF AllSeen, TypeOK
<1> QED BY <1>1 DEF HoleSoFar, Protected

(* Steps that leave the memory alone and do not move past a byte. *)
LEMMA ProgressAtRest ==
    ASSUME Progress, pc # "run",
           UNCHANGED <<mem, exclusions, boot, before>>,
           \A a \in Addrs : Behind(a)' = Behind(a)
    PROVE  Progress'
<1>1. \A a \in Addrs : Final(a)' = Final(a)
  BY DEF Final, Protected
<1> QED BY <1>1 DEF Progress

LEMMA ProgressKept == WalkInv /\ [Next]_vars => Progress'
<1> SUFFICES ASSUME WalkInv, [Next]_vars PROVE Progress'
  OBVIOUS
<1> USE TopAssumption DEF WalkInv
<1>1. CASE UNCHANGED vars
  <2>1. \A a \in Addrs : Behind(a)' = Behind(a) /\ Final(a)' = Final(a)
    BY <1>1 DEF vars, Behind, Walking, Final, Protected
  <2> QED BY <1>1, <2>1 DEF Progress, vars
<1>2. CASE \/ \E x \in Ranges : Exclude(x)
           \/ Take
           \/ \E image \in Images : Execute(image)
           \/ Restored
  BY <1>2 DEF Progress, Exclude, Take, Execute, Restored
<1>3. CASE Restore
  <2>1. \A a \in Addrs : ~Behind(a)'
    BY <1>3 DEF Restore, Behind, Walking
  <2>2. mem' = before'
    BY <1>3 DEF Restore
  <2> QED BY <2>1, <2>2 DEF Progress
<1>4. CASE NextSection
  <2>1. region \in 1 .. Len(Sections)
    BY <1>4, SectionAssumption DEF TypeOK, NextSection
  <2>2. Sections[region].addr \in Nat
    BY <2>1, SectionRange
  <2>3. \A a \in Addrs : a \in Bytes(Sections[region]) => ~(a < pos')
    BY <1>4, <2>2 DEF NextSection, Bytes, Addrs
  <2>4. \A a \in Addrs : Behind(a)' = Behind(a)
    BY <1>4, <2>3 DEF NextSection, Behind, Walking
  <2> QED BY <1>4, <2>4, ProgressAtRest DEF NextSection
<1>5. CASE NextPiece \/ Look \/ Looked
  <2>1. \A a \in Addrs : Behind(a)' = Behind(a)
    BY <1>5 DEF NextPiece, Look, Looked, Behind, Walking, walk
  <2> QED BY <1>5, <2>1, ProgressAtRest DEF NextPiece, Look, Looked
<1>6. CASE SectionDone
  <2>1. region \in 1 .. Len(Sections)
    BY <1>6 DEF InSection, Walking, SectionDone
  <2>2. End \in Nat /\ pos \in Nat
    BY <2>1, SectionRange DEF End, TypeOK
  <2>3. \A a \in Addrs : a \in Bytes(Sections[region]) => a < pos
    BY <1>6, <2>2 DEF SectionDone, Bytes, Addrs, End
  <2>4. \A i \in 1 .. Len(Sections) : i < region' <=> i < region \/ i = region
    BY <1>6, <2>1 DEF SectionDone
  <2>5. \A a \in Addrs : Behind(a)' = Behind(a)
    BY <1>6, <2>1, <2>3, <2>4 DEF SectionDone, Behind, Walking
  <2> QED BY <1>6, <2>5, ProgressAtRest DEF SectionDone
<1>7. CASE CopyPiece
  <2>1. /\ pc = "copy" /\ pc' = "piece" /\ region' = region /\ pos' = holeEnd
        /\ UNCHANGED <<exclusions, boot, before>>
    BY <1>7 DEF CopyPiece, PastTheHole, HoleSoFar
  <2>2. \A a \in Addrs : Final(a)' = Final(a)
    BY <2>1 DEF Final, Protected
  <2>3. ASSUME NEW a \in Addrs
        PROVE  mem'[a] = IF Behind(a)' THEN Final(a) ELSE before[a]
    <3>1. mem'[a] = IF pos <= a /\ a < holeStart THEN copy[a] ELSE mem[a]
      BY <1>7 DEF CopyPiece
    <3>2. mem[a] = IF Behind(a) THEN Final(a) ELSE before[a]
      BY <2>1 DEF Progress
    <3>3. /\ a \in Nat /\ pos \in Nat /\ holeStart \in Nat /\ holeEnd \in Nat
          /\ pos < holeEnd /\ holeStart <= holeEnd
      BY <2>1 DEF Addrs, TypeOK, HoleSoFar
    <3>4. CASE pos <= a /\ a < holeStart
      <4>1. a \in Captured \ Protected /\ a \in Bytes(Sections[region])
        BY <2>1, <3>4, PieceIsFree
      <4>2. a < pos'
        BY <2>1, <3>3, <3>4
      <4>3. Behind(a)'
        BY <2>1, <4>1, <4>2 DEF Behind, Walking
      <4>4. Final(a) = copy[a]
        BY <2>1, <4>1 DEF Final, FromBoot
      <4> QED BY <3>1, <3>4, <4>3, <4>4
    <3>5. CASE ~(pos <= a /\ a < holeStart) /\ Behind(a)
      <4>1. a < pos => a < pos'
        BY <2>1, <3>3
      <4>2. Behind(a)'
        BY <2>1, <3>5, <4>1 DEF Behind, Walking
      <4> QED BY <3>1, <3>2, <3>5, <4>2
    <3>6. CASE ~(pos <= a /\ a < holeStart) /\ ~Behind(a) /\ Behind(a)'
      <4>1. a \in Bytes(Sections[region]) /\ a < holeEnd /\ ~(a < pos)
        BY <2>1, <3>6 DEF Behind, Walking
      <4>2. holeStart <= a
        BY <3>3, <3>6, <4>1
      <4>3. a \in Protected
        BY <2>1, <4>1, <4>2, HoleIsProtected
      <4>4. Final(a) = before[a]
        BY <4>3 DEF Final
      <4> QED BY <3>1, <3>2, <3>6, <4>4
    <3>7. CASE ~(pos <= a /\ a < holeStart) /\ ~Behind(a) /\ ~Behind(a)'
      BY <3>1, <3>2, <3>7
    <3> QED BY <3>4, <3>5, <3>6, <3>7
  <2> QED BY <2>1, <2>2, <2>3 DEF Progress
<1> QED BY <1>1, <1>2, <1>3, <1>4, <1>5, <1>6, <1>7 DEF Next, RestoreStep

-----------------------------------------------------------------------------
LEMMA WalkInvInitially == Init => WalkInv
<1> SUFFICES ASSUME Init PROVE WalkInv
  OBVIOUS
<1>1. mem \in [Addrs -> Values]
  BY RangeAssumption DEF Init
<1>2. Len(Sections) \in Nat
  BY SectionAssumption
<1>3. exclusions \in Seq(Range) /\ e \in 1 .. Len(exclusions) + 1
  BY DEF Init
<1>4. region \in 1 .. Len(Sections) + 1
  BY <1>2 DEF Init
<1>5. pos \in 0 .. Top /\ holeStart \in 0 .. Top /\ holeEnd \in 0 .. Top
  BY TopAssumption DEF Init
<1>6. copy \in [Addrs -> Values] /\ {boot, before} \subseteq [Addrs -> Values]
  BY <1>1 DEF Init
<1>7. TypeOK
  BY <1>1, <1>3, <1>4, <1>5, <1>6 DEF Init, TypeOK
<1> QED BY <1>7 DEF Init, WalkInv, Progress, InSection, Walking, HoleSoFar, AllSeen, FromBoot

LEMMA WalkInvKept == WalkInv /\ [Next]_vars => WalkInv'
BY TypesKept, InSectionKept, HoleKept, SeenKept, FromBootKept, ProgressKept DEF WalkInv

LEMMA Invariance == Spec => []WalkInv
BY WalkInvInitially, WalkInvKept, PTL DEF Spec

(* No index of the walk leaves its table or its section. *)
THEOREM SnapshotTypes == Spec => []TypeOK
<1>1. WalkInv => TypeOK
  BY DEF WalkInv
<1> QED BY <1>1, Invariance, PTL

(* When the last section is done, every byte has its final value. *)
LEMMA RestoredMemory ==
    ASSUME WalkInv, Restored
    PROVE  mem = [a \in Addrs |-> Final(a)]
<1>1. mem \in [Addrs -> Values]
  BY DEF WalkInv, TypeOK
<1>2. ASSUME NEW a \in Addrs
      PROVE  mem[a] = Final(a)
  <2>1. pc = "section" /\ \A i \in 1 .. Len(Sections) : i < region
    BY SectionAssumption DEF Restored, WalkInv, TypeOK
  <2>2. mem[a] = IF Behind(a) THEN Final(a) ELSE before[a]
    BY <2>1 DEF WalkInv, Progress
  <2>3. Behind(a) <=> a \in Captured
    BY <2>1 DEF Behind, Walking, Captured
  <2> QED BY <2>2, <2>3 DEF Final
<1> QED BY <1>1, <1>2

(* For all sections and exclusions: a restore brings back exactly the first
   boot's captured bytes and leaves everything else as it found it. *)
THEOREM ExactRestore == Spec => RestoreIsExact
<1>1. WalkInv /\ [Next]_vars =>
          [Restored => mem = [a \in Addrs |-> IF a \in Captured \ Protected
                                             THEN boot[a] ELSE before[a]]]_vars
  BY RestoredMemory DEF Final
<1> QED BY <1>1, Invariance, PTL DEF Spec, RestoreIsExact

(* For all sections and exclusions: no step of a restore writes an excluded
   byte. *)
THEOREM HolesKept == Spec => HolesAreKept
<1> DEFINE Kept == pc # "run" => \A a \in Protected : mem'[a] = mem[a]
<1>1. WalkInv /\ [Next]_vars => [Kept]_vars
  <2> SUFFICES ASSUME WalkInv, Next, pc # "run", NEW a \in Protected
               PROVE  mem'[a] = mem[a]
    OBVIOUS
  <2>1. CASE CopyPiece
    <3>1. a \in Addrs /\ pc = "copy"
      BY <2>1 DEF Protected, CopyPiece
    <3>2. ~(pos <= a /\ a < holeStart)
      BY <3>1, PieceIsFree DEF WalkInv
    <3> QED BY <2>1, <3>1, <3>2 DEF CopyPiece
  <2>2. CASE ~CopyPiece
    BY <2>2 DEF Next, RestoreStep, Exclude, Take, Execute, Restore, Restored,
                NextSection, NextPiece, SectionDone, Look, Looked
  <2> QED BY <2>1, <2>2
<1> QED BY <1>1, Invariance, PTL DEF Spec, HolesAreKept

-----------------------------------------------------------------------------
(* The contract *)

(* A registered exclusion stays protected. *)
LEMMA ShieldGrows ==
    ASSUME TypeOK, NEW x \in Range, exclusions' = Excluded(x)
    PROVE  Protected \subseteq Protected' /\ Protected' \subseteq Addrs
<1>1. /\ Len(exclusions) <= Len(exclusions')
      /\ \A i \in 1 .. Len(exclusions) : exclusions'[i] = exclusions[i]
      /\ exclusions' \in Seq(Range)
  BY ExcludedTypes
<1>2. \A i \in 1 .. Len(exclusions) : i \in 1 .. Len(exclusions')
  BY <1>1 DEF TypeOK
<1>3. ASSUME NEW a \in Protected
      PROVE  a \in Protected'
  <2>1. PICK i \in 1 .. Len(exclusions) : a \in Bytes(exclusions[i])
    BY DEF Protected
  <2>2. i \in 1 .. Len(exclusions') /\ a \in Bytes(exclusions'[i])
    BY <1>1, <1>2, <2>1
  <2>3. a \in Addrs
    BY DEF Protected
  <2> QED BY <2>2, <2>3 DEF Protected
<1> QED BY <1>3 DEF Protected

LEMMA StepsAsContract ==
    WalkInv /\ [Next]_vars => [Contract!Next]_(Contract!state)
<1> SUFFICES ASSUME WalkInv, [Next]_vars
             PROVE  [Contract!Next]_(Contract!state)
  OBVIOUS
<1>1. TypeOK /\ FromBoot
  BY DEF WalkInv
<1>2. CASE UNCHANGED vars
  BY <1>2 DEF vars, Contract!state, Protected
<1>3. ASSUME NEW x \in Ranges, Exclude(x)
      PROVE  Contract!Next \/ UNCHANGED Contract!state
  <2>1. x \in Range
    BY RangeAssumption
  <2>2. CASE taken
    <3>1. exclusions' = exclusions
      BY <1>1, <1>3, <2>1, <2>2, ExcludedTypes DEF Exclude
    <3> QED BY <1>3, <3>1 DEF Exclude, Contract!state, Protected
  <2>3. CASE ~taken
    <3>1. Protected \subseteq Protected' /\ Protected' \subseteq Addrs
      BY <1>1, <1>3, <2>1, ShieldGrows DEF Exclude
    <3>2. Contract!Shield
      BY <1>3, <2>3, <3>1 DEF Exclude, Contract!Shield
    <3> QED BY <3>2 DEF Contract!Next
  <2> QED BY <2>2, <2>3
<1>4. CASE Take
  <2>1. Protected \subseteq Protected' /\ Protected' \subseteq Addrs
    BY <1>1, <1>4, RangeAssumption, ShieldGrows DEF Take
  <2>2. Contract!Take
    BY <1>4, <2>1 DEF Take, OnlyOnce, Contract!Take
  <2> QED BY <2>2 DEF Contract!Next
<1>5. ASSUME NEW image \in Images, Execute(image)
      PROVE  Contract!Next
  <2>1. Contract!Run
    BY <1>5, RangeAssumption DEF Execute, Contract!Run, Protected
  <2> QED BY <2>1 DEF Contract!Next
<1>6. CASE Restore
  BY <1>6 DEF Restore, Contract!state, Protected
<1>7. CASE Restored
  <2>1. mem = [a \in Addrs |-> IF a \in Captured \ Protected THEN boot[a] ELSE before[a]]
    BY <1>7, RestoredMemory DEF Final
  <2>2. taken /\ copy = boot
    BY <1>1, <1>7 DEF FromBoot, Restored
  <2>3. Protected' = Protected
    BY <1>7 DEF Restored, Protected
  <2>4. Contract!Rewind
    BY <1>7, <2>1, <2>2, <2>3 DEF Restored, Contract!Rewind
  <2> QED BY <2>4 DEF Contract!Next
<1>8. CASE NextSection \/ NextPiece \/ SectionDone \/ Look \/ Looked \/ CopyPiece
  <2>1. /\ pc # "run" /\ pc' # "run"
        /\ UNCHANGED <<before, copy, taken, exclusions, rewound>>
    BY <1>8 DEF NextSection, NextPiece, SectionDone, Look, Looked, CopyPiece
  <2> QED BY <2>1 DEF Contract!state, Protected
<1> QED BY <1>2, <1>3, <1>4, <1>5, <1>6, <1>7, <1>8 DEF Next, RestoreStep

(* For all sections and exclusions: the walk, piece by piece, implements a
   rewind that is one step. *)
THEOREM RestoreIsAtomic == Spec => RewindSpec
<1>1. Init => Contract!Init
  <2> SUFFICES ASSUME Init PROVE Contract!Init
    OBVIOUS
  <2>1. /\ mem \in [Addrs -> Values] /\ copy = mem /\ pc = "run"
        /\ taken = FALSE /\ rewound = FALSE
    BY RangeAssumption DEF Init
  <2>2. Protected = {}
    BY DEF Init, Protected
  <2> QED BY <2>1, <2>2 DEF Contract!Init
<1> QED BY <1>1, StepsAsContract, Invariance, PTL DEF Spec, RewindSpec, Contract!Spec

-----------------------------------------------------------------------------
(* The walk moves on.  Its place is, in this order: the section, whether it
   was entered, the next byte, and how far the search for the hole before
   that byte has come.  The types bound each of them. *)

Stage == CASE pc = "piece" -> 0 [] pc = "look" -> 1 [] pc = "copy" -> 2

Ahead ==
    \/ region' > region
    \/ region' = region /\ ~Walking /\ Walking'
    \/ /\ region' = region /\ Walking /\ Walking'
       /\ \/ pos' > pos
          \/ pos' = pos /\ Stage' > Stage
          \/ pos' = pos /\ Stage' = Stage /\ e' > e

(* For all sections and exclusions, empty ones included: every step of a
   restore but its last moves ahead, so the loops of snapshotRestore end. *)
THEOREM WalkAdvances == Spec => [][RestoreStep => Ahead \/ pc' = "run"]_vars
<1>1. WalkInv /\ [Next]_vars => [RestoreStep => Ahead \/ pc' = "run"]_vars
  <2> SUFFICES ASSUME WalkInv, RestoreStep PROVE Ahead \/ pc' = "run"
    OBVIOUS
  <2>1. TypeOK /\ InSection /\ HoleSoFar
    BY DEF WalkInv
  <2>2. CASE NextSection
    BY <2>2 DEF NextSection, Ahead, Walking
  <2>3. CASE Restored
    BY <2>3 DEF Restored
  <2>4. CASE NextPiece
    BY <2>4 DEF NextPiece, Ahead, Walking, Stage
  <2>5. CASE SectionDone
    <3>1. region \in 1 .. Len(Sections) /\ region' = region + 1
      BY <2>1, <2>5 DEF SectionDone, InSection, Walking
    <3> QED BY <3>1, SectionAssumption DEF Ahead
  <2>6. CASE Look
    <3>1. e \in 1 .. Len(exclusions) /\ e' = e + 1
      BY <2>1, <2>6 DEF Look, TypeOK
    <3>2. /\ pc = "look" /\ pc' = "look" /\ region' = region /\ pos' = pos
      BY <2>6 DEF Look
    <3> QED BY <3>1, <3>2 DEF Ahead, Walking, Stage
  <2>7. CASE Looked
    BY <2>7 DEF Looked, walk, Ahead, Walking, Stage
  <2>8. CASE CopyPiece
    <3>1. pos' = holeEnd /\ pos < holeEnd
      BY <2>1, <2>8 DEF CopyPiece, PastTheHole, HoleSoFar
    <3>2. pos \in Nat /\ holeEnd \in Nat
      BY <2>1, TopAssumption DEF TypeOK
    <3>3. pc = "copy" /\ pc' = "piece" /\ region' = region
      BY <2>8 DEF CopyPiece
    <3> QED BY <3>1, <3>2, <3>3 DEF Ahead, Walking
  <2> QED BY <2>2, <2>3, <2>4, <2>5, <2>6, <2>7, <2>8 DEF RestoreStep
<1> QED BY <1>1, Invariance, PTL DEF Spec
=============================================================================
