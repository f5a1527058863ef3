------------------------- MODULE ContactDamageProofs -------------------------
(***************************************************************************)
(* The damage model is safe for any number of motors and contacts, as long *)
(* as a cooldown outlasts one kick per motor.                              *)
(*                                                                         *)
(* The kick's invariant weighs time against strikes: every strike can      *)
(* prolong the kick by KickTicks at most, so a prop counted in it has at   *)
(* least CooldownTicks - KickTicks * (props counted) + strikeTicks of its  *)
(* cooldown left, which is positive, and it cannot be counted again.       *)
(***************************************************************************)
EXTENDS ContactDamage, FiniteSetTheorems, TLAPS

Counted == {m \in Motors : kicks[m] > 0}
Bonus == KickTicks * Cardinality(Counted)

KickInv ==
    /\ \A m \in Motors : kicks[m] <= 1
    /\ strikeTicks = 0 => Counted = {}
    /\ \A m \in Counted : cooldown[m] + Bonus >= CooldownTicks + strikeTicks

PaceInv == \A m \in Motors : age[m] + cooldown[m] >= CooldownTicks

CrashInv ==
    crashed => \A m \in Motors : /\ accumulated[m] >= CrashDamage
                                 /\ pc # "contacts" => eff[m] >= CrashDamage

DamageInv == TypeOK /\ KickInv /\ PaceInv /\ CrashInv /\ DamageIsReported

-----------------------------------------------------------------------------
(* Arithmetic and cardinalities *)

LEMMA CountedSize ==
    /\ Cardinality(Counted) \in Nat
    /\ Bonus \in Nat
    /\ Bonus <= KickTicks * Cardinality(Motors)
<1>1. Counted \subseteq Motors /\ IsFiniteSet(Motors)
  BY DamageAssumption DEF Counted
<1>2. /\ IsFiniteSet(Counted) /\ Cardinality(Counted) \in Nat
      /\ Cardinality(Motors) \in Nat /\ Cardinality(Counted) <= Cardinality(Motors)
  BY <1>1, FS_Subset, FS_CardinalityType
<1>3. \A k, a, b \in Nat : a <= b => k * a <= k * b /\ k * a \in Nat
  OBVIOUS
<1> QED BY <1>2, <1>3, DamageAssumption DEF Bonus

(* A prop counted in the running kick is not cooled. *)
LEMMA CountedAreHot ==
    ASSUME TypeOK, KickInv, NEW m \in Counted
    PROVE  cooldown[m] \in Nat /\ cooldown[m] > 0 /\ m \notin Cooled /\ strikeTicks > 0
<1>1. m \in Motors /\ cooldown[m] \in 0 .. CooldownTicks /\ strikeTicks \in 0 .. KickTicks
  BY DEF Counted, TypeOK
<1>2. strikeTicks > 0
  BY <1>1, DamageAssumption DEF KickInv
<1>3. cooldown[m] + Bonus >= CooldownTicks + strikeTicks
  BY DEF KickInv
<1>4. Cardinality(Motors) \in Nat /\ KickTicks * Cardinality(Motors) \in Nat
  BY DamageAssumption, FS_CardinalityType
<1>5. cooldown[m] > 0
  BY <1>1, <1>2, <1>3, <1>4, CountedSize, DamageAssumption
<1> QED BY <1>1, <1>2, <1>5, DamageAssumption DEF Cooled

LEMMA HurtTypes ==
    ASSUME TypeOK, NEW hit \in SUBSET Motors, NEW inc \in [Motors -> Nat], Hurt(hit, inc)
    PROVE  /\ accumulated' \in [Motors -> Levels]
           /\ cooldown' \in [Motors -> 0 .. CooldownTicks]
           /\ age' \in [Motors -> 0 .. CooldownTicks]
           /\ \A m \in Motors : /\ accumulated'[m] >= accumulated[m]
                                /\ cooldown'[m] >= cooldown[m]
                                /\ m \notin hit => /\ accumulated'[m] = accumulated[m]
                                                   /\ cooldown'[m] = cooldown[m]
                                                   /\ age'[m] = age[m]
                                /\ m \in hit => cooldown'[m] = CooldownTicks
<1> USE DamageAssumption
<1>1. \A m \in Motors : AtMostFull(accumulated[m] + inc[m]) \in Levels
                        /\ AtMostFull(accumulated[m] + inc[m]) >= accumulated[m]
  BY DEF TypeOK, AtMostFull, Levels
<1>2. accumulated' \in [Motors -> Levels]
  BY <1>1 DEF TypeOK, Hurt
<1>3. cooldown' \in [Motors -> 0 .. CooldownTicks]
  BY DEF TypeOK, Hurt
<1>4. age' \in [Motors -> 0 .. CooldownTicks]
  BY DEF TypeOK, Hurt
<1>5. ASSUME NEW m \in Motors
      PROVE  /\ accumulated'[m] >= accumulated[m]
             /\ cooldown'[m] >= cooldown[m]
             /\ m \notin hit => /\ accumulated'[m] = accumulated[m]
                                /\ cooldown'[m] = cooldown[m]
                                /\ age'[m] = age[m]
             /\ m \in hit => cooldown'[m] = CooldownTicks
  <2>1. accumulated[m] \in Nat /\ cooldown[m] \in 0 .. CooldownTicks
    BY DEF TypeOK, Levels
  <2> QED BY <1>1, <2>1 DEF Hurt
<1> QED BY <1>2, <1>3, <1>4, <1>5

-----------------------------------------------------------------------------
(* Types *)

LEMMA Constants ==
    /\ 0 \in Levels /\ 0 \in 0 .. CooldownTicks /\ 0 \in 0 .. KickTicks
    /\ CooldownTicks \in 0 .. CooldownTicks /\ KickTicks \in 0 .. KickTicks
    /\ CrashDamage \in Levels /\ DamagedAt \in Levels /\ 0 \in 0 .. MaxContacts
    /\ None \in [Motors -> Levels] /\ None \in [Motors -> 0 .. CooldownTicks]
    /\ None \in [Motors -> Nat] /\ Rested \in [Motors -> 0 .. CooldownTicks]
BY DamageAssumption DEF Levels, None, Rested

LEMMA EffectiveType ==
    ASSUME TypeOK, NEW m \in Motors
    PROVE  /\ Effective(m) \in Levels
           /\ Effective(m) >= accumulated[m]
BY DamageAssumption DEF TypeOK, Effective, AtMostFull, Larger, Levels

LEMMA NewPropsTypes ==
    ASSUME NewProps
    PROVE  /\ {accumulated, eff}' \subseteq [Motors -> Levels]
           /\ cooldown' \in [Motors -> 0 .. CooldownTicks]
           /\ age' \in [Motors -> 0 .. CooldownTicks]
           /\ strikeTicks' \in 0 .. KickTicks
           /\ kicks' \in [Motors -> Nat]
           /\ crashed' \in BOOLEAN
           /\ {damagedStatus, burnedOut}' \subseteq SUBSET Motors
<1> QED BY Constants DEF NewProps

LEMMA TypesKept == TypeOK /\ [Next]_vars => TypeOK'
<1> SUFFICES ASSUME TypeOK, [Next]_vars PROVE TypeOK'
  OBVIOUS
<1> USE DamageAssumption
<1>1. CASE UNCHANGED vars
  BY <1>1 DEF TypeOK, vars, damage, motors
<1>2. ASSUME NEW damageIn \in [Motors -> ScriptedLevels], NEW n \in 0 .. MaxContacts,
             UpdateState(damageIn, n)
      PROVE  TypeOK'
  <2>1. damageIn \in [Motors -> Levels]
    BY DEF Levels
  <2> QED BY <1>2, <2>1 DEF TypeOK, UpdateState, damage, motors
<1>3. CASE BeginTick
  <2>1. cooldown' \in [Motors -> 0 .. CooldownTicks]
    BY <1>3 DEF BeginTick, TypeOK, Sooner
  <2>2. age' \in [Motors -> 0 .. CooldownTicks]
    BY <1>3 DEF BeginTick, TypeOK, Older
  <2>3. strikeTicks' \in 0 .. KickTicks
    BY <1>3 DEF BeginTick, TypeOK, Sooner
  <2>4. kicks' \in [Motors -> Nat]
    BY <1>3, Constants DEF BeginTick, TypeOK, ClearSum
  <2> QED BY <1>3, <2>1, <2>2, <2>3, <2>4 DEF TypeOK, BeginTick, motors
<1>4. ASSUME NextContact PROVE left' \in 0 .. MaxContacts
  BY <1>4 DEF NextContact, TypeOK
<1>5. CASE Harmless
  BY <1>4, <1>5 DEF TypeOK, Harmless, damage, motors
<1>6. CASE Crash
  <2>1. \A m \in Motors : AtLeastCrash(m) \in Levels
    BY Constants DEF TypeOK, AtLeastCrash, Larger
  <2>2. accumulated' \in [Motors -> Levels]
    BY <1>6, <2>1 DEF Crash
  <2>3. cooldown' \in [Motors -> 0 .. CooldownTicks] /\ age' \in [Motors -> 0 .. CooldownTicks]
    BY <1>6, Constants DEF Crash
  <2>4. left' \in 0 .. MaxContacts
    BY <1>4, <1>6 DEF Crash
  <2> QED BY <1>6, <2>2, <2>3, <2>4 DEF TypeOK, Crash, motors
<1>7. ASSUME NEW reach \in SUBSET Motors, NEW slowed \in SUBSET Motors, NEW inc \in 1 .. Full,
             PropStrike(reach, inc, slowed)
      PROVE  TypeOK'
  <2> DEFINE hit == HitOnce(reach \cap spinning)
             incs == [m \in Motors |-> inc]
  <2>1. hit \in SUBSET Motors /\ incs \in [Motors -> Nat]
    BY DEF HitOnce, Cooled
  <2>2. Hurt(hit, incs)
    BY <1>7 DEF PropStrike
  <2>3. /\ accumulated' \in [Motors -> Levels]
        /\ cooldown' \in [Motors -> 0 .. CooldownTicks]
        /\ age' \in [Motors -> 0 .. CooldownTicks]
    BY <2>1, <2>2, HurtTypes
  <2>4. kicks' \in [Motors -> Nat]
    BY <1>7 DEF PropStrike, TypeOK
  <2>5. left' \in 0 .. MaxContacts
    BY <1>4, <1>7 DEF PropStrike
  <2>6. spinning' \in SUBSET Motors /\ strikeTicks' \in 0 .. KickTicks
    BY <1>7, Constants DEF PropStrike, TypeOK
  <2> QED BY <1>7, <2>3, <2>4, <2>5, <2>6 DEF TypeOK, PropStrike
<1>8. ASSUME NEW inc \in [Motors -> Levels], FrameImpact(inc)
      PROVE  TypeOK'
  <2>1. Cooled \in SUBSET Motors /\ inc \in [Motors -> Nat]
    BY DEF Cooled, Levels
  <2>2. /\ accumulated' \in [Motors -> Levels]
        /\ cooldown' \in [Motors -> 0 .. CooldownTicks]
        /\ age' \in [Motors -> 0 .. CooldownTicks]
    BY <1>8, <2>1, HurtTypes DEF FrameImpact
  <2>3. left' \in 0 .. MaxContacts
    BY <1>4, <1>8 DEF FrameImpact
  <2> QED BY <1>8, <2>2, <2>3 DEF TypeOK, FrameImpact, motors
<1>9. CASE FinishDamage
  <2>1. eff' \in [Motors -> Levels]
    BY <1>9, EffectiveType DEF FinishDamage
  <2>2. damagedStatus' \in SUBSET Motors
    BY <1>9 DEF FinishDamage, TypeOK, Impaired
  <2> QED BY <1>9, <2>1, <2>2 DEF TypeOK, FinishDamage
<1>10. ASSUME NEW fast \in SUBSET Motors, NEW hot \in SUBSET Motors, CalculateMotors(fast, hot)
       PROVE  TypeOK'
  BY <1>10 DEF TypeOK, CalculateMotors, damage
<1>11. CASE Repair
  BY <1>11, NewPropsTypes DEF TypeOK, Repair
<1>12. CASE Reset
  BY <1>12, NewPropsTypes, Constants DEF TypeOK, Reset
<1> QED BY <1>1, <1>2, <1>3, <1>5, <1>6, <1>7, <1>8, <1>9, <1>10, <1>11, <1>12
        DEF Next, Contact

-----------------------------------------------------------------------------
(* The kick *)

LEMMA KickKept == TypeOK /\ KickInv /\ [Next]_vars => KickInv'
<1> SUFFICES ASSUME TypeOK, KickInv, [Next]_vars PROVE KickInv'
  OBVIOUS
<1> USE DamageAssumption
<1>1. ASSUME UNCHANGED <<kicks, cooldown, strikeTicks>> PROVE KickInv'
  <2>1. Counted' = Counted /\ Bonus' = Bonus
    BY <1>1 DEF Counted, Bonus
  <2> QED BY <1>1, <2>1 DEF KickInv
<1>2. CASE UNCHANGED vars
  BY <1>1, <1>2 DEF vars, damage
<1>3. CASE \/ \E damageIn \in [Motors -> ScriptedLevels], n \in 0 .. MaxContacts :
                  UpdateState(damageIn, n)
           \/ Harmless \/ FinishDamage
           \/ \E fast, hot \in SUBSET Motors : CalculateMotors(fast, hot)
  BY <1>1, <1>3 DEF UpdateState, Harmless, FinishDamage, CalculateMotors, damage
<1>4. CASE Repair \/ Reset
  <2>1. kicks' = None /\ strikeTicks' = 0
    BY <1>4 DEF Repair, Reset, NewProps
  <2>2. Counted' = {}
    BY <2>1 DEF Counted, None
  <2> QED BY <2>1, <2>2 DEF KickInv, None
<1>5. CASE BeginTick
  <2>1. CASE strikeTicks = 1
    <3>1. kicks' = None /\ strikeTicks' = 0
      BY <1>5, <2>1 DEF BeginTick, ClearSum, Sooner
    <3>2. Counted' = {}
      BY <3>1 DEF Counted, None
    <3> QED BY <3>1, <3>2 DEF KickInv, None
  <2>2. CASE strikeTicks # 1
    <3>1. kicks' = kicks /\ Counted' = Counted /\ Bonus' = Bonus
      BY <1>5, <2>2 DEF BeginTick, ClearSum, Counted, Bonus
    <3>2. strikeTicks' = 0 => Counted' = {}
      BY <1>5, <2>2, <3>1 DEF BeginTick, Sooner, KickInv, TypeOK
    <3>3. ASSUME NEW m \in Counted PROVE cooldown'[m] + Bonus >= CooldownTicks + strikeTicks'
      <4>1. m \in Motors
        BY DEF Counted
      <4>2. cooldown[m] \in Nat /\ cooldown[m] > 0 /\ strikeTicks > 0
        BY CountedAreHot
      <4>3. cooldown'[m] = cooldown[m] - 1 /\ strikeTicks' = strikeTicks - 1
        BY <1>5, <4>1, <4>2 DEF BeginTick, Sooner
      <4>4. cooldown[m] + Bonus >= CooldownTicks + strikeTicks /\ strikeTicks \in Nat
        BY DEF KickInv, TypeOK
      <4> QED BY <4>2, <4>3, <4>4, CountedSize
    <3> QED BY <3>1, <3>2, <3>3 DEF KickInv
  <2> QED BY <2>1, <2>2
<1>6. ASSUME \A m \in Motors : cooldown'[m] >= cooldown[m] /\ cooldown'[m] \in Nat,
             UNCHANGED <<kicks, strikeTicks>>
      PROVE  KickInv'
  <2>1. Counted' = Counted /\ Bonus' = Bonus
    BY <1>6 DEF Counted, Bonus
  <2>2. ASSUME NEW m \in Counted PROVE cooldown'[m] + Bonus >= CooldownTicks + strikeTicks
    <3>1. m \in Motors /\ cooldown[m] \in Nat /\ strikeTicks \in Nat
      BY DEF Counted, TypeOK
    <3>2. cooldown[m] + Bonus >= CooldownTicks + strikeTicks
      BY DEF KickInv
    <3>3. cooldown'[m] >= cooldown[m] /\ cooldown'[m] \in Nat
      BY <1>6, <3>1
    <3> QED BY <3>1, <3>2, <3>3, CountedSize
  <2> QED BY <1>6, <2>1, <2>2 DEF KickInv
<1>7. CASE Crash
  <2>1. \A m \in Motors : cooldown'[m] >= cooldown[m] /\ cooldown'[m] \in Nat
    BY <1>7 DEF Crash, Rested, TypeOK
  <2> QED BY <1>6, <1>7, <2>1 DEF Crash
<1>8. ASSUME NEW inc \in [Motors -> Levels], FrameImpact(inc)
      PROVE  KickInv'
  <2>1. Cooled \in SUBSET Motors /\ inc \in [Motors -> Nat]
    BY DEF Cooled, Levels
  <2>2. Hurt(Cooled, inc) /\ UNCHANGED <<kicks, strikeTicks>>
    BY <1>8 DEF FrameImpact
  <2>3. cooldown' \in [Motors -> 0 .. CooldownTicks]
    BY <2>1, <2>2, HurtTypes
  <2>4. \A m \in Motors : cooldown'[m] >= cooldown[m]
    BY <2>1, <2>2, HurtTypes
  <2>5. \A m \in Motors : cooldown'[m] \in Nat
    BY <2>3
  <2> QED BY <1>6, <2>2, <2>4, <2>5
<1>9. ASSUME NEW reach \in SUBSET Motors, NEW slowed \in SUBSET Motors, NEW inc \in 1 .. Full,
             PropStrike(reach, inc, slowed)
      PROVE  KickInv'
  <2> DEFINE hit == HitOnce(reach \cap spinning)
             incs == [m \in Motors |-> inc]
  <2>1. hit \in SUBSET Motors /\ incs \in [Motors -> Nat] /\ hit \subseteq Cooled /\ hit # {}
    BY <1>9 DEF HitOnce, Cooled, PropStrike
  <2>2. Hurt(hit, incs) /\ strikeTicks' = KickTicks
        /\ kicks' = [m \in Motors |-> IF m \in hit THEN kicks[m] + 1 ELSE kicks[m]]
    BY <1>9 DEF PropStrike
  <2>3. \A m \in hit : m \notin Counted /\ kicks[m] = 0
    <3>1. \A m \in hit : m \notin Counted
      BY <2>1, CountedAreHot
    <3>2. \A m \in Motors : m \notin Counted => kicks[m] = 0
      BY DEF Counted, TypeOK
    <3> HIDE DEF hit
    <3> QED BY <2>1, <3>1, <3>2
  <2> HIDE DEF hit, incs
  <2>4. Counted' = Counted \cup hit
    BY <2>1, <2>2, <2>3 DEF Counted, TypeOK
  <2>5. \A m \in Motors : kicks'[m] <= 1
    BY <2>2, <2>3 DEF KickInv
  <2>6. Cardinality(Counted') \in Nat /\ Cardinality(Counted') >= Cardinality(Counted) + 1
    <3>1. IsFiniteSet(Counted) /\ IsFiniteSet(Counted')
      <4>1. Counted \subseteq Motors /\ Counted' \subseteq Motors
        BY <2>1, <2>4 DEF Counted
      <4> QED BY <4>1, FS_Subset
    <3>2. PICK m \in hit : TRUE
      BY <2>1
    <3>3. m \notin Counted /\ Counted \cup {m} \subseteq Counted'
      BY <2>3, <2>4, <3>2
    <3>4. /\ IsFiniteSet(Counted \cup {m})
          /\ Cardinality(Counted \cup {m}) = Cardinality(Counted) + 1
      BY <3>1, <3>3, FS_AddElement
    <3>5. Cardinality(Counted \cup {m}) <= Cardinality(Counted')
      BY <3>1, <3>3, FS_Subset
    <3> QED BY <3>1, <3>4, <3>5, FS_CardinalityType
  <2>7. Bonus' \in Nat /\ Bonus' >= Bonus + KickTicks
    <3>1. \A k, a, b \in Nat : b >= a + 1 => k * b >= k * a + k /\ k * b \in Nat
      OBVIOUS
    <3> QED BY <2>6, <3>1, CountedSize DEF Bonus
  <2>8. ASSUME NEW m \in Counted'
        PROVE  cooldown'[m] + Bonus' >= CooldownTicks + strikeTicks'
    <3>1. m \in Motors
      BY <2>1, <2>4 DEF Counted
    <3>2. CASE m \in hit
      <4>1. cooldown'[m] = CooldownTicks
        BY <2>1, <2>2, <3>1, <3>2, HurtTypes
      <4>2. KickTicks \in Nat /\ CooldownTicks \in Nat /\ Bonus \in Nat
        BY CountedSize
      <4>3. Bonus' >= KickTicks
        BY <2>7, <4>2
      <4>4. \A a, b, c \in Nat : b >= c => a + b >= a + c
        OBVIOUS
      <4>5. CooldownTicks + Bonus' >= CooldownTicks + KickTicks
        BY ONLY <2>7, <4>2, <4>3, <4>4
      <4> QED BY <2>2, <4>1, <4>5
    <3>3. CASE m \notin hit
      <4>1. m \in Counted /\ cooldown'[m] = cooldown[m]
        BY <2>1, <2>2, <2>4, <3>1, <3>3, HurtTypes
      <4>2. cooldown[m] + Bonus >= CooldownTicks + strikeTicks
        BY <4>1 DEF KickInv
      <4>3. cooldown[m] \in Nat /\ strikeTicks \in Nat /\ Bonus \in Nat
            /\ KickTicks \in Nat /\ CooldownTicks \in Nat
        BY <3>1, CountedSize DEF TypeOK
      <4>4. cooldown[m] + Bonus >= CooldownTicks
        BY <4>2, <4>3
      <4>5. cooldown[m] + Bonus' >= CooldownTicks + KickTicks
        BY <2>7, <4>3, <4>4
      <4> QED BY <2>2, <4>1, <4>5
    <3> QED BY <3>2, <3>3
  <2>9. strikeTicks' # 0
    BY <2>2
  <2> QED BY <2>5, <2>8, <2>9 DEF KickInv
<1> QED BY <1>2, <1>3, <1>4, <1>5, <1>7, <1>8, <1>9 DEF Next, Contact

-----------------------------------------------------------------------------
(* The lockout, the latch and the status *)

LEMMA PaceKept == TypeOK /\ PaceInv /\ [Next]_vars => PaceInv'
<1> SUFFICES ASSUME TypeOK, PaceInv, [Next]_vars, NEW m \in Motors
             PROVE  age'[m] + cooldown'[m] >= CooldownTicks
  BY DEF PaceInv
<1> USE DamageAssumption
<1>1. /\ age[m] \in Nat /\ age[m] <= CooldownTicks
      /\ cooldown[m] \in Nat /\ cooldown[m] <= CooldownTicks
      /\ age[m] + cooldown[m] >= CooldownTicks
  BY DEF TypeOK, PaceInv
<1>2. ASSUME UNCHANGED <<age, cooldown>> PROVE age'[m] + cooldown'[m] >= CooldownTicks
  BY <1>1, <1>2
<1>3. CASE UNCHANGED vars
  BY <1>2, <1>3 DEF vars, damage
<1>4. CASE \/ \E damageIn \in [Motors -> ScriptedLevels], n \in 0 .. MaxContacts :
                  UpdateState(damageIn, n)
           \/ Harmless \/ FinishDamage
           \/ \E fast, hot \in SUBSET Motors : CalculateMotors(fast, hot)
  BY <1>2, <1>4 DEF UpdateState, Harmless, FinishDamage, CalculateMotors, damage
<1>5. CASE BeginTick
  BY <1>1, <1>5 DEF BeginTick, Older, Sooner
<1>6. CASE Crash
  BY <1>6 DEF Crash, Rested
<1>7. CASE Repair \/ Reset
  BY <1>7 DEF Repair, Reset, NewProps, Rested, None
<1>8. ASSUME NEW hit \in SUBSET Motors, NEW inc, Hurt(hit, inc)
      PROVE  age'[m] + cooldown'[m] >= CooldownTicks
  BY <1>1, <1>8 DEF Hurt
<1>9. CASE Contact
  <2>1. Cooled \in SUBSET Motors /\ \A hit : HitOnce(hit) \in SUBSET Motors
    BY DEF Cooled, HitOnce
  <2> QED BY <1>4, <1>6, <1>8, <1>9, <2>1 DEF Contact, PropStrike, FrameImpact
<1> QED BY <1>3, <1>4, <1>5, <1>7, <1>9 DEF Next

LEMMA CrashKept == TypeOK /\ CrashInv /\ [Next]_vars => CrashInv'
<1> SUFFICES ASSUME TypeOK, CrashInv, [Next]_vars PROVE CrashInv'
  OBVIOUS
<1> USE DamageAssumption
<1>1. CASE UNCHANGED vars
  BY <1>1 DEF CrashInv, vars, damage
<1>2. CASE \/ \E damageIn \in [Motors -> ScriptedLevels], n \in 0 .. MaxContacts :
                  UpdateState(damageIn, n)
           \/ BeginTick \/ Harmless
           \/ \E fast, hot \in SUBSET Motors : CalculateMotors(fast, hot)
  BY <1>2 DEF CrashInv, UpdateState, BeginTick, Harmless, NextContact, CalculateMotors, damage
<1>3. CASE Repair \/ Reset
  BY <1>3 DEF CrashInv, Repair, Reset, NewProps
<1>4. CASE Crash
  <2>1. \A m \in Motors : AtLeastCrash(m) >= CrashDamage
    BY DEF AtLeastCrash, Larger, TypeOK, Levels
  <2> QED BY <1>4, <2>1 DEF CrashInv, Crash, NextContact
<1>5. ASSUME pc = "contacts", pc' = pc, crashed' = crashed,
             \A m \in Motors : accumulated'[m] >= accumulated[m] /\ accumulated'[m] \in Nat
      PROVE  CrashInv'
  BY <1>5 DEF CrashInv, TypeOK, Levels
<1>6. ASSUME NEW reach \in SUBSET Motors, NEW slowed \in SUBSET Motors, NEW inc \in 1 .. Full,
             PropStrike(reach, inc, slowed)
      PROVE  CrashInv'
  <2> DEFINE hit == HitOnce(reach \cap spinning)
             incs == [m \in Motors |-> inc]
  <2>1. hit \in SUBSET Motors /\ incs \in [Motors -> Nat] /\ Hurt(hit, incs)
    BY <1>6 DEF HitOnce, Cooled, PropStrike
  <2> HIDE DEF hit, incs
  <2>2. accumulated' \in [Motors -> Levels] /\ \A m \in Motors : accumulated'[m] >= accumulated[m]
    BY <2>1, HurtTypes
  <2> QED BY <1>5, <1>6, <2>2 DEF PropStrike, NextContact, Levels
<1>7. ASSUME NEW inc \in [Motors -> Levels], FrameImpact(inc)
      PROVE  CrashInv'
  <2>1. Cooled \in SUBSET Motors /\ inc \in [Motors -> Nat] /\ Hurt(Cooled, inc)
    BY <1>7 DEF Cooled, Levels, FrameImpact
  <2>2. accumulated' \in [Motors -> Levels] /\ \A m \in Motors : accumulated'[m] >= accumulated[m]
    BY <2>1, HurtTypes
  <2> QED BY <1>5, <1>7, <2>2 DEF FrameImpact, NextContact, Levels
<1>8. CASE FinishDamage
  <2>1. ASSUME NEW m \in Motors, crashed PROVE eff'[m] >= CrashDamage
    <3>1. eff'[m] = Effective(m)
      BY <1>8 DEF FinishDamage
    <3>2. accumulated[m] >= CrashDamage /\ accumulated[m] \in Nat
      BY <2>1 DEF CrashInv, TypeOK, Levels
    <3> QED BY <3>1, <3>2, EffectiveType DEF Levels
  <2> QED BY <1>8, <2>1 DEF CrashInv, FinishDamage
<1> QED BY <1>1, <1>2, <1>3, <1>4, <1>6, <1>7, <1>8 DEF Next, Contact

LEMMA ReportKept == TypeOK /\ DamageIsReported /\ [Next]_vars => DamageIsReported'
<1> SUFFICES ASSUME TypeOK, DamageIsReported, [Next]_vars PROVE DamageIsReported'
  OBVIOUS
<1> USE DamageAssumption DEF DamageIsReported
<1>1. CASE UNCHANGED vars
  BY <1>1 DEF vars, damage, motors
<1>2. CASE \/ \E damageIn \in [Motors -> ScriptedLevels], n \in 0 .. MaxContacts :
                  UpdateState(damageIn, n)
           \/ \E fast, hot \in SUBSET Motors : CalculateMotors(fast, hot)
  BY <1>2 DEF UpdateState, CalculateMotors, damage, motors
<1>3. CASE BeginTick \/ Contact
  BY <1>3 DEF BeginTick, Contact, Harmless, Crash, PropStrike, FrameImpact, NextContact
<1>4. CASE Repair \/ Reset
  BY <1>4 DEF Repair, Reset, NewProps, None
<1>5. CASE FinishDamage
  <2>1. ASSUME NEW m \in Motors, eff'[m] >= DamagedAt PROVE m \in damagedStatus'
    BY <1>5, <2>1 DEF FinishDamage, Impaired
  <2> QED BY <2>1
<1> QED BY <1>1, <1>2, <1>3, <1>4, <1>5 DEF Next

-----------------------------------------------------------------------------
LEMMA DamageInvInitially == Init => DamageInv
<1> SUFFICES ASSUME Init PROVE DamageInv
  OBVIOUS
<1>1. TypeOK
  BY Constants DEF Init, Undamaged, TypeOK
<1>2. Counted = {}
  BY DEF Init, Undamaged, Counted, None
<1>3. KickInv
  BY <1>2 DEF Init, Undamaged, KickInv, None
<1>4. PaceInv
  BY DamageAssumption DEF Init, Undamaged, PaceInv, Rested, None
<1>5. CrashInv /\ DamageIsReported
  BY DamageAssumption DEF Init, Undamaged, CrashInv, DamageIsReported, None
<1> QED BY <1>1, <1>3, <1>4, <1>5 DEF DamageInv

LEMMA Invariance == Spec => []DamageInv
<1>1. DamageInv /\ [Next]_vars => DamageInv'
  BY TypesKept, KickKept, PaceKept, CrashKept, ReportKept DEF DamageInv
<1> QED BY <1>1, DamageInvInitially, PTL DEF Spec

(* For any number of motors and contacts, every timer and level keeps to its
   range. *)
THEOREM DamageTypes == Spec => []TypeOK
<1>1. DamageInv => TypeOK
  BY DEF DamageInv
<1> QED BY <1>1, Invariance, PTL

(* For any number of motors whose kicks fit into one cooldown, no prop is ever
   counted twice in a yaw kick. *)
THEOREM KicksAreBounded == Spec => []KickCountsEachPropOnce
<1>1. DamageInv => KickCountsEachPropOnce
  BY DEF DamageInv, TypeOK, KickInv, KickCountsEachPropOnce, Counted
<1> QED BY <1>1, Invariance, PTL

(* The latch the client shows as CRASHED always comes with wrecked props. *)
THEOREM CrashedCannotHover == Spec => []CrashGroundsQuad
<1>1. DamageInv => CrashGroundsQuad
  BY DEF DamageInv, CrashInv, CrashGroundsQuad
<1> QED BY <1>1, Invariance, PTL

(* No prop that lost DamagedAt of its thrust goes unreported. *)
THEOREM DamagedAreReported == Spec => []DamageIsReported
<1>1. DamageInv => DamageIsReported
  BY DEF DamageInv
<1> QED BY <1>1, Invariance, PTL

(* Whatever the order of contacts, no prop outside a crash is damaged twice
   within one cooldown: the history's age is never behind the timer. *)
THEOREM ScrapingPaced == Spec => ScrapingIsPaced
<1>1. ASSUME TypeOK, PaceInv, [Next]_vars
      PROVE  [\A m \in Motors : accumulated'[m] > accumulated[m] /\ ~Crash
                 => age[m] = CooldownTicks]_vars
  <2> SUFFICES ASSUME Next, NEW m \in Motors,
                      accumulated'[m] > accumulated[m], ~Crash
               PROVE  age[m] = CooldownTicks
    BY <1>1
  <2> USE DamageAssumption
  <2>1. accumulated[m] \in Nat /\ age[m] \in Nat /\ age[m] <= CooldownTicks
        /\ cooldown[m] \in Nat /\ age[m] + cooldown[m] >= CooldownTicks
    BY <1>1 DEF TypeOK, Levels, PaceInv
  <2>2. accumulated' # accumulated
    BY <2>1
  <2>3. ASSUME NEW hit \in SUBSET Motors, NEW inc, Hurt(hit, inc), hit \subseteq Cooled
        PROVE  age[m] = CooldownTicks
    <3>1. m \in hit
      BY <2>1, <2>3 DEF Hurt
    <3>2. cooldown[m] = 0
      BY <2>3, <3>1 DEF Cooled
    <3> QED BY <2>1, <3>2
  <2>4. CASE \/ \E damageIn \in [Motors -> ScriptedLevels], n \in 0 .. MaxContacts :
                    UpdateState(damageIn, n)
             \/ BeginTick \/ Harmless \/ FinishDamage
             \/ \E fast, hot \in SUBSET Motors : CalculateMotors(fast, hot)
    BY <2>2, <2>4 DEF UpdateState, BeginTick, Harmless, FinishDamage,
                      CalculateMotors, damage
  <2>5. CASE Repair \/ Reset
    BY <2>1, <2>5 DEF Repair, Reset, NewProps, None
  <2>6. CASE \/ \E reach, slowed \in SUBSET Motors, inc \in 1 .. Full :
                    PropStrike(reach, inc, slowed)
             \/ \E inc \in [Motors -> Levels] : FrameImpact(inc)
    <3>1. Cooled \in SUBSET Motors /\ \A hit : HitOnce(hit) \in SUBSET Motors
                                             /\ HitOnce(hit) \subseteq Cooled
      BY DEF Cooled, HitOnce
    <3> QED BY <2>3, <2>6, <3>1 DEF PropStrike, FrameImpact
  <2> QED BY <2>4, <2>5, <2>6 DEF Next, Contact
<1>2. DamageInv => TypeOK /\ PaceInv
  BY DEF DamageInv
<1> QED BY <1>1, <1>2, Invariance, PTL DEF Spec, ScrapingIsPaced

(* Every step but a repair or a reset leaves each prop at least as damaged as
   it was, and the crash latch set. *)
THEOREM NothingHeals == Spec => OnlyRepairHeals
<1>1. ASSUME TypeOK, [Next]_vars
      PROVE  [(\E m \in Motors : accumulated'[m] < accumulated[m]) \/ (crashed /\ ~crashed')
                 => Repair \/ Reset]_vars
  <2> SUFFICES ASSUME Next, ~(Repair \/ Reset)
               PROVE  /\ \A m \in Motors : ~(accumulated'[m] < accumulated[m])
                      /\ crashed => crashed'
    BY <1>1
  <2> USE DamageAssumption
  <2>1. \A m \in Motors : accumulated[m] \in Nat /\ accumulated[m] <= Full
    BY <1>1 DEF TypeOK, Levels
  <2>2. CASE \/ \E damageIn \in [Motors -> ScriptedLevels], n \in 0 .. MaxContacts :
                    UpdateState(damageIn, n)
             \/ BeginTick \/ Harmless \/ FinishDamage
             \/ \E fast, hot \in SUBSET Motors : CalculateMotors(fast, hot)
    <3>1. accumulated' = accumulated /\ crashed' = crashed
      BY <2>2 DEF UpdateState, BeginTick, Harmless, FinishDamage, CalculateMotors, damage
    <3> QED BY <2>1, <3>1
  <2>3. CASE Crash
    BY <2>1, <2>3 DEF Crash, AtLeastCrash, Larger
  <2>4. CASE \E reach, slowed \in SUBSET Motors, inc \in 1 .. Full :
                 PropStrike(reach, inc, slowed)
    <3>1. PICK reach \in SUBSET Motors, slowed \in SUBSET Motors, inc \in 1 .. Full :
              PropStrike(reach, inc, slowed)
      BY <2>4
    <3>2. /\ Hurt(HitOnce(reach \cap spinning), [m \in Motors |-> inc])
          /\ crashed' = crashed
      BY <3>1 DEF PropStrike
    <3>3. HitOnce(reach \cap spinning) \in SUBSET Motors
      BY DEF HitOnce, Cooled
    <3>4. [m \in Motors |-> inc] \in [Motors -> Nat]
      OBVIOUS
    <3>5. /\ accumulated' \in [Motors -> Levels]
          /\ \A m \in Motors : accumulated'[m] >= accumulated[m]
      BY <1>1, <3>2, <3>3, <3>4, HurtTypes, Zenon
    <3> QED BY <2>1, <3>2, <3>5 DEF Levels
  <2>5. CASE \E inc \in [Motors -> Levels] : FrameImpact(inc)
    <3>1. PICK inc \in [Motors -> Levels] : FrameImpact(inc)
      BY <2>5
    <3>2. Hurt(Cooled, inc) /\ crashed' = crashed
      BY <3>1 DEF FrameImpact
    <3>3. Cooled \in SUBSET Motors /\ inc \in [Motors -> Nat]
      BY <3>1 DEF Cooled, Levels
    <3>4. /\ accumulated' \in [Motors -> Levels]
          /\ \A m \in Motors : accumulated'[m] >= accumulated[m]
      BY <1>1, <3>2, <3>3, HurtTypes, Zenon
    <3> QED BY <2>1, <3>2, <3>4 DEF Levels
  <2> QED BY <2>2, <2>3, <2>4, <2>5 DEF Next, Contact
<1>2. DamageInv => TypeOK
  BY DEF DamageInv
<1> QED BY <1>1, <1>2, Invariance, PTL DEF Spec, OnlyRepairHeals
=============================================================================
