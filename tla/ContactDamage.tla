---------------------------- MODULE ContactDamage ----------------------------
(***************************************************************************)
(* The impact-damage model of core/sim/physics.cpp: what the contacts of a *)
(* sub-tick do to the props, the crash latch, the yaw kick of a prop       *)
(* strike, and what repairs it.  updateDamage walks the contact manifold   *)
(* once per 50 us sub-tick; a contact's effect on the cooldowns decides    *)
(* what the next contact of the same sub-tick may do, so each contact is a *)
(* step of its own.                                                        *)
(*                                                                         *)
(* Damage is measured in levels, speeds and distances by what they lead    *)
(* to, times in sub-ticks.  Every sum the code takes of strike directions  *)
(* is kept as how often each prop is counted in it.                        *)
(***************************************************************************)
EXTENDS Naturals, FiniteSets

CONSTANTS
    Motors,
    Full,           \* 1.0, a destroyed prop
    CrashDamage,    \* cfg.crashDamage
    DamagedAt,      \* cfg.damagedStatusAt
    CooldownTicks,  \* cfg.cooldownS
    KickTicks,      \* cfg.strikeTorqueS
    ScriptedLevels, \* prop_damage values a client sends
    MaxContacts     \* PW_MAX_CONTACTS

(* The shipped configuration: 5000 sub-ticks of cooldown, 200 of kick. *)
ASSUME DamageAssumption ==
    /\ IsFiniteSet(Motors)
    /\ Full \in Nat /\ CrashDamage \in 1 .. Full /\ DamagedAt \in 1 .. CrashDamage
    /\ KickTicks \in Nat \ {0}
    /\ CooldownTicks \in Nat /\ CooldownTicks >= KickTicks * Cardinality(Motors)
    /\ ScriptedLevels \subseteq 0 .. Full
    /\ MaxContacts \in Nat

VARIABLES
    accumulated, eff, cooldown,     \* DamageState, per motor
    strikeTicks, crashed,           \* DamageState
    kicks,                          \* how often a motor is in strikeYawSign
    scripted,                       \* stateInput.propDamage
    spinning,                       \* motors at or above propSpinMinRpm
    damagedStatus, burnedOut,       \* motorsState[].status
    contactCount, left,             \* the manifold, and what is left of it
    pc,                             \* "ready", "contacts" or "motors"
    age                             \* history: sub-ticks since a motor's last damage

damage == <<accumulated, eff, cooldown, strikeTicks, crashed, kicks, age>>
motors == <<spinning, damagedStatus, burnedOut>>
vars == <<damage, motors, scripted, contactCount, left, pc>>

Levels == 0 .. Full
None == [m \in Motors |-> 0]
Rested == [m \in Motors |-> CooldownTicks]

TypeOK ==
    /\ {accumulated, eff, scripted} \subseteq [Motors -> Levels]
    /\ cooldown \in [Motors -> 0 .. CooldownTicks]
    /\ age \in [Motors -> 0 .. CooldownTicks]
    /\ strikeTicks \in 0 .. KickTicks
    /\ kicks \in [Motors -> Nat]
    /\ crashed \in BOOLEAN
    /\ {spinning, damagedStatus, burnedOut} \subseteq SUBSET Motors
    /\ {contactCount, left} \subseteq 0 .. MaxContacts
    /\ pc \in {"ready", "contacts", "motors"}

Undamaged ==
    /\ accumulated = None /\ eff = None /\ cooldown = None /\ kicks = None
    /\ strikeTicks = 0
    /\ crashed = FALSE
    /\ age = Rested

Init ==
    /\ Undamaged
    /\ scripted = None
    /\ spinning = {} /\ damagedStatus = {} /\ burnedOut = {}
    /\ contactCount = 0 /\ left = 0
    /\ pc = "ready"

-----------------------------------------------------------------------------
Sooner(n) == IF n > 0 THEN n - 1 ELSE 0
Older(n) == IF n < CooldownTicks THEN n + 1 ELSE n
AtMostFull(n) == IF n > Full THEN Full ELSE n
Larger(a, b) == IF a > b THEN a ELSE b

Cooled == {m \in Motors : cooldown[m] = 0}

(* updateState: the client's next frame replaces the manifold. *)
UpdateState(damageIn, n) ==
    /\ pc = "ready"
    /\ scripted' = damageIn
    /\ contactCount' = n
    /\ UNCHANGED <<damage, motors, left, pc>>

(* updateDamage: the timers, before any contact *)
KeepSum == kicks                                               \* mutant
ClearSum == IF strikeTicks = 1 THEN None ELSE kicks

BeginTick ==
    /\ pc = "ready"
    /\ cooldown' = [m \in Motors |-> Sooner(cooldown[m])]
    /\ age' = [m \in Motors |-> Older(age[m])]
    /\ strikeTicks' = Sooner(strikeTicks)
    /\ kicks' = ClearSum
    /\ left' = contactCount
    /\ pc' = "contacts"
    /\ UNCHANGED <<accumulated, eff, crashed, motors, scripted, contactCount>>

NextContact == pc = "contacts" /\ left > 0 /\ left' = left - 1

(* separated, or too slow to matter *)
Harmless ==
    /\ NextContact
    /\ UNCHANGED <<damage, motors, scripted, contactCount, pc>>

(* a structural crash damages every motor, cooled down or not *)
SetToCrash(m) == CrashDamage                                   \* mutant
IfCooled(m) == IF cooldown[m] = 0 THEN Larger(accumulated[m], CrashDamage) \* mutant
                                  ELSE accumulated[m]
AtLeastCrash(m) == Larger(accumulated[m], CrashDamage)

Crash ==
    /\ NextContact
    /\ accumulated' = [m \in Motors |-> AtLeastCrash(m)]
    /\ cooldown' = Rested
    /\ age' = [m \in Motors |-> 0]
    /\ crashed' = TRUE
    /\ UNCHANGED <<eff, strikeTicks, kicks, motors, scripted, contactCount, pc>>

(* Motors hit for the first time in a cooldown, and what it does to them *)
HitAnyTime(hit) == hit                                         \* mutant
HitOnce(hit) == hit \cap Cooled

Hurt(hit, inc) ==
    /\ accumulated' = [m \in Motors |-> IF m \in hit THEN AtMostFull(accumulated[m] + inc[m])
                                                     ELSE accumulated[m]]
    /\ cooldown' = [m \in Motors |-> IF m \in hit THEN CooldownTicks ELSE cooldown[m]]
    /\ age' = [m \in Motors |-> IF m \in hit THEN 0 ELSE age[m]]

(* a contact inside spinning prop discs: rpm slashed (and possibly still
   above the threshold), the kick restarted, each prop's side added to it *)
PropStrike(reach, inc, slowed) ==
    /\ NextContact
    /\ LET hit == HitOnce(reach \cap spinning)
       IN  /\ hit # {}
           /\ Hurt(hit, [m \in Motors |-> inc])
           /\ kicks' = [m \in Motors |-> IF m \in hit THEN kicks[m] + 1 ELSE kicks[m]]
           /\ spinning' = spinning \ (slowed \cap hit)
    /\ strikeTicks' = KickTicks
    /\ UNCHANGED <<eff, crashed, damagedStatus, burnedOut, scripted, contactCount, pc>>

(* an impact on the frame, weighted by the distance to each motor *)
FrameImpact(inc) ==
    /\ NextContact
    /\ Hurt(Cooled, inc)
    /\ UNCHANGED <<eff, strikeTicks, crashed, kicks, motors, scripted, contactCount, pc>>

(* the effective damage, once the manifold is done *)
Effective(m) == AtMostFull(Larger(scripted[m], accumulated[m]))
Impaired == {m \in Motors : Effective(m) >= DamagedAt}

FinishDamage ==
    /\ pc = "contacts"
    /\ left = 0
    /\ eff' = [m \in Motors |-> Effective(m)]
    /\ damagedStatus' = damagedStatus \cup Impaired
    /\ pc' = "motors"
    /\ UNCHANGED <<accumulated, cooldown, strikeTicks, crashed, kicks, age,
                   spinning, burnedOut, scripted, contactCount, left>>

(* calculateMotors: a burned-out motor stands still; others follow their
   throttle, and any of them may overheat *)
CalculateMotors(fast, hot) ==
    /\ pc = "motors"
    /\ spinning' = fast \ burnedOut
    /\ burnedOut' = burnedOut \cup hot
    /\ pc' = "ready"
    /\ UNCHANGED <<damage, damagedStatus, scripted, contactCount, left>>

NewProps ==
    /\ accumulated' = None /\ eff' = None /\ cooldown' = None /\ kicks' = None
    /\ strikeTicks' = 0
    /\ crashed' = FALSE
    /\ age' = Rested
    /\ damagedStatus' = {} /\ burnedOut' = {}

(* PW_CMD_REPAIR *)
Repair ==
    /\ pc = "ready"
    /\ NewProps
    /\ UNCHANGED <<spinning, scripted, contactCount, left, pc>>

(* PW_CMD_RESET: the rewound statics include the whole SimState. *)
Reset ==
    /\ pc = "ready"
    /\ NewProps
    /\ spinning' = {}
    /\ scripted' = None
    /\ contactCount' = 0
    /\ UNCHANGED <<left, pc>>

Contact ==
    \/ Harmless
    \/ Crash
    \/ \E reach, slowed \in SUBSET Motors, inc \in 1 .. Full : PropStrike(reach, inc, slowed)
    \/ \E inc \in [Motors -> Levels] : FrameImpact(inc)

Next ==
    \/ \E damageIn \in [Motors -> ScriptedLevels], n \in 0 .. MaxContacts :
           UpdateState(damageIn, n)
    \/ BeginTick
    \/ Contact
    \/ FinishDamage
    \/ \E fast, hot \in SUBSET Motors : CalculateMotors(fast, hot)
    \/ Repair
    \/ Reset

Spec == Init /\ [][Next]_vars

-----------------------------------------------------------------------------
(* However strikes follow on each other, a kick counts every prop at most
   once, so its torque never exceeds that of the props on one side; and it
   ends with nothing left over for the next one. *)
KickCountsEachPropOnce ==
    \A m \in Motors : kicks[m] <= (IF strikeTicks = 0 THEN 0 ELSE 1)

(* The crash latch the client is shown always means a quad that cannot
   hover: between sub-ticks every prop is effectively wrecked. *)
CrashGroundsQuad ==
    crashed /\ pc # "contacts" => \A m \in Motors : eff[m] >= CrashDamage

(* A prop that lost effective damage enough is reported as damaged. *)
DamageIsReported ==
    pc # "contacts" => \A m \in Motors : eff[m] >= DamagedAt => m \in damagedStatus

(* Nothing heals in flight: neither damage nor the latch. *)
OnlyRepairHeals ==
    [][(\E m \in Motors : accumulated'[m] < accumulated[m]) \/ (crashed /\ ~crashed')
           => Repair \/ Reset]_vars

(* Sustained scraping is paced: but for a crash, a prop's damage never grows
   twice within one cooldown. *)
ScrapingIsPaced ==
    [][\A m \in Motors : accumulated'[m] > accumulated[m] /\ ~Crash
           => age[m] = CooldownTicks]_vars
=============================================================================
