--------------------------- MODULE StaticSnapshot ---------------------------
(***************************************************************************)
(* The deterministic reset of core/sim/static_snapshot.cpp: the writable   *)
(* sections of the process are copied once, right after the first boot,    *)
(* and copied back on every reset, except for the ranges registered as     *)
(* exclusions.  The copy-back walks each section in pieces between the     *)
(* exclusion "holes"; the walk is modelled statement by statement, so its  *)
(* termination and what it writes are properties of the loop itself.       *)
(* Nothing else writes to the sections meanwhile: the caller is the sim    *)
(* thread and holds pwDyadMutex, which quiesces the dyad worker.           *)
(***************************************************************************)
EXTENDS Naturals, Sequences

CONSTANTS
    Top,            \* addresses are 0 .. Top - 1
    Values,         \* contents of a byte
    Images,         \* memories the running program may be in
    Sections,       \* the platform walk: a sequence of [addr, size]
    Book,           \* the range of the snapshot's own bookkeeping
    Ranges,         \* ranges a caller may exclude
    MaxExclusions   \* MAX_EXCLUSIONS

Addrs == 0 .. Top - 1
Range == [addr : 0 .. Top, size : 0 .. Top]
Within(x) == x.addr + x.size <= Top
Bytes(x) == {a \in Addrs : x.addr <= a /\ a < x.addr + x.size}

ASSUME TopAssumption == Top \in Nat /\ MaxExclusions \in Nat
ASSUME RangeAssumption ==
    /\ Book \in Range
    /\ Ranges \subseteq Range
    /\ Images \subseteq [Addrs -> Values]
ASSUME SectionAssumption ==
    /\ Sections \in Seq(Range)
    /\ \A i \in 1 .. Len(Sections) : Within(Sections[i])

VARIABLES
    mem,            \* the writable static sections of the image
    exclusions,     \* g.exclusions
    copy,           \* the regions' heap copies
    taken,          \* g.taken
    pc,             \* "run", or where the copy-back is
    region,         \* i, the section being restored
    pos,            \* the next byte to restore
    e,              \* the exclusion being looked at
    holeStart, holeEnd,
    boot,           \* history: the memory at the first snapshotTake
    before,         \* history: the memory when the restore began
    rewound         \* history: nothing ran since the last restore

walk == <<region, pos, e, holeStart, holeEnd>>
vars == <<mem, exclusions, copy, taken, pc, region, pos, e, holeStart, holeEnd,
          boot, before, rewound>>

TypeOK ==
    /\ mem \in [Addrs -> Values]
    /\ exclusions \in Seq(Range)
    /\ copy \in [Addrs -> Values]
    /\ taken \in BOOLEAN
    /\ pc \in {"run", "section", "piece", "look", "copy"}
    /\ region \in 1 .. Len(Sections) + 1
    /\ pos \in 0 .. Top
    /\ e \in 1 .. Len(exclusions) + 1
    /\ holeStart \in 0 .. Top
    /\ holeEnd \in 0 .. Top
    /\ {boot, before} \subseteq [Addrs -> Values]
    /\ rewound \in BOOLEAN

Init ==
    /\ mem \in Images
    /\ exclusions = <<>>
    /\ copy = mem
    /\ taken = FALSE
    /\ pc = "run"
    /\ region = 1
    /\ pos = 0
    /\ e = 1
    /\ holeStart = 0
    /\ holeEnd = 0
    /\ boot = mem
    /\ before = mem
    /\ rewound = FALSE

-----------------------------------------------------------------------------
(* snapshotExclude: ignored once the snapshot exists or the table is full. *)
ExcludedLate(x) ==  \* mutant
    IF Len(exclusions) >= MaxExclusions THEN exclusions ELSE Append(exclusions, x)
Excluded(x) ==
    IF taken \/ Len(exclusions) >= MaxExclusions THEN exclusions
    ELSE Append(exclusions, x)

Exclude(x) ==
    /\ pc = "run"
    /\ exclusions' = Excluded(x)
    /\ UNCHANGED <<mem, copy, taken, pc, walk, boot, before, rewound>>

(* snapshotTake: the first call wins, and excludes the bookkeeping itself. *)
EveryTime == TRUE   \* mutant
OnlyOnce == ~taken

Take ==
    /\ pc = "run"
    /\ OnlyOnce
    /\ exclusions' = Excluded(Book)
    /\ copy' = mem
    /\ taken' = TRUE
    /\ boot' = IF taken THEN boot ELSE mem
    /\ UNCHANGED <<mem, pc, walk, before, rewound>>

(* The program runs: any static may change. *)
Execute(image) ==
    /\ pc = "run"
    /\ mem' = image
    /\ rewound' = FALSE
    /\ UNCHANGED <<exclusions, copy, taken, pc, walk, boot, before>>

-----------------------------------------------------------------------------
(* snapshotRestore *)

End == Sections[region].addr + Sections[region].size

Restore ==
    /\ pc = "run"
    /\ taken
    /\ pc' = "section"
    /\ region' = 1
    /\ before' = mem
    /\ UNCHANGED <<mem, exclusions, copy, taken, pos, e, holeStart, holeEnd, boot, rewound>>

NextSection ==
    /\ pc = "section"
    /\ region <= Len(Sections)
    /\ pos' = Sections[region].addr
    /\ pc' = "piece"
    /\ UNCHANGED <<mem, exclusions, copy, taken, region, e, holeStart, holeEnd, boot, before,
                   rewound>>

Restored ==
    /\ pc = "section"
    /\ region > Len(Sections)
    /\ pc' = "run"
    /\ rewound' = TRUE
    /\ UNCHANGED <<mem, exclusions, copy, taken, walk, boot, before>>

NextPiece ==
    /\ pc = "piece"
    /\ pos < End
    /\ holeStart' = End
    /\ holeEnd' = End
    /\ e' = 1
    /\ pc' = "look"
    /\ UNCHANGED <<mem, exclusions, copy, taken, region, pos, boot, before, rewound>>

SectionDone ==
    /\ pc = "piece"
    /\ pos >= End
    /\ region' = region + 1
    /\ pc' = "section"
    /\ UNCHANGED <<mem, exclusions, copy, taken, pos, e, holeStart, holeEnd, boot, before,
                   rewound>>

(* Does the exclusion overlap what is left, before the hole known so far? *)
AnyOverlap(es, ee) ==  \* mutant
    ee > pos /\ es < End
Nearer(es, ee) == ee > pos /\ es < holeStart

Clipped(ee) == IF ee > End THEN End ELSE ee

Look ==
    /\ pc = "look"
    /\ e <= Len(exclusions)
    /\ LET es == exclusions[e].addr
           ee == es + exclusions[e].size
       IN  IF Nearer(es, ee)
           THEN /\ holeStart' = IF es < pos THEN pos ELSE es
                /\ holeEnd' = Clipped(ee)
           ELSE UNCHANGED <<holeStart, holeEnd>>
    /\ e' = e + 1
    /\ UNCHANGED <<mem, exclusions, copy, taken, pc, region, pos, boot, before, rewound>>

Looked ==
    /\ pc = "look"
    /\ e > Len(exclusions)
    /\ pc' = "copy"
    /\ UNCHANGED <<mem, exclusions, copy, taken, walk, boot, before, rewound>>

ToTheHole == holeStart  \* mutant
PastTheHole == IF holeEnd > pos THEN holeEnd ELSE pos + 1

CopyPiece ==
    /\ pc = "copy"
    /\ mem' = [a \in Addrs |-> IF pos <= a /\ a < holeStart THEN copy[a] ELSE mem[a]]
    /\ pos' = PastTheHole
    /\ pc' = "piece"
    /\ UNCHANGED <<exclusions, copy, taken, region, e, holeStart, holeEnd, boot, before,
                   rewound>>

RestoreStep ==
    NextSection \/ Restored \/ NextPiece \/ SectionDone \/ Look \/ Looked \/ CopyPiece

Next ==
    \/ \E x \in Ranges : Exclude(x)
    \/ Take
    \/ \E image \in Images : Execute(image)
    \/ Restore
    \/ RestoreStep

Spec == Init /\ [][Next]_vars
FairSpec == Spec /\ WF_vars(RestoreStep)

-----------------------------------------------------------------------------
Protected == {a \in Addrs : \E i \in 1 .. Len(exclusions) : a \in Bytes(exclusions[i])}
Captured == {a \in Addrs : \E i \in 1 .. Len(Sections) : a \in Bytes(Sections[i])}

(* What the reset relies on: after every restore, however often the process
   was initialised, a captured byte has the value it had at the first boot,
   except for the excluded ones, which (with everything outside the sections)
   are as they were when the restore began. *)
RestoreIsExact ==
    [][Restored => mem = [a \in Addrs |-> IF a \in Captured \ Protected
                                          THEN boot[a] ELSE before[a]]]_vars

(* A restore is one atomic rewind to whoever runs before and after it: until
   it returns the memory counts as it was when it began, and what runs next
   finds the image outside of the shield and nothing else changed.  The modules
   of what is rewound (FirmwareConfig, Powertrain) rely on this. *)
Contract == INSTANCE SnapshotContract
                WITH mem      <- IF pc = "run" THEN mem ELSE before,
                     image    <- copy,
                     shielded <- Protected,
                     fresh    <- rewound

RewindSpec == Contract!Spec

(* The host's plumbing is never written, not even between two pieces. *)
HolesAreKept ==
    [][pc # "run" => \A a \in Protected : mem'[a] = mem[a]]_vars

(* The walk ends, whatever the exclusions' sizes, order and overlaps. *)
RestoreEnds == (pc # "run") ~> (pc = "run")
=============================================================================
