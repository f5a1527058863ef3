----------------------------- MODULE MCPowertrain -----------------------------
(* Small instance: two motors, two packs, a millisecond of two ticks. *)
EXTENDS Powertrain, TLC

MCSmall == [seed |-> 1, charged |-> 2]
MCProfiles == {MCSmall, [seed |-> 2, charged |-> 3]}
MCAlike == Permutations(Motors)
=============================================================================
