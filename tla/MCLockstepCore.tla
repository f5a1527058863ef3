--------------------------- MODULE MCLockstepCore ---------------------------
(* Small instance: a tick of 2, an advance clamped to 5, an idle tick of 3
   (so that a residue stays), and deltas below, at and beyond each. *)
EXTENDS LockstepCore

MCDeltas == {-1, 1, 4, 9}
=============================================================================
