-------------------------- MODULE MCContactManifold --------------------------
(* Small instance: three points of the hull, two of them near each other, and
   room for two contacts, with a tolerance above the slop so that the core's
   own depth is sometimes kept and sometimes not. *)
EXTENDS ContactManifold, TLC

CONSTANTS p1, p2, p3

MCNear == {<<p1, p1>>, <<p2, p2>>, <<p3, p3>>, <<p1, p2>>, <<p2, p1>>}
MCSpeeds == {-1, 0, 1}

(* The two near points may be swapped, and so may the surfaces. *)
Alike == Permutations({p1, p2}) \union Permutations(Surfaces)
=============================================================================
