-------------------------- MODULE MCStaticSnapshot --------------------------
(* Two sections with a gap, and exclusions that are empty, cover a section's
   end, a whole section, or overlap each other in either order. *)
EXTENDS StaticSnapshot

MCSections == <<[addr |-> 0, size |-> 4], [addr |-> 5, size |-> 2]>>
MCImages == {[a \in Addrs |-> v] : v \in Values}
MCBook == [addr |-> 1, size |-> 1]
MCRanges == {[addr |-> 0, size |-> 0], [addr |-> 2, size |-> 1],
             [addr |-> 0, size |-> 2], [addr |-> 1, size |-> 2],
             [addr |-> 3, size |-> 3], [addr |-> 6, size |-> 3]}
=============================================================================
