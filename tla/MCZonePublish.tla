--------------------------- MODULE MCZonePublish ---------------------------
(* ZonePublish on small instances: every kind of thread, one zone or two. *)
EXTENDS ZonePublish, TLC

\* Threads of one kind are interchangeable.
Symmetry == Permutations(Editors)
============================================================================
