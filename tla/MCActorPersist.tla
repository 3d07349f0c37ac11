--------------------------- MODULE MCActorPersist ---------------------------
(* ActorPersist for TLC.  Requests are interchangeable, so the safety run    *)
(* identifies states that differ only in their names.                        *)
EXTENDS ActorPersist, TLC

Symmetry == Permutations(Requests)

=============================================================================
