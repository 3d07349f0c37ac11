--------------------------- MODULE MCActorSchedule ---------------------------
(* ActorSchedule for TLC.  Alarm callbacks are interchangeable, and so are   *)
(* events.                                                                   *)
EXTENDS ActorSchedule, TLC

Symmetry == Permutations(Alarms) \union Permutations(Events)

=============================================================================
