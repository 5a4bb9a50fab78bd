------------------------- MODULE MCMissionLifecycle -------------------------
(* Instances of MissionLifecycle for TLC.                                  *)
EXTENDS MissionLifecycle, TLC

Symmetry == Permutations(Requests) \cup Permutations(Workers) \cup Permutations(Messages)
=============================================================================
