------------------------ MODULE MCInteractiveSessions ------------------------
(***************************************************************************)
(* Instances of InteractiveSessions for TLC.                               *)
(***************************************************************************)
EXTENDS InteractiveSessions, TLC

Symmetry == Permutations(Calls) \cup Permutations(Sessions)
=============================================================================
