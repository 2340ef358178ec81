------------------------- MODULE MCAuthenticatedCalls -------------------------
(***************************************************************************)
(* Instances of AuthenticatedCalls for TLC.                                *)
(***************************************************************************)
EXTENDS AuthenticatedCalls, TLC

Symmetry == Permutations(Calls)
=============================================================================
