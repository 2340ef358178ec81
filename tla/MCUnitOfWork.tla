---------------------------- MODULE MCUnitOfWork ----------------------------
(***************************************************************************)
(* Instances of UnitOfWork for TLC.                                        *)
(***************************************************************************)
EXTENDS UnitOfWork, TLC

CONSTANTS c1, c2, c3

\* Two batches of two changes, which can be seen, copied or rolled back half
\* made, and one of one.
Batches == (c1 :> 2) @@ (c2 :> 2) @@ (c3 :> 1)
=============================================================================
