--------------------------- MODULE MCDraftContexts ---------------------------
(***************************************************************************)
(* Instances of DraftContexts for TLC.                                     *)
(***************************************************************************)
EXTENDS DraftContexts, TLC

CONSTANTS c1, c2

\* One long batch, for calls made one at a time.
LongBatch == [c \in Calls |-> 6]

\* The smallest batches with which racing calls can close a cycle of contexts:
\* c2 spawns under a context that c1 removes, spawns that context again under
\* its own child, and closes the child.
RacingBatches == (c1 :> 2) @@ (c2 :> 3)

OneOf == Permutations(Ids \ {Root})
=============================================================================
