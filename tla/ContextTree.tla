----------------------------- MODULE ContextTree -----------------------------
(***************************************************************************)
(* What the contexts of a draft promise: a tree of named contexts under    *)
(* "root", where a spawn adds a leaf and a done removes a whole subtree,   *)
(* each in one step.                                                       *)
(***************************************************************************)
EXTENDS ContextNames

VARIABLE parent     \* context id -> parent context id

Live == {x \in Ids : parent[x] # Absent}

TypeOK == parent \in [Ids -> Ids \cup {None, Absent}]

Init == parent = [x \in Ids |-> IF x = Root THEN None ELSE Absent]

\* The subtree of x: in every set that holds x and the children of its members.
Subtree(x) ==
    {y \in Ids : \A S \in SUBSET Ids :
        x \in S /\ (\A z \in Ids : parent[z] \in S => z \in S) => y \in S}

Spawn(p, x) == /\ p \in Live /\ x \notin Live
               /\ parent' = [parent EXCEPT ![x] = p]

Done(x) == /\ x \in Live \ {Root}
           /\ parent' = [y \in Ids |-> IF y \in Subtree(x) THEN Absent ELSE parent[y]]

Next == \/ \E p, x \in Ids : Spawn(p, x)
        \/ \E x \in Ids : Done(x)

Spec == Init /\ [][Next]_parent

-----------------------------------------------------------------------------
(***************************************************************************)
(* The root stays, and the parent of every other live context is live.     *)
(***************************************************************************)
Rooted == /\ \A x \in Ids : parent[x] = None <=> x = Root
          /\ \A x \in Live \ {Root} : parent[x] \in Live

(***************************************************************************)
(* No context is its own ancestor: a set of contexts other than the root   *)
(* has a member whose parent is outside the set.                           *)
(***************************************************************************)
Acyclic == \A S \in SUBSET (Live \ {Root}) :
               S # {} => \E x \in S : parent[x] \notin S
=============================================================================
