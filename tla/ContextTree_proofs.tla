-------------------------- MODULE ContextTree_proofs --------------------------
(***************************************************************************)
(* The contexts of a draft always form one tree, whatever their number.    *)
(***************************************************************************)
EXTENDS ContextTree, TLAPS

(***************************************************************************)
(* A subtree holds its own root, and all children of what it holds.        *)
(***************************************************************************)
LEMMA SubtreeClosed ==
  ASSUME NEW x \in Ids
  PROVE  /\ x \in Subtree(x)
         /\ \A z \in Ids : parent[z] \in Subtree(x) => z \in Subtree(x)
  BY DEF Subtree

(***************************************************************************)
(* The root is in no subtree of another context: the other contexts are    *)
(* closed under children.                                                  *)
(***************************************************************************)
LEMMA RootOutside ==
  ASSUME TypeOK, Rooted, NEW x \in Ids, x # Root
  PROVE  Root \notin Subtree(x)
<1>1. \A z \in Ids : parent[z] \in Ids \ {Root} => z \in Ids \ {Root}
  BY NamesAssumption DEF Rooted
<1> QED
  BY <1>1 DEF Subtree

(***************************************************************************)
(* The contexts are always rooted and acyclic.                             *)
(***************************************************************************)
THEOREM TreeAlways == Spec => [](TypeOK /\ Rooted /\ Acyclic)
<1>1. Init => TypeOK /\ Rooted /\ Acyclic
  BY NamesAssumption DEF Init, TypeOK, Rooted, Acyclic, Live
<1>2. TypeOK /\ Rooted /\ Acyclic /\ [Next]_parent => (TypeOK /\ Rooted /\ Acyclic)'
  <2> SUFFICES ASSUME TypeOK, Rooted, Acyclic, [Next]_parent
               PROVE  (TypeOK /\ Rooted /\ Acyclic)'
    OBVIOUS
  <2>1. ASSUME NEW p \in Ids, NEW x \in Ids, Spawn(p, x)
        PROVE  (TypeOK /\ Rooted /\ Acyclic)'
    <3>1. /\ x # Root /\ p # x
          /\ \A y \in Ids : parent'[y] = IF y = x THEN p ELSE parent[y]
          /\ Live' = Live \cup {x}
      BY <2>1, NamesAssumption DEF Spawn, TypeOK, Live, Rooted
    <3>2. TypeOK' /\ Rooted'
      BY <2>1, <3>1, NamesAssumption DEF Spawn, TypeOK, Live, Rooted
    <3>3. \A y \in Live \ {Root} : parent[y] # x
      BY <2>1 DEF Spawn, Rooted
    <3>4. ASSUME NEW S \in SUBSET (Live' \ {Root}), S # {}
          PROVE  \E y \in S : parent'[y] \notin S
      <4>1. CASE S = {x}
        <5>1. x \in S /\ parent'[x] = p
          BY <3>1, <4>1
        <5> QED
          BY <3>1, <4>1, <5>1
      <4>2. CASE S # {x}
        <5>1. S \ {x} \in SUBSET (Live \ {Root}) /\ S \ {x} # {}
          BY <3>1, <3>4, <4>2
        <5>2. PICK y \in S \ {x} : parent[y] \notin S \ {x}
          BY <5>1 DEF Acyclic
        <5>3. y \in Ids /\ y \in Live \ {Root} /\ y # x
          BY <5>1, <5>2 DEF Live
        <5>4. parent'[y] = parent[y] /\ parent[y] # x
          BY <3>1, <3>3, <5>3
        <5> QED
          BY <5>2, <5>4
      <4> QED
        BY <4>1, <4>2
    <3> QED
      BY <3>2, <3>4 DEF Acyclic
  <2>2. ASSUME NEW x \in Ids, Done(x)
        PROVE  (TypeOK /\ Rooted /\ Acyclic)'
    <3>1. \A y \in Ids : parent'[y] = IF y \in Subtree(x) THEN Absent ELSE parent[y]
      BY <2>2 DEF Done
    <3>2. Live' = Live \ Subtree(x)
      BY <3>1 DEF Live
    <3>3. TypeOK'
      BY <2>2 DEF Done, TypeOK
    <3>4. Root \notin Subtree(x)
      BY <2>2, RootOutside DEF Done
    <3>5. Rooted'
      BY <3>1, <3>2, <3>4, SubtreeClosed, NamesAssumption DEF Rooted, Live
    <3>6. Acyclic'
      BY <3>1, <3>2 DEF Acyclic, Live
    <3> QED
      BY <3>3, <3>5, <3>6
  <2>3. CASE UNCHANGED parent
    BY <2>3 DEF TypeOK, Rooted, Acyclic, Live
  <2> QED
    BY <2>1, <2>2, <2>3 DEF Next
<1> QED
  BY <1>1, <1>2, PTL DEF Spec
=============================================================================
