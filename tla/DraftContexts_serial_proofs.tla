--------------------- MODULE DraftContexts_serial_proofs ----------------------
(***************************************************************************)
(* update_draft calls made one at a time, on drafts of any size: they      *)
(* implement the atomic tree of ContextTree, and keep every context on an  *)
(* open builder.  Where the interpreter must not run out of stack the      *)
(* theorems say so: MaxDepth >= Cardinality(Ids).                          *)
(***************************************************************************)
EXTENDS DraftContexts_proofs

-----------------------------------------------------------------------------
(***************************************************************************)
(* Inside a removal: what it still has to remove is as it was before, the  *)
(* contexts of its frames are a chain of parents and children that starts  *)
(* at the context of the done, none of them is collected for removal       *)
(* twice, and what is gone is part of the subtree of that context.         *)
(***************************************************************************)
AsBefore == \A y \in Ids : contexts[y] \in {before[y], Absent}

Chain(c) ==
    /\ frames[c][1].context = op[c].context
    /\ \A i \in 1..Depth(c) : frames[c][i].context \in Live(contexts)
    /\ \A i \in 1..Depth(c) : frames[c][i].children \subseteq KidsOf(contexts, frames[c][i].context)
    /\ \A i \in 1..Depth(c) - 1 :
           /\ contexts[frames[c][i + 1].context].parent = frames[c][i].context
           /\ frames[c][i + 1].context \notin frames[c][i].children

\* In the tree before the removal, as Tree!Subtree has it.
ClosedBefore(S) == \A z \in Ids : Parents(before)[z] \in S => z \in S
Gone == {y \in Ids : before[y] # Absent /\ contexts[y] = Absent}

WithinSubtree(c) ==
    \A S \in SUBSET Ids : op[c].context \in S /\ ClosedBefore(S) =>
        /\ Gone \subseteq S
        /\ \A i \in 1..Depth(c) : frames[c][i].context \in S

RemovalInv(c) == AsBefore /\ Chain(c) /\ WithinSubtree(c)

(***************************************************************************)
(* One call at a time, and what it has checked or walked over still holds. *)
(***************************************************************************)
SerialCall(c) ==
    /\ pc[c] \in {"checked", "opened"} => ~Refused(op[c])
    /\ pc[c] \in {"scanning", "listing"} => walked[c] = Live(contexts)
    /\ pc[c] \in Removal => RemovalInv(c)

SerialInv ==
    /\ \A c, d \in ActiveCalls : c = d
    /\ ~raced
    /\ \A c \in Calls : SerialCall(c)

(***************************************************************************)
(* Builders: each live context has its own, which its parent's builder     *)
(* opened and which is open unless its removal is under way; the builder   *)
(* of an operation is that of its context, and a spawned one is new.       *)
(***************************************************************************)
UsedBuilders == Builders \ Unused

OwnBuilders ==
    /\ \A x \in Live(contexts) : contexts[x].builder \in UsedBuilders
    /\ \A x, y \in Live(contexts) : contexts[x].builder = contexts[y].builder => x = y
    /\ \A x \in Live(contexts) \ {Root} :
           origin[contexts[x].builder] = contexts[contexts[x].parent].builder
    /\ closed \subseteq UsedBuilders
    /\ \A x \in Live(contexts) : contexts[x].builder \in closed =>
           \E c \in Calls : pc[c] \in Removal /\ op[c].context = x

CallBuilder(c) ==
    /\ pc[c] \in {"checked", "opened"} => builder[c] = contexts[op[c].context].builder
    /\ pc[c] = "opened" =>
           /\ result[c] \in UsedBuilders /\ result[c] \notin closed /\ origin[result[c]] = builder[c]
           /\ \A x \in Live(contexts) : contexts[x].builder # result[c]
    /\ pc[c] = "ready" /\ status[c] = "failed" => builder[c] \notin closed
    /\ pc[c] = "idle" => status[c] = "none"

BuilderInv == OwnBuilders /\ \A c \in Calls : CallBuilder(c)

-----------------------------------------------------------------------------
(***************************************************************************)
(* The chain of frames visits no context twice, so a removal never nests   *)
(* deeper than the contexts of the draft.                                  *)
(***************************************************************************)
LEMMA Distinct ==
  ASSUME TypeOK, RootInv, Forest, NEW c \in Calls, pc[c] \in Removal, Chain(c),
         NEW i \in 1..Depth(c), NEW j \in 1..Depth(c), i < j
  PROVE  frames[c][i].context # frames[c][j].context
<1> SUFFICES ASSUME frames[c][i].context = frames[c][j].context
             PROVE  FALSE
  OBVIOUS
<1> DEFINE S == {frames[c][k].context : k \in i + 1..j}
<1>1. Depth(c) \in Nat /\ DOMAIN frames[c] = 1..Depth(c)
  BY TopFrame DEF Depth
<1>2. \A k \in 1..Depth(c) : frames[c][k].context \in Live(contexts) \ {Root}
  BY <1>1 DEF Chain, RootInv, RootSpared
<1>3. \A k \in i + 1..j : k \in 1..Depth(c) /\ k - 1 \in 1..Depth(c) - 1 /\ (k - 1) + 1 = k
  BY <1>1
<1>4. j \in i + 1..j
  BY <1>1
<1>5. S \in SUBSET (Ids \ {Root}) /\ S # {}
  BY <1>2, <1>3, <1>4 DEF Live
<1>6. PICK x \in S : Escapes(x, S)
  BY <1>5 DEF Forest
<1>7. PICK k \in i + 1..j : x = frames[c][k].context
  BY <1>6
<1>8. contexts[x].parent = frames[c][k - 1].context /\ x \in Live(contexts)
  BY <1>2, <1>3, <1>7 DEF Chain
<1>9. frames[c][k - 1].context \in S
  <2>1. CASE k = i + 1
    <3>1. k - 1 = i
      BY <1>1, <2>1
    <3> QED
      BY <1>4, <3>1
  <2>2. CASE k # i + 1
    <3>1. k - 1 \in i + 1..j
      BY <1>1, <1>7, <2>2
    <3> QED
      BY <3>1
  <2> QED
    BY <2>1, <2>2
<1> QED
  BY <1>6, <1>8, <1>9 DEF Escapes

LEMMA DepthBound ==
  ASSUME TypeOK, RootInv, Forest, NEW c \in Calls, pc[c] \in Removal, Chain(c)
  PROVE  Depth(c) < Cardinality(Ids)
<1> DEFINE T == Ids \ {Root}
           f == [i \in 1..Depth(c) |-> frames[c][i].context]
<1>1. Depth(c) \in Nat /\ DOMAIN frames[c] = 1..Depth(c)
  BY TopFrame DEF Depth
<1>2. f \in [1..Depth(c) -> T]
  BY <1>1 DEF Chain, RootInv, RootSpared, Live
<1>3. IsFiniteSet(T) /\ Cardinality(T) = Cardinality(Ids) - 1 /\ Cardinality(T) \in Nat
      /\ Cardinality(Ids) \in Nat
  BY FS_RemoveElement, FS_CardinalityType, NamesAssumption, ContextAssumption
<1>4. IsFiniteSet(1..Depth(c)) /\ Cardinality(1..Depth(c)) = Depth(c)
  BY <1>1, FS_Interval
<1>5. \A i, j \in 1..Depth(c) : i # j => f[i] # f[j]
  <2> SUFFICES ASSUME NEW i \in 1..Depth(c), NEW j \in 1..Depth(c), i # j
               PROVE  f[i] # f[j]
    OBVIOUS
  <2>1. i < j \/ j < i
    BY <1>1
  <2>2. frames[c][i].context # frames[c][j].context
    BY <2>1, Distinct
  <2> QED
    BY <2>2
<1> HIDE DEF T, f
<1>6. ~(Cardinality(T) < Cardinality(1..Depth(c)))
  BY <1>2, <1>3, <1>4, <1>5, FS_PigeonHole
<1> QED
  BY <1>1, <1>3, <1>4, <1>6

-----------------------------------------------------------------------------
(***************************************************************************)
(* A removal keeps its invariant from its first frame to its last.         *)
(***************************************************************************)
LEMMA DoneRemoval ==
  ASSUME TypeOK, NEW c \in Calls, DoneReturns(c), ~Refused(op[c])
  PROVE  RemovalInv(c)'
<1>1. frames'[c] = <<[context |-> op[c].context, children |-> {}]>>
  BY DoneFrames
<1>2. UNCHANGED <<contexts, op>> /\ before' = contexts
  BY DEF DoneReturns
<1>3. op[c].context \in Live(contexts)
  BY DEF Refused
<1>4. Depth(c)' = 1 /\ frames'[c][1].context = op[c].context /\ frames'[c][1].children = {}
  BY <1>1 DEF Depth
<1>5. AsBefore'
  BY <1>2 DEF AsBefore
<1>6. Chain(c)'
  BY <1>2, <1>3, <1>4 DEF Chain, Live
<1>7. Gone' = {}
  BY <1>2 DEF Gone
<1>8. WithinSubtree(c)'
  BY <1>2, <1>4, <1>7 DEF WithinSubtree
<1> QED
  BY <1>5, <1>6, <1>8 DEF RemovalInv

LEMMA ScanRemoval ==
  ASSUME TypeOK, NEW c \in Calls, ScanEnd(c), RemovalInv(c)
  PROVE  RemovalInv(c)'
<1>1. UNCHANGED <<contexts, op, before>> /\ pc[c] \in Removal
  BY DEF ScanEnd, draft, Removal
<1>2. Depth(c) \in Nat /\ Depth(c) >= 1 /\ Top(c) = frames[c][Depth(c)]
  BY <1>1, TopFrame
<1>3. Depth(c)' = Depth(c)
  BY ScanFrames DEF Depth
<1>4. \A i \in 1..Depth(c) :
          /\ frames'[c][i].context = frames[c][i].context
          /\ i < Depth(c) => frames'[c][i] = frames[c][i]
          /\ i = Depth(c) => frames'[c][i].children = KidsOf(contexts, frames[c][i].context)
  <2> TAKE i \in 1..Depth(c)
  <2>1. CASE i = Depth(c)
    <3>1. frames'[c][i] = [context |-> Top(c).context, children |-> Children(Top(c).context)]
      BY <2>1, ScanFrames
    <3>2. Children(Top(c).context) = KidsOf(contexts, Top(c).context)
      BY DEF Children, KidsOf
    <3> QED
      BY <1>2, <2>1, <3>1, <3>2
  <2>2. CASE i # Depth(c)
    BY <2>2, ScanFrames
  <2> QED
    BY <2>1, <2>2
<1>5. AsBefore'
  BY <1>1 DEF RemovalInv, AsBefore
<1>6. Chain(c)'
  <2>1. frames'[c][1].context = op'[c].context
    BY <1>1, <1>2, <1>4 DEF RemovalInv, Chain
  <2>2. \A i \in 1..Depth(c) : frames'[c][i].context \in Live(contexts')
    BY <1>1, <1>4 DEF RemovalInv, Chain
  <2>3. \A i \in 1..Depth(c) : frames'[c][i].children \subseteq KidsOf(contexts', frames'[c][i].context)
    <3> TAKE i \in 1..Depth(c)
    <3>1. CASE i = Depth(c)
      BY <1>1, <1>4, <3>1
    <3>2. CASE i # Depth(c)
      BY <1>1, <1>2, <1>4, <3>2 DEF RemovalInv, Chain
    <3> QED
      BY <3>1, <3>2
  <2>4. ASSUME NEW i \in 1..Depth(c) - 1
        PROVE  /\ contexts'[frames'[c][i + 1].context].parent = frames'[c][i].context
               /\ frames'[c][i + 1].context \notin frames'[c][i].children
    <3>1. i \in 1..Depth(c) /\ i + 1 \in 1..Depth(c) /\ i < Depth(c)
      BY <1>2, <2>4
    <3>2. frames'[c][i] = frames[c][i] /\ frames'[c][i + 1].context = frames[c][i + 1].context
      BY <1>4, <3>1
    <3> QED
      BY <1>1, <2>4, <3>2 DEF RemovalInv, Chain
  <2> QED
    BY <1>1, <1>3, <2>1, <2>2, <2>3, <2>4 DEF Chain, Live
<1>7. WithinSubtree(c)'
  <2> SUFFICES ASSUME NEW S \in SUBSET Ids, op'[c].context \in S, ClosedBefore(S)'
               PROVE  Gone' \subseteq S /\ \A i \in 1..Depth(c)' : frames'[c][i].context \in S
    BY DEF WithinSubtree
  <2>1. op[c].context \in S /\ ClosedBefore(S) /\ Gone' = Gone
    BY <1>1 DEF ClosedBefore, Gone
  <2> QED
    BY <1>3, <1>4, <2>1 DEF RemovalInv, WithinSubtree
<1> QED
  BY <1>5, <1>6, <1>7 DEF RemovalInv

LEMMA DescendRemoval ==
  ASSUME TypeOK, NEW c \in Calls, Descend(c), RemovalInv(c)
  PROVE  RemovalInv(c)'
<1>1. UNCHANGED <<contexts, op, before>> /\ pc[c] \in Removal
  BY DEF Descend, draft, Removal
<1>2. Depth(c) \in Nat /\ Depth(c) >= 1 /\ Top(c) = frames[c][Depth(c)]
  BY <1>1, TopFrame
<1>3. PICK child \in Top(c).children :
               /\ child \in Ids
               /\ Len(frames'[c]) = Depth(c) + 1
               /\ frames'[c][Depth(c) + 1] = [context |-> child, children |-> {}]
               /\ frames'[c][Depth(c)] = [context |-> Top(c).context,
                                          children |-> Top(c).children \ {child}]
               /\ \A i \in 1..Depth(c) - 1 : frames'[c][i] = frames[c][i]
  BY DescendFrames
<1>4. Depth(c)' = Depth(c) + 1
  BY <1>3 DEF Depth
<1>5. child \in Live(contexts) /\ contexts[child].parent = Top(c).context
  BY <1>2, <1>3 DEF RemovalInv, Chain, KidsOf
<1>6. ASSUME NEW i \in 1..Depth(c)
      PROVE  /\ frames'[c][i].context = frames[c][i].context
             /\ frames'[c][i].children \subseteq frames[c][i].children
             /\ i = Depth(c) => child \notin frames'[c][i].children
  <2>1. CASE i = Depth(c)
    <3>1. frames'[c][i] = [context |-> Top(c).context, children |-> Top(c).children \ {child}]
      BY <1>3, <2>1
    <3> QED
      BY <1>2, <2>1, <3>1
  <2>2. CASE i # Depth(c)
    <3>1. i \in 1..Depth(c) - 1
      BY <1>2, <2>2
    <3> QED
      BY <1>3, <2>2, <3>1
  <2> QED
    BY <2>1, <2>2
<1>7. frames'[c][Depth(c) + 1].context = child /\ frames'[c][Depth(c) + 1].children = {}
  BY <1>3
<1>8. \A i \in 1..Depth(c) + 1 : i \in 1..Depth(c) \/ i = Depth(c) + 1
  BY <1>2
<1>9. AsBefore'
  BY <1>1 DEF RemovalInv, AsBefore
<1>10. Chain(c)'
  <2>1. frames'[c][1].context = op'[c].context
    BY <1>1, <1>2, <1>6 DEF RemovalInv, Chain
  <2>2. ASSUME NEW i \in 1..Depth(c) + 1
        PROVE  /\ frames'[c][i].context \in Live(contexts')
               /\ frames'[c][i].children \subseteq KidsOf(contexts', frames'[c][i].context)
    <3>1. CASE i \in 1..Depth(c)
      BY <1>1, <1>6, <3>1 DEF RemovalInv, Chain
    <3>2. CASE i = Depth(c) + 1
      BY <1>1, <1>5, <1>7, <3>2
    <3> QED
      BY <1>8, <3>1, <3>2
  <2>3. ASSUME NEW i \in 1..Depth(c)
        PROVE  /\ contexts'[frames'[c][i + 1].context].parent = frames'[c][i].context
               /\ frames'[c][i + 1].context \notin frames'[c][i].children
    <3>1. CASE i = Depth(c)
      BY <1>1, <1>2, <1>5, <1>6, <1>7, <3>1
    <3>2. CASE i # Depth(c)
      <4>1. i \in 1..Depth(c) - 1 /\ i + 1 \in 1..Depth(c)
        BY <1>2, <3>2
      <4>2. /\ contexts[frames[c][i + 1].context].parent = frames[c][i].context
            /\ frames[c][i + 1].context \notin frames[c][i].children
        BY <4>1 DEF RemovalInv, Chain
      <4> QED
        BY <1>1, <1>6, <4>1, <4>2
    <3> QED
      BY <3>1, <3>2
  <2>4. 1..Depth(c)' - 1 = 1..Depth(c)
    BY <1>2, <1>4
  <2> QED
    BY <1>4, <2>1, <2>2, <2>3, <2>4 DEF Chain, Live
<1>11. WithinSubtree(c)'
  <2> SUFFICES ASSUME NEW S \in SUBSET Ids, op'[c].context \in S, ClosedBefore(S)'
               PROVE  Gone' \subseteq S /\ \A i \in 1..Depth(c)' : frames'[c][i].context \in S
    BY DEF WithinSubtree
  <2>1. op[c].context \in S /\ ClosedBefore(S) /\ Gone' = Gone
    BY <1>1 DEF ClosedBefore, Gone
  <2>2. Gone \subseteq S /\ \A i \in 1..Depth(c) : frames[c][i].context \in S
    BY <2>1 DEF RemovalInv, WithinSubtree
  <2>3. before[child] = contexts[child] /\ before[child] # Absent
    BY <1>3, <1>5 DEF RemovalInv, AsBefore, Live
  <2>4. child \in S
    <3>1. Parents(before)[child] = Top(c).context
      BY <1>3, <1>5, <2>3 DEF Parents
    <3>2. Top(c).context \in S
      BY <1>2, <2>2
    <3> QED
      BY <1>3, <2>1, <3>1, <3>2 DEF ClosedBefore
  <2> QED
    BY <1>4, <1>6, <1>7, <1>8, <2>1, <2>2, <2>4
<1> QED
  BY <1>9, <1>10, <1>11 DEF RemovalInv

LEMMA PopRemoval ==
  ASSUME TypeOK, RootInv, Exclusive, Linked, Forest, AllCovered, NEW c \in Calls, Pop(c),
         RemovalInv(c), Depth(c) > 1
  PROVE  RemovalInv(c)'
<1> DEFINE gone == Top(c).context
<1>1. pc[c] \in Removal /\ UNCHANGED <<op, before>>
  BY DEF Pop, Removal
<1>2. Depth(c) \in Nat /\ Depth(c) >= 1 /\ Top(c) = frames[c][Depth(c)]
  BY <1>1, TopFrame
<1>3. /\ Len(frames'[c]) = Depth(c) - 1
      /\ \A i \in 1..Depth(c) - 1 : frames'[c][i] = frames[c][i]
  BY PopFrames
<1>4. Depth(c)' = Depth(c) - 1
  BY <1>3 DEF Depth
<1>5. Live(contexts)' = Live(contexts) \ {gone} /\ \A x \in Live(contexts)' : contexts'[x] = contexts[x]
  BY PopKeepsTree
<1>6. \A i \in 1..Depth(c) - 1 : i \in 1..Depth(c) /\ i < Depth(c) /\ i + 1 \in 1..Depth(c)
  BY <1>2
<1>7. \A i \in 1..Depth(c) - 1 : frames[c][i].context # gone
  <2> SUFFICES ASSUME NEW i \in 1..Depth(c) - 1
               PROVE  frames[c][i].context # gone
    OBVIOUS
  <2>1. i \in 1..Depth(c) /\ i < Depth(c) /\ Depth(c) \in 1..Depth(c) /\ Chain(c)
    BY <1>2, <1>6 DEF RemovalInv
  <2> QED
    BY <1>1, <1>2, <2>1, Distinct
<1>8. ASSUME NEW i \in 1..Depth(c) - 1
      PROVE  gone \notin frames[c][i].children
  <2>1. Depth(c) - 1 \in 1..Depth(c) - 1 /\ (Depth(c) - 1) + 1 = Depth(c)
    BY <1>2
  <2>2. /\ contexts[gone].parent = frames[c][Depth(c) - 1].context
        /\ gone \notin frames[c][Depth(c) - 1].children
    BY <1>2, <2>1 DEF RemovalInv, Chain
  <2>3. CASE i = Depth(c) - 1
    BY <2>2, <2>3
  <2>4. CASE i # Depth(c) - 1
    <3>1. i \in 1..Depth(c) /\ Depth(c) - 1 \in 1..Depth(c) /\ i < Depth(c) - 1 /\ Chain(c)
      BY <1>2, <2>4 DEF RemovalInv
    <3>2. frames[c][i].context # frames[c][Depth(c) - 1].context
      BY <1>1, <3>1, Distinct
    <3>3. frames[c][i].children \subseteq KidsOf(contexts, frames[c][i].context)
      BY <3>1 DEF Chain
    <3> QED
      BY <2>2, <3>2, <3>3 DEF KidsOf
  <2> QED
    BY <2>3, <2>4
<1>9. gone \in Ids /\ \A x \in Ids : contexts'[x] = IF x = gone THEN Absent ELSE contexts[x]
  <2>1. gone \in Ids
    BY <1>1, TopFrame DEF Frame
  <2> QED
    BY <2>1 DEF Pop, TypeOK
<1>10. AsBefore'
  BY <1>1, <1>9 DEF RemovalInv, AsBefore
<1>11. Chain(c)'
  <2>1. frames'[c][1].context = op'[c].context
    BY <1>1, <1>2, <1>3 DEF RemovalInv, Chain
  <2>2. ASSUME NEW i \in 1..Depth(c) - 1
        PROVE  /\ frames'[c][i].context \in Live(contexts)'
               /\ frames'[c][i].children \subseteq KidsOf(contexts', frames'[c][i].context)
    <3>1. frames'[c][i] = frames[c][i] /\ i \in 1..Depth(c)
      BY <1>3, <1>6
    <3>2. frames[c][i].context \in Live(contexts)'
      BY <1>5, <1>7, <3>1 DEF RemovalInv, Chain
    <3>3. frames[c][i].children \subseteq KidsOf(contexts', frames[c][i].context)
      <4>1. frames[c][i].children \subseteq KidsOf(contexts, frames[c][i].context) \ {gone}
        BY <1>8, <3>1 DEF RemovalInv, Chain
      <4> QED
        BY <1>5, <4>1 DEF KidsOf
    <3> QED
      BY <3>1, <3>2, <3>3
  <2>3. ASSUME NEW i \in 1..(Depth(c) - 1) - 1
        PROVE  /\ contexts'[frames'[c][i + 1].context].parent = frames'[c][i].context
               /\ frames'[c][i + 1].context \notin frames'[c][i].children
    <3>1. i \in 1..Depth(c) - 1 /\ i + 1 \in 1..Depth(c) - 1
      BY <1>2
    <3>2. frames'[c][i] = frames[c][i] /\ frames'[c][i + 1] = frames[c][i + 1]
      BY <1>3, <3>1
    <3>3. contexts'[frames[c][i + 1].context] = contexts[frames[c][i + 1].context]
      BY <1>5, <2>2, <3>1, <3>2
    <3> QED
      BY <3>1, <3>2, <3>3 DEF RemovalInv, Chain
  <2> QED
    BY <1>4, <2>1, <2>2, <2>3 DEF Chain
<1>12. WithinSubtree(c)'
  <2> SUFFICES ASSUME NEW S \in SUBSET Ids, op'[c].context \in S, ClosedBefore(S)'
               PROVE  Gone' \subseteq S /\ \A i \in 1..Depth(c)' : frames'[c][i].context \in S
    BY DEF WithinSubtree
  <2>1. op[c].context \in S /\ ClosedBefore(S) /\ Gone' \subseteq Gone \cup {gone}
    BY <1>1, <1>9 DEF ClosedBefore, Gone
  <2>2. Gone \subseteq S /\ \A i \in 1..Depth(c) : frames[c][i].context \in S
    BY <2>1 DEF RemovalInv, WithinSubtree
  <2>3. gone \in S
    BY <1>2, <2>2
  <2> QED
    BY <1>3, <1>4, <1>6, <2>1, <2>2, <2>3
<1> QED
  BY <1>10, <1>11, <1>12 DEF RemovalInv

-----------------------------------------------------------------------------
(***************************************************************************)
(* The step of the only call under way.                                    *)
(***************************************************************************)
LEMMA Solo ==
  ASSUME Serial, TypeOK, SerialInv, NEW c \in Calls, Begin(c) \/ Continue(c)
  PROVE  /\ \A d \in Calls \ {c} : pc[d] \notin Active /\ pc'[d] = pc[d]
         /\ Continue(c) => pc[c] \in Active
<1>1. Continue(c) => pc[c] \in Active
  BY DEF Continue, Operate, Remove, Answer, Refuse, Accept, MethodFails, ValidationEscapes,
         CallReturns, SpawnReturns, Install, DoneReturns, ScanStart, ScanEnd, IterationFails,
         Descend, TooDeep, Pop, PopMissing, ListStart, ListEnd, Active, InOp
<1>2. ASSUME NEW d \in Calls \ {c}
      PROVE  pc[d] \notin Active
  BY <1>1, <1>2 DEF Begin, SerialInv, ActiveCalls
<1> QED
  BY <1>1, <1>2, Others

LEMMA SerialStep ==
  ASSUME Serial
  PROVE  TypeOK /\ RootInv /\ TreeInv /\ SerialInv /\ [Next]_vars => SerialInv'
<1> SUFFICES ASSUME TypeOK, RootInv, TreeInv, SerialInv, [Next]_vars
             PROVE  SerialInv'
  OBVIOUS
<1>1. SUFFICES ASSUME NEW c \in Calls, Begin(c) \/ Continue(c)
               PROVE  SerialInv'
  <2>1. CASE UNCHANGED vars
    BY <2>1 DEF vars, SerialInv, SerialCall, ActiveCalls, Refused, RemovalInv, AsBefore, Chain,
                WithinSubtree, ClosedBefore, Gone, Parents, Live, KidsOf, Depth
  <2> QED
    BY <1>1, <2>1 DEF Next, Finished
<1>2. /\ \A d \in Calls \ {c} : pc[d] \notin Active /\ pc'[d] \notin Active
      /\ Exclusive /\ Linked /\ Forest /\ AllCovered /\ SerialCall(c)
  BY <1>1, Solo DEF TreeInv, SerialInv
<1>3. \A d, e \in ActiveCalls' : d = e
  BY <1>2 DEF ActiveCalls
<1>4. \A d \in Calls \ {c} : SerialCall(d)'
  BY <1>2 DEF SerialCall, Active, InOp, Removal
<1>5. ~raced'
  <2>1. CASE Accept(c)
    <3>1. Doing({"done"}) = {} /\ Doing({"spawn", "done"}) = {}
      BY <1>2, <2>1 DEF Accept, Doing, Active, InOp
    <3> QED
      BY <2>1, <3>1 DEF Accept, SerialInv
  <2>2. CASE ~Accept(c)
    BY <1>1, <2>2 DEF SerialInv, Begin, Continue, Operate, Remove, Answer, Refuse, MethodFails,
              ValidationEscapes, CallReturns, SpawnReturns, Install, DoneReturns, ScanStart,
              ScanEnd, IterationFails, Descend, TooDeep, Pop, PopMissing, ListStart, ListEnd, Escape
  <2> QED
    BY <2>1, <2>2
<1>6. SUFFICES SerialCall(c)'
  BY <1>3, <1>4, <1>5 DEF SerialInv
<1>7. CASE \/ Begin(c) \/ Refuse(c) \/ MethodFails(c) \/ CallReturns(c) \/ Install(c)
           \/ PopMissing(c) \/ ValidationEscapes(c) \/ IterationFails(c) \/ TooDeep(c) \/ ListEnd(c)
  <2>1. pc'[c] \in {"ready", "raised", "returned"}
    BY <1>7 DEF Begin, Refuse, MethodFails, CallReturns, Install, PopMissing, ValidationEscapes,
                IterationFails, TooDeep, ListEnd, EndOp, Escape, Goto, TypeOK
  <2> QED
    BY <2>1 DEF SerialCall, Removal
<1>8. CASE Accept(c)
  <2>1. PICK o \in Ops : ~Refused(o) /\ op'[c] = o
    BY <1>8 DEF Accept, TypeOK
  <2>2. pc'[c] = "checked" /\ UNCHANGED contexts
    BY <1>8 DEF Accept, Goto, TypeOK, draft
  <2> QED
    BY <2>1, <2>2 DEF SerialCall, Removal, Refused, Live
<1>9. CASE SpawnReturns(c)
  <2>1. pc[c] = "checked" /\ pc'[c] = "opened" /\ UNCHANGED <<op, contexts>>
    BY <1>9 DEF SpawnReturns, Goto, TypeOK
  <2> QED
    BY <1>2, <2>1 DEF SerialCall, Removal, Refused, Live
<1>10. CASE DoneReturns(c)
  <2>1. pc[c] = "checked" /\ pc'[c] = "scan"
    BY <1>10 DEF DoneReturns, Goto, TypeOK
  <2>2. RemovalInv(c)'
    BY <1>2, <1>10, <2>1, DoneRemoval DEF SerialCall
  <2> QED
    BY <2>1, <2>2 DEF SerialCall
<1>11. CASE ScanStart(c)
  <2>1. /\ pc[c] \in Removal /\ pc'[c] = "scanning" /\ UNCHANGED <<op, contexts, frames, before>>
        /\ walked'[c] = Live(contexts)
    BY <1>11 DEF ScanStart, Goto, TypeOK, draft, Removal
  <2>2. RemovalInv(c)'
    BY <1>2, <2>1 DEF SerialCall, RemovalInv, AsBefore, Chain, WithinSubtree, ClosedBefore, Gone,
                      Parents, Live, KidsOf, Depth
  <2> QED
    BY <2>1, <2>2 DEF SerialCall, Live
<1>12. CASE ListStart(c)
  <2>1. pc'[c] = "listing" /\ UNCHANGED contexts /\ walked'[c] = Live(contexts)
    BY <1>12 DEF ListStart, Goto, TypeOK, draft
  <2> QED
    BY <2>1 DEF SerialCall, Live, Removal
<1>13. CASE ScanEnd(c)
  <2>1. pc[c] \in Removal /\ pc'[c] = "remove"
    BY <1>13 DEF ScanEnd, Goto, TypeOK, Removal
  <2> QED
    BY <1>2, <1>13, <2>1, ScanRemoval DEF SerialCall
<1>14. CASE Descend(c)
  <2>1. pc[c] \in Removal /\ pc'[c] = "scan"
    BY <1>14 DEF Descend, Goto, TypeOK, Removal
  <2> QED
    BY <1>2, <1>14, <2>1, DescendRemoval DEF SerialCall
<1>15. CASE Pop(c)
  <2>1. pc[c] \in Removal /\ pc[c] = "remove"
    BY <1>15 DEF Pop, Removal
  <2>2. CASE Depth(c) > 1
    <3>1. pc'[c] = "remove"
      BY <1>15, <2>1, <2>2 DEF Pop
    <3> QED
      BY <1>2, <1>15, <2>1, <2>2, <3>1, PopRemoval DEF SerialCall
  <2>3. CASE ~(Depth(c) > 1)
    <3>1. pc'[c] = "ready"
      BY <1>15, <2>3 DEF Pop, EndOp, Goto, TypeOK
    <3> QED
      BY <3>1 DEF SerialCall, Removal
  <2> QED
    BY <2>2, <2>3
<1> QED
  BY <1>1, <1>7, <1>8, <1>9, <1>10, <1>11, <1>12, <1>13, <1>14, <1>15
     DEF Continue, Operate, Remove, Answer

LEMMA SerialInit == Init => SerialInv
BY DEF Init, SerialInv, SerialCall, ActiveCalls, Active, InOp, Removal

(***************************************************************************)
(* The invariant of calls made one at a time, with what holds of racing    *)
(* calls as well.                                                          *)
(***************************************************************************)
THEOREM SerialInvariant ==
  ASSUME Serial
  PROVE  Spec => [](TypeOK /\ RootInv /\ TreeInv /\ SerialInv)
BY RootInit, RootStep, TreeInit, TreeStep, SerialInit, SerialStep, TypeCorrect, PTL DEF Spec

(***************************************************************************)
(* Calls made one at a time never see a dictionary change under an         *)
(* iteration, never miss the context they remove, and recurse no deeper    *)
(* than the draft has contexts.                                            *)
(***************************************************************************)
LEMMA NoneFails ==
  ASSUME MaxDepth >= Cardinality(Ids), TypeOK, RootInv, Forest, SerialInv, NEW c \in Calls
  PROVE  ~IterationFails(c) /\ ~PopMissing(c) /\ ~TooDeep(c)
<1>1. ~IterationFails(c)
  BY DEF IterationFails, SizeKept, SerialInv, SerialCall
<1>2. ASSUME pc[c] = "remove"
      PROVE  contexts[Top(c).context] # Absent /\ Depth(c) < MaxDepth
  <2>1. pc[c] \in Removal /\ Chain(c)
    BY <1>2 DEF Removal, SerialInv, SerialCall, RemovalInv
  <2>2. Depth(c) < Cardinality(Ids)
    BY <2>1, DepthBound
  <2>3. Depth(c) \in 1..Depth(c) /\ Top(c) = frames[c][Depth(c)] /\ Depth(c) \in Nat
    BY <2>1, TopFrame
  <2>4. Cardinality(Ids) \in Nat /\ MaxDepth \in Nat
    BY FS_CardinalityType, ContextAssumption
  <2> QED
    BY <2>1, <2>2, <2>3, <2>4 DEF Chain, Live
<1>3. ~PopMissing(c)
  BY <1>2 DEF PopMissing
<1>4. ~TooDeep(c)
  <2>1. SUFFICES ASSUME pc[c] = "remove", Depth(c) >= MaxDepth PROVE FALSE
    BY DEF TooDeep
  <2>2. Depth(c) \in Nat /\ MaxDepth \in Nat
    BY <2>1, TopFrame, ContextAssumption DEF Removal
  <2> QED
    BY <1>2, <2>1, <2>2
<1> QED
  BY <1>1, <1>3, <1>4

-----------------------------------------------------------------------------
(***************************************************************************)
(* The atomic tree.  The last pop of a removal has removed the context of  *)
(* the done and all that was below it, and nothing else.                   *)
(***************************************************************************)
Below(x) == {y \in Ids : \A S \in SUBSET Ids : x \in S /\ ClosedBefore(S) => y \in S}

LEMMA LastPop ==
  ASSUME TypeOK, RootInv, Exclusive, Linked, Forest, AllCovered, NEW c \in Calls, Pop(c),
         RemovalInv(c), ~(Depth(c) > 1)
  PROVE  /\ op[c].context \in Ids \ {Root} /\ before[op[c].context] # Absent
         /\ \A y \in Ids : Parents(contexts')[y] = IF y \in Below(op[c].context)
                                                   THEN Absent ELSE Parents(before)[y]
<1> DEFINE gone == op[c].context
           G == Gone \cup {gone}
<1>1. pc[c] \in Removal /\ op[c].kind = "done" /\ pc[c] \in InOp
  BY DEF Pop, Removal, InOp, TypeOK
<1>2. Depth(c) = 1 /\ Top(c) = frames[c][1] /\ Top(c).context = gone
  <2>1. Depth(c) \in Nat /\ Depth(c) >= 1 /\ Top(c) = frames[c][Depth(c)]
    BY <1>1, TopFrame
  <2> QED
    BY <2>1 DEF RemovalInv, Chain
<1>3. gone \in Live(contexts) /\ gone \in Ids \ {Root}
  BY <1>1, <1>2 DEF RemovalInv, Chain, RootInv, RootSpared, Doing, Live
<1>4. before[gone] # Absent
  BY <1>3 DEF RemovalInv, AsBefore, Live
<1>5. \A y \in Ids : contexts'[y] = IF y = gone THEN Absent ELSE contexts[y]
  BY <1>2, <1>3 DEF Pop, TypeOK
<1>6. \A y \in Ids : contexts'[y] = IF y \in G THEN Absent ELSE before[y]
  BY <1>4, <1>5 DEF RemovalInv, AsBefore, Gone
<1>7. Linked' /\ G \in SUBSET Ids
  BY <1>3, PopKeepsTree DEF Gone
<1>8. ClosedBefore(G)
  <2> SUFFICES ASSUME NEW z \in Ids, Parents(before)[z] \in G, z \notin G
               PROVE  FALSE
    BY DEF ClosedBefore
  <2>1. before[z] # Absent /\ before[z].parent \in G
    BY <1>7, NamesAssumption DEF Parents
  <2>2. contexts'[z] = before[z] /\ z \in Live(contexts)'
    BY <1>6, <2>1 DEF Live
  <2>3. z # Root
    <3>1. contexts'[Root] = contexts[Root]
      BY <1>3, <1>5, NamesAssumption
    <3> QED
      BY <1>7, <2>1, <2>2, <3>1, NamesAssumption DEF RootInv, RootStays
  <2>4. contexts'[z].parent \in Live(contexts)'
    BY <1>7, <2>2, <2>3 DEF Linked
  <2> QED
    BY <1>6, <1>7, <2>1, <2>2, <2>4 DEF Live
<1>9. Below(gone) = G
  <2>1. Below(gone) \subseteq G
    BY <1>7, <1>8 DEF Below
  <2>2. G \subseteq Below(gone)
    BY <1>7 DEF Below, RemovalInv, WithinSubtree
  <2> QED
    BY <2>1, <2>2
<1>10. ASSUME NEW y \in Ids
       PROVE  Parents(contexts')[y] = IF y \in G THEN Absent ELSE Parents(before)[y]
  BY <1>6 DEF Parents
<1> QED
  BY <1>3, <1>4, <1>9, <1>10

LEMMA StepOfTree ==
  ASSUME Serial, MaxDepth >= Cardinality(Ids), TypeOK, RootInv, TreeInv, SerialInv, [Next]_vars
  PROVE  [Tree!Next]_(Parents(IF Removing THEN before ELSE contexts))
<1> DEFINE T == IF Removing THEN before ELSE contexts
<1>1. SUFFICES ASSUME NEW c \in Calls, Begin(c) \/ Continue(c)
               PROVE  [Tree!Next]_(Parents(IF Removing THEN before ELSE contexts))
  <2>1. CASE UNCHANGED vars
    BY <2>1 DEF vars, Removing
  <2> QED
    BY <1>1, <2>1 DEF Next, Finished
<1>2. Exclusive /\ Linked /\ Forest /\ AllCovered /\ SerialCall(c)
  BY DEF TreeInv, SerialInv
<1>3. \A d \in Calls \ {c} : pc[d] \notin Removal /\ pc'[d] \notin Removal
  BY <1>1, Solo DEF Active, InOp, Removal
<1>4. (Removing <=> pc[c] \in Removal) /\ (Removing' <=> pc'[c] \in Removal)
  BY <1>3 DEF Removing
<1>5. ~IterationFails(c) /\ ~PopMissing(c) /\ ~TooDeep(c)
  BY <1>2, NoneFails
<1>6. CASE Install(c)
  <2>1. pc[c] = "opened" /\ pc'[c] = "ready"
    BY <1>6 DEF Install, EndOp, Goto, TypeOK
  <2>2. ~Removing /\ ~Removing'
    BY <1>4, <2>1 DEF Removal
  <2>3. /\ ~Refused(op[c]) /\ op[c] \in Ops /\ op[c].kind = "spawn"
    BY <1>2, <2>1 DEF SerialCall, TypeOK, InOp
  <2>4. op[c].new \in Ids \ Live(contexts) /\ op[c].context \in Live(contexts) /\ op[c].context \in Ids
    BY <2>3, OpTypes DEF Refused
  <2>5. contexts'= [contexts EXCEPT ![op[c].new] =
                       [parent |-> op[c].context, builder |-> result[c]]]
    BY <1>6 DEF Install
  <2>6. [parent |-> op[c].context, builder |-> result[c]] # Absent
    <3>1. result[c] \in Builders
      BY <2>1 DEF TypeOK
    <3> QED
      BY <2>4, <3>1, ContextAssumption
  <2>7. ASSUME NEW y \in Ids
        PROVE  Parents(contexts')[y] = IF y = op[c].new THEN op[c].context ELSE Parents(contexts)[y]
    <3>1. CASE y = op[c].new
      <4>1. contexts'[y] = [parent |-> op[c].context, builder |-> result[c]]
        BY <2>5, <3>1 DEF TypeOK
      <4> QED
        BY <2>6, <3>1, <4>1 DEF Parents
    <3>2. CASE y # op[c].new
      BY <2>5, <3>2 DEF TypeOK, Parents
    <3> QED
      BY <3>1, <3>2
  <2>8. /\ Parents(contexts)[op[c].context] # Absent
        /\ Parents(contexts)[op[c].new] = Absent
    <3>1. contexts[op[c].context].parent # Absent
      BY <2>4, Builder, NamesAssumption
    <3> QED
      BY <2>4, <3>1 DEF Parents, Live
  <2>9. Parents(contexts') = [Parents(contexts) EXCEPT ![op[c].new] = op[c].context]
    BY <2>7 DEF Parents
  <2>10. Tree!Spawn(op[c].context, op[c].new)
    BY <2>2, <2>4, <2>8, <2>9 DEF Tree!Spawn, Tree!Live
  <2> QED
    BY <2>4, <2>10 DEF Tree!Next
<1>7. CASE Pop(c) /\ ~(Depth(c) > 1)
  <2>1. pc[c] = "remove" /\ pc'[c] = "ready"
    BY <1>7 DEF Pop, EndOp, Goto, TypeOK
  <2>2. Removing /\ ~Removing'
    BY <1>4, <2>1 DEF Removal
  <2>3. RemovalInv(c)
    BY <1>2, <2>1 DEF SerialCall, Removal
  <2>4. /\ op[c].context \in Ids \ {Root} /\ before[op[c].context] # Absent
        /\ \A y \in Ids : Parents(contexts')[y] = IF y \in Below(op[c].context)
                                                   THEN Absent ELSE Parents(before)[y]
    BY <1>2, <1>7, <2>3, LastPop
  <2>5. Tree!Subtree(op[c].context) = Below(op[c].context)
    BY <2>2 DEF Tree!Subtree, Below, ClosedBefore
  <2>6. Parents(before)[op[c].context] # Absent
    <3>1. before[op[c].context] \in Context
      BY <2>4 DEF TypeOK
    <3> QED
      BY <2>4, <3>1, NamesAssumption DEF Parents, Context
  <2>7. Parents(contexts') = [y \in Ids |-> IF y \in Tree!Subtree(op[c].context)
                                            THEN Absent ELSE Parents(before)[y]]
    BY <2>4, <2>5 DEF Parents
  <2>8. Tree!Done(op[c].context)
    BY <2>2, <2>4, <2>6, <2>7 DEF Tree!Done, Tree!Live
  <2> QED
    BY <2>4, <2>8 DEF Tree!Next
<1>8. CASE DoneReturns(c)
  <2>1. pc[c] = "checked" /\ pc'[c] = "scan" /\ UNCHANGED contexts /\ before' = contexts
    BY <1>8 DEF DoneReturns, Goto, TypeOK
  <2>2. ~Removing /\ Removing'
    BY <1>4, <2>1 DEF Removal
  <2> QED
    BY <2>1, <2>2
<1>9. CASE ScanStart(c) \/ ScanEnd(c) \/ Descend(c) \/ (Pop(c) /\ Depth(c) > 1)
  <2>1. pc[c] \in Removal /\ pc'[c] \in Removal /\ UNCHANGED before
    <3>1. CASE ScanStart(c) \/ ScanEnd(c) \/ Descend(c)
      BY <3>1 DEF ScanStart, ScanEnd, Descend, Goto, TypeOK, Removal
    <3>2. CASE Pop(c) /\ Depth(c) > 1
      BY <3>2 DEF Pop, Removal
    <3> QED
      BY <1>9, <3>1, <3>2
  <2>2. Removing /\ Removing'
    BY <1>4, <2>1
  <2> QED
    BY <2>1, <2>2
<1>10. CASE \/ Begin(c) \/ Refuse(c) \/ Accept(c) \/ MethodFails(c) \/ ValidationEscapes(c)
            \/ CallReturns(c) \/ SpawnReturns(c) \/ ListStart(c) \/ ListEnd(c)
  <2>1. pc[c] \notin Removal /\ pc'[c] \notin Removal /\ UNCHANGED contexts
    BY <1>10 DEF Begin, Refuse, Accept, MethodFails, ValidationEscapes, CallReturns, SpawnReturns,
                 ListStart, ListEnd, EndOp, Escape, Goto, TypeOK, Removal, draft
  <2>2. ~Removing /\ ~Removing'
    BY <1>4, <2>1
  <2> QED
    BY <2>1, <2>2
<1> QED
  BY <1>1, <1>5, <1>6, <1>7, <1>8, <1>9, <1>10 DEF Continue, Operate, Remove, Answer

(***************************************************************************)
(* One call at a time, on a draft of any size: spawn and done are the      *)
(* atomic steps of the tree of ContextTree, provided the interpreter can   *)
(* nest as many calls as the draft has contexts.                           *)
(***************************************************************************)
THEOREM SerialImplementsTree ==
  ASSUME Serial, MaxDepth >= Cardinality(Ids)
  PROVE  Spec => TreeSpec
<1>1. Init => Tree!Init
  <2> SUFFICES ASSUME Init PROVE Tree!Init
    OBVIOUS
  <2>1. ~Removing
    BY DEF Init, Removing, Removal
  <2>2. [parent |-> None, builder |-> RootBuilder] # Absent
    BY ContextAssumption
  <2>3. Parents(contexts) = [x \in Ids |-> IF x = Root THEN None ELSE Absent]
    <3>1. \A x \in Ids : contexts[x] = IF x = Root THEN [parent |-> None, builder |-> RootBuilder]
                                       ELSE Absent
      BY DEF Init
    <3> QED
      BY <2>2, <3>1 DEF Parents
  <2> QED
    BY <2>1, <2>3 DEF Tree!Init
<1>2. TypeOK /\ RootInv /\ TreeInv /\ SerialInv /\ [Next]_vars
         => [Tree!Next]_(Parents(IF Removing THEN before ELSE contexts))
  BY StepOfTree
<1> QED
  BY <1>1, <1>2, SerialInvariant, PTL DEF Spec, TreeSpec, Tree!Spec

-----------------------------------------------------------------------------
(***************************************************************************)
(* Builders.  A builder in use stays in use, and none but the builder of   *)
(* the context being removed is closed under a live context.               *)
(***************************************************************************)
LEMMA OpenOutsideRemoval ==
  ASSUME OwnBuilders, ~Removing
  PROVE  \A x \in Live(contexts) : contexts[x].builder \notin closed
BY DEF OwnBuilders, Removing

LEMMA BuildersKept ==
  ASSUME OwnBuilders, UNCHANGED <<contexts, origin, closed>>, NEW c \in Calls,
         \A d \in Calls \ {c} : pc[d] \notin Removal,
         pc[c] \in Removal => pc'[c] \in Removal /\ op'[c] = op[c]
  PROVE  OwnBuilders'
<1>1. Live(contexts)' = Live(contexts) /\ Unused' = Unused
  BY DEF Live, Unused
<1>2. ASSUME NEW x \in Live(contexts), contexts[x].builder \in closed
      PROVE  \E d \in Calls : pc'[d] \in Removal /\ op'[d].context = x
  BY <1>2 DEF OwnBuilders
<1> QED
  BY <1>1, <1>2 DEF OwnBuilders, UsedBuilders

LEMMA SpawnBuilders ==
  ASSUME TypeOK, OwnBuilders, NEW c \in Calls, SpawnReturns(c),
         ~Removing, CallBuilder(c)
  PROVE  OwnBuilders' /\ CallBuilder(c)'
<1>1. /\ pc[c] = "checked" /\ pc'[c] = "opened" /\ result'[c] = Fresh
      /\ UNCHANGED <<contexts, closed, op, builder>>
      /\ origin' = [origin EXCEPT ![Fresh] = builder[c]] /\ Unused # {}
  BY DEF SpawnReturns, Goto, TypeOK
<1>2. Fresh \in Unused /\ Fresh \in Builders /\ builder[c] \in Builders /\ builder[c] # None
  BY <1>1, Builder DEF TypeOK, InOp
<1>3. origin'[Fresh] = builder[c] /\ \A b \in Builders \ {Fresh} : origin'[b] = origin[b]
  BY <1>1, <1>2 DEF TypeOK
<1>4. Unused' = Unused \ {Fresh}
  BY <1>2, <1>3 DEF Unused
<1>5. \A b \in UsedBuilders : b \in UsedBuilders' /\ b # Fresh /\ origin'[b] = origin[b]
  BY <1>2, <1>3, <1>4 DEF UsedBuilders
<1>6. Live(contexts)' = Live(contexts)
  BY <1>1 DEF Live
<1>7. OwnBuilders'
  <2>1. \A x \in Live(contexts) : contexts[x].builder \in UsedBuilders' /\ contexts[x].builder \notin closed
                                  /\ origin'[contexts[x].builder] = origin[contexts[x].builder]
                                  /\ contexts[x].builder # Fresh
    BY <1>1, <1>5, OpenOutsideRemoval DEF OwnBuilders, UsedBuilders
  <2>2. closed \subseteq UsedBuilders'
    BY <1>5 DEF OwnBuilders
  <2> QED
    BY <1>1, <1>6, <2>1, <2>2 DEF OwnBuilders, UsedBuilders
<1>8. CallBuilder(c)'
  <2>1. Fresh \in UsedBuilders' /\ Fresh \notin closed /\ \A x \in Live(contexts) : contexts[x].builder # Fresh
    BY <1>2, <1>4 DEF OwnBuilders, UsedBuilders
  <2> QED
    BY <1>1, <1>3, <1>6, <2>1 DEF CallBuilder, UsedBuilders
<1> QED
  BY <1>7, <1>8

LEMMA InstallBuilders ==
  ASSUME TypeOK, Linked, OwnBuilders, NEW c \in Calls, Install(c),
         ~Removing, CallBuilder(c), ~Refused(op[c])
  PROVE  OwnBuilders' /\ CallBuilder(c)'
<1> DEFINE new == op[c].new
<1>1. /\ pc[c] = "opened" /\ pc'[c] = "ready" /\ status'[c] = "succeeded"
      /\ UNCHANGED <<origin, closed>>
      /\ contexts' = [contexts EXCEPT ![new] = [parent |-> op[c].context, builder |-> result[c]]]
  BY DEF Install, EndOp, Goto, TypeOK
<1>2. /\ op[c] \in Ops /\ op[c].kind = "spawn" /\ result[c] \in Builders
      /\ new \in Ids \ Live(contexts) /\ op[c].context \in Live(contexts) /\ op[c].context \in Ids
  <2>1. op[c] \in Ops /\ op[c].kind = "spawn" /\ result[c] \in Builders
    BY <1>1 DEF TypeOK, InOp
  <2> QED
    BY <2>1, OpTypes DEF Refused, Live
<1>3. \A x \in Ids : contexts'[x] = IF x = new THEN [parent |-> op[c].context, builder |-> result[c]]
                                    ELSE contexts[x]
  BY <1>1 DEF TypeOK
<1>4. Live(contexts)' = Live(contexts) \cup {new}
  <2>1. [parent |-> op[c].context, builder |-> result[c]] # Absent
    BY <1>2, ContextAssumption
  <2> QED
    BY <1>2, <1>3, <2>1 DEF Live
<1>5. /\ contexts'[new].builder = result[c] /\ contexts'[new].parent = op[c].context
      /\ \A x \in Live(contexts) : x # new /\ x \in Ids /\ contexts'[x] = contexts[x]
  BY <1>2, <1>3 DEF Live
<1>6. /\ result[c] \in UsedBuilders /\ result[c] \notin closed
      /\ origin[result[c]] = contexts[op[c].context].builder
      /\ \A x \in Live(contexts) : contexts[x].builder # result[c]
  BY <1>1 DEF CallBuilder
<1>7. UsedBuilders' = UsedBuilders
  BY <1>1 DEF UsedBuilders, Unused
<1>8. OwnBuilders'
  <2>1. \A x \in Live(contexts)' : contexts'[x].builder \in UsedBuilders' /\ contexts'[x].builder \notin closed'
    BY <1>1, <1>4, <1>5, <1>6, <1>7, OpenOutsideRemoval DEF OwnBuilders
  <2>2. \A x, y \in Live(contexts)' : contexts'[x].builder = contexts'[y].builder => x = y
    BY <1>4, <1>5, <1>6 DEF OwnBuilders
  <2>3. ASSUME NEW x \in Live(contexts)' \ {Root}
        PROVE  origin'[contexts'[x].builder] = contexts'[contexts'[x].parent].builder
    <3>1. CASE x = new
      BY <1>1, <1>2, <1>5, <1>6, <3>1
    <3>2. CASE x # new
      <4>1. x \in Live(contexts) \ {Root} /\ contexts[x].parent \in Live(contexts)
        BY <1>4, <2>3, <3>2 DEF Linked
      <4> QED
        BY <1>1, <1>5, <4>1 DEF OwnBuilders
    <3> QED
      BY <3>1, <3>2
  <2>4. closed' \subseteq UsedBuilders'
    BY <1>1, <1>7 DEF OwnBuilders
  <2> QED
    BY <2>1, <2>2, <2>3, <2>4 DEF OwnBuilders, UsedBuilders
<1>9. CallBuilder(c)'
  BY <1>1 DEF CallBuilder
<1> QED
  BY <1>8, <1>9

LEMMA DoneBuilders ==
  ASSUME TypeOK, OwnBuilders, NEW c \in Calls, DoneReturns(c),
         ~Removing, CallBuilder(c), ~Refused(op[c])
  PROVE  OwnBuilders' /\ CallBuilder(c)'
<1>1. /\ pc[c] = "checked" /\ pc'[c] = "scan" /\ closed' = closed \cup {builder[c]}
      /\ UNCHANGED <<contexts, origin, op>>
  BY DEF DoneReturns, Goto, TypeOK
<1>2. op[c].context \in Live(contexts) /\ builder[c] = contexts[op[c].context].builder
  BY <1>1 DEF Refused, CallBuilder
<1>3. Live(contexts)' = Live(contexts) /\ Unused' = Unused
  BY <1>1 DEF Live, Unused
<1>4. ASSUME NEW x \in Live(contexts), contexts[x].builder \in closed'
      PROVE  \E d \in Calls : pc'[d] \in Removal /\ op'[d].context = x
  <2>1. contexts[x].builder \notin closed
    BY OpenOutsideRemoval
  <2>2. x = op[c].context
    BY <1>1, <1>2, <1>4, <2>1 DEF OwnBuilders
  <2> QED
    BY <1>1, <2>2 DEF Removal
<1>5. OwnBuilders'
  BY <1>1, <1>2, <1>3, <1>4 DEF OwnBuilders, UsedBuilders
<1>6. CallBuilder(c)'
  BY <1>1 DEF CallBuilder
<1> QED
  BY <1>5, <1>6

LEMMA PopBuilders ==
  ASSUME TypeOK, RootInv, Exclusive, Linked, Forest, AllCovered, OwnBuilders,
         NEW c \in Calls, Pop(c), RemovalInv(c),
         \A d \in Calls \ {c} : pc[d] \notin Removal
  PROVE  OwnBuilders' /\ CallBuilder(c)'
<1>1. /\ pc[c] \in Removal /\ UNCHANGED <<origin, closed>>
      /\ Depth(c) > 1 => pc'[c] = "remove" /\ op'[c] = op[c]
      /\ ~(Depth(c) > 1) => pc'[c] = "ready" /\ status'[c] = "succeeded"
  <2>1. pc[c] \in Removal /\ pc[c] = "remove" /\ UNCHANGED <<origin, closed>>
    BY DEF Pop, Removal
  <2>2. Depth(c) > 1 => pc'[c] = "remove" /\ op'[c] = op[c]
    BY <2>1 DEF Pop
  <2>3. ~(Depth(c) > 1) => pc'[c] = "ready" /\ status'[c] = "succeeded"
    BY DEF Pop, EndOp, Goto, TypeOK
  <2> QED
    BY <2>1, <2>2, <2>3
<1>2. Live(contexts)' = Live(contexts) \ {Top(c).context} /\ \A x \in Live(contexts)' : contexts'[x] = contexts[x]
      /\ Linked'
  BY PopKeepsTree
<1>3. UsedBuilders' = UsedBuilders
  BY <1>1 DEF UsedBuilders, Unused
<1>4. ASSUME NEW x \in Live(contexts)', contexts'[x].builder \in closed'
      PROVE  \E d \in Calls : pc'[d] \in Removal /\ op'[d].context = x
  <2>1. op[c].context = x
    BY <1>1, <1>2, <1>4 DEF OwnBuilders
  <2>2. Depth(c) > 1
    <3>1. SUFFICES ASSUME ~(Depth(c) > 1) PROVE FALSE
      OBVIOUS
    <3>2. Depth(c) = 1 /\ Top(c) = frames[c][1]
      BY <1>1, <3>1, TopFrame
    <3> QED
      BY <1>2, <1>4, <2>1, <3>2 DEF RemovalInv, Chain
  <2> QED
    BY <1>1, <2>1, <2>2 DEF Removal
<1>5. OwnBuilders'
  <2>1. \A x \in Live(contexts)' \ {Root} :
            origin'[contexts'[x].builder] = contexts'[contexts'[x].parent].builder
    BY <1>1, <1>2 DEF OwnBuilders, Linked
  <2>2. /\ \A x \in Live(contexts)' : contexts'[x].builder \in UsedBuilders'
        /\ \A x, y \in Live(contexts)' : contexts'[x].builder = contexts'[y].builder => x = y
        /\ closed' \subseteq UsedBuilders'
    BY <1>1, <1>2, <1>3 DEF OwnBuilders
  <2> QED
    BY <1>4, <2>1, <2>2 DEF OwnBuilders, UsedBuilders
<1>6. CallBuilder(c)'
  BY <1>1 DEF CallBuilder
<1> QED
  BY <1>5, <1>6

LEMMA BuilderStep ==
  ASSUME Serial, MaxDepth >= Cardinality(Ids)
  PROVE  TypeOK /\ RootInv /\ TreeInv /\ SerialInv /\ BuilderInv /\ [Next]_vars => BuilderInv'
<1> SUFFICES ASSUME TypeOK, RootInv, TreeInv, SerialInv, BuilderInv, [Next]_vars
             PROVE  BuilderInv'
  OBVIOUS
<1>1. SUFFICES ASSUME NEW c \in Calls, Begin(c) \/ Continue(c)
               PROVE  BuilderInv'
  <2>1. CASE UNCHANGED vars
    BY <2>1 DEF vars, BuilderInv, OwnBuilders, CallBuilder, UsedBuilders, Unused, Live
  <2> QED
    BY <1>1, <2>1 DEF Next, Finished
<1>2. /\ Exclusive /\ Linked /\ Forest /\ AllCovered /\ SerialCall(c)
      /\ OwnBuilders /\ CallBuilder(c)
  BY DEF TreeInv, SerialInv, BuilderInv
<1>3. \A d \in Calls \ {c} : pc[d] \notin Active /\ pc'[d] = pc[d] /\ pc[d] \notin Removal
  BY <1>1, Solo DEF Active, InOp, Removal
<1>4. ASSUME NEW d \in Calls \ {c}
      PROVE  CallBuilder(d)'
  BY <1>1, <1>3, <1>4, Others DEF CallBuilder, BuilderInv, Active, InOp
<1>5. SUFFICES OwnBuilders' /\ CallBuilder(c)'
  BY <1>4 DEF BuilderInv
<1>6. ~IterationFails(c) /\ ~PopMissing(c) /\ ~TooDeep(c)
  BY <1>2, NoneFails
<1>7. pc[c] \notin Removal => ~Removing
  BY <1>3 DEF Removing
<1>8. CASE SpawnReturns(c) \/ Install(c) \/ DoneReturns(c)
  <2>1. pc[c] \in {"checked", "opened"} /\ ~Removing /\ ~Refused(op[c])
    BY <1>2, <1>7, <1>8 DEF SpawnReturns, Install, DoneReturns, Removal, SerialCall
  <2> QED
    BY <1>2, <1>8, <2>1, SpawnBuilders, InstallBuilders, DoneBuilders
<1>9. CASE Pop(c)
  <2>1. RemovalInv(c)
    BY <1>2, <1>9 DEF Pop, Removal, SerialCall
  <2> QED
    BY <1>2, <1>3, <1>9, <2>1, PopBuilders
<1>10. CASE \/ Begin(c) \/ Refuse(c) \/ Accept(c) \/ MethodFails(c) \/ ValidationEscapes(c)
            \/ CallReturns(c) \/ ListStart(c) \/ ListEnd(c)
  <2>1. pc[c] \notin Removal /\ UNCHANGED <<contexts, origin, closed>>
    BY <1>10 DEF Begin, Refuse, Accept, MethodFails, ValidationEscapes, CallReturns, ListStart,
                 ListEnd, Escape, Removal, draft
  <2>2. OwnBuilders'
    BY <1>2, <1>3, <2>1, BuildersKept
  <2>3. CallBuilder(c)'
    <3>1. CASE Begin(c)
      BY <1>2, <3>1 DEF Begin, Goto, TypeOK, CallBuilder
    <3>2. CASE Refuse(c)
      <4>1. pc'[c] = "ready" /\ builder'[c] = None
        BY <3>2 DEF Refuse, EndOp, Goto, TypeOK
      <4>2. None \notin closed
        BY Builder DEF TypeOK
      <4> QED
        BY <2>1, <4>1, <4>2 DEF CallBuilder
    <3>3. CASE Accept(c)
      <4>1. PICK o \in Ops : op' = [op EXCEPT ![c] = o]
                             /\ builder' = [builder EXCEPT ![c] = contexts[o.context].builder]
        BY <3>3 DEF Accept
      <4>2. pc'[c] = "checked" /\ op'[c] = o /\ builder'[c] = contexts[o.context].builder
        BY <3>3, <4>1 DEF Accept, Goto, TypeOK
      <4> QED
        BY <2>1, <4>2 DEF CallBuilder
    <3>4. CASE MethodFails(c)
      <4>1. pc[c] = "checked" /\ pc'[c] = "ready" /\ builder'[c] = builder[c]
        BY <3>4 DEF MethodFails, EndOp, Goto, TypeOK
      <4>2. op[c].context \in Live(contexts) /\ builder[c] = contexts[op[c].context].builder
        BY <1>2, <4>1 DEF SerialCall, Refused, CallBuilder
      <4>3. builder[c] \notin closed
        BY <1>2, <1>7, <2>1, <4>2, OpenOutsideRemoval
      <4> QED
        BY <2>1, <4>1, <4>3 DEF CallBuilder
    <3>5. CASE ValidationEscapes(c) \/ CallReturns(c) \/ ListStart(c) \/ ListEnd(c)
      <4>1. \/ pc'[c] \in {"raised", "listing", "returned"}
            \/ pc'[c] = "ready" /\ status'[c] = "succeeded"
        BY <3>5 DEF ValidationEscapes, CallReturns, ListStart, ListEnd, EndOp, Escape, Goto, TypeOK
      <4> QED
        BY <4>1 DEF CallBuilder
    <3> QED
      BY <1>10, <3>1, <3>2, <3>3, <3>4, <3>5
  <2> QED
    BY <2>2, <2>3
<1>11. CASE ScanStart(c) \/ ScanEnd(c) \/ Descend(c)
  <2>1. /\ UNCHANGED <<contexts, origin, closed, op>> /\ pc'[c] \in Removal
    BY <1>11 DEF ScanStart, ScanEnd, Descend, Goto, TypeOK, Removal, draft
  <2>2. OwnBuilders'
    BY <1>2, <1>3, <2>1, BuildersKept
  <2>3. CallBuilder(c)'
    BY <2>1 DEF CallBuilder, Removal
  <2> QED
    BY <2>2, <2>3
<1> QED
  BY <1>1, <1>6, <1>8, <1>9, <1>10, <1>11 DEF Continue, Operate, Remove, Answer

LEMMA BuilderInit == Init => BuilderInv
<1> SUFFICES ASSUME Init PROVE BuilderInv
  OBVIOUS
<1>1. [parent |-> None, builder |-> RootBuilder] # Absent
  BY ContextAssumption
<1>2. Live(contexts) = {Root} /\ contexts[Root].builder = RootBuilder
  BY <1>1, NamesAssumption DEF Init, Live
<1>3. OwnBuilders
  BY <1>2, ContextAssumption DEF Init, OwnBuilders, UsedBuilders, Unused
<1>4. \A c \in Calls : CallBuilder(c)
  BY DEF Init, CallBuilder
<1> QED
  BY <1>3, <1>4 DEF BuilderInv

LEMMA BuilderInvariant ==
  ASSUME Serial, MaxDepth >= Cardinality(Ids)
  PROVE  Spec => [](TypeOK /\ TreeInv /\ SerialInv /\ BuilderInv)
BY BuilderInit, BuilderStep, SerialInvariant, PTL DEF Spec

(***************************************************************************)
(* One call at a time: every context between two operations works on an    *)
(* open builder that its parent's builder opened, and no operation uses a  *)
(* closed one.                                                             *)
(***************************************************************************)
THEOREM SerialLiveUnderOpen ==
  ASSUME Serial, MaxDepth >= Cardinality(Ids)
  PROVE  Spec => []LiveUnderOpen
<1>1. TypeOK /\ TreeInv /\ SerialInv /\ BuilderInv => LiveUnderOpen
  <2> SUFFICES ASSUME TypeOK, TreeInv, SerialInv, BuilderInv PROVE LiveUnderOpen
    OBVIOUS
  <2>1. ASSUME ~Removing, NEW x \in Live(contexts)
        PROVE  /\ contexts[x].builder \notin closed
               /\ x # Root => /\ contexts[x].parent \in Live(contexts)
                              /\ origin[contexts[x].builder] = contexts[contexts[x].parent].builder
    BY <2>1, OpenOutsideRemoval DEF BuilderInv, OwnBuilders, TreeInv, SerialInv, Linked
  <2>2. ASSUME NEW c \in Calls, pc[c] = "checked"
        PROVE  builder[c] \notin closed
    <3>1. ~Removing
      BY <2>2 DEF Removing, SerialInv, ActiveCalls, Active, InOp, Removal
    <3>2. op[c].context \in Live(contexts) /\ builder[c] = contexts[op[c].context].builder
      BY <2>2 DEF SerialInv, SerialCall, Refused, BuilderInv, CallBuilder
    <3> QED
      BY <2>1, <3>1, <3>2
  <2> QED
    BY <2>1, <2>2 DEF LiveUnderOpen
<1> QED
  BY <1>1, BuilderInvariant, PTL

(***************************************************************************)
(* One call at a time: an operation reported as failed has closed nothing. *)
(***************************************************************************)
THEOREM SerialFailedLeavesOpen ==
  ASSUME Serial, MaxDepth >= Cardinality(Ids)
  PROVE  Spec => []FailedLeavesOpen
<1>1. BuilderInv => FailedLeavesOpen
  BY DEF BuilderInv, CallBuilder, FailedLeavesOpen
<1> QED
  BY <1>1, BuilderInvariant, PTL

(***************************************************************************)
(* One call at a time: every listing shows the parents of what it shows,   *)
(* even with a stack so short that a removal may be cut off.               *)
(***************************************************************************)
THEOREM SerialParentsListed ==
  ASSUME Serial
  PROVE  Spec => []ParentsListed
<1>1. SerialInv => ~raced
  BY DEF SerialInv
<1> QED
  BY <1>1, SerialInvariant, ParentsListedUntilRaced, PTL
=============================================================================
