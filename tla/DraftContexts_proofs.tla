------------------------- MODULE DraftContexts_proofs -------------------------
(***************************************************************************)
(* Racing update_draft calls on the contexts of one draft, for any number  *)
(* of calls, contexts and builders: what stays true whatever they race     *)
(* on, and what stays true until a done overlaps a spawn or another done.  *)
(***************************************************************************)
EXTENDS DraftContexts, FiniteSetTheorems, TLAPS

-----------------------------------------------------------------------------
(***************************************************************************)
(* No call names the root as the context it files or removes: RootStays is *)
(* inductive with what the calls under way are about to do.                *)
(***************************************************************************)
RootSpared(c) ==
    /\ c \in Doing({"spawn"}) => op[c].new # Root
    /\ c \in Doing({"done"}) => op[c].context # Root
    /\ \A i \in DOMAIN frames[c] :
           frames[c][i].context # Root /\ Root \notin frames[c][i].children

RootInv == RootStays /\ \A c \in Calls : RootSpared(c)

(***************************************************************************)
(* Until calls raced, a done under way has no spawn or done beside it.     *)
(***************************************************************************)
Exclusive ==
    \A c \in Doing({"done"}) : \A d \in Calls \ {c} : d \notin Doing({"spawn", "done"})

(***************************************************************************)
(* Every live context but the root hangs from a live context, and so will  *)
(* the contexts that spawns under way are about to file.                   *)
(***************************************************************************)
Linked ==
    /\ \A x \in Live(contexts) \ {Root} : contexts[x].parent \in Live(contexts)
    /\ \A c \in Doing({"spawn"}) : op[c].context \in Live(contexts)

(***************************************************************************)
(* The edges in the tree and those of the spawns under way close no cycle: *)
(* every set of contexts has a member that no such edge leads from into    *)
(* the set.                                                                *)
(***************************************************************************)
Escapes(x, S) ==
    /\ x \in Live(contexts) => contexts[x].parent \notin S
    /\ \A c \in Doing({"spawn"}) : op[c].new = x => op[c].context \notin S

Forest ==
    \A S \in SUBSET (Ids \ {Root}) : S # {} => \E x \in S : Escapes(x, S)

KidsOf(tree, x) == {y \in Live(tree) : tree[y].parent = x}

(***************************************************************************)
(* A removal has seen every child of the contexts on its frames: each is   *)
(* collected in its frame, or is the context of the next frame.            *)
(***************************************************************************)
Covered(c) ==
    /\ \A i \in 1..Depth(c) - 1 :
           KidsOf(contexts, frames[c][i].context)
               \subseteq frames[c][i].children \cup {frames[c][i + 1].context}
    /\ pc[c] = "remove" => KidsOf(contexts, Top(c).context) \subseteq Top(c).children

AllCovered == \A c \in Calls : pc[c] \in Removal => Covered(c)

TreeInv == ~raced => Exclusive /\ Linked /\ Forest /\ AllCovered

-----------------------------------------------------------------------------
(***************************************************************************)
(* Facts of the model's operators that every proof below rests on.         *)
(***************************************************************************)
LEMMA Builder ==
  ASSUME TypeOK
  PROVE  /\ None \notin Builders
         /\ \A x \in Live(contexts) : /\ x \in Ids /\ contexts[x] \in Context
                                      /\ contexts[x].builder \in Builders
                                      /\ contexts[x].parent \in Ids \cup {None}
         /\ Unused # {} => Fresh \in Unused /\ Fresh \in Builders
BY ContextAssumption DEF TypeOK, Live, Context, Fresh, Unused

\* The innermost frame of a removal.
LEMMA TopFrame ==
  ASSUME TypeOK, NEW c \in Calls, pc[c] \in Removal
  PROVE  /\ frames[c] \in Seq(Frame) /\ Depth(c) \in Nat /\ Depth(c) >= 1
         /\ \A i \in 1..Depth(c) : frames[c][i] \in Frame
         /\ Top(c) \in Frame /\ Top(c) = frames[c][Depth(c)]
<1>1. frames[c] \in Seq(Frame) /\ frames[c] # <<>>
  BY DEF TypeOK, Frame
<1> QED
  BY <1>1 DEF Depth, Top

LEMMA NotEmpty ==
  ASSUME NEW f \in [Calls -> Seq(Frame)], NEW c \in Calls, Len(f[c]) >= 1
  PROVE  f[c] # <<>>
OBVIOUS

\* The steps of a removal, frame by frame.
LEMMA DoneFrames ==
  ASSUME TypeOK, NEW c \in Calls, DoneReturns(c)
  PROVE  /\ frames' \in [Calls -> Seq(Frame)]
         /\ \A d \in Calls \ {c} : frames'[d] = frames[d]
         /\ frames'[c] = <<[context |-> op[c].context, children |-> {}]>>
<1>1. op[c].context \in Ids
  BY DEF DoneReturns, TypeOK, Ops, InOp
<1>2. [context |-> op[c].context, children |-> {}] \in Frame
  BY <1>1 DEF Frame
<1>3. frames \in [Calls -> Seq(Frame)]
  BY DEF TypeOK, Frame
<1>4. <<[context |-> op[c].context, children |-> {}]>> \in Seq(Frame)
  BY <1>2
<1>5. frames' = [frames EXCEPT ![c] = <<[context |-> op[c].context, children |-> {}]>>]
  BY DEF DoneReturns
<1> QED
  BY <1>3, <1>4, <1>5

LEMMA ScanFrames ==
  ASSUME TypeOK, NEW c \in Calls, ScanEnd(c)
  PROVE  /\ frames' \in [Calls -> Seq(Frame)]
         /\ \A d \in Calls \ {c} : frames'[d] = frames[d]
         /\ Len(frames'[c]) = Depth(c)
         /\ \A i \in 1..Depth(c) :
                frames'[c][i] = IF i = Depth(c)
                                THEN [context |-> Top(c).context,
                                      children |-> Children(Top(c).context)]
                                ELSE frames[c][i]
<1>1. pc[c] \in Removal
  BY DEF ScanEnd, Removal
<1> DEFINE kids == Children(Top(c).context)
           f == [frames[c] EXCEPT ![Depth(c)].children = kids]
<1>2. frames' = [frames EXCEPT ![c] = f]
  BY DEF ScanEnd
<1>3. kids \in SUBSET Ids
  BY DEF Children, Live
<1>4. frames[c] \in Seq(Frame) /\ Depth(c) \in 1..Len(frames[c]) /\ Depth(c) = Len(frames[c])
  BY <1>1, TopFrame DEF Depth
<1>5. /\ Len(f) = Depth(c)
      /\ \A i \in 1..Depth(c) : f[i] = IF i = Depth(c) THEN [Top(c) EXCEPT !.children = kids]
                                                      ELSE frames[c][i]
  BY <1>4 DEF Top
<1>6. [Top(c) EXCEPT !.children = kids] = [context |-> Top(c).context, children |-> kids]
  BY <1>1, TopFrame DEF Frame
<1>7. f \in Seq(Frame)
  BY <1>3, <1>4, <1>6 DEF Top, Frame
<1>8. frames \in [Calls -> Seq(Frame)]
  BY DEF TypeOK, Frame
<1> HIDE DEF f
<1> QED
  BY <1>2, <1>5, <1>6, <1>7, <1>8

LEMMA DescendFrames ==
  ASSUME TypeOK, NEW c \in Calls, Descend(c)
  PROVE  /\ frames' \in [Calls -> Seq(Frame)]
         /\ \A d \in Calls \ {c} : frames'[d] = frames[d]
         /\ \E child \in Top(c).children :
               /\ child \in Ids
               /\ Len(frames'[c]) = Depth(c) + 1
               /\ frames'[c][Depth(c) + 1] = [context |-> child, children |-> {}]
               /\ frames'[c][Depth(c)] = [context |-> Top(c).context,
                                          children |-> Top(c).children \ {child}]
               /\ \A i \in 1..Depth(c) - 1 : frames'[c][i] = frames[c][i]
<1>1. pc[c] \in Removal
  BY DEF Descend, Removal
<1>2. PICK child \in Top(c).children :
          frames' = [frames EXCEPT ![c] = Append(
               [@ EXCEPT ![Depth(c)].children = Top(c).children \ {child}],
               [context |-> child, children |-> {}])]
  BY DEF Descend
<1> DEFINE top == [context |-> Top(c).context, children |-> Top(c).children \ {child}]
           new == [context |-> child, children |-> {}]
           f == [frames[c] EXCEPT ![Depth(c)].children = Top(c).children \ {child}]
<1>3. frames[c] \in Seq(Frame) /\ Depth(c) \in 1..Len(frames[c]) /\ Depth(c) = Len(frames[c])
  BY <1>1, TopFrame DEF Depth
<1>4. Top(c) \in Frame /\ Top(c) = frames[c][Depth(c)]
  BY <1>1, TopFrame
<1>5. child \in Ids /\ new \in Frame /\ top \in Frame
  BY <1>2, <1>4 DEF Frame
<1>6. f \in Seq(Frame) /\ Len(f) = Depth(c) /\ f[Depth(c)] = top
      /\ \A i \in 1..Depth(c) - 1 : f[i] = frames[c][i]
  <2>1. f = [frames[c] EXCEPT ![Depth(c)] = top]
    <3>1. [Top(c) EXCEPT !.children = Top(c).children \ {child}] = top
      BY <1>4 DEF Frame
    <3> HIDE DEF top
    <3> QED
      BY <1>4, <3>1, Zenon
  <2> HIDE DEF f, top
  <2> QED
    BY <1>3, <1>5, <2>1
<1>7. frames \in [Calls -> Seq(Frame)]
  BY DEF TypeOK, Frame
<1>8. frames' = [frames EXCEPT ![c] = Append(f, new)]
  BY <1>2, Zenon
<1> HIDE DEF f, top, new
<1>9. /\ Append(f, new) \in Seq(Frame) /\ Len(Append(f, new)) = Depth(c) + 1
      /\ Append(f, new)[Depth(c) + 1] = new
      /\ \A i \in 1..Depth(c) : Append(f, new)[i] = f[i]
  BY <1>3, <1>5, <1>6
<1>10. Depth(c) \in 1..Depth(c) /\ 1..Depth(c) - 1 \subseteq 1..Depth(c)
  BY <1>3
<1>11. frames'[c] = Append(f, new)
  BY <1>7, <1>8
<1>12. frames' \in [Calls -> Seq(Frame)] /\ \A d \in Calls \ {c} : frames'[d] = frames[d]
  BY <1>7, <1>8, <1>9
<1> QED
  BY <1>5, <1>6, <1>9, <1>10, <1>11, <1>12 DEF top, new

LEMMA PopFrames ==
  ASSUME TypeOK, NEW c \in Calls, Pop(c), Depth(c) > 1
  PROVE  /\ frames' \in [Calls -> Seq(Frame)]
         /\ \A d \in Calls \ {c} : frames'[d] = frames[d]
         /\ Len(frames'[c]) = Depth(c) - 1
         /\ \A i \in 1..Depth(c) - 1 : frames'[c][i] = frames[c][i]
<1>1. pc[c] \in Removal
  BY DEF Pop, Removal
<1>2. frames' = [frames EXCEPT ![c] = SubSeq(@, 1, Depth(c) - 1)]
  BY <1>1, TopFrame DEF Pop
<1>3. frames[c] \in Seq(Frame) /\ Depth(c) = Len(frames[c]) /\ Depth(c) \in Nat
  BY <1>1, TopFrame DEF Depth
<1>4. frames \in [Calls -> Seq(Frame)]
  BY DEF TypeOK, Frame
<1>5. /\ SubSeq(frames[c], 1, Depth(c) - 1) \in Seq(Frame)
      /\ Len(SubSeq(frames[c], 1, Depth(c) - 1)) = Depth(c) - 1
      /\ \A i \in 1..Depth(c) - 1 : SubSeq(frames[c], 1, Depth(c) - 1)[i] = frames[c][i]
  BY <1>3
<1> QED
  BY <1>2, <1>4, <1>5

-----------------------------------------------------------------------------
(***************************************************************************)
(* Type correctness.                                                       *)
(***************************************************************************)
LEMMA OpTypes ==
  ASSUME NEW o \in Ops
  PROVE  /\ o.kind \in {"spawn", "call", "done"} /\ o.context \in Ids
         /\ o.kind = "spawn" => o.new \in Ids
BY DEF Ops

LEMMA EndOpTypes ==
  ASSUME TypeOK, NEW c \in Calls, EndOp(c, "succeeded") \/ EndOp(c, "failed")
  PROVE  /\ status' \in [Calls -> {"none", "succeeded", "failed"}]
         /\ pc' = [pc EXCEPT ![c] = "ready"]
         /\ pc' \in [Calls -> {"idle"} \cup Active \cup Ended]
         /\ op' = [op EXCEPT ![c] = NoOp] /\ op' \in [Calls -> Ops \cup {NoOp}]
         /\ result' = [result EXCEPT ![c] = None]
         /\ result' \in [Calls -> Builders \cup {None}]
         /\ frames' = [frames EXCEPT ![c] = <<>>] /\ frames' \in [Calls -> Seq(Frame)]
         /\ before' \in [Ids -> {Absent} \cup Context]
<1>1. <<>> \in Seq(Frame) /\ NoContexts \in [Ids -> {Absent} \cup Context]
  BY DEF NoContexts
<1>2. "ready" \in {"idle"} \cup Active \cup Ended
  BY DEF Active
<1>3. /\ pc' = [pc EXCEPT ![c] = "ready"] /\ before' = NoContexts
      /\ op' = [op EXCEPT ![c] = NoOp]
      /\ result' = [result EXCEPT ![c] = None]
      /\ frames' = [frames EXCEPT ![c] = <<>>]
  BY DEF EndOp, Goto
<1>4. /\ pc' \in [Calls -> {"idle"} \cup Active \cup Ended]
      /\ op' \in [Calls -> Ops \cup {NoOp}]
      /\ result' \in [Calls -> Builders \cup {None}]
  BY <1>2, <1>3 DEF TypeOK
<1>5. frames' \in [Calls -> Seq(Frame)] /\ before' \in [Ids -> {Absent} \cup Context]
  <2>1. frames \in [Calls -> Seq(Frame)]
    BY DEF TypeOK
  <2> QED
    BY <1>1, <1>3, <2>1
<1>6. status' \in [Calls -> {"none", "succeeded", "failed"}]
  <2>1. CASE EndOp(c, "succeeded")
    BY <2>1 DEF EndOp, TypeOK
  <2>2. CASE EndOp(c, "failed")
    BY <2>2 DEF EndOp, TypeOK
  <2> QED
    BY <2>1, <2>2
<1> QED
  BY <1>3, <1>4, <1>5, <1>6

LEMMA EscapeTypes ==
  ASSUME TypeOK, NEW c \in Calls, Escape(c)
  PROVE  TypeOK'
BY DEF Escape, Goto, TypeOK, Active, InOp, Ended, Removal, NoContexts

LEMMA TypeStep == TypeOK /\ [Next]_vars => TypeOK'
<1> SUFFICES ASSUME TypeOK, [Next]_vars
             PROVE  TypeOK'
  OBVIOUS
<1> USE DEF Active, Ended, InOp, Removal
<1>1. ASSUME NEW c \in Calls, Refuse(c)
       PROVE  TypeOK'
  BY <1>1, EndOpTypes DEF Refuse, draft, TypeOK
<1>2. ASSUME NEW c \in Calls, Accept(c)
       PROVE  TypeOK'
  BY <1>2, Builder, OpTypes DEF Accept, Goto, draft, TypeOK, Live, Refused
<1>3. ASSUME NEW c \in Calls, MethodFails(c)
       PROVE  TypeOK'
  <2>1. EndOp(c, "failed") /\ pc[c] = "checked"
        /\ UNCHANGED <<draft, left, builder, walked, raced>>
    BY <1>3 DEF MethodFails
  <2>2. \A d \in Calls : pc'[d] \in InOp => d # c
    BY <2>1, EndOpTypes DEF TypeOK
  <2> QED
    BY <2>1, <2>2, EndOpTypes DEF draft, TypeOK
<1>4. ASSUME NEW c \in Calls, ValidationEscapes(c)
       PROVE  TypeOK'
  BY <1>4, EscapeTypes DEF ValidationEscapes
<1>5. ASSUME NEW c \in Calls, CallReturns(c)
       PROVE  TypeOK'
  BY <1>5, EndOpTypes DEF CallReturns, draft, TypeOK
<1>6. ASSUME NEW c \in Calls, SpawnReturns(c)
       PROVE  TypeOK'
  BY <1>6, Builder, OpTypes DEF SpawnReturns, Goto, draft, TypeOK, Live, Refused
<1>7. ASSUME NEW c \in Calls, Install(c)
       PROVE  TypeOK'
  <2>1. /\ op[c] \in Ops /\ op[c].kind = "spawn" /\ result[c] \in Builders
        /\ op[c].new \in Ids /\ op[c].context \in Ids
    <3>1. op[c] \in Ops /\ op[c].kind = "spawn" /\ result[c] \in Builders
      BY <1>7 DEF Install, TypeOK
    <3>2. op[c].context \in Ids /\ op[c].new \in Ids
      BY <3>1, OpTypes
    <3> QED
      BY <3>1, <3>2
  <2>2. [parent |-> op[c].context, builder |-> result[c]] \in Context
    BY <2>1 DEF Context
  <2>3. contexts' \in [Ids -> {Absent} \cup Context]
    BY <1>7, <2>1, <2>2 DEF Install, TypeOK
  <2> QED
    BY <1>7, <2>3, EndOpTypes DEF Install, TypeOK
<1>8. ASSUME NEW c \in Calls, DoneReturns(c)
       PROVE  TypeOK'
  BY <1>8, DoneFrames DEF DoneReturns, Goto, draft, TypeOK
<1>9. ASSUME NEW c \in Calls, ScanStart(c)
       PROVE  TypeOK'
  BY <1>9, Builder, OpTypes DEF ScanStart, Goto, draft, TypeOK, Live, Refused
<1>10. ASSUME NEW c \in Calls, ScanEnd(c)
       PROVE  TypeOK'
  <2>1. /\ Len(frames'[c]) >= 1 /\ \A d \in Calls \ {c} : frames'[d] = frames[d]
        /\ frames' \in [Calls -> Seq(Frame)]
    BY <1>10, ScanFrames, TopFrame DEF ScanEnd
  <2>2. /\ pc' = [pc EXCEPT ![c] = "remove"] /\ walked' = [walked EXCEPT ![c] = {}]
        /\ pc[c] = "scanning"
    BY <1>10 DEF ScanEnd, Goto
  <2>3. frames'[c] # <<>>
    BY <2>1, NotEmpty
  <2> QED
    BY <1>10, <2>1, <2>2, <2>3 DEF ScanEnd, draft, TypeOK
<1>11. ASSUME NEW c \in Calls, IterationFails(c)
       PROVE  TypeOK'
  BY <1>11, EscapeTypes DEF IterationFails
<1>12. ASSUME NEW c \in Calls, Descend(c)
       PROVE  TypeOK'
  <2>1. /\ Len(frames'[c]) >= 1 /\ \A d \in Calls \ {c} : frames'[d] = frames[d]
        /\ frames' \in [Calls -> Seq(Frame)]
    <3>1. Depth(c) \in Nat
      BY <1>12, TopFrame DEF Descend
    <3>2. Len(frames'[c]) = Depth(c) + 1
      BY <1>12, DescendFrames
    <3> QED
      BY <1>12, <3>1, <3>2, DescendFrames
  <2>2. pc' = [pc EXCEPT ![c] = "scan"] /\ pc[c] = "remove"
    BY <1>12 DEF Descend, Goto
  <2>3. frames'[c] # <<>>
    BY <2>1, NotEmpty
  <2> QED
    BY <1>12, <2>1, <2>2, <2>3 DEF Descend, draft, TypeOK
<1>13. ASSUME NEW c \in Calls, TooDeep(c)
       PROVE  TypeOK'
  BY <1>13, EscapeTypes DEF TooDeep
<1>14. ASSUME NEW c \in Calls, Pop(c)
       PROVE  TypeOK'
  <2>1. Top(c) \in Frame /\ Depth(c) \in Nat /\ Depth(c) >= 1 /\ pc[c] = "remove"
    BY <1>14, TopFrame DEF Pop
  <2>2. contexts' \in [Ids -> {Absent} \cup Context]
    BY <1>14, <2>1 DEF Pop, TypeOK
  <2>3. CASE Depth(c) > 1
    <3>1. /\ Len(frames'[c]) >= 1 /\ \A d \in Calls \ {c} : frames'[d] = frames[d]
          /\ frames' \in [Calls -> Seq(Frame)]
      BY <1>14, <2>1, <2>3, PopFrames
    <3>2. UNCHANGED <<pc, op, result, status, before>>
      BY <1>14, <2>1, <2>3 DEF Pop
    <3>3. frames'[c] # <<>>
      BY <3>1, NotEmpty
    <3> QED
      BY <1>14, <2>2, <3>1, <3>2, <3>3 DEF Pop, TypeOK
  <2>4. CASE ~(Depth(c) > 1)
    BY <1>14, <2>1, <2>2, <2>4, EndOpTypes DEF Pop, TypeOK
  <2> QED
    BY <2>3, <2>4
<1>15. ASSUME NEW c \in Calls, PopMissing(c)
       PROVE  TypeOK'
  BY <1>15, EndOpTypes DEF PopMissing, draft, TypeOK
<1>16. ASSUME NEW c \in Calls, ListStart(c)
       PROVE  TypeOK'
  BY <1>16, Builder, OpTypes DEF ListStart, Goto, draft, TypeOK, Live, Refused
<1>17. ASSUME NEW c \in Calls, ListEnd(c)
       PROVE  TypeOK'
  BY <1>17, Builder, OpTypes DEF ListEnd, Goto, draft, TypeOK, Live, Refused
<1>18. ASSUME NEW c \in Calls, Begin(c)
       PROVE  TypeOK'
  BY <1>18, Builder, OpTypes DEF Begin, Goto, draft, TypeOK, Live, Refused
<1>19. CASE UNCHANGED vars
  BY <1>19 DEF TypeOK, vars, draft
<1> QED
  BY <1>1, <1>2, <1>3, <1>4, <1>5, <1>6, <1>7, <1>8, <1>9, <1>10, <1>11, <1>12, <1>13, <1>14, <1>15, <1>16, <1>17, <1>18, <1>19 DEF Next, Continue, Operate, Remove, Answer, Finished

(***************************************************************************)
(* Every variable of the drafts keeps its shape, whatever the numbers of   *)
(* calls, contexts and builders.                                           *)
(***************************************************************************)
THEOREM TypeCorrect == Spec => []TypeOK
<1>1. Init => TypeOK
  <2> SUFFICES ASSUME Init PROVE TypeOK
    OBVIOUS
  <2>1. [parent |-> None, builder |-> RootBuilder] \in Context
    BY ContextAssumption DEF Context
  <2>2. contexts \in [Ids -> {Absent} \cup Context] /\ before \in [Ids -> {Absent} \cup Context]
    BY <2>1 DEF Init, NoContexts
  <2>3. frames \in [Calls -> Seq(Frame)]
    BY DEF Init
  <2> QED
    BY <2>2, <2>3, ContextAssumption DEF Init, TypeOK, InOp, Removal
<1> QED
  BY <1>1, TypeStep, PTL DEF Spec

-----------------------------------------------------------------------------
(***************************************************************************)
(* A step of one call leaves the local state of the other calls alone, and *)
(* one that ends an operation or a call clears the call's own.             *)
(***************************************************************************)
LEMMA Others ==
  ASSUME TypeOK, NEW c \in Calls, Begin(c) \/ Continue(c), NEW d \in Calls, d # c
  PROVE  /\ pc'[d] = pc[d] /\ op'[d] = op[d] /\ frames'[d] = frames[d]
         /\ walked'[d] = walked[d] /\ result'[d] = result[d]
         /\ builder'[d] = builder[d] /\ status'[d] = status[d] /\ left'[d] = left[d]
<1> USE DEF TypeOK, Goto
<1>1. CASE Begin(c)
  BY <1>1 DEF Begin
<1>2. CASE Refuse(c) \/ MethodFails(c) \/ CallReturns(c) \/ Install(c) \/ PopMissing(c)
  BY <1>2 DEF Refuse, MethodFails, CallReturns, Install, PopMissing, EndOp
<1>3. CASE ValidationEscapes(c) \/ IterationFails(c) \/ TooDeep(c)
  BY <1>3 DEF ValidationEscapes, IterationFails, TooDeep, Escape
<1>4. CASE Accept(c) \/ SpawnReturns(c) \/ ScanStart(c) \/ ListStart(c) \/ ListEnd(c)
  BY <1>4 DEF Accept, SpawnReturns, ScanStart, ListStart, ListEnd
<1>5. CASE DoneReturns(c)
  BY <1>5, DoneFrames DEF DoneReturns
<1>6. CASE ScanEnd(c)
  BY <1>6, ScanFrames DEF ScanEnd
<1>7. CASE Descend(c)
  BY <1>7, DescendFrames DEF Descend
<1>8. CASE Pop(c)
  BY <1>8 DEF Pop, EndOp
<1> QED
  BY <1>1, <1>2, <1>3, <1>4, <1>5, <1>6, <1>7, <1>8 DEF Continue, Operate, Remove, Answer

LEMMA Cleared ==
  ASSUME TypeOK, NEW c \in Calls, \/ EndOp(c, "succeeded") \/ EndOp(c, "failed") \/ Escape(c)
  PROVE  /\ op'[c] = NoOp /\ frames'[c] = <<>> /\ pc'[c] \in {"ready", "raised"}
         /\ result'[c] = None
BY DEF EndOp, Escape, TypeOK, Goto

-----------------------------------------------------------------------------
(***************************************************************************)
(* The root context stays.                                                 *)
(***************************************************************************)
LEMMA RootInit == Init => RootInv
BY NamesAssumption, ContextAssumption DEF Init, RootInv, RootStays, RootSpared, Doing, InOp, Context

LEMMA RootStep == TypeOK /\ RootInv /\ [Next]_vars => RootInv'
<1> SUFFICES ASSUME TypeOK, RootInv, [Next]_vars
             PROVE  RootInv'
  OBVIOUS
<1>1. SUFFICES ASSUME NEW c \in Calls, Begin(c) \/ Continue(c)
               PROVE  RootInv'
  <2>1. CASE UNCHANGED vars
    BY <2>1 DEF vars, RootInv, RootStays, RootSpared, Doing
  <2> QED
    BY <1>1, <2>1 DEF Next, Finished
<1>2. Root \in Ids
  BY NamesAssumption
<1>3. RootStays /\ RootSpared(c)
  BY DEF RootInv
<1>4. ASSUME NEW d \in Calls, d # c
      PROVE  RootSpared(d)'
  BY <1>1, <1>4, Others DEF RootInv, RootSpared, Doing
<1>5. SUFFICES RootStays' /\ RootSpared(c)'
  BY <1>4 DEF RootInv
<1>6. CASE Begin(c) \/ SpawnReturns(c) \/ ScanStart(c) \/ ListStart(c) \/ ListEnd(c)
  <2>1. UNCHANGED <<contexts, op, frames>> /\ (pc'[c] \in InOp => pc[c] \in InOp)
    BY <1>6 DEF Begin, SpawnReturns, ScanStart, ListStart, ListEnd, draft, Goto, TypeOK, InOp
  <2> QED
    BY <1>3, <2>1 DEF RootStays, RootSpared, Doing
<1>7. CASE \/ Refuse(c) \/ MethodFails(c) \/ CallReturns(c) \/ PopMissing(c)
           \/ ValidationEscapes(c) \/ IterationFails(c) \/ TooDeep(c)
  <2>1. UNCHANGED contexts /\ (EndOp(c, "failed") \/ EndOp(c, "succeeded") \/ Escape(c))
    BY <1>7 DEF Refuse, MethodFails, CallReturns, PopMissing, ValidationEscapes,
                IterationFails, TooDeep, draft, Escape
  <2> QED
    BY <1>3, <2>1, Cleared DEF RootStays, RootSpared, Doing, InOp
<1>8. CASE Accept(c)
  <2>1. PICK o \in Ops : ~Refused(o) /\ op' = [op EXCEPT ![c] = o]
    BY <1>8 DEF Accept
  <2>2. op'[c] = o /\ UNCHANGED <<contexts, frames>>
    BY <1>8, <2>1 DEF Accept, draft, TypeOK
  <2>3. Root \in Live(contexts) /\ contexts[Root].parent = None
    BY <1>2, <1>3 DEF RootStays, Live
  <2>4. (o.kind = "spawn" => o.new # Root) /\ (o.kind = "done" => o.context # Root)
    BY <2>1, <2>3 DEF Refused
  <2> QED
    BY <1>3, <2>2, <2>4 DEF RootStays, RootSpared, Doing
<1>9. CASE Install(c)
  <2>1. op[c].new # Root
    BY <1>3, <1>9 DEF RootSpared, Doing, Install, InOp, TypeOK
  <2>2. contexts'[Root] = contexts[Root]
    BY <1>2, <1>9, <2>1 DEF Install, TypeOK
  <2> QED
    BY <1>3, <1>9, <2>2, Cleared DEF Install, RootStays, RootSpared, Doing, InOp
<1>10. CASE DoneReturns(c)
  <2>1. op[c].context # Root
    BY <1>3, <1>10 DEF RootSpared, Doing, DoneReturns, InOp
  <2>2. UNCHANGED <<contexts, op>>
    BY <1>10 DEF DoneReturns
  <2>3. frames'[c] = <<[context |-> op[c].context, children |-> {}]>>
    BY <1>10, DoneFrames
  <2>4. pc[c] \in InOp
    BY <1>10 DEF DoneReturns, InOp
  <2> QED
    BY <1>3, <2>1, <2>2, <2>3, <2>4 DEF RootStays, RootSpared, Doing
<1>11. CASE ScanEnd(c)
  <2>1. UNCHANGED <<contexts, op>> /\ pc[c] \in InOp /\ pc[c] \in Removal
    BY <1>11 DEF ScanEnd, draft, InOp, Removal
  <2>2. Root \notin Children(Top(c).context)
    <3>1. Top(c).context \in Ids
      BY <2>1, TopFrame DEF Frame
    <3> QED
      BY <1>3, <3>1, NamesAssumption DEF Children, RootStays
  <2>3. ASSUME NEW i \in DOMAIN frames'[c]
        PROVE  frames'[c][i].context # Root /\ Root \notin frames'[c][i].children
    <3>1. DOMAIN frames'[c] = 1..Depth(c) /\ DOMAIN frames[c] = 1..Depth(c)
      <4>1. frames' \in [Calls -> Seq(Frame)] /\ Len(frames'[c]) = Depth(c)
        BY <1>11, ScanFrames
      <4> QED
        BY <2>1, <4>1, TopFrame DEF Depth
    <3>2. frames[c][i].context # Root /\ Root \notin frames[c][i].children
      BY <1>3, <2>3, <3>1 DEF RootSpared
    <3>3. CASE i = Depth(c)
      <4>1. frames'[c][i] = [context |-> Top(c).context, children |-> Children(Top(c).context)]
        BY <1>11, <2>3, <3>1, <3>3, ScanFrames
      <4>2. Top(c) = frames[c][i]
        BY <2>1, <3>3, TopFrame
      <4> QED
        BY <2>2, <3>2, <4>1, <4>2
    <3>4. CASE i # Depth(c)
      BY <1>11, <2>3, <3>1, <3>2, <3>4, ScanFrames
    <3> QED
      BY <3>3, <3>4
  <2> QED
    BY <1>3, <2>1, <2>3 DEF RootStays, RootSpared, Doing
<1>12. CASE Descend(c)
  <2>1. UNCHANGED <<contexts, op>> /\ pc[c] \in InOp /\ pc[c] \in Removal
    BY <1>12 DEF Descend, draft, InOp, Removal
  <2>2. PICK child \in Top(c).children :
               /\ Len(frames'[c]) = Depth(c) + 1
               /\ frames'[c][Depth(c) + 1] = [context |-> child, children |-> {}]
               /\ frames'[c][Depth(c)] = [context |-> Top(c).context,
                                          children |-> Top(c).children \ {child}]
               /\ \A i \in 1..Depth(c) - 1 : frames'[c][i] = frames[c][i]
    BY <1>12, DescendFrames
  <2>3. /\ DOMAIN frames[c] = 1..Depth(c) /\ Depth(c) \in 1..Depth(c)
        /\ Top(c) = frames[c][Depth(c)]
        /\ DOMAIN frames'[c] = 1..Depth(c) + 1 /\ Depth(c) \in Nat
    <3>1. frames' \in [Calls -> Seq(Frame)]
      BY <1>12, DescendFrames
    <3> QED
      BY <2>1, <2>2, <3>1, TopFrame DEF Depth
  <2>4. Top(c).context # Root /\ Root \notin Top(c).children
    BY <1>3, <2>3 DEF RootSpared
  <2>5. ASSUME NEW i \in DOMAIN frames'[c]
        PROVE  frames'[c][i].context # Root /\ Root \notin frames'[c][i].children
    <3>1. CASE i \in 1..Depth(c) - 1
      <4>1. frames'[c][i] = frames[c][i]
        BY <2>2, <3>1
      <4>3. i \in 1..Depth(c)
        BY <2>3, <3>1
      <4>2. \A j \in 1..Depth(c) : frames[c][j].context # Root /\ Root \notin frames[c][j].children
        BY <1>3, <2>3 DEF RootSpared
      <4> QED
        BY <4>1, <4>2, <4>3
    <3>2. CASE i = Depth(c)
      <4>1. frames'[c][i] = [context |-> Top(c).context, children |-> Top(c).children \ {child}]
        BY <2>2, <3>2
      <4> QED
        BY <2>4, <4>1
    <3>3. CASE i = Depth(c) + 1
      <4>1. frames'[c][i] = [context |-> child, children |-> {}]
        BY <2>2, <3>3
      <4> QED
        BY <2>2, <2>4, <4>1
    <3> QED
      BY <2>3, <2>5, <3>1, <3>2, <3>3
  <2> QED
    BY <1>3, <2>1, <2>5 DEF RootStays, RootSpared, Doing
<1>13. CASE Pop(c)
  <2>1. pc[c] \in InOp /\ pc[c] \in Removal
    BY <1>13 DEF Pop, InOp, Removal
  <2>2. DOMAIN frames[c] = 1..Depth(c) /\ Depth(c) \in 1..Depth(c) /\ Top(c) = frames[c][Depth(c)]
    BY <2>1, TopFrame DEF Depth
  <2>3. Top(c).context # Root
    BY <1>3, <2>2 DEF RootSpared
  <2>4. RootStays'
    BY <1>2, <1>3, <1>13, <2>3 DEF Pop, TypeOK, RootStays
  <2>5. CASE Depth(c) > 1
    <3>1. UNCHANGED <<pc, op>>
      BY <1>13, <2>5 DEF Pop
    <3>2. frames' \in [Calls -> Seq(Frame)] /\ Len(frames'[c]) = Depth(c) - 1
          /\ \A i \in 1..Depth(c) - 1 : frames'[c][i] = frames[c][i]
      BY <1>13, <2>5, PopFrames
    <3>3. DOMAIN frames'[c] = 1..Depth(c) - 1 /\ 1..Depth(c) - 1 \subseteq 1..Depth(c)
      BY <2>1, <3>2, TopFrame
    <3> QED
      BY <1>3, <2>1, <2>2, <2>4, <3>1, <3>2, <3>3 DEF RootSpared, Doing
  <2>6. CASE ~(Depth(c) > 1)
    BY <1>3, <1>13, <2>4, <2>6, Cleared DEF Pop, RootSpared, Doing, InOp
  <2> QED
    BY <2>5, <2>6
<1> QED
  BY <1>1, <1>6, <1>7, <1>8, <1>9, <1>10, <1>11, <1>12, <1>13
     DEF Continue, Operate, Remove, Answer

(***************************************************************************)
(* Whatever update_draft calls race on a draft, its root context is never  *)
(* removed and never gets a parent.                                        *)
(***************************************************************************)
THEOREM RootAlwaysStays == Spec => []RootStays
<1>1. RootInv => RootStays
  BY DEF RootInv
<1> QED
  BY <1>1, RootInit, RootStep, TypeCorrect, PTL DEF Spec

-----------------------------------------------------------------------------
(***************************************************************************)
(* One tree until calls raced.  First the steps that leave the contexts    *)
(* alone and start no operation.                                           *)
(***************************************************************************)
LEMMA Quiet ==
  ASSUME Exclusive, Linked, Forest, UNCHANGED contexts,
         \A d \in Calls : pc'[d] \in InOp => pc[d] \in InOp /\ op'[d] = op[d]
  PROVE  Exclusive' /\ Linked' /\ Forest'
<1>1. \A d \in Calls : /\ d \in Doing({"spawn"})' => d \in Doing({"spawn"}) /\ op'[d] = op[d]
                       /\ d \in Doing({"done"})' => d \in Doing({"done"})
                       /\ d \in Doing({"spawn", "done"})' => d \in Doing({"spawn", "done"})
  BY DEF Doing
<1>2. Doing({"spawn"})' \subseteq Calls /\ Doing({"done"})' \subseteq Calls
  BY DEF Doing
<1>3. Exclusive'
  BY <1>1, <1>2 DEF Exclusive
<1>4. Linked'
  BY <1>1, <1>2 DEF Linked, Live
<1>5. ASSUME NEW S \in SUBSET (Ids \ {Root}), S # {}
      PROVE  \E x \in S : Escapes(x, S)'
  <2>1. PICK x \in S : Escapes(x, S)
    BY <1>5 DEF Forest
  <2>2. Escapes(x, S)'
    BY <1>1, <1>2, <2>1 DEF Escapes, Live
  <2> QED
    BY <2>2
<1> QED
  BY <1>3, <1>4, <1>5 DEF Forest

(***************************************************************************)
(* An accepted operation adds at most an edge out of a context no edge     *)
(* leads to.                                                               *)
(***************************************************************************)
LEMMA AcceptKeepsTree ==
  ASSUME TypeOK, RootInv, Exclusive, Linked, Forest, NEW c \in Calls, Accept(c), ~raced'
  PROVE  Exclusive' /\ Linked' /\ Forest'
<1>1. PICK o \in Ops :
          /\ ~Refused(o) /\ op' = [op EXCEPT ![c] = o]
          /\ raced' = \/ raced
                      \/ o.kind = "done" /\ Doing({"spawn", "done"}) # {}
                      \/ o.kind = "spawn" /\ Doing({"done"}) # {}
  BY DEF Accept
<1>2. op'[c] = o /\ \A d \in Calls \ {c} : op'[d] = op[d] /\ pc'[d] = pc[d]
  BY <1>1 DEF Accept, Goto, TypeOK
<1>3. c \notin Doing({"spawn", "done"}) /\ c \notin Doing({"spawn"}) /\ pc'[c] \in InOp
  BY DEF Accept, Goto, TypeOK, Doing, InOp
<1>4. UNCHANGED contexts
  BY DEF Accept, draft
<1>5. \A d \in Calls :
          /\ d \in Doing({"spawn"})' <=> d \in Doing({"spawn"}) \/ (d = c /\ o.kind = "spawn")
          /\ d \in Doing({"done"})' <=> (d # c /\ d \in Doing({"done"})) \/ (d = c /\ o.kind = "done")
          /\ d \in Doing({"spawn", "done"})' <=>
                 (d # c /\ d \in Doing({"spawn", "done"})) \/ (d = c /\ o.kind \in {"spawn", "done"})
  BY <1>2, <1>3 DEF Doing
<1>6. Doing({"spawn"})' \subseteq Calls /\ Doing({"spawn"}) \subseteq Calls
      /\ Doing({"done"})' \subseteq Calls /\ Doing({"done"}) \subseteq Calls
      /\ Doing({"spawn", "done"})' \subseteq Calls /\ Doing({"spawn", "done"}) \subseteq Calls
  BY DEF Doing
<1>7. Exclusive'
  <2> SUFFICES ASSUME NEW d \in Doing({"done"})', NEW e \in Calls \ {d}, e \in Doing({"spawn", "done"})'
               PROVE  FALSE
    BY DEF Exclusive
  <2>1. CASE d # c /\ e # c
    BY <1>5, <1>6, <2>1 DEF Exclusive
  <2>2. CASE d = c
    BY <1>1, <1>5, <1>6, <2>2
  <2>3. CASE e = c
    <3>1. d \in Doing({"done"}) /\ d \in Doing({"spawn", "done"})
      BY <1>5, <1>6, <2>3 DEF Doing
    <3> QED
      BY <1>1, <1>5, <1>6, <2>3, <3>1
  <2> QED
    BY <2>1, <2>2, <2>3
<1>8. o.context \in Live(contexts) /\ (o.kind = "spawn" => o.new \in Ids \ Live(contexts))
  BY <1>1, OpTypes DEF Refused
<1>9. Linked'
  BY <1>2, <1>3, <1>4, <1>5, <1>6, <1>8 DEF Linked, Live
<1>10. CASE o.kind # "spawn"
  <2>1. \A d \in Doing({"spawn"})' : d \in Doing({"spawn"}) /\ op'[d] = op[d]
    BY <1>2, <1>3, <1>5, <1>6, <1>10
  <2>2. ASSUME NEW S \in SUBSET (Ids \ {Root}), S # {}
        PROVE  \E x \in S : Escapes(x, S)'
    <3>1. PICK x \in S : Escapes(x, S)
      BY <2>2 DEF Forest
    <3>2. Escapes(x, S)'
      BY <1>4, <2>1, <3>1 DEF Escapes, Live
    <3> QED
      BY <3>2
  <2> QED
    BY <1>7, <1>9, <2>2 DEF Forest
<1>11. CASE o.kind = "spawn"
  <2>1. \A x \in Live(contexts) : contexts[x].parent # o.new
    BY <1>8, <1>11, NamesAssumption DEF Linked, RootInv, RootStays
  <2>2. \A d \in Doing({"spawn"})' : /\ op'[d].context \in Live(contexts)
                                     /\ d # c => d \in Doing({"spawn"}) /\ op'[d] = op[d]
    BY <1>2, <1>5, <1>6, <1>8 DEF Linked
  <2>3. ASSUME NEW S \in SUBSET (Ids \ {Root}), S # {}
        PROVE  \E x \in S : Escapes(x, S)'
    <3>1. CASE S = {o.new}
      <4>1. o.new \in S /\ Escapes(o.new, S)'
        BY <1>4, <1>8, <1>11, <2>2, <3>1 DEF Escapes, Live
      <4> QED
        BY <4>1
    <3>2. CASE S # {o.new}
      <4>1. S \ {o.new} \in SUBSET (Ids \ {Root}) /\ S \ {o.new} # {}
        BY <2>3, <3>2
      <4>2. PICK x \in S \ {o.new} : Escapes(x, S \ {o.new})
        BY <4>1 DEF Forest
      <4>3. x \in Live(contexts) => contexts[x].parent \notin S
        BY <2>1, <4>2 DEF Escapes
      <4>4. \A d \in Doing({"spawn"})' : op'[d].new = x => op'[d].context \notin S
        BY <1>2, <1>8, <1>11, <2>2, <4>2 DEF Escapes
      <4>5. Escapes(x, S)'
        BY <1>4, <4>3, <4>4 DEF Escapes, Live
      <4> QED
        BY <4>2, <4>5
    <3> QED
      BY <3>1, <3>2
  <2> QED
    BY <1>7, <1>9, <2>3 DEF Forest
<1> QED
  BY <1>10, <1>11

(***************************************************************************)
(* Filing a context turns the edge of the spawn into one of the tree.      *)
(***************************************************************************)
LEMMA InstallKeepsTree ==
  ASSUME TypeOK, RootInv, Exclusive, Linked, Forest, NEW c \in Calls, Install(c)
  PROVE  Exclusive' /\ Linked' /\ Forest'
<1> DEFINE new == op[c].new
<1>1. /\ c \in Doing({"spawn"}) /\ new \in Ids /\ new # Root
      /\ op[c].context \in Live(contexts)
  <2>1. c \in Doing({"spawn"}) /\ op[c] \in Ops /\ op[c].kind = "spawn"
    BY DEF Install, TypeOK, Doing, InOp
  <2> QED
    BY <2>1, OpTypes DEF RootInv, RootSpared, Linked
<1>2. \A x \in Ids : contexts'[x] = IF x = new
                                    THEN [parent |-> op[c].context, builder |-> result[c]]
                                    ELSE contexts[x]
  BY DEF Install, TypeOK
<1>3. Live(contexts)' = Live(contexts) \cup {new} /\ contexts'[new].parent = op[c].context
  <2>1. [parent |-> op[c].context, builder |-> result[c]] \in Context
    <3>1. result[c] \in Builders /\ op[c].context \in Ids
      BY <1>1 DEF Install, TypeOK, Live
    <3> QED
      BY <3>1 DEF Context
  <2> QED
    BY <1>1, <1>2, <2>1, ContextAssumption DEF Live, Context
<1>4. /\ pc'[c] \notin InOp
      /\ \A d \in Calls : pc'[d] \in InOp => d # c /\ pc[d] \in InOp /\ op'[d] = op[d]
  <2>1. EndOp(c, "succeeded") /\ Continue(c)
    BY DEF Install, Continue, Operate
  <2> QED
    BY <2>1, Cleared, Others DEF InOp
<1>5. \A d \in Calls : /\ d \in Doing({"spawn"})' => d \in Doing({"spawn"}) /\ op'[d] = op[d]
                       /\ d \in Doing({"done"})' => d \in Doing({"done"})
                       /\ d \in Doing({"spawn", "done"})' => d \in Doing({"spawn", "done"})
  BY <1>4 DEF Doing
<1>6. Doing({"spawn"})' \subseteq Calls /\ Doing({"done"})' \subseteq Calls
  BY DEF Doing
<1>7. Exclusive'
  BY <1>5, <1>6 DEF Exclusive
<1>8. Linked'
  <2>1. ASSUME NEW x \in Live(contexts)' \ {Root}
        PROVE  contexts'[x].parent \in Live(contexts)'
    <3>1. CASE x = new
      BY <1>1, <1>3, <3>1
    <3>2. CASE x # new
      BY <1>2, <1>3, <2>1, <3>2 DEF Linked, Live
    <3> QED
      BY <3>1, <3>2
  <2>2. \A d \in Doing({"spawn"})' : op'[d].context \in Live(contexts)'
    BY <1>3, <1>5, <1>6 DEF Linked
  <2> QED
    BY <2>1, <2>2 DEF Linked
<1>9. ASSUME NEW S \in SUBSET (Ids \ {Root}), S # {}
      PROVE  \E x \in S : Escapes(x, S)'
  <2>1. PICK x \in S : Escapes(x, S)
    BY <1>9 DEF Forest
  <2>2. x \in Live(contexts)' => contexts'[x].parent \notin S
    <3>1. CASE x = new
      BY <1>1, <1>3, <2>1, <3>1 DEF Escapes
    <3>2. CASE x # new
      BY <1>2, <1>3, <2>1, <3>2 DEF Escapes
    <3> QED
      BY <3>1, <3>2
  <2>3. \A d \in Doing({"spawn"})' : op'[d].new = x => op'[d].context \notin S
    BY <1>5, <1>6, <2>1 DEF Escapes
  <2> QED
    BY <2>2, <2>3 DEF Escapes
<1> QED
  BY <1>7, <1>8, <1>9 DEF Forest

(***************************************************************************)
(* What a removal pops is a leaf.                                          *)
(***************************************************************************)
LEMMA PopKeepsTree ==
  ASSUME TypeOK, RootInv, Exclusive, Linked, Forest, AllCovered, NEW c \in Calls, Pop(c)
  PROVE  /\ Exclusive' /\ Linked' /\ Forest'
         /\ Live(contexts)' = Live(contexts) \ {Top(c).context}
         /\ \A x \in Live(contexts)' : contexts'[x] = contexts[x]
<1> DEFINE gone == Top(c).context
<1>1. pc[c] = "remove" /\ pc[c] \in Removal /\ pc[c] \in InOp /\ op[c].kind = "done"
  BY DEF Pop, Removal, InOp, TypeOK
<1>2. gone \in Ids
  BY <1>1, TopFrame DEF Frame
<1>3. \A x \in Ids : contexts'[x] = IF x = gone THEN Absent ELSE contexts[x]
  BY <1>2 DEF Pop, TypeOK
<1>4. Live(contexts)' = Live(contexts) \ {gone} /\ \A x \in Live(contexts)' : contexts'[x] = contexts[x]
  BY <1>3 DEF Live
<1>5. \A x \in Live(contexts) : contexts[x].parent # gone
  BY <1>1 DEF AllCovered, Covered, KidsOf, Pop
<1>6. \A d \in Calls \ {c} : d \notin Doing({"spawn", "done"})
  BY <1>1 DEF Exclusive, Doing
<1>7. \A d \in Calls \ {c} : pc'[d] = pc[d] /\ op'[d] = op[d]
  BY Others DEF Continue, Remove
<1>8. op'[c].kind # "spawn"
  <2>1. op'[c] = op[c] \/ op'[c] = NoOp
    <3>1. CASE Depth(c) > 1
      BY <1>1, <3>1, TopFrame DEF Pop
    <3>2. CASE ~(Depth(c) > 1)
      BY <3>2, Cleared DEF Pop
    <3> QED
      BY <3>1, <3>2
  <2> QED
    BY <1>1, <2>1 DEF NoOp
<1>9. Doing({"spawn"})' = {} /\ \A d \in Calls \ {c} : d \notin Doing({"spawn", "done"})'
                            /\ d \notin Doing({"done"})'
  BY <1>6, <1>7, <1>8 DEF Doing
<1>10. Exclusive'
  BY <1>9 DEF Exclusive, Doing
<1>11. Linked'
  BY <1>4, <1>5, <1>9 DEF Linked
<1>12. ASSUME NEW S \in SUBSET (Ids \ {Root}), S # {}
       PROVE  \E x \in S : Escapes(x, S)'
  <2>1. PICK x \in S : Escapes(x, S)
    BY <1>12 DEF Forest
  <2>2. Escapes(x, S)'
    BY <1>4, <1>9, <2>1 DEF Escapes
  <2> QED
    BY <2>2
<1> QED
  BY <1>4, <1>10, <1>11, <1>12 DEF Forest

(***************************************************************************)
(* The frames of a removal keep covering the children of their contexts:   *)
(* of the call that steps, and of a call the step leaves alone.            *)
(***************************************************************************)
LEMMA CoverElsewhere ==
  ASSUME TypeOK, Exclusive, AllCovered, NEW c \in Calls, Begin(c) \/ Continue(c),
         NEW d \in Calls \ {c}, pc'[d] \in Removal
  PROVE  Covered(d)'
<1>1. /\ pc'[d] = pc[d] /\ frames'[d] = frames[d]
  BY Others
<1>2. pc[d] \in Removal /\ Covered(d) /\ d \in Doing({"done"})
  BY <1>1 DEF AllCovered, Doing, TypeOK, InOp, Removal
<1>3. c \notin Doing({"spawn", "done"})
  BY <1>2 DEF Exclusive
<1>4. ~Install(c) /\ ~Pop(c)
  BY <1>3 DEF Install, Pop, Doing, TypeOK, InOp, Removal
<1>5. UNCHANGED contexts
  BY <1>4 DEF Begin, Continue, Operate, Remove, Answer, Refuse, Accept, MethodFails,
              ValidationEscapes, CallReturns, SpawnReturns, DoneReturns, ScanStart, ScanEnd,
              IterationFails, Descend, TooDeep, PopMissing, ListStart, ListEnd, draft, Escape
<1>6. \A x : KidsOf(contexts', x) = KidsOf(contexts, x)
  BY <1>5 DEF KidsOf, Live
<1> QED
  BY <1>1, <1>2, <1>6 DEF Covered, Depth, Top

LEMMA ScanCovers ==
  ASSUME TypeOK, AllCovered, NEW c \in Calls, ScanEnd(c)
  PROVE  Covered(c)'
<1>1. pc[c] \in Removal /\ Covered(c) /\ UNCHANGED contexts
  BY DEF AllCovered, ScanEnd, Removal, draft
<1>2. /\ Depth(c) \in Nat /\ Depth(c) >= 1 /\ Top(c) = frames[c][Depth(c)]
  BY <1>1, TopFrame
<1>3. Depth(c)' = Depth(c)
  BY ScanFrames DEF Depth
<1>4. \A x : KidsOf(contexts', x) = KidsOf(contexts, x)
  BY <1>1 DEF KidsOf, Live
<1>5. \A i \in 1..Depth(c) : /\ frames'[c][i].context = frames[c][i].context
                             /\ i < Depth(c) => frames'[c][i] = frames[c][i]
  <2> TAKE i \in 1..Depth(c)
  <2>1. CASE i = Depth(c)
    <3>1. frames'[c][i] = [context |-> Top(c).context, children |-> KidsOf(contexts, Top(c).context)]
      BY <2>1, ScanFrames DEF KidsOf, Children
    <3> QED
      BY <1>2, <2>1, <3>1
  <2>2. CASE i # Depth(c)
    BY <2>2, ScanFrames
  <2> QED
    BY <2>1, <2>2
<1>6. ASSUME NEW i \in 1..Depth(c) - 1
      PROVE  KidsOf(contexts', frames'[c][i].context)
                 \subseteq frames'[c][i].children \cup {frames'[c][i + 1].context}
  <2>1. i \in 1..Depth(c) /\ i + 1 \in 1..Depth(c) /\ i < Depth(c)
    BY <1>2, <1>6
  <2>2. KidsOf(contexts, frames[c][i].context) \subseteq frames[c][i].children \cup {frames[c][i + 1].context}
    BY <1>1, <1>6 DEF Covered
  <2>3. frames'[c][i] = frames[c][i] /\ frames'[c][i + 1].context = frames[c][i + 1].context
    BY <1>5, <2>1
  <2> QED
    BY <1>1, <2>2, <2>3 DEF KidsOf, Live
<1>7. KidsOf(contexts', Top(c)'.context) \subseteq Top(c)'.children
  <2>1. Top(c)' = [context |-> Top(c).context, children |-> KidsOf(contexts, Top(c).context)]
    BY <1>2, <1>3, ScanFrames DEF Top, KidsOf, Children
  <2> HIDE DEF Top
  <2>2. Top(c)'.context = Top(c).context /\ Top(c)'.children = KidsOf(contexts, Top(c).context)
    BY <2>1
  <2> QED
    BY <1>1, <2>2 DEF KidsOf, Live
<1> QED
  BY <1>3, <1>6, <1>7 DEF Covered

LEMMA DescendCovers ==
  ASSUME TypeOK, AllCovered, NEW c \in Calls, Descend(c)
  PROVE  Covered(c)'
<1>1. /\ pc[c] \in Removal /\ pc[c] = "remove" /\ Covered(c) /\ UNCHANGED contexts
      /\ pc'[c] = "scan"
  BY DEF AllCovered, Descend, Removal, draft, Goto, TypeOK
<1>2. /\ Depth(c) \in Nat /\ Depth(c) >= 1 /\ Top(c) = frames[c][Depth(c)]
  BY <1>1, TopFrame
<1>3. PICK child \in Top(c).children :
               /\ Len(frames'[c]) = Depth(c) + 1
               /\ frames'[c][Depth(c) + 1] = [context |-> child, children |-> {}]
               /\ frames'[c][Depth(c)] = [context |-> Top(c).context,
                                          children |-> Top(c).children \ {child}]
               /\ \A i \in 1..Depth(c) - 1 : frames'[c][i] = frames[c][i]
  BY DescendFrames
<1>4. Depth(c)' = Depth(c) + 1
  BY <1>3 DEF Depth
<1>5. ASSUME NEW i \in 1..Depth(c)
      PROVE  KidsOf(contexts', frames'[c][i].context)
                 \subseteq frames'[c][i].children \cup {frames'[c][i + 1].context}
  <2>1. CASE i = Depth(c)
    <3>1. /\ frames'[c][i].context = Top(c).context
          /\ frames'[c][i].children = Top(c).children \ {child}
          /\ frames'[c][i + 1].context = child
      BY <1>3, <2>1
    <3>2. KidsOf(contexts, Top(c).context) \subseteq Top(c).children
      BY <1>1 DEF Covered
    <3> QED
      BY <1>1, <3>1, <3>2 DEF KidsOf, Live
  <2>2. CASE i # Depth(c)
    <3>1. i \in 1..Depth(c) - 1
      BY <1>2, <2>2
    <3>2. frames'[c][i] = frames[c][i]
      BY <1>3, <3>1
    <3>3. frames'[c][i + 1].context = frames[c][i + 1].context
      <4>1. CASE i + 1 = Depth(c)
        <5>1. frames'[c][i + 1] = [context |-> Top(c).context, children |-> Top(c).children \ {child}]
          BY <1>3, <4>1
        <5> QED
          BY <1>2, <4>1, <5>1
      <4>2. CASE i + 1 # Depth(c)
        <5>1. i + 1 \in 1..Depth(c) - 1
          BY <1>2, <3>1, <4>2
        <5> QED
          BY <1>3, <5>1
      <4> QED
        BY <4>1, <4>2
    <3>4. KidsOf(contexts, frames[c][i].context) \subseteq frames[c][i].children \cup {frames[c][i + 1].context}
      BY <1>1, <3>1 DEF Covered
    <3> QED
      BY <1>1, <3>2, <3>3, <3>4 DEF KidsOf, Live
  <2> QED
    BY <2>1, <2>2
<1>6. 1..Depth(c)' - 1 = 1..Depth(c)
  BY <1>2, <1>4
<1> QED
  BY <1>1, <1>5, <1>6 DEF Covered

LEMMA PopCovers ==
  ASSUME TypeOK, RootInv, Exclusive, Linked, Forest, AllCovered, NEW c \in Calls, Pop(c),
         pc'[c] \in Removal
  PROVE  Covered(c)'
<1>1. pc[c] \in Removal /\ Covered(c) /\ pc[c] = "remove"
  BY DEF AllCovered, Pop, Removal
<1>2. /\ Depth(c) \in Nat /\ Depth(c) >= 1 /\ Top(c) = frames[c][Depth(c)]
  BY <1>1, TopFrame
<1>3. Depth(c) > 1
  BY <1>2, Cleared DEF Pop, Removal
<1>4. /\ frames' \in [Calls -> Seq(Frame)]
      /\ Len(frames'[c]) = Depth(c) - 1
      /\ \A i \in 1..Depth(c) - 1 : frames'[c][i] = frames[c][i]
  BY <1>3, PopFrames
<1>5. Depth(c)' = Depth(c) - 1
  BY <1>4 DEF Depth
<1>6. Live(contexts)' = Live(contexts) \ {Top(c).context} /\ \A x \in Live(contexts)' : contexts'[x] = contexts[x]
  BY PopKeepsTree
<1>7. ASSUME NEW i \in 1..Depth(c) - 1
      PROVE  KidsOf(contexts', frames'[c][i].context)
                 \subseteq frames[c][i].children \cup ({frames[c][i + 1].context} \ {Top(c).context})
  <2>1. KidsOf(contexts, frames[c][i].context) \subseteq frames[c][i].children \cup {frames[c][i + 1].context}
    BY <1>1, <1>7 DEF Covered
  <2>2. frames'[c][i] = frames[c][i]
    BY <1>4, <1>7
  <2> QED
    BY <1>6, <2>1, <2>2 DEF KidsOf
<1>8. ASSUME NEW i \in 1..Depth(c)' - 1
      PROVE  KidsOf(contexts', frames'[c][i].context)
                 \subseteq frames'[c][i].children \cup {frames'[c][i + 1].context}
  <2>1. i \in 1..Depth(c) - 1 /\ i + 1 \in 1..Depth(c) - 1
    BY <1>2, <1>5, <1>8
  <2>2. frames'[c][i] = frames[c][i] /\ frames'[c][i + 1] = frames[c][i + 1]
    BY <1>4, <2>1
  <2> QED
    BY <1>7, <2>1, <2>2
<1>9. KidsOf(contexts', Top(c)'.context) \subseteq Top(c)'.children
  <2>1. Depth(c) - 1 \in 1..Depth(c) - 1 /\ (Depth(c) - 1) + 1 = Depth(c)
    BY <1>2, <1>3
  <2>2. Top(c)' = frames'[c][Depth(c) - 1] /\ frames'[c][Depth(c) - 1] = frames[c][Depth(c) - 1]
    BY <1>4, <1>5, <2>1 DEF Top
  <2>3. KidsOf(contexts', frames'[c][Depth(c) - 1].context) \subseteq frames[c][Depth(c) - 1].children
    BY <1>2, <1>7, <2>1
  <2>4. Top(c)'.children = frames[c][Depth(c) - 1].children /\ Top(c)'.context = frames'[c][Depth(c) - 1].context
    BY <2>2
  <2> QED
    BY <2>3, <2>4 DEF KidsOf
<1> QED
  BY <1>8, <1>9 DEF Covered

LEMMA TreeStep == TypeOK /\ RootInv /\ TreeInv /\ [Next]_vars => TreeInv'
<1> SUFFICES ASSUME TypeOK, RootInv, TreeInv, [Next]_vars, ~raced'
             PROVE  (Exclusive /\ Linked /\ Forest /\ AllCovered)'
  BY DEF TreeInv
<1>1. SUFFICES ASSUME NEW c \in Calls, Begin(c) \/ Continue(c)
               PROVE  (Exclusive /\ Linked /\ Forest /\ AllCovered)'
  <2>1. CASE UNCHANGED vars
    <3>1. ~raced /\ UNCHANGED <<contexts, pc, op, frames>>
      BY <2>1 DEF vars
    <3>2. Exclusive' /\ Linked' /\ Forest'
      BY <3>1, Quiet DEF TreeInv
    <3>3. AllCovered'
      BY <3>1 DEF TreeInv, AllCovered, Covered, Depth, Top
    <3> QED
      BY <3>2, <3>3
  <2> QED
    BY <1>1, <2>1 DEF Next, Finished
<1>2. ~raced
  BY <1>1 DEF Begin, Continue, Operate, Remove, Answer, Refuse, Accept, MethodFails,
              ValidationEscapes, CallReturns, SpawnReturns, Install, DoneReturns, ScanStart,
              ScanEnd, IterationFails, Descend, TooDeep, Pop, PopMissing, ListStart, ListEnd, Escape
<1>3. Exclusive /\ Linked /\ Forest /\ AllCovered
  BY <1>2 DEF TreeInv
<1>4. SUFFICES (Exclusive /\ Linked /\ Forest)' /\ (pc'[c] \in Removal => Covered(c)')
  BY <1>1, <1>3, CoverElsewhere DEF AllCovered
<1>5. CASE Accept(c)
  BY <1>3, <1>5, AcceptKeepsTree DEF Accept, Goto, TypeOK, Removal
<1>6. CASE Install(c)
  <2>1. pc'[c] \notin Removal
    BY <1>6, Cleared DEF Install, Removal
  <2> QED
    BY <1>3, <1>6, <2>1, InstallKeepsTree
<1>7. CASE Pop(c)
  BY <1>3, <1>7, PopKeepsTree, PopCovers
<1>8. CASE ~Accept(c) /\ ~Install(c) /\ ~Pop(c)
  <2>1. UNCHANGED contexts
    BY <1>1, <1>8 DEF Begin, Continue, Operate, Remove, Answer, Refuse, MethodFails,
              ValidationEscapes, CallReturns, SpawnReturns, DoneReturns, ScanStart, ScanEnd,
              IterationFails, Descend, TooDeep, PopMissing, ListStart, ListEnd, draft, Escape
  <2>2. pc'[c] \in InOp => pc[c] \in InOp /\ op'[c] = op[c]
    <3>1. CASE \/ Refuse(c) \/ MethodFails(c) \/ CallReturns(c) \/ PopMissing(c)
               \/ ValidationEscapes(c) \/ IterationFails(c) \/ TooDeep(c)
      <4>1. EndOp(c, "failed") \/ EndOp(c, "succeeded") \/ Escape(c)
        BY <3>1 DEF Refuse, MethodFails, CallReturns, PopMissing, ValidationEscapes,
                    IterationFails, TooDeep
      <4> QED
        BY <4>1, Cleared DEF InOp
    <3>2. CASE \/ Begin(c) \/ SpawnReturns(c) \/ DoneReturns(c) \/ ScanStart(c) \/ ScanEnd(c)
               \/ Descend(c) \/ ListStart(c) \/ ListEnd(c)
      BY <3>2 DEF Begin, SpawnReturns, DoneReturns, ScanStart, ScanEnd, Descend, ListStart,
                  ListEnd, Goto, TypeOK, InOp
    <3> QED
      BY <1>1, <1>8, <3>1, <3>2 DEF Continue, Operate, Remove, Answer
  <2>3. (Exclusive /\ Linked /\ Forest)'
    BY <1>1, <1>3, <2>1, <2>2, Others, Quiet
  <2>4. pc'[c] \in Removal => Covered(c)'
    <3>1. CASE ScanEnd(c)
      BY <1>3, <3>1, ScanCovers
    <3>2. CASE Descend(c)
      BY <1>3, <3>2, DescendCovers
    <3>3. CASE DoneReturns(c)
      <4>1. Depth(c)' = 1 /\ pc'[c] = "scan"
        BY <3>3, DoneFrames DEF DoneReturns, Depth, Goto, TypeOK
      <4> QED
        BY <4>1 DEF Covered
    <3>4. CASE ScanStart(c)
      <4>1. UNCHANGED <<contexts, frames>> /\ pc[c] \in Removal /\ pc'[c] = "scanning"
        BY <3>4 DEF ScanStart, draft, Goto, TypeOK, Removal
      <4> QED
        BY <1>3, <4>1 DEF AllCovered, Covered, Depth
    <3>5. CASE \/ Begin(c) \/ SpawnReturns(c) \/ ListStart(c) \/ ListEnd(c)
      BY <3>5 DEF Begin, SpawnReturns, ListStart, ListEnd, Goto, TypeOK, Removal
    <3>6. CASE \/ Refuse(c) \/ MethodFails(c) \/ CallReturns(c) \/ PopMissing(c)
               \/ ValidationEscapes(c) \/ IterationFails(c) \/ TooDeep(c)
      <4>1. EndOp(c, "failed") \/ EndOp(c, "succeeded") \/ Escape(c)
        BY <3>6 DEF Refuse, MethodFails, CallReturns, PopMissing, ValidationEscapes,
                    IterationFails, TooDeep
      <4> QED
        BY <4>1, Cleared DEF Removal
    <3> QED
      BY <1>1, <1>8, <3>1, <3>2, <3>3, <3>4, <3>5, <3>6 DEF Continue, Operate, Remove, Answer
  <2> QED
    BY <2>3, <2>4
<1> QED
  BY <1>5, <1>6, <1>7, <1>8

LEMMA TreeInit == Init => TreeInv
<1> SUFFICES ASSUME Init PROVE Exclusive /\ Linked /\ Forest /\ AllCovered
  BY DEF TreeInv
<1>1. Doing({"spawn"}) = {} /\ Doing({"done"}) = {}
  BY DEF Init, Doing, InOp
<1>2. Live(contexts) = {Root}
  <2>1. [parent |-> None, builder |-> RootBuilder] # Absent
    BY ContextAssumption
  <2> QED
    BY <2>1, NamesAssumption DEF Init, Live
<1>3. Exclusive /\ Linked
  BY <1>1, <1>2 DEF Exclusive, Linked
<1>4. Forest
  BY <1>1, <1>2 DEF Forest, Escapes
<1>5. AllCovered
  BY DEF Init, AllCovered, Removal
<1> QED
  BY <1>3, <1>4, <1>5

LEMMA TreeImplied == TypeOK /\ RootInv /\ TreeInv => TreeUnlessRaced
<1> SUFFICES ASSUME TypeOK, RootInv, Linked, Forest
             PROVE  Now!Rooted /\ Now!Acyclic
  BY DEF TreeInv, TreeUnlessRaced
<1>1. ASSUME NEW x \in Live(contexts)
      PROVE  contexts[x].parent # Absent
  BY <1>1, Builder, NamesAssumption
<1>2. /\ Now!Live = Live(contexts)
      /\ \A x \in Live(contexts) : x \in Ids /\ Parents(contexts)[x] = contexts[x].parent
      /\ \A x \in Ids \ Live(contexts) : Parents(contexts)[x] = Absent
  BY <1>1 DEF Now!Live, Parents, Live
<1>3. Root \in Live(contexts) /\ contexts[Root].parent = None
  BY NamesAssumption DEF RootInv, RootStays, Live
<1>4. \A x \in Live(contexts) \ {Root} : contexts[x].parent \in Live(contexts) /\ contexts[x].parent # None
  BY NamesAssumption DEF Linked, Live
<1>5. Now!Rooted
  BY <1>2, <1>3, <1>4, NamesAssumption DEF Now!Rooted
<1>6. ASSUME NEW S \in SUBSET (Now!Live \ {Root}), S # {}
      PROVE  \E x \in S : Parents(contexts)[x] \notin S
  <2>1. S \in SUBSET (Ids \ {Root}) /\ S \subseteq Live(contexts)
    BY <1>2
  <2>2. PICK x \in S : Escapes(x, S)
    BY <1>6, <2>1 DEF Forest
  <2> QED
    BY <1>2, <2>1, <2>2 DEF Escapes
<1> QED
  BY <1>5, <1>6 DEF Now!Acyclic

(***************************************************************************)
(* As long as no done overlapped a spawn or another done, overlapping      *)
(* update_draft calls, however many, leave one tree under the root.        *)
(***************************************************************************)
THEOREM TreeUntilRaced == Spec => []TreeUnlessRaced
BY RootInit, RootStep, TreeInit, TreeStep, TreeImplied, TypeCorrect, PTL DEF Spec

(***************************************************************************)
(* As long as no done overlapped a spawn or another done, every listing    *)
(* shows the parent of every context it shows: the race of the two is the  *)
(* only way an orphan comes to be listed.                                  *)
(***************************************************************************)
THEOREM ParentsListedUntilRaced == Spec => [](~raced => ParentsListed)
<1>1. RootInv /\ TreeInv => (~raced => ParentsListed)
  BY NamesAssumption DEF RootInv, RootStays, TreeInv, Linked, ParentsListed, Live
<1> QED
  BY <1>1, RootInit, RootStep, TreeInit, TreeStep, TypeCorrect, PTL DEF Spec

-----------------------------------------------------------------------------
(***************************************************************************)
(* The recursion of a removal stays within the interpreter's stack.        *)
(***************************************************************************)
DepthInv == \A c \in Calls : pc[c] \in Removal => Depth(c) <= MaxDepth + 1

LEMMA DepthStep == TypeOK /\ DepthInv /\ [Next]_vars => DepthInv'
<1> SUFFICES ASSUME TypeOK, DepthInv, [Next]_vars PROVE DepthInv'
  OBVIOUS
<1>1. ASSUME NEW c \in Calls, Begin(c) \/ Continue(c), pc'[c] \in Removal
      PROVE  Depth(c)' <= MaxDepth + 1
  <2>1. MaxDepth \in Nat
    BY ContextAssumption
  <2>2. CASE DoneReturns(c)
    <3>1. Depth(c)' = Len(<<[context |-> op[c].context, children |-> {}]>>)
      BY <2>2, DoneFrames DEF Depth
    <3>2. Depth(c)' = 1
      BY <3>1
    <3> QED
      BY <2>1, <3>2
  <2>3. CASE ScanStart(c)
    BY <2>3 DEF ScanStart, Depth, DepthInv, Removal
  <2>4. CASE ScanEnd(c)
    <3>1. Depth(c)' = Depth(c) /\ pc[c] \in Removal
      BY <2>4, ScanFrames DEF ScanEnd, Depth, Removal
    <3> QED
      BY <3>1 DEF DepthInv
  <2>5. CASE Descend(c)
    <3>1. Depth(c)' = Depth(c) + 1 /\ Depth(c) < MaxDepth /\ pc[c] \in Removal
      BY <2>5, DescendFrames DEF Descend, Depth, Removal
    <3> QED
      BY <2>1, <3>1, TopFrame
  <2>6. CASE Pop(c)
    <3>1. pc[c] \in Removal /\ Depth(c) \in Nat /\ Depth(c) >= 1 /\ Depth(c) <= MaxDepth + 1
      BY <2>6, TopFrame DEF Pop, Removal, DepthInv
    <3>2. Depth(c) > 1
      BY <1>1, <2>6, <3>1, Cleared DEF Pop, Removal
    <3>3. Depth(c)' = Depth(c) - 1
      BY <2>6, <3>2, PopFrames DEF Depth
    <3> QED
      BY <2>1, <3>1, <3>3
  <2>7. CASE \/ Begin(c) \/ Accept(c) \/ SpawnReturns(c) \/ ListStart(c) \/ ListEnd(c)
    BY <1>1, <2>7 DEF Begin, Accept, SpawnReturns, ListStart, ListEnd, Goto, TypeOK, Removal
  <2>8. CASE \/ Refuse(c) \/ MethodFails(c) \/ CallReturns(c) \/ Install(c) \/ PopMissing(c)
             \/ ValidationEscapes(c) \/ IterationFails(c) \/ TooDeep(c)
    <3>1. EndOp(c, "failed") \/ EndOp(c, "succeeded") \/ Escape(c)
      BY <2>8 DEF Refuse, MethodFails, CallReturns, Install, PopMissing,
                  ValidationEscapes, IterationFails, TooDeep
    <3> QED
      BY <1>1, <3>1, Cleared DEF Removal
  <2> QED
    BY <1>1, <2>2, <2>3, <2>4, <2>5, <2>6, <2>7, <2>8 DEF Continue, Operate, Remove, Answer
<1>2. ASSUME NEW c \in Calls, Begin(c) \/ Continue(c), NEW d \in Calls \ {c}, pc'[d] \in Removal
      PROVE  Depth(d)' <= MaxDepth + 1
  BY <1>2, Others DEF DepthInv, Depth
<1>3. CASE UNCHANGED vars
  BY <1>3 DEF vars, DepthInv, Depth
<1> QED
  BY <1>1, <1>2, <1>3 DEF Next, Finished, DepthInv

(***************************************************************************)
(* A step that is not inside a removal leaves less of the batch.           *)
(***************************************************************************)
LEMMA BatchNearer ==
  ASSUME TypeOK, NEW c \in Calls, Begin(c) \/ Continue(c),
         ~(pc[c] \in Removal /\ pc'[c] \in Removal)
  PROVE  BatchLeft(c)' < BatchLeft(c)
<1> USE DEF BatchLeft, Removal, Goto
<1>0. left[c] \in Nat /\ left \in [Calls -> Nat]
  BY DEF TypeOK
<1>1. CASE Begin(c)
  <2>1. pc[c] = "idle" /\ pc'[c] = "ready" /\ left' = left
    BY <1>1 DEF Begin, TypeOK
  <2> QED
    BY <1>0, <2>1
<1>2. CASE Refuse(c)
  <2>1. pc[c] = "ready" /\ pc'[c] = "ready" /\ left'[c] = left[c] - 1
    BY <1>2 DEF Refuse, EndOp, TypeOK
  <2> QED
    BY <1>0, <2>1
<1>3. CASE Accept(c)
  <2>1. pc[c] = "ready" /\ pc'[c] = "checked" /\ left'[c] = left[c] - 1
    BY <1>3 DEF Accept, TypeOK
  <2> QED
    BY <1>0, <2>1
<1>4. CASE SpawnReturns(c) \/ DoneReturns(c)
  <2>1. pc[c] = "checked" /\ pc'[c] \in {"opened", "scan"} /\ left' = left
    BY <1>4 DEF SpawnReturns, DoneReturns, TypeOK
  <2> QED
    BY <1>0, <2>1
<1>5. CASE MethodFails(c) \/ CallReturns(c) \/ Install(c) \/ PopMissing(c) \/ Pop(c)
  <2>1. /\ pc[c] \in {"checked", "opened", "remove"} /\ left' = left
        /\ pc'[c] = "ready"
    BY <1>5 DEF MethodFails, CallReturns, Install, PopMissing, Pop, EndOp, TypeOK
  <2> QED
    BY <1>0, <2>1
<1>6. CASE ValidationEscapes(c) \/ IterationFails(c) \/ TooDeep(c)
  <2>1. pc[c] \in {"checked", "scanning", "listing", "remove"} /\ pc'[c] = "raised"
    BY <1>6 DEF ValidationEscapes, IterationFails, TooDeep, Escape, TypeOK
  <2> QED
    BY <1>0, <2>1
<1>7. CASE ListStart(c) \/ ListEnd(c)
  <2>1. \/ pc[c] = "ready" /\ pc'[c] = "listing"
        \/ pc[c] = "listing" /\ pc'[c] = "returned"
    BY <1>7 DEF ListStart, ListEnd, TypeOK
  <2> QED
    BY <1>0, <2>1
<1>8. ~(ScanStart(c) \/ ScanEnd(c) \/ Descend(c))
  BY DEF ScanStart, ScanEnd, Descend, TypeOK
<1> QED
  BY <1>1, <1>2, <1>3, <1>4, <1>5, <1>6, <1>7, <1>8 DEF Continue, Operate, Remove, Answer

(***************************************************************************)
(* A step inside a removal leaves less to its innermost frame, and to the  *)
(* outer ones what they had.                                               *)
(***************************************************************************)
LEMMA FrameNearer ==
  ASSUME TypeOK, NEW c \in Calls, Continue(c), pc[c] \in Removal, pc'[c] \in Removal,
         NEW d \in Nat, Depth(c) = d
  PROVE  /\ BatchLeft(c)' = BatchLeft(c)
         /\ FrameLeft(c, d)' < FrameLeft(c, d)
         /\ \A j \in 1..d - 1 : FrameLeft(c, j)' = FrameLeft(c, j)
<1> DEFINE size == Cardinality(Ids)
<1>1. /\ d \in Nat /\ d >= 1 /\ Top(c) = frames[c][d] /\ Top(c).children \in SUBSET Ids
      /\ d = Len(frames[c])
  BY TopFrame DEF Depth, Frame
<1>2. size \in Nat
  BY ContextAssumption, FS_CardinalityType
<1>3. \A S \in SUBSET Ids : IsFiniteSet(S) /\ Cardinality(S) \in 0..size
  BY ContextAssumption, FS_Subset, FS_CardinalityType
<1>4. FrameLeft(c, d) = CASE pc[c] = "scan" -> size + 3
                          [] pc[c] = "scanning" -> size + 2
                          [] pc[c] = "remove" -> Cardinality(Top(c).children) + 1
  BY <1>1 DEF FrameLeft, Removal
<1>5. \A j \in 1..d - 1 : FrameLeft(c, j) = Cardinality(frames[c][j].children) + 1
  BY <1>1 DEF FrameLeft
<1>6. ScanStart(c) \/ ScanEnd(c) \/ Descend(c) \/ (Pop(c) /\ d > 1)
  <2>1. CASE Pop(c) /\ ~(d > 1)
    BY <2>1, Cleared DEF Pop, Removal
  <2>2. CASE Refuse(c) \/ Accept(c) \/ MethodFails(c) \/ CallReturns(c) \/ SpawnReturns(c)
             \/ Install(c) \/ DoneReturns(c) \/ ListStart(c) \/ ListEnd(c)
    BY <2>2 DEF Refuse, Accept, MethodFails, CallReturns, SpawnReturns, Install, DoneReturns,
                ListStart, ListEnd, Removal
  <2>3. CASE ValidationEscapes(c) \/ IterationFails(c) \/ TooDeep(c) \/ PopMissing(c)
    <3>1. EndOp(c, "failed") \/ Escape(c)
      BY <2>3 DEF ValidationEscapes, IterationFails, TooDeep, PopMissing
    <3> QED
      BY <3>1, Cleared DEF Removal
  <2> QED
    BY <2>1, <2>2, <2>3 DEF Continue, Operate, Remove, Answer
<1>7. BatchLeft(c)' = BatchLeft(c)
  <2>1. left' = left
    BY <1>6 DEF ScanStart, ScanEnd, Descend, Pop
  <2> QED
    BY <2>1 DEF BatchLeft, Removal
<1> HIDE DEF size
<1>8. CASE ScanStart(c)
  <2>1. pc[c] = "scan" /\ pc'[c] = "scanning" /\ frames' = frames
    BY <1>8 DEF ScanStart, Goto, TypeOK
  <2>2. FrameLeft(c, d)' = size + 2
    BY <1>1, <2>1 DEF FrameLeft, Depth, Removal, size
  <2>3. \A j \in 1..d - 1 : FrameLeft(c, j)' = FrameLeft(c, j)
    BY <1>1, <2>1 DEF FrameLeft, Depth, Removal
  <2> QED
    BY <1>2, <1>4, <1>7, <2>1, <2>2, <2>3
<1>9. CASE ScanEnd(c)
  <2>1. pc[c] = "scanning" /\ pc'[c] = "remove"
    BY <1>9 DEF ScanEnd, Goto, TypeOK
  <2>2. /\ Depth(c)' = d /\ \A j \in 1..d - 1 : frames'[c][j] = frames[c][j]
        /\ frames'[c][d].children = Children(Top(c).context)
    <3>1. /\ Len(frames'[c]) = d
          /\ \A j \in 1..d : frames'[c][j] = IF j = d
                                            THEN [context |-> Top(c).context,
                                                  children |-> Children(Top(c).context)]
                                            ELSE frames[c][j]
      BY <1>9, ScanFrames
    <3> HIDE DEF Top
    <3>2. frames'[c][d] = [context |-> Top(c).context, children |-> Children(Top(c).context)]
      BY <1>1, <3>1
    <3>3. \A j \in 1..d - 1 : j \in 1..d /\ j # d
      BY <1>1
    <3> QED
      BY <3>1, <3>2, <3>3 DEF Depth
  <2>3. FrameLeft(c, d)' = Cardinality(Children(Top(c).context)) + 1
    BY <1>1, <2>1, <2>2 DEF FrameLeft, Removal
  <2>4. \A j \in 1..d - 1 : FrameLeft(c, j)' = FrameLeft(c, j)
    BY <1>1, <1>5, <2>1, <2>2 DEF FrameLeft, Removal
  <2>5. Children(Top(c).context) \in SUBSET Ids
    BY DEF Children, Live
  <2> QED
    BY <1>2, <1>3, <1>4, <1>7, <2>1, <2>3, <2>4, <2>5
<1>10. CASE Descend(c)
  <2>1. pc[c] = "remove" /\ pc'[c] = "scan"
    BY <1>10 DEF Descend, Goto, TypeOK
  <2>2. PICK child \in Top(c).children :
            /\ Len(frames'[c]) = d + 1 /\ \A j \in 1..d - 1 : frames'[c][j] = frames[c][j]
            /\ frames'[c][d] = [context |-> Top(c).context, children |-> Top(c).children \ {child}]
    BY <1>10, DescendFrames
  <2>3. FrameLeft(c, d)' = Cardinality(Top(c).children \ {child}) + 1
    <3>1. frames'[c][d].children = Top(c).children \ {child}
      BY <2>2
    <3>2. FrameLeft(c, d)' = Cardinality(frames'[c][d].children) + 1
      BY <1>1, <2>1, <2>2 DEF FrameLeft, Removal, Depth
    <3> QED
      BY <3>1, <3>2
  <2>4. Cardinality(Top(c).children \ {child}) = Cardinality(Top(c).children) - 1
    BY <1>1, <1>3, FS_RemoveElement
  <2>5. \A j \in 1..d - 1 : FrameLeft(c, j)' = FrameLeft(c, j)
    BY <1>1, <1>5, <2>1, <2>2 DEF FrameLeft, Removal, Depth
  <2>6. Cardinality(Top(c).children) \in Nat
    BY <1>1, <1>3
  <2> QED
    BY <1>4, <1>7, <2>1, <2>3, <2>4, <2>5, <2>6
<1>11. CASE Pop(c) /\ d > 1
  <2>1. pc[c] = "remove" /\ pc' = pc
    BY <1>1, <1>11 DEF Pop
  <2>2. Depth(c)' = d - 1 /\ \A j \in 1..d - 1 : frames'[c][j] = frames[c][j]
    BY <1>11, PopFrames DEF Depth
  <2>3. FrameLeft(c, d)' = 0
    BY <1>1, <2>2 DEF FrameLeft
  <2>4. \A j \in 1..d - 1 : FrameLeft(c, j)' = FrameLeft(c, j)
    BY <1>1, <1>5, <2>1, <2>2 DEF FrameLeft, Removal
  <2>5. Cardinality(Top(c).children) \in Nat
    BY <1>1, <1>3
  <2> QED
    BY <1>4, <1>7, <2>1, <2>3, <2>4, <2>5
<1> QED
  BY <1>6, <1>8, <1>9, <1>10, <1>11

(***************************************************************************)
(* Every step of racing update_draft calls, however many, brings one call  *)
(* nearer to its end and no other further from it.                         *)
(***************************************************************************)
THEOREM UpdatesNeverReturn == Spec => UpdatesAdvance
<1> DEFINE Advance == \E c \in Calls : Nearer(c) /\ \A d \in Calls \ {c} :
                          \A i \in 0..MaxDepth + 1 : Todo(d, i)' = Todo(d, i)
<1>1. TypeOK /\ DepthInv /\ [Next]_vars => [Advance]_vars
  <2> SUFFICES ASSUME TypeOK, DepthInv, NEW c \in Calls, Begin(c) \/ Continue(c) PROVE Advance
    BY DEF Next, Finished
  <2>1. \A d \in Calls \ {c} : pc'[d] = pc[d] /\ left'[d] = left[d] /\ frames'[d] = frames[d]
    BY Others
  <2>2. \A d \in Calls \ {c} : \A i \in 0..MaxDepth + 1 : Todo(d, i)' = Todo(d, i)
    BY <2>1 DEF Todo, BatchLeft, FrameLeft, Depth
  <2>3. MaxDepth \in Nat
    BY ContextAssumption
  <2>4. Nearer(c)
    <3>1. CASE ~(pc[c] \in Removal /\ pc'[c] \in Removal)
      <4>1. Todo(c, 0)' < Todo(c, 0)
        BY <3>1, BatchNearer DEF Todo
      <4> QED
        BY <2>3, <4>1 DEF Nearer
    <3>2. CASE pc[c] \in Removal /\ pc'[c] \in Removal
      <4>1. Continue(c)
        BY <3>2 DEF Begin, Removal
      <4>2. Depth(c) \in 1..MaxDepth + 1
        BY <2>3, <3>2, TopFrame DEF DepthInv
      <4>3. PICK d \in 1..MaxDepth + 1 : Depth(c) = d
        BY <4>2
      <4>4. /\ BatchLeft(c)' = BatchLeft(c)
            /\ FrameLeft(c, d)' < FrameLeft(c, d)
            /\ \A j \in 1..d - 1 : FrameLeft(c, j)' = FrameLeft(c, j)
        BY <2>3, <3>2, <4>1, <4>3, FrameNearer
      <4>5. Todo(c, d)' < Todo(c, d) /\ \A j \in 0..d - 1 : Todo(c, j)' = Todo(c, j)
        BY <4>3, <4>4 DEF Todo
      <4> QED
        BY <2>3, <4>5 DEF Nearer
    <3> QED
      BY <3>1, <3>2
  <2> QED
    BY <2>2, <2>4
<1>2. Init => DepthInv
  BY DEF Init, DepthInv, Removal
<1> QED
  BY <1>1, <1>2, DepthStep, TypeCorrect, PTL DEF Spec, UpdatesAdvance
=============================================================================

