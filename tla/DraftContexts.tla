---------------------------- MODULE DraftContexts ----------------------------
(***************************************************************************)
(* The contexts of one draft (DraftSession.contexts, domain/drafts.py) and *)
(* the update_draft calls that work on it (DraftRuntimeService._spawn,     *)
(* _call and _done, services/drafts.py), step by step.                     *)
(*                                                                         *)
(* Calls hold a reference to the same DraftSession object, without a lock; *)
(* their steps interleave between two dictionary accesses.  An exception   *)
(* that is not a KsefMcpError leaves the call and rolls the store back,    *)
(* which files a copy of the draft in place of this object: later calls    *)
(* work on the copy, calls already running keep this object.               *)
(*                                                                         *)
(* Builders belong to the ksef2 SDK.  All that is assumed of a method of   *)
(* theirs is that it may return a new sub-builder, return something else   *)
(* or raise, and of done() that a builder it returned from is closed.      *)
(***************************************************************************)
EXTENDS ContextNames, Sequences, FiniteSets, Naturals

CONSTANTS
    Builders, RootBuilder,      \* builder objects, and the draft's own
    Calls,                      \* update_draft calls on the draft
    MaxOps,                     \* operations in each call's batch, at most
    MaxDepth,                   \* nested calls the interpreter allows
    Serial                      \* TRUE when one call runs at a time

ASSUME ContextAssumption ==
    /\ {None, Absent} \cap Builders = {}
    /\ RootBuilder \in Builders
    /\ Absent \notin [parent : Ids \cup {None}, builder : Builders]
    /\ IsFiniteSet(Ids)
    /\ MaxOps \in [Calls -> Nat] /\ MaxDepth \in Nat
    /\ Serial \in BOOLEAN

Ops == [kind : {"spawn"}, context : Ids, new : Ids]
           \cup [kind : {"call", "done"}, context : Ids, new : {None}]
NoOp == [kind |-> "none", context |-> None, new |-> None]

Context == [parent : Ids \cup {None}, builder : Builders]
Frame == [context : Ids, children : SUBSET Ids]

InOp    == {"checked", "opened", "scan", "scanning", "remove"}
Active  == InOp \cup {"ready", "listing"}
Ended   == {"returned", "raised"}
Removal == {"scan", "scanning", "remove"}

VARIABLES
    contexts,   \* DraftSession.contexts
    origin,     \* the builder whose method returned each builder in use
    closed,     \* builders whose done() returned
    detached,   \* a rollback filed a copy in place of this object
    pc,         \* where each call is
    left,       \* operations left in each call's batch
    op,         \* each call's current operation
    builder,    \* the builder its current or last operation looked up
    result,     \* the sub-builder the current spawn opened
    frames,     \* the active calls of remove_context_tree, innermost last
    walked,     \* the context ids when the current iteration began
    status,     \* the result of the last operation
    before,     \* history: the contexts when the removal under way began
    raced       \* history: a done overlapped a spawn or another done

vars == <<contexts, origin, closed, detached, pc, left, op, builder, result,
          frames, walked, status, before, raced>>
draft == <<contexts, origin, closed, detached>>

-----------------------------------------------------------------------------
Live(tree) == {x \in Ids : tree[x] # Absent}
Children(x) == {y \in Live(contexts) : contexts[y].parent = x}
Unused == Builders \ ({RootBuilder} \cup {b \in Builders : origin[b] # None})
Fresh == CHOOSE b \in Unused : TRUE    \* new objects are alike

ActiveCalls == {c \in Calls : pc[c] \in Active}
Doing(kinds) == {c \in Calls : pc[c] \in InOp /\ op[c].kind \in kinds}

NoContexts == [x \in Ids |-> Absent]

Init ==
    /\ contexts = [x \in Ids |-> IF x = Root
                                 THEN [parent |-> None, builder |-> RootBuilder]
                                 ELSE Absent]
    /\ origin = [b \in Builders |-> None]
    /\ closed = {} /\ detached = FALSE
    /\ pc = [c \in Calls |-> "idle"]
    /\ left = MaxOps
    /\ op = [c \in Calls |-> NoOp]
    /\ builder = [c \in Calls |-> None]
    /\ result = [c \in Calls |-> None]
    /\ frames = [c \in Calls |-> <<>>]
    /\ walked = [c \in Calls |-> {}]
    /\ status = [c \in Calls |-> "none"]
    /\ before = NoContexts /\ raced = FALSE

Goto(c, where) == pc' = [pc EXCEPT ![c] = where]

\* The call finds the draft in the store (update_draft, before its loop).
Begin(c) ==
    /\ pc[c] = "idle" /\ ~detached
    /\ Serial => ActiveCalls = {}
    /\ Goto(c, "ready")
    /\ UNCHANGED <<draft, left, op, builder, result, frames, walked, status, before, raced>>

\* An operation ends and its result is appended; its local variables go.
EndOp(c, how) ==
    /\ status' = [status EXCEPT ![c] = how]
    /\ Goto(c, "ready")
    /\ op' = [op EXCEPT ![c] = NoOp]
    /\ result' = [result EXCEPT ![c] = None]
    /\ frames' = [frames EXCEPT ![c] = <<>>]
    /\ before' = NoContexts

\* An exception that no handler of update_draft catches.
Escape(c) ==
    /\ Goto(c, "raised")
    /\ detached' = TRUE
    /\ result' = [result EXCEPT ![c] = None]
    /\ frames' = [frames EXCEPT ![c] = <<>>]
    /\ walked' = [walked EXCEPT ![c] = {}]
    /\ left' = [left EXCEPT ![c] = 0]
    /\ op' = [op EXCEPT ![c] = NoOp]
    /\ builder' = [builder EXCEPT ![c] = None]
    /\ status' = [status EXCEPT ![c] = "none"]
    /\ before' = NoContexts
    /\ UNCHANGED <<contexts, origin, closed, raced>>

-----------------------------------------------------------------------------
\* (Mutants: no check for an existing context, none for the root.)
RefusedUnlessNamed(o) ==
    \/ o.context \notin Live(contexts)
    \/ /\ o.kind = "done" /\ o.context \in Live(contexts)
       /\ contexts[o.context].parent = None
RefusedUnlessRoot(o) ==
    \/ o.context \notin Live(contexts)
    \/ o.kind = "spawn" /\ o.new \in Live(contexts)

\* What _spawn, _call and _done check before they call the builder.
Refused(o) ==
    \/ o.context \notin Live(contexts)
    \/ o.kind = "spawn" /\ o.new \in Live(contexts)
    \/ /\ o.kind = "done" /\ o.context \in Live(contexts)
       /\ contexts[o.context].parent = None

Refuse(c) ==
    /\ pc[c] = "ready" /\ left[c] > 0
    /\ \E o \in Ops : Refused(o)
    /\ left' = [left EXCEPT ![c] = @ - 1]
    /\ builder' = [builder EXCEPT ![c] = None]
    /\ EndOp(c, "failed")
    /\ UNCHANGED <<draft, walked, raced>>

Accept(c) ==
    /\ pc[c] = "ready" /\ left[c] > 0
    /\ \E o \in Ops :
           /\ ~Refused(o)
           /\ op' = [op EXCEPT ![c] = o]
           /\ builder' = [builder EXCEPT ![c] = contexts[o.context].builder]
           /\ raced' = \/ raced
                       \/ o.kind = "done" /\ Doing({"spawn", "done"}) # {}
                       \/ o.kind = "spawn" /\ Doing({"done"}) # {}
    /\ left' = [left EXCEPT ![c] = @ - 1]
    /\ Goto(c, "checked")
    /\ UNCHANGED <<draft, result, frames, walked, status, before>>

\* The method is missing, hidden or of another kind, its arguments are wrong,
\* it raises, or it returns no sub-builder (a sub-builder, for a call).
MethodFails(c) ==
    /\ pc[c] = "checked"
    /\ EndOp(c, "failed")
    /\ UNCHANGED <<draft, left, builder, walked, raced>>

\* Building the payload model of an unusual method raises something else.
ValidationEscapes(c) ==
    /\ pc[c] = "checked" /\ op[c].kind \in {"spawn", "call"}
    /\ Escape(c)

CallReturns(c) ==
    /\ pc[c] = "checked" /\ op[c].kind = "call"
    /\ EndOp(c, "succeeded")
    /\ UNCHANGED <<draft, left, builder, walked, raced>>

\* (Mutant: what the method returned is filed without _is_builder_like.)
SpawnReturnsAny(c) ==
    /\ pc[c] = "checked" /\ op[c].kind = "spawn"
    /\ result' = [result EXCEPT ![c] = None]
    /\ Goto(c, "opened")
    /\ UNCHANGED <<draft, left, op, builder, frames, walked, status, before, raced>>

SpawnReturns(c) ==
    /\ pc[c] = "checked" /\ op[c].kind = "spawn"
    /\ Unused # {}
    /\ origin' = [origin EXCEPT ![Fresh] = builder[c]]
    /\ result' = [result EXCEPT ![c] = Fresh]
    /\ Goto(c, "opened")
    /\ UNCHANGED <<contexts, closed, detached, left, op, builder, frames, walked,
                   status, before, raced>>

Install(c) ==
    /\ pc[c] = "opened"
    /\ contexts' = [contexts EXCEPT ![op[c].new] =
                       [parent |-> op[c].context, builder |-> result[c]]]
    /\ EndOp(c, "succeeded")
    /\ UNCHANGED <<origin, closed, detached, left, builder, walked, raced>>

\* done() returned; remove_context_tree is entered with the context.
DoneReturns(c) ==
    /\ pc[c] = "checked" /\ op[c].kind = "done"
    /\ closed' = closed \cup {builder[c]}
    /\ before' = contexts
    /\ frames' = [frames EXCEPT ![c] = <<[context |-> op[c].context, children |-> {}]>>]
    /\ Goto(c, "scan")
    /\ UNCHANGED <<contexts, origin, detached, left, op, builder, result, walked,
                   status, raced>>

-----------------------------------------------------------------------------
\* remove_context_tree: collect the children, remove each, then the context.
Depth(c) == Len(frames[c])
Top(c)   == frames[c][Depth(c)]

\* An iteration over contexts.items() or .values() begins.
ScanStart(c) ==
    /\ pc[c] = "scan"
    /\ walked' = [walked EXCEPT ![c] = Live(contexts)]
    /\ Goto(c, "scanning")
    /\ UNCHANGED <<draft, left, op, builder, result, frames, status, before, raced>>

SizeKept(c) == Cardinality(Live(contexts)) = Cardinality(walked[c])

\* (Mutants: the children are forgotten; the context goes before them.)
ScanEndNoChildren(c) ==
    /\ pc[c] = "scanning" /\ SizeKept(c)
    /\ walked' = [walked EXCEPT ![c] = {}]
    /\ Goto(c, "remove")
    /\ UNCHANGED <<draft, left, op, builder, result, frames, status, before, raced>>
ScanEndPopsFirst(c) ==
    /\ pc[c] = "scanning" /\ SizeKept(c)
    /\ frames' = [frames EXCEPT ![c][Depth(c)].children = Children(Top(c).context)]
    /\ contexts' = [contexts EXCEPT ![Top(c).context] = Absent]
    /\ walked' = [walked EXCEPT ![c] = {}]
    /\ Goto(c, "remove")
    /\ UNCHANGED <<origin, closed, detached, left, op, builder, result, status,
                   before, raced>>

ScanEnd(c) ==
    /\ pc[c] = "scanning" /\ SizeKept(c)
    /\ frames' = [frames EXCEPT ![c][Depth(c)].children = Children(Top(c).context)]
    /\ walked' = [walked EXCEPT ![c] = {}]
    /\ Goto(c, "remove")
    /\ UNCHANGED <<draft, left, op, builder, result, status, before, raced>>

\* RuntimeError "dictionary changed size during iteration" is no KsefMcpError.
IterationFails(c) ==
    /\ pc[c] \in {"scanning", "listing"} /\ ~SizeKept(c)
    /\ Escape(c)

\* (Mutant: a child is removed twice.)
DescendTwice(c) ==
    /\ pc[c] = "remove" /\ Depth(c) < MaxDepth
    /\ \E child \in Top(c).children :
           frames' = [frames EXCEPT ![c] = Append(@, [context |-> child, children |-> {}])]
    /\ Goto(c, "scan")
    /\ UNCHANGED <<draft, left, op, builder, result, walked, status, before, raced>>

Descend(c) ==
    /\ pc[c] = "remove" /\ Depth(c) < MaxDepth
    /\ \E child \in Top(c).children :
           frames' = [frames EXCEPT ![c] = Append(
               [@ EXCEPT ![Depth(c)].children = Top(c).children \ {child}],
               [context |-> child, children |-> {}])]
    /\ Goto(c, "scan")
    /\ UNCHANGED <<draft, left, op, builder, result, walked, status, before, raced>>

\* RecursionError is no KsefMcpError either.
TooDeep(c) ==
    /\ pc[c] = "remove" /\ Depth(c) >= MaxDepth /\ Top(c).children # {}
    /\ Escape(c)

Pop(c) ==
    /\ pc[c] = "remove" /\ Top(c).children = {}
    /\ contexts[Top(c).context] # Absent
    /\ contexts' = [contexts EXCEPT ![Top(c).context] = Absent]
    /\ \/ /\ Depth(c) > 1
          /\ frames' = [frames EXCEPT ![c] = SubSeq(@, 1, Depth(c) - 1)]
          /\ UNCHANGED <<pc, op, result, status, before>>
       \/ /\ Depth(c) = 1
          /\ EndOp(c, "succeeded")
    /\ UNCHANGED <<origin, closed, detached, left, builder, walked, raced>>

\* (Mutant: on a KeyError the context is looked for again.)
PopRetries(c) ==
    /\ pc[c] = "remove" /\ Top(c).children = {}
    /\ contexts[Top(c).context] = Absent
    /\ Goto(c, "scan")
    /\ UNCHANGED <<draft, left, op, builder, result, frames, walked, status, before, raced>>

\* KeyError becomes ResourceNotFoundError and unwinds every frame.
PopMissing(c) ==
    /\ pc[c] = "remove" /\ Top(c).children = {}
    /\ contexts[Top(c).context] = Absent
    /\ EndOp(c, "failed")
    /\ UNCHANGED <<draft, left, builder, walked, raced>>

-----------------------------------------------------------------------------
\* _serialize_contexts, then the result of the call.  A call with no operation
\* is get_contexts.
ListStart(c) ==
    /\ pc[c] = "ready"
    /\ walked' = [walked EXCEPT ![c] = Live(contexts)]
    /\ builder' = [builder EXCEPT ![c] = None]
    /\ status' = [status EXCEPT ![c] = "none"]
    /\ left' = [left EXCEPT ![c] = 0]
    /\ Goto(c, "listing")
    /\ UNCHANGED <<draft, op, result, frames, before, raced>>

ListEnd(c) ==
    /\ pc[c] = "listing" /\ SizeKept(c)
    /\ walked' = [walked EXCEPT ![c] = {}]
    /\ Goto(c, "returned")
    /\ UNCHANGED <<draft, left, op, builder, result, frames, status, before, raced>>

Operate(c) == \/ Refuse(c) \/ Accept(c) \/ MethodFails(c) \/ ValidationEscapes(c)
              \/ CallReturns(c) \/ SpawnReturns(c) \/ Install(c) \/ DoneReturns(c)
Remove(c)  == \/ ScanStart(c) \/ ScanEnd(c) \/ IterationFails(c) \/ Descend(c)
              \/ TooDeep(c) \/ Pop(c) \/ PopMissing(c)
Answer(c)  == ListStart(c) \/ ListEnd(c)
Continue(c) == Operate(c) \/ Remove(c) \/ Answer(c)

\* No call is under way, and none is left to make or can find this object.
Finished == /\ ActiveCalls = {} /\ (detached \/ \A c \in Calls : pc[c] # "idle")
            /\ UNCHANGED vars

Next == (\E c \in Calls : Begin(c) \/ Continue(c)) \/ Finished

Spec == Init /\ [][Next]_vars

\* A worker thread that runs a call keeps running it.
FairSpec == Spec /\ \A c \in Calls : WF_vars(Continue(c))

-----------------------------------------------------------------------------
(***************************************************************************)
(* Every variable has the shape its comment gives it; a call past its      *)
(* checks has a builder, one past a spawn its sub-builder, one removing a  *)
(* context tree its frames.                                                *)
(***************************************************************************)
TypeOK ==
    /\ contexts \in [Ids -> {Absent} \cup Context]
    /\ origin \in [Builders -> Builders \cup {None}]
    /\ closed \in SUBSET Builders /\ detached \in BOOLEAN
    /\ pc \in [Calls -> {"idle"} \cup Active \cup Ended]
    /\ left \in [Calls -> Nat]
    /\ op \in [Calls -> Ops \cup {NoOp}]
    /\ builder \in [Calls -> Builders \cup {None}]
    /\ result \in [Calls -> Builders \cup {None}]
    /\ frames \in [Calls -> Seq(Frame)]
    /\ walked \in [Calls -> SUBSET Ids]
    /\ status \in [Calls -> {"none", "succeeded", "failed"}]
    /\ before \in [Ids -> {Absent} \cup Context] /\ raced \in BOOLEAN
    /\ \A c \in Calls :
           /\ pc[c] \in InOp => op[c] \in Ops /\ builder[c] \in Builders
           /\ pc[c] = "opened" => op[c].kind = "spawn" /\ result[c] \in Builders
           /\ pc[c] \in Removal => op[c].kind = "done" /\ frames[c] # <<>>

Parents(tree) == [x \in Ids |-> IF tree[x] = Absent THEN Absent ELSE tree[x].parent]
Removing == \E c \in Calls : pc[c] \in Removal

Now == INSTANCE ContextTree WITH parent <- Parents(contexts)

(***************************************************************************)
(* The root context is never removed and never gets a parent, whatever     *)
(* update_draft calls race on the draft.                                   *)
(***************************************************************************)
RootStays == contexts[Root] # Absent /\ contexts[Root].parent = None

(***************************************************************************)
(* As long as no done overlapped a spawn or another done, overlapping      *)
(* update_draft calls leave one tree under the root, at every step: spawns *)
(* and method calls may run side by side.                                  *)
(***************************************************************************)
TreeUnlessRaced == ~raced => Now!Rooted /\ Now!Acyclic

(***************************************************************************)
(* With one call at a time, every context between two operations works on  *)
(* a builder that is still open and that its parent's builder opened, and  *)
(* no operation is about to use a closed builder.                          *)
(***************************************************************************)
LiveUnderOpen ==
    /\ ~Removing => \A x \in Live(contexts) :
           /\ contexts[x].builder \notin closed
           /\ x # Root => /\ contexts[x].parent \in Live(contexts)
                          /\ origin[contexts[x].builder] =
                                 contexts[contexts[x].parent].builder
    /\ \A c \in Calls : pc[c] = "checked" => builder[c] \notin closed

(***************************************************************************)
(* With one call at a time, an operation reported as failed has closed     *)
(* nothing: the builder it looked up is still open.                        *)
(***************************************************************************)
FailedLeavesOpen ==
    \A c \in Calls : pc[c] = "ready" /\ status[c] = "failed" => builder[c] \notin closed

(***************************************************************************)
(* Every update_draft call ends: the recursion over a context tree, even   *)
(* one that other calls change, comes to an end.                           *)
(***************************************************************************)
UpdatesEnd == \A c \in Calls : pc[c] \in Active ~> pc[c] \in Ended

\* What a call has left to do: its operations, and in a removal what each frame,
\* outermost first, has left.  A frame walks over all contexts, then has children
\* to remove, then its own context.
BatchLeft(c) ==
    CASE pc[c] = "idle" -> 4 * left[c] + 4
      [] pc[c] = "checked" -> 4 * left[c] + 6
      [] pc[c] = "opened" -> 4 * left[c] + 5
      [] pc[c] \in Removal -> 4 * left[c] + 4
      [] pc[c] = "ready" -> 4 * left[c] + 3
      [] pc[c] = "listing" -> 1
      [] OTHER -> 0

FrameLeft(c, i) ==
    IF pc[c] \notin Removal \/ i > Depth(c) THEN 0
    ELSE IF i < Depth(c) \/ pc[c] = "remove" THEN Cardinality(frames[c][i].children) + 1
    ELSE Cardinality(Ids) + (IF pc[c] = "scan" THEN 3 ELSE 2)

Todo(c, i) == IF i = 0 THEN BatchLeft(c) ELSE FrameLeft(c, i)

Nearer(c) == \E i \in 0..MaxDepth + 1 :
    /\ Todo(c, i)' < Todo(c, i)
    /\ \A j \in 0..i - 1 : Todo(c, j)' = Todo(c, j)

(***************************************************************************)
(* Every step brings one update_draft call nearer to its end and no other  *)
(* call further from it, whatever contexts other calls add or remove under *)
(* a removal: an outer frame of remove_context_tree never gets work back.  *)
(* What is left shrinks in the lexicographic order of numbers of MaxDepth  *)
(* and two digits, none negative: it cannot shrink for ever.               *)
(***************************************************************************)
UpdatesAdvance ==
    [][\E c \in Calls : Nearer(c) /\ \A d \in Calls \ {c} :
                                       \A i \in 0..MaxDepth + 1 : Todo(d, i)' = Todo(d, i)]_vars

(***************************************************************************)
(* A listing made while no other call is under way shows, next to every    *)
(* context that names a parent, that parent (get_contexts lists "the       *)
(* active builder contexts ..., including parent-child links").            *)
(***************************************************************************)
ParentsListed ==
    \A c \in Calls : pc[c] = "listing" /\ ActiveCalls = {c} =>
        \A x \in Live(contexts) : contexts[x].parent \in Live(contexts) \cup {None}

-----------------------------------------------------------------------------
\* The contexts as an atomic tree: a removal happens when its last frame ends.
Tree == INSTANCE ContextTree
        WITH parent <- Parents(IF Removing THEN before ELSE contexts)

(***************************************************************************)
(* One call at a time: spawn and done are the atomic steps of a tree.      *)
(***************************************************************************)
TreeSpec == Tree!Spec
=============================================================================
