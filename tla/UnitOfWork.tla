----------------------------- MODULE UnitOfWork -----------------------------
(***************************************************************************)
(* The unit of work of ksef2-mcp (adapters/uow.py) over the process-wide   *)
(* in-memory store, and the tool calls that run inside it (services/       *)
(* drafts.py, services/sessions.py).                                       *)
(*                                                                         *)
(* The store is two dictionaries, one of session handles and one of draft  *)
(* sessions.  A call enters the unit of work by deep-copying both, works   *)
(* on the shared objects in place, and on an exception clears and refills  *)
(* both dictionaries from its copy.  There is no lock: the steps of calls  *)
(* that run in different worker threads interleave.                        *)
(*                                                                         *)
(* A stored object is identified by its key and by the call that made it:  *)
(* the call that added it or, for the copies a rollback files, the call    *)
(* that rolled back.  Its content is the set of changes made to it.        *)
(***************************************************************************)
EXTENDS ToolCalls, Integers

CONSTANT Serial   \* TRUE when a client waits for each call to end before the next

ASSUME SerialAssumption == Serial \in BOOLEAN

Copying     == {"copySessions", "copyDrafts"}
InBody      == {"body", "found", "exit"}
RollingBack == {"clearSessions", "restoreSessions", "clearDrafts", "restoreDrafts"}
Active      == Copying \cup InBody \cup RollingBack
Ended       == {"returned", "raised", "refused"}

VARIABLES
    pc,      \* where each call is
    req,     \* what each call asks for
    store,   \* the shared dictionaries: key -> the maker of the filed object
    heap,    \* the content of each object: the changes made to it
    backup,  \* each call's private deep copy, by content
    iter,    \* the objects in the dictionary when its copying began
    held,    \* the maker of the object a call looked up
    applied, \* how many changes a call has made to it
    overlap  \* history: the calls that were under way together with each call

vars == <<pc, req, store, heap, backup, iter, held, applied, overlap>>

-----------------------------------------------------------------------------
Table(c) == IF pc[c] \in {"copySessions", "clearSessions", "restoreSessions"}
            THEN Sessions ELSE Drafts

Filed(T)   == {k \in T : store[k] # Absent}
Objects(T) == {<<k, store[k]>> : k \in Filed(T)}

\* What a reader of the store sees under every key.
Contents == [k \in Keys |-> IF store[k] = Absent THEN Absent ELSE heap[k][store[k]]]

NothingCopied == [k \in Keys |-> Absent]
Copied(c)     == {k \in Table(c) : backup[c][k] # Absent}
Uncopied(c)   == Filed(Table(c)) \ Copied(c)

ActiveCalls == {c \in Calls : pc[c] \in Active}
Named       == {req[c].key : c \in {d \in Calls : pc[d] # "idle"}}

Init ==
    /\ pc = [c \in Calls |-> "idle"]
    /\ req = [c \in Calls |-> NoRequest]
    /\ store = [k \in Keys |-> Absent]
    /\ heap = [k \in Keys |-> [c \in Calls |-> {}]]
    /\ backup = [c \in Calls |-> NothingCopied]
    /\ iter = [c \in Calls |-> {}]
    /\ held = [c \in Calls |-> Absent]
    /\ applied = [c \in Calls |-> 0]
    /\ overlap = [c \in Calls |-> {}]

-----------------------------------------------------------------------------
Goto(c, where) == pc' = [pc EXCEPT ![c] = where]

\* uuid4 gives a create a key no call has named before.  Any other call may
\* name a key nobody was given, but not one whose create has yet to file it.
MayName(r) ==
    IF r.op \in Creates
    THEN r.key \notin Named
    ELSE \A d \in ActiveCalls :
            req[d].op \in Creates /\ req[d].key = r.key => store[r.key] # Absent

Begin(c) ==
    /\ pc[c] = "idle"
    /\ Serial => ActiveCalls = {}
    /\ \E r \in Requests : MayName(r) /\ req' = [req EXCEPT ![c] = r]
    /\ Goto(c, "copySessions")
    /\ iter' = [iter EXCEPT ![c] = Objects(Sessions)]
    /\ overlap' = [d \in Calls |->
           IF d = c THEN ActiveCalls
           ELSE IF d \in ActiveCalls THEN overlap[d] \cup {c} ELSE overlap[d]]
    /\ UNCHANGED <<store, heap, backup, held, applied>>

\* __enter__: copy.deepcopy walks each dictionary with an iterator that checks,
\* before every entry, that the dictionary's size is what it was at the start.
SizeKept(c) == Cardinality(Objects(Table(c))) = Cardinality(iter[c])
AllVisited(c) == Cardinality(Copied(c)) = Cardinality(iter[c])

CopyEntry(c) ==
    /\ pc[c] \in Copying
    /\ SizeKept(c) /\ ~AllVisited(c)
    /\ \E k \in Uncopied(c) :
           backup' = [backup EXCEPT ![c][k] = heap[k][store[k]]]
    /\ UNCHANGED <<pc, req, store, heap, iter, held, applied, overlap>>

\* A rollback of another call refilled the dictionary under the iterator, which
\* then stands at a position of the new table and may miss entries.
Refilled(c) == \E o \in iter[c] : store[o[1]] \notin {o[2], Absent}

CopyEnd(c) ==
    /\ pc[c] \in Copying
    /\ SizeKept(c)
    /\ Uncopied(c) = {} \/ Refilled(c)
    /\ \/ /\ pc[c] = "copySessions"
          /\ Goto(c, "copyDrafts")
          /\ iter' = [iter EXCEPT ![c] = Objects(Drafts)]
       \/ /\ pc[c] = "copyDrafts"
          /\ Goto(c, "body")
          /\ iter' = [iter EXCEPT ![c] = {}]
    /\ UNCHANGED <<req, store, heap, backup, held, applied, overlap>>

\* (Mutant: retry with the stale size instead of failing.)
CopyRetries(c) ==
    /\ pc[c] \in Copying
    /\ ~SizeKept(c) \/ (AllVisited(c) /\ Uncopied(c) # {})
    /\ backup' = [backup EXCEPT ![c] = NothingCopied]
    /\ UNCHANGED <<pc, req, store, heap, iter, held, applied, overlap>>

\* RuntimeError "dictionary changed size (keys changed) during iteration", from
\* the dictionary or from the contexts of a draft in it that an update_draft is
\* changing: it leaves __enter__, so the with statement never reaches __exit__.
Changing(k) == \E d \in Calls : /\ pc[d] = "found" /\ req[d].op = "update_draft"
                                /\ req[d].key = k /\ held[d] = store[k]

CopyFails(c) ==
    /\ pc[c] \in Copying
    /\ \/ ~SizeKept(c)
       \/ AllVisited(c) /\ Uncopied(c) # {}
       \/ \E k \in Uncopied(c) : Changing(k)
    /\ Goto(c, "refused")
    /\ iter' = [iter EXCEPT ![c] = {}]
    /\ backup' = [backup EXCEPT ![c] = NothingCopied]
    /\ UNCHANGED <<req, store, heap, held, applied, overlap>>

-----------------------------------------------------------------------------
\* The body of the with statement.
Add(c) ==
    /\ pc[c] = "body" /\ req[c].op \in Creates
    /\ store' = [store EXCEPT ![req[c].key] = c]
    /\ heap' = [heap EXCEPT ![req[c].key][c] = {}]
    /\ Goto(c, "exit")
    /\ UNCHANGED <<req, backup, iter, held, applied, overlap>>

\* KSeF refuses to open the session; nothing was added yet.
OpenFails(c) ==
    /\ pc[c] = "body" /\ req[c].op = "open_interactive_session"
    /\ Goto(c, "clearSessions")
    /\ UNCHANGED <<req, store, heap, backup, iter, held, applied, overlap>>

\* (Mutant: get in place of get_or_raise.)
LookupUnguarded(c) ==
    /\ pc[c] = "body" /\ req[c].op \in Lookups
    /\ held' = [held EXCEPT ![c] = store[req[c].key]]
    /\ Goto(c, "found")
    /\ UNCHANGED <<req, store, heap, backup, iter, applied, overlap>>

Lookup(c) ==
    /\ pc[c] = "body" /\ req[c].op \in Lookups
    /\ store[req[c].key] # Absent
    /\ held' = [held EXCEPT ![c] = store[req[c].key]]
    /\ Goto(c, "found")
    /\ UNCHANGED <<req, store, heap, backup, iter, applied, overlap>>

\* get_state_or_raise / _get_session_or_raise: the exception rolls back.
NotFound(c) ==
    /\ pc[c] = "body" /\ req[c].op \in Lookups
    /\ store[req[c].key] = Absent
    /\ Goto(c, "clearSessions")
    /\ UNCHANGED <<req, store, heap, backup, iter, held, applied, overlap>>

\* One change of a call's batch, to the object looked up: the last one ends the body.
Change(c) ==
    /\ pc[c] = "found" /\ req[c].op \in Writes
    /\ heap' = [heap EXCEPT ![req[c].key][held[c]] = @ \cup {<<c, applied[c] + 1>>}]
    /\ applied' = [applied EXCEPT ![c] = @ + 1]
    /\ Goto(c, IF applied[c] + 1 = Size(c, req[c]) THEN "exit" ELSE "found")
    /\ UNCHANGED <<req, iter, held, overlap>>

\* (Mutant: copy.copy in place of copy.deepcopy, the backup sees the change.)
WriteAliased(c) ==
    /\ Change(c)
    /\ backup' = [backup EXCEPT ![c][req[c].key] = @ \cup {<<c, applied[c] + 1>>}]
    /\ UNCHANGED store

\* (Mutant: the object is filed again when it is written.)
WriteFiles(c) ==
    /\ Change(c)
    /\ store' = [store EXCEPT ![req[c].key] = held[c]]
    /\ UNCHANGED backup

\* The change goes to the object looked up, filed or not any more.
Write(c) == Change(c) /\ UNCHANGED <<store, backup>>

Observe(c) ==
    /\ \/ pc[c] = "found" /\ req[c].op = "read_draft"
       \/ pc[c] = "body" /\ req[c].op = "list_interactive_sessions"
    /\ Goto(c, "exit")
    /\ UNCHANGED <<req, store, heap, backup, iter, held, applied, overlap>>

Pop(c) ==
    /\ pc[c] = "body" /\ req[c].op = "delete_draft"
    /\ store' = [store EXCEPT ![req[c].key] = Absent]
    /\ Goto(c, "exit")
    /\ UNCHANGED <<req, heap, backup, iter, held, applied, overlap>>

\* (Mutant: the exception is swallowed and the call commits.)
RaiseSwallowed(c) ==
    /\ pc[c] = "found"
    /\ Goto(c, "exit")
    /\ UNCHANGED <<req, store, heap, backup, iter, held, applied, overlap>>

\* An exception leaves the body: a refused remote close, a failed build, an
\* unknown context, or, before, between or after the operations of the batch
\* that took effect, an exception of update_draft that is not a KsefMcpError.
Raise(c) ==
    /\ \/ pc[c] = "found"
       \/ pc[c] = "exit" /\ req[c].op = "update_draft"
    /\ Goto(c, "clearSessions")
    /\ UNCHANGED <<req, store, heap, backup, iter, held, applied, overlap>>

-----------------------------------------------------------------------------
\* __exit__ without an exception.
Commit(c) ==
    /\ pc[c] = "exit"
    /\ Goto(c, "returned")
    /\ backup' = [backup EXCEPT ![c] = NothingCopied]
    /\ held' = [held EXCEPT ![c] = Absent]
    /\ UNCHANGED <<req, store, heap, iter, applied, overlap>>

\* __exit__ with one: rollback clears and refills one dictionary at a time, and
\* copies the backup between the two.
ClearTable(c) ==
    /\ pc[c] \in {"clearSessions", "clearDrafts"}
    /\ store' = [k \in Keys |-> IF k \in Table(c) THEN Absent ELSE store[k]]
    /\ Goto(c, IF pc[c] = "clearSessions" THEN "restoreSessions" ELSE "restoreDrafts")
    /\ UNCHANGED <<req, heap, backup, iter, held, applied, overlap>>

\* (Mutants: a rollback that restores one of the two dictionaries only.)
RestoredDrafts(c)   == {k \in Table(c) \cap Drafts : backup[c][k] # Absent}
RestoredSessions(c) == {k \in Table(c) \cap Sessions : backup[c][k] # Absent}

\* dict.update: an entry another call filed since the clear stays unless the
\* backup has its key.
RestoredKeys(c) == {k \in Table(c) : backup[c][k] # Absent}

RestoreTable(c) ==
    /\ pc[c] \in {"restoreSessions", "restoreDrafts"}
    /\ store' = [k \in Keys |-> IF k \in RestoredKeys(c) THEN c ELSE store[k]]
    /\ heap' = [k \in Keys |-> IF k \in RestoredKeys(c)
                               THEN [heap[k] EXCEPT ![c] = backup[c][k]]
                               ELSE heap[k]]
    /\ \/ /\ pc[c] = "restoreSessions"
          /\ Goto(c, "clearDrafts")
          /\ UNCHANGED <<backup, held>>
       \/ /\ pc[c] = "restoreDrafts"
          /\ Goto(c, "raised")
          /\ backup' = [backup EXCEPT ![c] = NothingCopied]
          /\ held' = [held EXCEPT ![c] = Absent]
    /\ UNCHANGED <<req, iter, applied, overlap>>

-----------------------------------------------------------------------------
Enter(c)    == CopyEntry(c) \/ CopyEnd(c) \/ CopyFails(c)
Body(c)     == \/ Add(c) \/ OpenFails(c) \/ Lookup(c) \/ NotFound(c)
               \/ Write(c) \/ Observe(c) \/ Pop(c) \/ Raise(c)
Exit(c)     == Commit(c) \/ ClearTable(c) \/ RestoreTable(c)
Continue(c) == Enter(c) \/ Body(c) \/ Exit(c)

\* Every call has ended and no call is left to make.
Finished == /\ \A c \in Calls : pc[c] \in Ended
            /\ UNCHANGED vars

Next == (\E c \in Calls : Begin(c) \/ Continue(c)) \/ Finished

Spec == Init /\ [][Next]_vars

\* A worker thread that runs a call keeps running it.
FairSpec == Spec /\ \A c \in Calls : WF_vars(Continue(c))

-----------------------------------------------------------------------------
\* A call changes nothing before it has found an object, and no more than its
\* batch says.
InBatch(c) ==
    /\ applied[c] <= Batch[c]
    /\ pc[c] = "found" /\ req[c].op \in Writes => applied[c] < Size(c, req[c])
    /\ pc[c] \in {"idle", "body"} \cup Copying \/ req[c].op \notin Writes => applied[c] = 0

(***************************************************************************)
(* Every variable has the shape its comment gives it, a call under way has *)
(* a request that fits where it is, a call that found an object holds one, *)
(* and no call changes more than its batch says.                           *)
(***************************************************************************)
TypeOK ==
    /\ pc \in [Calls -> {"idle"} \cup Active \cup Ended]
    /\ req \in [Calls -> Requests \cup {NoRequest}]
    /\ store \in [Keys -> Calls \cup {Absent}]
    /\ heap \in [Keys -> [Calls -> SUBSET Changes]]
    /\ backup \in [Calls -> [Keys -> {Absent} \cup SUBSET Changes]]
    /\ iter \in [Calls -> SUBSET (Keys \X Calls)]
    /\ held \in [Calls -> Calls \cup {Absent}]
    /\ applied \in [Calls -> Nat]
    /\ overlap \in [Calls -> SUBSET Calls]
    /\ \A c \in Calls :
           /\ pc[c] \in Active => req[c] \in Requests
           /\ pc[c] = "found" => req[c].op \in Lookups /\ held[c] \in Calls
           /\ InBatch(c)

Quiet == ActiveCalls = {}
Returned(c, ops) == pc[c] = "returned" /\ req[c].op \in ops
Deleted(k) == \E d \in Calls : Returned(d, {"delete_draft"}) /\ req[d].key = k

\* The four ways the store can contradict what a call was told.
CreateLost(c) == Returned(c, Creates) /\ store[req[c].key] = Absent /\ ~Deleted(req[c].key)
DeleteUndone(c) == Returned(c, {"delete_draft"}) /\ store[req[c].key] # Absent
WriteLost(c) == Returned(c, Writes) /\ store[req[c].key] # Absent
                                    /\ ~(ChangesOf(c, req[c]) \subseteq Contents[req[c].key])
FailureShows(c) ==
    /\ pc[c] \in {"raised", "refused"}
    /\ \/ req[c].op \in Creates /\ store[req[c].key] # Absent
       \/ \E k \in Keys : store[k] # Absent /\ \E x \in Contents[k] : x[1] = c
Contradicted(c) == CreateLost(c) \/ DeleteUndone(c) \/ WriteLost(c) \/ FailureShows(c)

(***************************************************************************)
(* Whenever no call is under way the store is what the calls were told:    *)
(* nothing a call acknowledged is lost or undone, nothing a failed call    *)
(* did remains.  True of calls made one at a time.                         *)
(***************************************************************************)
Durable == Quiet => \A c \in Calls : ~Contradicted(c)

RolledBack == {c \in Calls : pc[c] \in RollingBack \cup {"raised"}}

(***************************************************************************)
(* What the unit of work still gives concurrent calls: a call is           *)
(* contradicted only if a call that rolled back overlapped it, or two      *)
(* calls that rolled back overlapped each other.  One failing call alone   *)
(* harms nothing that ended before it began or began after it ended.       *)
(***************************************************************************)
ExplainedLoss ==
    Quiet => \A c \in Calls : Contradicted(c) =>
        \/ overlap[c] \cap RolledBack # {}
        \/ \E r \in RolledBack : overlap[r] \cap RolledBack # {}

(***************************************************************************)
(* A draft whose create_draft returned can be used until it is deleted.    *)
(***************************************************************************)
CreatedStaysFiled == Quiet => \A c \in Calls :
    Returned(c, {"create_draft"}) => ~CreateLost(c)

(***************************************************************************)
(* list_interactive_sessions lists every session whose open returned: when *)
(* it is about to read the dictionary, none of them is missing from it.    *)
(***************************************************************************)
ListIsComplete == \A c, o \in Calls :
    pc[c] = "body" /\ req[c].op = "list_interactive_sessions"
        => ~(Returned(o, {"open_interactive_session"}) /\ CreateLost(o))

(***************************************************************************)
(* What list_interactive_sessions still promises concurrent calls: a       *)
(* session whose open returned is missing from what it reads only if a     *)
(* rollback overlapped the open or the listing, or two rollbacks met.      *)
(***************************************************************************)
ListingExplained == \A c, o \in Calls :
    /\ pc[c] = "body" /\ req[c].op = "list_interactive_sessions"
    /\ Returned(o, {"open_interactive_session"}) /\ CreateLost(o)
    => \/ (overlap[o] \cup overlap[c]) \cap RolledBack # {}
       \/ \E r \in RolledBack : overlap[r] \cap RolledBack # {}

(***************************************************************************)
(* Every call that begins ends: no step of another call can keep it from   *)
(* leaving __enter__, the body or __exit__.                                *)
(***************************************************************************)
CallsEnd == \A c \in Calls : pc[c] \in Active ~> pc[c] \in Ended

\* How far a call has come: its place, while it copies, what it has copied, and
\* while it changes an object, how many changes are left.
Stage(c) ==
    CASE pc[c] = "idle" -> 0
      [] pc[c] = "copySessions" -> 1
      [] pc[c] = "copyDrafts" -> 2
      [] pc[c] = "body" -> 3
      [] pc[c] = "found" -> 4
      [] pc[c] = "exit" -> 5
      [] pc[c] = "clearSessions" -> 6
      [] pc[c] = "restoreSessions" -> 7
      [] pc[c] = "clearDrafts" -> 8
      [] pc[c] = "restoreDrafts" -> 9
      [] OTHER -> 10

Remaining(c) == (10 - Stage(c)) * (Cardinality(Keys) + 1) - Cardinality(Copied(c))
                    + (Batch[c] - applied[c])

(***************************************************************************)
(* No step is taken in vain: a step brings the call that takes it nearer   *)
(* to its end, by a measure that is never negative, and takes nothing from *)
(* what any other call has left to do.  So no call makes more steps than   *)
(* ten times the number of keys and one, and its batch, whatever other     *)
(* calls do: nothing in the unit of work is retried.                       *)
(***************************************************************************)
StepsAdvance ==
    [][\E c \in Calls : /\ 0 <= Remaining(c)' /\ Remaining(c)' < Remaining(c)
                        /\ \A d \in Calls \ {c} : Remaining(d)' = Remaining(d)]_vars

-----------------------------------------------------------------------------
\* The store as an atomic one: while a call is between its snapshot and its
\* end, what that call started from.
Settled == LET past == {c \in Calls : pc[c] \in InBody \cup RollingBack}
           IN  IF past = {} THEN Contents ELSE backup[CHOOSE c \in past : TRUE]

Outcome == [c \in Calls |->
    IF pc[c] \in Ended THEN [req |-> req[c], end |-> pc[c]]
    ELSE [req |-> NoRequest, end |-> "pending"]]

Atomic == INSTANCE AtomicStore WITH contents <- Settled, outcome <- Outcome

(***************************************************************************)
(* Calls made one at a time implement the atomic store.                    *)
(***************************************************************************)
AtomicSpec == Atomic!Spec

\* The same for overlapping calls, each of which has its effect when its body
\* ends: what it changed before that counts as not yet made.
BodyEnded(c) == pc[c] \in {"exit", "returned"}

Visible == [k \in Keys |-> IF store[k] = Absent THEN Absent
                           ELSE {x \in heap[k][store[k]] : BodyEnded(x[1])}]

Effect == [c \in Calls |->
    IF BodyEnded(c) THEN [req |-> req[c], end |-> "returned"]
    ELSE [req |-> NoRequest, end |-> "pending"]]

Effects == INSTANCE AtomicStore WITH contents <- Visible, outcome <- Effect

\* Two overlapping calls work on one draft, and one of them changes it: the
\* other sees, and mixes its own changes with, a part of the batch.
Sharing == \E c \in Calls : \E d \in overlap[c] :
    /\ req[c].op = "update_draft" /\ req[d].op \in Lookups /\ req[c].key = req[d].key

\* A call that comes after a delete_draft it overlaps, on a draft it had found before.
Overtaken(c) ==
    /\ pc[c] = "found" /\ Effects!End(c, req[c], "returned") /\ UNCHANGED Visible
    /\ \E d \in overlap[c] : BodyEnded(d) /\ req[d].op = "delete_draft" /\ req[d].key = req[c].key

\* A read_draft that ends has read the draft as the atomic store has it.
ReadsVisible(c) ==
    pc[c] = "found" /\ pc'[c] = "exit" /\ req[c].op = "read_draft"
        => heap[req[c].key][held[c]] = Visible[req[c].key]

(***************************************************************************)
(* What overlapping calls may rely on.  As long as no call rolls back and  *)
(* no update_draft overlaps another call that looks up its draft, calls    *)
(* are atomic: each takes effect in one step, as a call of the atomic      *)
(* store, its whole batch at once, a read sees whole batches only, and     *)
(* nothing else happens to the store.  The one exception is a call that    *)
(* had found a draft before an overlapping delete_draft removed it: it     *)
(* returns as if it had come first, and does not bring the draft back.     *)
(***************************************************************************)
AtomicUnlessShared ==
    [][RolledBack' = {} /\ ~Sharing' =>
           \/ Effects!Next /\ \A c \in Calls : ReadsVisible(c)
           \/ UNCHANGED <<Visible, Effect>>
           \/ \E c \in Calls : Overtaken(c)]_vars
-----------------------------------------------------------------------------
\* What a call that is about to commit has done to the store it copied.
Performed(c) ==
    LET op == req[c].op
        k  == req[c].key
    IN  /\ op \in Creates => Contents = [backup[c] EXCEPT ![k] = {}]
        /\ op \in Writes => /\ backup[c][k] # Absent
                            /\ Contents = [backup[c] EXCEPT ![k] = @ \cup ChangesOf(c, req[c])]
        /\ op = "read_draft" => backup[c][k] # Absent /\ Contents = backup[c]
        /\ op = "list_interactive_sessions" => Contents = backup[c]
        /\ op = "delete_draft" => Contents = [backup[c] EXCEPT ![k] = Absent]

\* How far a call's copying, or its rolling back, has come.
CopiedSoFar(c) ==
    /\ iter[c] = Objects(Table(c))
    /\ \A k \in Keys : backup[c][k] \in {Absent, Contents[k]}
    /\ pc[c] = "copyDrafts" => \A k \in Sessions : backup[c][k] = Contents[k]

RestoredSoFar(c) ==
    /\ req[c].op \notin Unfailing
    /\ pc[c] = "restoreSessions" => \A k \in Sessions : store[k] = Absent
    /\ pc[c] \in {"clearDrafts", "restoreDrafts"} =>
           \A k \in Sessions : Contents[k] = backup[c][k]
    /\ pc[c] = "restoreDrafts" => \A k \in Drafts : store[k] = Absent

\* The changes a call has made so far.
Applied(c) == {c} \X (1..applied[c])

\* What a call knows of the store when no other call is under way.
CallInv(c) ==
    /\ pc[c] # "refused"
    /\ pc[c] \notin Active => backup[c] = NothingCopied
    /\ pc[c] \in Copying => CopiedSoFar(c)
    /\ pc[c] = "body" => Contents = backup[c]
    /\ pc[c] = "found" => /\ held[c] = store[req[c].key]
                          /\ backup[c][req[c].key] # Absent
                          /\ Contents = [backup[c] EXCEPT ![req[c].key] = @ \cup Applied(c)]
    /\ pc[c] = "exit" => Performed(c)
    /\ pc[c] \in RollingBack => RestoredSoFar(c)

FreshKey(c) ==
    pc[c] \in Active /\ req[c].op \in Creates =>
        \A d \in Calls : d # c /\ pc[d] # "idle" => req[d].key # req[c].key

(***************************************************************************)
(* The inductive invariant of calls made one at a time: at most one call   *)
(* is under way, a call in its body holds an exact copy of the store it    *)
(* found, and one past its body differs from it by its own effect only.    *)
(***************************************************************************)
SerialInv ==
    /\ \A c, d \in ActiveCalls : c = d
    /\ \A c \in Calls : CallInv(c) /\ FreshKey(c)
=============================================================================
