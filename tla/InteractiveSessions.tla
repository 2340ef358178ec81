------------------------- MODULE InteractiveSessions -------------------------
(***************************************************************************)
(* Interactive sessions: their handles in the store, their state at KSeF,  *)
(* and the calls of LocalSessionService (services/sessions.py) that move   *)
(* both, each through an SDK client of its own (AuthenticatedClientFactory *)
(* .create, services/authenticated_client.py).                             *)
(*                                                                         *)
(* The snapshot and the rollback of the unit of work are one step each     *)
(* here: what their own steps expose is the subject of UnitOfWork.  A      *)
(* rollback still files copies, so that a call which looked a handle up    *)
(* before it goes on with an object that is not in the store any more.     *)
(*                                                                         *)
(* KSeF and the SDK are external.  A request may fail without effect, or   *)
(* take effect and lose its answer; a session opened is a new one.         *)
(***************************************************************************)
CONSTANTS
    Sessions,   \* sessions KSeF may open, each with its handle
    Calls,      \* tool calls, each made once
    None        \* "no session"

ASSUME SessionsAssumption == None \notin Sessions

Ops == {"open_interactive_session", "close_interactive_session",
        "list_interactive_sessions"}
Phase == {"none", "open", "closed"}     \* of a handle, by date_closed; of a session

Inside  == {"body", "opened", "found", "marking", "exit", "failing"}
Active  == Inside \cup {"create", "enter", "leaving", "unwinding"}
Ended   == {"returned", "raised"}

VARIABLES
    remote,     \* the sessions at KSeF
    handle,     \* the session handles filed in the store
    pc,         \* where each call is
    op,         \* which tool each call is
    session,    \* the session each call opens or closes
    client,     \* the SDK client of each call
    backup,     \* each call's snapshot of the handles
    filed,      \* the handle a call found is the one filed in the store
    overlap,    \* history: the calls under way together with each call
    raced       \* history: a call rolled back while or after others overlapped it

vars == <<remote, handle, pc, op, session, client, backup, filed, overlap, raced>>
shared == <<remote, handle, raced>>

ActiveCalls == {c \in Calls : pc[c] \in Active}
NoHandles   == [s \in Sessions |-> "none"]

Init ==
    /\ remote = [s \in Sessions |-> "none"]
    /\ handle = NoHandles
    /\ pc = [c \in Calls |-> "idle"]
    /\ op = [c \in Calls |-> "none"]
    /\ session = [c \in Calls |-> None]
    /\ client = [c \in Calls |-> "none"]
    /\ backup = [c \in Calls |-> NoHandles]
    /\ filed = [c \in Calls |-> FALSE]
    /\ overlap = [c \in Calls |-> {}]
    /\ raced = FALSE

-----------------------------------------------------------------------------
Goto(c, where) == pc' = [pc EXCEPT ![c] = where]

\* A close names a session whose handle is filed, or a handle nobody knows.
Begin(c) ==
    /\ pc[c] = "idle"
    /\ \E o \in Ops :
           /\ op' = [op EXCEPT ![c] = o]
           /\ Goto(c, IF o = "list_interactive_sessions" THEN "enter" ELSE "create")
           /\ \/ o # "close_interactive_session" /\ UNCHANGED session
              \/ /\ o = "close_interactive_session"
                 /\ \E s \in {t \in Sessions : handle[t] # "none"} \cup {None} :
                        session' = [session EXCEPT ![c] = s]
    /\ overlap' = [d \in Calls |->
           IF d = c THEN ActiveCalls
           ELSE IF d \in ActiveCalls THEN overlap[d] \cup {c} ELSE overlap[d]]
    /\ UNCHANGED <<shared, client, backup, filed>>

-----------------------------------------------------------------------------
\* create(): the client is opened, then authenticated; the finally clause closes
\* it on the way out.
CreateClient(c) ==
    /\ pc[c] = "create"
    /\ client' = [client EXCEPT ![c] = "open"]
    /\ Goto(c, "enter")
    /\ UNCHANGED <<shared, op, session, backup, filed, overlap>>

\* (Mutant: no finally clause.)
AuthenticationLeaks(c) ==
    /\ pc[c] = "create"
    /\ client' = [client EXCEPT ![c] = "open"]
    /\ Goto(c, "raised")
    /\ UNCHANGED <<shared, op, session, backup, filed, overlap>>

AuthenticationFails(c) ==
    /\ pc[c] = "create"
    /\ client' = [client EXCEPT ![c] = "open"]
    /\ Goto(c, "unwinding")
    /\ UNCHANGED <<shared, op, session, backup, filed, overlap>>

\* An exception in client.close() reaches the caller, after a commit too.
CloseClient(c) ==
    /\ pc[c] \in {"leaving", "unwinding"}
    /\ client' = [client EXCEPT ![c] = IF @ = "open" THEN "closed" ELSE @]
    /\ \/ pc[c] = "leaving" /\ Goto(c, "returned")
       \/ pc[c] = "unwinding" /\ Goto(c, "raised")
       \/ client[c] = "open" /\ Goto(c, "raised")
    /\ UNCHANGED <<shared, op, session, backup, filed, overlap>>

-----------------------------------------------------------------------------
\* The unit of work.
Enter(c) ==
    /\ pc[c] = "enter"
    /\ backup' = [backup EXCEPT ![c] = handle]
    /\ Goto(c, "body")
    /\ UNCHANGED <<shared, op, session, client, filed, overlap>>

\* The snapshot fails when another call changes what is copied.
EnterFails(c) ==
    /\ pc[c] = "enter" /\ ActiveCalls # {c}
    /\ Goto(c, "unwinding")
    /\ UNCHANGED <<shared, op, session, client, backup, filed, overlap>>

Commit(c) ==
    /\ pc[c] = "exit"
    /\ Goto(c, "leaving")
    /\ backup' = [backup EXCEPT ![c] = NoHandles]
    /\ filed' = [filed EXCEPT ![c] = FALSE]
    /\ UNCHANGED <<shared, op, session, client, overlap>>

Rollback(c) ==
    /\ pc[c] = "failing"
    /\ handle' = backup[c]
    /\ filed' = [d \in Calls |-> FALSE]
    /\ raced' = (raced \/ overlap[c] # {})
    /\ Goto(c, "unwinding")
    /\ backup' = [backup EXCEPT ![c] = NoHandles]
    /\ UNCHANGED <<remote, op, session, client, overlap>>

-----------------------------------------------------------------------------
\* open_interactive_session
RemoteOpens(c) ==
    /\ pc[c] = "body" /\ op[c] = "open_interactive_session"
    /\ \E s \in Sessions :
           /\ remote[s] = "none"
           /\ remote' = [remote EXCEPT ![s] = "open"]
           /\ session' = [session EXCEPT ![c] = s]
    /\ Goto(c, "opened")
    /\ UNCHANGED <<handle, raced, op, client, backup, filed, overlap>>

AddState(c) ==
    /\ pc[c] = "opened"
    /\ handle' = [handle EXCEPT ![session[c]] = "open"]
    /\ Goto(c, "exit")
    /\ UNCHANGED <<remote, raced, op, session, client, backup, filed, overlap>>

\* (Mutant: get_state in place of get_state_or_raise.)
FindAny(c) ==
    /\ pc[c] = "body" /\ op[c] = "close_interactive_session"
    /\ filed' = [filed EXCEPT ![c] = TRUE]
    /\ Goto(c, "found")
    /\ UNCHANGED <<shared, op, session, client, backup, overlap>>

\* close_interactive_session.  It does not look at is_open.
FindHandle(c) ==
    /\ pc[c] = "body" /\ op[c] = "close_interactive_session"
    /\ session[c] \in Sessions /\ handle[session[c]] # "none"
    /\ filed' = [filed EXCEPT ![c] = TRUE]
    /\ Goto(c, "found")
    /\ UNCHANGED <<shared, op, session, client, backup, overlap>>

NotFound(c) ==
    /\ pc[c] = "body" /\ op[c] = "close_interactive_session"
    /\ session[c] \in Sessions => handle[session[c]] = "none"
    /\ Goto(c, "failing")
    /\ UNCHANGED <<shared, op, session, client, backup, filed, overlap>>

\* (Mutant: the handle is marked before the request is made.)
MarksFirst(c) ==
    /\ pc[c] = "found"
    /\ handle' = IF filed[c] THEN [handle EXCEPT ![session[c]] = "closed"] ELSE handle
    /\ Goto(c, "marking")
    /\ UNCHANGED <<remote, raced, op, session, client, backup, filed, overlap>>

RemoteCloses(c) ==
    /\ pc[c] = "found"
    /\ remote' = [remote EXCEPT ![session[c]] = "closed"]
    /\ Goto(c, "marking")
    /\ UNCHANGED <<handle, raced, op, session, client, backup, filed, overlap>>

\* (Mutant: the repository hands out a copy of the handle.)
MarksCopy(c) ==
    /\ pc[c] = "marking"
    /\ Goto(c, "exit")
    /\ UNCHANGED <<shared, op, session, client, backup, filed, overlap>>

MarkClosed(c) ==
    /\ pc[c] = "marking"
    /\ handle' = IF filed[c] THEN [handle EXCEPT ![session[c]] = "closed"] ELSE handle
    /\ Goto(c, "exit")
    /\ UNCHANGED <<remote, raced, op, session, client, backup, filed, overlap>>

\* A request is refused, or takes effect and its answer is lost.
RequestFails(c) ==
    /\ \/ /\ pc[c] = "body" /\ op[c] = "open_interactive_session"
          /\ \/ UNCHANGED <<remote, session>>
             \/ \E s \in Sessions :
                    /\ remote[s] = "none"
                    /\ remote' = [remote EXCEPT ![s] = "open"]
                    /\ session' = [session EXCEPT ![c] = s]
       \/ /\ pc[c] = "found"
          /\ remote' \in {remote, [remote EXCEPT ![session[c]] = "closed"]}
          /\ UNCHANGED session
    /\ Goto(c, "failing")
    /\ UNCHANGED <<handle, raced, op, client, backup, filed, overlap>>

ListOpen(c) ==
    /\ pc[c] = "body" /\ op[c] = "list_interactive_sessions"
    /\ Goto(c, "exit")
    /\ UNCHANGED <<shared, op, session, client, backup, filed, overlap>>

Client(c) == CreateClient(c) \/ AuthenticationFails(c) \/ CloseClient(c)
Unit(c)   == Enter(c) \/ EnterFails(c) \/ Commit(c) \/ Rollback(c)
Body(c)   == \/ RemoteOpens(c) \/ AddState(c) \/ FindHandle(c) \/ NotFound(c)
             \/ RemoteCloses(c) \/ MarkClosed(c) \/ RequestFails(c) \/ ListOpen(c)

Finished == /\ \A c \in Calls : pc[c] \in Ended
            /\ UNCHANGED vars

Next == (\E c \in Calls : Begin(c) \/ Client(c) \/ Unit(c) \/ Body(c)) \/ Finished

Spec == Init /\ [][Next]_vars

-----------------------------------------------------------------------------
(***************************************************************************)
(* Every variable has the shape its comment gives it; a call that works on *)
(* a session names one.                                                    *)
(***************************************************************************)
TypeOK ==
    /\ remote \in [Sessions -> Phase] /\ handle \in [Sessions -> Phase]
    /\ pc \in [Calls -> {"idle"} \cup Active \cup Ended]
    /\ op \in [Calls -> Ops \cup {"none"}]
    /\ session \in [Calls -> Sessions \cup {None}]
    /\ client \in [Calls -> {"none", "open", "closed"}]
    /\ backup \in [Calls -> [Sessions -> Phase]]
    /\ filed \in [Calls -> BOOLEAN] /\ overlap \in [Calls -> SUBSET Calls]
    /\ raced \in BOOLEAN
    /\ \A c \in Calls : pc[c] \in {"opened", "found", "marking"} => session[c] \in Sessions

(***************************************************************************)
(* A handle marked closed is the handle of a session KSeF has closed,      *)
(* whatever calls overlap, fail and roll back: no rollback and no write to *)
(* a handle that was replaced can make the store claim a close that did    *)
(* not happen.                                                             *)
(***************************************************************************)
ClosedMeansClosed == \A s \in Sessions : handle[s] = "closed" => remote[s] = "closed"

(***************************************************************************)
(* The client of a call is open as long as the call is in the unit of work *)
(* and until it ends, and no call that ended leaves one open.              *)
(***************************************************************************)
ClientsReleased == \A c \in Calls :
    /\ pc[c] \in Inside /\ op[c] # "list_interactive_sessions" => client[c] = "open"
    /\ pc[c] \in Ended => client[c] # "open"

\* Why: what a call closed at KSeF stays closed, and no snapshot knows better.
ClosedInv ==
    /\ ClosedMeansClosed
    /\ \A c \in Calls, s \in Sessions : backup[c][s] = "closed" => remote[s] = "closed"
    /\ \A c \in Calls : pc[c] = "marking" => remote[session[c]] = "closed"

\* Why: a client is open from before the unit of work until CloseClient.
ClientInv == ClientsReleased /\ \A c \in Calls :
    pc[c] = "enter" /\ op[c] # "list_interactive_sessions" => client[c] = "open"

Raised(s) == \E c \in Calls : pc[c] = "raised" /\ session[c] = s

(***************************************************************************)
(* At rest, the store and KSeF agree on every session that no failed call  *)
(* was about, unless a call rolled back that others had overlapped.        *)
(***************************************************************************)
Agreement ==
    ActiveCalls = {} /\ ~raced =>
        \A s \in Sessions : handle[s] = remote[s] \/ Raised(s)

(***************************************************************************)
(* A handle whose close_interactive_session returned is closed, also while *)
(* other calls are under way, until a call rolls back that others had      *)
(* overlapped: neither a call that raises with no other under way nor one  *)
(* that writes or opens beside it brings the handle back.  The listing     *)
(* shows a closed session (ListedAreOpen) for no other reason.             *)
(***************************************************************************)
CloseStays == ~raced => \A c \in Calls :
    pc[c] = "returned" /\ op[c] = "close_interactive_session" => handle[session[c]] = "closed"

(***************************************************************************)
(* list_interactive_sessions, about to read the handles, finds none open   *)
(* whose close_interactive_session has returned.                           *)
(***************************************************************************)
ListedAreOpen == \A c, d \in Calls :
    /\ pc[c] = "body" /\ op[c] = "list_interactive_sessions"
    /\ pc[d] = "returned" /\ op[d] = "close_interactive_session"
    => handle[session[d]] # "open"
=============================================================================
