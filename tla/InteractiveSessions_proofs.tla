---------------------- MODULE InteractiveSessions_proofs ----------------------
(***************************************************************************)
(* What holds of session handles, sessions at KSeF and SDK clients for any *)
(* number of sessions and overlapping calls.                               *)
(***************************************************************************)
EXTENDS InteractiveSessions, TLAPS

(***************************************************************************)
(* A step keeps the type invariant: every handler of LocalSessionService   *)
(* and of the client around it leaves values of the right shape.           *)
(***************************************************************************)
LEMMA TypeStep == TypeOK /\ [Next]_vars => TypeOK'
<1> SUFFICES ASSUME TypeOK, [Next]_vars PROVE TypeOK'
  OBVIOUS
<1> USE DEF Active, Inside, Ended, Phase, shared, Goto
<1>1. ASSUME NEW c \in Calls, Begin(c) PROVE TypeOK'
  <2>1. overlap' \in [Calls -> SUBSET Calls]
    BY <1>1 DEF Begin, ActiveCalls, TypeOK
  <2>2. session' \in [Calls -> Sessions \cup {None}] /\ op' \in [Calls -> Ops \cup {"none"}]
    <3>1. PICK o \in Ops :
            /\ op' = [op EXCEPT ![c] = o]
            /\ \/ session' = session
               \/ \E s \in {t \in Sessions : handle[t] # "none"} \cup {None} :
                      session' = [session EXCEPT ![c] = s]
      BY <1>1 DEF Begin
    <3>2. op' \in [Calls -> Ops \cup {"none"}]
      BY <3>1 DEF TypeOK
    <3>3. session' \in [Calls -> Sessions \cup {None}]
      BY <3>1 DEF TypeOK
    <3> QED
      BY <3>2, <3>3
  <2>3. /\ pc' \in [Calls -> {"idle"} \cup Active \cup Ended]
        /\ \A d \in Calls : pc'[d] \in {"opened", "found", "marking"} => d # c /\ pc'[d] = pc[d]
    BY <1>1 DEF Begin, TypeOK
  <2>4. \A d \in Calls : d # c => session'[d] = session[d]
    BY <1>1 DEF Begin, TypeOK
  <2>5. UNCHANGED <<remote, handle, raced, client, backup, filed>>
    BY <1>1 DEF Begin
  <2> QED
    BY <2>1, <2>2, <2>3, <2>4, <2>5 DEF TypeOK
<1>2. ASSUME NEW c \in Calls, Client(c) PROVE TypeOK'
  <2>1. CASE CreateClient(c)
    BY <2>1 DEF CreateClient, TypeOK
  <2>2. CASE AuthenticationFails(c)
    BY <2>2 DEF AuthenticationFails, TypeOK
  <2>3. CASE CloseClient(c)
    BY <2>3 DEF CloseClient, TypeOK
  <2> QED
    BY <1>2, <2>1, <2>2, <2>3 DEF Client
<1>3. ASSUME NEW c \in Calls, Unit(c) PROVE TypeOK'
  <2>1. NoHandles \in [Sessions -> Phase]
    BY DEF NoHandles
  <2>2. CASE Enter(c) \/ EnterFails(c)
    BY <2>2 DEF Enter, EnterFails, TypeOK
  <2>3. CASE Commit(c)
    BY <2>1, <2>3 DEF Commit, TypeOK
  <2>4. CASE Rollback(c)
    <3>1. filed' \in [Calls -> BOOLEAN] /\ raced' \in BOOLEAN
      BY <2>4 DEF Rollback, TypeOK
    <3> QED
      BY <2>1, <2>4, <3>1 DEF Rollback, TypeOK
  <2> QED
    BY <1>3, <2>2, <2>3, <2>4 DEF Unit
<1>4. ASSUME NEW c \in Calls, Body(c) PROVE TypeOK'
  <2>1. CASE RemoteOpens(c)
    BY <2>1 DEF RemoteOpens, TypeOK
  <2>2. CASE AddState(c)
    BY <2>2 DEF AddState, TypeOK
  <2>3. CASE FindHandle(c)
    BY <2>3 DEF FindHandle, TypeOK
  <2>4. CASE RemoteCloses(c)
    BY <2>4 DEF RemoteCloses, TypeOK
  <2>5. CASE MarkClosed(c)
    BY <2>5 DEF MarkClosed, TypeOK
  <2>6. CASE RequestFails(c)
    BY <2>6 DEF RequestFails, TypeOK
  <2>7. CASE NotFound(c) \/ ListOpen(c)
    BY <2>7 DEF NotFound, ListOpen, TypeOK
  <2> QED
    BY <1>4, <2>1, <2>2, <2>3, <2>4, <2>5, <2>6, <2>7 DEF Body
<1>5. CASE UNCHANGED vars
  BY <1>5 DEF vars, TypeOK
<1> QED
  BY <1>1, <1>2, <1>3, <1>4, <1>5 DEF Next, Finished

(***************************************************************************)
(* The type invariant of sessions, handles and the calls on them.          *)
(***************************************************************************)
THEOREM SessionsTypeOK == Spec => []TypeOK
<1>1. Init => TypeOK
  <2> SUFFICES ASSUME Init PROVE TypeOK
    OBVIOUS
  <2>1. NoHandles \in [Sessions -> Phase] /\ remote \in [Sessions -> Phase]
    BY DEF Init, NoHandles, Phase
  <2>2. \A c \in Calls : pc[c] \notin {"opened", "found", "marking"}
    BY DEF Init
  <2>3. /\ overlap \in [Calls -> SUBSET Calls] /\ filed \in [Calls -> BOOLEAN]
        /\ raced \in BOOLEAN
    BY DEF Init
  <2> QED
    BY <2>1, <2>2, <2>3 DEF Init, TypeOK
<1> QED
  BY <1>1, TypeStep, PTL DEF Spec

(***************************************************************************)
(* Nothing the calls do makes a filed handle, or a copy of one in a        *)
(* snapshot, claim a close that KSeF has not done.                         *)
(***************************************************************************)
LEMMA ClosedAlways == Spec => []ClosedInv
<1>1. Init => ClosedInv
  BY DEF Init, ClosedInv, ClosedMeansClosed, NoHandles
<1>2. TypeOK /\ ClosedInv /\ [Next]_vars => ClosedInv'
  <2> SUFFICES ASSUME TypeOK, ClosedInv, [Next]_vars PROVE ClosedInv'
    OBVIOUS
  <2> USE DEF ClosedInv, ClosedMeansClosed, Goto, shared
  <2>1. ASSUME NEW c \in Calls, Begin(c) PROVE ClosedInv'
    BY <2>1 DEF Begin, TypeOK
  <2>2. ASSUME NEW c \in Calls, Client(c) PROVE ClosedInv'
    BY <2>2 DEF Client, CreateClient, AuthenticationFails, CloseClient, TypeOK
  <2>3. ASSUME NEW c \in Calls, Unit(c) PROVE ClosedInv'
    BY <2>3 DEF Unit, Enter, EnterFails, Commit, Rollback, NoHandles, TypeOK
  <2>4. ASSUME NEW c \in Calls, RemoteOpens(c) PROVE ClosedInv'
    BY <2>4 DEF RemoteOpens, TypeOK
  <2>5. ASSUME NEW c \in Calls, AddState(c) PROVE ClosedInv'
    BY <2>5 DEF AddState, TypeOK
  <2>6. ASSUME NEW c \in Calls, RemoteCloses(c) PROVE ClosedInv'
    BY <2>6 DEF RemoteCloses, TypeOK
  <2>7. ASSUME NEW c \in Calls, MarkClosed(c) PROVE ClosedInv'
    BY <2>7 DEF MarkClosed, TypeOK
  <2>8. ASSUME NEW c \in Calls, RequestFails(c) PROVE ClosedInv'
    BY <2>8 DEF RequestFails, TypeOK
  <2>9. ASSUME NEW c \in Calls, FindHandle(c) \/ NotFound(c) \/ ListOpen(c)
        PROVE  ClosedInv'
    BY <2>9 DEF FindHandle, NotFound, ListOpen, TypeOK
  <2>10. CASE UNCHANGED vars
    BY <2>10 DEF vars
  <2> QED
    BY <2>1, <2>2, <2>3, <2>4, <2>5, <2>6, <2>7, <2>8, <2>9, <2>10 DEF Next, Body, Finished
<1> QED
  BY <1>1, <1>2, SessionsTypeOK, PTL DEF Spec

(***************************************************************************)
(* Whatever overlaps and fails, a handle marked closed belongs to a        *)
(* session KSeF has closed: KSeF closes before the handle is marked, and a *)
(* rollback can only bring back what was true already.                     *)
(***************************************************************************)
THEOREM ClosedHandles == Spec => []ClosedMeansClosed
<1>1. ClosedInv => ClosedMeansClosed
  BY DEF ClosedInv
<1> QED
  BY <1>1, ClosedAlways, PTL

(***************************************************************************)
(* Every call works on an open SDK client and leaves none open, on every   *)
(* path through create(), the unit of work and the body.                   *)
(***************************************************************************)
THEOREM NoClientLeaks == Spec => []ClientsReleased
<1>1. Init => ClientInv
  BY DEF Init, ClientInv, ClientsReleased, Inside, Ended
<1>2. TypeOK /\ ClientInv /\ [Next]_vars => ClientInv'
  <2> SUFFICES ASSUME TypeOK, ClientInv, [Next]_vars PROVE ClientInv'
    OBVIOUS
  <2> USE DEF ClientInv, ClientsReleased, Inside, Ended, Goto
  <2>1. ASSUME NEW c \in Calls, Begin(c) PROVE ClientInv'
    BY <2>1 DEF Begin, TypeOK
  <2>2. ASSUME NEW c \in Calls, Client(c) PROVE ClientInv'
    <3>1. CASE CreateClient(c) \/ AuthenticationFails(c)
      <4>1. client'[c] = "open" /\ pc'[c] \notin {"returned", "raised"}
        BY <3>1 DEF CreateClient, AuthenticationFails, TypeOK
      <4>2. \A d \in Calls : d # c => client'[d] = client[d] /\ pc'[d] = pc[d]
        BY <3>1 DEF CreateClient, AuthenticationFails, TypeOK
      <4>3. op' = op
        BY <3>1 DEF CreateClient, AuthenticationFails
      <4> QED
        BY <4>1, <4>2, <4>3
    <3>2. CASE CloseClient(c)
      <4>1. client'[c] # "open" /\ pc'[c] \in {"returned", "raised"}
        BY <3>2 DEF CloseClient, TypeOK
      <4>2. \A d \in Calls : d # c => client'[d] = client[d] /\ pc'[d] = pc[d]
        BY <3>2 DEF CloseClient, TypeOK
      <4> QED
        BY <3>2, <4>1, <4>2 DEF CloseClient
    <3> QED
      BY <2>2, <3>1, <3>2 DEF Client
  <2>3. ASSUME NEW c \in Calls, Unit(c) PROVE ClientInv'
    BY <2>3 DEF Unit, Enter, EnterFails, Commit, Rollback, TypeOK
  <2>4. ASSUME NEW c \in Calls, Body(c) PROVE ClientInv'
    BY <2>4 DEF Body, RemoteOpens, AddState, FindHandle, NotFound, RemoteCloses,
                MarkClosed, RequestFails, ListOpen, TypeOK
  <2>5. CASE UNCHANGED vars
    BY <2>5 DEF vars
  <2> QED
    BY <2>1, <2>2, <2>3, <2>4, <2>5 DEF Next, Finished
<1>3. ClientInv => ClientsReleased
  BY DEF ClientInv
<1> QED
  BY <1>1, <1>2, <1>3, SessionsTypeOK, PTL DEF Spec

-----------------------------------------------------------------------------
(***************************************************************************)
(* Agreement, and why.  Calls under way together know of each other; a     *)
(* session is new to the store and to every other call until its handle is *)
(* filed; and until a call rolled back that others had overlapped, a       *)
(* difference between the store and KSeF is the business of a call that is *)
(* in the middle of it or failed.                                          *)
(***************************************************************************)
Together == \A c, d \in ActiveCalls : c # d => d \in overlap[c]

NotYetOpened == \A c \in Calls :
    \/ pc[c] = "idle"
    \/ op[c] = "open_interactive_session" /\ pc[c] \in {"create", "enter", "body"}
    => session[c] = None

NewToAll == \A s \in Sessions : remote[s] = "none" =>
    handle[s] = "none" /\ \A c \in Calls : backup[c][s] = "none" /\ session[c] # s

OpenedUnfiled == \A c \in Calls : pc[c] = "opened" =>
    /\ remote[session[c]] = "open" /\ handle[session[c]] = "none"
    /\ \A d \in Calls : /\ backup[d][session[c]] = "none"
                        /\ d # c => session[d] # session[c]

Busy == {"opened", "marking", "failing", "unwinding", "raised"}
Explained(s) == handle[s] = remote[s] \/ \E c \in Calls : session[c] = s /\ pc[c] \in Busy

SnapshotInv(c) ==
    /\ pc[c] \in {"found", "marking"} => filed[c]
    /\ pc[c] \in Inside /\ overlap[c] = {} =>
           \A s \in Sessions : backup[c][s] = handle[s] \/ session[c] = s

AgreementInv ==
    /\ Together /\ NotYetOpened /\ NewToAll /\ OpenedUnfiled
    /\ ~raced => /\ \A s \in Sessions : Explained(s)
                 /\ \A c \in Calls : SnapshotInv(c)

LEMMA TogetherStep == TypeOK /\ Together /\ [Next]_vars => Together'
<1> SUFFICES ASSUME TypeOK, Together, [Next]_vars PROVE Together'
  OBVIOUS
<1>1. ASSUME NEW c \in Calls, Begin(c) PROVE Together'
  <2>1. /\ pc[c] = "idle" /\ \A d \in Calls : d # c => pc'[d] = pc[d]
        /\ overlap' = [d \in Calls |->
               IF d = c THEN ActiveCalls
               ELSE IF d \in ActiveCalls THEN overlap[d] \cup {c} ELSE overlap[d]]
    BY <1>1 DEF Begin, Goto, TypeOK
  <2>2. \A d \in Calls : d \in ActiveCalls' => d = c \/ d \in ActiveCalls
    BY <2>1 DEF ActiveCalls
  <2> SUFFICES ASSUME NEW d \in ActiveCalls', NEW e \in ActiveCalls', d # e
               PROVE  e \in overlap'[d]
    BY DEF Together
  <2>3. d \in Calls /\ e \in Calls
    BY DEF ActiveCalls
  <2> QED
    BY <2>1, <2>2, <2>3 DEF Together
<1>2. ASSUME overlap' = overlap, ActiveCalls' \subseteq ActiveCalls PROVE Together'
  BY <1>2 DEF Together
<1>3. ASSUME NEW c \in Calls, Client(c) \/ Unit(c) \/ Body(c) PROVE Together'
  <2>1. overlap' = overlap
    BY <1>3 DEF Client, CreateClient, AuthenticationFails, CloseClient, Unit, Enter,
                EnterFails, Commit, Rollback, Body, RemoteOpens, AddState, FindHandle,
                NotFound, RemoteCloses, MarkClosed, RequestFails, ListOpen
  <2>2. pc[c] \in Active /\ \A d \in Calls : d # c => pc'[d] = pc[d]
    BY <1>3 DEF Client, CreateClient, AuthenticationFails, CloseClient, Unit, Enter,
                EnterFails, Commit, Rollback, Body, RemoteOpens, AddState, FindHandle,
                NotFound, RemoteCloses, MarkClosed, RequestFails, ListOpen, Goto, TypeOK,
                Active, Inside
  <2> QED
    BY <1>2, <2>1, <2>2 DEF ActiveCalls
<1>4. CASE UNCHANGED vars
  BY <1>2, <1>4 DEF vars, ActiveCalls
<1> QED
  BY <1>1, <1>3, <1>4 DEF Next, Finished

\* What a step does to one call, and to no other.
LEMMA OneCallMoves ==
    ASSUME TypeOK, NEW c \in Calls, Begin(c) \/ Client(c) \/ Unit(c) \/ Body(c)
    PROVE  \A d \in Calls : d # c => /\ pc'[d] = pc[d] /\ op'[d] = op[d]
                                     /\ session'[d] = session[d] /\ backup'[d] = backup[d]
<1>1. CASE Begin(c)
  BY <1>1 DEF Begin, Goto, TypeOK
<1>2. CASE Client(c)
  BY <1>2 DEF Client, CreateClient, AuthenticationFails, CloseClient, Goto, TypeOK
<1>3. CASE Unit(c)
  BY <1>3 DEF Unit, Enter, EnterFails, Commit, Rollback, Goto, TypeOK
<1>4. CASE Body(c)
  BY <1>4 DEF Body, RemoteOpens, AddState, FindHandle, NotFound, RemoteCloses,
              MarkClosed, RequestFails, ListOpen, Goto, TypeOK
<1> QED
  BY <1>1, <1>2, <1>3, <1>4

LEMMA NotYetOpenedStep == TypeOK /\ NotYetOpened /\ [Next]_vars => NotYetOpened'
<1> SUFFICES ASSUME TypeOK, NotYetOpened, [Next]_vars PROVE NotYetOpened'
  OBVIOUS
<1> DEFINE Before(d) == \/ pc[d] = "idle"
                        \/ op[d] = "open_interactive_session" /\ pc[d] \in {"create", "enter", "body"}
<1>1. ASSUME NEW c \in Calls, Begin(c) \/ Client(c) \/ Unit(c) \/ Body(c) PROVE NotYetOpened'
  <2>1. /\ pc'[c] # "idle"
        /\ op'[c] = "open_interactive_session" /\ pc'[c] \in {"create", "enter", "body"}
           => session'[c] = session[c] /\ Before(c)
    <3>1. CASE Begin(c)
      BY <3>1 DEF Begin, Goto, TypeOK, Ops
    <3>2. CASE Client(c)
      BY <3>2 DEF Client, CreateClient, AuthenticationFails, CloseClient, Goto, TypeOK
    <3>3. CASE Unit(c)
      BY <3>3 DEF Unit, Enter, EnterFails, Commit, Rollback, Goto, TypeOK
    <3>4. CASE Body(c)
      BY <3>4 DEF Body, RemoteOpens, AddState, FindHandle, NotFound, RemoteCloses,
                  MarkClosed, RequestFails, ListOpen, Goto, TypeOK
    <3> QED
      BY <1>1, <3>1, <3>2, <3>3, <3>4
  <2> QED
    BY <1>1, <2>1, OneCallMoves DEF NotYetOpened
<1>2. CASE UNCHANGED vars
  BY <1>2 DEF vars, NotYetOpened
<1> QED
  BY <1>1, <1>2 DEF Next, Finished

LEMMA NewToAllStep == TypeOK /\ NewToAll /\ OpenedUnfiled /\ [Next]_vars => NewToAll'
<1> SUFFICES ASSUME TypeOK, NewToAll, OpenedUnfiled, [Next]_vars PROVE NewToAll'
  OBVIOUS
<1> USE DEF Goto, shared
<1>1. ASSUME NEW c \in Calls, Begin(c) PROVE NewToAll'
  <2>1. UNCHANGED <<remote, handle, backup>> /\ session'[c] \in {session[c], None}
            \cup {t \in Sessions : handle[t] # "none"}
    BY <1>1 DEF Begin, TypeOK
  <2> QED
    BY <1>1, <2>1, OneCallMoves, SessionsAssumption DEF NewToAll
<1>2. ASSUME NEW c \in Calls, Client(c) PROVE NewToAll'
  BY <1>2 DEF Client, CreateClient, AuthenticationFails, CloseClient, NewToAll
<1>3. ASSUME NEW c \in Calls, Unit(c) PROVE NewToAll'
  BY <1>3 DEF Unit, Enter, EnterFails, Commit, Rollback, NoHandles, NewToAll, TypeOK
<1>4. ASSUME NEW c \in Calls, NEW s \in Sessions, remote[s] = "none",
             remote' = [remote EXCEPT ![s] = "open"],
             session' = [session EXCEPT ![c] = s], UNCHANGED <<handle, backup>>
      PROVE  NewToAll'
  BY <1>4 DEF NewToAll, TypeOK
<1>5. ASSUME NEW c \in Calls, RemoteOpens(c) PROVE NewToAll'
  BY <1>4, <1>5 DEF RemoteOpens
<1>6. ASSUME NEW c \in Calls, session[c] \in Sessions, UNCHANGED <<handle, backup, session>>,
             remote' \in {remote, [remote EXCEPT ![session[c]] = "closed"]}
      PROVE  NewToAll'
  BY <1>6 DEF NewToAll, TypeOK
<1>7. ASSUME NEW c \in Calls, RemoteCloses(c) PROVE NewToAll'
  BY <1>6, <1>7 DEF RemoteCloses, TypeOK
<1>8. ASSUME NEW c \in Calls, RequestFails(c) PROVE NewToAll'
  <2>1. CASE pc[c] = "body" /\ UNCHANGED <<remote, session>>
    BY <1>8, <2>1 DEF RequestFails, NewToAll
  <2>2. CASE \E s \in Sessions : /\ remote[s] = "none"
                                 /\ remote' = [remote EXCEPT ![s] = "open"]
                                 /\ session' = [session EXCEPT ![c] = s]
    BY <1>4, <1>8, <2>2 DEF RequestFails
  <2>3. CASE pc[c] = "found"
    BY <1>6, <1>8, <2>3 DEF RequestFails, TypeOK
  <2> QED
    BY <1>8, <2>1, <2>2, <2>3 DEF RequestFails
<1>9. ASSUME NEW c \in Calls, AddState(c) PROVE NewToAll'
  <2>1. session[c] \in Sessions /\ remote[session[c]] = "open"
    BY <1>9 DEF AddState, OpenedUnfiled, TypeOK
  <2> QED
    BY <1>9, <2>1 DEF AddState, NewToAll, TypeOK
<1>10. ASSUME NEW c \in Calls, MarkClosed(c) PROVE NewToAll'
  <2>1. session[c] \in Sessions
    BY <1>10 DEF MarkClosed, TypeOK
  <2>2. remote[session[c]] # "none"
    BY <2>1 DEF NewToAll
  <2> QED
    BY <1>10, <2>1, <2>2 DEF MarkClosed, NewToAll, TypeOK
<1>11. ASSUME NEW c \in Calls, FindHandle(c) \/ NotFound(c) \/ ListOpen(c) PROVE NewToAll'
  BY <1>11 DEF FindHandle, NotFound, ListOpen, NewToAll
<1>12. CASE UNCHANGED vars
  BY <1>12 DEF vars, NewToAll
<1> QED
  BY <1>1, <1>2, <1>3, <1>5, <1>7, <1>8, <1>9, <1>10, <1>11, <1>12 DEF Next, Body, Finished

LEMMA OpenedStep ==
    ASSUME TypeOK, NotYetOpened, NewToAll, OpenedUnfiled, [Next]_vars
    PROVE  OpenedUnfiled'
<1> DEFINE Unfiled(d) == /\ remote[session[d]] = "open" /\ handle[session[d]] = "none"
                         /\ \A e \in Calls : /\ backup[e][session[d]] = "none"
                                             /\ e # d => session[e] # session[d]
<1>1. ASSUME NEW c \in Calls, Begin(c) \/ Client(c) \/ Unit(c) \/ Body(c) PROVE OpenedUnfiled'
  <2> SUFFICES ASSUME NEW d \in Calls, pc'[d] = "opened" PROVE Unfiled(d)'
    BY DEF OpenedUnfiled
  <2>1. CASE d = c
    <3>1. RemoteOpens(c)
      BY <1>1, <2>1 DEF Begin, Client, CreateClient, AuthenticationFails, CloseClient, Unit,
          Enter, EnterFails, Commit, Rollback, Body, AddState, FindHandle, NotFound,
          RemoteCloses, MarkClosed, RequestFails, ListOpen, Goto, TypeOK
    <3>2. PICK s \in Sessions : /\ remote[s] = "none"
                                /\ remote' = [remote EXCEPT ![s] = "open"]
                                /\ session' = [session EXCEPT ![c] = s]
      BY <3>1 DEF RemoteOpens
    <3>3. UNCHANGED <<handle, backup>>
      BY <3>1 DEF RemoteOpens
    <3>4. handle[s] = "none" /\ \A e \in Calls : backup[e][s] = "none" /\ session[e] # s
      BY <3>2 DEF NewToAll
    <3>5. session'[c] = s /\ remote'[s] = "open"
      BY <3>2 DEF TypeOK
    <3>6. \A e \in Calls : e # c => session'[e] = session[e]
      BY <3>2 DEF TypeOK
    <3> QED
      BY <2>1, <3>3, <3>4, <3>5, <3>6
  <2>2. CASE d # c
    <3>1. /\ pc[d] = "opened" /\ session'[d] = session[d] /\ backup'[d] = backup[d]
          /\ \A e \in Calls : e # c => session'[e] = session[e] /\ backup'[e] = backup[e]
      BY <1>1, <2>2, OneCallMoves
    <3>2. Unfiled(d) /\ session[d] \in Sessions
      BY <3>1 DEF OpenedUnfiled, TypeOK
    <3> DEFINE s == session[d]
    <3> HIDE DEF s
    <3>3. /\ s \in Sessions /\ remote[s] = "open" /\ handle[s] = "none"
          /\ \A e \in Calls : backup[e][s] = "none"
          /\ session[c] # s
      BY <2>2, <3>2 DEF s
    <3>4. remote'[s] = "open" /\ handle'[s] = "none" /\ backup'[c][s] = "none" /\ session'[c] # s
      <4> USE DEF Goto, shared
      <4>1. CASE Begin(c)
        <5>1. session'[c] \in {session[c], None} \cup {t \in Sessions : handle[t] # "none"}
          BY <4>1 DEF Begin, TypeOK
        <5> QED
          BY <3>3, <4>1, <5>1, SessionsAssumption DEF Begin
      <4>2. CASE Client(c)
        BY <3>3, <4>2 DEF Client, CreateClient, AuthenticationFails, CloseClient
      <4>3. CASE Unit(c)
        BY <3>3, <4>3 DEF Unit, Enter, EnterFails, Commit, Rollback, NoHandles, TypeOK
      <4>4. CASE RemoteOpens(c) \/ RequestFails(c)
        BY <3>3, <4>4 DEF RemoteOpens, RequestFails, TypeOK
      <4>5. CASE AddState(c) \/ MarkClosed(c) \/ RemoteCloses(c)
        BY <3>3, <4>5 DEF AddState, MarkClosed, RemoteCloses, TypeOK
      <4>6. CASE FindHandle(c) \/ NotFound(c) \/ ListOpen(c)
        BY <3>3, <4>6 DEF FindHandle, NotFound, ListOpen
      <4> QED
        BY <1>1, <4>1, <4>2, <4>3, <4>4, <4>5, <4>6 DEF Body
    <3>5. session'[d] = s /\ \A e \in Calls : backup[e][s] = "none" /\ (e # d => session[e] # s)
      BY <3>1, <3>2 DEF s
    <3>6. \A e \in Calls : backup'[e][s] = "none" /\ (e # d => session'[e] # s)
      BY <3>1, <3>4, <3>5
    <3> QED
      BY <3>4, <3>5, <3>6
  <2> QED
    BY <2>1, <2>2
<1>2. CASE UNCHANGED vars
  BY <1>2 DEF vars, OpenedUnfiled
<1> QED
  BY <1>1, <1>2 DEF Next, Finished

\* No other call is under way with one that none overlapped.
LEMMA Alone ==
    ASSUME Together, NEW c \in Calls, pc[c] \in Active, overlap[c] = {},
           NEW d \in Calls, pc[d] \in Active
    PROVE  d = c
BY DEF Together, ActiveCalls

LEMMA ExplainedStep ==
    ASSUME TypeOK, ClosedInv, NotYetOpened, OpenedUnfiled, ~raced',
           \A s \in Sessions : Explained(s), \A c \in Calls : SnapshotInv(c), [Next]_vars
    PROVE  \A s \in Sessions : Explained(s)'
<1> USE DEF Goto, shared
<1>1. ASSUME NEW c \in Calls, Begin(c) \/ Client(c) \/ Unit(c) \/ Body(c), NEW s \in Sessions
      PROVE  Explained(s)'
  <2>1. ASSUME NEW d \in Calls, d # c, session[d] = s, pc[d] \in Busy PROVE Explained(s)'
    BY <1>1, <2>1, OneCallMoves DEF Explained
  <2>2. ASSUME session[c] = s, pc[c] \in Busy, session'[c] = s, pc'[c] \in Busy
        PROVE  Explained(s)'
    BY <2>2 DEF Explained
  <2>3. CASE Begin(c)
    <3>1. pc[c] \notin Busy /\ handle' = handle /\ remote' = remote
      BY <2>3 DEF Begin, Busy
    <3> QED
      BY <2>1, <3>1 DEF Explained
  <2>4. CASE Client(c)
    <3>1. handle' = handle /\ remote' = remote /\ session' = session
      BY <2>4 DEF Client, CreateClient, AuthenticationFails, CloseClient
    <3>2. pc[c] \in Busy => pc'[c] \in Busy
      BY <2>4 DEF Client, CreateClient, AuthenticationFails, CloseClient, Busy, TypeOK
    <3> QED
      BY <2>1, <2>2, <3>1, <3>2 DEF Explained
  <2>5. CASE Enter(c) \/ EnterFails(c) \/ Commit(c) \/ FindHandle(c) \/ NotFound(c) \/ ListOpen(c)
    <3>1. /\ handle' = handle /\ remote' = remote /\ pc[c] \notin Busy
      BY <2>5 DEF Enter, EnterFails, Commit, FindHandle, NotFound, ListOpen, Busy
    <3> QED
      BY <2>1, <3>1 DEF Explained
  <2>6. CASE Rollback(c)
    <3>1. /\ pc[c] = "failing" /\ handle' = backup[c] /\ remote' = remote /\ session' = session
          /\ pc'[c] = "unwinding" /\ overlap[c] = {}
      BY <2>6 DEF Rollback, TypeOK
    <3>2. backup[c][s] = handle[s] \/ session[c] = s
      BY <3>1 DEF SnapshotInv, Inside
    <3>3. pc[c] \in Busy /\ pc'[c] \in Busy
      BY <3>1 DEF Busy
    <3> QED
      BY <2>1, <2>2, <3>1, <3>2, <3>3 DEF Explained
  <2>7. CASE RemoteOpens(c) \/ (RequestFails(c) /\ pc[c] = "body")
    <3>1. pc[c] = "body" /\ pc'[c] \in Busy /\ handle' = handle
      BY <2>7 DEF RemoteOpens, RequestFails, Busy, TypeOK
    <3>2. session'[c] = s \/ remote'[s] = remote[s]
      BY <2>7 DEF RemoteOpens, RequestFails, TypeOK
    <3>3. pc[c] \notin Busy
      BY <3>1 DEF Busy
    <3> QED
      BY <2>1, <3>1, <3>2, <3>3 DEF Explained
  <2>8. CASE RemoteCloses(c) \/ (RequestFails(c) /\ pc[c] = "found")
    <3>1. /\ pc[c] = "found" /\ pc'[c] \in Busy /\ handle' = handle /\ session' = session
      BY <2>8 DEF RemoteCloses, RequestFails, Busy, TypeOK
    <3>2. session'[c] = s \/ remote'[s] = remote[s]
      BY <2>8, <3>1 DEF RemoteCloses, RequestFails, TypeOK
    <3>3. pc[c] \notin Busy
      BY <3>1 DEF Busy
    <3> QED
      BY <2>1, <3>1, <3>2, <3>3 DEF Explained
  <2>9. CASE AddState(c)
    <3>1. /\ remote' = remote /\ handle'[session[c]] = "open" /\ remote[session[c]] = "open"
          /\ s # session[c] => handle'[s] = handle[s]
      BY <2>9 DEF AddState, OpenedUnfiled, TypeOK
    <3> QED
      BY <2>1, <3>1 DEF Explained
  <2>10. CASE MarkClosed(c)
    <3>1. pc[c] = "marking" /\ filed[c] /\ remote[session[c]] = "closed" /\ session[c] \in Sessions
      BY <2>10 DEF MarkClosed, SnapshotInv, ClosedInv, TypeOK
    <3>2. /\ remote' = remote /\ handle'[session[c]] = "closed"
          /\ s # session[c] => handle'[s] = handle[s]
      BY <2>10, <3>1 DEF MarkClosed, TypeOK
    <3> QED
      BY <2>1, <3>1, <3>2 DEF Explained
  <2> QED
    BY <1>1, <2>3, <2>4, <2>5, <2>6, <2>7, <2>8, <2>9, <2>10 DEF Unit, Body, RequestFails
<1>2. CASE UNCHANGED vars
  BY <1>2 DEF vars, Explained
<1> QED
  BY <1>1, <1>2 DEF Next, Finished

LEMMA SnapshotStep ==
    ASSUME TypeOK, Together, NotYetOpened, ~raced',
           \A c \in Calls : SnapshotInv(c), [Next]_vars
    PROVE  \A c \in Calls : SnapshotInv(c)'
<1> USE DEF Goto, shared
<1>1. ASSUME NEW c \in Calls, Begin(c) \/ Client(c) \/ Unit(c) \/ Body(c),
             NEW d \in Calls, d # c
      PROVE  SnapshotInv(d)'
  <2>1. pc'[d] = pc[d] /\ session'[d] = session[d] /\ backup'[d] = backup[d]
    BY <1>1, OneCallMoves
  <2>2. CASE Begin(c)
    <3>1. handle' = handle /\ filed' = filed
      BY <2>2 DEF Begin
    <3>2. overlap'[d] = {} => overlap[d] = {}
      BY <1>1, <2>2 DEF Begin
    <3> QED
      BY <2>1, <3>1, <3>2 DEF SnapshotInv
  <2>3. CASE ~Begin(c)
    <3>1. overlap' = overlap
      BY <1>1, <2>3 DEF Client, CreateClient, AuthenticationFails, CloseClient, Unit, Enter,
                EnterFails, Commit, Rollback, Body, RemoteOpens, AddState, FindHandle,
                NotFound, RemoteCloses, MarkClosed, RequestFails, ListOpen
    <3>2. pc[c] \in Active
      BY <1>1, <2>3 DEF Client, CreateClient, AuthenticationFails, CloseClient, Unit, Enter,
                EnterFails, Commit, Rollback, Body, RemoteOpens, AddState, FindHandle,
                NotFound, RemoteCloses, MarkClosed, RequestFails, ListOpen, Active, Inside
    <3>3. pc[d] \in Inside => overlap[d] # {}
      BY <1>1, <3>2, Alone DEF Active
    <3>4. CASE Rollback(c)
      <4>1. overlap[c] = {}
        BY <3>4 DEF Rollback, TypeOK
      <4>2. pc[d] \notin Active
        BY <1>1, <3>2, <4>1, Alone
      <4> QED
        BY <2>1, <4>2 DEF SnapshotInv, Active, Inside
    <3>5. CASE ~Rollback(c)
      <4>1. filed'[d] = filed[d]
        BY <1>1, <2>3, <3>5 DEF Client, CreateClient, AuthenticationFails, CloseClient, Unit,
                  Enter, EnterFails, Commit, Body, RemoteOpens, AddState, FindHandle,
                  NotFound, RemoteCloses, MarkClosed, RequestFails, ListOpen, TypeOK
      <4> QED
        BY <2>1, <3>1, <3>3, <4>1 DEF SnapshotInv
    <3> QED
      BY <3>4, <3>5
  <2> QED
    BY <2>2, <2>3
<1>2. ASSUME NEW c \in Calls, pc'[c] \notin Inside PROVE SnapshotInv(c)'
  BY <1>2 DEF SnapshotInv, Inside
<1>3. ASSUME NEW c \in Calls, Begin(c) \/ Client(c) \/ Unit(c) \/ Body(c)
      PROVE  SnapshotInv(c)'
  <2>1. CASE Begin(c)
    BY <1>2, <2>1 DEF Begin, TypeOK, Inside
  <2>2. CASE Client(c)
    BY <1>2, <2>2 DEF Client, CreateClient, AuthenticationFails, CloseClient, TypeOK, Inside
  <2>3. CASE EnterFails(c) \/ Commit(c) \/ Rollback(c)
    BY <1>2, <2>3 DEF EnterFails, Commit, Rollback, TypeOK, Inside
  <2>4. CASE Enter(c)
    BY <2>4 DEF Enter, SnapshotInv, TypeOK
  <2>5. CASE RemoteOpens(c) \/ RequestFails(c) \/ RemoteCloses(c)
    <3>1. UNCHANGED <<handle, backup, filed, overlap>> /\ pc[c] \in {"body", "found"}
      BY <2>5 DEF RemoteOpens, RequestFails, RemoteCloses
    <3>2. pc'[c] = "marking" => pc[c] = "found"
      BY <2>5 DEF RemoteOpens, RequestFails, RemoteCloses, TypeOK
    <3>3. session'[c] = session[c] \/ session[c] = None
      BY <2>5 DEF RemoteOpens, RequestFails, RemoteCloses, NotYetOpened
    <3>4. pc'[c] # "found"
      BY <2>5 DEF RemoteOpens, RequestFails, RemoteCloses, TypeOK
    <3>5. ASSUME overlap[c] = {}, NEW s \in Sessions, session'[c] # s
          PROVE  backup[c][s] = handle[s]
      BY <3>1, <3>3, <3>5, SessionsAssumption DEF SnapshotInv, Inside
    <3> QED
      BY <3>1, <3>2, <3>4, <3>5 DEF SnapshotInv, Inside
  <2>6. CASE AddState(c) \/ MarkClosed(c)
    <3>1. /\ UNCHANGED <<session, backup, filed, overlap>> /\ pc[c] \in {"opened", "marking"}
          /\ pc'[c] = "exit" /\ \A s \in Sessions : s # session[c] => handle'[s] = handle[s]
      BY <2>6 DEF AddState, MarkClosed, TypeOK
    <3> QED
      BY <3>1 DEF SnapshotInv, Inside
  <2>7. CASE FindHandle(c) \/ NotFound(c) \/ ListOpen(c)
    <3>1. UNCHANGED <<session, handle, backup, overlap>> /\ pc[c] = "body" /\ pc'[c] # "marking"
      BY <2>7 DEF FindHandle, NotFound, ListOpen, TypeOK
    <3>2. pc'[c] = "found" => filed'[c]
      BY <2>7 DEF FindHandle, NotFound, ListOpen, TypeOK
    <3> QED
      BY <3>1, <3>2 DEF SnapshotInv, Inside
  <2> QED
    BY <1>3, <2>1, <2>2, <2>3, <2>4, <2>5, <2>6, <2>7 DEF Unit, Body
<1>4. CASE UNCHANGED vars
  BY <1>4 DEF vars, SnapshotInv
<1> QED
  BY <1>1, <1>3, <1>4 DEF Next, Finished

LEMMA AgreementAlways == Spec => []AgreementInv
<1>1. Init => AgreementInv
  <2> SUFFICES ASSUME Init PROVE AgreementInv
    OBVIOUS
  <2> USE DEF Init
  <2>1. Together
    BY DEF Together, ActiveCalls, Active, Inside
  <2>2. NotYetOpened /\ OpenedUnfiled
    BY DEF NotYetOpened, OpenedUnfiled
  <2>3. NewToAll
    BY SessionsAssumption DEF NewToAll, NoHandles
  <2>4. /\ \A s \in Sessions : Explained(s)
        /\ \A c \in Calls : SnapshotInv(c)
    BY DEF Explained, SnapshotInv, Inside, NoHandles
  <2> QED
    BY <2>1, <2>2, <2>3, <2>4 DEF AgreementInv
<1>2. TypeOK /\ ClosedInv /\ AgreementInv /\ [Next]_vars => AgreementInv'
  <2> SUFFICES ASSUME TypeOK, ClosedInv, AgreementInv, [Next]_vars PROVE AgreementInv'
    OBVIOUS
  <2>1. Together' /\ NotYetOpened' /\ NewToAll' /\ OpenedUnfiled'
    BY TogetherStep, NotYetOpenedStep, NewToAllStep, OpenedStep DEF AgreementInv
  <2>2. ~raced' => ~raced
    BY DEF Next, Begin, Client, CreateClient, AuthenticationFails, CloseClient, Unit, Enter,
           EnterFails, Commit, Rollback, Body, RemoteOpens, AddState, FindHandle, NotFound,
           RemoteCloses, MarkClosed, RequestFails, ListOpen, Finished, shared, vars
  <2>3. ASSUME ~raced'
        PROVE  /\ \A s \in Sessions : Explained(s)'
               /\ \A c \in Calls : SnapshotInv(c)'
    BY <2>2, <2>3, ExplainedStep, SnapshotStep DEF AgreementInv
  <2> QED
    BY <2>1, <2>3 DEF AgreementInv
<1> QED
  BY <1>1, <1>2, SessionsTypeOK, ClosedAlways, PTL DEF Spec

(***************************************************************************)
(* At rest the store and KSeF agree on every session that no failed call   *)
(* was about, for any number of sessions and calls, until a call rolls     *)
(* back that others had overlapped: opens and closes that overlap and      *)
(* succeed never part the two.                                             *)
(***************************************************************************)
THEOREM StoreAgreesWithKSeF == Spec => []Agreement
<1>1. AgreementInv => Agreement
  BY DEF AgreementInv, Agreement, Explained, Raised, ActiveCalls, Busy, Active, Inside
<1> QED
  BY <1>1, AgreementAlways, PTL

(***************************************************************************)
(* CloseStays, and why: a call that none overlapped has not moved a handle *)
(* before it is past its body, so that what it rolls back to is what is    *)
(* filed.                                                                  *)
(***************************************************************************)
Exact(c) ==
    pc[c] \in {"body", "opened", "found", "marking", "failing"} /\ overlap[c] = {} =>
        backup[c] = handle

Stays(c) ==
    /\ op[c] = "close_interactive_session" /\ pc[c] \in {"exit", "leaving", "returned"} =>
           session[c] \in Sessions /\ handle[session[c]] = "closed"
    /\ pc[c] = "opened" => op[c] = "open_interactive_session"

StaysInv == ~raced => \A c \in Calls : Exact(c) /\ Stays(c)

LEMMA ExactStep ==
    ASSUME TypeOK, Together, ~raced', \A c \in Calls : Exact(c), [Next]_vars
    PROVE  \A c \in Calls : Exact(c)'
<1> USE DEF Goto, shared
<1>1. ASSUME NEW c \in Calls, Begin(c) \/ Client(c) \/ Unit(c) \/ Body(c),
             NEW d \in Calls, d # c
      PROVE  Exact(d)'
  <2>1. pc'[d] = pc[d] /\ backup'[d] = backup[d]
    BY <1>1, OneCallMoves
  <2>2. CASE Begin(c)
    BY <1>1, <2>1, <2>2 DEF Begin, Exact, TypeOK
  <2>3. CASE ~Begin(c)
    <3>1. overlap' = overlap /\ pc[c] \in Active
      BY <1>1, <2>3 DEF Client, CreateClient, AuthenticationFails, CloseClient, Unit, Enter,
                EnterFails, Commit, Rollback, Body, RemoteOpens, AddState, FindHandle,
                NotFound, RemoteCloses, MarkClosed, RequestFails, ListOpen, Active, Inside
    <3>2. pc[d] \in Active => overlap[d] # {}
      BY <1>1, <3>1, Alone
    <3> QED
      BY <2>1, <3>1, <3>2 DEF Exact, Active, Inside
  <2> QED
    BY <2>2, <2>3
<1>2. ASSUME NEW c \in Calls, Begin(c) \/ Client(c) \/ Unit(c) \/ Body(c)
      PROVE  Exact(c)'
  <2>1. CASE Begin(c)
    BY <2>1 DEF Begin, Exact, TypeOK
  <2>2. CASE Client(c)
    BY <2>2 DEF Client, CreateClient, AuthenticationFails, CloseClient, Exact, TypeOK
  <2>3. CASE Unit(c)
    BY <2>3 DEF Unit, Enter, EnterFails, Commit, Rollback, Exact, TypeOK
  <2>4. CASE RemoteOpens(c) \/ FindHandle(c) \/ NotFound(c) \/ RemoteCloses(c)
             \/ RequestFails(c) \/ ListOpen(c)
    <3>1. UNCHANGED <<handle, backup, overlap>> /\ pc[c] \in {"body", "found"}
      BY <2>4 DEF RemoteOpens, FindHandle, NotFound, RemoteCloses, RequestFails, ListOpen
    <3> QED
      BY <3>1 DEF Exact
  <2>5. CASE AddState(c) \/ MarkClosed(c)
    BY <2>5 DEF AddState, MarkClosed, Exact, TypeOK
  <2> QED
    BY <1>2, <2>1, <2>2, <2>3, <2>4, <2>5 DEF Body
<1>3. CASE UNCHANGED vars
  BY <1>3 DEF vars, Exact
<1> QED
  BY <1>1, <1>2, <1>3 DEF Next, Finished

LEMMA StaysStep ==
    ASSUME TypeOK, OpenedUnfiled, ~raced', \A c \in Calls : SnapshotInv(c),
           \A c \in Calls : Exact(c) /\ Stays(c), [Next]_vars
    PROVE  \A c \in Calls : Stays(c)'
<1> USE DEF Goto, shared
<1>1. ASSUME NEW c \in Calls, Begin(c) \/ Client(c) \/ Unit(c) \/ Body(c),
             NEW s \in Sessions, handle[s] = "closed"
      PROVE  handle'[s] = "closed"
  <2>1. CASE Rollback(c)
    <3>1. pc[c] = "failing" /\ overlap[c] = {} /\ handle' = backup[c]
      BY <2>1 DEF Rollback, TypeOK
    <3> QED
      BY <1>1, <3>1 DEF Exact
  <2>2. CASE AddState(c)
    <3>1. handle[session[c]] = "none"
      BY <2>2 DEF AddState, OpenedUnfiled
    <3> QED
      BY <1>1, <2>2, <3>1 DEF AddState, TypeOK
  <2>3. CASE MarkClosed(c)
    BY <1>1, <2>3 DEF MarkClosed, TypeOK
  <2>4. CASE ~(Rollback(c) \/ AddState(c) \/ MarkClosed(c))
    <3>1. handle' = handle
      BY <1>1, <2>4 DEF Begin, Client, CreateClient, AuthenticationFails, CloseClient, Unit,
                Enter, EnterFails, Commit, Body, RemoteOpens, FindHandle, NotFound,
                RemoteCloses, RequestFails, ListOpen
    <3> QED
      BY <1>1, <3>1
  <2> QED
    BY <2>1, <2>2, <2>3, <2>4
<1>2. ASSUME NEW c \in Calls, Begin(c) \/ Client(c) \/ Unit(c) \/ Body(c),
             NEW d \in Calls, d # c
      PROVE  Stays(d)'
  <2>1. pc'[d] = pc[d] /\ op'[d] = op[d] /\ session'[d] = session[d]
    BY <1>2, OneCallMoves
  <2> QED
    BY <1>1, <1>2, <2>1 DEF Stays
<1>3. ASSUME NEW c \in Calls, Begin(c) \/ Client(c) \/ Unit(c) \/ Body(c)
      PROVE  Stays(c)'
  <2>1. CASE MarkClosed(c)
    <3>1. pc[c] = "marking" /\ filed[c] /\ session[c] \in Sessions
      BY <2>1 DEF MarkClosed, SnapshotInv, TypeOK
    <3>2. pc'[c] = "exit" /\ session'[c] = session[c] /\ handle'[session[c]] = "closed"
      BY <2>1, <3>1 DEF MarkClosed, TypeOK
    <3>3. session'[c] \in Sessions /\ handle'[session'[c]] = "closed" /\ pc'[c] # "opened"
      BY <3>1, <3>2
    <3> QED
      BY <3>3 DEF Stays
  <2>2. CASE Commit(c) \/ CloseClient(c)
    <3>1. /\ UNCHANGED <<op, session, handle>>
          /\ pc'[c] \in {"leaving", "returned"} => pc[c] \in {"exit", "leaving"}
          /\ pc'[c] \notin {"exit", "opened"}
      BY <2>2 DEF Commit, CloseClient, TypeOK
    <3> QED
      BY <3>1 DEF Stays
  <2>3. CASE ~(MarkClosed(c) \/ Commit(c) \/ CloseClient(c))
    <3>1. /\ pc'[c] \in {"exit", "leaving", "returned"} => op'[c] # "close_interactive_session"
          /\ pc'[c] = "opened" => op'[c] = "open_interactive_session"
      <4>1. CASE Begin(c)
        BY <4>1 DEF Begin, TypeOK
      <4>2. CASE Client(c)
        BY <2>3, <4>2 DEF Client, CreateClient, AuthenticationFails, TypeOK
      <4>3. CASE Unit(c)
        BY <2>3, <4>3 DEF Unit, Enter, EnterFails, Rollback, TypeOK
      <4>4. CASE AddState(c)
        BY <4>4 DEF AddState, Stays, TypeOK
      <4>5. CASE Body(c) /\ ~AddState(c)
        BY <2>3, <4>5 DEF Body, RemoteOpens, FindHandle, NotFound, RemoteCloses,
                  RequestFails, ListOpen, TypeOK
      <4> QED
        BY <1>3, <4>1, <4>2, <4>3, <4>4, <4>5
    <3> QED
      BY <3>1 DEF Stays
  <2> QED
    BY <2>1, <2>2, <2>3
<1>4. CASE UNCHANGED vars
  BY <1>4 DEF vars, Stays
<1> QED
  BY <1>2, <1>3, <1>4 DEF Next, Finished

(***************************************************************************)
(* A close that returned shows for good, for any number of sessions and    *)
(* calls, until a call rolls back that others had overlapped.              *)
(***************************************************************************)
THEOREM ClosesStay == Spec => []CloseStays
<1>1. Init => StaysInv
  BY DEF Init, StaysInv, Exact, Stays
<1>2. TypeOK /\ AgreementInv /\ StaysInv /\ [Next]_vars => StaysInv'
  <2> SUFFICES ASSUME TypeOK, AgreementInv, StaysInv, [Next]_vars, ~raced'
               PROVE  \A c \in Calls : Exact(c)' /\ Stays(c)'
    BY DEF StaysInv
  <2>1. ~raced
    BY DEF Next, Begin, Client, CreateClient, AuthenticationFails, CloseClient, Unit, Enter,
           EnterFails, Commit, Rollback, Body, RemoteOpens, AddState, FindHandle, NotFound,
           RemoteCloses, MarkClosed, RequestFails, ListOpen, Finished, shared, vars
  <2>2. \A c \in Calls : Exact(c)'
    BY <2>1, ExactStep DEF AgreementInv, StaysInv
  <2>3. \A c \in Calls : Stays(c)'
    BY <2>1, StaysStep DEF AgreementInv, StaysInv
  <2> QED
    BY <2>2, <2>3
<1>3. StaysInv => CloseStays
  BY DEF StaysInv, Stays, CloseStays
<1> QED
  BY <1>1, <1>2, <1>3, SessionsTypeOK, AgreementAlways, PTL DEF Spec

(***************************************************************************)
(* Until a call rolls back that others had overlapped, the listing shows   *)
(* no session as open whose close returned: that rollback is the only way  *)
(* a closed session comes to be listed.                                    *)
(***************************************************************************)
THEOREM ListedAreOpenUntilRaced == Spec => [](~raced => ListedAreOpen)
<1>1. CloseStays => (~raced => ListedAreOpen)
  BY DEF CloseStays, ListedAreOpen
<1> QED
  BY <1>1, ClosesStay, PTL
=============================================================================
